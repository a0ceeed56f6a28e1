------------------------------ MODULE PhoneEntry ------------------------------
(***************************************************************************)
(* The number that is signed in: PhoneNumberVerificationVC's text field and  *)
(* country label next to the sign-in flow of SignIn.                         *)
(*                                                                         *)
(* LoginApiCalling copies country and number into its closure; the closure   *)
(* stores them under Mobilenumber, then stores the customer of the answer,   *)
(* and hands the number to the code screen, whose resend button insists on   *)
(* one.  Meanwhile the field can change: the spinner does not cover the      *)
(* keyboard.  The field's limit looks at where an edit starts, not at the    *)
(* length it leaves.                                                        *)
(***************************************************************************)
EXTENDS SignIn

CONSTANTS
  Digits,        \* characters that can be typed or pasted
  Countries,     \* phone codes of the country picker
  DefaultCountry,\* the country the picker starts with
  NumberLength,  \* 10 in the app
  MaxInsert,     \* bound: characters inserted by one edit
  MaxText        \* bound: characters in the field

ASSUME PhoneAssumption ==
  /\ DefaultCountry \in Countries
  /\ NumberLength \in Nat \ {0} /\ MaxInsert \in Nat /\ MaxText \in Nat

VARIABLES
  field,     \* the screen: country label and text field
  captured,  \* per request, the number its closure has captured
  mobile,    \* UserDefaults: Mobilenumber
  shown,     \* OTPVerificationVC.mobileNumber of each instance
  issued     \* the server's record: the number each customer id belongs to

phoneVars == <<field, captured, mobile, shown, issued>>
pvars == <<vars, phoneVars>>

NoNumber == [country |-> "none", text |-> <<>>]
Numbers  == {n \in [country : Countries, text : Seq(Digits)] : Len(n.text) = NumberLength}

NewField    == [country |-> DefaultCountry, text |-> <<>>]
NoneCaptured == [r \in ReqIds |-> NoNumber]
NoneShown    == [v \in OtpVCs |-> NoNumber]

-----------------------------------------------------------------------------
(* The screen's own handlers. *)

shouldChangeCharactersIn(location) == location < NumberLength

\* UITextField: the characters of the range are replaced by the string.
Replace(text, location, length, string) ==
  SubSeq(text, 1, location) \o string \o SubSeq(text, location + length + 1, Len(text))

Insertions == UNION {[1..k -> Digits] : k \in 0..MaxInsert}

\* A keystroke, a deletion, a paste, anywhere in the text: with or without a
\* spinner, unless an alert is up.
EditNumber ==
  /\ Shows("Phone") /\ ~alert
  /\ \E location \in 0..Len(field.text) :
     \E length \in 0..Len(field.text) - location, string \in Insertions :
       LET text == Replace(field.text, location, length, string) IN
       /\ shouldChangeCharactersIn(location)
       /\ Len(text) <= MaxText
       /\ field' = [field EXCEPT !.text = text]
  /\ UNCHANGED <<vars, captured, mobile, shown, issued>>

\* The country list covers the screen; the country chosen is on the label when the
\* list is gone.
OpenCountryList == showCountriesList /\ UNCHANGED phoneVars

didSelectCountry ==
  /\ didSelectRow
  /\ \E c \in Countries : field' = [field EXCEPT !.country = c]
  /\ UNCHANGED <<captured, mobile, shown, issued>>

\* Slip: only numbers that are too short are refused.
validateSignupCredentials_NoMaximum == Len(field.text) >= NumberLength

validateSignupCredentials == Len(field.text) = NumberLength

\* Submitbtnref, both branches.  A request that was really sent has captured the
\* number as it stood.
Submitbtnref ==
  \/ /\ validateSignupCredentials
     /\ LoginApiCalling
     /\ captured' = [r \in ReqIds |->
                       IF request'[r].kind = "LogIN" /\ ~InFlight(r) THEN field ELSE captured[r]]
     /\ UNCHANGED <<field, mobile, shown, issued>>
  \/ /\ ~validateSignupCredentials
     /\ SubmitInvalidNumber
     /\ UNCHANGED phoneVars

-----------------------------------------------------------------------------
(* The closure passed to API_LogIN. *)

\* Slip: the closure reads the label and the text field again.
ClosureNumber_Reread(r) == field

\* The closure uses the constants it has captured.
ClosureNumber(r) == captured[r]

\* The server issues a customer id to one number only.
MayIssue(c, n) == c \in Customers => issued[c] \in {NoNumber, n}
Issues(c, n) == IF c \in Customers THEN [issued EXCEPT ![c] = n] ELSE issued

PhoneCompletion(r) ==
  /\ LoginCompletion(r)
  /\ captured' = [captured EXCEPT ![r] = NoNumber]
  /\ \/ /\ stack' # stack
        /\ MayIssue(defaults'.CustomerID, captured[r])
        /\ issued' = Issues(defaults'.CustomerID, captured[r])
        /\ mobile' = ClosureNumber(r)
        /\ shown' = [shown EXCEPT ![stack'[Len(stack')]] = ClosureNumber(r)]
     \/ /\ stack' = stack
        /\ UNCHANGED <<mobile, shown, issued>>
  /\ UNCHANGED field

\* What ends with the process.
Forget == /\ field' = NewField
          /\ captured' = NoneCaptured
          /\ shown' = NoneShown

\* The process is killed inside that closure, after the number is stored and
\* before the customer is.
KillInLogin(r) ==
  /\ request[r].kind = "LogIN"
  /\ "ok" \in LoginVerdicts[request[r].served]
  /\ \E c \in CustomerIDs : MayIssue(c, captured[r]) /\ issued' = Issues(c, captured[r])
  /\ mobile' = ClosureNumber(r)
  /\ Die /\ Forget
  /\ UNCHANGED <<defaults, accepted, posted>>

\* The server issues an id that this phone is not told of: the answer was lost, or
\* another phone has signed in.
IssueUnseen ==
  /\ \E c \in Customers, country \in Countries, text \in [1..NumberLength -> Digits] :
       /\ issued[c] = NoNumber
       /\ issued' = [issued EXCEPT ![c] = [country |-> country, text |-> text]]
  /\ UNCHANGED <<vars, field, captured, mobile, shown>>

-----------------------------------------------------------------------------
(* The rest of SignIn. *)

OpenPhone ==
  /\ agreeContinueBtnref
  /\ field' = NewField
  /\ UNCHANGED <<captured, mobile, shown, issued>>

ForgetNumber == ProcessEnd /\ Forget /\ UNCHANGED <<mobile, issued>>

KeepNumber ==
  /\ \/ NavigationScreens
     \/ ScreenTouch
     \/ EditUserProfileMethod
     \/ \E vc \in OtpVCs : action(vc)
     \/ \E r \in ReqIds :
          RegisterCompletion(r) \/ ResendCompletion(r) \/ UpdateCompletion(r) \/ Serve(r)
     \/ \E c \in Customers : ServeLate(c)
  /\ UNCHANGED phoneVars

PInit ==
  /\ Init
  /\ field = NewField
  /\ captured = NoneCaptured
  /\ mobile = NoNumber
  /\ shown = NoneShown
  /\ issued = [c \in Customers |-> NoNumber]

PNext ==
  \/ EditNumber
  \/ OpenCountryList
  \/ didSelectCountry
  \/ Submitbtnref
  \/ \E r \in ReqIds : PhoneCompletion(r) \/ KillInLogin(r)
  \/ OpenPhone
  \/ ForgetNumber
  \/ KeepNumber
  \/ IssueUnseen

PSpec == PInit /\ [][PNext]_pvars

-----------------------------------------------------------------------------
(* Properties. *)

\* Every variable keeps its type.  In particular only numbers of the right length
\* are ever captured, stored, shown or issued, although the field holds longer
\* ones: its limit lets a paste, or an insertion before the last character, grow it.
PhoneTypeOK ==
  /\ field \in [country : Countries, text : Seq(Digits)]
  /\ captured \in [ReqIds -> Numbers \cup {NoNumber}]
  /\ mobile \in Numbers \cup {NoNumber}
  /\ shown \in [OtpVCs -> Numbers \cup {NoNumber}]
  /\ issued \in [Customers -> Numbers \cup {NoNumber}]

\* A sign-in request in flight has captured a complete number.  On a code screen,
\* and in a signed-in session for as long as it lasts, the stored number is the
\* one the server issued the stored customer id to, and the code screen shows that
\* number: whatever was typed behind the spinner, and although a kill between the
\* two writes leaves a number and a customer that do not belong together for the
\* next launch to find.
NumberOfCustomer ==
  /\ \A r \in ReqIds : request[r].kind = "LogIN" => captured[r] \in Numbers
  /\ \A vc \in OtpVCs : InStack(vc) => shown[vc] = mobile /\ mobile \in Numbers
  /\ (defaults.IsUserLogIned \/ \E vc \in OtpVCs : InStack(vc)) =>
       (defaults.CustomerID \in Customers => issued[defaults.CustomerID] = mobile)
=============================================================================
