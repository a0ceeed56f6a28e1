--------------------------- MODULE PhoneEntryProofs ---------------------------
(***************************************************************************)
(* The number of PhoneNumberVerificationVC, for any digits, countries and     *)
(* number length, any number of customers, code screens and requests and any  *)
(* edits of the field: whatever is typed behind the spinner and wherever the  *)
(* process ends, number and customer belong together when they are used.      *)
(***************************************************************************)
EXTENDS PhoneEntry, SignInProofs

-----------------------------------------------------------------------------
(* The flow of SignIn. *)

\* The end of the process inside the login closure is a kill of a running process.
LEMMA PhoneStep ==
  ASSUME IInv, [PNext]_pvars PROVE [Next]_vars
<1>1. CASE EditNumber \/ IssueUnseen
  BY <1>1 DEF EditNumber, IssueUnseen
<1>2. CASE Submitbtnref \/ OpenPhone \/ OpenCountryList \/ didSelectCountry
  BY <1>2 DEF Submitbtnref, OpenPhone, OpenCountryList, didSelectCountry, Next, PhoneTouch
<1>3. ASSUME NEW r \in ReqIds, PhoneCompletion(r) PROVE [Next]_vars
  BY <1>3 DEF PhoneCompletion, Next, Completion
<1>4. ASSUME NEW r \in ReqIds, KillInLogin(r) PROVE [Next]_vars
  <2>1. root = "nav"
    BY <1>4 DEF KillInLogin, IInv, RequestShape, InFlight
  <2> QED
    BY <1>4, <2>1 DEF KillInLogin, Next, ProcessEnd, Kill
<1>5. CASE ForgetNumber \/ KeepNumber
  BY <1>5 DEF ForgetNumber, KeepNumber, Next, Completion
<1>6. CASE UNCHANGED pvars
  BY <1>6 DEF pvars
<1> QED
  BY <1>1, <1>2, <1>3, <1>4, <1>5, <1>6 DEF PNext

LEMMA PhoneInductive == PSpec => [](TypeOK /\ IInv)
<1>1. PInit => TypeOK /\ IInv
  BY TypeInit, IInvInit DEF PInit
<1>2. TypeOK /\ IInv /\ [PNext]_pvars => TypeOK' /\ IInv'
  BY PhoneStep, TypeStep, IInvStep
<1> QED
  BY <1>1, <1>2, PTL DEF PSpec

\* With its field, its closures and its stored number the app is still the sign-in
\* flow of SignIn, so every theorem about SignIn holds of it.
THEOREM NumberKeepsSignIn == PSpec => Spec
<1>1. PInit => Init
  BY DEF PInit
<1>2. IInv /\ [PNext]_pvars => [Next]_vars
  BY PhoneStep
<1> QED
  BY <1>1, <1>2, PhoneInductive, PTL DEF PSpec, Spec

-----------------------------------------------------------------------------
(* Types. *)

FieldType == [country : Countries, text : Seq(Digits)]

\* An edit leaves a text of digits.
LEMMA ReplaceType ==
  ASSUME NEW text \in Seq(Digits), NEW location \in 0..Len(text),
         NEW length \in 0..Len(text) - location, NEW string \in Insertions
  PROVE  Replace(text, location, length, string) \in Seq(Digits)
<1>1. Len(text) \in Nat /\ location \in Nat /\ length \in Nat /\ location + length <= Len(text)
  BY LenProperties
<1>2. SubSeq(text, 1, location) \in Seq(Digits)
  BY <1>1, SubSeqProperties
<1>3. SubSeq(text, location + length + 1, Len(text)) \in Seq(Digits)
  BY <1>1, SubSeqProperties
<1>4. PICK k \in 0..MaxInsert : string \in [1..k -> Digits]
  BY DEF Insertions
<1>5. k \in Nat
  BY PhoneAssumption
<1>6. string \in Seq(Digits)
  BY <1>4, <1>5
<1>7. \A p, q \in Seq(Digits) : p \o q \in Seq(Digits)
  BY ConcatProperties
<1> QED
  BY <1>2, <1>3, <1>6, <1>7 DEF Replace

\* What passes validateSignupCredentials is a number.
LEMMA ValidNumber ==
  ASSUME field \in FieldType, validateSignupCredentials PROVE field \in Numbers
BY DEF FieldType, validateSignupCredentials, Numbers

LEMMA NoNumberTypes ==
  /\ NewField \in FieldType
  /\ NoneCaptured \in [ReqIds -> Numbers \cup {NoNumber}]
  /\ NoneShown \in [OtpVCs -> Numbers \cup {NoNumber}]
<1>1. <<>> \in Seq(Digits)
  BY EmptySeq
<1> QED
  BY <1>1, PhoneAssumption DEF NewField, FieldType, NoneCaptured, NoneShown

LEMMA IssuesType ==
  ASSUME PhoneTypeOK, NEW c, NEW n \in Numbers \cup {NoNumber}
  PROVE  Issues(c, n) \in [Customers -> Numbers \cup {NoNumber}]
BY DEF PhoneTypeOK, Issues

\* What the server issues an id to is a number, and the absence of one is none.
LEMMA UnseenNumber ==
  ASSUME NEW country \in Countries, NEW text \in [1..NumberLength -> Digits]
  PROVE  [country |-> country, text |-> text] \in Numbers
<1>1. NumberLength \in Nat
  BY PhoneAssumption
<1>2. text \in Seq(Digits) /\ Len(text) = NumberLength
  BY <1>1
<1> QED
  BY <1>2 DEF Numbers

LEMMA NoNumberIsNone == NoNumber \notin Numbers
<1>1. NoNumber.text = <<>> /\ Len(<<>>) = 0
  BY EmptySeq DEF NoNumber
<1> QED
  BY <1>1, PhoneAssumption DEF Numbers

LEMMA PhoneTypeInit == PInit => PhoneTypeOK
<1>1. [c \in Customers |-> NoNumber] \in [Customers -> Numbers \cup {NoNumber}]
  OBVIOUS
<1> QED
  BY <1>1, NoNumberTypes DEF PInit, PhoneTypeOK, FieldType

\* The field changes by an edit, a chosen country or a new screen.
LEMMA FieldTypeStep == ASSUME PhoneTypeOK, [PNext]_pvars PROVE field' \in FieldType
<1>0. field \in FieldType
  BY DEF PhoneTypeOK, FieldType
<1>1. CASE EditNumber
  <2>1. PICK location \in 0..Len(field.text) :
          \E length \in 0..Len(field.text) - location, string \in Insertions :
            field' = [field EXCEPT !.text = Replace(field.text, location, length, string)]
    BY <1>1 DEF EditNumber
  <2>2. PICK length \in 0..Len(field.text) - location, string \in Insertions :
          field' = [field EXCEPT !.text = Replace(field.text, location, length, string)]
    BY <2>1
  <2>3. field.text \in Seq(Digits)
    BY <1>0 DEF FieldType
  <2>4. Replace(field.text, location, length, string) \in Seq(Digits)
    BY <2>3, ReplaceType
  <2> QED
    BY <1>0, <2>2, <2>4 DEF FieldType
<1>2. CASE didSelectCountry
  BY <1>0, <1>2 DEF didSelectCountry, FieldType
<1>3. CASE field' = NewField
  BY <1>3, NoNumberTypes
<1>4. CASE field' = field
  BY <1>0, <1>4
<1> QED
  BY <1>1, <1>2, <1>3, <1>4 DEF PNext, Submitbtnref, PhoneCompletion, KillInLogin, Forget,
     OpenPhone, OpenCountryList, IssueUnseen, ForgetNumber, KeepNumber, phoneVars, pvars

LEMMA PhoneTypeStep == ASSUME PhoneTypeOK, [PNext]_pvars PROVE PhoneTypeOK'
<1> DEFINE Maybe == Numbers \cup {NoNumber}
<1>0. /\ field' \in FieldType
      /\ captured \in [ReqIds -> Maybe] /\ mobile \in Maybe
      /\ shown \in [OtpVCs -> Maybe] /\ issued \in [Customers -> Maybe]
  BY FieldTypeStep DEF PhoneTypeOK
<1> SUFFICES /\ captured' \in [ReqIds -> Maybe] /\ mobile' \in Maybe
             /\ shown' \in [OtpVCs -> Maybe] /\ issued' \in [Customers -> Maybe]
  BY <1>0 DEF PhoneTypeOK, FieldType
<1>1. CASE UNCHANGED <<captured, mobile, shown, issued>>
  BY <1>0, <1>1
<1>2. CASE Submitbtnref
  <2>1. CASE validateSignupCredentials
    <3>1. field \in Maybe
      BY <2>1, ValidNumber DEF PhoneTypeOK, FieldType
    <3>2. /\ captured' = [r \in ReqIds |->
                IF request'[r].kind = "LogIN" /\ ~InFlight(r) THEN field ELSE captured[r]]
          /\ UNCHANGED <<mobile, shown, issued>>
      BY <1>2, <2>1 DEF Submitbtnref
    <3> QED
      BY <1>0, <3>1, <3>2
  <2>2. CASE ~validateSignupCredentials
    BY <1>1, <1>2, <2>2 DEF Submitbtnref, phoneVars
  <2> QED
    BY <2>1, <2>2
<1>3. ASSUME NEW r \in ReqIds, PhoneCompletion(r)
      PROVE  /\ captured' \in [ReqIds -> Maybe] /\ mobile' \in Maybe
             /\ shown' \in [OtpVCs -> Maybe] /\ issued' \in [Customers -> Maybe]
  <2>1. captured[r] \in Maybe /\ NoNumber \in Maybe
    BY <1>0
  <2>2. captured' \in [ReqIds -> Maybe]
    BY <1>0, <1>3, <2>1 DEF PhoneCompletion
  <2>3. Issues(defaults'.CustomerID, captured[r]) \in [Customers -> Maybe]
    BY <2>1, IssuesType
  <2> QED
    BY <1>0, <1>3, <2>1, <2>2, <2>3 DEF PhoneCompletion, ClosureNumber
<1>4. ASSUME NEW r \in ReqIds, KillInLogin(r)
      PROVE  /\ captured' \in [ReqIds -> Maybe] /\ mobile' \in Maybe
             /\ shown' \in [OtpVCs -> Maybe] /\ issued' \in [Customers -> Maybe]
  <2>1. captured[r] \in Maybe
    BY <1>0
  <2>2. PICK c : issued' = Issues(c, captured[r])
    BY <1>4 DEF KillInLogin
  <2>3. issued' \in [Customers -> Maybe]
    BY <2>1, <2>2, IssuesType
  <2> QED
    BY <1>4, <2>1, <2>3, NoNumberTypes DEF KillInLogin, ClosureNumber, Forget
<1>5. CASE ForgetNumber
  BY <1>0, <1>5, NoNumberTypes DEF ForgetNumber, Forget
<1>6. CASE IssueUnseen
  BY <1>0, <1>6, UnseenNumber DEF IssueUnseen
<1> QED
  BY <1>1, <1>2, <1>3, <1>4, <1>5, <1>6
  DEF PNext, EditNumber, OpenCountryList, didSelectCountry, OpenPhone, KeepNumber, phoneVars,
      pvars

\* Only complete numbers are captured, stored, shown or issued, however the field
\* was edited: its own limit does not ensure that, validateSignupCredentials does.
THEOREM PhoneTypeCorrect == PSpec => []PhoneTypeOK
<1>1. PhoneTypeOK /\ [PNext]_pvars => PhoneTypeOK'
  BY PhoneTypeStep
<1> QED
  BY <1>1, PhoneTypeInit, PTL DEF PSpec

-----------------------------------------------------------------------------
(* The number and the customer belong together. *)

\* NumberOfCustomer, with the code screen named by its place in the stack and the
\* stored number never missing.
Captures == \A r \in ReqIds : request[r].kind = "LogIN" => captured[r] \in Numbers
ShowsStored == CodeScreen => shown[stack[4]] = mobile /\ mobile \in Numbers
IssuedStored ==
  defaults.IsUserLogIned \/ CodeScreen =>
    /\ mobile \in Numbers
    /\ defaults.CustomerID \in Customers => issued[defaults.CustomerID] = mobile
NumberShape == Captures /\ ShowsStored /\ IssuedStored

LEMMA CodeScreenPlace ==
  ASSUME TypeOK, IInv
  PROVE  /\ CodeScreen => stack[4] \in OtpVCs /\ InStack(stack[4])
         /\ \A vc \in OtpVCs : InStack(vc) => CodeScreen /\ stack[4] = vc
<1>1. ASSUME CodeScreen PROVE stack[4] \in OtpVCs /\ InStack(stack[4])
  <2>1. 4 \in 1..Len(stack) /\ stack[4] \in OtpVCs
    BY <1>1 DEF CodeScreen, TypeOK
  <2> QED
    BY <2>1 DEF InStack
<1> QED
  BY <1>1, ScreenPlaces DEF CodeScreen

LEMMA ShapeIsNumber == TypeOK /\ IInv /\ NumberShape => NumberOfCustomer
BY CodeScreenPlace DEF NumberShape, Captures, ShowsStored, IssuedStored, NumberOfCustomer

\* The steps of PNext that neither start nor end a sign-in request.
NoLoginStep ==
  \/ EditNumber \/ OpenCountryList \/ didSelectCountry \/ OpenPhone \/ KeepNumber
  \/ UNCHANGED pvars
  \/ ~validateSignupCredentials /\ Submitbtnref

LEMMA OtherCall ==
  ASSUME TypeOK, NEW r \in FreeReqs, NEW q, NEW o, Call(r, q, o), q.kind # "LogIN"
  PROVE  \A s \in ReqIds : request'[s].kind = "LogIN" <=> request[s].kind = "LogIN"
<1>1. request[r].kind = "idle" /\ r \in ReqIds
  BY DEF FreeReqs, InFlight
<1> QED
  BY <1>1 DEF Call, TypeOK

LEMMA OtherIdle ==
  ASSUME TypeOK, NEW r \in ReqIds, request' = [request EXCEPT ![r] = Idle], request[r].kind # "LogIN"
  PROVE  \A s \in ReqIds : request'[s].kind = "LogIN" <=> request[s].kind = "LogIN"
BY DEF TypeOK, Idle

LEMMA LogINKept ==
  ASSUME TypeOK, NoLoginStep
  PROVE  \A r \in ReqIds : request'[r].kind = "LogIN" <=> request[r].kind = "LogIN"
<1> DEFINE Goal == \A r \in ReqIds : request'[r].kind = "LogIN" <=> request[r].kind = "LogIN"
<1>1. CASE request' = request
  BY <1>1
<1>2. ASSUME NEW vc \in OtpVCs, enteredOTP(vc) PROVE Goal
  <2>1. PICK r \in FreeReqs, net \in Nets :
          Call(r, Request("Register", vc, otp[vc].CustomerID), APIRequest("post", net))
    BY <1>2 DEF enteredOTP
  <2> QED
    BY <2>1, OtherCall DEF Request
<1>3. ASSUME NEW vc \in OtpVCs, ResendOtpbtnref(vc) PROVE Goal
  <2>1. PICK r \in FreeReqs, net \in Nets :
          Call(r, Request("Resend", vc, defaults.CustomerID), APIRequest("get", net))
    BY <1>3 DEF ResendOtpbtnref
  <2> QED
    BY <2>1, OtherCall DEF Request
<1>4. CASE EditUserProfileMethod
  <2>1. PICK r \in FreeReqs :
          Call(r, Request("Update", NoVC, defaults.CustomerID),
               IF defaults.CustomerID = Unset THEN "fail" ELSE "send")
    BY <1>4 DEF EditUserProfileMethod
  <2> QED
    BY <2>1, OtherCall DEF Request
<1>5. ASSUME NEW r \in ReqIds, RegisterCompletion(r) \/ ResendCompletion(r) \/ UpdateCompletion(r)
      PROVE  Goal
  <2>1. request' = [request EXCEPT ![r] = Idle] /\ request[r].kind # "LogIN"
    BY <1>5 DEF RegisterCompletion, ResendCompletion, UpdateCompletion
  <2> QED
    BY <2>1, OtherIdle
<1>6. ASSUME NEW r \in ReqIds, Serve(r) PROVE Goal
  BY <1>6 DEF Serve, TypeOK, RequestType
<1>7. CASE \/ EditNumber \/ OpenCountryList \/ didSelectCountry \/ OpenPhone
           \/ UNCHANGED pvars
           \/ ~validateSignupCredentials /\ Submitbtnref
  BY <1>1, <1>7 DEF EditNumber, OpenCountryList, showCountriesList, didSelectCountry,
     didSelectRow, OpenPhone, agreeContinueBtnref, Submitbtnref, SubmitInvalidNumber, pvars, vars
<1>8. CASE \/ NavigationScreens \/ policyBtnref \/ TermsBackBtnref \/ DismissAlert
           \/ SubmitWithoutName
  BY <1>1, <1>8 DEF NavigationScreens, policyBtnref, TermsBackBtnref, DismissAlert,
     SubmitWithoutName
<1>9. ASSUME NEW vc \in OtpVCs,
             backbtnref(vc) \/ TapOtpField(vc) \/ KeyWithoutCode(vc) \/ CallMebtnref(vc) \/ action(vc)
      PROVE  Goal
  BY <1>1, <1>9 DEF backbtnref, TapOtpField, KeyWithoutCode, CallMebtnref, action
<1>10. ASSUME NEW c \in Customers, ServeLate(c) PROVE Goal
  BY <1>1, <1>10 DEF ServeLate
<1>11. CASE ScreenTouch
  BY <1>2, <1>3, <1>8, <1>9, <1>11 DEF ScreenTouch
<1>12. CASE KeepNumber
  BY <1>4, <1>5, <1>6, <1>8, <1>9, <1>10, <1>11, <1>12 DEF KeepNumber
<1> QED
  BY <1>7, <1>12 DEF NoLoginStep

\* A step without a code screen before or after it, or with the same one.
LEMMA NumberKept ==
  ASSUME TypeOK, TypeOK', IInv, IInv', NumberShape, [Next]_vars,
         UNCHANGED <<mobile, shown, issued>>, CodeScreen' => CodeScreen
  PROVE  ShowsStored' /\ IssuedStored'
<1>1. ~NewChallenge
  BY DEF NewChallenge
<1>2. SameCustomer
  BY <1>1, StepEffect DEF KeepOrLeave, FlagSet, CodeTried, Confirmed, SameCustomer
<1>3. defaults'.IsUserLogIned => defaults.IsUserLogIned \/ CodeScreen
  BY <1>1, StepEffect DEF KeepOrLeave, FlagSet, CodeTried, Confirmed, SameFlag
<1>4. IssuedStored'
  BY <1>2, <1>3 DEF NumberShape, IssuedStored, SameCustomer
<1>5. ShowsStored'
  BY SameCodeScreen DEF NumberShape, ShowsStored
<1> QED
  BY <1>4, <1>5

LEMMA NumberNoLogin ==
  ASSUME TypeOK, TypeOK', IInv, IInv', NumberShape, [PNext]_pvars, NoLoginStep
  PROVE  NumberShape'
<1>1. UNCHANGED <<captured, mobile, shown, issued>>
  BY DEF NoLoginStep, EditNumber, OpenCountryList, didSelectCountry, OpenPhone, KeepNumber,
     Submitbtnref, phoneVars, pvars
<1>2. \A r \in ReqIds : request'[r].kind = "LogIN" <=> request[r].kind = "LogIN"
  BY LogINKept
<1>3. ASSUME NEW r \in ReqIds PROVE ~LoginCompletion(r)
  <2> SUFFICES ASSUME LoginCompletion(r) PROVE FALSE
    OBVIOUS
  <2>1. request[r].kind = "LogIN" /\ request'[r].kind = "idle"
    BY DEF LoginCompletion, TypeOK, Idle
  <2> QED
    BY <1>2, <2>1
<1>4. [Next]_vars
  BY PhoneStep
<1>5. CodeScreen' => CodeScreen
  BY <1>3, <1>4, NoNewCodeScreen
<1>6. ShowsStored' /\ IssuedStored'
  BY <1>1, <1>4, <1>5, NumberKept
<1>7. Captures'
  BY <1>1, <1>2 DEF NumberShape, Captures
<1> QED
  BY <1>6, <1>7 DEF NumberShape

\* A sign-in request is sent: it has captured the number that was validated.
LEMMA NumberSubmit ==
  ASSUME TypeOK, TypeOK', IInv, IInv', PhoneTypeOK, NumberShape, Submitbtnref,
         validateSignupCredentials
  PROVE  NumberShape'
<1>1. field \in Numbers
  BY ValidNumber DEF PhoneTypeOK, FieldType
<1>2. /\ captured' = [r \in ReqIds |->
            IF request'[r].kind = "LogIN" /\ ~InFlight(r) THEN field ELSE captured[r]]
      /\ UNCHANGED <<mobile, shown, issued, stack>>
      /\ LoginApiCalling
  BY DEF Submitbtnref, LoginApiCalling
<1>3. PICK q \in FreeReqs, net \in Nets :
        Call(q, Request("LogIN", NoVC, Unset), APIRequest("post", net))
  BY <1>2 DEF LoginApiCalling
<1>4. ASSUME NEW r \in ReqIds, InFlight(r) PROVE request'[r] = request[r]
  BY <1>3, <1>4 DEF Call, FreeReqs, TypeOK
<1>5. Captures'
  BY <1>1, <1>2, <1>4 DEF NumberShape, Captures
<1>6. [Next]_vars /\ (CodeScreen' => CodeScreen)
  BY <1>2 DEF CodeScreen, Next, PhoneTouch
<1> QED
  BY <1>2, <1>5, <1>6, NumberKept DEF NumberShape

\* The sign-in closure stores the number, stores the customer it was issued to, and
\* shows the number on the code screen it pushes.
LEMMA NumberCompletion ==
  ASSUME TypeOK, TypeOK', IInv, IInv', PhoneTypeOK, NumberShape,
         NEW r \in ReqIds, PhoneCompletion(r)
  PROVE  NumberShape'
<1>0. LoginCompletion(r) /\ request[r].kind = "LogIN" /\ captured[r] \in Numbers
  BY DEF PhoneCompletion, LoginCompletion, NumberShape, Captures
<1>1. Captures'
  <2>1. request' = [request EXCEPT ![r] = Idle] /\ captured' = [captured EXCEPT ![r] = NoNumber]
    BY DEF PhoneCompletion, LoginCompletion
  <2> QED
    BY <2>1 DEF NumberShape, Captures, TypeOK, PhoneTypeOK, Idle
<1>2. CASE stack' = stack
  <2>1. UNCHANGED <<mobile, shown, issued>>
    BY <1>2 DEF PhoneCompletion
  <2>2. [Next]_vars
    BY <1>0 DEF Next, Completion
  <2>3. CodeScreen' => CodeScreen
    BY <1>2 DEF CodeScreen
  <2> QED
    BY <1>1, <2>1, <2>2, <2>3, NumberKept DEF NumberShape
<1>3. CASE stack' # stack
  <2>1. /\ issued' = Issues(defaults'.CustomerID, captured[r])
        /\ mobile' = captured[r]
        /\ shown' = [shown EXCEPT ![stack'[Len(stack')]] = captured[r]]
    BY <1>3 DEF PhoneCompletion, ClosureNumber
  <2>2. PICK vc \in FreeOtpVCs : stack' = Append(stack, vc)
    BY <1>0, <1>3 DEF LoginCompletion, Push
  <2>3. Len(stack) = 3
    BY <1>0 DEF IInv, RequestShape, InFlight
  <2>4. vc \in OtpVCs /\ vc \in Screens
    BY DEF FreeOtpVCs, Screens
  <2>5. stack'[Len(stack')] = vc /\ stack'[4] = vc
    <3>1. Len(stack') = Len(stack) + 1 /\ stack'[Len(stack) + 1] = vc
      BY <2>2, <2>4, PushStack DEF TypeOK
    <3> QED
      BY <2>3, <3>1
  <2>6. ShowsStored'
    BY <1>0, <2>1, <2>4, <2>5 DEF ShowsStored, PhoneTypeOK
  <2>7. IssuedStored'
    BY <1>0, <2>1 DEF IssuedStored, Issues, PhoneTypeOK
  <2> QED
    BY <1>1, <2>6, <2>7 DEF NumberShape
<1> QED
  BY <1>2, <1>3

\* The process ends: what is stored stays together where it is still used.
LEMMA NumberEnd ==
  ASSUME TypeOK, TypeOK', IInv, IInv', NumberShape, [PNext]_pvars,
         ForgetNumber \/ \E r \in ReqIds : KillInLogin(r)
  PROVE  NumberShape'
<1>1. Die
  BY DEF ForgetNumber, ProcessEnd, Kill, KillInRegister, Trap, KillInLogin
<1>2. ~CodeScreen' /\ \A r \in ReqIds : request'[r].kind # "LogIN"
  <2>1. Len(stack') = 0
    BY <1>1, EmptySeq DEF Die
  <2> QED
    BY <1>1, <2>1 DEF CodeScreen, Die, Idle
<1>3. Captures' /\ ShowsStored'
  BY <1>2 DEF Captures, ShowsStored
<1>4. SameCustomer /\ SameFlag
  BY <1>2, PhoneStep, StepEffect
  DEF KeepOrLeave, NewChallenge, FlagSet, CodeTried, Confirmed, SameCustomer, SameFlag
<1>5. CASE ForgetNumber
  BY <1>2, <1>3, <1>4, <1>5
  DEF ForgetNumber, NumberShape, IssuedStored, SameCustomer, SameFlag
<1>6. ASSUME NEW r \in ReqIds, KillInLogin(r) PROVE NumberShape'
  <2>1. root = "nav" /\ Len(stack) = 3
    BY <1>6 DEF KillInLogin, IInv, RequestShape, InFlight
  <2>2. ~defaults.IsUserLogIned
    BY <2>1 DEF IInv, FlagShape
  <2> QED
    BY <1>2, <1>3, <1>4, <2>2 DEF NumberShape, IssuedStored, SameFlag
<1> QED
  BY <1>5, <1>6

\* An id issued behind the phone's back is not the one it uses: that one has its number.
LEMMA NumberUnseen ==
  ASSUME PhoneTypeOK, NumberShape, IssueUnseen PROVE NumberShape'
<1>1. PICK c \in Customers, country \in Countries, text \in [1..NumberLength -> Digits] :
        /\ issued[c] = NoNumber
        /\ issued' = [issued EXCEPT ![c] = [country |-> country, text |-> text]]
  BY DEF IssueUnseen
<1>2. UNCHANGED <<captured, mobile, shown>> /\ UNCHANGED <<request, stack, defaults>>
  BY DEF IssueUnseen, vars
<1>3. \A d \in Customers : issued[d] \in Numbers => issued'[d] = issued[d]
  BY <1>1, NoNumberIsNone DEF PhoneTypeOK
<1>4. Captures' /\ ShowsStored'
  BY <1>2 DEF NumberShape, Captures, ShowsStored, CodeScreen
<1>5. IssuedStored'
  BY <1>2, <1>3 DEF NumberShape, IssuedStored, CodeScreen
<1> QED
  BY <1>4, <1>5 DEF NumberShape

LEMMA NumberInit == PInit => NumberShape
<1> SUFFICES ASSUME PInit PROVE NumberShape
  OBVIOUS
<1>1. Len(stack) = 0 /\ ~defaults.IsUserLogIned /\ \A r \in ReqIds : request[r].kind # "LogIN"
  BY EmptySeq DEF PInit, Init, Idle
<1> QED
  BY <1>1 DEF NumberShape, Captures, ShowsStored, IssuedStored, CodeScreen

LEMMA NumberStep ==
  ASSUME TypeOK, TypeOK', IInv, IInv', PhoneTypeOK, NumberShape, [PNext]_pvars
  PROVE  NumberShape'
BY NumberNoLogin, NumberSubmit, NumberCompletion, NumberEnd, NumberUnseen DEF PNext, NoLoginStep

\* For every run of the app: the number stored, shown and used is the one the server
\* issued the stored customer id to, on the code screen and for a whole session.
THEOREM NumberCorrect == PSpec => []NumberOfCustomer
<1>1. /\ TypeOK /\ IInv /\ (TypeOK /\ IInv)' /\ PhoneTypeOK /\ NumberShape /\ [PNext]_pvars
      => NumberShape'
  BY NumberStep
<1>2. PSpec => []NumberShape
  BY <1>1, NumberInit, PhoneInductive, PhoneTypeCorrect, PTL DEF PSpec
<1> QED
  BY <1>2, ShapeIsNumber, PhoneInductive, PTL
=============================================================================
