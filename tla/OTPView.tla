------------------------------- MODULE OTPView -------------------------------
(***************************************************************************)
(* VPMOTPView and VPMOTPTextField: a row of otpFieldsCount text fields, one  *)
(* per character of the code.  As OTPVerificationVC configures them, a field *)
(* shows what secureEntryData holds for it, so one variable stands for both; *)
(* only the number of characters in a field matters.                        *)
(*                                                                         *)
(* UIKit (external): a keystroke goes to the first responder and is offered  *)
(* to shouldChangeCharactersIn; a backspace on an empty field is not, but    *)
(* reaches deleteBackward, which calls the delegate itself.  The fields ask  *)
(* for .oneTimeCode, so one insertion can carry a whole code.               *)
(***************************************************************************)
EXTENDS Integers, Sequences

CONSTANTS otpFieldsCount,                  \* number of fields
          Insertions,                      \* lengths of the strings one insertion can carry
          shouldAllowIntermediateEditing   \* the view's option, false in this app

ASSUME FieldsAssumption == otpFieldsCount \in Nat \ {0}
ASSUME InsertionsAssumption == Insertions \subseteq Nat \ {0}
ASSUME EditingAssumption == shouldAllowIntermediateEditing \in BOOLEAN

Fields == 1..otpFieldsCount

VARIABLES entry,  \* characters in each field (its text, and its secureEntryData)
          focus,  \* the first responder's tag, 0 when the keyboard is away
          calls   \* the delegate calls the last step made, in order

vars == <<entry, focus, calls>>

-----------------------------------------------------------------------------

Empty(e) == {i \in Fields : e[i] = 0}

\* The field isPreviousFieldsEntered finds in its forward search.
FirstEmpty(e) == CHOOSE i \in Empty(e) : \A j \in Empty(e) : i <= j

\* Slip: every field may be edited.
isPreviousFieldsEntered_Any(e, f) == TRUE

isPreviousFieldsEntered(e, f) ==
  ~shouldAllowIntermediateEditing /\ Empty(e) # {} =>
    f \in {FirstEmpty(e), FirstEmpty(e) - 1}

\* becomeFirstResponder asks textFieldShouldBeginEditing unless the field already
\* is first responder; when refused, the keyboard stays where it is.
becomeFirstResponder(e, current, f) ==
  IF f = current \/ isPreviousFieldsEntered(e, f) THEN f ELSE current

\* Slip: the loop ends one field early.
EnteredCount_SkipsLast(e) ==
  LET upTo[i \in 0..otpFieldsCount] == IF i = 0 THEN 0 ELSE upTo[i - 1] + e[i]
  IN  upTo[otpFieldsCount - 1]

\* Length of the concatenation of secureEntryData.
EnteredCount(e) ==
  LET upTo[i \in 0..otpFieldsCount] == IF i = 0 THEN 0 ELSE upTo[i - 1] + e[i]
  IN  upTo[otpFieldsCount]

calculateEnteredOTPSTring(e) ==
  IF EnteredCount(e) = otpFieldsCount
  THEN <<"enteredOTP", "hasEnteredAllOTP(true)">>
  ELSE <<>>

-----------------------------------------------------------------------------

\* initializeUI makes new, empty fields and tries to focus the first, which UIKit
\* grants when the view is in the window.
initializeUI ==
  /\ entry' = [i \in Fields |-> 0]
  /\ focus' \in {0, 1}
  /\ calls' = <<>>

Tap(f) ==
  /\ isPreviousFieldsEntered(entry, f)
  /\ focus' = f
  /\ calls' = <<>>
  /\ UNCHANGED entry

\* Slip: no check for the last field before moving on.
ReplaceText_PastEnd(n) ==
  /\ focus # 0
  /\ entry' = [entry EXCEPT ![focus] = n]
  /\ focus' = becomeFirstResponder(entry', focus, focus + 1)
  /\ calls' = calculateEnteredOTPSTring(entry')

\* shouldChangeCharactersIn when the replaced text would not be empty: the field
\* takes the n inserted characters instead of its text, and the keyboard moves on.
ReplaceText(n) ==
  /\ focus # 0
  /\ entry' = [entry EXCEPT ![focus] = n]
  /\ focus' = IF focus < otpFieldsCount
              THEN becomeFirstResponder(entry', focus, focus + 1) ELSE 0
  /\ calls' = calculateEnteredOTPSTring(entry')

InsertText == \E n \in Insertions : ReplaceText(n)

\* Backspace in a field of several characters leaves some, so the same branch is
\* taken with an empty replacement string.
BackspaceInLongText == focus # 0 /\ entry[focus] >= 2 /\ ReplaceText(0)

\* deleteText: clear a field, focus it, report the deletion.
deleteText(f) ==
  /\ entry' = [entry EXCEPT ![f] = 0]
  /\ calls' = <<"hasEnteredAllOTP(false)">>

\* A deletion of all the text of the focused field also moves to the one before.
DeleteFieldText ==
  /\ focus # 0 /\ entry[focus] > 0
  /\ deleteText(focus)
  /\ focus' = IF focus > 1 THEN becomeFirstResponder(entry', focus, focus - 1) ELSE focus

\* Slip: the keyboard stays in the empty field.
deleteBackward_StaysPut ==
  /\ focus # 0 /\ entry[focus] = 0
  /\ deleteText(IF focus > 1 THEN focus - 1 ELSE focus)
  /\ focus' = focus

\* Backspace in an empty field clears the field before it.
deleteBackward ==
  /\ focus # 0 /\ entry[focus] = 0
  /\ IF focus > 1
     THEN deleteText(focus - 1) /\ focus' = becomeFirstResponder(entry', focus, focus - 1)
     ELSE deleteText(focus) /\ focus' = focus

Init ==
  /\ entry = [i \in Fields |-> 0]
  /\ focus \in {0, 1}
  /\ calls = <<>>

Next ==
  \/ initializeUI
  \/ \E f \in Fields : Tap(f)
  \/ InsertText
  \/ BackspaceInLongText
  \/ DeleteFieldText
  \/ deleteBackward

Spec == Init /\ [][Next]_vars

-----------------------------------------------------------------------------
(* Properties. *)

\* The fields hold numbers of characters, the focus is a field or nowhere.
TypeOK ==
  /\ entry \in [Fields -> Nat]
  /\ focus \in 0..otpFieldsCount
  /\ calls \in Seq({"enteredOTP", "hasEnteredAllOTP(true)", "hasEnteredAllOTP(false)"})

\* Without intermediate editing, the empty fields are neighbours, whatever mixture
\* of typing, pasting, deleting and tapping came before: isPreviousFieldsEntered
\* looks only for the first gap, and there is only one.
OneGap ==
  ~shouldAllowIntermediateEditing =>
    \A i, j \in Empty(entry), k \in Fields : i <= k /\ k <= j => k \in Empty(entry)

\* The keyboard is at the start of that gap or at the field before it, also when
\* becomeFirstResponder was refused on the way.
FocusAtGap ==
  ~shouldAllowIntermediateEditing /\ focus # 0 /\ Empty(entry) # {} =>
    focus \in {FirstEmpty(entry), FirstEmpty(entry) - 1}

\* VPMOTPView.swift:41: enteredOTP is "called whenever all the OTP fields have been
\* entered".  An insertion calls it exactly when it leaves no field empty.
EnteredWhenFull ==
  [][InsertText => (calls' # <<>> <=> Empty(entry') = {})]_vars

\* While no field holds more than one character, that is so, also after pastes
\* that were deleted or typed over: the keystroke that fills the last gap, and only
\* that one, reports the code.
EnteredWhenTyped ==
  [][InsertText /\ (\A i \in Fields : entry'[i] <= 1)
       => (calls' # <<>> <=> Empty(entry') = {})]_vars

\* VPMOTPView.swift:102: without intermediate editing, "editing will take place
\* from last filled text field only": no filled field follows the one being edited.
EditsLastFilled ==
  ~shouldAllowIntermediateEditing /\ focus # 0 =>
    \A i \in Fields : i > focus => entry[i] = 0

E == INSTANCE OtpEntry
       WITH gap <- Empty(entry), long <- \E i \in Fields : entry[i] > 1,
            focused <- focus # 0,
            entered <- \E i \in 1..Len(calls) : calls[i] = "enteredOTP"

\* Without intermediate editing, every run of VPMOTPView is a run of OtpEntry: the
\* empty fields close and open at their left end only, one per keystroke, never
\* without the keyboard; the keyboard goes away at the last field only; and with one
\* character per field exactly the keystrokes that leave no gap report a code.
ImplementsOtpEntry == E!Spec
=============================================================================
