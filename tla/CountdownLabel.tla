---------------------------- MODULE CountdownLabel ----------------------------
(***************************************************************************)
(* What the user reads of the countdown: the text of timerLblref of every    *)
(* OTPVerificationVC, next to the sign-in flow of SignIn.                    *)
(*                                                                         *)
(* Only the timer's action sets the text.  A resend that is answered puts     *)
(* sessionTimer back to its start and leaves the text as it is, and the label *)
(* is hidden and shown elsewhere: that the text and the timer agree whenever  *)
(* the label can be seen depends on when a resend is possible.               *)
(***************************************************************************)
EXTENDS SignIn, StopWatch

ASSUME LabelAssumption == SessionSeconds < 3600

VARIABLE label    \* timerLblref.text of each instance

lvars == <<vars, label>>

NoText == <<>>

\* Slip: the text is set before sessionTimer is decremented.
LabelAfter_Before(vc) == simpleTimeString(otp[vc].sessionTimer)

LabelAfter(vc) == simpleTimeString(otp'[vc].sessionTimer)

Tick(vc) ==
  /\ action(vc)
  /\ label' = IF otp[vc].sessionTimer > 0 THEN [label EXCEPT ![vc] = LabelAfter(vc)] ELSE label

\* A new instance starts with the text of the storyboard.
LoadLabel ==
  /\ \E r \in ReqIds : LoginCompletion(r)
  /\ label' = [vc \in OtpVCs |-> IF vc \in FreeOtpVCs THEN NoText ELSE label[vc]]

OtherStep ==
  /\ \/ NavigationScreens
     \/ PhoneTouch
     \/ ScreenTouch
     \/ EditUserProfileMethod
     \/ ProcessEnd
     \/ \E r \in ReqIds :
          RegisterCompletion(r) \/ ResendCompletion(r) \/ UpdateCompletion(r) \/ Serve(r)
     \/ \E c \in Customers : ServeLate(c)
  /\ UNCHANGED label

LInit == Init /\ label = [vc \in OtpVCs |-> NoText]

LNext == OtherStep \/ LoadLabel \/ \E vc \in OtpVCs : Tick(vc)

LSpec == LInit /\ [][LNext]_lvars

-----------------------------------------------------------------------------
(* Properties. *)

\* A label that can be seen reads as the seconds that are left, on every code
\* screen, however often the code was sent again.
LabelShowsTimer ==
  \A vc \in OtpVCs : ~otp[vc].labelHidden => Reads(label[vc]) = otp[vc].sessionTimer

\* A label that stays in view counts down one by one: it never starts over before
\* the user's eyes, also when a resend is answered late.
LabelCountsDown ==
  [][\A vc \in OtpVCs : ~otp[vc].labelHidden /\ ~otp'[vc].labelHidden =>
       Reads(label'[vc]) \in {Reads(label[vc]), Reads(label[vc]) - 1}]_lvars

=============================================================================
