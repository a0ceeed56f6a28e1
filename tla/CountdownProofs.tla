--------------------------- MODULE CountdownProofs ---------------------------
(***************************************************************************)
(* The countdown of every code screen, for any length below an hour, any      *)
(* number of screens and requests and any answers: when the resend button is  *)
(* offered, and what the label shows.                                       *)
(***************************************************************************)
EXTENDS CountdownLabel, SignInProofs

-----------------------------------------------------------------------------
(* StopWatch. *)

\* The parts of a time add up to it.
THEOREM TimeAddsUp ==
  ASSUME NEW t \in Nat
  PROVE  t = 31536000 * years(t) + 86400 * days(t)
               + (3600 * hours(t) + 60 * minutes(t) + seconds(t))
<1>1. t = 31536000 * (t \div 31536000) + (t % 31536000) /\ t % 31536000 \in Nat
  OBVIOUS
<1>2. t % 31536000 = 86400 * ((t % 31536000) \div 86400) + ((t % 31536000) % 86400)
  BY <1>1
<1>3. (t % 31536000) % 86400 = t % 86400
  OBVIOUS
<1>4. t % 86400 = 3600 * ((t % 86400) \div 3600) + ((t % 86400) % 3600)
  OBVIOUS
<1>5. (t % 86400) % 3600 = t % 3600
  OBVIOUS
<1>6. t % 3600 = 60 * ((t % 3600) \div 60) + ((t % 3600) % 60)
  OBVIOUS
<1>7. (t % 3600) % 60 = t % 60
  OBVIOUS
<1> QED
  BY <1>1, <1>2, <1>3, <1>4, <1>5, <1>6, <1>7 DEF years, days, hours, minutes, seconds

\* What two texts joined have at each place.
LEMMA Joined ==
  ASSUME NEW p \in Seq(Nat), NEW q \in Seq(Nat)
  PROVE  /\ p \o q \in Seq(Nat) /\ Len(p \o q) = Len(p) + Len(q)
         /\ \A i \in 1..Len(p) : (p \o q)[i] = p[i]
         /\ \A i \in 1..Len(q) : (p \o q)[Len(p) + i] = q[i]
OBVIOUS

LEMMA TwoDigits ==
  ASSUME NEW n \in 0..59
  PROVE  /\ timeText(n) \in Seq(Nat) /\ Len(timeText(n)) = 2
         /\ 10 * timeText(n)[1] + timeText(n)[2] = n
<1>1. CASE n < 10
  <2> DEFINE p == <<0>>
             q == <<n>>
  <2>1. p \in Seq(Nat) /\ q \in Seq(Nat) /\ Len(p) = 1 /\ Len(q) = 1 /\ p[1] = 0 /\ q[1] = n
    OBVIOUS
  <2>2. timeText(n) = p \o q
    BY <1>1 DEF timeText, Decimal
  <2> HIDE DEF p, q
  <2>3. 1 \in 1..Len(p) /\ 1 \in 1..Len(q) /\ Len(p) + 1 = 2
    BY <2>1
  <2>4. (p \o q)[1] = 0 /\ (p \o q)[2] = n /\ p \o q \in Seq(Nat) /\ Len(p \o q) = 2
    BY <2>1, <2>3, Joined
  <2> QED
    BY <2>2, <2>4
<1>2. CASE ~(n < 10)
  <2>1. timeText(n) = <<n \div 10, n % 10>>
    BY <1>2 DEF timeText, Decimal
  <2>2. n \div 10 \in Nat /\ n % 10 \in Nat /\ 10 * (n \div 10) + (n % 10) = n
    OBVIOUS
  <2> QED
    BY <2>1, <2>2
<1> QED
  BY <1>1, <1>2

LEMMA Element == ASSUME NEW p \in Seq(Nat), NEW i \in 1..Len(p) PROVE p[i] \in Nat
OBVIOUS

LEMMA FourDigits ==
  ASSUME NEW p \in Seq(Nat), NEW q \in Seq(Nat), Len(p) = 2, Len(q) = 2
  PROVE  Reads(p \o q) = 60 * (10 * p[1] + p[2]) + (10 * q[1] + q[2])
<1>1. 1 \in 1..Len(p) /\ 2 \in 1..Len(p) /\ 1 \in 1..Len(q) /\ 2 \in 1..Len(q)
  OBVIOUS
<1>2. (p \o q)[1] = p[1] /\ (p \o q)[2] = p[2]
  BY <1>1, Joined
<1>3. (p \o q)[Len(p) + 1] = q[1] /\ (p \o q)[Len(p) + 2] = q[2]
  BY <1>1, Joined
<1>4. Len(p) + 1 = 3 /\ Len(p) + 2 = 4
  OBVIOUS
<1>5. (p \o q)[3] = q[1] /\ (p \o q)[4] = q[2]
  BY <1>3, <1>4
<1>6. p[1] \in Nat /\ p[2] \in Nat /\ q[1] \in Nat /\ q[2] \in Nat
  BY <1>1, Element
<1> QED
  BY <1>2, <1>5, <1>6 DEF Reads

LEMMA TimeTexts ==
  \A m \in 0..59, s \in 0..59 : Reads(timeText(m) \o timeText(s)) = 60 * m + s
<1> SUFFICES ASSUME NEW m \in 0..59, NEW s \in 0..59
             PROVE  Reads(timeText(m) \o timeText(s)) = 60 * m + s
  OBVIOUS
<1> DEFINE p == timeText(m)
           q == timeText(s)
<1>1. p \in Seq(Nat) /\ Len(p) = 2 /\ 10 * p[1] + p[2] = m
  BY TwoDigits
<1>2. q \in Seq(Nat) /\ Len(q) = 2 /\ 10 * q[1] + q[2] = s
  BY TwoDigits
<1> HIDE DEF p, q
<1>3. Reads(p \o q) = 60 * (10 * p[1] + p[2]) + (10 * q[1] + q[2])
  BY <1>1, <1>2, FourDigits
<1>4. Reads(p \o q) = 60 * m + s
  BY <1>1, <1>2, <1>3
<1> QED
  BY <1>4 DEF p, q

LEMMA MinutesAndSeconds ==
  ASSUME NEW m \in 0..59, NEW s \in 0..59 PROVE Reads(simpleTimeString(60 * m + s)) = 60 * m + s
<1> DEFINE t == 60 * m + s
<1>1. t % 3600 = t /\ t \div 60 = m /\ t % 60 = s
  OBVIOUS
<1>2. minutes(t) = m /\ seconds(t) = s
  BY <1>1 DEF minutes, seconds
<1> HIDE DEF t
<1>3. simpleTimeString(t) = timeText(m) \o timeText(s)
  BY <1>2 DEF simpleTimeString
<1>4. Reads(timeText(m) \o timeText(s)) = t
  BY TimeTexts DEF t
<1>5. Reads(simpleTimeString(t)) = t
  BY <1>3, <1>4
<1> QED
  BY <1>5 DEF t

\* Below an hour the text reads as the time it was made of.
LEMMA TextReadsAsTime ==
  \A t \in Nat : t < 3600 => Reads(simpleTimeString(t)) = t
<1> SUFFICES ASSUME NEW t \in Nat, t < 3600 PROVE Reads(simpleTimeString(t)) = t
  OBVIOUS
<1>1. t \div 60 \in 0..59 /\ t % 60 \in 0..59 /\ t = 60 * (t \div 60) + (t % 60)
  OBVIOUS
<1>2. \E m \in 0..59, s \in 0..59 : t = 60 * m + s
  BY <1>1
<1>3. PICK m \in 0..59, s \in 0..59 : t = 60 * m + s
  BY <1>2
<1>4. Reads(simpleTimeString(60 * m + s)) = 60 * m + s
  BY MinutesAndSeconds
<1> QED
  BY <1>3, <1>4

-----------------------------------------------------------------------------
(* The invariant of a code screen's clock. *)

\* A resend of this screen is on its way.
Pending(vc) == \E r \in ReqIds : request[r].kind = "Resend" /\ request[r].vc = vc

\* The button only after the countdown, a stopped timer only at zero and without a
\* label, and no resend next to a running timer.
ClockShape(vc) ==
  /\ ~otp[vc].resendHidden => ~otp[vc].timerValid
  /\ ~otp[vc].timerValid => otp[vc].sessionTimer = 0 /\ otp[vc].labelHidden
  /\ Pending(vc) => ~otp[vc].timerValid
  /\ InStack(vc) /\ otp[vc].resendHidden /\ ~otp[vc].timerValid
       => otp[vc].resendFailed \/ Pending(vc)

ClockInv == \A vc \in OtpVCs : ClockShape(vc)

-----------------------------------------------------------------------------
(* What a step can do to the clock of one screen. *)

SameClock(vc) ==
  /\ otp'[vc].sessionTimer = otp[vc].sessionTimer
  /\ otp'[vc].timerValid = otp[vc].timerValid
  /\ otp'[vc].labelHidden = otp[vc].labelHidden

\* Nothing, although the screen may go or lose its keyboard.
Untouched(vc) ==
  /\ SameClock(vc)
  /\ otp'[vc].resendHidden = otp[vc].resendHidden
  /\ otp'[vc].resendFailed = otp[vc].resendFailed
  /\ InStack(vc)' => InStack(vc)
  /\ Pending(vc)' <=> Pending(vc)

\* The resend button is pressed.
Asked(vc) ==
  /\ SameClock(vc) /\ ~otp[vc].resendHidden /\ otp'[vc].resendHidden
  /\ otp'[vc].resendFailed \/ Pending(vc)'

\* A resend fails.
Failed(vc) ==
  /\ SameClock(vc) /\ otp'[vc].resendHidden = otp[vc].resendHidden
  /\ otp'[vc].resendFailed
  /\ Pending(vc)' => Pending(vc)

\* A resend succeeds.
Restarted(vc) ==
  /\ Pending(vc) /\ ~Pending(vc)'
  /\ otp'[vc].timerValid /\ otp'[vc].resendHidden
  /\ otp'[vc].labelHidden = otp[vc].labelHidden

Ticked(vc) ==
  /\ otp[vc].timerValid /\ otp'[vc].timerValid /\ otp'[vc].resendHidden
  /\ otp'[vc].sessionTimer = otp[vc].sessionTimer - 1
  /\ otp[vc].sessionTimer > 0
  /\ Pending(vc)' <=> Pending(vc)

Stopped(vc) ==
  /\ otp[vc].timerValid /\ otp[vc].sessionTimer = 0 /\ otp'[vc].sessionTimer = 0
  /\ ~otp'[vc].timerValid /\ ~otp'[vc].resendHidden /\ otp'[vc].labelHidden
  /\ Pending(vc)' <=> Pending(vc)

\* The instance is made.
Fresh(vc) ==
  /\ otp'[vc].timerValid /\ otp'[vc].resendHidden /\ otp'[vc].labelHidden
  /\ ~Pending(vc)'

\* The process ends.
Gone(vc) == otp'[vc] = NilOtpVC /\ ~InStack(vc)' /\ ~Pending(vc)'

\* Without a tick and without a new instance the label is left alone.
CalmEffect(vc) == Untouched(vc) \/ Asked(vc) \/ Failed(vc) \/ Restarted(vc) \/ Gone(vc)

ClockEffect(vc) == CalmEffect(vc) \/ Ticked(vc) \/ Stopped(vc) \/ Fresh(vc)

LEMMA ClockStep ==
  ASSUME TypeOK, TypeOK', NEW vc \in OtpVCs, ClockShape(vc), ClockEffect(vc)
  PROVE  ClockShape(vc)'
<1>1. /\ otp[vc].resendHidden \in BOOLEAN /\ otp'[vc].resendHidden \in BOOLEAN
      /\ otp[vc].timerValid \in BOOLEAN /\ otp'[vc].timerValid \in BOOLEAN
      /\ otp[vc].labelHidden \in BOOLEAN /\ otp'[vc].labelHidden \in BOOLEAN
      /\ otp[vc].resendFailed \in BOOLEAN /\ otp'[vc].resendFailed \in BOOLEAN
  BY DEF TypeOK, OtpVCType
<1>2. CASE Untouched(vc)
  BY <1>1, <1>2 DEF Untouched, SameClock, ClockShape
<1>3. CASE Asked(vc)
  BY <1>1, <1>3 DEF Asked, SameClock, ClockShape
<1>4. CASE Failed(vc)
  BY <1>1, <1>4 DEF Failed, SameClock, ClockShape
<1>5. CASE Restarted(vc)
  BY <1>1, <1>5 DEF Restarted, ClockShape
<1>6. CASE Ticked(vc)
  BY <1>1, <1>6 DEF Ticked, ClockShape
<1>7. CASE Stopped(vc)
  BY <1>1, <1>7 DEF Stopped, ClockShape
<1>8. CASE Fresh(vc)
  BY <1>1, <1>8 DEF Fresh, ClockShape
<1>9. CASE Gone(vc)
  BY <1>1, <1>9 DEF Gone, NilOtpVC, ClockShape
<1> QED
  BY <1>2, <1>3, <1>4, <1>5, <1>6, <1>7, <1>8, <1>9 DEF ClockEffect, CalmEffect

-----------------------------------------------------------------------------
(* Every step is one of these. *)

LEMMA SamePending ==
  ASSUME \A r \in ReqIds : request'[r].kind = "Resend" \/ request[r].kind = "Resend" =>
           request'[r].kind = request[r].kind /\ request'[r].vc = request[r].vc,
         NEW vc
  PROVE  Pending(vc)' <=> Pending(vc)
BY DEF Pending

LEMMA CallPending ==
  ASSUME TypeOK, NEW r \in FreeReqs, NEW q, q.kind # "Resend", NEW o, Call(r, q, o), NEW vc
  PROVE  Pending(vc)' <=> Pending(vc)
<1>1. r \in ReqIds /\ request[r].kind = "idle"
  BY DEF FreeReqs, InFlight
<1>2. \A s \in ReqIds : request'[s] = request[s] \/ (s = r /\ request'[s] = q)
  BY <1>1 DEF Call, TypeOK
<1> QED
  BY <1>1, <1>2, SamePending

LEMMA IdlePending ==
  ASSUME TypeOK, NEW r \in ReqIds, request[r].kind # "Resend",
         request' = [request EXCEPT ![r] = Idle], NEW vc
  PROVE  Pending(vc)' <=> Pending(vc)
<1>1. \A s \in ReqIds : request'[s] = request[s] \/ (s = r /\ request'[s] = Idle)
  BY DEF TypeOK
<1> QED
  BY <1>1, SamePending DEF Idle

\* No step but a successful sign-in brings a code screen into the stack.
LEMMA NoNewScreen ==
  ASSUME TypeOK, NEW vc \in OtpVCs,
         \/ stack' = stack \/ stack' = <<>> \/ stack' = <<"Lounch", "Lounch">>
         \/ stack # <<>> /\ Pop
         \/ \E x \in Screens : x # vc /\ stack' = Append(stack, x)
  PROVE  InStack(vc)' => InStack(vc)
<1>1. CASE stack' = stack
  BY <1>1 DEF InStack
<1>2. CASE stack' = <<>>
  BY <1>2, EmptySeq DEF InStack
<1>3. CASE stack' = <<"Lounch", "Lounch">>
  <2>1. Len(stack') = 2 /\ stack'[1] = "Lounch" /\ stack'[2] = "Lounch"
    BY <1>3
  <2>2. vc # "Lounch"
    BY OtpVCsAssumption
  <2> QED
    BY <2>1, <2>2 DEF InStack
<1>4. CASE stack # <<>> /\ Pop
  <2>1. /\ Len(stack') = Len(stack) - 1
        /\ \A i \in 1..(Len(stack) - 1) : stack'[i] = stack[i]
        /\ Len(stack) \in Nat
    BY <1>4, PopStack DEF TypeOK, Pop
  <2> QED
    BY <2>1 DEF InStack
<1>5. ASSUME NEW x \in Screens, x # vc, stack' = Append(stack, x)
      PROVE  InStack(vc)' => InStack(vc)
  <2>1. /\ Len(stack') = Len(stack) + 1
        /\ \A i \in 1..Len(stack) : stack'[i] = stack[i]
        /\ stack'[Len(stack) + 1] = x
        /\ Len(stack) \in Nat
    BY <1>5, PushStack DEF TypeOK
  <2>2. \A i \in 1..Len(stack') : i \in 1..Len(stack) \/ i = Len(stack) + 1
    BY <2>1
  <2> QED
    BY <1>5, <2>1, <2>2 DEF InStack
<1> QED
  BY <1>1, <1>2, <1>3, <1>4, <1>5

\* A step on the screens, or on other parts of a code screen.
LEMMA UntouchedStep ==
  ASSUME NEW vc \in OtpVCs, otp'[vc] = otp[vc], Pending(vc)' <=> Pending(vc),
         InStack(vc)' => InStack(vc)
  PROVE  CalmEffect(vc)
BY DEF CalmEffect, Untouched, SameClock

LEMMA FocusStep ==
  ASSUME TypeOK, NEW vc \in OtpVCs, NEW v, NEW f, otp' = [otp EXCEPT ![v].focused = f],
         Pending(vc)' <=> Pending(vc), InStack(vc)' => InStack(vc)
  PROVE  CalmEffect(vc)
<1>1. CASE vc # v
  BY <1>1, UntouchedStep DEF TypeOK
<1>2. CASE vc = v
  <2>1. otp'[vc] = [otp[vc] EXCEPT !.focused = f] /\ otp[vc] \in OtpVCType
    BY <1>2 DEF TypeOK
  <2>2. \A o \in OtpVCType : LET p == [o EXCEPT !.focused = f] IN
          /\ p.sessionTimer = o.sessionTimer /\ p.timerValid = o.timerValid
          /\ p.labelHidden = o.labelHidden /\ p.resendHidden = o.resendHidden
          /\ p.resendFailed = o.resendFailed
    BY DEF OtpVCType
  <2> QED
    BY <2>1, <2>2 DEF CalmEffect, Untouched, SameClock
<1> QED
  BY <1>1, <1>2

\* The actions that leave clocks and resends alone.
LEMMA ClockScreens ==
  ASSUME TypeOK, NEW vc \in OtpVCs,
         \/ NavigationScreens \/ agreeContinueBtnref \/ policyBtnref \/ TermsBackBtnref
         \/ showCountriesList \/ didSelectRow
         \/ DismissAlert \/ SubmitInvalidNumber \/ SubmitWithoutName
         \/ (\E v \in OtpVCs : backbtnref(v) \/ CallMebtnref(v))
         \/ UNCHANGED vars
  PROVE  CalmEffect(vc)
<1>1. UNCHANGED <<otp, request>>
  BY DEF NavigationScreens, agreeContinueBtnref, policyBtnref, TermsBackBtnref, DismissAlert,
     showCountriesList, didSelectRow, SubmitInvalidNumber, SubmitWithoutName, backbtnref, CallMebtnref, vars
<1>2. \/ stack' = stack \/ stack' = <<>> \/ stack' = <<"Lounch", "Lounch">>
      \/ stack # <<>> /\ Pop
      \/ \E x \in {"Terms", "Phone", "Countries", "Profile"} : stack' = Append(stack, x)
  BY DEF NavigationScreens, agreeContinueBtnref, policyBtnref, TermsBackBtnref, DismissAlert,
     showCountriesList, didSelectRow, SubmitInvalidNumber, SubmitWithoutName, backbtnref, CallMebtnref, vars, Push, Shows
<1>3. \A x \in {"Terms", "Phone", "Countries", "Profile"} : x \in Screens /\ x # vc
  BY OtpVCsAssumption DEF Screens
<1>4. InStack(vc)' => InStack(vc)
  BY <1>2, <1>3, NoNewScreen
<1>5. Pending(vc)' <=> Pending(vc)
  BY <1>1 DEF Pending
<1> QED
  BY <1>1, <1>4, <1>5, UntouchedStep

LEMMA ClockCalls ==
  ASSUME TypeOK, NEW vc \in OtpVCs,
         \/ LoginApiCalling \/ EditUserProfileMethod \/ \E v \in OtpVCs : enteredOTP(v)
  PROVE  CalmEffect(vc)
<1>1. \E r \in FreeReqs : \E q, o : q.kind # "Resend" /\ Call(r, q, o)
  BY DEF LoginApiCalling, EditUserProfileMethod, enteredOTP, Request
<1>2. Pending(vc)' <=> Pending(vc)
  BY <1>1, CallPending
<1>3. InStack(vc)' => InStack(vc)
  BY DEF LoginApiCalling, EditUserProfileMethod, enteredOTP, InStack
<1>4. CASE LoginApiCalling \/ EditUserProfileMethod
  BY <1>2, <1>3, <1>4, UntouchedStep DEF LoginApiCalling, EditUserProfileMethod
<1>5. CASE \E v \in OtpVCs : enteredOTP(v)
  BY <1>2, <1>3, <1>5, FocusStep DEF enteredOTP
<1> QED
  BY <1>4, <1>5

LEMMA ClockKeys ==
  ASSUME TypeOK, NEW vc \in OtpVCs, NEW v \in OtpVCs, TapOtpField(v) \/ KeyWithoutCode(v)
  PROVE  CalmEffect(vc)
<1>1. (Pending(vc)' <=> Pending(vc)) /\ (InStack(vc)' => InStack(vc))
  BY DEF TapOtpField, KeyWithoutCode, Pending, InStack
<1> QED
  BY <1>1, FocusStep DEF TapOtpField, KeyWithoutCode

\* A resend is asked for: nothing changes on the other screens.
LEMMA ClockResend ==
  ASSUME TypeOK, NEW vc \in OtpVCs, NEW v \in OtpVCs, ResendOtpbtnref(v)
  PROVE  CalmEffect(vc)
<1>1. PICK r \in FreeReqs : \E o :
        /\ otp' = [otp EXCEPT ![v] = [@ EXCEPT !.resendHidden = TRUE, !.resendFailed = (o # "send")]]
        /\ Call(r, Request("Resend", v, defaults.CustomerID), o)
  BY DEF ResendOtpbtnref
<1>2. PICK o :
        /\ otp' = [otp EXCEPT ![v] = [@ EXCEPT !.resendHidden = TRUE, !.resendFailed = (o # "send")]]
        /\ Call(r, Request("Resend", v, defaults.CustomerID), o)
  BY <1>1
<1>3. r \in ReqIds /\ request[r].kind = "idle"
  BY DEF FreeReqs, InFlight
<1>4. \A s \in ReqIds : \/ request'[s] = request[s]
                        \/ s = r /\ request'[s] = Request("Resend", v, defaults.CustomerID)
  BY <1>2, <1>3 DEF Call, TypeOK
<1>5. InStack(vc)' => InStack(vc)
  BY DEF ResendOtpbtnref, InStack
<1>6. CASE vc # v
  <2>1. Pending(vc)' <=> Pending(vc)
    BY <1>3, <1>4, <1>6 DEF Pending, Request
  <2>2. otp'[vc] = otp[vc]
    BY <1>2, <1>6 DEF TypeOK
  <2> QED
    BY <1>5, <2>1, <2>2, UntouchedStep
<1>7. CASE vc = v
  <2>1. /\ otp'[vc] = [otp[vc] EXCEPT !.resendHidden = TRUE, !.resendFailed = (o # "send")]
        /\ otp[vc] \in OtpVCType
    BY <1>2, <1>7 DEF TypeOK
  <2>2. SameClock(vc) /\ otp'[vc].resendHidden = TRUE /\ otp'[vc].resendFailed = (o # "send")
    BY <2>1 DEF SameClock, OtpVCType
  <2>3. o = "send" => Pending(vc)'
    <3>1. o = "send" => request'[r] = Request("Resend", v, defaults.CustomerID)
      BY <1>2, <1>3 DEF Call, TypeOK
    <3> QED
      BY <1>3, <1>7, <3>1 DEF Pending, Request
  <2>4. ~otp[vc].resendHidden
    BY <1>7 DEF ResendOtpbtnref
  <2> QED
    BY <2>2, <2>3, <2>4 DEF CalmEffect, Asked
<1> QED
  BY <1>6, <1>7

LEMMA ClockServe ==
  ASSUME TypeOK, NEW vc \in OtpVCs, NEW r \in ReqIds, Serve(r)
  PROVE  CalmEffect(vc)
<1>1. \A s \in ReqIds : request'[s].kind = request[s].kind /\ request'[s].vc = request[s].vc
  BY DEF Serve, TypeOK, RequestType
<1>2. Pending(vc)' <=> Pending(vc)
  BY <1>1, SamePending
<1> QED
  BY <1>2, UntouchedStep DEF Serve, InStack

LEMMA ClockEnd ==
  ASSUME NEW vc \in OtpVCs, ProcessEnd
  PROVE  CalmEffect(vc)
<1>1. Die
  BY DEF ProcessEnd, Kill, KillInRegister, Trap
<1>2. otp'[vc] = NilOtpVC /\ stack' = <<>> /\ \A r \in ReqIds : request'[r].kind = "idle"
  BY <1>1 DEF Die, Idle
<1>3. ~InStack(vc)'
  BY <1>2, EmptySeq DEF InStack
<1> QED
  BY <1>2, <1>3 DEF CalmEffect, Gone, Pending

\* The closures that end no resend.
LEMMA ClockRegister ==
  ASSUME TypeOK, NEW vc \in OtpVCs, NEW r \in ReqIds, RegisterCompletion(r)
  PROVE  CalmEffect(vc)
<1>1. Pending(vc)' <=> Pending(vc)
  BY IdlePending DEF RegisterCompletion
<1>2. stack' = stack \/ stack' = Append(stack, "Profile")
  BY DEF RegisterCompletion
<1>3. "Profile" \in Screens /\ "Profile" # vc
  BY OtpVCsAssumption DEF Screens
<1>4. InStack(vc)' => InStack(vc)
  BY <1>2, <1>3, NoNewScreen
<1>5. otp' = otp \/ \E v, f : otp' = [otp EXCEPT ![v].focused = f]
  BY DEF RegisterCompletion, initializeUI
<1>6. CASE otp' = otp
  BY <1>1, <1>4, <1>6, UntouchedStep
<1>7. CASE \E v, f : otp' = [otp EXCEPT ![v].focused = f]
  BY <1>1, <1>4, <1>7, FocusStep
<1> QED
  BY <1>5, <1>6, <1>7

LEMMA ClockUpdate ==
  ASSUME TypeOK, NEW vc \in OtpVCs, NEW r \in ReqIds, UpdateCompletion(r)
  PROVE  CalmEffect(vc)
<1>1. Pending(vc)' <=> Pending(vc)
  BY IdlePending DEF UpdateCompletion
<1>2. stack' = stack \/ stack' = <<>>
  BY DEF UpdateCompletion
<1>3. InStack(vc)' => InStack(vc)
  BY <1>2, NoNewScreen
<1> QED
  BY <1>1, <1>3, UntouchedStep DEF UpdateCompletion

\* A resend is alone, so none is pending once it is answered.
LEMMA ClockResendCompletion ==
  ASSUME TypeOK, IInv, NEW vc \in OtpVCs, NEW r \in ReqIds, ResendCompletion(r)
  PROVE  CalmEffect(vc)
<1>1. request[r].kind = "Resend" /\ InFlight(r)
  BY DEF ResendCompletion, InFlight
<1>2. \A s \in ReqIds : s # r => request[s].kind # "Resend"
  BY <1>1 DEF IInv, LoneRequests, InFlight
<1>3. \A s \in ReqIds : request'[s].kind # "Resend"
  BY <1>2 DEF ResendCompletion, TypeOK, Idle
<1>4. ~Pending(vc)'
  BY <1>3 DEF Pending
<1>5. InStack(vc)' => InStack(vc)
  BY DEF ResendCompletion, InStack
<1>6. CASE vc # request[r].vc
  <2>1. otp'[vc] = otp[vc]
    BY <1>6 DEF ResendCompletion, TypeOK
  <2>2. ~Pending(vc)
    BY <1>1, <1>2, <1>6 DEF Pending
  <2> QED
    BY <1>4, <1>5, <2>1, <2>2, UntouchedStep
<1>7. CASE vc = request[r].vc
  <2>1. otp[vc] \in OtpVCType /\ Pending(vc)
    BY <1>1, <1>7 DEF TypeOK, Pending
  <2>2. \/ otp' = [otp EXCEPT ![vc] = [@ EXCEPT !.sessionTimer = SessionSeconds,
                                               !.resendHidden = TRUE, !.timerValid = TRUE]]
        \/ otp' = [otp EXCEPT ![vc].resendFailed = TRUE]
    BY <1>7 DEF ResendCompletion
  <2>3. CASE otp' = [otp EXCEPT ![vc] = [@ EXCEPT !.sessionTimer = SessionSeconds,
                                               !.resendHidden = TRUE, !.timerValid = TRUE]]
    <3>1. otp'[vc].timerValid = TRUE /\ otp'[vc].resendHidden = TRUE
          /\ otp'[vc].labelHidden = otp[vc].labelHidden
      BY <2>1, <2>3 DEF TypeOK, OtpVCType
    <3> QED
      BY <1>4, <2>1, <3>1 DEF CalmEffect, Restarted
  <2>4. CASE otp' = [otp EXCEPT ![vc].resendFailed = TRUE]
    <3>1. otp'[vc].resendFailed = TRUE /\ otp'[vc].resendHidden = otp[vc].resendHidden
          /\ SameClock(vc)
      BY <2>1, <2>4 DEF TypeOK, OtpVCType, SameClock
    <3> QED
      BY <1>4, <3>1 DEF CalmEffect, Failed
  <2> QED
    BY <2>2, <2>3, <2>4
<1> QED
  BY <1>6, <1>7

\* A new instance takes the place of one that nothing refers to.
LEMMA ClockLogin ==
  ASSUME TypeOK, NEW vc \in OtpVCs, NEW r \in ReqIds, LoginCompletion(r)
  PROVE  Untouched(vc) \/ Fresh(vc)
<1>1. Pending(vc)' <=> Pending(vc)
  BY IdlePending DEF LoginCompletion
<1>2. CASE stack' = stack /\ otp' = otp
  BY <1>1, <1>2 DEF Untouched, SameClock, InStack
<1>3. ASSUME NEW c \in CustomerIDs, NEW v \in FreeOtpVCs, NEW f \in BOOLEAN,
             otp' = [otp EXCEPT ![v] = NewOtpVC(c, f)], Push(v)
      PROVE  Untouched(vc) \/ Fresh(vc)
  <2>1. v \in OtpVCs /\ \A s \in ReqIds : request[s].vc # v
    BY DEF FreeOtpVCs
  <2>2. CASE vc # v
    <3>1. v \in Screens /\ v # vc /\ stack' = Append(stack, v)
      BY <1>3, <2>1, <2>2 DEF Screens, Push
    <3>2. InStack(vc)' => InStack(vc)
      BY <3>1, NoNewScreen
    <3>3. otp'[vc] = otp[vc]
      BY <1>3, <2>2 DEF TypeOK
    <3> QED
      BY <1>1, <3>2, <3>3 DEF Untouched, SameClock
  <2>3. CASE vc = v
    <3>1. otp'[vc] = NewOtpVC(c, f)
      BY <1>3, <2>1, <2>3 DEF TypeOK
    <3>2. ~Pending(vc)'
      BY <1>1, <2>1, <2>3 DEF Pending
    <3> QED
      BY <3>1, <3>2 DEF Fresh, NewOtpVC
  <2> QED
    BY <2>2, <2>3
<1> QED
  BY <1>2, <1>3 DEF LoginCompletion

LEMMA ClockTick ==
  ASSUME TypeOK, NEW vc \in OtpVCs, NEW v \in OtpVCs, action(v)
  PROVE  /\ vc # v => Untouched(vc) /\ otp'[vc] = otp[vc]
         /\ vc = v => IF otp[vc].sessionTimer > 0 THEN Ticked(vc) ELSE Stopped(vc)
<1>1. (Pending(vc)' <=> Pending(vc)) /\ (InStack(vc)' => InStack(vc))
  BY DEF action, Pending, InStack
<1>2. otp[vc] \in OtpVCType /\ otp[vc].sessionTimer \in Nat /\ otp[vc].sessionTimer \in 0..SessionSeconds
  BY SecondsAssumption DEF TypeOK, OtpVCType
<1>3. CASE vc # v
  <2>1. otp'[vc] = otp[vc]
    BY <1>3 DEF action, TypeOK
  <2> QED
    BY <1>1, <1>3, <2>1 DEF Untouched, SameClock
<1>4. CASE vc = v /\ otp[vc].sessionTimer > 0
  <2>1. otp'[vc] = [otp[vc] EXCEPT !.sessionTimer = otp[vc].sessionTimer - 1,
                                   !.resendHidden = TRUE, !.labelHidden = FALSE]
    BY <1>4 DEF action, TypeOK
  <2>2. /\ otp'[vc].sessionTimer = otp[vc].sessionTimer - 1 /\ otp'[vc].resendHidden = TRUE
        /\ otp'[vc].timerValid = otp[vc].timerValid
    BY <1>2, <2>1 DEF OtpVCType
  <2> QED
    BY <1>1, <1>4, <2>2 DEF Ticked, action
<1>5. CASE vc = v /\ ~(otp[vc].sessionTimer > 0)
  <2>1. otp'[vc] = [otp[vc] EXCEPT !.timerValid = FALSE, !.resendHidden = FALSE, !.labelHidden = TRUE]
    BY <1>5 DEF action, TypeOK
  <2>2. /\ otp'[vc].sessionTimer = otp[vc].sessionTimer /\ otp'[vc].resendHidden = FALSE
        /\ otp'[vc].timerValid = FALSE /\ otp'[vc].labelHidden = TRUE
    BY <1>2, <2>1 DEF OtpVCType
  <2>3. otp[vc].sessionTimer = 0
    BY <1>2, <1>5
  <2> QED
    BY <1>1, <1>5, <2>2, <2>3 DEF Stopped, action
<1> QED
  BY <1>3, <1>4, <1>5

LEMMA CalmSteps ==
  ASSUME TypeOK, IInv, NEW vc \in OtpVCs,
         \/ NavigationScreens \/ PhoneTouch \/ ScreenTouch \/ EditUserProfileMethod \/ ProcessEnd
         \/ \E r \in ReqIds :
              RegisterCompletion(r) \/ ResendCompletion(r) \/ UpdateCompletion(r) \/ Serve(r)
         \/ \E c \in Customers : ServeLate(c)
         \/ UNCHANGED vars
  PROVE  CalmEffect(vc)
<1>1. CASE NavigationScreens \/ UNCHANGED vars
  BY <1>1, ClockScreens
<1>2. CASE PhoneTouch \/ EditUserProfileMethod
  BY <1>2, ClockScreens, ClockCalls DEF PhoneTouch
<1>3. CASE ScreenTouch
  BY <1>3, ClockScreens, ClockCalls, ClockKeys, ClockResend DEF ScreenTouch
<1>4. CASE ProcessEnd
  BY <1>4, ClockEnd
<1>5. ASSUME NEW r \in ReqIds,
             RegisterCompletion(r) \/ ResendCompletion(r) \/ UpdateCompletion(r) \/ Serve(r)
      PROVE  CalmEffect(vc)
  BY <1>5, ClockRegister, ClockResendCompletion, ClockUpdate, ClockServe
<1>6. CASE \E c \in Customers : ServeLate(c)
  BY <1>6 DEF ServeLate, CalmEffect, Untouched, SameClock, Pending, InStack
<1> QED
  BY <1>1, <1>2, <1>3, <1>4, <1>5, <1>6

LEMMA EveryStep ==
  ASSUME TypeOK, IInv, NEW vc \in OtpVCs, [Next]_vars
  PROVE  ClockEffect(vc)
<1>1. ASSUME NEW v \in OtpVCs, action(v)
      PROVE  ClockEffect(vc)
  BY <1>1, ClockTick DEF ClockEffect, CalmEffect
<1>2. ASSUME NEW r \in ReqIds, LoginCompletion(r)
      PROVE  ClockEffect(vc)
  BY <1>2, ClockLogin DEF ClockEffect, CalmEffect
<1>3. CASE \/ NavigationScreens \/ PhoneTouch \/ ScreenTouch \/ EditUserProfileMethod \/ ProcessEnd
           \/ \E r \in ReqIds :
                RegisterCompletion(r) \/ ResendCompletion(r) \/ UpdateCompletion(r) \/ Serve(r)
           \/ \E c \in Customers : ServeLate(c)
           \/ UNCHANGED vars
  BY <1>3, CalmSteps DEF ClockEffect
<1> QED
  BY <1>1, <1>2, <1>3 DEF Next, Completion

-----------------------------------------------------------------------------
(* The resend button. *)

LEMMA ClockInit == Init => ClockInv
<1> SUFFICES ASSUME Init, NEW vc \in OtpVCs PROVE ClockShape(vc)
  BY DEF ClockInv
<1>1. otp[vc] = NilOtpVC /\ stack = <<>> /\ \A r \in ReqIds : request[r].kind = "idle"
  BY DEF Init, Idle
<1> QED
  BY <1>1, EmptySeq DEF ClockShape, Pending, NilOtpVC, InStack

LEMMA ClockNext == TypeOK /\ TypeOK' /\ IInv /\ ClockInv /\ [Next]_vars => ClockInv'
<1> SUFFICES ASSUME TypeOK, TypeOK', IInv, ClockInv, [Next]_vars, NEW vc \in OtpVCs
             PROVE  ClockShape(vc)'
  BY DEF ClockInv
<1> QED
  BY EveryStep, ClockStep DEF ClockInv

LEMMA ClockCorrect == Spec => []ClockInv
BY ClockInit, ClockNext, TypeCorrect, Inductive, PTL DEF Spec

\* On every code screen the resend button is offered only after its countdown, a
\* timer stops only at zero, and without either a resend is pending or has failed.
THEOREM ResendCorrect == Spec => []ResendOffered
<1>1. ClockInv => ResendOffered
  BY DEF ClockInv, ClockShape, ResendOffered, Pending
<1> QED
  BY <1>1, ClockCorrect, PTL

-----------------------------------------------------------------------------
(* The label. *)

\* The label is a variable next to the sign-in flow and never in its way.
LEMMA LabelSpec == LSpec => Spec
<1>1. LInit => Init
  BY DEF LInit
<1>2. [LNext]_lvars => [Next]_vars
  BY DEF LNext, lvars, OtherStep, LoadLabel, Tick, Next, Completion
<1> QED
  BY <1>1, <1>2, PTL DEF LSpec, Spec

\* Every time the timer of a code screen can have is below an hour.
LEMMA LabelTexts == \A t \in 0..SessionSeconds : Reads(simpleTimeString(t)) = t
<1>1. \A t \in 0..SessionSeconds : t \in Nat /\ t < 3600
  BY SecondsAssumption, LabelAssumption
<1> QED
  BY <1>1, TextReadsAsTime

LabelTable == DOMAIN label = OtpVCs

\* A step that leaves the text alone: no label comes into view with another time.
LEMMA CalmLabel ==
  ASSUME TypeOK, NEW vc \in OtpVCs, ClockShape(vc), CalmEffect(vc) \/ Fresh(vc), ~otp'[vc].labelHidden
  PROVE  ~otp[vc].labelHidden /\ otp'[vc].sessionTimer = otp[vc].sessionTimer
<1>1. otp[vc].labelHidden \in BOOLEAN
  BY DEF TypeOK, OtpVCType
<1>2. ~Fresh(vc)
  BY DEF Fresh
<1>3. ~Gone(vc)
  BY DEF Gone, NilOtpVC
<1>4. ~Restarted(vc)
  BY DEF Restarted, ClockShape
<1> QED
  BY <1>1, <1>2, <1>3, <1>4 DEF CalmEffect, Untouched, Asked, Failed, SameClock

LEMMA LabelStep ==
  ASSUME TypeOK, TypeOK', IInv, ClockInv, LabelShowsTimer, LabelTable,
         [LNext]_lvars, NEW vc \in OtpVCs, ~otp'[vc].labelHidden
  PROVE  Reads(label'[vc]) = otp'[vc].sessionTimer
<1>1. ClockShape(vc) /\ (~otp[vc].labelHidden => Reads(label[vc]) = otp[vc].sessionTimer)
  BY DEF ClockInv, LabelShowsTimer
<1>2. CASE OtherStep \/ UNCHANGED lvars
  <2>1. CalmEffect(vc) /\ label' = label
    BY <1>2, CalmSteps DEF OtherStep, lvars
  <2> QED
    BY <1>1, <2>1, CalmLabel
<1>3. CASE LoadLabel
  <2>1. Untouched(vc) \/ Fresh(vc)
    BY <1>3, ClockLogin DEF LoadLabel
  <2>2. ~otp[vc].labelHidden /\ otp'[vc].sessionTimer = otp[vc].sessionTimer
    BY <1>1, <2>1, CalmLabel DEF CalmEffect
  <2>3. vc \notin FreeOtpVCs
    BY <1>1, <2>2 DEF ClockShape, FreeOtpVCs
  <2>4. label'[vc] = label[vc]
    BY <1>3, <2>3 DEF LoadLabel
  <2> QED
    BY <1>1, <2>2, <2>4
<1>4. ASSUME NEW v \in OtpVCs, Tick(v)
      PROVE  Reads(label'[vc]) = otp'[vc].sessionTimer
  <2>1. action(v) /\ (vc # v => label'[vc] = label[vc])
    BY <1>4 DEF Tick, LabelTable
  <2>2. CASE vc # v
    BY <1>1, <2>1, <2>2, ClockTick
  <2>3. CASE vc = v
    <3>1. otp[vc].sessionTimer > 0
      BY <2>1, <2>3, ClockTick DEF Stopped
    <3>2. label'[vc] = simpleTimeString(otp'[vc].sessionTimer)
      BY <1>4, <2>3, <3>1 DEF Tick, LabelAfter, LabelTable
    <3>3. otp'[vc].sessionTimer \in 0..SessionSeconds
      BY DEF TypeOK, OtpVCType
    <3> QED
      BY <3>2, <3>3, LabelTexts
  <2> QED
    BY <2>2, <2>3
<1> QED
  BY <1>2, <1>3, <1>4 DEF LNext

LEMMA TableStep == LabelTable /\ [LNext]_lvars => LabelTable'
<1> USE DEF LabelTable
<1>1. CASE OtherStep \/ LoadLabel \/ UNCHANGED lvars
  BY <1>1 DEF OtherStep, LoadLabel, lvars
<1>2. CASE \E vc \in OtpVCs : Tick(vc)
  BY <1>2 DEF Tick
<1> QED
  BY <1>1, <1>2 DEF LNext

\* A label in view reads as the seconds left of its screen's countdown, however
\* ticks, resends and new code screens interleave.
THEOREM LabelCorrect == LSpec => []LabelShowsTimer
<1>1. LInit => LabelTable /\ LabelShowsTimer
  BY DEF LInit, Init, LabelShowsTimer, NilOtpVC, LabelTable
<1>2. TypeOK /\ TypeOK' /\ IInv /\ ClockInv /\ LabelShowsTimer /\ LabelTable /\ [LNext]_lvars
        => LabelShowsTimer'
  <2> SUFFICES ASSUME TypeOK, TypeOK', IInv, ClockInv, LabelShowsTimer, LabelTable,
                      [LNext]_lvars, NEW vc \in OtpVCs, ~otp'[vc].labelHidden
               PROVE  Reads(label'[vc]) = otp'[vc].sessionTimer
    BY DEF LabelShowsTimer
  <2> QED
    BY LabelStep
<1> QED
  BY <1>1, <1>2, TableStep, LabelSpec, TypeCorrect, Inductive, ClockCorrect, PTL DEF LSpec

\* A label that stays in view goes down one by one: a late answer to a resend
\* never restarts a countdown the user is looking at.
THEOREM LabelDown == LSpec => LabelCountsDown
<1> DEFINE Down(vc) == ~otp[vc].labelHidden /\ ~otp'[vc].labelHidden =>
                         Reads(label'[vc]) \in {Reads(label[vc]), Reads(label[vc]) - 1}
<1>1. TypeOK /\ IInv /\ ClockInv /\ LabelShowsTimer /\ LabelShowsTimer' /\ [LNext]_lvars
        => \A vc \in OtpVCs : Down(vc)
  <2> SUFFICES ASSUME TypeOK, IInv, ClockInv, LabelShowsTimer, LabelShowsTimer', [LNext]_lvars,
                      NEW vc \in OtpVCs, ~otp[vc].labelHidden, ~otp'[vc].labelHidden
               PROVE  Reads(label'[vc]) \in {Reads(label[vc]), Reads(label[vc]) - 1}
    OBVIOUS
  <2>1. Reads(label[vc]) = otp[vc].sessionTimer /\ Reads(label'[vc]) = otp'[vc].sessionTimer
    BY DEF LabelShowsTimer
  <2>2. [Next]_vars
    BY DEF LNext, lvars, OtherStep, LoadLabel, Tick, Next, Completion
  <2>3. ClockEffect(vc) /\ ClockShape(vc)
    BY <2>2, EveryStep DEF ClockInv
  <2>4. CASE CalmEffect(vc) \/ Fresh(vc)
    BY <2>1, <2>3, <2>4, CalmLabel
  <2>5. CASE Ticked(vc)
    BY <2>1, <2>5 DEF Ticked
  <2>6. CASE Stopped(vc)
    BY <2>6 DEF Stopped
  <2> QED
    BY <2>3, <2>4, <2>5, <2>6 DEF ClockEffect
<1>2. [\A vc \in OtpVCs : Down(vc)]_lvars
        <=> [\A vc \in OtpVCs : ~otp[vc].labelHidden /\ ~otp'[vc].labelHidden =>
               Reads(label'[vc]) \in {Reads(label[vc]), Reads(label[vc]) - 1}]_lvars
  OBVIOUS
<1> HIDE DEF Down
<1> QED
  BY <1>1, <1>2, LabelCorrect, LabelSpec, TypeCorrect, Inductive, ClockCorrect, PTL DEF LSpec, LabelCountsDown
=============================================================================
