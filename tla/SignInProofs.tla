---------------------------- MODULE SignInProofs ----------------------------
(***************************************************************************)
(* The safety of SignIn, for any customers, any number of code screens and   *)
(* of requests, and any answers of the network: IInv is inductive, and the   *)
(* properties of SignIn follow from it.                                     *)
(***************************************************************************)
EXTENDS SignInTypeProofs

-----------------------------------------------------------------------------
(* Facts about the screens, the answers and the flag. *)

\* The screen on top tells how deep the stack is.
LEMMA TopScreen ==
  ASSUME TypeOK, IInv
  PROVE  /\ Shows("Lounch") => Len(stack) = 2
         /\ Shows("Terms") => Len(stack) = 3
         /\ Shows("Phone") => Len(stack) = 3 /\ stack[3] = "Phone"
         /\ Shows("Countries") => Len(stack) = 4
         /\ Shows("Profile") => Len(stack) >= 5
         /\ \A vc \in OtpVCs : Shows(vc) => Len(stack) = 4 /\ stack[4] = vc
<1> SUFFICES ASSUME root = "nav", NEW x, stack[Len(stack)] = x
             PROVE  /\ x = "Lounch" => Len(stack) = 2
                    /\ x = "Terms" => Len(stack) = 3
                    /\ x = "Phone" => Len(stack) = 3
                    /\ x = "Countries" => Len(stack) = 4
                    /\ x = "Profile" => Len(stack) >= 5
                    /\ x \in OtpVCs => Len(stack) = 4
  BY DEF Shows
<1> DEFINE n == Len(stack)
<1>1. n \in Nat /\ n >= 2
  BY DEF TypeOK, IInv, StackShape
<1>2. n \in 1..Len(stack)
  BY <1>1
<1> HIDE DEF n
<1>3. /\ n <= 2 => stack[n] = "Lounch"
      /\ n = 3  => stack[n] \in {"Terms", "Phone"}
      /\ n = 4  => stack[n] \in OtpVCs \cup {"Countries"}
      /\ n >= 5 => stack[n] = "Profile"
  BY <1>2 DEF IInv, StackShape, OneSignInPath
<1>4. stack[n] = x /\ n = Len(stack)
  BY DEF n
<1>5. \A vc \in OtpVCs : /\ vc # "Lounch" /\ vc # "Terms" /\ vc # "Phone"
                         /\ vc # "Countries" /\ vc # "Profile"
  BY OtpVCsAssumption
<1> QED
  BY <1>1, <1>3, <1>4, <1>5

\* Above the code screen there are only profile screens, and they have one below them.
LEMMA DeepStack ==
  ASSUME TypeOK, IInv, Len(stack) >= 5 PROVE CodeScreen
<1>1. Len(stack) \in 1..Len(stack) /\ Len(stack) >= 4
  BY DEF TypeOK
<1> QED
  BY <1>1 DEF IInv, StackShape, OneSignInPath, CodeScreen

\* Touchable means that nothing is pending.
LEMMA NothingPending ==
  ASSUME IInv, Touchable PROVE \A r \in ReqIds : ~InFlight(r)
BY DEF IInv, RequestShape, Touchable

\* RegisterCompletion believes only an answer to a request the server served.
LEMMA OkMeansServed ==
  ASSUME NEW served \in BOOLEAN, "ok" \in RegisterVerdicts[served] PROVE served
<1>1. PICK a \in Answers(served) : RegisterVerdict(a[1], a[2]) = "ok"
  BY DEF RegisterVerdicts
<1> DEFINE c == responseData(a[1], a[2])
<1>2. WrappedVerdict(c, {403, 422}) = "ok"
  BY <1>1 DEF RegisterVerdict
<1>3. c \in {NeverCalled, Completed(TRUE, a[2]), Completed(TRUE, JSONString),
            Completed(FALSE, JSONString)}
  BY DEF responseData
<1> HIDE DEF c
<1>4. c.called /\ c.status /\ ModelVerdict(c.response, {403, 422}) = "ok"
  BY <1>2, <1>3 DEF WrappedVerdict, NeverCalled, Completed
<1>5. c.response.kind = "object" /\ c.response.status = 200
  <2> DEFINE o == c.response.status = 200
             t == c.response.status \in {204, 400, 401}
             l == c.response.status \in {403, 422}
  <2>1. c.response.kind = "object"
    BY <1>4 DEF ModelVerdict
  <2>2. "ok" = CASE o -> "ok" [] t -> "toast" [] l -> "alert" [] OTHER -> "ignored"
    BY <1>4, <2>1 DEF ModelVerdict
  <2> HIDE DEF o, t, l
  <2>3. o
    BY <2>2
  <2> QED
    BY <2>1, <2>3 DEF o
<1>6. JSONString.kind # "object"
  BY DEF JSONString, Body
<1>7. c.response = a[2]
  BY <1>3, <1>4, <1>5, <1>6 DEF NeverCalled, Completed
<1> QED
  BY <1>5, <1>7 DEF Answers

-----------------------------------------------------------------------------
(* Kinds of step. *)

\* A step that leaves screens and UserDefaults alone, starts no request and keeps
\* the spinner of every pending one.
LEMMA QuietStep ==
  ASSUME TypeOK, IInv,
         UNCHANGED <<root, stack, defaults>>,
         accepted \subseteq accepted', posted \subseteq posted',
         \A r \in ReqIds : request'[r] = request[r] \/ request'[r] = Idle,
         \A r \in ReqIds : InFlight(r)' => r \in overlay',
         \A v \in OtpVCs : otp'[v].CustomerID = otp[v].CustomerID
  PROVE  IInv'
<1>1. \A r \in ReqIds : InFlight(r)' => InFlight(r) /\ request'[r] = request[r]
  BY DEF InFlight, Idle
<1>2. StackShape' /\ FlagShape'
  BY DEF IInv, StackShape, OneSignInPath, FlagShape, FlagMeansConfirmed
<1>3. RequestShape'
  BY <1>1 DEF IInv, RequestShape, CodeScreen
<1>4. LoneRequests'
  BY <1>1 DEF IInv, LoneRequests
<1>5. CustomerShape'
  BY DEF IInv, CustomerShape, CodeScreen
<1> QED
  BY <1>2, <1>3, <1>4, <1>5 DEF IInv

\* The process ends, and only the three keys and the server's record remain.
LEMMA DieStep ==
  ASSUME TypeOK', Die, FlagMeansConfirmed' PROVE IInv'
<1>1. stack' = <<>> /\ Len(stack') = 0 /\ root' = "none"
  BY EmptySeq DEF Die
<1>2. \A r \in ReqIds : ~InFlight(r)'
  BY DEF Die, InFlight, Idle
<1>3. StackShape' /\ CustomerShape' /\ FlagShape'
  BY <1>1 DEF StackShape, OneSignInPath, CustomerShape, CodeScreen, FlagShape
<1>4. RequestShape' /\ LoneRequests'
  BY <1>2 DEF RequestShape, LoneRequests
<1> QED
  BY <1>3, <1>4 DEF IInv

\* A push or a pop while nothing is pending: only the stack matters.
LEMMA StackStep ==
  ASSUME TypeOK, IInv, Touchable, root = "nav",
         UNCHANGED <<root, otp, request, defaults, accepted>>,
         OneSignInPath', Len(stack') >= 2,
         CodeScreen' => CodeScreen /\ stack'[4] = stack[4],
         Len(stack) >= 5 => Len(stack') >= 5
  PROVE  IInv'
<1>1. \A r \in ReqIds : ~InFlight(r)'
  BY NothingPending DEF InFlight
<1>2. RequestShape' /\ LoneRequests'
  BY <1>1 DEF RequestShape, LoneRequests
<1>3. StackShape' /\ CustomerShape'
  BY DEF IInv, StackShape, CustomerShape
<1>4. FlagShape'
  BY DEF IInv, FlagShape, FlagMeansConfirmed
<1> QED
  BY <1>2, <1>3, <1>4 DEF IInv

\* A request that fits the screen it is issued from and the requests pending.
LEMMA CallStep ==
  ASSUME TypeOK, IInv, NEW r \in FreeReqs, NEW q, NEW outcome, Call(r, q, outcome),
         UNCHANGED <<root, stack, defaults, accepted>>, posted \subseteq posted',
         \A v \in OtpVCs : otp'[v].CustomerID = otp[v].CustomerID,
         q \in RequestType, q.kind \in Kinds, root = "nav", ~q.served,
         q.kind = "LogIN" => Len(stack) = 3 /\ stack[3] = "Phone",
         q.kind = "Update" => Len(stack) >= 5,
         q.kind \in {"Register", "Resend"} => CodeScreen /\ q.vc = stack[4],
         q.kind = "Register" /\ outcome = "send" => q.customer \in posted',
         q.kind # "LogIN" => q.customer = defaults.CustomerID,
         \A s \in ReqIds : InFlight(s) =>
            q.kind = "Register" /\ request[s].kind \in {"Register", "Resend"}
  PROVE  IInv'
<1>0. r \in ReqIds /\ ~InFlight(r)
  BY DEF FreeReqs
<1>1. CASE outcome # "send"
  <2>1. request' = request /\ overlay \subseteq overlay'
    BY <1>1 DEF Call
  <2> QED
    BY <2>1, QuietStep DEF IInv, RequestShape, InFlight
<1>2. CASE outcome = "send"
  <2>1. request'[r] = q /\ \A s \in ReqIds \ {r} : request'[s] = request[s]
    BY <1>0, <1>2 DEF Call, TypeOK
  <2>2. overlay' = overlay \cup {r}
    BY <1>2 DEF Call
  <2>3. \A s \in ReqIds \ {r} : InFlight(s)' = InFlight(s)
    BY <2>1 DEF InFlight
  <2>4. StackShape' /\ FlagShape'
    BY DEF IInv, StackShape, OneSignInPath, FlagShape, FlagMeansConfirmed
  <2>5. RequestShape'
    <3> SUFFICES ASSUME NEW s \in ReqIds, InFlight(s)'
                 PROVE  RequestShape!(s)!2'
      BY DEF RequestShape
    <3>0. CodeScreen' = CodeScreen
      BY DEF CodeScreen
    <3>1. CASE s = r
      BY <1>2, <3>0, <3>1, <2>1, <2>2
    <3>2. CASE s # r
      BY <3>0, <3>2, <2>1, <2>2, <2>3 DEF IInv, RequestShape
    <3> QED
      BY <3>1, <3>2
  <2>6. LoneRequests'
    BY <2>1, <2>3 DEF IInv, LoneRequests
  <2>7. CustomerShape'
    BY DEF IInv, CustomerShape, CodeScreen
  <2> QED
    BY <2>4, <2>5, <2>6, <2>7 DEF IInv
<1> QED
  BY <1>1, <1>2

-----------------------------------------------------------------------------
(* One lemma per group of handlers. *)

LEMMA IInvInit == Init => IInv
<1> SUFFICES ASSUME Init PROVE IInv
  OBVIOUS
<1>1. Len(stack) = 0 /\ \A r \in ReqIds : ~InFlight(r)
  BY EmptySeq DEF Init, InFlight, Idle
<1>2. StackShape /\ CustomerShape /\ FlagShape
  BY <1>1
  DEF Init, StackShape, OneSignInPath, CustomerShape, CodeScreen, FlagShape, FlagMeansConfirmed
<1>3. RequestShape /\ LoneRequests
  BY <1>1 DEF RequestShape, LoneRequests
<1> QED
  BY <1>2, <1>3 DEF IInv

LEMMA IInvLaunch ==
  ASSUME TypeOK, TypeOK', IInv, NavigationScreens \/ Kill PROVE IInv'
<1>1. CASE NavigationScreens
  <2>1. \A r \in ReqIds : ~InFlight(r)'
    BY <1>1 DEF IInv, RequestShape, NavigationScreens, InFlight
  <2>2. RequestShape' /\ LoneRequests'
    BY <2>1 DEF RequestShape, LoneRequests
  <2>3. /\ StackShape'
        /\ Len(stack') < 4
        /\ root' = "nav" => ~defaults.IsUserLogIned
    <3>1. CASE defaults.IsUserLogIned
      BY <1>1, <3>1, EmptySeq DEF NavigationScreens, StackShape, OneSignInPath
    <3>2. CASE ~defaults.IsUserLogIned
      <4>1. stack' = <<"Lounch", "Lounch">> /\ root' = "nav"
        BY <1>1, <3>2 DEF NavigationScreens
      <4>2. Len(stack') = 2 /\ stack'[1] = "Lounch" /\ stack'[2] = "Lounch"
        BY <4>1
      <4> QED
        BY <3>2, <4>1, <4>2 DEF StackShape, OneSignInPath
    <3> QED
      BY <3>1, <3>2
  <2>4. Len(stack') \in Nat
    BY DEF TypeOK
  <2>5. CustomerShape'
    BY <2>3, <2>4 DEF CustomerShape, CodeScreen
  <2>6. FlagShape'
    BY <1>1, <2>3 DEF NavigationScreens, IInv, FlagShape, FlagMeansConfirmed
  <2> QED
    BY <2>2, <2>3, <2>5, <2>6 DEF IInv
<1>2. CASE Kill
  BY <1>2, DieStep DEF Kill, IInv, FlagShape, FlagMeansConfirmed
<1> QED
  BY <1>1, <1>2

LEMMA IInvAlert ==
  ASSUME TypeOK, IInv, DismissAlert \/ SubmitInvalidNumber \/ SubmitWithoutName
  PROVE  IInv'
BY QuietStep DEF DismissAlert, SubmitInvalidNumber, SubmitWithoutName, IInv, RequestShape, InFlight

\* One screen more, where the path allows it.
LEMMA PushPath ==
  ASSUME TypeOK, IInv, root = "nav", NEW x \in Screens, stack' = Append(stack, x),
         Len(stack) = 2 => x = "Terms" \/ x = "Phone",
         Len(stack) = 3 => stack[3] = "Phone" /\ x \in OtpVCs \cup {"Countries"},
         Len(stack) >= 4 => stack[4] \in OtpVCs /\ x = "Profile"
  PROVE  /\ OneSignInPath'
         /\ Len(stack') = Len(stack) + 1
         /\ stack'[Len(stack) + 1] = x
         /\ Len(stack) >= 4 => stack'[4] = stack[4]
         /\ Len(stack) \in Nat /\ Len(stack) >= 2
<1>1. /\ Len(stack') = Len(stack) + 1
      /\ \A i \in 1..Len(stack) : stack'[i] = stack[i]
      /\ stack'[Len(stack) + 1] = x
      /\ Len(stack) \in Nat /\ Len(stack) >= 2
  BY PushStack DEF TypeOK, IInv, StackShape
<1>2. ASSUME NEW i \in 1..Len(stack') PROVE OneSignInPath!(i)'
  <2>1. CASE i \in 1..Len(stack)
    <3>1. /\ stack'[i] = stack[i] /\ (i = 4 => stack'[3] = stack[3])
          /\ i >= 5 => stack'[4] = stack[4]
      BY <1>1, <2>1
    <3> QED
      BY <2>1, <3>1 DEF IInv, StackShape, OneSignInPath
  <2>2. CASE i = Len(stack) + 1
    <3>1. /\ stack'[i] = x /\ i > 2 /\ (i = 4 => stack'[3] = stack[3])
          /\ i >= 5 => stack'[4] = stack[4]
      BY <1>1, <2>2
    <3>2. /\ i = 3 => x = "Terms" \/ x = "Phone"
          /\ i = 4 => stack[3] = "Phone" /\ x \in OtpVCs \cup {"Countries"}
          /\ i >= 5 => stack[4] \in OtpVCs /\ x = "Profile"
      <4>1. (i = 3 => Len(stack) = 2) /\ (i = 4 => Len(stack) = 3) /\ (i >= 5 => Len(stack) >= 4)
        <5>1. \A n \in Nat : (n + 1 = 3 => n = 2) /\ (n + 1 = 4 => n = 3) /\ (n + 1 >= 5 => n >= 4)
          OBVIOUS
        <5> QED
          BY <1>1, <2>2, <5>1, Zenon
      <4>2. Len(stack) = 2 => x = "Terms" \/ x = "Phone"
        OBVIOUS
      <4>3. Len(stack) = 3 => stack[3] = "Phone" /\ x \in OtpVCs \cup {"Countries"}
        OBVIOUS
      <4>4. Len(stack) >= 4 => stack[4] \in OtpVCs /\ x = "Profile"
        OBVIOUS
      <4> QED
        BY <4>1, <4>2, <4>3, <4>4
    <3> QED
      BY <3>1, <3>2
  <2> QED
    BY <1>1, <2>1, <2>2
<1> QED
  BY <1>1, <1>2 DEF OneSignInPath

\* One screen less.
LEMMA PopPath ==
  ASSUME TypeOK, IInv, stack # <<>>, Pop
  PROVE  OneSignInPath' /\ Len(stack') = Len(stack) - 1
<1>1. /\ Len(stack') = Len(stack) - 1
      /\ \A i \in 1..(Len(stack) - 1) : stack'[i] = stack[i]
      /\ Len(stack) \in Nat
  BY PopStack DEF TypeOK, Pop
<1>2. ASSUME NEW i \in 1..Len(stack') PROVE OneSignInPath!(i)'
  <2>1. /\ i \in 1..Len(stack) /\ stack'[i] = stack[i] /\ (i = 4 => stack'[3] = stack[3])
        /\ i >= 5 => stack'[4] = stack[4]
    BY <1>1
  <2> QED
    BY <2>1 DEF IInv, StackShape, OneSignInPath
<1> QED
  BY <1>1, <1>2 DEF OneSignInPath

LEMMA IInvNavigation ==
  ASSUME TypeOK, IInv,
         \/ agreeContinueBtnref \/ policyBtnref \/ TermsBackBtnref
         \/ showCountriesList \/ didSelectRow
         \/ \E vc \in OtpVCs : backbtnref(vc) \/ CallMebtnref(vc)
  PROVE  IInv'
<1>1. CASE agreeContinueBtnref \/ policyBtnref
  <2>1. PICK x \in {"Terms", "Phone"} : stack' = Append(stack, x)
    BY <1>1 DEF agreeContinueBtnref, policyBtnref, Push
  <2>2. Shows("Lounch") /\ root = "nav" /\ Touchable
        /\ UNCHANGED <<root, otp, request, defaults, accepted>>
    BY <1>1 DEF agreeContinueBtnref, policyBtnref, Shows
  <2>3. Len(stack) = 2 /\ x \in Screens
    BY <2>2, TopScreen DEF Screens
  <2>4. OneSignInPath' /\ Len(stack') = 3
    BY <2>1, <2>2, <2>3, PushPath
  <2> QED
    BY <2>2, <2>3, <2>4, StackStep DEF CodeScreen
<1>2. CASE TermsBackBtnref
  <2>1. Shows("Terms") /\ root = "nav" /\ Touchable /\ stack # <<>> /\ Pop
        /\ UNCHANGED <<root, otp, request, defaults, accepted>>
    BY <1>2 DEF TermsBackBtnref, Shows
  <2>2. Len(stack) = 3
    BY <2>1, TopScreen
  <2>3. OneSignInPath' /\ Len(stack') = 2
    BY <2>1, <2>2, PopPath
  <2> QED
    BY <2>1, <2>2, <2>3, StackStep DEF CodeScreen
<1>3. ASSUME NEW vc \in OtpVCs, backbtnref(vc) PROVE IInv'
  <2>1. Shows(vc) /\ root = "nav" /\ Touchable /\ stack # <<>> /\ Pop
        /\ UNCHANGED <<root, otp, request, defaults, accepted>>
    BY <1>3 DEF backbtnref, Shows
  <2>2. Len(stack) = 4
    BY <2>1, TopScreen
  <2>3. OneSignInPath' /\ Len(stack') = 3
    BY <2>1, <2>2, PopPath
  <2> QED
    BY <2>1, <2>2, <2>3, StackStep DEF CodeScreen
<1>4. ASSUME NEW vc \in OtpVCs, CallMebtnref(vc) PROVE IInv'
  <2>1. Shows(vc) /\ root = "nav" /\ Touchable /\ stack' = Append(stack, "Profile")
        /\ UNCHANGED <<root, otp, request, defaults, accepted>>
    BY <1>4 DEF CallMebtnref, Shows, Push
  <2>2. Len(stack) = 4 /\ stack[4] \in OtpVCs /\ "Profile" \in Screens
    BY <2>1, TopScreen DEF Screens
  <2>3. OneSignInPath' /\ Len(stack') = 5 /\ stack'[4] = stack[4]
    BY <2>1, <2>2, PushPath
  <2> QED
    BY <2>1, <2>2, <2>3, StackStep DEF CodeScreen
<1>5. CASE showCountriesList
  <2>1. Shows("Phone") /\ root = "nav" /\ Touchable /\ stack' = Append(stack, "Countries")
        /\ UNCHANGED <<root, otp, request, defaults, accepted>>
    BY <1>5 DEF showCountriesList, Shows, Push
  <2>2. Len(stack) = 3 /\ stack[3] = "Phone" /\ "Countries" \in Screens
    BY <2>1, TopScreen DEF Screens
  <2>3. OneSignInPath' /\ Len(stack') = 4 /\ stack'[4] = "Countries"
    BY <2>1, <2>2, PushPath
  <2>4. ~CodeScreen'
    BY <2>3, OtpVCsAssumption DEF CodeScreen
  <2> QED
    BY <2>1, <2>2, <2>3, <2>4, StackStep
<1>6. CASE didSelectRow
  <2>1. Shows("Countries") /\ root = "nav" /\ Touchable /\ stack # <<>> /\ Pop
        /\ UNCHANGED <<root, otp, request, defaults, accepted>>
    BY <1>6 DEF didSelectRow, Shows
  <2>2. Len(stack) = 4
    BY <2>1, TopScreen
  <2>3. OneSignInPath' /\ Len(stack') = 3
    BY <2>1, <2>2, PopPath
  <2> QED
    BY <2>1, <2>2, <2>3, StackStep DEF CodeScreen
<1> QED
  BY <1>1, <1>2, <1>3, <1>4, <1>5, <1>6

\* No handler changes the customer of a code screen.
LEMMA KeepsCustomer ==
  ASSUME NEW o \in OtpVCType, NEW b, NEW t
  PROVE  /\ [o EXCEPT !.focused = b].CustomerID = o.CustomerID
         /\ [o EXCEPT !.resendFailed = b].CustomerID = o.CustomerID
         /\ [o EXCEPT !.resendHidden = TRUE, !.resendFailed = b].CustomerID = o.CustomerID
         /\ [o EXCEPT !.sessionTimer = t, !.resendHidden = TRUE, !.timerValid = TRUE].CustomerID
              = o.CustomerID
         /\ [o EXCEPT !.sessionTimer = t, !.resendHidden = TRUE, !.labelHidden = FALSE].CustomerID
              = o.CustomerID
         /\ [o EXCEPT !.timerValid = FALSE, !.resendHidden = FALSE, !.labelHidden = TRUE].CustomerID
              = o.CustomerID
BY DEF OtpVCType

LEMMA CustomerTable ==
  ASSUME TypeOK, NEW x, NEW o, x \in OtpVCs => o.CustomerID = otp[x].CustomerID,
         otp' = [otp EXCEPT ![x] = o]
  PROVE  \A v \in OtpVCs : otp'[v].CustomerID = otp[v].CustomerID
BY DEF TypeOK

LEMMA IInvOtpFields ==
  ASSUME TypeOK, IInv, NEW vc \in OtpVCs, TapOtpField(vc) \/ KeyWithoutCode(vc) \/ action(vc)
  PROVE  IInv'
<1> DEFINE q == otp[vc]
<1>1. q \in OtpVCType
  BY DEF TypeOK
<1>2. PICK o : otp' = [otp EXCEPT ![vc] = o] /\ o.CustomerID = q.CustomerID
  <2>1. CASE TapOtpField(vc)
    <3> DEFINE o == [q EXCEPT !.focused = TRUE]
    <3>1. otp' = [otp EXCEPT ![vc] = o]
      BY <2>1 DEF TapOtpField
    <3>2. o.CustomerID = q.CustomerID
      BY <1>1, KeepsCustomer
    <3> HIDE DEF o
    <3> QED
      BY <3>1, <3>2
  <2>2. CASE KeyWithoutCode(vc)
    <3> DEFINE o == [q EXCEPT !.focused = FALSE]
    <3>1. otp' = [otp EXCEPT ![vc] = o]
      BY <2>2 DEF KeyWithoutCode
    <3>2. o.CustomerID = q.CustomerID
      BY <1>1, KeepsCustomer
    <3> HIDE DEF o
    <3> QED
      BY <3>1, <3>2
  <2>3. CASE action(vc)
    <3>1. CASE q.sessionTimer > 0
      <4> DEFINE o == [q EXCEPT !.sessionTimer = q.sessionTimer - 1,
                                !.resendHidden = TRUE, !.labelHidden = FALSE]
      <4>1. otp' = [otp EXCEPT ![vc] = o]
        BY <2>3, <3>1 DEF action
      <4>2. o.CustomerID = q.CustomerID
        BY <1>1, KeepsCustomer
      <4> HIDE DEF o
      <4> QED
        BY <4>1, <4>2
    <3>2. CASE ~(q.sessionTimer > 0)
      <4> DEFINE o == [q EXCEPT !.timerValid = FALSE,
                                !.resendHidden = FALSE, !.labelHidden = TRUE]
      <4>1. otp' = [otp EXCEPT ![vc] = o]
        BY <2>3, <3>2 DEF action
      <4>2. o.CustomerID = q.CustomerID
        BY <1>1, KeepsCustomer
      <4> HIDE DEF o
      <4> QED
        BY <4>1, <4>2
    <3> QED
      BY <3>1, <3>2
  <2> QED
    BY <2>1, <2>2, <2>3
<1>3. \A v \in OtpVCs : otp'[v].CustomerID = otp[v].CustomerID
  BY <1>2, CustomerTable
<1>4. UNCHANGED <<root, stack, request, overlay, defaults, accepted, posted>>
  BY DEF TapOtpField, KeyWithoutCode, action
<1> QED
  BY <1>3, <1>4, QuietStep DEF IInv, RequestShape, InFlight

LEMMA IInvCalls ==
  ASSUME TypeOK, TypeOK', IInv, LoginApiCalling \/ EditUserProfileMethod PROVE IInv'
<1>1. CASE LoginApiCalling
  <2> DEFINE q == Request("LogIN", NoVC, Unset)
  <2>1. PICK r \in FreeReqs, net \in Nets : Call(r, q, APIRequest("post", net))
    BY <1>1 DEF LoginApiCalling
  <2>2. Shows("Phone") /\ root = "nav" /\ Touchable
        /\ UNCHANGED <<root, stack, otp, defaults, accepted, posted>>
    BY <1>1 DEF LoginApiCalling, Shows
  <2>3. q \in RequestType /\ q.kind = "LogIN" /\ ~q.served
    BY RequestTypes DEF Kinds, Request
  <2>4. Len(stack) = 3 /\ stack[3] = "Phone" /\ \A s \in ReqIds : ~InFlight(s)
    BY <2>2, TopScreen, NothingPending
  <2> HIDE DEF q
  <2> QED
    BY <2>1, <2>2, <2>3, <2>4, CallStep DEF Kinds
<1>2. CASE EditUserProfileMethod
  <2> DEFINE q == Request("Update", NoVC, defaults.CustomerID)
             outcome == IF defaults.CustomerID = Unset THEN "fail" ELSE "send"
  <2>1. PICK r \in FreeReqs : Call(r, q, outcome)
    BY <1>2 DEF EditUserProfileMethod
  <2>2. Shows("Profile") /\ root = "nav" /\ Touchable
        /\ UNCHANGED <<root, stack, otp, defaults, accepted, posted>>
    BY <1>2 DEF EditUserProfileMethod, Shows
  <2>3. q \in RequestType /\ q.kind = "Update" /\ ~q.served /\ q.customer = defaults.CustomerID
    BY RequestTypes DEF Kinds, Request, TypeOK
  <2>4. Len(stack) >= 5 /\ \A s \in ReqIds : ~InFlight(s)
    BY <2>2, TopScreen, NothingPending
  <2> HIDE DEF q, outcome
  <2> QED
    BY <2>1, <2>2, <2>3, <2>4, CallStep DEF Kinds
<1> QED
  BY <1>1, <1>2

\* A code typed through the spinner meets only verifications and resends of the
\* same screen; a resend meets nothing.
LEMMA IInvOtpCalls ==
  ASSUME TypeOK, IInv, NEW vc \in OtpVCs, enteredOTP(vc) \/ ResendOtpbtnref(vc)
  PROVE  IInv'
<1>1. Shows(vc) /\ root = "nav" /\ UNCHANGED <<root, stack, defaults, accepted>>
  BY DEF enteredOTP, ResendOtpbtnref, Shows
<1>2. Len(stack) = 4 /\ stack[4] = vc /\ CodeScreen
  BY <1>1, TopScreen DEF CodeScreen
<1>3. otp[vc].CustomerID = defaults.CustomerID
  BY <1>2 DEF IInv, CustomerShape
<1>4. otp[vc] \in OtpVCType /\ defaults.CustomerID \in CustomerIDs \cup {Unset}
  BY DEF TypeOK
<1>5. CASE enteredOTP(vc)
  <2> DEFINE q == Request("Register", vc, otp[vc].CustomerID)
  <2>1. PICK r \in FreeReqs, net \in Nets :
          /\ Call(r, q, APIRequest("post", net))
          /\ posted' = IF APIRequest("post", net) = "send"
                       THEN posted \cup {otp[vc].CustomerID} ELSE posted
    BY <1>5 DEF enteredOTP
  <2>0. /\ posted \subseteq posted'
        /\ APIRequest("post", net) = "send" => defaults.CustomerID \in posted'
    BY <1>3, <2>1
  <2>2. \A v \in OtpVCs : otp'[v].CustomerID = otp[v].CustomerID
    <3>1. PICK f \in BOOLEAN : otp' = [otp EXCEPT ![vc].focused = f]
      BY <1>5 DEF enteredOTP
    <3> DEFINE o == [otp[vc] EXCEPT !.focused = f]
    <3>2. otp' = [otp EXCEPT ![vc] = o]
      BY <3>1
    <3>3. o.CustomerID = otp[vc].CustomerID
      BY <1>4, KeepsCustomer
    <3> HIDE DEF o
    <3> QED
      BY <3>2, <3>3, CustomerTable
  <2>3. /\ q \in RequestType /\ q.kind = "Register" /\ ~q.served /\ q.vc = vc
        /\ q.customer = defaults.CustomerID
    BY <1>3, <1>4, RequestTypes DEF Kinds, Request
  <2>4. \A s \in ReqIds : InFlight(s) => request[s].kind \in {"Register", "Resend"}
    <3>1. \A s \in ReqIds : request[s].kind \in Kinds \cup {"idle"}
      BY DEF TypeOK, RequestType
    <3> QED
      BY <1>2, <3>1 DEF IInv, RequestShape, InFlight, Kinds
  <2> HIDE DEF q
  <2> QED
    BY <1>1, <1>2, <2>0, <2>1, <2>2, <2>3, <2>4, CallStep DEF Kinds
<1>6. CASE ResendOtpbtnref(vc)
  <2> DEFINE q == Request("Resend", vc, defaults.CustomerID)
  <2>1. PICK r \in FreeReqs, net \in Nets :
          /\ otp' = [otp EXCEPT ![vc] = [@ EXCEPT !.resendHidden = TRUE,
                                !.resendFailed = (APIRequest("get", net) # "send")]]
          /\ Call(r, q, APIRequest("get", net))
    BY <1>6 DEF ResendOtpbtnref
  <2>2. \A v \in OtpVCs : otp'[v].CustomerID = otp[v].CustomerID
    <3> DEFINE o == [otp[vc] EXCEPT !.resendHidden = TRUE,
                            !.resendFailed = (APIRequest("get", net) # "send")]
    <3>1. otp' = [otp EXCEPT ![vc] = o]
      BY <2>1
    <3>2. o.CustomerID = otp[vc].CustomerID
      BY <1>4, KeepsCustomer
    <3> HIDE DEF o
    <3> QED
      BY <3>1, <3>2, CustomerTable
  <2>3. /\ q \in RequestType /\ q.kind = "Resend" /\ ~q.served /\ q.vc = vc
        /\ q.customer = defaults.CustomerID
    BY <1>4, RequestTypes DEF Kinds, Request
  <2>4. \A s \in ReqIds : ~InFlight(s)
    BY <1>6, NothingPending DEF ResendOtpbtnref
  <2>5. posted' = posted
    BY <1>6 DEF ResendOtpbtnref
  <2> HIDE DEF q
  <2> QED
    BY <1>1, <1>2, <2>5, <2>1, <2>2, <2>3, <2>4, CallStep DEF Kinds
<1> QED
  BY <1>5, <1>6

\* A completion that leaves screens and UserDefaults alone.
LEMMA QuietCompletion ==
  ASSUME TypeOK, IInv, NEW r \in ReqIds, request' = [request EXCEPT ![r] = Idle],
         UNCHANGED <<root, stack, defaults, accepted, posted>>,
         overlay' = overlay \/ overlay' = overlay \ {r},
         \A v \in OtpVCs : otp'[v].CustomerID = otp[v].CustomerID
  PROVE  IInv'
<1>1. request'[r] = Idle /\ \A s \in ReqIds \ {r} : request'[s] = request[s]
  BY DEF TypeOK
<1>2. \A s \in ReqIds : InFlight(s)' => s # r /\ InFlight(s)
  BY <1>1 DEF InFlight, Idle
<1>3. \A s \in ReqIds : InFlight(s)' => s \in overlay'
  BY <1>2 DEF IInv, RequestShape
<1>4. \A s \in ReqIds : request'[s] = request[s] \/ request'[s] = Idle
  BY <1>1
<1> QED
  BY <1>3, <1>4, QuietStep

\* A sign-in or a profile update leaves nothing pending behind.
LEMMA LastCompletion ==
  ASSUME TypeOK, IInv, NEW r \in ReqIds, request' = [request EXCEPT ![r] = Idle],
         request[r].kind \in {"LogIN", "Update"}
  PROVE  RequestShape' /\ LoneRequests'
<1>1. \A s \in ReqIds : ~InFlight(s)'
  BY DEF TypeOK, IInv, LoneRequests, InFlight, Idle
<1> QED
  BY <1>1 DEF RequestShape, LoneRequests

LEMMA IInvLoginCompletion ==
  ASSUME TypeOK, TypeOK', IInv, NEW r \in ReqIds, LoginCompletion(r) PROVE IInv'
<1>1. /\ request[r].kind = "LogIN" /\ request' = [request EXCEPT ![r] = Idle]
      /\ UNCHANGED <<root, accepted, posted>>
      /\ overlay' = overlay \/ overlay' = overlay \ {r}
  BY DEF LoginCompletion
<1>2. CASE UNCHANGED <<stack, otp, defaults>>
  BY <1>1, <1>2, QuietCompletion
<1>3. CASE \E c \in CustomerIDs, vc \in FreeOtpVCs, f \in BOOLEAN :
             /\ defaults' = [defaults EXCEPT !.CustomerID = c]
             /\ otp' = [otp EXCEPT ![vc] = NewOtpVC(c, f)]
             /\ Push(vc)
  <2>1. PICK c \in CustomerIDs, vc \in FreeOtpVCs, f \in BOOLEAN :
             /\ defaults' = [defaults EXCEPT !.CustomerID = c]
             /\ otp' = [otp EXCEPT ![vc] = NewOtpVC(c, f)]
             /\ stack' = Append(stack, vc)
    BY <1>3 DEF Push
  <2>2. root = "nav" /\ Len(stack) = 3 /\ stack[3] = "Phone"
    BY <1>1 DEF IInv, RequestShape, InFlight
  <2>3. vc \in OtpVCs /\ vc \in Screens
    BY DEF FreeOtpVCs, Screens
  <2>4. OneSignInPath' /\ Len(stack') = 4
    BY <2>1, <2>2, <2>3, PushPath
  <2>5. stack'[4] = vc
    <3>1. stack \in Seq(Screens)
      BY DEF TypeOK
    <3>2. stack'[Len(stack) + 1] = vc
      BY <2>1, <2>3, <3>1, PushStack
    <3> QED
      BY <2>2, <3>2
  <2>6. ~defaults.IsUserLogIned /\ defaults'.CustomerID = c
        /\ defaults'.IsUserLogIned = defaults.IsUserLogIned
    BY <2>1, <2>2 DEF IInv, FlagShape, TypeOK
  <2>7. otp'[vc].CustomerID = c
    BY <2>1, <2>3 DEF TypeOK, NewOtpVC
  <2>8. StackShape' /\ CustomerShape' /\ FlagShape'
    BY <1>1, <2>2, <2>4, <2>5, <2>6, <2>7
    DEF StackShape, CustomerShape, CodeScreen, FlagShape, FlagMeansConfirmed
  <2> QED
    BY <1>1, <2>8, LastCompletion DEF IInv
<1> QED
  BY <1>2, <1>3 DEF LoginCompletion

LEMMA IInvRegisterCompletion ==
  ASSUME TypeOK, TypeOK', IInv, NEW r \in ReqIds, RegisterCompletion(r) PROVE IInv'
<1> DEFINE vc == request[r].vc
<1>1. /\ request[r].kind = "Register" /\ request' = [request EXCEPT ![r] = Idle]
      /\ UNCHANGED <<root, accepted, posted>>
      /\ overlay' = overlay \/ overlay' = overlay \ {r}
  BY DEF RegisterCompletion
<1>2. CASE UNCHANGED <<stack, defaults, otp>>
  BY <1>1, <1>2, QuietCompletion
<1>3. CASE initializeUI(vc) /\ UNCHANGED <<stack, defaults>>
  <2> DEFINE o == [otp[vc] EXCEPT !.focused = otp[vc].focused \/ Shows(vc)]
  <2>1. otp' = [otp EXCEPT ![vc] = o]
    BY <1>3 DEF initializeUI
  <2>2. vc \in OtpVCs => o.CustomerID = otp[vc].CustomerID
    <3>1. vc \in OtpVCs => otp[vc] \in OtpVCType
      BY DEF TypeOK
    <3> QED
      BY <3>1, KeepsCustomer
  <2> HIDE DEF o, vc
  <2>3. \A v \in OtpVCs : otp'[v].CustomerID = otp[v].CustomerID
    BY <2>1, <2>2, CustomerTable
  <2> QED
    BY <1>1, <1>3, <2>3, QuietCompletion
<1>4. CASE /\ "ok" \in RegisterVerdicts[request[r].served]
           /\ \E key \in {request[r].customer, NoKey} :
                defaults' = RegisterWrites(defaults, key)[2]
           /\ stack' = IF InStack(vc) THEN Append(stack, "Profile") ELSE stack
           /\ UNCHANGED otp
  <2>1. PICK key \in {request[r].customer, NoKey} :
          defaults' = RegisterWrites(defaults, key)[2]
    BY <1>4
  <2>2. /\ defaults'.CustomerID = defaults.CustomerID
        /\ defaults'.auth_key = key /\ defaults'.IsUserLogIned
    <3>1. defaults' = [[defaults EXCEPT !.auth_key = key] EXCEPT !.IsUserLogIned = TRUE]
      BY <2>1 DEF RegisterWrites
    <3>2. defaults \in DefaultsType
      BY DEF TypeOK, DefaultsType
    <3>3. ASSUME NEW d \in DefaultsType
          PROVE  LET e == [[d EXCEPT !.auth_key = key] EXCEPT !.IsUserLogIned = TRUE]
                 IN  e.CustomerID = d.CustomerID /\ e.auth_key = key /\ e.IsUserLogIned = TRUE
      BY DEF DefaultsType
    <3> QED
      BY <3>1, <3>2, <3>3
  <2>3. /\ root = "nav" /\ Len(stack) >= 4 /\ vc = stack[4] /\ stack[4] \in OtpVCs
        /\ request[r].customer = defaults.CustomerID
        /\ request[r].served => request[r].customer \in accepted
    BY <1>1 DEF IInv, RequestShape, InFlight, CodeScreen
  <2>4. request[r].served
    <3>1. request[r].served \in BOOLEAN
      BY DEF TypeOK, RequestType
    <3> QED
      BY <1>4, <3>1, OkMeansServed
  <2>5. 4 \in 1..Len(stack)
    BY <2>3 DEF TypeOK
  <2>6. stack' = Append(stack, "Profile")
    BY <1>4, <2>3, <2>5 DEF InStack
  <2>7. OneSignInPath' /\ Len(stack') = Len(stack) + 1 /\ stack'[4] = stack[4] /\ Len(stack) \in Nat
    <3>1. "Profile" \in Screens
      BY DEF Screens
    <3> QED
      BY <2>3, <2>6, <3>1, PushPath
  <2>8. Len(stack') >= 5
    BY <2>3, <2>7
  <2> HIDE DEF vc
  <2>9. StackShape' /\ CustomerShape' /\ FlagShape'
    BY <1>1, <1>4, <2>1, <2>2, <2>3, <2>4, <2>7, <2>8
    DEF IInv, StackShape, CustomerShape, CodeScreen, FlagShape, FlagMeansConfirmed
  <2>10. request'[r] = Idle /\ \A s \in ReqIds \ {r} : request'[s] = request[s]
    BY <1>1 DEF TypeOK
  <2>11. \A s \in ReqIds : InFlight(s)' => s # r /\ InFlight(s)
    BY <2>10 DEF InFlight, Idle
  <2>12. LoneRequests'
    BY <2>10, <2>11 DEF IInv, LoneRequests
  <2>13. \A s \in ReqIds : InFlight(s)' => request[s].kind \in {"Register", "Resend"}
    BY <1>1, <2>11 DEF IInv, LoneRequests, InFlight
  <2>14. RequestShape'
    <3> SUFFICES ASSUME NEW s \in ReqIds, InFlight(s)'
                 PROVE  RequestShape!(s)!2'
      BY DEF RequestShape
    <3>1. request'[s] = request[s] /\ request[s].kind \in {"Register", "Resend"} /\ s # r
      BY <2>10, <2>11, <2>13
    <3>2. RequestShape!(s)!2
      BY <2>11 DEF IInv, RequestShape
    <3>3. CodeScreen /\ CodeScreen'
      BY <2>3, <2>7, <2>8 DEF CodeScreen
    <3> QED
      BY <1>1, <2>2, <2>7, <2>8, <3>1, <3>2, <3>3
  <2> QED
    BY <2>9, <2>12, <2>14 DEF IInv
<1> QED
  BY <1>2, <1>3, <1>4 DEF RegisterCompletion

LEMMA IInvResendCompletion ==
  ASSUME TypeOK, IInv, NEW r \in ReqIds, ResendCompletion(r) PROVE IInv'
<1> DEFINE vc == request[r].vc
           o1 == [otp[vc] EXCEPT !.resendFailed = TRUE]
           o2 == [otp[vc] EXCEPT !.sessionTimer = SessionSeconds,
                                 !.resendHidden = TRUE, !.timerValid = TRUE]
<1>1. /\ request' = [request EXCEPT ![r] = Idle]
      /\ UNCHANGED <<root, stack, defaults, accepted, posted>>
      /\ overlay' = overlay \/ overlay' = overlay \ {r}
      /\ otp' = [otp EXCEPT ![vc] = o1] \/ otp' = [otp EXCEPT ![vc] = o2]
  BY DEF ResendCompletion
<1>2. vc \in OtpVCs => otp[vc] \in OtpVCType
  BY DEF TypeOK
<1>3. vc \in OtpVCs => /\ o1.CustomerID = otp[vc].CustomerID
                       /\ o2.CustomerID = otp[vc].CustomerID
  BY <1>2, KeepsCustomer
<1> HIDE DEF vc, o1, o2
<1>4. \A v \in OtpVCs : otp'[v].CustomerID = otp[v].CustomerID
  BY <1>1, <1>3, CustomerTable
<1> QED
  BY <1>1, <1>4, QuietCompletion

LEMMA IInvUpdateCompletion ==
  ASSUME TypeOK, TypeOK', IInv, NEW r \in ReqIds, UpdateCompletion(r) PROVE IInv'
<1>1. /\ request[r].kind = "Update" /\ request' = [request EXCEPT ![r] = Idle]
      /\ UNCHANGED <<otp, defaults, accepted, posted>>
  BY DEF UpdateCompletion
<1>2. CASE UNCHANGED <<root, stack>> /\ (overlay' = overlay \/ overlay' = overlay \ {r})
  BY <1>1, <1>2, QuietCompletion
<1>3. CASE root' = "dashboard" /\ stack' = <<>>
  <2>1. Len(stack') = 0
    BY <1>3, EmptySeq
  <2>2. StackShape' /\ CustomerShape' /\ FlagShape'
    BY <1>1, <1>3, <2>1
    DEF IInv, StackShape, OneSignInPath, CustomerShape, CodeScreen, FlagShape,
        FlagMeansConfirmed
  <2> QED
    BY <1>1, <2>2, LastCompletion DEF IInv
<1> QED
  BY <1>2, <1>3 DEF UpdateCompletion

\* The one write a kill can leave alone is the key, and only of the stored customer.
LEMMA IInvEnds ==
  ASSUME TypeOK, TypeOK', IInv, NEW r \in ReqIds, KillInRegister(r) \/ Trap(r) PROVE IInv'
<1>1. CASE KillInRegister(r)
  <2>1. PICK key \in {request[r].customer, NoKey} :
          defaults' = RegisterWrites(defaults, key)[1]
    BY <1>1 DEF KillInRegister
  <2>2. defaults' = [defaults EXCEPT !.auth_key = key]
    BY <2>1 DEF RegisterWrites
  <2>3. /\ defaults'.CustomerID = defaults.CustomerID
        /\ defaults'.IsUserLogIned = defaults.IsUserLogIned
        /\ defaults'.auth_key = key
    BY <2>2 DEF TypeOK
  <2>4. request[r].customer = defaults.CustomerID
    BY <1>1 DEF KillInRegister, IInv, RequestShape, InFlight
  <2>5. FlagMeansConfirmed'
    BY <1>1, <2>3, <2>4 DEF KillInRegister, IInv, FlagShape, FlagMeansConfirmed
  <2> QED
    BY <1>1, <2>5, DieStep DEF KillInRegister
<1>2. CASE Trap(r)
  BY <1>2, DieStep DEF Trap, IInv, FlagShape, FlagMeansConfirmed
<1> QED
  BY <1>1, <1>2

LEMMA IInvServe ==
  ASSUME TypeOK, IInv, NEW r \in ReqIds, Serve(r) PROVE IInv'
<1>1. /\ UNCHANGED <<root, stack, otp, overlay, defaults, posted>>
      /\ accepted \subseteq accepted'
      /\ request[r].kind = "Register" => request[r].customer \in accepted'
      /\ request' = [request EXCEPT ![r].served = TRUE]
  BY DEF Serve
<1>2. \A s \in ReqIds : /\ request'[s].kind = request[s].kind
                        /\ request'[s].vc = request[s].vc
                        /\ request'[s].customer = request[s].customer
                        /\ s # r => request'[s] = request[s]
  <2>1. \A q \in RequestType : LET p == [q EXCEPT !.served = TRUE] IN
          p.kind = q.kind /\ p.vc = q.vc /\ p.customer = q.customer
    BY DEF RequestType
  <2>2. request'[r] = [request[r] EXCEPT !.served = TRUE]
        /\ \A s \in ReqIds \ {r} : request'[s] = request[s]
    BY <1>1 DEF TypeOK
  <2>3. request[r] \in RequestType
    BY DEF TypeOK
  <2>4. /\ request'[r].kind = request[r].kind
        /\ request'[r].vc = request[r].vc
        /\ request'[r].customer = request[r].customer
    BY <2>1, <2>2, <2>3
  <2> QED
    BY <2>2, <2>4
<1>3. StackShape' /\ CustomerShape' /\ FlagShape'
  BY <1>1
  DEF IInv, StackShape, OneSignInPath, CustomerShape, CodeScreen, FlagShape, FlagMeansConfirmed
<1>4. LoneRequests'
  BY <1>2 DEF IInv, LoneRequests, InFlight
<1>5. RequestShape'
  <2>1. CodeScreen' = CodeScreen
    BY <1>1 DEF CodeScreen
  <2> QED
    BY <1>1, <1>2, <2>1 DEF IInv, RequestShape, InFlight
<1> QED
  BY <1>3, <1>4, <1>5 DEF IInv

LEMMA IInvServeLate ==
  ASSUME TypeOK, IInv, NEW c \in Customers, ServeLate(c) PROVE IInv'
BY QuietStep DEF ServeLate, IInv, RequestShape, InFlight

LEMMA IInvStep == TypeOK /\ TypeOK' /\ IInv /\ [Next]_vars => IInv'
<1> SUFFICES ASSUME TypeOK, TypeOK', IInv, [Next]_vars PROVE IInv'
  OBVIOUS
<1>1. CASE UNCHANGED vars
  BY <1>1, QuietStep DEF vars, IInv, RequestShape, InFlight
<1>2. ASSUME NEW r \in ReqIds, Completion(r) \/ KillInRegister(r) \/ Serve(r) \/ Trap(r)
      PROVE  IInv'
  BY <1>2, IInvLoginCompletion, IInvRegisterCompletion, IInvResendCompletion,
     IInvUpdateCompletion, IInvEnds, IInvServe DEF Completion
<1>3. ASSUME NEW vc \in OtpVCs,
             \/ backbtnref(vc) \/ TapOtpField(vc) \/ enteredOTP(vc) \/ KeyWithoutCode(vc)
             \/ ResendOtpbtnref(vc) \/ CallMebtnref(vc) \/ action(vc)
      PROVE  IInv'
  BY <1>3, IInvNavigation, IInvOtpFields, IInvOtpCalls
<1> QED
  BY <1>1, <1>2, <1>3, IInvLaunch, IInvNavigation, IInvAlert, IInvCalls, IInvServeLate
  DEF Next, PhoneTouch, ScreenTouch, ProcessEnd

\* Screens, requests, UserDefaults and the server's record keep to IInv in every
\* state of every run.
THEOREM Inductive == Spec => []IInv
<1>1. TypeOK /\ IInv /\ [Next]_vars => TypeOK' /\ IInv'
  BY TypeStep, IInvStep
<1> QED
  BY <1>1, TypeInit, IInvInit, PTL DEF Spec

-----------------------------------------------------------------------------
(* The properties of SignIn. *)

\* A code screen or a profile screen can only be in its place.
LEMMA ScreenPlaces ==
  ASSUME TypeOK, IInv
  PROVE  /\ \A vc \in OtpVCs : InStack(vc) => Len(stack) >= 4 /\ stack[4] = vc
         /\ InStack("Profile") => Len(stack) >= 5 /\ CodeScreen
<1> SUFFICES ASSUME NEW i \in 1..Len(stack)
             PROVE  /\ \A vc \in OtpVCs : stack[i] = vc => Len(stack) >= 4 /\ stack[4] = vc
                    /\ stack[i] = "Profile" => Len(stack) >= 5
  BY DeepStack DEF InStack
<1>1. Len(stack) \in Nat
  BY DEF TypeOK
<1>2. /\ i <= 2 => stack[i] = "Lounch"
      /\ i = 3  => stack[i] \in {"Terms", "Phone"}
      /\ i = 4  => stack[i] \in OtpVCs \cup {"Countries"}
      /\ i >= 5 => stack[i] = "Profile"
  BY DEF IInv, StackShape, OneSignInPath
<1>3. \A vc \in OtpVCs : /\ vc # "Lounch" /\ vc # "Terms" /\ vc # "Phone"
                         /\ vc # "Countries" /\ vc # "Profile"
  BY OtpVCsAssumption
<1> QED
  BY <1>1, <1>2, <1>3

LEMMA IInvImplies ==
  ASSUME TypeOK, IInv
  PROVE  /\ FlagMeansConfirmed /\ CustomerAgrees /\ ScreenOutlivesRequest
         /\ LoneRequests /\ PendingCovered /\ OneSignInPath
<1>1. FlagMeansConfirmed /\ LoneRequests /\ PendingCovered /\ OneSignInPath
  BY DEF IInv, FlagShape, RequestShape, PendingCovered, StackShape
<1>2. CustomerAgrees
  <2>1. \A vc \in OtpVCs : InStack(vc) => otp[vc].CustomerID = defaults.CustomerID
    BY ScreenPlaces DEF IInv, CustomerShape, CodeScreen
  <2>2. \A r \in ReqIds : request[r].kind \in {"Register", "Resend", "Update"}
                            => request[r].customer = defaults.CustomerID
    BY DEF IInv, RequestShape, InFlight
  <2>3. InStack("Profile") => defaults.CustomerID # Unset
    <3>1. Unset \notin CustomerIDs
      BY CustomersAssumption DEF CustomerIDs, Unset, DefaultID
    <3> QED
      BY <3>1, ScreenPlaces DEF IInv, CustomerShape
  <2> QED
    BY <2>1, <2>2, <2>3 DEF CustomerAgrees
<1>3. ScreenOutlivesRequest
  <2> SUFFICES ASSUME NEW r \in ReqIds PROVE ScreenOutlivesRequest!(r)
    BY DEF ScreenOutlivesRequest
  <2>0. Len(stack) \in Nat /\ (Len(stack) >= 2 => stack # <<>>)
    BY EmptySeq DEF TypeOK
  <2>1. request[r].kind = "LogIN" => Shows("Phone")
    BY <2>0 DEF IInv, RequestShape, InFlight, Shows
  <2>2. request[r].kind = "Update" => Shows("Profile")
    <3> SUFFICES ASSUME request[r].kind = "Update" PROVE Shows("Profile")
      OBVIOUS
    <3>1. root = "nav" /\ Len(stack) >= 5
      BY DEF IInv, RequestShape, InFlight
    <3>2. Len(stack) \in 1..Len(stack)
      BY <2>0, <3>1
    <3> QED
      BY <2>0, <3>1, <3>2 DEF IInv, StackShape, OneSignInPath, Shows
  <2>3. request[r].kind \in {"Register", "Resend"} => root = "nav" /\ InStack(request[r].vc)
    <3> SUFFICES ASSUME request[r].kind \in {"Register", "Resend"}
                 PROVE  root = "nav" /\ InStack(request[r].vc)
      OBVIOUS
    <3>1. root = "nav" /\ Len(stack) >= 4 /\ request[r].vc = stack[4]
      BY DEF IInv, RequestShape, InFlight, CodeScreen
    <3>2. 4 \in 1..Len(stack)
      BY <2>0, <3>1
    <3> QED
      BY <3>1, <3>2 DEF InStack
  <2> QED
    BY <2>1, <2>2, <2>3
<1> QED
  BY <1>1, <1>2, <1>3

\* The stored flag is trustworthy at every launch: the server confirmed a code for
\* the customer whose id is stored, whatever codes, answers and kills came before.
THEOREM FlagCorrect == Spec => []FlagMeansConfirmed
BY TypeCorrect, Inductive, IInvImplies, PTL

\* The two copies of the customer id never part while either can be used.
THEOREM CustomerCorrect == Spec => []CustomerAgrees
BY TypeCorrect, Inductive, IInvImplies, PTL

\* Every completion finds the screen that issued its request in the stack.
THEOREM ScreensCorrect == Spec => []ScreenOutlivesRequest
BY TypeCorrect, Inductive, IInvImplies, PTL

\* Only verifications overlap, with each other or with one resend.
THEOREM RequestsCorrect == Spec => []LoneRequests
BY TypeCorrect, Inductive, IInvImplies, PTL

\* Every button is covered while an answer is pending.
THEOREM CoveredCorrect == Spec => []PendingCovered
BY TypeCorrect, Inductive, IInvImplies, PTL

\* The screens are always on the one sign-in path.
THEOREM PathCorrect == Spec => []OneSignInPath
BY TypeCorrect, Inductive, IInvImplies, PTL

-----------------------------------------------------------------------------
(* What a step can do to the session. *)

SameCustomer == defaults'.CustomerID = defaults.CustomerID
SameFlag     == defaults'.IsUserLogIned = defaults.IsUserLogIned
SameServer   == accepted' = accepted /\ posted' = posted

\* Nothing happens to the session, or the code screen goes.
KeepOrLeave ==
  SameCustomer /\ SameFlag /\ SameServer /\ (CodeScreen' => CodeScreen)
\* LoginCompletion opens a code screen.
NewChallenge ==
  /\ ~defaults.IsUserLogIned /\ SameFlag /\ ~CodeScreen /\ CodeScreen'
  /\ defaults'.CustomerID \in CustomerIDs /\ SameServer
\* RegisterCompletion sets the flag.
FlagSet ==
  /\ SameCustomer /\ defaults'.IsUserLogIned /\ CodeScreen /\ CodeScreen'
  /\ defaults.CustomerID \in accepted /\ SameServer
\* enteredOTP sends a code, from the code screen and before the flag is set.
CodeTried ==
  /\ ~defaults.IsUserLogIned /\ UNCHANGED <<stack, defaults, accepted>> /\ CodeScreen
  /\ posted' = posted \cup {defaults.CustomerID}
\* The server confirms a code that was sent, of whichever customer.
Confirmed ==
  /\ UNCHANGED <<stack, defaults, posted>>
  /\ \E c \in posted \cap Customers : accepted' = accepted \cup {c}

LEMMA LoginEffect ==
  ASSUME TypeOK, IInv, NEW r \in ReqIds, LoginCompletion(r)
  PROVE  KeepOrLeave \/ NewChallenge
<1>1. CASE UNCHANGED <<stack, defaults>>
  BY <1>1 DEF LoginCompletion, KeepOrLeave, SameCustomer, SameFlag, SameServer, CodeScreen
<1>2. CASE \E c \in CustomerIDs, vc \in FreeOtpVCs :
             defaults' = [defaults EXCEPT !.CustomerID = c] /\ Push(vc)
  <2>1. PICK c \in CustomerIDs, vc \in FreeOtpVCs :
          defaults' = [defaults EXCEPT !.CustomerID = c] /\ stack' = Append(stack, vc)
    BY <1>2 DEF Push
  <2>2. root = "nav" /\ Len(stack) = 3
    BY DEF LoginCompletion, IInv, RequestShape, InFlight
  <2>3. Len(stack') = Len(stack) + 1 /\ stack'[Len(stack) + 1] = vc /\ vc \in OtpVCs
    BY <2>1, PushStack DEF TypeOK, FreeOtpVCs, Screens
  <2>6. CodeScreen' /\ ~CodeScreen
    BY <2>2, <2>3 DEF CodeScreen
  <2>4. ~defaults.IsUserLogIned
    BY <2>2 DEF IInv, FlagShape
  <2>5. defaults'.CustomerID = c /\ SameFlag
    BY <2>1 DEF TypeOK, SameFlag
  <2> QED
    BY <2>4, <2>5, <2>6 DEF LoginCompletion, NewChallenge, SameServer
<1> QED
  BY <1>1, <1>2 DEF LoginCompletion

LEMMA RegisterEffect ==
  ASSUME TypeOK, IInv, NEW r \in ReqIds, RegisterCompletion(r)
  PROVE  KeepOrLeave \/ FlagSet
<1>1. CASE UNCHANGED <<stack, defaults>>
  BY <1>1 DEF RegisterCompletion, KeepOrLeave, SameCustomer, SameFlag, SameServer, CodeScreen
<1>2. CASE /\ "ok" \in RegisterVerdicts[request[r].served]
           /\ \E key : defaults' = RegisterWrites(defaults, key)[2]
           /\ stack' = stack \/ stack' = Append(stack, "Profile")
  <2>1. PICK key : defaults' = [[defaults EXCEPT !.auth_key = key] EXCEPT !.IsUserLogIned = TRUE]
    BY <1>2 DEF RegisterWrites
  <2>2. SameCustomer /\ defaults'.IsUserLogIned
    <3>1. defaults \in DefaultsType
      BY DEF TypeOK, DefaultsType
    <3>2. ASSUME NEW d \in DefaultsType
          PROVE  LET e == [[d EXCEPT !.auth_key = key] EXCEPT !.IsUserLogIned = TRUE]
                 IN  e.CustomerID = d.CustomerID /\ e.IsUserLogIned = TRUE
      BY DEF DefaultsType
    <3> QED
      BY <2>1, <3>1, <3>2 DEF SameCustomer
  <2>3. /\ CodeScreen /\ request[r].customer = defaults.CustomerID
        /\ request[r].served => request[r].customer \in accepted
    BY DEF RegisterCompletion, IInv, RequestShape, InFlight
  <2>4. request[r].served
    <3>1. request[r].served \in BOOLEAN
      BY DEF TypeOK, RequestType
    <3> QED
      BY <1>2, <3>1, OkMeansServed
  <2>5. CodeScreen'
    <3>1. /\ Len(stack) \in Nat /\ Len(Append(stack, "Profile")) = Len(stack) + 1
          /\ \A i \in 1..Len(stack) : Append(stack, "Profile")[i] = stack[i]
      BY PushStack DEF TypeOK, Screens
    <3> QED
      BY <1>2, <2>3, <3>1 DEF CodeScreen
  <2> QED
    BY <2>2, <2>3, <2>4, <2>5 DEF RegisterCompletion, FlagSet, SameServer
<1> QED
  BY <1>1, <1>2 DEF RegisterCompletion

LEMMA ServeEffect ==
  ASSUME TypeOK, IInv, NEW r \in ReqIds, Serve(r) PROVE KeepOrLeave \/ Confirmed
<1>1. CASE request[r].kind = "Register"
  <2>1. request[r].customer \in posted
    BY <1>1 DEF IInv, RequestShape, InFlight
  <2> QED
    BY <1>1, <2>1 DEF Serve, Confirmed
<1>2. CASE request[r].kind # "Register"
  BY <1>2 DEF Serve, KeepOrLeave, CodeScreen, SameCustomer, SameFlag, SameServer
<1> QED
  BY <1>1, <1>2

\* A code is typed on the code screen, before the flag is set.
LEMMA CodeEffect ==
  ASSUME TypeOK, IInv, NEW vc \in OtpVCs, enteredOTP(vc) PROVE KeepOrLeave \/ CodeTried
<1>1. Shows(vc) /\ root = "nav" /\ UNCHANGED <<stack, defaults, accepted>>
  BY DEF enteredOTP, Shows
<1>2. Len(stack) = 4 /\ stack[4] = vc /\ CodeScreen
  BY <1>1, TopScreen DEF CodeScreen
<1>3. otp[vc].CustomerID = defaults.CustomerID
  BY <1>2 DEF IInv, CustomerShape
<1>4. posted' = posted \/ posted' = posted \cup {defaults.CustomerID}
  BY <1>3 DEF enteredOTP
<1>5. ~defaults.IsUserLogIned
  BY <1>1, <1>2 DEF IInv, FlagShape
<1> QED
  BY <1>1, <1>2, <1>4, <1>5
  DEF KeepOrLeave, CodeTried, CodeScreen, SameCustomer, SameFlag, SameServer

LEMMA DieEffect ==
  ASSUME TypeOK, Die, SameCustomer, SameFlag, SameServer PROVE KeepOrLeave
<1>1. Len(stack') = 0
  BY EmptySeq DEF Die
<1> QED
  BY <1>1 DEF KeepOrLeave, CodeScreen

LEMMA NavigationEffect ==
  ASSUME TypeOK, IInv,
         \/ NavigationScreens \/ agreeContinueBtnref \/ policyBtnref \/ TermsBackBtnref
         \/ showCountriesList \/ didSelectRow
         \/ \E vc \in OtpVCs : backbtnref(vc) \/ CallMebtnref(vc)
  PROVE  KeepOrLeave
<1>0. SameCustomer /\ SameFlag /\ SameServer
  BY DEF NavigationScreens, agreeContinueBtnref, policyBtnref, TermsBackBtnref, backbtnref,
     CallMebtnref, showCountriesList, didSelectRow, SameCustomer, SameFlag, SameServer
<1>1. CASE NavigationScreens
  <2>1. Len(stack') = 0 \/ Len(stack') = 2
    BY <1>1, EmptySeq DEF NavigationScreens
  <2>2. \A n : n = 0 \/ n = 2 => ~(n >= 4)
    OBVIOUS
  <2>3. ~CodeScreen'
    BY <2>1, <2>2, Zenon DEF CodeScreen
  <2> QED
    BY <1>0, <2>3, Zenon DEF KeepOrLeave
<1>2. CASE agreeContinueBtnref \/ policyBtnref
  <2>1. Len(stack) = 2
    BY <1>2, TopScreen DEF agreeContinueBtnref, policyBtnref
  <2>2. Len(stack') = Len(stack) + 1
    BY <1>2, PushStack DEF agreeContinueBtnref, policyBtnref, Push, TypeOK, Screens
  <2> QED
    BY <1>0, <2>1, <2>2 DEF KeepOrLeave, CodeScreen
<1>3. CASE TermsBackBtnref \/ didSelectRow \/ \E vc \in OtpVCs : backbtnref(vc)
  <2>1. stack # <<>> /\ Pop
    BY <1>3 DEF TermsBackBtnref, didSelectRow, backbtnref, Shows
  <2>2. Len(stack) \in {3, 4}
    BY <1>3, TopScreen DEF TermsBackBtnref, didSelectRow, backbtnref
  <2>3. Len(stack') = Len(stack) - 1
    BY <2>1, PopPath
  <2>4. ~(Len(stack') >= 4)
    BY <2>2, <2>3
  <2> QED
    BY <1>0, <2>4 DEF KeepOrLeave, CodeScreen
<1>4. CASE \E vc \in OtpVCs : CallMebtnref(vc)
  <2>1. CodeScreen
    BY <1>4, TopScreen DEF CallMebtnref, CodeScreen
  <2> QED
    BY <1>0, <2>1 DEF KeepOrLeave
<1>5. CASE showCountriesList
  <2>1. Len(stack) = 3
    BY <1>5, TopScreen DEF showCountriesList
  <2>2. "Countries" \in Screens /\ "Countries" \notin OtpVCs
    BY OtpVCsAssumption DEF Screens
  <2>3. stack'[Len(stack) + 1] = "Countries"
    BY <1>5, <2>2, PushStack DEF TypeOK, showCountriesList, Push
  <2>4. stack'[4] = "Countries"
    BY <2>1, <2>3
  <2> QED
    BY <1>0, <2>2, <2>4 DEF KeepOrLeave, CodeScreen
<1> QED
  BY <1>1, <1>2, <1>3, <1>4, <1>5

LEMMA StepEffect ==
  ASSUME TypeOK, IInv, [Next]_vars
  PROVE  KeepOrLeave \/ NewChallenge \/ CodeTried \/ FlagSet \/ Confirmed
<1>1. CASE UNCHANGED <<stack, defaults, accepted, posted>>
  BY <1>1 DEF KeepOrLeave, SameCustomer, SameFlag, SameServer, CodeScreen
<1>2. CASE Kill
  BY <1>2, DieEffect DEF Kill, SameCustomer, SameFlag, SameServer
<1>3. ASSUME NEW r \in ReqIds, Trap(r) PROVE KeepOrLeave
  BY <1>3, DieEffect DEF Trap, SameCustomer, SameFlag, SameServer
<1>4. ASSUME NEW r \in ReqIds, KillInRegister(r) PROVE KeepOrLeave
  <2>1. PICK key : defaults' = [defaults EXCEPT !.auth_key = key]
    <3>1. PICK key : defaults' = RegisterWrites(defaults, key)[1]
      BY <1>4 DEF KillInRegister
    <3>2. defaults' = [defaults EXCEPT !.auth_key = key]
      BY <3>1 DEF RegisterWrites
    <3> QED
      BY <3>2
  <2>2. SameCustomer /\ SameFlag
    BY <2>1 DEF TypeOK, SameCustomer, SameFlag
  <2> QED
    BY <1>4, <2>2, DieEffect DEF KillInRegister, SameServer
<1>5. ASSUME NEW r \in ReqIds, UpdateCompletion(r) PROVE KeepOrLeave
  <2>1. stack' = stack \/ stack' = <<>>
    BY <1>5 DEF UpdateCompletion
  <2>2. CodeScreen' => CodeScreen
    BY <2>1, EmptySeq DEF CodeScreen
  <2> QED
    BY <1>5, <2>2 DEF UpdateCompletion, KeepOrLeave, SameCustomer, SameFlag, SameServer
<1>6. ASSUME NEW r \in ReqIds, ResendCompletion(r)
      PROVE  UNCHANGED <<stack, defaults, accepted, posted>>
  BY <1>6 DEF ResendCompletion
<1>7. ASSUME NEW vc \in OtpVCs,
             TapOtpField(vc) \/ KeyWithoutCode(vc) \/ ResendOtpbtnref(vc) \/ action(vc)
      PROVE  UNCHANGED <<stack, defaults, accepted, posted>>
  BY <1>7 DEF TapOtpField, KeyWithoutCode, ResendOtpbtnref, action
<1>8. CASE \/ DismissAlert \/ LoginApiCalling \/ SubmitInvalidNumber
           \/ EditUserProfileMethod \/ SubmitWithoutName \/ UNCHANGED vars
  BY <1>1, <1>8 DEF DismissAlert, LoginApiCalling, SubmitInvalidNumber,
     EditUserProfileMethod, SubmitWithoutName, vars
<1>9. ASSUME NEW r \in ReqIds, Completion(r) \/ KillInRegister(r) \/ Serve(r) \/ Trap(r)
      PROVE  KeepOrLeave \/ NewChallenge \/ CodeTried \/ FlagSet \/ Confirmed
  BY <1>9, <1>1, <1>3, <1>4, <1>5, <1>6, LoginEffect, RegisterEffect, ServeEffect DEF Completion
<1>10. ASSUME NEW c \in Customers, ServeLate(c) PROVE Confirmed
  BY <1>10 DEF ServeLate, Confirmed
<1>11. CASE PhoneTouch
  BY <1>8, <1>11, NavigationEffect DEF PhoneTouch
<1>12. CASE ScreenTouch
  BY <1>1, <1>7, <1>8, <1>12, NavigationEffect, CodeEffect DEF ScreenTouch
<1>13. CASE ProcessEnd
  BY <1>2, <1>9, <1>13 DEF ProcessEnd
<1> QED
  BY <1>1, <1>7, <1>8, <1>9, <1>10, <1>11, <1>12, <1>13, NavigationEffect DEF Next

\* Once signed in, the customer stays signed in, under the same id.
THEOREM SignedInCorrect == Spec => SignedInForGood
<1>1. TypeOK /\ IInv /\ [Next]_vars =>
        [defaults.IsUserLogIned =>
           defaults'.IsUserLogIned /\ defaults'.CustomerID = defaults.CustomerID]_vars
  BY StepEffect
  DEF KeepOrLeave, NewChallenge, CodeTried, FlagSet, Confirmed, SameCustomer, SameFlag
<1> QED
  BY <1>1, TypeCorrect, Inductive, PTL DEF Spec, SignedInForGood

-----------------------------------------------------------------------------
(* SignIn implements Session. *)

PhaseOfStack ==
  SessionPhase = IF defaults.IsUserLogIned THEN "signedIn"
                 ELSE IF CodeScreen THEN "challenged" ELSE "signedOut"

\* The session is challenged while there is a code screen at its place in the stack.
LEMMA PhaseIs == TypeOK /\ IInv => PhaseOfStack
<1> SUFFICES ASSUME TypeOK, IInv PROVE PhaseOfStack
  OBVIOUS
<1>1. (\E vc \in OtpVCs : InStack(vc)) <=> CodeScreen
  <2>1. ASSUME CodeScreen PROVE \E vc \in OtpVCs : InStack(vc)
    <3>1. 4 \in 1..Len(stack) /\ stack[4] \in OtpVCs
      BY <2>1 DEF CodeScreen, TypeOK
    <3> QED
      BY <3>1 DEF InStack
  <2> QED
    BY <2>1, ScreenPlaces DEF CodeScreen
<1> QED
  BY <1>1 DEF SessionPhase, PhaseOfStack

\* Every step of the app is a step of the abstract session or does not show in it:
\* codes go to the server for the challenged customer only, and a session opens only
\* after the server's confirmation for its own customer, although the server may
\* confirm any code it was sent at any later time.
THEOREM SessionCorrect == Spec => ImplementsSession
<1>1. Init => S!Init
  <2> SUFFICES ASSUME Init PROVE S!Init
    OBVIOUS
  <2>1. TypeOK /\ IInv
    BY TypeInit, IInvInit
  <2>2. ~CodeScreen
    BY EmptySeq DEF Init, CodeScreen
  <2> QED
    BY <2>1, <2>2, PhaseIs DEF PhaseOfStack, Init, S!Init
<1>2. TypeOK /\ IInv /\ TypeOK' /\ IInv' /\ [Next]_vars => [S!Next]_(S!svars)
  <2> SUFFICES ASSUME TypeOK, IInv, TypeOK', IInv', [Next]_vars
               PROVE  [S!Next]_(S!svars)
    OBVIOUS
  <2>1. PhaseOfStack
    BY PhaseIs
  <2>2. PhaseOfStack'
    BY PhaseIs, PTL
  <2>3. CASE KeepOrLeave
    BY <2>1, <2>2, <2>3
    DEF PhaseOfStack, KeepOrLeave, SameCustomer, SameFlag, SameServer, S!Next, S!Abandon, S!svars
  <2>4. CASE NewChallenge
    BY <2>1, <2>2, <2>4
    DEF PhaseOfStack, NewChallenge, SameFlag, SameServer, S!Next, S!Challenge, S!svars
  <2>5. CASE FlagSet
    BY <2>1, <2>2, <2>5
    DEF PhaseOfStack, FlagSet, SameCustomer, SameServer, S!Next, S!Open, S!svars
  <2>6. CASE Confirmed
    <3>1. SessionPhase' = SessionPhase
      BY <2>1, <2>2, <2>6 DEF PhaseOfStack, Confirmed, CodeScreen
    <3> QED
      BY <2>6, <3>1 DEF Confirmed, S!Next, S!Confirm, S!svars
  <2>7. CASE CodeTried
    <3>1. SessionPhase = "challenged" /\ SessionPhase' = SessionPhase
      BY <2>1, <2>2, <2>7 DEF PhaseOfStack, CodeTried, CodeScreen
    <3> QED
      BY <2>7, <3>1 DEF CodeTried, S!Next, S!Try, S!svars
  <2> QED
    BY <2>3, <2>4, <2>5, <2>6, <2>7, StepEffect
<1> QED
  BY <1>1, <1>2, TypeCorrect, Inductive, PTL DEF Spec, ImplementsSession, S!Spec

-----------------------------------------------------------------------------
(* What a step can do to the stack, for the modules that follow its screens. *)

\* The screens that a button, or a verified code, puts on the stack.
Pushed == {"Terms", "Phone", "Countries", "Profile"}

\* A code screen is put there by LoginCompletion and by nothing else.
LEMMA StackMoves ==
  ASSUME [Next]_vars
  PROVE  \/ stack' = stack \/ stack' = <<>> \/ stack' = <<"Lounch", "Lounch">>
         \/ stack # <<>> /\ Pop
         \/ \E x \in Pushed : stack' = Append(stack, x)
         \/ \E r \in ReqIds, vc \in FreeOtpVCs : LoginCompletion(r) /\ stack' = Append(stack, vc)
<1> DEFINE Goal == \/ stack' = stack \/ stack' = <<>> \/ stack' = <<"Lounch", "Lounch">>
                   \/ stack # <<>> /\ Pop
                   \/ \E x \in Pushed : stack' = Append(stack, x)
                   \/ \E r \in ReqIds, vc \in FreeOtpVCs :
                        LoginCompletion(r) /\ stack' = Append(stack, vc)
<1>1. CASE NavigationScreens \/ ProcessEnd
  BY <1>1 DEF NavigationScreens, ProcessEnd, Kill, KillInRegister, Trap, Die
<1>2. CASE \/ agreeContinueBtnref \/ policyBtnref \/ showCountriesList
           \/ \E vc \in OtpVCs : CallMebtnref(vc)
  BY <1>2 DEF agreeContinueBtnref, policyBtnref, showCountriesList, CallMebtnref, Push, Pushed
<1>3. CASE TermsBackBtnref \/ didSelectRow \/ \E vc \in OtpVCs : backbtnref(vc)
  BY <1>3 DEF TermsBackBtnref, didSelectRow, backbtnref, Shows
<1>4. CASE \/ DismissAlert \/ LoginApiCalling \/ SubmitInvalidNumber
           \/ EditUserProfileMethod \/ SubmitWithoutName \/ UNCHANGED vars
  BY <1>4 DEF DismissAlert, LoginApiCalling, SubmitInvalidNumber, EditUserProfileMethod,
     SubmitWithoutName, vars
<1>5. ASSUME NEW vc \in OtpVCs,
             \/ TapOtpField(vc) \/ enteredOTP(vc) \/ KeyWithoutCode(vc)
             \/ ResendOtpbtnref(vc) \/ action(vc)
      PROVE  Goal
  BY <1>5 DEF TapOtpField, enteredOTP, KeyWithoutCode, ResendOtpbtnref, action
<1>6. ASSUME NEW r \in ReqIds, ResendCompletion(r) \/ UpdateCompletion(r) \/ Serve(r)
      PROVE  Goal
  BY <1>6 DEF ResendCompletion, UpdateCompletion, Serve
<1>7. ASSUME NEW r \in ReqIds, RegisterCompletion(r) PROVE Goal
  BY <1>7 DEF RegisterCompletion, Pushed
<1>8. ASSUME NEW r \in ReqIds, LoginCompletion(r) PROVE Goal
  BY <1>8 DEF LoginCompletion, Push
<1>9. ASSUME NEW c \in Customers, ServeLate(c) PROVE Goal
  BY <1>9 DEF ServeLate
<1> QED
  BY <1>1, <1>2, <1>3, <1>4, <1>5, <1>6, <1>7, <1>8, <1>9
  DEF Next, PhoneTouch, ScreenTouch, Completion

\* The code screen at its place stays for as long as there is one.
LEMMA SameCodeScreen ==
  ASSUME TypeOK, IInv, [Next]_vars, CodeScreen, CodeScreen'
  PROVE  stack'[4] = stack[4]
<1>1. Len(stack) \in Nat /\ 4 \in 1..Len(stack)
  BY DEF TypeOK, CodeScreen
<1>2. CASE stack' = <<>> \/ stack' = <<"Lounch", "Lounch">>
  <2>1. Len(stack') = 0 \/ Len(stack') = 2
    BY <1>2, EmptySeq
  <2> QED
    BY <2>1 DEF CodeScreen
<1>3. CASE stack # <<>> /\ Pop
  <2>1. /\ Len(stack') = Len(stack) - 1
        /\ \A i \in 1..(Len(stack) - 1) : stack'[i] = stack[i]
    BY <1>3, PopStack DEF TypeOK, Pop
  <2> QED
    BY <1>1, <2>1 DEF CodeScreen
<1>4. ASSUME NEW x \in Screens, stack' = Append(stack, x) PROVE stack'[4] = stack[4]
  BY <1>1, <1>4, PushStack DEF TypeOK
<1>5. Pushed \subseteq Screens /\ FreeOtpVCs \subseteq Screens
  BY DEF Pushed, Screens, FreeOtpVCs
<1> QED
  BY <1>2, <1>3, <1>4, <1>5, StackMoves

\* There is no code screen after a step without one before it, but for LoginCompletion.
LEMMA NoNewCodeScreen ==
  ASSUME TypeOK, [Next]_vars, CodeScreen', \A r \in ReqIds : ~LoginCompletion(r)
  PROVE  CodeScreen
<1>1. Len(stack) \in Nat
  BY DEF TypeOK
<1>2. CASE stack' = <<>> \/ stack' = <<"Lounch", "Lounch">>
  <2>1. Len(stack') = 0 \/ Len(stack') = 2
    BY <1>2, EmptySeq
  <2>2. \A n : n = 0 \/ n = 2 => ~(n >= 4)
    OBVIOUS
  <2> QED
    BY <2>1, <2>2, Zenon DEF CodeScreen
<1>3. CASE stack # <<>> /\ Pop
  <2>1. /\ Len(stack') = Len(stack) - 1
        /\ \A i \in 1..(Len(stack) - 1) : stack'[i] = stack[i]
    BY <1>3, PopStack DEF TypeOK, Pop
  <2>2. Len(stack) >= 4 /\ 4 \in 1..(Len(stack) - 1)
    BY <1>1, <2>1 DEF CodeScreen
  <2> QED
    BY <2>1, <2>2 DEF CodeScreen
<1>4. ASSUME NEW x \in Pushed, stack' = Append(stack, x) PROVE CodeScreen
  <2>1. x \in Screens /\ x \notin OtpVCs
    BY OtpVCsAssumption DEF Pushed, Screens
  <2>2. /\ Len(stack') = Len(stack) + 1 /\ stack'[Len(stack) + 1] = x
        /\ \A i \in 1..Len(stack) : stack'[i] = stack[i]
    BY <1>4, <2>1, PushStack DEF TypeOK
  <2>3. ASSUME Len(stack) = 3 PROVE FALSE
    <3>1. stack'[4] = x
      BY <2>2, <2>3
    <3> QED
      BY <2>1, <3>1 DEF CodeScreen
  <2>4. \A n \in Nat : n + 1 >= 4 /\ n # 3 => n >= 4 /\ 4 \in 1..n
    OBVIOUS
  <2>5. Len(stack) + 1 >= 4 /\ Len(stack) # 3
    BY <2>2, <2>3, Zenon DEF CodeScreen
  <2>6. Len(stack) >= 4 /\ 4 \in 1..Len(stack)
    BY <1>1, <2>4, <2>5, Zenon
  <2> QED
    BY <2>2, <2>6 DEF CodeScreen
<1> QED
  BY <1>2, <1>3, <1>4, StackMoves DEF CodeScreen

-----------------------------------------------------------------------------
(* The spinner, with the answers the handlers provide for: reachability answers,
   no answer has HTTP 401 or comes without data, and an object's status is one that
   a branch of every handler mentions.  Each hypothesis closes one way of leaving a
   spinner behind.                                                              *)

AnswersProvidedFor ==
  /\ "nil" \notin Nets
  /\ 401 \notin HttpCodes
  /\ "empty" \notin AnswerKinds
  /\ Statuses \subseteq {200, 204, 400, 401, 403}

\* The half of SpinnerIffPending that IInv does not have.
NoStaleSpinner == \A r \in overlay : InFlight(r)

\* Every call of the sign-in screens is sent or fails on the spot.
LEMMA CallSentOrFails ==
  ASSUME AnswersProvidedFor, NEW net \in Nets, NEW method \in {"post", "get"}
  PROVE  APIRequest(method, net) \in {"send", "fail"}
<1>1. isNetworkAvailable(net) \in {"yes", "no"}
  BY NetsAssumption DEF AnswersProvidedFor, NetStatuses, isNetworkAvailable
<1> QED
  BY <1>1 DEF APIRequest

LEMMA NoAnswerSilent ==
  ASSUME AnswersProvidedFor, NEW served \in BOOLEAN, NEW a \in Answers(served), NEW alerts
  PROVE  WrappedVerdict(responseData(a[1], a[2]), alerts) # "silent"
<1> DEFINE c == responseData(a[1], a[2])
<1>1. a[1] # 401
  BY DEF Answers, AnswersProvidedFor
<1>2. c.called /\ c.status \in BOOLEAN
  BY <1>1 DEF responseData, Completed
<1> HIDE DEF c
<1>3. ModelVerdict(c.response, alerts) # "silent"
  BY DEF ModelVerdict
<1>4. WrappedVerdict(c, alerts) # "silent"
  BY <1>2, <1>3 DEF WrappedVerdict
<1> QED
  BY <1>4 DEF c

\* LoginCompletion hides the spinner inside its branches only, so for it the status
\* matters as well: it sees that of an object, or none.
LEMMA NoLoginIgnored ==
  ASSUME AnswersProvidedFor, NEW served \in BOOLEAN, NEW a \in Answers(served)
  PROVE  LoginVerdict(a[1], a[2]) # "ignored"
<1> DEFINE c == responseData(a[1], a[2])
<1>1. c \in {NeverCalled, Completed(TRUE, a[2]), Completed(TRUE, JSONString),
             Completed(FALSE, JSONString)}
  BY DEF responseData
<1>2. a[2].kind = "object" => a[2].status \in {200, 204, 400, 401, 403}
  BY DEF Answers, Bodies, Body, BodyKinds, AnswersProvidedFor
<1>3. ModelVerdict(a[2], {403}) # "ignored"
  <2>1. CASE a[2].kind # "object"
    BY <2>1 DEF ModelVerdict
  <2>2. CASE a[2].kind = "object"
    <3> DEFINE s == a[2].status
    <3>1. s \in {200, 204, 400, 401, 403}
      BY <1>2, <2>2
    <3> HIDE DEF s
    <3>2. (CASE s = 200 -> "ok" [] s \in {204, 400, 401} -> "toast"
             [] s \in {403} -> "alert" [] OTHER -> "ignored") # "ignored"
      BY <3>1
    <3> QED
      BY <2>2, <3>2 DEF ModelVerdict, s
  <2> QED
    BY <2>1, <2>2
<1>4. ModelVerdict(JSONString, {403}) # "ignored"
  BY DEF ModelVerdict, JSONString, Body
<1> HIDE DEF c
<1>5. WrappedVerdict(c, {403}) # "ignored"
  BY <1>1, <1>3, <1>4 DEF WrappedVerdict, NeverCalled, Completed
<1> QED
  BY <1>5 DEF LoginVerdict, c

LEMMA NoUpdateSilent ==
  ASSUME AnswersProvidedFor, NEW served \in BOOLEAN, NEW a \in Answers(served)
  PROVE  UpdateVerdict(a[1], a[2]) # "silent"
<1>1. a[2].kind # "empty"
  BY DEF Answers, AnswersProvidedFor
<1>2. ModelVerdict(a[2], {403}) # "silent"
  BY DEF ModelVerdict
<1> QED
  BY <1>1, <1>2 DEF UpdateVerdict

\* No handler is left without a word, and the sign-in's not with a status it
\* does not know.
LEMMA VerdictsProvidedFor ==
  ASSUME AnswersProvidedFor, NEW served \in BOOLEAN
  PROVE  /\ "silent" \notin LoginVerdicts[served] /\ "ignored" \notin LoginVerdicts[served]
         /\ "silent" \notin RegisterVerdicts[served]
         /\ "silent" \notin ResendVerdicts[served]
         /\ "silent" \notin UpdateVerdicts[served]
<1>1. "silent" \notin LoginVerdicts[served]
  BY NoAnswerSilent DEF LoginVerdicts, LoginVerdict
<1>2. "ignored" \notin LoginVerdicts[served]
  BY NoLoginIgnored DEF LoginVerdicts
<1>3. "silent" \notin RegisterVerdicts[served]
  BY NoAnswerSilent DEF RegisterVerdicts, RegisterVerdict
<1>4. "silent" \notin ResendVerdicts[served]
  BY NoAnswerSilent DEF ResendVerdicts, ResendVerdict
<1>5. "silent" \notin UpdateVerdicts[served]
  BY NoUpdateSilent DEF UpdateVerdicts
<1> QED
  BY <1>1, <1>2, <1>3, <1>4, <1>5

LEMMA SpinnerOfCall ==
  ASSUME TypeOK, NoStaleSpinner, NEW r \in ReqIds, NEW req, req.kind # "idle",
         NEW outcome \in {"send", "fail"}, Call(r, req, outcome)
  PROVE  NoStaleSpinner'
<1>1. CASE outcome = "fail"
  BY <1>1 DEF Call, NoStaleSpinner, InFlight
<1>2. CASE outcome = "send"
  BY <1>2 DEF Call, NoStaleSpinner, InFlight, TypeOK
<1> QED
  BY <1>1, <1>2

LEMMA SpinnerOfCompletion ==
  ASSUME TypeOK, NoStaleSpinner, NEW r \in ReqIds, request' = [request EXCEPT ![r] = Idle],
         overlay' \subseteq overlay \ {r}
  PROVE  NoStaleSpinner'
BY DEF NoStaleSpinner, InFlight, TypeOK

LEMMA SpinnerCompletion ==
  ASSUME AnswersProvidedFor, TypeOK, NoStaleSpinner, NEW r \in ReqIds, Completion(r)
  PROVE  NoStaleSpinner'
<1>0. request[r].served \in BOOLEAN
  BY DEF TypeOK, RequestType
<1>1. request' = [request EXCEPT ![r] = Idle]
  BY DEF Completion, LoginCompletion, RegisterCompletion, ResendCompletion, UpdateCompletion
<1>2. overlay' \subseteq overlay \ {r}
  <2>1. CASE LoginCompletion(r)
    BY <1>0, <2>1, VerdictsProvidedFor DEF LoginCompletion
  <2>2. CASE RegisterCompletion(r)
    BY <1>0, <2>2, VerdictsProvidedFor DEF RegisterCompletion
  <2>3. CASE ResendCompletion(r)
    BY <1>0, <2>3, VerdictsProvidedFor DEF ResendCompletion
  <2>4. CASE UpdateCompletion(r)
    BY <1>0, <2>4, VerdictsProvidedFor DEF UpdateCompletion
  <2> QED
    BY <2>1, <2>2, <2>3, <2>4 DEF Completion
<1> QED
  BY <1>1, <1>2, SpinnerOfCompletion

LEMMA SpinnerStep ==
  ASSUME AnswersProvidedFor, TypeOK, NoStaleSpinner, [Next]_vars PROVE NoStaleSpinner'
<1>1. CASE UNCHANGED <<request, overlay>>
  BY <1>1 DEF NoStaleSpinner, InFlight
<1>2. CASE Die
  BY <1>2 DEF Die, NoStaleSpinner
<1>3. CASE LoginApiCalling
  <2>1. PICK r \in ReqIds, net \in Nets :
          Call(r, Request("LogIN", NoVC, Unset), APIRequest("post", net))
    BY <1>3 DEF LoginApiCalling, FreeReqs
  <2> QED
    BY <2>1, CallSentOrFails, SpinnerOfCall DEF Request
<1>4. ASSUME NEW vc \in OtpVCs, enteredOTP(vc) PROVE NoStaleSpinner'
  <2>1. PICK r \in ReqIds, net \in Nets :
          Call(r, Request("Register", vc, otp[vc].CustomerID), APIRequest("post", net))
    BY <1>4 DEF enteredOTP, FreeReqs
  <2> QED
    BY <2>1, CallSentOrFails, SpinnerOfCall DEF Request
<1>5. ASSUME NEW vc \in OtpVCs, ResendOtpbtnref(vc) PROVE NoStaleSpinner'
  <2>1. PICK r \in ReqIds, net \in Nets :
          Call(r, Request("Resend", vc, defaults.CustomerID), APIRequest("get", net))
    BY <1>5 DEF ResendOtpbtnref, FreeReqs
  <2> QED
    BY <2>1, CallSentOrFails, SpinnerOfCall DEF Request
<1>6. CASE EditUserProfileMethod
  <2>1. PICK r \in ReqIds, o \in {"send", "fail"} :
          Call(r, Request("Update", NoVC, defaults.CustomerID), o)
    BY <1>6 DEF EditUserProfileMethod, FreeReqs
  <2> QED
    BY <2>1, SpinnerOfCall DEF Request
<1>7. ASSUME NEW r \in ReqIds, Serve(r) PROVE NoStaleSpinner'
  BY <1>7 DEF Serve, NoStaleSpinner, InFlight, TypeOK, RequestType
<1>8. NavigationScreens => UNCHANGED <<request, overlay>>
  BY DEF NavigationScreens
<1>9. PhoneTouch => LoginApiCalling \/ UNCHANGED <<request, overlay>>
  BY DEF PhoneTouch, agreeContinueBtnref, showCountriesList, didSelectRow, SubmitInvalidNumber
<1>10. ScreenTouch => \/ \E vc \in OtpVCs : enteredOTP(vc) \/ ResendOtpbtnref(vc)
                      \/ UNCHANGED <<request, overlay>>
  BY DEF ScreenTouch, policyBtnref, TermsBackBtnref, DismissAlert, SubmitWithoutName,
     backbtnref, TapOtpField, KeyWithoutCode, CallMebtnref
<1>11. ProcessEnd => Die
  BY DEF ProcessEnd, Kill, KillInRegister, Trap
<1>12. (\E vc \in OtpVCs : action(vc)) => UNCHANGED <<request, overlay>>
  BY DEF action
<1>13. UNCHANGED vars => UNCHANGED <<request, overlay>>
  BY DEF vars
<1>14. (\E c \in Customers : ServeLate(c)) => UNCHANGED <<request, overlay>>
  BY DEF ServeLate
<1> QED
  BY <1>1, <1>2, <1>3, <1>4, <1>5, <1>6, <1>7, <1>8, <1>9, <1>10, <1>11, <1>12, <1>13, <1>14,
     SpinnerCompletion DEF Next

\* With answers the handlers provide for, each request's spinner covers the window
\* exactly while its answer is pending: no spinner is left behind by any order of
\* completions, keystrokes under the spinner, traps and kills.
THEOREM SpinnerCorrect ==
  ASSUME AnswersProvidedFor PROVE Spec => []SpinnerIffPending
<1>1. Init => NoStaleSpinner
  BY DEF Init, NoStaleSpinner
<1>2. TypeOK /\ NoStaleSpinner /\ [Next]_vars => NoStaleSpinner'
  BY SpinnerStep
<1>3. NoStaleSpinner /\ PendingCovered => SpinnerIffPending
  BY DEF NoStaleSpinner, PendingCovered, SpinnerIffPending
<1> QED
  BY <1>1, <1>2, <1>3, TypeCorrect, CoveredCorrect, PTL DEF Spec

-----------------------------------------------------------------------------
(* The spinner, with any answers at all. *)

\* No sign-in and no profile update is pending.
NoScreenRequest == \A s \in ReqIds : request[s].kind \notin {"LogIN", "Update"}

\* A call from a screen on which nothing is pending, or of a code.
LEMMA StaleOfCall ==
  ASSUME TypeOK, SpinnerLeftBehind, root = "nav", UNCHANGED root, NoScreenRequest,
         NEW r \in FreeReqs, NEW q, q.kind # "idle", NEW outcome, Call(r, q, outcome),
         q.kind \in {"LogIN", "Update"} => overlay = {}
  PROVE  SpinnerLeftBehind'
<1>0. r \in ReqIds /\ r \notin overlay /\ ~InFlight(r)
  BY DEF FreeReqs
<1>1. CASE outcome # "send"
  <2>1. request' = request
    BY <1>1 DEF Call
  <2> QED
    BY <2>1 DEF SpinnerLeftBehind, NoScreenRequest
<1>2. CASE outcome = "send"
  <2>1. request'[r] = q /\ \A s \in ReqIds \ {r} : request'[s] = request[s]
    BY <1>0, <1>2 DEF Call, TypeOK
  <2>2. overlay' = overlay \cup {r}
    BY <1>2 DEF Call
  <2>3. ASSUME NEW s \in overlay', ~InFlight(s)' PROVE s \in overlay /\ s \in ReqIds /\ s # r
    BY <2>1, <2>2, <2>3 DEF InFlight, TypeOK
  <2>4. ASSUME NEW s \in overlay', ~InFlight(s)', NEW p \in ReqIds
        PROVE  request'[p].kind \notin {"LogIN", "Update"}
    <3>1. CASE p = r
      BY <2>1, <2>3, <2>4, <3>1
    <3>2. CASE p # r
      BY <2>1, <3>2 DEF NoScreenRequest
    <3> QED
      BY <3>1, <3>2
  <2> QED
    BY <2>4 DEF SpinnerLeftBehind
<1> QED
  BY <1>1, <1>2

\* A completion leaves its own spinner behind at most, and then nothing else that is
\* pending belongs to the number or the profile.
LEMMA StaleOfCompletion ==
  ASSUME TypeOK, IInv, SpinnerLeftBehind, NEW r \in ReqIds, InFlight(r),
         request' = [request EXCEPT ![r] = Idle],
         overlay' = {} \/ (UNCHANGED root /\ overlay' \subseteq overlay)
  PROVE  SpinnerLeftBehind'
<1>1. request'[r] = Idle /\ \A s \in ReqIds \ {r} : request'[s] = request[s]
  BY DEF TypeOK
<1>2. Idle.kind = "idle" /\ root = "nav"
  BY DEF Idle, IInv, RequestShape
<1> SUFFICES ASSUME UNCHANGED root, overlay' \subseteq overlay,
                    NEW s \in overlay', ~InFlight(s)', NEW p \in ReqIds
             PROVE  request'[p].kind \notin {"LogIN", "Update"}
  BY <1>2 DEF SpinnerLeftBehind
<1>3. s \in ReqIds /\ s \in overlay
  BY DEF TypeOK
<1>4. CASE s = r
  <2>1. p # r /\ InFlight(p) => request[p].kind \in {"Register", "Resend"}
    BY DEF IInv, LoneRequests
  <2> QED
    BY <1>1, <1>2, <2>1 DEF InFlight
<1>5. CASE s # r
  <2>1. ~InFlight(s)
    BY <1>1, <1>3, <1>5 DEF InFlight
  <2>2. \A x \in ReqIds : request[x].kind \notin {"LogIN", "Update"}
    BY <1>3, <2>1 DEF SpinnerLeftBehind
  <2> QED
    BY <1>1, <1>2, <2>2
<1> QED
  BY <1>4, <1>5

LEMMA LeftBehindStep ==
  ASSUME TypeOK, IInv, SpinnerLeftBehind, [Next]_vars PROVE SpinnerLeftBehind'
<1>1. CASE UNCHANGED <<root, request, overlay>>
  BY <1>1 DEF SpinnerLeftBehind, InFlight
<1>2. CASE Die
  BY <1>2 DEF Die, SpinnerLeftBehind
<1>3. CASE NavigationScreens
  <2>1. overlay = {}
    BY <1>3 DEF NavigationScreens, SpinnerLeftBehind, IInv, RequestShape, TypeOK
  <2> QED
    BY <1>3, <2>1 DEF NavigationScreens, SpinnerLeftBehind
<1>4. Touchable => overlay = {} /\ NoScreenRequest
  BY NothingPending DEF Touchable, NoScreenRequest, InFlight
<1>5. CASE LoginApiCalling
  <2>1. PICK r \in FreeReqs, net \in Nets :
          Call(r, Request("LogIN", NoVC, Unset), APIRequest("post", net))
    BY <1>5 DEF LoginApiCalling
  <2>2. root = "nav" /\ UNCHANGED root /\ overlay = {} /\ NoScreenRequest
    BY <1>4, <1>5 DEF LoginApiCalling, Shows
  <2> QED
    BY <2>1, <2>2, StaleOfCall DEF Request
<1>6. CASE EditUserProfileMethod
  <2>1. PICK r \in FreeReqs :
          Call(r, Request("Update", NoVC, defaults.CustomerID),
               IF defaults.CustomerID = Unset THEN "fail" ELSE "send")
    BY <1>6 DEF EditUserProfileMethod
  <2>2. root = "nav" /\ UNCHANGED root /\ overlay = {} /\ NoScreenRequest
    BY <1>4, <1>6 DEF EditUserProfileMethod, Shows
  <2> QED
    BY <2>1, <2>2, StaleOfCall DEF Request
<1>7. ASSUME NEW vc \in OtpVCs, ResendOtpbtnref(vc) PROVE SpinnerLeftBehind'
  <2>1. PICK r \in FreeReqs, net \in Nets :
          Call(r, Request("Resend", vc, defaults.CustomerID), APIRequest("get", net))
    BY <1>7 DEF ResendOtpbtnref
  <2>2. root = "nav" /\ UNCHANGED root /\ NoScreenRequest
    BY <1>4, <1>7 DEF ResendOtpbtnref, Shows
  <2> QED
    BY <2>1, <2>2, StaleOfCall DEF Request
<1>8. ASSUME NEW vc \in OtpVCs, enteredOTP(vc) PROVE SpinnerLeftBehind'
  <2>1. PICK r \in FreeReqs, net \in Nets :
          Call(r, Request("Register", vc, otp[vc].CustomerID), APIRequest("post", net))
    BY <1>8 DEF enteredOTP
  <2>2. Shows(vc) /\ root = "nav" /\ UNCHANGED root
    BY <1>8 DEF enteredOTP, Shows
  <2>3. Len(stack) = 4
    BY <2>2, TopScreen
  <2>4. NoScreenRequest
    BY <2>3 DEF NoScreenRequest, IInv, RequestShape, InFlight
  <2> QED
    BY <2>1, <2>2, <2>4, StaleOfCall DEF Request
<1>9. ASSUME NEW r \in ReqIds, Completion(r) PROVE SpinnerLeftBehind'
  <2>1. InFlight(r) /\ request' = [request EXCEPT ![r] = Idle]
    BY <1>9 DEF Completion, LoginCompletion, RegisterCompletion, ResendCompletion,
       UpdateCompletion, InFlight
  <2>2. overlay' = {} \/ (UNCHANGED root /\ overlay' \subseteq overlay)
    BY <1>9 DEF Completion, LoginCompletion, RegisterCompletion, ResendCompletion,
       UpdateCompletion
  <2> QED
    BY <2>1, <2>2, StaleOfCompletion
<1>10. ASSUME NEW r \in ReqIds, Serve(r) PROVE SpinnerLeftBehind'
  <2>1. UNCHANGED <<root, overlay>> /\ \A s \in ReqIds : request'[s].kind = request[s].kind
    BY <1>10 DEF Serve, TypeOK, RequestType
  <2> QED
    BY <2>1 DEF SpinnerLeftBehind, InFlight, TypeOK
<1>11. PhoneTouch => LoginApiCalling \/ UNCHANGED <<root, request, overlay>>
  BY DEF PhoneTouch, agreeContinueBtnref, showCountriesList, didSelectRow, SubmitInvalidNumber
<1>12. ScreenTouch => \/ \E vc \in OtpVCs : enteredOTP(vc) \/ ResendOtpbtnref(vc)
                      \/ UNCHANGED <<root, request, overlay>>
  BY DEF ScreenTouch, policyBtnref, TermsBackBtnref, DismissAlert, SubmitWithoutName,
     backbtnref, TapOtpField, KeyWithoutCode, CallMebtnref
<1>13. ProcessEnd => Die
  BY DEF ProcessEnd, Kill, KillInRegister, Trap
<1>14. /\ (\E vc \in OtpVCs : action(vc)) => UNCHANGED <<root, request, overlay>>
       /\ (\E c \in Customers : ServeLate(c)) => UNCHANGED <<root, request, overlay>>
       /\ UNCHANGED vars => UNCHANGED <<root, request, overlay>>
  BY DEF action, ServeLate, vars
<1> QED
  BY <1>1, <1>2, <1>3, <1>5, <1>6, <1>7, <1>8, <1>9, <1>10, <1>11, <1>12, <1>13, <1>14
  DEF Next

\* A spinner that a handler leaves behind, by whatever answer, keeps the user where he
\* is: no sign-in and no profile update is under way below it, and neither the
\* dashboard nor a new process is ever covered by it.
THEOREM LeftBehindCorrect == Spec => []SpinnerLeftBehind
<1>1. Init => SpinnerLeftBehind
  BY DEF Init, SpinnerLeftBehind
<1>2. TypeOK /\ IInv /\ SpinnerLeftBehind /\ [Next]_vars => SpinnerLeftBehind'
  BY LeftBehindStep
<1> QED
  BY <1>1, <1>2, TypeCorrect, Inductive, PTL DEF Spec
=============================================================================
