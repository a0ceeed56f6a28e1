-------------------------- MODULE SignInTypeProofs --------------------------
(***************************************************************************)
(* Type correctness of SignIn, for any customers, any number of code screens *)
(* and of requests, and any answers of the network.                         *)
(***************************************************************************)
EXTENDS SignIn, SequenceTheorems, TLAPS

-----------------------------------------------------------------------------
(* The stack. *)

\* Push: one more screen, the others where they were.
LEMMA PushStack ==
  ASSUME NEW s \in Seq(Screens), NEW x \in Screens
  PROVE  /\ Append(s, x) \in Seq(Screens)
         /\ Len(Append(s, x)) = Len(s) + 1
         /\ \A i \in 1..Len(s) : Append(s, x)[i] = s[i]
         /\ Append(s, x)[Len(s) + 1] = x
BY AppendProperties

\* Pop: one screen less, the others where they were.
LEMMA PopStack ==
  ASSUME NEW s \in Seq(Screens), s # <<>>
  PROVE  /\ SubSeq(s, 1, Len(s) - 1) \in Seq(Screens)
         /\ Len(SubSeq(s, 1, Len(s) - 1)) = Len(s) - 1
         /\ \A i \in 1..(Len(s) - 1) : SubSeq(s, 1, Len(s) - 1)[i] = s[i]
<1> DEFINE n == Len(s) - 1
<1>1. Len(s) \in Nat \ {0} /\ n \in Nat /\ n = Len(s) - 1
  BY EmptySeq
<1> HIDE DEF n
<1>2. /\ SubSeq(s, 1, n) \in Seq(Screens)
      /\ Len(SubSeq(s, 1, n)) = n
      /\ \A i \in 1..n : SubSeq(s, 1, n)[i] = s[i]
  BY <1>1
<1> QED
  BY <1>2 DEF n

\* The stacks AppDelegate starts with.
LEMMA FirstStacks == <<>> \in Seq(Screens) /\ <<"Lounch", "Lounch">> \in Seq(Screens)
<1>1. \A T : \A x \in T : <<x, x>> \in Seq(T)
  OBVIOUS
<1>2. <<>> \in Seq(Screens)
  BY EmptySeq
<1> QED
  BY <1>1, <1>2 DEF Screens

-----------------------------------------------------------------------------
(* Type correctness, one lemma per group of handlers. *)

DefaultsType ==
  [CustomerID : CustomerIDs \cup {Unset},
   auth_key : Customers \cup {DefaultID, NoKey, Unset}, IsUserLogIned : BOOLEAN]

LEMMA NewOtpVCType == \A c \in CustomerIDs, f \in BOOLEAN : NewOtpVC(c, f) \in OtpVCType
BY SecondsAssumption DEF NewOtpVC, OtpVCType

LEMMA NilTypes == NilOtpVC \in OtpVCType /\ Idle \in RequestType
BY SecondsAssumption DEF NilOtpVC, OtpVCType, Idle, RequestType

\* The field updates of the handlers, and an update of one entry of the table.
LEMMA OtpVCUpdates ==
  ASSUME NEW o \in OtpVCType, NEW b \in BOOLEAN
  PROVE  /\ [o EXCEPT !.focused = b] \in OtpVCType
         /\ [o EXCEPT !.resendFailed = b] \in OtpVCType
         /\ [o EXCEPT !.resendHidden = TRUE, !.resendFailed = b] \in OtpVCType
         /\ [o EXCEPT !.sessionTimer = SessionSeconds, !.resendHidden = TRUE,
                      !.timerValid = TRUE] \in OtpVCType
         /\ [o EXCEPT !.timerValid = FALSE, !.resendHidden = FALSE,
                      !.labelHidden = TRUE] \in OtpVCType
         /\ o.sessionTimer > 0 =>
              [o EXCEPT !.sessionTimer = o.sessionTimer - 1, !.resendHidden = TRUE,
                        !.labelHidden = FALSE] \in OtpVCType
<1>1. o.sessionTimer \in 0..SessionSeconds /\ SessionSeconds \in 0..SessionSeconds
  BY SecondsAssumption DEF OtpVCType
<1>2. o.sessionTimer > 0 => o.sessionTimer - 1 \in 0..SessionSeconds
  BY <1>1, SecondsAssumption
<1>3. \A t \in 0..SessionSeconds : [o EXCEPT !.sessionTimer = t] \in OtpVCType
  BY DEF OtpVCType
<1>4. \A q \in OtpVCType, x \in BOOLEAN :
        /\ [q EXCEPT !.focused = x] \in OtpVCType
        /\ [q EXCEPT !.resendFailed = x] \in OtpVCType
        /\ [q EXCEPT !.resendHidden = x] \in OtpVCType
        /\ [q EXCEPT !.labelHidden = x] \in OtpVCType
        /\ [q EXCEPT !.timerValid = x] \in OtpVCType
  BY DEF OtpVCType
<1>5. TRUE \in BOOLEAN /\ FALSE \in BOOLEAN
  OBVIOUS
<1> QED
  BY <1>1, <1>2, <1>3, <1>4, <1>5

LEMMA OtpTable ==
  ASSUME TypeOK, NEW x, NEW o, x \in OtpVCs => o \in OtpVCType,
         otp' = [otp EXCEPT ![x] = o]
  PROVE  otp' \in [OtpVCs -> OtpVCType]
BY DEF TypeOK

LEMMA RequestTypes ==
  \A k \in Kinds, v \in OtpVCs \cup {NoVC}, c \in CustomerIDs \cup {Unset} :
    Request(k, v, c) \in RequestType
BY DEF Request, RequestType

LEMMA DieType == ASSUME Die PROVE /\ root' \in {"none", "nav", "dashboard"}
                                  /\ stack' \in Seq(Screens)
                                  /\ otp' \in [OtpVCs -> OtpVCType]
                                  /\ request' \in [ReqIds -> RequestType]
                                  /\ overlay' \subseteq ReqIds
                                  /\ alert' \in BOOLEAN
BY NilTypes, FirstStacks DEF Die

LEMMA CallType ==
  ASSUME TypeOK, NEW r \in ReqIds, NEW q \in RequestType, NEW o, Call(r, q, o)
  PROVE  request' \in [ReqIds -> RequestType] /\ overlay' \subseteq ReqIds
BY DEF Call, TypeOK

LEMMA AlertType == ASSUME TypeOK, NEW s, ShowAlert(s) PROVE alert' \in BOOLEAN
BY DEF TypeOK, ShowAlert

LEMMA IdleRequest ==
  ASSUME TypeOK, NEW r \in ReqIds, request' = [request EXCEPT ![r] = Idle]
  PROVE  request' \in [ReqIds -> RequestType]
BY NilTypes DEF TypeOK

LEMMA TypeInit == Init => TypeOK
<1> SUFFICES ASSUME Init PROVE TypeOK
  OBVIOUS
<1>1. defaults \in DefaultsType
  BY DEF Init, DefaultsType
<1>2. otp \in [OtpVCs -> OtpVCType] /\ request \in [ReqIds -> RequestType]
  BY NilTypes DEF Init
<1> QED
  BY <1>1, <1>2, FirstStacks DEF Init, TypeOK, DefaultsType

LEMMA TypeLaunch == ASSUME TypeOK, NavigationScreens \/ Kill PROVE TypeOK'
<1>1. CASE NavigationScreens
  <2>1. stack' \in Seq(Screens)
    BY <1>1, FirstStacks DEF NavigationScreens
  <2> QED
    BY <1>1, <2>1 DEF NavigationScreens, TypeOK
<1>2. CASE Kill
  BY <1>2, DieType DEF Kill, TypeOK
<1> QED
  BY <1>1, <1>2

LEMMA TypeLounch ==
  ASSUME TypeOK, agreeContinueBtnref \/ policyBtnref \/ TermsBackBtnref \/ DismissAlert
  PROVE  TypeOK'
<1>1. CASE agreeContinueBtnref
  <2>1. stack' \in Seq(Screens)
    BY <1>1, PushStack DEF agreeContinueBtnref, Push, TypeOK, Screens
  <2> QED
    BY <1>1, <2>1 DEF agreeContinueBtnref, TypeOK
<1>2. CASE policyBtnref
  <2>1. stack' \in Seq(Screens)
    BY <1>2, PushStack DEF policyBtnref, Push, TypeOK, Screens
  <2> QED
    BY <1>2, <2>1 DEF policyBtnref, TypeOK
<1>3. CASE TermsBackBtnref
  <2>1. stack' \in Seq(Screens)
    BY <1>3, PopStack DEF TermsBackBtnref, Pop, TypeOK, Shows
  <2> QED
    BY <1>3, <2>1 DEF TermsBackBtnref, TypeOK
<1>4. CASE DismissAlert
  BY <1>4 DEF DismissAlert, TypeOK
<1> QED
  BY <1>1, <1>2, <1>3, <1>4

LEMMA TypePhone ==
  ASSUME TypeOK,
         LoginApiCalling \/ SubmitInvalidNumber \/ showCountriesList \/ didSelectRow
  PROVE  TypeOK'
<1>1. CASE LoginApiCalling
  <2>1. PICK r \in FreeReqs, net \in Nets :
          Call(r, Request("LogIN", NoVC, Unset), APIRequest("post", net))
    BY <1>1 DEF LoginApiCalling
  <2>2. r \in ReqIds /\ Request("LogIN", NoVC, Unset) \in RequestType
    BY RequestTypes DEF FreeReqs, Kinds
  <2>3. request' \in [ReqIds -> RequestType] /\ overlay' \subseteq ReqIds
    BY <2>1, <2>2, CallType
  <2> QED
    BY <1>1, <2>3 DEF LoginApiCalling, TypeOK
<1>2. CASE SubmitInvalidNumber
  BY <1>2, AlertType DEF SubmitInvalidNumber, TypeOK
<1>3. CASE showCountriesList
  <2>1. stack' \in Seq(Screens)
    BY <1>3, PushStack DEF showCountriesList, Push, TypeOK, Screens
  <2> QED
    BY <1>3, <2>1 DEF showCountriesList, TypeOK
<1>4. CASE didSelectRow
  <2>1. stack' \in Seq(Screens)
    BY <1>4, PopStack DEF didSelectRow, Pop, TypeOK, Shows
  <2> QED
    BY <1>4, <2>1 DEF didSelectRow, TypeOK
<1> QED
  BY <1>1, <1>2, <1>3, <1>4

LEMMA TypeLoginCompletion ==
  ASSUME TypeOK, NEW r \in ReqIds, LoginCompletion(r) PROVE TypeOK'
<1>1. request' \in [ReqIds -> RequestType]
  BY IdleRequest DEF LoginCompletion
<1>2. overlay' \subseteq ReqIds
  BY DEF LoginCompletion, TypeOK
<1>3. alert' \in BOOLEAN
  BY AlertType DEF LoginCompletion, TypeOK
<1>4. stack' \in Seq(Screens) /\ otp' \in [OtpVCs -> OtpVCType] /\ defaults' \in DefaultsType
  <2>1. CASE UNCHANGED <<stack, otp, defaults>>
    BY <2>1 DEF TypeOK, DefaultsType
  <2>2. CASE \E c \in CustomerIDs, vc \in FreeOtpVCs, f \in BOOLEAN :
               /\ defaults' = [defaults EXCEPT !.CustomerID = c]
               /\ otp' = [otp EXCEPT ![vc] = NewOtpVC(c, f)]
               /\ Push(vc)
    <3>1. PICK c \in CustomerIDs, vc \in FreeOtpVCs, f \in BOOLEAN :
               /\ defaults' = [defaults EXCEPT !.CustomerID = c]
               /\ otp' = [otp EXCEPT ![vc] = NewOtpVC(c, f)]
               /\ Push(vc)
      BY <2>2
    <3>2. vc \in OtpVCs /\ vc \in Screens
      BY DEF FreeOtpVCs, Screens
    <3>3. stack' \in Seq(Screens)
      BY <3>1, <3>2, PushStack DEF Push, TypeOK
    <3>4. otp' \in [OtpVCs -> OtpVCType]
      BY <3>1, <3>2, NewOtpVCType DEF TypeOK
    <3>5. defaults' \in DefaultsType
      BY <3>1 DEF TypeOK, DefaultsType
    <3> QED
      BY <3>3, <3>4, <3>5
  <2> QED
    BY <2>1, <2>2 DEF LoginCompletion
<1> QED
  BY <1>1, <1>2, <1>3, <1>4 DEF LoginCompletion, TypeOK, DefaultsType

LEMMA TypeOtpScreen ==
  ASSUME TypeOK, NEW vc \in OtpVCs,
         \/ backbtnref(vc) \/ TapOtpField(vc) \/ KeyWithoutCode(vc)
         \/ CallMebtnref(vc) \/ action(vc)
  PROVE  TypeOK'
<1>1. CASE backbtnref(vc)
  <2>1. stack' \in Seq(Screens)
    BY <1>1, PopStack DEF backbtnref, Pop, TypeOK, Shows
  <2> QED
    BY <1>1, <2>1 DEF backbtnref, TypeOK
<1>2. CASE TapOtpField(vc)
  <2>1. otp' \in [OtpVCs -> OtpVCType]
    BY <1>2 DEF TapOtpField, TypeOK, OtpVCType
  <2> QED
    BY <1>2, <2>1 DEF TapOtpField, TypeOK
<1>3. CASE KeyWithoutCode(vc)
  <2>1. otp' \in [OtpVCs -> OtpVCType]
    BY <1>3 DEF KeyWithoutCode, TypeOK, OtpVCType
  <2> QED
    BY <1>3, <2>1 DEF KeyWithoutCode, TypeOK
<1>4. CASE CallMebtnref(vc)
  <2>1. stack' \in Seq(Screens)
    BY <1>4, PushStack DEF CallMebtnref, Push, TypeOK, Screens
  <2> QED
    BY <1>4, <2>1 DEF CallMebtnref, TypeOK
<1>5. CASE action(vc)
  <2>1. otp[vc] \in OtpVCType
    BY DEF TypeOK
  <2>2. otp' \in [OtpVCs -> OtpVCType]
    <3> DEFINE q == otp[vc]
               o == IF q.sessionTimer > 0
                    THEN [q EXCEPT !.sessionTimer = q.sessionTimer - 1,
                                   !.resendHidden = TRUE, !.labelHidden = FALSE]
                    ELSE [q EXCEPT !.timerValid = FALSE,
                                   !.resendHidden = FALSE, !.labelHidden = TRUE]
    <3>1. otp' = [otp EXCEPT ![vc] = o]
      BY <1>5 DEF action
    <3>2. q \in OtpVCType
      BY <2>1
    <3> HIDE DEF q
    <3>3. o \in OtpVCType
      BY <3>2, OtpVCUpdates
    <3> HIDE DEF o
    <3> QED
      BY <3>1, <3>3, OtpTable
  <2> QED
    BY <1>5, <2>2 DEF action, TypeOK
<1> QED
  BY <1>1, <1>2, <1>3, <1>4, <1>5

LEMMA TypeOtpCalls ==
  ASSUME TypeOK, NEW vc \in OtpVCs, enteredOTP(vc) \/ ResendOtpbtnref(vc) PROVE TypeOK'
<1>0. otp[vc].CustomerID \in CustomerIDs \cup {Unset}
      /\ defaults.CustomerID \in CustomerIDs \cup {Unset}
  BY DEF TypeOK, OtpVCType
<1>1. CASE enteredOTP(vc)
  <2>1. PICK r \in FreeReqs, net \in Nets :
          Call(r, Request("Register", vc, otp[vc].CustomerID), APIRequest("post", net))
    BY <1>1 DEF enteredOTP
  <2>2. r \in ReqIds /\ Request("Register", vc, otp[vc].CustomerID) \in RequestType
    BY <1>0, RequestTypes DEF FreeReqs, Kinds
  <2>3. request' \in [ReqIds -> RequestType] /\ overlay' \subseteq ReqIds
    BY <2>1, <2>2, CallType
  <2>4. otp' \in [OtpVCs -> OtpVCType]
    <3>1. PICK f \in BOOLEAN : otp' = [otp EXCEPT ![vc].focused = f]
      BY <1>1 DEF enteredOTP
    <3>2. otp \in [OtpVCs -> OtpVCType]
      BY DEF TypeOK
    <3> QED
      BY <3>1, <3>2 DEF OtpVCType
  <2>5. posted' \subseteq CustomerIDs \cup {Unset}
    BY <1>0, <1>1 DEF enteredOTP, TypeOK
  <2> QED
    BY <1>1, <2>3, <2>4, <2>5 DEF enteredOTP, TypeOK
<1>2. CASE ResendOtpbtnref(vc)
  <2>1. PICK r \in FreeReqs, net \in Nets :
          /\ otp' = [otp EXCEPT ![vc] = [@ EXCEPT !.resendHidden = TRUE,
                                !.resendFailed = (APIRequest("get", net) # "send")]]
          /\ Call(r, Request("Resend", vc, defaults.CustomerID), APIRequest("get", net))
    BY <1>2 DEF ResendOtpbtnref
  <2>2. r \in ReqIds /\ Request("Resend", vc, defaults.CustomerID) \in RequestType
    BY <1>0, RequestTypes DEF FreeReqs, Kinds
  <2>3. request' \in [ReqIds -> RequestType] /\ overlay' \subseteq ReqIds
    BY <2>1, <2>2, CallType
  <2>4. otp' \in [OtpVCs -> OtpVCType]
    <3>1. otp[vc] \in OtpVCType /\ (APIRequest("get", net) # "send") \in BOOLEAN
      BY DEF TypeOK
    <3> QED
      BY <2>1, <3>1, OtpVCUpdates, OtpTable
  <2> QED
    BY <1>2, <2>3, <2>4 DEF ResendOtpbtnref, TypeOK
<1> QED
  BY <1>1, <1>2

LEMMA TypeRegisterCompletion ==
  ASSUME TypeOK, NEW r \in ReqIds, RegisterCompletion(r) \/ KillInRegister(r)
  PROVE  TypeOK'
<1>0. \A key \in {request[r].customer, NoKey} :
        /\ RegisterWrites(defaults, key)[1] \in DefaultsType
        /\ RegisterWrites(defaults, key)[2] \in DefaultsType
  <2>1. request[r] \in RequestType /\ defaults \in DefaultsType
    BY DEF TypeOK, DefaultsType
  <2>2. request[r].customer \in CustomerIDs \cup {Unset}
    BY <2>1 DEF RequestType
  <2>3. \A d \in DefaultsType, key \in Customers \cup {DefaultID, NoKey, Unset} :
          [d EXCEPT !.auth_key = key] \in DefaultsType
    BY DEF DefaultsType
  <2>4. \A d \in DefaultsType : [d EXCEPT !.IsUserLogIned = TRUE] \in DefaultsType
    BY DEF DefaultsType
  <2>5. \A key \in {request[r].customer, NoKey} :
          key \in Customers \cup {DefaultID, NoKey, Unset}
    BY <2>2 DEF CustomerIDs
  <2>6. \A key \in {request[r].customer, NoKey} :
          /\ [defaults EXCEPT !.auth_key = key] \in DefaultsType
          /\ [[defaults EXCEPT !.auth_key = key] EXCEPT !.IsUserLogIned = TRUE] \in DefaultsType
    BY <2>1, <2>3, <2>4, <2>5
  <2>7. ASSUME NEW key PROVE
          /\ RegisterWrites(defaults, key)[1] = [defaults EXCEPT !.auth_key = key]
          /\ RegisterWrites(defaults, key)[2]
               = [[defaults EXCEPT !.auth_key = key] EXCEPT !.IsUserLogIned = TRUE]
    BY DEF RegisterWrites
  <2> QED
    BY <2>6, <2>7
<1>1. CASE RegisterCompletion(r)
  <2>1. request' \in [ReqIds -> RequestType]
    BY <1>1, IdleRequest DEF RegisterCompletion
  <2>2. overlay' \subseteq ReqIds
    BY <1>1 DEF RegisterCompletion, TypeOK
  <2>3. alert' \in BOOLEAN
    BY <1>1, AlertType DEF RegisterCompletion, TypeOK
  <2>4. otp' \in [OtpVCs -> OtpVCType]
    <3>1. ASSUME NEW vc, initializeUI(vc) PROVE otp' \in [OtpVCs -> OtpVCType]
      <4> DEFINE o == [otp[vc] EXCEPT !.focused = otp[vc].focused \/ Shows(vc)]
      <4>1. otp' = [otp EXCEPT ![vc] = o]
        BY <3>1 DEF initializeUI
      <4>2. vc \in OtpVCs => otp[vc] \in OtpVCType
        BY DEF TypeOK
      <4>3. (otp[vc].focused \/ Shows(vc)) \in BOOLEAN
        OBVIOUS
      <4>4. vc \in OtpVCs => o \in OtpVCType
        BY <4>2, <4>3, OtpVCUpdates
      <4> HIDE DEF o
      <4> QED
        BY <4>1, <4>4, OtpTable
    <3> QED
      BY <1>1, <3>1 DEF RegisterCompletion, TypeOK
  <2>5. stack' \in Seq(Screens)
    <3>1. Append(stack, "Profile") \in Seq(Screens)
      BY PushStack DEF TypeOK, Screens
    <3> QED
      BY <1>1, <3>1 DEF RegisterCompletion, TypeOK
  <2>6. defaults' \in DefaultsType
    BY <1>1, <1>0 DEF RegisterCompletion, TypeOK, DefaultsType
  <2> QED
    BY <1>1, <2>1, <2>2, <2>3, <2>4, <2>5, <2>6 DEF RegisterCompletion, TypeOK, DefaultsType
<1>2. CASE KillInRegister(r)
  BY <1>2, <1>0, DieType DEF KillInRegister, TypeOK, DefaultsType
<1> QED
  BY <1>1, <1>2

LEMMA TypeResendCompletion ==
  ASSUME TypeOK, NEW r \in ReqIds, ResendCompletion(r) PROVE TypeOK'
<1>1. request' \in [ReqIds -> RequestType]
  BY IdleRequest DEF ResendCompletion
<1>2. overlay' \subseteq ReqIds
  BY DEF ResendCompletion, TypeOK
<1>3. alert' \in BOOLEAN
  BY AlertType DEF ResendCompletion, TypeOK
<1>4. otp' \in [OtpVCs -> OtpVCType]
  <2> DEFINE vc == request[r].vc
  <2> DEFINE o1 == [otp[vc] EXCEPT !.resendFailed = TRUE]
  <2> DEFINE o2 == [otp[vc] EXCEPT !.sessionTimer = SessionSeconds,
                                   !.resendHidden = TRUE, !.timerValid = TRUE]
  <2>1. vc \in OtpVCs => otp[vc] \in OtpVCType
    BY DEF TypeOK
  <2>2. vc \in OtpVCs => o1 \in OtpVCType /\ o2 \in OtpVCType
    BY <2>1, OtpVCUpdates
  <2>3. otp' = [otp EXCEPT ![vc] = o1] \/ otp' = [otp EXCEPT ![vc] = o2]
    BY DEF ResendCompletion
  <2> HIDE DEF o1, o2, vc
  <2> QED
    BY <2>2, <2>3, OtpTable
<1> QED
  BY <1>1, <1>2, <1>3, <1>4 DEF ResendCompletion, TypeOK

LEMMA TypeProfile ==
  ASSUME TypeOK, EditUserProfileMethod \/ SubmitWithoutName PROVE TypeOK'
<1>1. CASE EditUserProfileMethod
  <2>1. PICK r \in FreeReqs :
          Call(r, Request("Update", NoVC, defaults.CustomerID),
               IF defaults.CustomerID = Unset THEN "fail" ELSE "send")
    BY <1>1 DEF EditUserProfileMethod
  <2>2. r \in ReqIds /\ Request("Update", NoVC, defaults.CustomerID) \in RequestType
    BY RequestTypes DEF FreeReqs, Kinds, TypeOK
  <2>3. request' \in [ReqIds -> RequestType] /\ overlay' \subseteq ReqIds
    BY <2>1, <2>2, CallType
  <2> QED
    BY <1>1, <2>3 DEF EditUserProfileMethod, TypeOK
<1>2. CASE SubmitWithoutName
  BY <1>2, AlertType DEF SubmitWithoutName, TypeOK
<1> QED
  BY <1>1, <1>2

LEMMA TypeUpdateCompletion ==
  ASSUME TypeOK, NEW r \in ReqIds, UpdateCompletion(r) PROVE TypeOK'
<1>1. request' \in [ReqIds -> RequestType]
  BY IdleRequest DEF UpdateCompletion
<1>2. overlay' \subseteq ReqIds
  BY DEF UpdateCompletion, TypeOK
<1>3. alert' \in BOOLEAN
  BY AlertType DEF UpdateCompletion, TypeOK
<1>4. root' \in {"none", "nav", "dashboard"} /\ stack' \in Seq(Screens)
  BY FirstStacks DEF UpdateCompletion, TypeOK
<1> QED
  BY <1>1, <1>2, <1>3, <1>4 DEF UpdateCompletion, TypeOK

LEMMA TypeServer ==
  ASSUME TypeOK, NEW r \in ReqIds, Serve(r) \/ Trap(r) PROVE TypeOK'
<1>1. CASE Serve(r)
  <2>1. request' \in [ReqIds -> RequestType]
    <3>1. \A q \in RequestType : [q EXCEPT !.served = TRUE] \in RequestType
      BY DEF RequestType
    <3> QED
      BY <1>1, <3>1 DEF Serve, TypeOK
  <2>2. accepted' \subseteq Customers
    BY <1>1 DEF Serve, TypeOK
  <2> QED
    BY <1>1, <2>1, <2>2 DEF Serve, TypeOK
<1>2. CASE Trap(r)
  BY <1>2, DieType DEF Trap, TypeOK
<1> QED
  BY <1>1, <1>2

LEMMA TypeServeLate == ASSUME TypeOK, NEW c \in Customers, ServeLate(c) PROVE TypeOK'
BY DEF ServeLate, TypeOK

LEMMA TypeStep == TypeOK /\ [Next]_vars => TypeOK'
<1> SUFFICES ASSUME TypeOK, [Next]_vars PROVE TypeOK'
  OBVIOUS
<1>1. CASE UNCHANGED vars
  BY <1>1 DEF vars, TypeOK
<1>2. ASSUME NEW r \in ReqIds, Completion(r) PROVE TypeOK'
  BY <1>2, TypeLoginCompletion, TypeRegisterCompletion, TypeResendCompletion,
     TypeUpdateCompletion DEF Completion
<1> QED
  BY <1>1, <1>2, TypeLaunch, TypeLounch, TypePhone, TypeOtpScreen, TypeOtpCalls,
     TypeRegisterCompletion, TypeProfile, TypeServer, TypeServeLate
  DEF Next, PhoneTouch, ScreenTouch, ProcessEnd

\* Every state of the sign-in flow has its type.
THEOREM TypeCorrect == Spec => []TypeOK
BY TypeInit, TypeStep, PTL DEF Spec

=============================================================================
