------------------------------- MODULE SignIn -------------------------------
(***************************************************************************)
(* The sign-in flow of ThorChat: AppDelegate, LounchScreenVC,               *)
(* TermaAndPolicyVC, PhoneNumberVerificationVC, OTPVerificationVC and       *)
(* EditMyProfileVC over the HTTP layer of ApiClient, with UserDefaults as   *)
(* the state that survives the process.                                    *)
(*                                                                         *)
(* Everything in the app runs on the main thread: an IBAction, a timer      *)
(* callback or an Alamofire completion is one atomic step.  What interleaves *)
(* is which of them comes next: the user, the timers of every live          *)
(* OTPVerificationVC, the completions of every request in flight, the       *)
(* server, and the system killing the process.                             *)
(*                                                                         *)
(* Every request shows its own full-screen spinner (PUGIFLoading) on the    *)
(* key window.  The spinner swallows touches but not the keyboard, which is *)
(* a window of its own, so a code can be typed while a request is pending.  *)
(***************************************************************************)
EXTENDS ApiClient, Sequences, FiniteSets

CONSTANTS
  Customers,       \* customer ids the server can issue
  OtpVCs,          \* identities for OTPVerificationVC instances alive at once
  ReqIds,          \* identities for requests whose spinner or answer is pending
  SessionSeconds,  \* OTPVerificationVC.sessionTimer's start value (60 in the app)
  HttpCodes,       \* HTTP status codes the network can produce (0: no response)
  AnswerKinds,     \* kinds of body an answer can carry
  Statuses,        \* values the "status" member of an answer can decode to
  Nets             \* answers reachability can give

Unset     == "unset"   \* a UserDefaults key never written
DefaultID == "0"       \* LoginModel.customer_id when the answer has none
NoKey     == ""        \* RegisterModel.auth_key when the answer has none
NoVC      == "noVC"    \* a request that no OTPVerificationVC issued

ASSUME CustomersAssumption == Customers \cap {Unset, DefaultID, NoKey} = {}
ASSUME OtpVCsAssumption ==
  OtpVCs \cap {"Lounch", "Terms", "Phone", "Countries", "Profile", NoVC} = {}
ASSUME SecondsAssumption == SessionSeconds \in Nat \ {0}
ASSUME NetsAssumption == Nets \subseteq NetStatuses /\ AnswerKinds \subseteq BodyKinds

CustomerIDs == Customers \cup {DefaultID}
Screens     == {"Lounch", "Terms", "Phone", "Countries", "Profile"} \cup OtpVCs

VARIABLES
  root,      \* "none": no process; "nav": sign-in screens; "dashboard"
  stack,     \* the navigation controller's view controllers, bottom first
  otp,       \* the state of each OTPVerificationVC
  request,   \* the requests in flight
  overlay,   \* the requests whose spinner covers the window
  alert,     \* an alert is presented
  defaults,  \* UserDefaults: CustomerID, auth_key, IsUserLogIned
  accepted,  \* the customers whose code the server has confirmed
  posted     \* the customers for whom a verification has ever left the phone

vars == <<root, stack, otp, request, overlay, alert, defaults, accepted, posted>>

-----------------------------------------------------------------------------
(* Requests and screens. *)

Kinds == {"LogIN", "Register", "Resend", "Update"}
Idle  == [kind |-> "idle", vc |-> NoVC, customer |-> Unset, served |-> FALSE]
Request(kind, vc, customer) ==
  [kind |-> kind, vc |-> vc, customer |-> customer, served |-> FALSE]

InFlight(r) == request[r].kind # "idle"
\* Identities not standing for a pending answer nor for a spinner left behind.
FreeReqs == {r \in ReqIds : ~InFlight(r) /\ r \notin overlay}

\* Slip: the customer is not handed to the new view controller.
NewOtpVC_NoHandOver(customer, f) ==
  [CustomerID |-> Unset, sessionTimer |-> SessionSeconds, timerValid |-> TRUE,
   resendHidden |-> TRUE, labelHidden |-> TRUE, focused |-> f, resendFailed |-> FALSE]

\* Slip: OtpValidationInit leaves the resend button in view.
NewOtpVC_ButtonShown(customer, f) ==
  [CustomerID |-> customer, sessionTimer |-> SessionSeconds, timerValid |-> TRUE,
   resendHidden |-> FALSE, labelHidden |-> TRUE, focused |-> f, resendFailed |-> FALSE]

\* A fresh OTPVerificationVC after viewDidLoad: OtpValidationInit hides the
\* resend button and the label and starts the timer.  The view is not in a
\* window yet, so the keyboard may or may not come up (f).
NewOtpVC(customer, f) ==
  [CustomerID |-> customer, sessionTimer |-> SessionSeconds, timerValid |-> TRUE,
   resendHidden |-> TRUE, labelHidden |-> TRUE, focused |-> f, resendFailed |-> FALSE]
\* The slot of an instance that does not exist.
NilOtpVC ==
  [CustomerID |-> Unset, sessionTimer |-> 0, timerValid |-> FALSE,
   resendHidden |-> TRUE, labelHidden |-> TRUE, focused |-> FALSE, resendFailed |-> FALSE]

InStack(s) == \E i \in 1..Len(stack) : stack[i] = s
Shows(s)   == root = "nav" /\ stack # <<>> /\ stack[Len(stack)] = s
Push(s)    == stack' = Append(stack, s)
Pop        == stack' = SubSeq(stack, 1, Len(stack) - 1)

\* An instance is alive while the stack, its timer or a completion closure
\* retains it.
FreeOtpVCs == {v \in OtpVCs : /\ ~InStack(v) /\ ~otp[v].timerValid
                              /\ \A r \in ReqIds : request[r].vc # v}

\* Slip: a spinner that does not cover the window.
Touchable_NoSpinner == ~alert

\* Buttons and text fields receive touches only when nothing covers them.
Touchable == overlay = {} /\ ~alert

\* ShowAlert: UIKit refuses to present from a view controller whose view is not
\* in the window, and a second time over an alert already there.
ShowAlert(s) == alert' = (alert \/ Shows(s))

\* The window, its views, the timers and the closures go with the process.
Die == /\ root' = "none"
       /\ stack' = <<>>
       /\ otp' = [v \in OtpVCs |-> NilOtpVC]
       /\ request' = [r \in ReqIds |-> Idle]
       /\ overlay' = {}
       /\ alert' = FALSE

-----------------------------------------------------------------------------
(* What each completion handler makes of an answer:                         *)
(*   ok       status 200             toast    204, 400 or 401               *)
(*   alert    403 (and 422)          ignored  a status no branch mentions   *)
(*   failure  completion with false  silent   the handler does not run on   *)
(*   trap     dictionaryObject! of a body that is not an object             *)

\* Slip: the branch for 204 is missing.
ModelVerdict_No204(body, alerts) ==
  IF body.kind # "object" THEN "trap" ELSE
    CASE body.status = 200            -> "ok"
      [] body.status \in {400, 401}   -> "toast"
      [] body.status \in alerts       -> "alert"
      [] OTHER                        -> "ignored"

ModelVerdict(body, alerts) ==
  IF body.kind # "object" THEN "trap" ELSE
    CASE body.status = 200                 -> "ok"
      [] body.status \in {204, 400, 401}   -> "toast"
      [] body.status \in alerts            -> "alert"
      [] OTHER                             -> "ignored"

WrappedVerdict(c, alerts) ==
  CASE ~c.called              -> "silent"
    [] c.called /\ ~c.status  -> "failure"
    [] c.called /\ c.status   -> ModelVerdict(c.response, alerts)

\* Slip: the wrapper's status is taken for the answer's.
RegisterVerdict_AnyAnswer(http, body) ==
  IF responseData(http, body).status THEN "ok" ELSE "failure"

LoginVerdict(http, body)    == WrappedVerdict(responseData(http, body), {403})
RegisterVerdict(http, body) == WrappedVerdict(responseData(http, body), {403, 422})
ResendVerdict(http, body)   == WrappedVerdict(responseData(http, body), {403})

\* EditUserProfileMethod bypasses the wrapper: only HTTP 200 is looked at, and
\* an answer without data leaves the spinner where it is.
UpdateVerdict(http, body) ==
  CASE http # 200                          -> "failure"
    [] http = 200 /\ body.kind = "empty"   -> "silent"
    [] http = 200 /\ body.kind # "empty"   -> ModelVerdict(body, {403})

\* The answers the environment can give.  The one thing taken from the server:
\* it does not report status 200 for a request it has not carried out.
Answers(served) ==
  {a \in HttpCodes \X {x \in Bodies(Statuses) : x.kind \in AnswerKinds} : a[2].status = 200 => served}

\* The verdicts those answers provoke in each handler.
LoginVerdicts ==
  [served \in BOOLEAN |-> {LoginVerdict(a[1], a[2]) : a \in Answers(served)}]
RegisterVerdicts ==
  [served \in BOOLEAN |-> {RegisterVerdict(a[1], a[2]) : a \in Answers(served)}]
ResendVerdicts ==
  [served \in BOOLEAN |-> {ResendVerdict(a[1], a[2]) : a \in Answers(served)}]
UpdateVerdicts ==
  [served \in BOOLEAN |-> {UpdateVerdict(a[1], a[2]) : a \in Answers(served)}]
Verdicts(kind) ==
  CASE kind = "LogIN"    -> LoginVerdicts
    [] kind = "Register" -> RegisterVerdicts
    [] kind = "Resend"   -> ResendVerdicts
    [] kind = "Update"   -> UpdateVerdicts

-----------------------------------------------------------------------------
(* Issuing a request. *)

\* Slip: bar.show is forgotten.
Call_NoSpinner(r, req, outcome) ==
  /\ request' = IF outcome = "send" THEN [request EXCEPT ![r] = req] ELSE request
  /\ UNCHANGED overlay

\* bar.show, then the call: it is in flight, or it failed on the spot and hid
\* the spinner again, or its completion was dropped and the spinner stays.
Call(r, req, outcome) ==
  /\ request' = IF outcome = "send" THEN [request EXCEPT ![r] = req] ELSE request
  /\ overlay' = IF outcome = "fail" THEN overlay ELSE overlay \cup {r}

-----------------------------------------------------------------------------
(* AppDelegate. *)

\* didFinishLaunching / NavigationScreens: straight to the dashboard when the
\* flag is set; otherwise a second LounchScreenVC is pushed on the navigation
\* controller, whose storyboard root already is one.
NavigationScreens ==
  /\ root = "none"
  /\ IF defaults.IsUserLogIned
     THEN root' = "dashboard" /\ stack' = <<>>
     ELSE root' = "nav" /\ stack' = <<"Lounch", "Lounch">>
  /\ UNCHANGED <<otp, request, overlay, alert, defaults, accepted, posted>>

\* The system, or the user, ends the process between two handlers.
Kill == root # "none" /\ Die /\ UNCHANGED <<defaults, accepted, posted>>

-----------------------------------------------------------------------------
(* LounchScreenVC and TermaAndPolicyVC. *)

agreeContinueBtnref ==
  /\ Shows("Lounch") /\ Touchable
  /\ Push("Phone")
  /\ UNCHANGED <<root, otp, request, overlay, alert, defaults, accepted, posted>>

\* policyBtnref and termaBtnref differ in the title only.
policyBtnref ==
  /\ Shows("Lounch") /\ Touchable
  /\ Push("Terms")
  /\ UNCHANGED <<root, otp, request, overlay, alert, defaults, accepted, posted>>

TermsBackBtnref ==
  /\ Shows("Terms") /\ Touchable
  /\ Pop
  /\ UNCHANGED <<root, otp, request, overlay, alert, defaults, accepted, posted>>

DismissAlert ==
  /\ alert /\ alert' = FALSE
  /\ UNCHANGED <<root, stack, otp, request, overlay, defaults, accepted, posted>>

-----------------------------------------------------------------------------
(* PhoneNumberVerificationVC. *)

\* Submitbtnref with a number that passes validateSignupCredentials.
LoginApiCalling ==
  /\ Shows("Phone") /\ Touchable
  /\ \E r \in FreeReqs, net \in Nets :
       Call(r, Request("LogIN", NoVC, Unset), APIRequest("post", net))
  /\ UNCHANGED <<root, stack, otp, alert, defaults, accepted, posted>>

\* Submitbtnref with a number that does not: the alert of validateSignupCredentials.
SubmitInvalidNumber ==
  /\ Shows("Phone") /\ Touchable
  /\ ShowAlert("Phone")
  /\ UNCHANGED <<root, stack, otp, request, overlay, defaults, accepted, posted>>

\* CountryPickerView finds the navigation controller at the root of the window and
\* pushes its list there.  The navigation bar is hidden, so the list is left only by
\* choosing a country.
showCountriesList ==
  /\ Shows("Phone") /\ Touchable
  /\ Push("Countries")
  /\ UNCHANGED <<root, otp, request, overlay, alert, defaults, accepted, posted>>

didSelectRow ==
  /\ Shows("Countries") /\ Touchable
  /\ Pop
  /\ UNCHANGED <<root, otp, request, overlay, alert, defaults, accepted, posted>>

\* The closure passed to API_LogIN.  A body status no branch mentions leaves the
\* spinner on the screen: bar.hide is called inside the branches.
LoginCompletion(r) ==
  /\ request[r].kind = "LogIN"
  /\ request' = [request EXCEPT ![r] = Idle]
  /\ \E v \in LoginVerdicts[request[r].served] :
       \/ /\ v = "ok"
          /\ \E c \in CustomerIDs, vc \in FreeOtpVCs, f \in BOOLEAN :
               /\ defaults' = [defaults EXCEPT !.CustomerID = c]
               /\ otp' = [otp EXCEPT ![vc] = NewOtpVC(c, f)]
               /\ Push(vc)
          /\ overlay' = overlay \ {r}
          /\ UNCHANGED alert
       \/ /\ v \in {"toast", "failure"}
          /\ overlay' = overlay \ {r}
          /\ UNCHANGED <<stack, otp, defaults, alert>>
       \/ /\ v = "alert"
          /\ overlay' = overlay \ {r}
          /\ ShowAlert("Phone")
          /\ UNCHANGED <<stack, otp, defaults>>
       \/ /\ v \in {"silent", "ignored"}
          /\ UNCHANGED <<stack, otp, defaults, overlay, alert>>
  /\ UNCHANGED <<root, accepted, posted>>

-----------------------------------------------------------------------------
(* OTPVerificationVC. *)

backbtnref(vc) ==
  /\ Shows(vc) /\ Touchable
  /\ Pop
  /\ UNCHANGED <<root, otp, request, overlay, alert, defaults, accepted, posted>>

\* A field of the code view is tapped and takes the keyboard.
TapOtpField(vc) ==
  /\ Shows(vc) /\ Touchable
  /\ otp' = [otp EXCEPT ![vc].focused = TRUE]
  /\ UNCHANGED <<root, stack, request, overlay, alert, defaults, accepted, posted>>

\* The keystroke that completes a code: VPMOTPView moves the keyboard to the next
\* field or gives it up after the last, then calls enteredOTP, which verifies at
\* once.  Only the alert, not a spinner, keeps keystrokes away.
enteredOTP(vc) ==
  /\ Shows(vc) /\ otp[vc].focused /\ ~alert
  /\ \E f \in BOOLEAN : otp' = [otp EXCEPT ![vc].focused = f]
  /\ \E r \in FreeReqs, net \in Nets :
       LET outcome == APIRequest("post", net) IN
       /\ Call(r, Request("Register", vc, otp[vc].CustomerID), outcome)
       /\ posted' = IF outcome = "send" THEN posted \cup {otp[vc].CustomerID} ELSE posted
  /\ UNCHANGED <<root, stack, alert, defaults, accepted>>

\* Any other keystroke after which the code view has given the keyboard up.
KeyWithoutCode(vc) ==
  /\ Shows(vc) /\ otp[vc].focused /\ ~alert
  /\ otp' = [otp EXCEPT ![vc].focused = FALSE]
  /\ UNCHANGED <<root, stack, request, overlay, alert, defaults, accepted, posted>>

\* The closure passed to API_Register, up to its writes: UserDefaults after each
\* of them, in the order of the code.
RegisterWrites(d, key) ==
  << [d EXCEPT !.auth_key = key],
     [d EXCEPT !.auth_key = key, !.IsUserLogIned = TRUE] >>

\* initializeUI empties the fields and asks for the keyboard, which UIKit grants
\* only to a view in the window.
initializeUI(vc) == otp' = [otp EXCEPT ![vc].focused = @ \/ Shows(vc)]

RegisterCompletion(r) ==
  LET vc == request[r].vc IN
  /\ request[r].kind = "Register"
  /\ request' = [request EXCEPT ![r] = Idle]
  /\ \E v \in RegisterVerdicts[request[r].served] :
       \/ /\ v = "ok"
          /\ \E key \in {request[r].customer, NoKey} :
               defaults' = RegisterWrites(defaults, key)[2]
          /\ stack' = IF InStack(vc) THEN Append(stack, "Profile") ELSE stack
          /\ overlay' = overlay \ {r}
          /\ UNCHANGED <<otp, alert>>
       \/ /\ v = "toast"
          /\ initializeUI(vc)
          /\ overlay' = overlay \ {r}
          /\ UNCHANGED <<stack, defaults, alert>>
       \/ /\ v = "alert"
          /\ initializeUI(vc)
          /\ ShowAlert(vc)
          /\ overlay' = overlay \ {r}
          /\ UNCHANGED <<stack, defaults>>
       \/ /\ v \in {"failure", "ignored"}
          /\ overlay' = overlay \ {r}
          /\ UNCHANGED <<stack, otp, defaults, alert>>
       \/ /\ v = "silent"
          /\ UNCHANGED <<stack, otp, defaults, overlay, alert>>
  /\ UNCHANGED <<root, accepted, posted>>

\* The process is killed inside that closure, after its first write only.
KillInRegister(r) ==
  /\ request[r].kind = "Register"
  /\ "ok" \in RegisterVerdicts[request[r].served]
  /\ \E key \in {request[r].customer, NoKey} :
       defaults' = RegisterWrites(defaults, key)[1]
  /\ Die
  /\ UNCHANGED <<accepted, posted>>

\* ResendOtpbtnref hides the button before anything else.  API_Resend_OTP takes
\* the customer from UserDefaults, not from the view controller.
ResendOtpbtnref(vc) ==
  /\ Shows(vc) /\ Touchable /\ ~otp[vc].resendHidden
  /\ \E r \in FreeReqs, net \in Nets :
       LET outcome == APIRequest("get", net) IN
       /\ otp' = [otp EXCEPT ![vc] = [@ EXCEPT !.resendHidden = TRUE,
                                              !.resendFailed = (outcome # "send")]]
       /\ Call(r, Request("Resend", vc, defaults.CustomerID), outcome)
  /\ UNCHANGED <<root, stack, alert, defaults, accepted, posted>>

\* start schedules the timer only when none is running.
ResendCompletion(r) ==
  LET vc == request[r].vc IN
  /\ request[r].kind = "Resend"
  /\ request' = [request EXCEPT ![r] = Idle]
  /\ \E v \in ResendVerdicts[request[r].served] :
       \/ /\ v = "ok"
          /\ otp' = [otp EXCEPT ![vc] = [@ EXCEPT !.sessionTimer = SessionSeconds,
                                                 !.resendHidden = TRUE,
                                                 !.timerValid = TRUE]]
          /\ overlay' = overlay \ {r}
          /\ UNCHANGED alert
       \/ /\ v \in {"toast", "failure", "ignored"}
          /\ otp' = [otp EXCEPT ![vc].resendFailed = TRUE]
          /\ overlay' = overlay \ {r}
          /\ UNCHANGED alert
       \/ /\ v = "alert"
          /\ otp' = [otp EXCEPT ![vc].resendFailed = TRUE]
          /\ overlay' = overlay \ {r}
          /\ ShowAlert(vc)
       \/ /\ v = "silent"
          /\ otp' = [otp EXCEPT ![vc].resendFailed = TRUE]
          /\ UNCHANGED <<overlay, alert>>
  /\ UNCHANGED <<root, stack, defaults, accepted, posted>>

\* CallMebtnref goes to the profile without asking the server anything.
CallMebtnref(vc) ==
  /\ Shows(vc) /\ Touchable
  /\ Push("Profile")
  /\ UNCHANGED <<root, otp, request, overlay, alert, defaults, accepted, posted>>

\* Slip: the countdown does not stop at zero.
action_NoFloor(vc) ==
  /\ otp[vc].timerValid
  /\ otp' = [otp EXCEPT ![vc] = [@ EXCEPT !.sessionTimer = otp[vc].sessionTimer - 1,
                                         !.resendHidden = TRUE, !.labelHidden = FALSE]]
  /\ UNCHANGED <<root, stack, request, overlay, alert, defaults, accepted, posted>>

\* Slip: pause is not called.
action_NoPause(vc) ==
  /\ otp[vc].timerValid
  /\ otp' = [otp EXCEPT ![vc] =
                IF otp[vc].sessionTimer > 0
                THEN [@ EXCEPT !.sessionTimer = otp[vc].sessionTimer - 1,
                               !.resendHidden = TRUE, !.labelHidden = FALSE]
                ELSE [@ EXCEPT !.resendHidden = FALSE, !.labelHidden = TRUE]]
  /\ UNCHANGED <<root, stack, request, overlay, alert, defaults, accepted, posted>>

\* The one-second timer.  It fires for as long as it is valid, also for a view
\* controller that is no longer on the screen.
action(vc) ==
  /\ otp[vc].timerValid
  /\ otp' = [otp EXCEPT ![vc] =
                IF otp[vc].sessionTimer > 0
                THEN [@ EXCEPT !.sessionTimer = otp[vc].sessionTimer - 1,
                               !.resendHidden = TRUE, !.labelHidden = FALSE]
                ELSE [@ EXCEPT !.timerValid = FALSE,
                               !.resendHidden = FALSE, !.labelHidden = TRUE]]
  /\ UNCHANGED <<root, stack, request, overlay, alert, defaults, accepted, posted>>

-----------------------------------------------------------------------------
(* EditMyProfileVC. *)

\* Submitbtnref with a name.  The guard on the stored CustomerID returns early.
EditUserProfileMethod ==
  /\ Shows("Profile") /\ Touchable
  /\ \E r \in FreeReqs :
       Call(r, Request("Update", NoVC, defaults.CustomerID),
            IF defaults.CustomerID = Unset THEN "fail" ELSE "send")
  /\ UNCHANGED <<root, stack, otp, alert, defaults, accepted, posted>>

\* Submitbtnref without a name.
SubmitWithoutName ==
  /\ Shows("Profile") /\ Touchable
  /\ ShowAlert("Profile")
  /\ UNCHANGED <<root, stack, otp, request, overlay, defaults, accepted, posted>>

\* On status 200 a new window replaces the one that holds the navigation
\* controller, every spinner and every alert.
UpdateCompletion(r) ==
  /\ request[r].kind = "Update"
  /\ request' = [request EXCEPT ![r] = Idle]
  /\ \E v \in UpdateVerdicts[request[r].served] :
       \/ /\ v = "ok"
          /\ root' = "dashboard" /\ stack' = <<>> /\ overlay' = {} /\ alert' = FALSE
       \/ /\ v \in {"toast", "failure", "ignored"}
          /\ overlay' = overlay \ {r}
          /\ UNCHANGED <<root, stack, alert>>
       \/ /\ v = "alert"
          /\ overlay' = overlay \ {r}
          /\ ShowAlert("Profile")
          /\ UNCHANGED <<root, stack>>
       \/ /\ v = "silent"
          /\ UNCHANGED <<root, stack, overlay, alert>>
  /\ UNCHANGED <<otp, defaults, accepted, posted>>

-----------------------------------------------------------------------------
(* The server, and the traps. *)

\* The server carries the request out while its answer is awaited; it confirms a
\* code only for a customer it issued.  Its answer travels separately and may be lost.
Serve(r) ==
  /\ InFlight(r) /\ ~request[r].served
  /\ request[r].kind = "Register" => request[r].customer \in Customers
  /\ request' = [request EXCEPT ![r].served = TRUE]
  /\ accepted' = IF request[r].kind = "Register"
                 THEN accepted \cup {request[r].customer} ELSE accepted
  /\ UNCHANGED <<root, stack, otp, overlay, alert, defaults, posted>>

\* Or it carries a verification out when nobody waits for it any more: the request has
\* timed out, the process was killed, another customer may be signing in.
ServeLate(c) ==
  /\ c \in posted \cap Customers
  /\ accepted' = accepted \cup {c}
  /\ UNCHANGED <<root, stack, otp, request, overlay, alert, defaults, posted>>

\* response.dictionaryObject! on a body that is not an object ends the process.
Trap(r) ==
  /\ InFlight(r)
  /\ "trap" \in Verdicts(request[r].kind)[request[r].served]
  /\ Die
  /\ UNCHANGED <<defaults, accepted, posted>>

-----------------------------------------------------------------------------

Init ==
  /\ root = "none"
  /\ stack = <<>>
  /\ otp = [v \in OtpVCs |-> NilOtpVC]
  /\ request = [r \in ReqIds |-> Idle]
  /\ overlay = {}
  /\ alert = FALSE
  /\ defaults = [CustomerID |-> Unset, auth_key |-> Unset, IsUserLogIned |-> FALSE]
  /\ accepted = {} /\ posted = {}

Completion(r) ==
  \/ LoginCompletion(r)
  \/ RegisterCompletion(r)
  \/ ResendCompletion(r)
  \/ UpdateCompletion(r)

\* The touches that lead to a sign-in request, and to its number.
PhoneTouch ==
  \/ agreeContinueBtnref
  \/ showCountriesList
  \/ didSelectRow
  \/ LoginApiCalling
  \/ SubmitInvalidNumber

\* The other touches and keystrokes, but for the submission of the profile.
ScreenTouch ==
  \/ policyBtnref
  \/ TermsBackBtnref
  \/ DismissAlert
  \/ SubmitWithoutName
  \/ \E vc \in OtpVCs :
       \/ backbtnref(vc)
       \/ TapOtpField(vc)
       \/ enteredOTP(vc)
       \/ KeyWithoutCode(vc)
       \/ ResendOtpbtnref(vc)
       \/ CallMebtnref(vc)

\* The ways in which the process ends.
ProcessEnd ==
  \/ Kill
  \/ \E r \in ReqIds : KillInRegister(r) \/ Trap(r)

Next ==
  \/ NavigationScreens
  \/ PhoneTouch
  \/ ScreenTouch
  \/ EditUserProfileMethod
  \/ ProcessEnd
  \/ \E vc \in OtpVCs : action(vc)
  \/ \E r \in ReqIds : Completion(r) \/ Serve(r)
  \/ \E c \in Customers : ServeLate(c)

Spec == Init /\ [][Next]_vars

\* Alamofire answers every request in the end, if only with a timeout, and the
\* run loop fires a valid timer.  Nothing is assumed of the user or the server.
Fairness ==
  /\ \A r \in ReqIds : WF_vars(Completion(r))
  /\ \A vc \in OtpVCs : WF_vars(action(vc))

FairSpec == Spec /\ Fairness

-----------------------------------------------------------------------------
(* Properties. *)

RequestType ==
  [kind : Kinds \cup {"idle"}, vc : OtpVCs \cup {NoVC},
   customer : CustomerIDs \cup {Unset}, served : BOOLEAN]
OtpVCType ==
  [CustomerID : CustomerIDs \cup {Unset}, sessionTimer : 0..SessionSeconds,
   timerValid : BOOLEAN, resendHidden : BOOLEAN, labelHidden : BOOLEAN,
   focused : BOOLEAN, resendFailed : BOOLEAN]

\* Every variable keeps its type: screens on the stack, one record per
\* OTPVerificationVC and per request, the three UserDefaults keys.
TypeOK ==
  /\ root \in {"none", "nav", "dashboard"}
  /\ stack \in Seq(Screens)
  /\ otp \in [OtpVCs -> OtpVCType]
  /\ request \in [ReqIds -> RequestType]
  /\ overlay \subseteq ReqIds
  /\ alert \in BOOLEAN
  /\ defaults \in [CustomerID : CustomerIDs \cup {Unset},
                   auth_key : Customers \cup {DefaultID, NoKey, Unset},
                   IsUserLogIned : BOOLEAN]
  /\ accepted \subseteq Customers
  /\ posted \subseteq CustomerIDs \cup {Unset}

\* NavigationScreens trusts the stored flag at every launch.  Whenever it is
\* set, the server has confirmed a code for exactly the customer whose id is
\* stored, and the stored key was issued to that customer (or the answer had
\* none): also after a kill in the middle of the writes, and after codes typed
\* while earlier answers were still on their way.
FlagMeansConfirmed ==
  defaults.IsUserLogIned =>
    /\ defaults.CustomerID \in accepted
    /\ defaults.auth_key \in {defaults.CustomerID, NoKey}

\* The customer is kept in two places, OTPVerificationVC.CustomerID (used to
\* verify) and UserDefaults (used to resend and to update the profile).  They
\* agree for every code screen the user can come back to and every request in
\* flight, and a profile screen always finds a stored id.
CustomerAgrees ==
  /\ \A vc \in OtpVCs : InStack(vc) => otp[vc].CustomerID = defaults.CustomerID
  /\ \A r \in ReqIds : request[r].kind \in {"Register", "Resend", "Update"}
                         => request[r].customer = defaults.CustomerID
  /\ InStack("Profile") => defaults.CustomerID # Unset

\* A completion finds its screen where it left it: the navigationController? of
\* its pushes is never nil, although nothing cancels a request when a screen goes.
ScreenOutlivesRequest ==
  \A r \in ReqIds :
    CASE request[r].kind = "LogIN"  -> Shows("Phone")
      [] request[r].kind = "Update" -> Shows("Profile")
      [] request[r].kind \in {"Register", "Resend"} -> root = "nav" /\ InStack(request[r].vc)
      [] OTHER -> TRUE

\* The spinner lets keystrokes through, so several verifications can be pending,
\* but a sign-in or a profile update is always alone, and resends never overlap.
LoneRequests ==
  \A r, s \in ReqIds :
    r # s /\ InFlight(r) /\ InFlight(s) =>
      /\ {request[r].kind, request[s].kind} \subseteq {"Register", "Resend"}
      /\ "Register" \in {request[r].kind, request[s].kind}

\* Buttons stay covered for as long as any answer is pending.
PendingCovered == \A r \in ReqIds : InFlight(r) => r \in overlay

\* With answers the handlers provide for, a spinner is on the screen exactly
\* while its request is pending.
SpinnerIffPending == \A r \in ReqIds : r \in overlay <=> InFlight(r)

\* A spinner that no request stands behind (HTTP 401, no reachability object, an
\* update without data, a sign-in with an unknown status) stays in the flow and holds
\* it where it is: no sign-in and no profile update is pending under it, so customer
\* and number stay as they are until the process ends, and it never reaches the
\* dashboard or a new process.
SpinnerLeftBehind ==
  \A r \in overlay : ~InFlight(r) =>
    /\ root = "nav"
    /\ \A s \in ReqIds : request[s].kind \notin {"LogIN", "Update"}

\* The resend button is offered only when the countdown has run out and its timer
\* has stopped; the timer never stops before; and a code screen with neither
\* button nor running countdown is waiting for a resend or has seen one fail.
ResendOffered ==
  \A vc \in OtpVCs : InStack(vc) =>
    /\ ~otp[vc].resendHidden =>
         ~otp[vc].timerValid /\ otp[vc].sessionTimer = 0 /\ otp[vc].labelHidden
    /\ ~otp[vc].timerValid => otp[vc].sessionTimer = 0
    /\ otp[vc].resendHidden /\ ~otp[vc].timerValid =>
         \/ otp[vc].resendFailed
         \/ \E r \in ReqIds : request[r].kind = "Resend" /\ request[r].vc = vc

\* There is one way through the sign-in screens: the number; on top of it the country
\* list and nothing else, or one code screen, and then profile screens only.  In
\* particular nothing returns to the number or the code once a profile screen is
\* there, and no screen is ever pushed over the country list.
OneSignInPath ==
  \A i \in 1..Len(stack) :
    /\ i <= 2 => stack[i] = "Lounch"
    /\ i = 3  => stack[i] \in {"Terms", "Phone"}
    /\ i = 4  => stack[3] = "Phone" /\ stack[i] \in OtpVCs \cup {"Countries"}
    /\ i >= 5 => stack[4] \in OtpVCs /\ stack[i] = "Profile"

\* Signing in is for good: no step clears the flag or changes the stored customer
\* afterwards, neither a late answer nor a relaunch.
SignedInForGood ==
  [][defaults.IsUserLogIned =>
       defaults'.IsUserLogIned /\ defaults'.CustomerID = defaults.CustomerID]_vars

\* A spinner goes away: every request is answered, and every answer the handlers
\* provide for hides it.
SpinnerEnds == \A r \in ReqIds : (r \in overlay) ~> (r \notin overlay)

\* A countdown runs out, also on a screen that was left, which is what lets go
\* of the OTPVerificationVC its timer retains.
CountdownEnds == \A vc \in OtpVCs : otp[vc].timerValid ~> ~otp[vc].timerValid

\* What the code screen says (Main.storyboard:744): the verification is completed
\* by entering the code.  So a profile screen is reached only for a customer
\* whose code the server confirmed.  CallMebtnref pushes it without one.
ProfileAfterVerification ==
  InStack("Profile") => defaults.CustomerID \in accepted

-----------------------------------------------------------------------------
(* The inductive invariant behind the properties above, in parts. *)

\* The sign-in screens, and none of them without their navigation controller.
StackShape ==
  /\ OneSignInPath
  /\ root = "nav" => Len(stack) >= 2
  /\ root # "nav" => stack = <<>>

\* The place of the code screen in the stack.
CodeScreen == Len(stack) >= 4 /\ stack[4] \in OtpVCs

\* What a request in flight says of the screens, the stored customer, the spinner
\* and the server.
RequestShape ==
  \A r \in ReqIds : InFlight(r) =>
    /\ r \in overlay
    /\ root = "nav"
    /\ request[r].kind = "LogIN" => Len(stack) = 3 /\ stack[3] = "Phone"
    /\ request[r].kind = "Update" => Len(stack) >= 5
    /\ request[r].kind \in {"Register", "Resend"} => CodeScreen /\ request[r].vc = stack[4]
    /\ request[r].kind # "LogIN" => request[r].customer = defaults.CustomerID
    /\ request[r].kind = "Register" => request[r].customer \in posted
    /\ request[r].kind = "Register" /\ request[r].served => request[r].customer \in accepted

\* The code screen, at its place in the stack, is for the stored customer.
CustomerShape ==
  CodeScreen =>
    /\ otp[stack[4]].CustomerID = defaults.CustomerID
    /\ defaults.CustomerID \in CustomerIDs

\* Once the flag is set there is no way back to the code or the number.
FlagShape ==
  /\ FlagMeansConfirmed
  /\ defaults.IsUserLogIned /\ root = "nav" => Len(stack) >= 5

\* The state the whole flow keeps to, between any two handlers: where the screens,
\* the requests in flight, the stored customer, the flag and the server's record
\* stand to one another.
IInv == StackShape /\ RequestShape /\ LoneRequests /\ CustomerShape /\ FlagShape

-----------------------------------------------------------------------------
(* The abstract session this flow implements. *)

SessionPhase ==
  CASE defaults.IsUserLogIned -> "signedIn"
    [] ~defaults.IsUserLogIned /\ (\E vc \in OtpVCs : InStack(vc)) -> "challenged"
    [] OTHER -> "signedOut"

S == INSTANCE Session
       WITH phase <- SessionPhase, customer <- defaults.CustomerID,
            tried <- posted, confirmed <- accepted

\* Seen through the stored flag, the stored customer and the code screen, every
\* run of the app is a run of Session: a challenge per code screen, codes tried for
\* the customer of the challenge only, confirmations for customers that were tried,
\* and a session that opens only after one for its own customer.
ImplementsSession == S!Spec

=============================================================================
