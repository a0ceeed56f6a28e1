--------------------------- MODULE ApiCallsProofs ---------------------------
(***************************************************************************)
(* The API functions leave the sign-in flow as it is, so what SignInProofs   *)
(* proves of it holds next to them, and with it a call made in a signed-in   *)
(* session belongs to the customer of that session.  And no function of the  *)
(* catalogue drops its caller, but for the two gaps of the HTTP layer.       *)
(***************************************************************************)
EXTENDS ApiCalls, SignInProofs

\* An API function changes nothing of the sign-in flow, and a URL that cannot be
\* parsed ends the process as any other kill does.
LEMMA ComposedStep == [CNext]_cvars => [Next]_vars
<1> SUFFICES ASSUME [CNext]_cvars PROVE [Next]_vars
  OBVIOUS
<1>1. CASE SignInStep
  BY <1>1 DEF SignInStep
<1>2. CASE IssueBadURL
  BY <1>2 DEF IssueBadURL, Next, ProcessEnd, Kill
<1>3. CASE \E c \in CallIds : Issue(c) \/ Respond(c)
  BY <1>3 DEF Issue, Respond
<1>4. CASE UNCHANGED cvars
  BY <1>4 DEF cvars
<1> QED
  BY <1>1, <1>2, <1>3, <1>4 DEF CNext

\* The composition with the API functions is a sign-in flow: with all its calls
\* in flight it shows no behaviour of screens and UserDefaults that SignIn has not.
THEOREM CallsKeepSignIn == CSpec => Spec
<1>1. CInit => Init
  BY DEF CInit
<1>2. [CNext]_cvars => [Next]_vars
  BY ComposedStep
<1> QED
  BY <1>1, <1>2, PTL DEF CSpec, Spec

-----------------------------------------------------------------------------
(* Types. *)

LEMMA PhaseType ==
  ASSUME NEW api \in Callable, NEW net \in Nets
  PROVE  PhaseAfter(Dispatch(api, net)) \in {"inFlight", "told", "dropped"}
<1>1. isNetworkAvailable(net) \in {"yes", "no", "never"}
  BY DEF isNetworkAvailable
<1>2. Dispatch(api, net) \in {"send", "fail", "never"}
  BY <1>1 DEF Dispatch, Upload, APIRequest
<1> QED
  BY <1>2 DEF PhaseAfter

LEMMA CallableVia == \A api \in Callable : api.via \in {"APIRequest", "upload"}
<1>1. \A x \in Catalogue : x.via \in {"APIRequest", "upload"}
  <2>1. \A m, u, n : \A x \in Requests(m, u, n) : x.via = "APIRequest"
    BY DEF Requests
  <2>2. \A n : \A x \in Uploads(n) : x.via = "upload"
    BY DEF Uploads
  <2> QED
    BY <2>1, <2>2 DEF Catalogue, BrowseApis, SignInOutApis, ResendAndSearchApis,
       SellerShopSearchApis, SuggestionApis, VarietyApis, SellerShopApis, AddressApis,
       FaqApis, TicketApis, SupportApis, RatingApis, OrderListApis, FavouriteApis,
       CallApis, ProfileApis, SummaryApis, OfferApis, PaymentApis, OrderChangeApis,
       CartItemApis, CartOrderApis, QuickViewApis
<1> QED
  BY <1>1 DEF Callable

LEMMA NewCallType ==
  ASSUME TypeOK, NEW api \in Callable,
         NEW phase \in {"inFlight", "told", "dropped"}
  PROVE  NewCall(api, phase) \in CallRecord
<1>1. Stored(defaults.CustomerID) \in CustomerIDs \cup {NoKey}
  BY DEF TypeOK, Stored
<1>2. Stored(defaults.auth_key) \in CustomerIDs \cup {NoKey}
  BY DEF TypeOK, Stored, CustomerIDs
<1>3. defaults.IsUserLogIned \in BOOLEAN
  BY DEF TypeOK
<1> QED
  BY <1>1, <1>2, <1>3, CallableVia DEF NewCall, CallRecord

LEMMA CallsTypeStep == TypeOK /\ CallsTypeOK /\ [CNext]_cvars => CallsTypeOK'
<1> SUFFICES ASSUME TypeOK, CallsTypeOK, [CNext]_cvars PROVE CallsTypeOK'
  OBVIOUS
<1>0. NoCalls \in [CallIds -> CallRecord]
  BY DEF NoCalls, NoCall, CallRecord
<1>1. CASE SignInStep
  BY <1>0, <1>1 DEF SignInStep, CallsTypeOK
<1>2. CASE IssueBadURL
  BY <1>0, <1>2 DEF IssueBadURL, CallsTypeOK
<1>3. ASSUME NEW c \in CallIds, Issue(c) PROVE CallsTypeOK'
  <2>1. PICK api \in Callable, net \in Nets :
          calls' = [calls EXCEPT ![c] = NewCall(api, PhaseAfter(Dispatch(api, net)))]
    BY <1>3 DEF Issue
  <2>2. NewCall(api, PhaseAfter(Dispatch(api, net))) \in CallRecord
    BY PhaseType, NewCallType
  <2> QED
    BY <2>1, <2>2 DEF CallsTypeOK
<1>4. ASSUME NEW c \in CallIds, Respond(c) PROVE CallsTypeOK'
  <2>1. PICK p \in {"told", "dropped"} : calls' = [calls EXCEPT ![c].phase = p]
    BY <1>4 DEF Respond
  <2> QED
    BY <2>1 DEF CallsTypeOK, CallRecord
<1>5. CASE UNCHANGED cvars
  BY <1>5 DEF cvars, CallsTypeOK
<1> QED
  BY <1>1, <1>2, <1>3, <1>4, <1>5 DEF CNext

\* Every call keeps its type, and no header carries a missing key as such.
THEOREM CallsTypeCorrect == CSpec => []CallsTypeOK
<1>1. CInit => CallsTypeOK
  BY DEF CInit, NoCalls, NoCall, CallsTypeOK, CallRecord
<1> QED
  BY <1>1, CallsTypeStep, CallsKeepSignIn, TypeCorrect, PTL DEF CSpec

-----------------------------------------------------------------------------
(* A call belongs to the customer of its session. *)

\* What SignInProofs shows of every step of the sign-in flow.
SessionKept ==
  defaults.IsUserLogIned =>
    /\ defaults'.IsUserLogIned
    /\ defaults'.CustomerID = defaults.CustomerID

LEMMA CallsOfOneCustomerStep ==
  TypeOK /\ CallsTypeOK /\ FlagMeansConfirmed /\ FlagMeansConfirmed' /\ CallsOfOneCustomer
    /\ [CNext]_cvars /\ (SessionKept \/ UNCHANGED vars)
    => CallsOfOneCustomer'
<1> SUFFICES ASSUME TypeOK, CallsTypeOK, FlagMeansConfirmed, FlagMeansConfirmed',
                    CallsOfOneCustomer, [CNext]_cvars, SessionKept \/ UNCHANGED vars
             PROVE  CallsOfOneCustomer'
  OBVIOUS
<1>0. SessionKept
  BY DEF SessionKept, vars
<1> SUFFICES ASSUME NEW d \in CallIds, calls'[d].phase = "inFlight", calls'[d].signedIn
             PROVE  /\ defaults'.IsUserLogIned
                    /\ defaults'.CustomerID \in accepted'
                    /\ calls'[d].customer \in {defaults'.CustomerID, NoCustomer}
                    /\ calls'[d].key \in {defaults'.CustomerID, NoKey}
  BY DEF CallsOfOneCustomer
<1>1. ASSUME calls'[d] = calls[d]
      PROVE  /\ defaults'.IsUserLogIned
             /\ defaults'.CustomerID \in accepted'
             /\ calls'[d].customer \in {defaults'.CustomerID, NoCustomer}
             /\ calls'[d].key \in {defaults'.CustomerID, NoKey}
  BY <1>0, <1>1 DEF CallsOfOneCustomer, SessionKept, FlagMeansConfirmed
<1>2. CASE calls' = NoCalls
  BY <1>2 DEF NoCalls, NoCall
<1>3. ASSUME NEW c \in CallIds, Issue(c), c = d
      PROVE  /\ defaults'.IsUserLogIned
             /\ defaults'.CustomerID \in accepted'
             /\ calls'[d].customer \in {defaults'.CustomerID, NoCustomer}
             /\ calls'[d].key \in {defaults'.CustomerID, NoKey}
  <2>1. PICK api \in Callable, net \in Nets :
          calls' = [calls EXCEPT ![d] = NewCall(api, PhaseAfter(Dispatch(api, net)))]
    BY <1>3 DEF Issue
  <2>2. calls'[d] = NewCall(api, PhaseAfter(Dispatch(api, net)))
    BY <2>1 DEF CallsTypeOK
  <2>3. defaults' = defaults /\ accepted' = accepted
    BY <1>3 DEF Issue, vars
  <2>4. /\ defaults.IsUserLogIned
        /\ calls'[d].customer \in {Stored(defaults.CustomerID), NoCustomer}
        /\ calls'[d].key = Stored(defaults.auth_key)
    BY <2>2 DEF NewCall
  <2>5. defaults.CustomerID \in accepted /\ defaults.auth_key \in {defaults.CustomerID, NoKey}
    BY <2>4 DEF FlagMeansConfirmed
  <2>6. defaults.CustomerID # Unset /\ NoKey # Unset
    BY <2>5, CustomersAssumption DEF TypeOK, NoKey, Unset
  <2> QED
    BY <2>3, <2>4, <2>5, <2>6 DEF Stored
<1>4. ASSUME NEW c \in CallIds, Respond(c), c = d PROVE FALSE
  <2>1. PICK p \in {"told", "dropped"} : calls' = [calls EXCEPT ![d].phase = p]
    BY <1>4 DEF Respond
  <2>2. calls'[d].phase = p
    BY <2>1 DEF CallsTypeOK, CallRecord
  <2> QED
    BY <2>2
<1>5. ASSUME NEW c \in CallIds, Issue(c) \/ Respond(c), c # d PROVE calls'[d] = calls[d]
  BY <1>5 DEF Issue, Respond, CallsTypeOK
<1>6. SignInStep \/ IssueBadURL \/ UNCHANGED cvars => calls' = NoCalls \/ calls' = calls
  BY DEF SignInStep, IssueBadURL, cvars
<1> QED
  BY <1>1, <1>2, <1>3, <1>4, <1>5, <1>6 DEF CNext

\* A call made in a signed-in session names and authenticates the one customer whose
\* code the server confirmed, and is answered in that customer's session.
THEOREM CallsCorrect == CSpec => []CallsOfOneCustomer
<1>1. CInit => CallsOfOneCustomer
  BY DEF CInit, NoCalls, NoCall, CallsOfOneCustomer
<1>2. [defaults.IsUserLogIned =>
         defaults'.IsUserLogIned /\ defaults'.CustomerID = defaults.CustomerID]_vars
        => SessionKept \/ UNCHANGED vars
  BY DEF SessionKept
<1> QED
  BY <1>1, <1>2, CallsOfOneCustomerStep, CallsTypeCorrect, CallsKeepSignIn, TypeCorrect,
     FlagCorrect, SignedInCorrect, PTL DEF CSpec, SignedInForGood
-----------------------------------------------------------------------------
(* No call is dropped, where reachability answers and HTTP 401 does not occur.
   Both hypotheses are needed: isNetworkAvailable has no else branch for a missing
   reachability object, and responseData's branch for 401 is empty.               *)

LEMMA CallableMethod == \A api \in Callable : api.method \in {"post", "get"}
<1>1. \A x \in Catalogue : x.method \in {"post", "get"}
  <2>1. \A u, n : /\ \A x \in Requests("get", u, n) : x.method = "get"
                  /\ \A x \in Requests("post", u, n) : x.method = "post"
    BY DEF Requests
  <2>2. \A n : \A x \in Uploads(n) : x.method = "post"
    BY DEF Uploads
  <2> QED
    BY <2>1, <2>2 DEF Catalogue, BrowseApis, SignInOutApis, ResendAndSearchApis,
       SellerShopSearchApis, SuggestionApis, VarietyApis, SellerShopApis, AddressApis,
       FaqApis, TicketApis, SupportApis, RatingApis, OrderListApis, FavouriteApis,
       CallApis, ProfileApis, SummaryApis, OfferApis, PaymentApis, OrderChangeApis,
       CartItemApis, CartOrderApis, QuickViewApis
<1> QED
  BY <1>1 DEF Callable

\* Both routes agree: every method the catalogue uses is one APIRequest switches on,
\* and the copies in the upload functions decide alike.
LEMMA EveryCallDispatched ==
  ASSUME "nil" \notin Nets, NEW api \in Callable, NEW net \in Nets
  PROVE  PhaseAfter(Dispatch(api, net)) \in {"inFlight", "told"}
<1>1. isNetworkAvailable(net) \in {"yes", "no"}
  BY NetsAssumption DEF NetStatuses, isNetworkAvailable
<1>2. Dispatch(api, net) \in {"send", "fail"}
  BY <1>1, CallableMethod DEF Dispatch, Upload, APIRequest
<1> QED
  BY <1>2 DEF PhaseAfter

LEMMA EveryAnswerTold ==
  ASSUME NEW http, http # 401, NEW body PROVE responseData(http, body).called
BY DEF responseData, Completed

LEMMA NoCallDroppedStep ==
  ASSUME "nil" \notin Nets, 401 \notin HttpCodes,
         CallsTypeOK, NoCallDropped, [CNext]_cvars
  PROVE  NoCallDropped'
<1> SUFFICES ASSUME NEW d \in CallIds PROVE calls'[d].phase # "dropped"
  BY DEF NoCallDropped
<1>1. CASE calls'[d] = calls[d]
  BY <1>1 DEF NoCallDropped
<1>2. CASE calls' = NoCalls
  BY <1>2 DEF NoCalls, NoCall
<1>3. ASSUME Issue(d) PROVE calls'[d].phase # "dropped"
  <2>1. PICK api \in Callable, net \in Nets :
          calls' = [calls EXCEPT ![d] = NewCall(api, PhaseAfter(Dispatch(api, net)))]
    BY <1>3 DEF Issue
  <2>2. calls'[d].phase = PhaseAfter(Dispatch(api, net))
    BY <2>1 DEF CallsTypeOK, NewCall
  <2> QED
    BY <2>2, EveryCallDispatched
<1>4. ASSUME Respond(d) PROVE calls'[d].phase # "dropped"
  <2>1. PICK http \in HttpCodes, body \in {x \in Bodies(Statuses) : x.kind \in AnswerKinds} :
          calls' = [calls EXCEPT ![d].phase =
                      IF responseData(http, body).called THEN "told" ELSE "dropped"]
    BY <1>4 DEF Respond
  <2>2. responseData(http, body).called
    BY EveryAnswerTold
  <2> QED
    BY <2>1, <2>2 DEF CallsTypeOK, CallRecord
<1>5. ASSUME NEW c \in CallIds, Issue(c) \/ Respond(c), c # d PROVE calls'[d] = calls[d]
  BY <1>5 DEF Issue, Respond, CallsTypeOK
<1>6. SignInStep \/ IssueBadURL \/ UNCHANGED cvars => calls' = NoCalls \/ calls' = calls
  BY DEF SignInStep, IssueBadURL, cvars
<1> QED
  BY <1>1, <1>2, <1>3, <1>4, <1>5, <1>6 DEF CNext

\* Where reachability answers and no answer carries HTTP 401, the closure of every
\* API function runs, or waits for an answer in flight: whichever function is
\* called, on whichever route, whatever the server says.
THEOREM NoCallDroppedCorrect ==
  ASSUME "nil" \notin Nets, 401 \notin HttpCodes
  PROVE  CSpec => []NoCallDropped
<1>1. CInit => NoCallDropped
  BY DEF CInit, NoCalls, NoCall, NoCallDropped
<1>2. CallsTypeOK /\ NoCallDropped /\ [CNext]_cvars => NoCallDropped'
  BY NoCallDroppedStep
<1> QED
  BY <1>1, <1>2, CallsTypeCorrect, PTL DEF CSpec
=============================================================================
