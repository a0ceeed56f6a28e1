------------------------------- MODULE ApiCalls -------------------------------
(***************************************************************************)
(* The API functions of Sources/Wrapping_APIs.swift, running next to the     *)
(* sign-in flow.  Each reads CustomerID, client_service and auth_key from    *)
(* UserDefaults when it is called, and then either hands over to APIRequest  *)
(* or repeats it with a multipart upload; its caller's completion closure    *)
(* runs when responseData calls it, whatever has been written to UserDefaults *)
(* since.  Apart from URL and form fields the functions of one shape are the *)
(* same text, so an API is its name and its shape.                           *)
(*                                                                         *)
(* The screens that used most of them are not in this repository: a call can *)
(* come from any screen.  API_LogIN, API_Register and API_Resend_OTP are     *)
(* called by SignIn's own actions and by nobody else.                        *)
(***************************************************************************)
EXTENDS SignIn

CONSTANT CallIds   \* identities for the calls whose outcome is of interest

VARIABLE calls     \* the last call made under each identity

cvars == <<vars, calls>>

-----------------------------------------------------------------------------
(* The catalogue.  A URL is fixed, or put together from the stored customer  *)
(* id, from the caller's arguments, or from both.                           *)

Requests(method, url, names) ==
  {[name |-> n, via |-> "APIRequest", method |-> method, url |-> url] : n \in names}
Uploads(names) ==
  {[name |-> n, via |-> "upload", method |-> "post", url |-> {}] : n \in names}

BrowseApis ==
  Requests("get", {}, {"API_CITY_LIST", "API_Filter_Data_LIST"})
    \cup Requests("get", {"argument"}, {"API_Sub_Catogory_Home_Data_LIST"})
    \cup Uploads({"API_Home_Data_LIST"})
SignInOutApis ==
  Requests("post", {}, {"API_LogIN", "API_Register"})
    \cup Requests("get", {"argument"}, {"API_Sub_Catogory_Colors_Data_LIST"})
    \cup Uploads({"API_LogOut"})
ResendAndSearchApis ==
  Requests("get", {"customer"}, {"API_Resend_OTP"})
    \cup Requests("post", {}, {"Customer_Edit_Personal_Address_Details_Capturing_API"})
    \cup Requests("post", {"argument"}, {"API_Search_Products"})
    \cup Uploads({"API_CountCart_Method"})
SellerShopSearchApis ==
  Requests("post", {"argument"}, {"API_Search_Via_Search_Screen_Products"})
    \cup Uploads({"API_Seller_Shop_Product_Bysearch_List", "API_Seller_Shop_Product_List"})
SuggestionApis ==
  Requests("get", {}, {"API_sugitionsList_LIST"})
    \cup Requests("get", {"customer", "argument"}, {"API_ProductPreview_Data_LIST"})
    \cup Uploads({"API_SellerShopsugitionsList_LIST"})
VarietyApis ==
  Uploads({"API_SellerShopSubCategoryVerityDetails_Data_LIST",
           "API_AddingSameItemToTheCartAgainApiCalling"})
SellerShopApis ==
  Requests("get", {"customer", "argument"},
           {"API_GetAllCatogiryListSellerShop_Data_LIST", "API_Get_Seller_Shop_Details_Data_LIST"})
    \cup Uploads({"API_AddingItemToTheCartApiCalling_LIST"})
AddressApis ==
  Requests("get", {"customer"}, {"API_Saved_Address_Data_LIST",
           "API_Get_Fevarate_Product_LIST", "API_Get_Fevarate_Seller_LIST"})
    \cup Requests("get", {"customer", "argument"},
           {"API_Mark_As_Default_Address_LIST", "API_Delete_Address_LIST"})
FaqApis ==
  Uploads({"API_GetMyOrdersDetailsMethod", "API_GetFAQDetailsMethod_Method", "API_GETFAQ_LIST_Method"})
TicketApis ==
  Uploads({"API_GetSellerAllReviews_LIST", "API_ReOpen_Ticket", "API_GiveFeedBackToExistingTicket"})
SupportApis ==
  Uploads({"API_GetRaisedTicket_LIST", "API_GetSupportDetailsMethod_LIST", "API_RatingsAndReviews_LIST"})
RatingApis ==
  Uploads({"API_MYBillsListModel_LIST", "API_SubMitSellerRating_LIST", "API_SellersFromCities_LIST"})
OrderListApis ==
  Uploads({"API_GetFeedBackAndSellers_LIST", "API_MYOrdersListModel_LIST", "API_Delete_ProfilePic_LIST"})
FavouriteApis ==
  Requests("get", {"customer", "argument"}, {"API_Add_Fevarate_Seller_LIST",
           "API_Add_Fevarate_Seller_Product_LIST", "API_Saved_Address_Details_Data_LIST"})
    \cup Uploads({"API_AcceptingCalling"})
CallApis ==
  Uploads({"API_EndCallAudio_VideoCall", "API_GetAudio_VideoCallTokens", "API_Get_Chat_Details"})
ProfileApis ==
  Uploads({"API_Update_Profile_Details", "API_Get_Profile_Details", "API_Get_Cart_Details"})
SummaryApis ==
  Uploads({"API_Back_from_Product_Summary_Details", "API_Product_Summary_Details",
           "API_GetRewardsListApiMethod_Calling"})
OfferApis ==
  Uploads({"API_GetOffersApiMethodCalling", "API_Redeem_Btn_Method", "API_Place_Order_Method"})
PaymentApis ==
  Uploads({"API_select_Payment_Method", "API_EditgetCartDeatils", "API_getReferralCodeCintent_Details"})
OrderChangeApis ==
  Uploads({"API_DeliveryStatusChangeApiCalling_Details", "API_Cancel_Item_From_Myorders_Details",
           "API_Remove_Item_From_Cart_Details"})
CartItemApis ==
  Uploads({"API_RemoveSingleItemApiCalling", "API_EditSingleItemApiCalling",
           "API_Get_Conformation_For_SingleProduct_InCart"})
CartOrderApis ==
  Uploads({"API_PlaceOrder_For_SingleProduct_InCart", "API_Mode_Of_transportation_ToCart",
           "API_PlaceOrder_For_MultipulProduct_InCart"})
QuickViewApis ==
  Uploads({"API_QwickView_InCart", "API_SubMitModeOfTransportation_InCart"})

Catalogue == UNION
  {BrowseApis, SignInOutApis, ResendAndSearchApis, SellerShopSearchApis, SuggestionApis,
   VarietyApis, SellerShopApis, AddressApis, FaqApis, TicketApis, SupportApis, RatingApis,
   OrderListApis, FavouriteApis, CallApis, ProfileApis, SummaryApis, OfferApis, PaymentApis,
   OrderChangeApis, CartItemApis, CartOrderApis, QuickViewApis}

\* The shapes of the functions the sign-in flow leaves to others.
Callable ==
  {[via |-> api.via, method |-> api.method, url |-> api.url] :
     api \in {x \in Catalogue : x.name \notin {"API_LogIN", "API_Register", "API_Resend_OTP"}}}

-----------------------------------------------------------------------------
(* Making a call. *)

NoCustomer == "noCustomer"   \* the URL names no customer
NoCall ==
  [via |-> "none", customer |-> NoCustomer, key |-> NoKey, signedIn |-> FALSE, phase |-> "idle"]
NoCalls == [c \in CallIds |-> NoCall]

\* Slip: a missing key of UserDefaults is used as it is.
Stored_Nil(v) == v

\* A missing key of UserDefaults is sent as the empty string.
Stored(v) == IF v = Unset THEN NoKey ELSE v

\* Slip: no else branch, so the caller of an upload is not told.
Upload_NoElse(net) == IF isNetworkAvailable(net) = "yes" THEN "send" ELSE "never"

\* The upload functions' own copy of APIRequest.
Upload(net) ==
  CASE isNetworkAvailable(net) = "yes"   -> "send"
    [] isNetworkAvailable(net) = "no"    -> "fail"
    [] isNetworkAvailable(net) = "never" -> "never"

Dispatch(api, net) ==
  IF api.via = "upload" THEN Upload(net) ELSE APIRequest(api.method, net)

\* What a call carries; signedIn remembers in which kind of session it was made.
NewCall(api, phase) ==
  [via |-> api.via,
   customer |-> IF "customer" \in api.url THEN Stored(defaults.CustomerID) ELSE NoCustomer,
   key |-> Stored(defaults.auth_key),
   signedIn |-> defaults.IsUserLogIned,
   phase |-> phase]

PhaseAfter(outcome) ==
  CASE outcome = "send"  -> "inFlight"
    [] outcome = "fail"  -> "told"
    [] outcome = "never" -> "dropped"

Issue(c) ==
  /\ root # "none" /\ calls[c].phase # "inFlight"
  /\ \E api \in Callable, net \in Nets :
       calls' = [calls EXCEPT ![c] = NewCall(api, PhaseAfter(Dispatch(api, net)))]
  /\ UNCHANGED vars

\* URL(string:)! on a caller's argument that does not belong in a URL ends the
\* process, though only when the network is reachable; an upload has no such URL.
IssueBadURL ==
  /\ root # "none"
  /\ \E api \in Callable, net \in Nets :
       "argument" \in api.url /\ api.via = "APIRequest" /\ Dispatch(api, net) = "send"
  /\ Die
  /\ calls' = NoCalls
  /\ UNCHANGED <<defaults, accepted, posted>>

\* The answer, on either route through responseData.
Respond(c) ==
  /\ calls[c].phase = "inFlight"
  /\ \E http \in HttpCodes, body \in {x \in Bodies(Statuses) : x.kind \in AnswerKinds} :
       calls' = [calls EXCEPT ![c].phase =
                   IF responseData(http, body).called THEN "told" ELSE "dropped"]
  /\ UNCHANGED vars

\* A step of the sign-in flow; calls end with the process.
SignInStep == Next /\ calls' = IF root' = "none" THEN NoCalls ELSE calls

CInit == Init /\ calls = NoCalls

CNext ==
  \/ SignInStep
  \/ IssueBadURL
  \/ \E c \in CallIds : Issue(c) \/ Respond(c)

CSpec == CInit /\ [][CNext]_cvars

\* Alamofire answers every request and every upload in the end.
CFairSpec == CSpec /\ \A c \in CallIds : WF_cvars(Respond(c))

-----------------------------------------------------------------------------
(* Properties. *)

CallRecord ==
  [via : {"none", "APIRequest", "upload"},
   customer : CustomerIDs \cup {NoKey, NoCustomer},
   key : CustomerIDs \cup {NoKey},
   signedIn : BOOLEAN,
   phase : {"idle", "inFlight", "told", "dropped"}]

\* Every call has its type; a header never carries the absence of a key.
CallsTypeOK == calls \in [CallIds -> CallRecord]

\* A call made in a signed-in session names and authenticates one customer, whose
\* code the server confirmed, and its answer arrives in the session of that very
\* customer, whatever sign-in completions, kills and relaunches come in between.
CallsOfOneCustomer ==
  \A c \in CallIds : calls[c].phase = "inFlight" /\ calls[c].signedIn =>
    /\ defaults.IsUserLogIned
    /\ defaults.CustomerID \in accepted
    /\ calls[c].customer \in {defaults.CustomerID, NoCustomer}
    /\ calls[c].key \in {defaults.CustomerID, NoKey}

\* With a reachability object and without HTTP 401 no caller is left without an
\* answer, on either route.
NoCallDropped == \A c \in CallIds : calls[c].phase # "dropped"

\* And a caller is told in the end, unless the process ends first.
CallerTold ==
  \A c \in CallIds : (calls[c].phase = "inFlight") ~> (calls[c].phase \in {"told", "idle"})
=============================================================================
