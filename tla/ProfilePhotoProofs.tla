-------------------------- MODULE ProfilePhotoProofs --------------------------
(***************************************************************************)
(* The photo of EditMyProfileVC, for any photos, any customers, code screens  *)
(* and requests and any answers of the network: the picker is alone on its    *)
(* profile screen, and the photo that was picked is the one that is uploaded. *)
(***************************************************************************)
EXTENDS ProfilePhoto, SignInProofs

-----------------------------------------------------------------------------
(* The picker. *)

\* Without a camera, showAlert comes from the profile screen, as the alert of a
\* submission without a name does: nothing covers that screen then.
LEMMA PhotoStep ==
  ASSUME PickerAlone, [HNext]_hvars PROVE [Next]_vars
<1>1. CASE openCamera
  <2>1. CASE alert' = alert
    BY <1>1, <2>1 DEF openCamera, vars
  <2>2. CASE ShowAlert(stack[modal.opener])
    <3>1. Shows("Profile") /\ Touchable /\ stack[modal.opener] = "Profile"
      BY <1>1 DEF openCamera, PickerAlone, Shows, Touchable
    <3>2. SubmitWithoutName
      BY <1>1, <2>2, <3>1 DEF openCamera, SubmitWithoutName
    <3> QED
      BY <3>2 DEF Next, ScreenTouch
  <2> QED
    BY <1>1, <2>1, <2>2 DEF openCamera
<1>2. CASE pickImage \/ openGallery \/ CancelPicking \/ didFinishPickingMediaWithInfo
  BY <1>2 DEF pickImage, openGallery, CancelPicking, didFinishPickingMediaWithInfo
<1>3. CASE UploadProfile \/ OtherTouch \/ Background \/ UNCHANGED hvars
  BY <1>3 DEF UploadProfile, OtherTouch, Background, hvars, Next
<1> QED
  BY <1>1, <1>2, <1>3 DEF HNext

LEMMA PickerInit == HInit => PickerAlone
BY DEF HInit, NoModal, PickerAlone

\* A sheet or a picker comes up over a profile screen that nothing covers, and
\* while it is up no completion can run: there is nothing to complete.
LEMMA PickerStep ==
  ASSUME TypeOK, IInv, PickerAlone, [HNext]_hvars PROVE PickerAlone'
<1>1. CASE pickImage
  <2>1. \A r \in ReqIds : ~InFlight(r)
    BY <1>1, NothingPending DEF pickImage
  <2> QED
    BY <1>1, <2>1 DEF pickImage, Presents, PickerAlone, NoModal, Touchable, Shows, InFlight, vars
<1>2. CASE openGallery
  BY <1>2 DEF openGallery, Presents, PickerAlone, NoModal, Shows, InFlight, vars
<1>3. CASE openCamera
  BY <1>3 DEF openCamera, Presents, PickerAlone, NoModal, Shows, InFlight
<1>4. CASE modal' = NoModal
  BY <1>4 DEF NoModal, PickerAlone
<1>5. CASE modal' = modal /\ modal.kind = "none"
  BY <1>5 DEF PickerAlone
<1>6. CASE Background /\ modal' = modal /\ modal.kind # "none"
  <2>1. root = "nav" /\ \A r \in ReqIds : ~InFlight(r)
    BY <1>6 DEF PickerAlone, Shows
  <2>2. root' = "nav"
    BY <1>6 DEF Background, PhotosFollow, NoModal
  <2>3. ~NavigationScreens /\ ~ProcessEnd
    BY <2>1, <2>2 DEF NavigationScreens, ProcessEnd, Kill, KillInRegister, Trap, Die
  <2>4. \A r \in ReqIds : ~Completion(r) /\ ~Serve(r)
    BY <2>1 DEF Completion, LoginCompletion, RegisterCompletion, ResendCompletion,
       UpdateCompletion, Serve, InFlight
  <2>5. (\E vc \in OtpVCs : action(vc)) \/ (\E c \in Customers : ServeLate(c))
    BY <1>6, <2>3, <2>4 DEF Background
  <2>6. UNCHANGED <<root, stack, request, overlay, alert>>
    BY <2>5 DEF action, ServeLate
  <2> QED
    BY <1>6, <2>6 DEF PickerAlone, Shows, InFlight
<1>7. CASE UNCHANGED hvars
  BY <1>7 DEF hvars, vars, photoVars, PickerAlone, Shows, InFlight
<1> QED
  BY <1>1, <1>2, <1>3, <1>4, <1>5, <1>6, <1>7
  DEF HNext, CancelPicking, didFinishPickingMediaWithInfo, UploadProfile, OtherTouch,
      Background, PhotosFollow

LEMMA PhotoInductive == HSpec => [](TypeOK /\ IInv /\ PickerAlone)
<1>1. HInit => TypeOK /\ IInv /\ PickerAlone
  BY TypeInit, IInvInit, PickerInit DEF HInit
<1>2. TypeOK /\ IInv /\ PickerAlone /\ [HNext]_hvars => TypeOK' /\ IInv' /\ PickerAlone'
  BY PhotoStep, TypeStep, IInvStep, PickerStep
<1> QED
  BY <1>1, <1>2, PTL DEF HSpec

\* While the sheet or the picker is up nothing is pending and nothing else can be
\* presented: its callback always finds the profile screen it was opened from.
THEOREM PickerCorrect == HSpec => []PickerAlone
BY PhotoInductive, PTL

\* With the picker the app is still the sign-in flow of SignIn, so every theorem
\* about SignIn holds of it.
THEOREM PhotoKeepsSignIn == HSpec => Spec
<1>1. HInit => Init
  BY DEF HInit
<1>2. PickerAlone /\ [HNext]_hvars => [Next]_vars
  BY PhotoStep
<1> QED
  BY <1>1, <1>2, PhotoInductive, PTL DEF HSpec, Spec

-----------------------------------------------------------------------------
(* Types. *)

\* imageselected is set together with the photo, never before it.
RealPhotos == \A i \in 1..Len(photo) : photo[i].imageselected => photo[i].selectedImge \in Photos
PhotoShape == PhotoTypeOK /\ RealPhotos

\* What a form takes along is a photo or nothing.
LEMMA FormPhotoType ==
  ASSUME PhotoShape, NEW i \in 1..Len(photo) PROVE FormPhoto(photo[i]) \in Photos \cup {NoPhoto}
BY DEF PhotoShape, RealPhotos, FormPhoto

\* The slot of the screen on top.
LEMMA TopSlot ==
  ASSUME TypeOK, PhotoTypeOK, stack # <<>> PROVE Len(stack) \in Nat /\ Len(stack) \in 1..Len(photo)
<1>1. Len(stack) \in Nat /\ Len(stack) # 0
  BY EmptySeq DEF TypeOK
<1> QED
  BY <1>1 DEF PhotoTypeOK

LEMMA NewScreenType == NewScreen \in ScreenType
BY DEF NewScreen, ScreenType

LEMMA PhotoShapeInit == HInit => PhotoShape
<1> SUFFICES ASSUME HInit PROVE PhotoShape
  OBVIOUS
<1>1. photo = <<>> /\ stack = <<>> /\ <<>> \in Seq(ScreenType) /\ Len(photo) = 0
  BY EmptySeq DEF HInit, Init
<1> QED
  BY <1>1 DEF HInit, PhotoShape, PhotoTypeOK, RealPhotos, NoModal, NothingSent

\* Screens come and go with their photos.
LEMMA SlotsFollow ==
  ASSUME NEW n \in Nat, NEW ph \in Seq(ScreenType),
         \A i \in 1..Len(ph) : ph[i].imageselected => ph[i].selectedImge \in Photos
  PROVE  LET f == [i \in 1..n |-> IF i <= Len(ph) THEN ph[i] ELSE NewScreen]
         IN  /\ f \in Seq(ScreenType) /\ Len(f) = n
             /\ \A i \in 1..n : f[i].imageselected => f[i].selectedImge \in Photos
<1> DEFINE f == [i \in 1..n |-> IF i <= Len(ph) THEN ph[i] ELSE NewScreen]
<1>1. ASSUME NEW i \in 1..n
      PROVE  f[i] \in ScreenType /\ (f[i].imageselected => f[i].selectedImge \in Photos)
  <2>1. CASE i <= Len(ph)
    <3>1. i \in 1..Len(ph) /\ f[i] = ph[i]
      BY <2>1
    <3>2. ph[i] \in ScreenType
      BY <3>1
    <3> QED
      BY <3>1, <3>2
  <2>2. CASE ~(i <= Len(ph))
    BY <2>2, NewScreenType DEF NewScreen
  <2> QED
    BY <2>1, <2>2
<1>2. f = [i \in 1..n |-> f[i]]
  OBVIOUS
<1> HIDE DEF f
<1>3. f \in [1..n -> ScreenType]
  BY <1>1, <1>2
<1>4. f \in Seq(ScreenType) /\ Len(f) = n
  BY <1>3
<1>5. /\ f \in Seq(ScreenType) /\ Len(f) = n
      /\ \A i \in 1..n : f[i].imageselected => f[i].selectedImge \in Photos
  BY <1>1, <1>4
<1> QED
  BY <1>5 DEF f

LEMMA ShapeFollows ==
  ASSUME TypeOK', PhotoShape, PhotosFollow PROVE PhotoShape'
<1>1. Len(stack') \in Nat
  BY DEF TypeOK
<1>2. /\ photo \in Seq(ScreenType)
      /\ \A i \in 1..Len(photo) : photo[i].imageselected => photo[i].selectedImge \in Photos
  BY DEF PhotoShape, PhotoTypeOK, RealPhotos
<1>3. photo' = [i \in 1..Len(stack') |-> IF i <= Len(photo) THEN photo[i] ELSE NewScreen]
  BY DEF PhotosFollow
<1>4. /\ photo' \in Seq(ScreenType) /\ Len(photo') = Len(stack')
      /\ \A i \in 1..Len(stack') : photo'[i].imageselected => photo'[i].selectedImge \in Photos
  BY <1>1, <1>2, <1>3, SlotsFollow
<1>5. RealPhotos'
  BY <1>4 DEF RealPhotos
<1>6. /\ modal' \in [kind : {"none", "sheet", "picker"}, opener : Nat]
      /\ sent' \in [ReqIds -> Photos \cup {NoPhoto}]
      /\ picked' \in Photos \cup {NoPhoto}
  <2>1. /\ modal' = modal \/ modal' = NoModal
        /\ picked' = picked \/ picked' = NoPhoto
        /\ sent' = [r \in ReqIds |-> IF request'[r].kind = "Update" THEN sent[r] ELSE NoPhoto]
    BY DEF PhotosFollow
  <2>2. /\ modal \in [kind : {"none", "sheet", "picker"}, opener : Nat]
        /\ sent \in [ReqIds -> Photos \cup {NoPhoto}]
        /\ picked \in Photos \cup {NoPhoto}
    BY DEF PhotoShape, PhotoTypeOK
  <2>3. NoModal \in [kind : {"none", "sheet", "picker"}, opener : Nat]
    BY DEF NoModal
  <2>4. sent' \in [ReqIds -> Photos \cup {NoPhoto}]
    BY <2>1, <2>2
  <2> QED
    BY <2>1, <2>2, <2>3, <2>4
<1> QED
  BY <1>4, <1>5, <1>6 DEF PhotoShape, PhotoTypeOK

LEMMA PhotoShapeStep ==
  ASSUME TypeOK, TypeOK', PickerAlone, PhotoShape, [HNext]_hvars PROVE PhotoShape'
<1>1. CASE OtherTouch \/ Background
  BY <1>1, ShapeFollows DEF OtherTouch, Background
<1>2. CASE UploadProfile
  <2>1. UNCHANGED <<modal, photo, picked, stack>> /\ stack # <<>>
    BY <1>2 DEF UploadProfile, EditUserProfileMethod, Shows
  <2>2. FormPhoto(photo[Len(stack)]) \in Photos \cup {NoPhoto}
    BY <2>1, TopSlot, FormPhotoType DEF PhotoShape
  <2>3. sent' \in [ReqIds -> Photos \cup {NoPhoto}]
    BY <1>2, <2>2 DEF UploadProfile, PhotoShape, PhotoTypeOK
  <2> QED
    BY <2>1, <2>3 DEF PhotoShape, PhotoTypeOK, RealPhotos
<1>3. CASE didFinishPickingMediaWithInfo
  <2>1. PICK p \in Photos :
          /\ photo' = [photo EXCEPT ![modal.opener] = [selectedImge |-> p, imageselected |-> TRUE]]
          /\ picked' = p
    BY <1>3 DEF didFinishPickingMediaWithInfo
  <2> DEFINE e == [selectedImge |-> p, imageselected |-> TRUE]
             i == modal.opener
  <2>2. i \in 1..Len(photo)
    BY <1>3, TopSlot DEF didFinishPickingMediaWithInfo, PickerAlone, Shows, PhotoShape
  <2>3. e \in ScreenType /\ e.selectedImge \in Photos
    BY DEF ScreenType
  <2>4. photo' = [photo EXCEPT ![i] = e]
    BY <2>1
  <2> HIDE DEF e, i
  <2>5. /\ photo' \in Seq(ScreenType) /\ Len(photo') = Len(photo)
        /\ \A j \in 1..Len(photo) : photo'[j] = IF j = i THEN e ELSE photo[j]
    BY <2>2, <2>3, <2>4, ExceptSeq DEF PhotoShape, PhotoTypeOK
  <2>6. RealPhotos'
    BY <2>3, <2>5 DEF PhotoShape, RealPhotos
  <2>7. UNCHANGED <<stack, sent>> /\ modal' = NoModal
    BY <1>3 DEF didFinishPickingMediaWithInfo, vars
  <2> QED
    BY <2>1, <2>5, <2>6, <2>7 DEF PhotoShape, PhotoTypeOK, NoModal
<1>4. CASE /\ UNCHANGED <<stack, photo, sent, picked>>
           /\ modal' \in [kind : {"none", "sheet", "picker"}, opener : Nat]
  BY <1>4 DEF PhotoShape, PhotoTypeOK, RealPhotos
<1>5. CASE pickImage \/ openGallery \/ openCamera \/ CancelPicking \/ UNCHANGED hvars
  <2>1. modal \in [kind : {"none", "sheet", "picker"}, opener : Nat] /\ Len(stack) \in Nat
    BY DEF PhotoShape, PhotoTypeOK, TypeOK
  <2>2. UNCHANGED <<stack, photo, sent, picked>>
    BY <1>5 DEF pickImage, openGallery, openCamera, CancelPicking, hvars, photoVars, vars
  <2>3. modal' \in [kind : {"none", "sheet", "picker"}, opener : Nat]
    BY <1>5, <2>1 DEF pickImage, openGallery, openCamera, CancelPicking, hvars, photoVars,
       Presents, NoModal
  <2> QED
    BY <1>4, <2>2, <2>3
<1> QED
  BY <1>1, <1>2, <1>3, <1>5 DEF HNext

LEMMA PhotoShapeCorrect == HSpec => []PhotoShape
<1>1. /\ TypeOK /\ IInv /\ PickerAlone /\ (TypeOK /\ IInv /\ PickerAlone)' /\ PhotoShape
      /\ [HNext]_hvars
      => PhotoShape'
  BY PhotoShapeStep
<1> QED
  BY <1>1, PhotoShapeInit, PhotoInductive, PTL DEF HSpec

\* One slot per screen, and no form with an empty image.
THEOREM PhotoTypeCorrect == HSpec => []PhotoTypeOK
<1>1. PhotoShape => PhotoTypeOK
  BY DEF PhotoShape
<1> QED
  BY <1>1, PhotoShapeCorrect, PTL

-----------------------------------------------------------------------------
(* The photo that was picked is the photo that is uploaded. *)

\* The steps of SignIn that PhotosFollow goes with: all but the upload.
FollowStep ==
  \/ NavigationScreens \/ PhoneTouch \/ ScreenTouch \/ ProcessEnd
  \/ \E vc \in OtpVCs : action(vc)
  \/ \E r \in ReqIds : Completion(r) \/ Serve(r)
  \/ \E c \in Customers : ServeLate(c)

\* A profile screen comes from the code screen or from an accepted verification,
\* and goes with its window only.
ProfileMove ==
  \/ UNCHANGED <<root, stack>>
  \/ root' # "nav"
  \/ ~Shows("Profile") /\ ~Shows("Profile")'
  \/ /\ root' = root /\ stack' = Append(stack, "Profile")
     /\ ~Shows("Profile") \/ \E r \in ReqIds : request[r].kind = "Register"

ShallowTop == Len(stack) < 5 => ~Shows("Profile")

LEMMA ShallowIs == TypeOK /\ IInv => ShallowTop
<1> SUFFICES ASSUME TypeOK, IInv PROVE ShallowTop
  OBVIOUS
<1>1. Shows("Profile") => Len(stack) >= 5
  BY TopScreen
<1>2. Len(stack) \in Nat
  BY DEF TypeOK
<1> QED
  BY <1>1, <1>2 DEF ShallowTop

LEMMA ProfileMoves ==
  ASSUME TypeOK, TypeOK', IInv, IInv', FollowStep PROVE ProfileMove
<1>0. ShallowTop /\ ShallowTop' /\ Len(stack) \in Nat
  <2>1. ShallowTop
    BY ShallowIs
  <2>2. ShallowTop'
    BY ShallowIs, PTL
  <2> QED
    BY <2>1, <2>2 DEF TypeOK
<1>1. CASE NavigationScreens
  <2>1. CASE defaults.IsUserLogIned
    BY <1>1, <2>1 DEF NavigationScreens, ProfileMove
  <2>2. CASE ~defaults.IsUserLogIned
    <3>1. root = "none" /\ stack' = <<"Lounch", "Lounch">>
      BY <1>1, <2>2 DEF NavigationScreens
    <3>2. Len(stack') = 2
      BY <3>1
    <3>3. ~Shows("Profile")'
      BY <1>0, <3>2 DEF ShallowTop
    <3> QED
      BY <3>1, <3>3 DEF ProfileMove, Shows
  <2> QED
    BY <2>1, <2>2
<1>2. CASE ProcessEnd
  BY <1>2 DEF ProcessEnd, Kill, KillInRegister, Trap, Die, ProfileMove
<1>3. CASE agreeContinueBtnref \/ policyBtnref
  <2>1. PICK x \in {"Terms", "Phone"} : stack' = Append(stack, x)
    BY <1>3 DEF agreeContinueBtnref, policyBtnref, Push
  <2>2. Len(stack) = 2 /\ x \in Screens
    BY <1>3, TopScreen DEF agreeContinueBtnref, policyBtnref, Screens
  <2>3. Len(stack') = Len(stack) + 1
    BY <2>1, <2>2, PushStack DEF TypeOK
  <2> QED
    BY <1>0, <2>2, <2>3 DEF ShallowTop, ProfileMove
<1>4. CASE TermsBackBtnref \/ didSelectRow \/ \E vc \in OtpVCs : backbtnref(vc)
  <2>1. stack # <<>> /\ Pop /\ (Len(stack) = 3 \/ Len(stack) = 4)
    BY <1>4, TopScreen DEF TermsBackBtnref, didSelectRow, backbtnref, Shows
  <2>2. Len(stack') = Len(stack) - 1
    BY <2>1, PopPath
  <2>3. \A m, n : (m = 3 \/ m = 4) /\ n = m - 1 => m < 5 /\ n < 5
    OBVIOUS
  <2>4. Len(stack) < 5 /\ Len(stack') < 5
    BY <2>1, <2>2, <2>3, Zenon
  <2>5. ~Shows("Profile") /\ ~Shows("Profile")'
    BY <1>0, <2>4, Zenon DEF ShallowTop
  <2> QED
    BY <2>5 DEF ProfileMove
<1>5. ASSUME NEW vc \in OtpVCs, CallMebtnref(vc) PROVE ProfileMove
  <2>1. Len(stack) = 4 /\ root' = root /\ stack' = Append(stack, "Profile")
    BY <1>5, TopScreen DEF CallMebtnref, Push
  <2> QED
    BY <1>0, <2>1 DEF ShallowTop, ProfileMove
<1>6. CASE \/ DismissAlert \/ LoginApiCalling \/ SubmitInvalidNumber \/ SubmitWithoutName
  BY <1>6 DEF DismissAlert, LoginApiCalling, SubmitInvalidNumber, SubmitWithoutName, ProfileMove
<1>7. ASSUME NEW vc \in OtpVCs,
             \/ TapOtpField(vc) \/ enteredOTP(vc) \/ KeyWithoutCode(vc)
             \/ ResendOtpbtnref(vc) \/ action(vc)
      PROVE  ProfileMove
  BY <1>7 DEF TapOtpField, enteredOTP, KeyWithoutCode, ResendOtpbtnref, action, ProfileMove
<1>8. ASSUME NEW r \in ReqIds, ResendCompletion(r) \/ UpdateCompletion(r) \/ Serve(r)
      PROVE  ProfileMove
  BY <1>8 DEF ResendCompletion, UpdateCompletion, Serve, ProfileMove
<1>9. ASSUME NEW r \in ReqIds, RegisterCompletion(r) PROVE ProfileMove
  BY <1>9 DEF RegisterCompletion, ProfileMove
<1>10. ASSUME NEW r \in ReqIds, LoginCompletion(r) PROVE ProfileMove
  <2>1. CASE stack' = stack
    BY <1>10, <2>1 DEF LoginCompletion, ProfileMove
  <2>2. CASE stack' # stack
    <3>1. PICK vc \in FreeOtpVCs : stack' = Append(stack, vc)
      BY <1>10, <2>2 DEF LoginCompletion, Push
    <3>2. Len(stack) = 3 /\ vc \in Screens
      BY <1>10 DEF LoginCompletion, IInv, RequestShape, InFlight, FreeOtpVCs, Screens
    <3>3. Len(stack') = Len(stack) + 1
      BY <3>1, <3>2, PushStack DEF TypeOK
    <3> QED
      BY <1>0, <3>2, <3>3 DEF ShallowTop, ProfileMove
  <2> QED
    BY <2>1, <2>2
<1>11. CASE showCountriesList
  <2>1. Len(stack) = 3 /\ stack' = Append(stack, "Countries") /\ "Countries" \in Screens
    BY <1>11, TopScreen DEF showCountriesList, Push, Screens
  <2>2. Len(stack') = Len(stack) + 1
    BY <2>1, PushStack DEF TypeOK
  <2>3. Len(stack) < 5 /\ Len(stack') < 5
    BY <2>1, <2>2
  <2> QED
    BY <1>0, <2>3 DEF ShallowTop, ProfileMove
<1>12. ASSUME NEW c \in Customers, ServeLate(c) PROVE ProfileMove
  BY <1>12 DEF ServeLate, ProfileMove
<1> QED
  BY <1>1, <1>2, <1>3, <1>4, <1>5, <1>6, <1>7, <1>8, <1>9, <1>10, <1>11, <1>12
  DEF FollowStep, PhoneTouch, ScreenTouch, Completion

\* Only the upload starts an update, and only a code screen a verification.
NewRequests ==
  \A r \in ReqIds :
    /\ request'[r].kind = "Update" => request[r].kind = "Update"
    /\ request'[r].kind = "Register" => request[r].kind = "Register" \/ ~Shows("Profile")

LEMMA CallRequests ==
  ASSUME TypeOK, NEW r \in FreeReqs, NEW q, NEW o, Call(r, q, o), q.kind # "Update",
         q.kind = "Register" => ~Shows("Profile")
  PROVE  NewRequests
BY DEF Call, TypeOK, FreeReqs, NewRequests

LEMMA RequestsFollow ==
  ASSUME TypeOK, IInv, FollowStep PROVE NewRequests
<1>1. CASE request' = request
  BY <1>1 DEF NewRequests
<1>2. CASE LoginApiCalling
  <2>1. PICK r \in FreeReqs, net \in Nets :
          Call(r, Request("LogIN", NoVC, Unset), APIRequest("post", net))
    BY <1>2 DEF LoginApiCalling
  <2> QED
    BY <2>1, CallRequests DEF Request
<1>3. ASSUME NEW vc \in OtpVCs, enteredOTP(vc) PROVE NewRequests
  <2>1. PICK r \in FreeReqs, net \in Nets :
          Call(r, Request("Register", vc, otp[vc].CustomerID), APIRequest("post", net))
    BY <1>3 DEF enteredOTP
  <2>2. ~Shows("Profile")
    BY <1>3, OtpVCsAssumption DEF enteredOTP, Shows
  <2> QED
    BY <2>1, <2>2, CallRequests DEF Request
<1>4. ASSUME NEW vc \in OtpVCs, ResendOtpbtnref(vc) PROVE NewRequests
  <2>1. PICK r \in FreeReqs, net \in Nets :
          Call(r, Request("Resend", vc, defaults.CustomerID), APIRequest("get", net))
    BY <1>4 DEF ResendOtpbtnref
  <2> QED
    BY <2>1, CallRequests DEF Request
<1>5. ASSUME NEW r \in ReqIds, Completion(r) PROVE NewRequests
  <2>1. request' = [request EXCEPT ![r] = Idle]
    BY <1>5 DEF Completion, LoginCompletion, RegisterCompletion, ResendCompletion, UpdateCompletion
  <2> QED
    BY <2>1 DEF TypeOK, Idle, NewRequests
<1>6. ASSUME NEW r \in ReqIds, Serve(r) PROVE NewRequests
  BY <1>6 DEF Serve, TypeOK, RequestType, NewRequests
<1>7. CASE ProcessEnd
  <2>1. request' = [r \in ReqIds |-> Idle]
    BY <1>7 DEF ProcessEnd, Kill, KillInRegister, Trap, Die
  <2> QED
    BY <2>1 DEF Idle, NewRequests
<1>8. CASE \/ NavigationScreens \/ agreeContinueBtnref \/ policyBtnref \/ TermsBackBtnref
           \/ DismissAlert \/ SubmitInvalidNumber \/ SubmitWithoutName
           \/ showCountriesList \/ didSelectRow
  BY <1>1, <1>8 DEF NavigationScreens, agreeContinueBtnref, policyBtnref, TermsBackBtnref,
     DismissAlert, SubmitInvalidNumber, SubmitWithoutName, showCountriesList, didSelectRow
<1>9. ASSUME NEW vc \in OtpVCs,
             backbtnref(vc) \/ TapOtpField(vc) \/ KeyWithoutCode(vc) \/ CallMebtnref(vc) \/ action(vc)
      PROVE  NewRequests
  BY <1>1, <1>9 DEF backbtnref, TapOtpField, KeyWithoutCode, CallMebtnref, action
<1>10. ASSUME NEW c \in Customers, ServeLate(c) PROVE NewRequests
  BY <1>1, <1>10 DEF ServeLate
<1> QED
  BY <1>2, <1>3, <1>4, <1>5, <1>6, <1>7, <1>8, <1>9, <1>10 DEF FollowStep, PhoneTouch, ScreenTouch

\* One slot per screen: a screen keeps its photo, a new one has none.
LEMMA SlotFollows ==
  ASSUME TypeOK, TypeOK', PhotoShape, PhotosFollow, stack' # <<>>
  PROVE  /\ stack' = stack => photo'[Len(stack')] = photo[Len(stack)]
         /\ Len(stack') = Len(stack) + 1 => photo'[Len(stack')] = NewScreen
<1>1. Len(stack') \in Nat /\ Len(stack') # 0 /\ Len(stack) \in Nat /\ Len(photo) = Len(stack)
  BY EmptySeq DEF TypeOK, PhotoShape, PhotoTypeOK
<1>2. Len(stack') \in 1..Len(stack')
  BY <1>1
<1>3. photo'[Len(stack')] = IF Len(stack') <= Len(photo) THEN photo[Len(stack')] ELSE NewScreen
  BY <1>2 DEF PhotosFollow
<1> QED
  BY <1>1, <1>3

LEMMA KeptFollow ==
  ASSUME TypeOK, TypeOK', IInv, IInv', PhotoShape, PhotoKept, FollowStep, PhotosFollow
  PROVE  PhotoKept'
<1>1. ProfileMove /\ NewRequests
  BY ProfileMoves, RequestsFollow
<1>2. picked' = IF root' = "nav" THEN picked ELSE NoPhoto
  BY DEF PhotosFollow
<1>3. ASSUME NEW r \in ReqIds, request'[r].kind = "Update" PROVE sent'[r] = picked'
  <2>1. root' = "nav"
    BY <1>3 DEF IInv, RequestShape, InFlight
  <2>2. request[r].kind = "Update" /\ sent'[r] = sent[r]
    BY <1>1, <1>3 DEF NewRequests, PhotosFollow
  <2> QED
    BY <1>2, <2>1, <2>2 DEF PhotoKept
<1>4. /\ Shows("Profile")' => FormPhoto(photo[Len(stack)])' = picked'
      /\ picked' # NoPhoto => Shows("Profile")' /\ \A r \in ReqIds : request'[r].kind # "Register"
  <2>0. Shows("Profile")' => root' = "nav" /\ stack' # <<>>
    BY DEF Shows
  <2>1. CASE UNCHANGED <<root, stack>>
    <3>1. Shows("Profile")' <=> Shows("Profile")
      BY <2>1 DEF Shows
    <3>2. Shows("Profile")' => photo'[Len(stack')] = photo[Len(stack)]
      BY <2>0, <2>1, SlotFollows
    <3>3. Shows("Profile")' => FormPhoto(photo[Len(stack)])' = picked'
      BY <1>2, <2>0, <3>1, <3>2 DEF PhotoKept, FormPhoto
    <3>4. ASSUME picked' # NoPhoto
          PROVE  Shows("Profile")' /\ \A r \in ReqIds : request'[r].kind # "Register"
      BY <1>1, <1>2, <3>1, <3>4 DEF PhotoKept, NewRequests
    <3> QED
      BY <3>3, <3>4
  <2>2. CASE root' # "nav"
    BY <1>2, <2>0, <2>2
  <2>3. CASE ~Shows("Profile") /\ ~Shows("Profile")'
    BY <1>2, <2>3 DEF PhotoKept
  <2>4. CASE /\ root' = root /\ stack' = Append(stack, "Profile")
             /\ ~Shows("Profile") \/ \E r \in ReqIds : request[r].kind = "Register"
    <3>1. picked = NoPhoto /\ picked' = NoPhoto
      BY <1>2, <2>4 DEF PhotoKept
    <3>2. Len(stack') = Len(stack) + 1
      BY <2>4, PushStack DEF TypeOK, Screens
    <3>3. Shows("Profile")' => photo'[Len(stack')] = NewScreen
      BY <2>0, <3>2, SlotFollows
    <3> QED
      BY <3>1, <3>3 DEF FormPhoto, NewScreen
  <2> QED
    BY <1>1, <2>1, <2>2, <2>3, <2>4 DEF ProfileMove
<1> QED
  BY <1>3, <1>4 DEF PhotoKept

\* The upload takes along the photo of the screen it is started from.
LEMMA KeptUpload ==
  ASSUME TypeOK, IInv, PhotoKept, UploadProfile PROVE PhotoKept'
<1>1. /\ Shows("Profile") /\ Touchable
      /\ UNCHANGED <<root, stack, photo, picked>>
  BY DEF UploadProfile, EditUserProfileMethod
<1>2. \A r \in ReqIds : ~InFlight(r)
  BY <1>1, NothingPending
<1>3. PICK q \in FreeReqs :
        Call(q, Request("Update", NoVC, defaults.CustomerID),
             IF defaults.CustomerID = Unset THEN "fail" ELSE "send")
  BY DEF UploadProfile, EditUserProfileMethod
<1>4. \A r \in ReqIds : request'[r].kind # "Register"
  BY <1>2, <1>3 DEF Call, Request, FreeReqs, TypeOK, InFlight
<1>5. \A r \in ReqIds : request'[r].kind = "Update" => sent'[r] = picked'
  BY <1>1, <1>2 DEF UploadProfile, PhotoKept
<1> QED
  BY <1>1, <1>4, <1>5 DEF PhotoKept, Shows

\* The callback sets the photo of the screen on top, and nothing is pending.
LEMMA KeptPicked ==
  ASSUME TypeOK, PhotoShape, PickerAlone, didFinishPickingMediaWithInfo PROVE PhotoKept'
<1>1. PICK p \in Photos :
        /\ photo' = [photo EXCEPT ![modal.opener] = [selectedImge |-> p, imageselected |-> TRUE]]
        /\ picked' = p
  BY DEF didFinishPickingMediaWithInfo
<1>2. /\ Shows("Profile") /\ modal.opener = Len(stack)
      /\ UNCHANGED <<root, stack, request>>
      /\ \A r \in ReqIds : ~InFlight(r)
  BY DEF didFinishPickingMediaWithInfo, PickerAlone, vars
<1>3. Len(stack) \in 1..Len(photo)
  BY <1>2, TopSlot DEF Shows, PhotoShape
<1>4. photo'[Len(stack)] = [selectedImge |-> p, imageselected |-> TRUE]
  BY <1>1, <1>2, <1>3 DEF PhotoShape, PhotoTypeOK
<1>5. FormPhoto(photo[Len(stack)])' = picked'
  BY <1>1, <1>2, <1>4 DEF FormPhoto
<1> QED
  BY <1>2, <1>5 DEF PhotoKept, Shows, InFlight

LEMMA KeptStep ==
  ASSUME TypeOK, TypeOK', IInv, IInv', PickerAlone, PhotoShape, PhotoKept, [HNext]_hvars
  PROVE  PhotoKept'
<1>1. CASE OtherTouch \/ Background
  BY <1>1, KeptFollow DEF OtherTouch, Background, FollowStep
<1>2. CASE pickImage \/ openGallery \/ openCamera \/ CancelPicking \/ UNCHANGED hvars
  <2>1. UNCHANGED <<root, stack, request, photo, sent, picked>>
    BY <1>2 DEF pickImage, openGallery, openCamera, CancelPicking, hvars, photoVars, vars
  <2> QED
    BY <2>1 DEF PhotoKept, Shows
<1> QED
  BY <1>1, <1>2, KeptUpload, KeptPicked DEF HNext

\* For every run of the app: the profile screen on top has the photo that was picked
\* last, and the form of an update in flight has it too, whatever answers come late.
THEOREM PhotoCorrect == HSpec => []PhotoKept
<1>1. HInit => PhotoKept
  BY DEF HInit, Init, PhotoKept, Shows, Idle
<1>2. /\ TypeOK /\ IInv /\ PickerAlone /\ (TypeOK /\ IInv /\ PickerAlone)' /\ PhotoShape
      /\ PhotoKept /\ [HNext]_hvars
      => PhotoKept'
  BY KeptStep
<1> QED
  BY <1>1, <1>2, PhotoShapeCorrect, PhotoInductive, PTL DEF HSpec
=============================================================================
