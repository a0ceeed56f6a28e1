----------------------------- MODULE ProfilePhoto -----------------------------
(***************************************************************************)
(* The photo of EditMyProfileVC: ImagePickerManager's sheet, camera and       *)
(* gallery, its callback, and the upload that takes the photo along, next to  *)
(* the sign-in flow of SignIn.                                              *)
(*                                                                         *)
(* A sheet or picker is presented over the profile screen and takes every    *)
(* touch and keystroke; timers and completions run on below it.  The callback *)
(* sets the photo of the EditMyProfileVC that opened the picker, while a      *)
(* second accepted verification would push another EditMyProfileVC on top.    *)
(***************************************************************************)
EXTENDS SignIn

CONSTANT Photos    \* photos that can be taken or chosen

NoPhoto    == "noPhoto"     \* a form without a photo
EmptyImage == "UIImage()"   \* selectedImge before anything was picked
ASSUME PhotosAssumption == Photos \cap {NoPhoto, EmptyImage} = {}

VARIABLES
  modal,    \* what ImagePickerManager presents, and the place in the stack of
            \* the profile screen that opened it
  photo,    \* selectedImge and imageselected of the screen at each place
  sent,     \* per request, the photo in its form
  picked    \* history: the photo the user picked last in this sign-in

photoVars == <<modal, photo, sent, picked>>
hvars == <<vars, photoVars>>

NoModal     == [kind |-> "none", opener |-> 0]
NewScreen   == [selectedImge |-> EmptyImage, imageselected |-> FALSE]
NothingSent == [r \in ReqIds |-> NoPhoto]

-----------------------------------------------------------------------------
(* ImagePickerManager.  Every use of it belongs to one profile screen, the    *)
(* manager's viewController.                                                *)

\* UIKit presents from a view controller on the screen that presents nothing yet.
Presents(kind, place) ==
  modal' = IF root = "nav" /\ place = Len(stack) /\ ~alert
           THEN [kind |-> kind, opener |-> place] ELSE NoModal

\* AddProfileBtnref calls pickImage on a new manager.
pickImage ==
  /\ Shows("Profile") /\ Touchable /\ modal.kind = "none"
  /\ Presents("sheet", Len(stack))
  /\ UNCHANGED <<vars, photo, sent, picked>>

openGallery ==
  /\ modal.kind = "sheet"
  /\ Presents("picker", modal.opener)
  /\ UNCHANGED <<vars, photo, sent, picked>>

\* With a camera, the same; without one, showAlert.
openCamera ==
  /\ modal.kind = "sheet"
  /\ \/ Presents("picker", modal.opener) /\ UNCHANGED alert
     \/ modal' = NoModal /\ ShowAlert(stack[modal.opener])
  /\ UNCHANGED <<root, stack, otp, request, overlay, defaults, accepted, posted, photo, sent, picked>>

\* The sheet's Cancel, imagePickerControllerDidCancel, and a picked item that is
\* no image.
CancelPicking ==
  /\ modal.kind # "none"
  /\ modal' = NoModal
  /\ UNCHANGED <<vars, photo, sent, picked>>

\* The picker is dismissed, then AddProfileBtnref's closure sets the photo of its
\* own screen.
didFinishPickingMediaWithInfo ==
  /\ modal.kind = "picker"
  /\ modal' = NoModal
  /\ \E p \in Photos :
       /\ photo' = [photo EXCEPT ![modal.opener] = [selectedImge |-> p, imageselected |-> TRUE]]
       /\ picked' = p
  /\ UNCHANGED <<vars, sent>>

-----------------------------------------------------------------------------
(* EditMyProfileVC and the rest of SignIn. *)

\* Slip: the photo is appended whether or not imageselected.
FormPhoto_Unchecked(screen) == screen.selectedImge

\* The photo is appended to the form only if imageselected.
FormPhoto(screen) == IF screen.imageselected THEN screen.selectedImge ELSE NoPhoto

\* Submitbtnref: the form is made, photo included, when the upload is started.
UploadProfile ==
  /\ modal.kind = "none"
  /\ EditUserProfileMethod
  /\ sent' = [r \in ReqIds |-> IF request'[r].kind = "Update" /\ ~InFlight(r)
                               THEN FormPhoto(photo[Len(stack)]) ELSE sent[r]]
  /\ UNCHANGED <<modal, photo, picked>>

\* A screen starts without a photo and takes its photo with it; a process, or the
\* window that the dashboard replaces, takes everything.
PhotosFollow ==
  /\ modal' = IF root' = "nav" THEN modal ELSE NoModal
  /\ photo' = [i \in 1..Len(stack') |-> IF i <= Len(photo) THEN photo[i] ELSE NewScreen]
  /\ sent' = [r \in ReqIds |-> IF request'[r].kind = "Update" THEN sent[r] ELSE NoPhoto]
  /\ picked' = IF root' = "nav" THEN picked ELSE NoPhoto

OtherTouch == modal.kind = "none" /\ (PhoneTouch \/ ScreenTouch) /\ PhotosFollow

\* What needs no touch.
Background ==
  /\ \/ NavigationScreens
     \/ ProcessEnd
     \/ \E vc \in OtpVCs : action(vc)
     \/ \E r \in ReqIds : Completion(r) \/ Serve(r)
     \/ \E c \in Customers : ServeLate(c)
  /\ PhotosFollow

HInit ==
  /\ Init
  /\ modal = NoModal /\ photo = <<>> /\ sent = NothingSent /\ picked = NoPhoto

HNext ==
  \/ pickImage
  \/ openGallery
  \/ openCamera
  \/ CancelPicking
  \/ didFinishPickingMediaWithInfo
  \/ UploadProfile
  \/ OtherTouch
  \/ Background

HSpec == HInit /\ [][HNext]_hvars

-----------------------------------------------------------------------------
(* Properties. *)

ScreenType == [selectedImge : Photos \cup {EmptyImage}, imageselected : BOOLEAN]

\* Every variable keeps its type, with one slot per screen; an upload has a real
\* photo in its form or none (jpegData()! of an empty image would trap).
PhotoTypeOK ==
  /\ modal \in [kind : {"none", "sheet", "picker"}, opener : Nat]
  /\ photo \in Seq(ScreenType) /\ Len(photo) = Len(stack)
  /\ sent \in [ReqIds -> Photos \cup {NoPhoto}]
  /\ picked \in Photos \cup {NoPhoto}

\* While the sheet or a picker is up nothing is pending and nothing else is
\* presented, its profile screen is the one on top, and so its callback sets the
\* photo the user is looking at and the alert of a late answer is never lost.
PickerAlone ==
  modal.kind # "none" =>
    /\ Shows("Profile") /\ modal.opener = Len(stack)
    /\ overlay = {} /\ ~alert
    /\ \A r \in ReqIds : ~InFlight(r)

\* The profile screen on top has the photo the user picked last, and so has the
\* form of an update in flight; no verification is pending that could push a
\* second, empty profile screen over a picked photo.
PhotoKept ==
  /\ Shows("Profile") => FormPhoto(photo[Len(stack)]) = picked
  /\ \A r \in ReqIds : request[r].kind = "Update" => sent[r] = picked
  /\ picked # NoPhoto => Shows("Profile") /\ \A r \in ReqIds : request[r].kind # "Register"
=============================================================================
