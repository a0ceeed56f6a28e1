# ThorChat: a verification project

ThorChat is an iOS app (Swift, `src/ThorChat/ThorChat`). This directory holds
TLA+ modules for its own logic, TLC configurations that check them on small
instances, and proofs that TLAPS checks for every value of the constants. The
rest of the repository is vendored (`Pods`: Alamofire, ObjectMapper, Firebase,
gRPC, BoringSSL, ...) and is used here only as the environment, with one
exception: the country picker pushes a screen on the app's own navigation
controller, and that is modelled.

## 1. Inventory

| Part | State it keeps | Operations | Talks to |
|---|---|---|---|
| `AppDelegate` | the window's root | `NavigationScreens` at launch | reads the flag `Str_Global_IsUserLogIned` in UserDefaults |
| `LounchScreenVC`, `TermaAndPolicyVC` | none | agree, policy, terms, back | navigation controller |
| `PhoneNumberVerificationVC` | number, country | edit the number, choose a country, submit, completion of sign-in | HTTP layer, UserDefaults (`Mobilenumber`, `CustomerID`), pushes the code screen with the number |
| `CountryPickerView` (vendored) | its list while it is open | open the list, choose a country | pushes the list on the navigation controller and pops it, calls `PhoneNumberVerificationVC` back |
| `OTPVerificationVC` | `CustomerID`, `sessionTimer`, `timer`, visibility of button and label | back, resend, call me, timer `action`, `enteredOTP`, completions of verify and resend | HTTP layer, UserDefaults (`auth_key`, flag), code view, pushes the profile |
| `EditMyProfileVC` | name, photo | add a photo, submit, completion of update | Alamofire directly, `ImagePickerManager`, replaces the window by the dashboard |
| `ImagePickerManager` | the screen that opened it, its callback | sheet, camera, gallery, cancel, photo picked | presents over the profile screen, calls it back |
| `StopWatch` | a number of seconds | its parts, and the text of minutes and seconds | the countdown label of the code screen |
| `VPMOTPView`, `VPMOTPTextField` | text of each field, first responder | initialise, tap, insert, delete | delegate calls to `OTPVerificationVC` |
| `PUGIFLoading` | its overlay on the key window, its animated image | `show`, `hide`, the frames of the image from its delays | every screen that makes a request |
| HTTP layer (`Wrapping_APIs.swift`) | none | `isNetworkAvailable`, `APIRequest`, `responseData` | Alamofire; calls the completion closure, or does not |
| API catalogue (same file) | none | 73 API functions | the HTTP layer, UserDefaults |
| `LoginModel`, `RegisterModel` | none | decoding with defaults | the completions |
| `AppUpdater`, dashboard screens, Core Data stack, address models | little or none | static views, template code | not modelled, see section 7 |

Where it is hard. Everything runs on the main thread, so a handler is atomic,
but nothing orders the handlers: the user, the one-second timer of every live
code screen, the completion of every request in flight, and the end of the
process. A spinner covers the window while a request is pending, yet not the
keyboard, so codes can be typed, and verified, behind it. A completion may
never be called (HTTP 401, no reachability object), a popped screen stays alive
through its timer and its closures, the credentials are written in several
steps, and the customer id is kept in two places. The number in the field can
change behind the spinner while the closure goes on with the one it captured; a
picker is open while late answers come in; the label of the countdown is
written by one handler, hidden and shown by others; and the spinner's image
divides, and loops until a division comes out even, on the main thread. `PROJECT.json` lists these
hazards with the line where each bites.

What makes the parts correct: the flag in UserDefaults, which a launch trusts
blindly, must stand for a code the server confirmed for the stored customer;
the two copies of the customer must agree wherever both can be used; a
completion must find its screen; the screens must form one path, with the
country list only ever on top of the number; resend must be
offered at the right times; no spinner may outlive its request when the answer
is one the handlers provide for, and one that does must hold the flow where it is;
the code view must keep its fields without
holes and report a code when it is complete; the number stored, shown and
signed in must be one and the same; a picked photo must be the one uploaded; the
label must tell the time left; and each image of the spinner must be shown for
its own delay.

## 2. Modules

| Module | Models |
|---|---|
| `ApiClient` | `isNetworkAvailable`, `APIRequest`, `responseData` as operators: whether a completion is called, and with what |
| `SignIn` | the sign-in flow: all screens, UserDefaults, requests, spinners, timers, the server, kills and traps |
| `ApiCalls` | the catalogue of API functions, called next to the sign-in flow (composes with `SignIn`) |
| `Session` | what the flow promises: challenge, try a code, confirm, open, abandon |
| `OTPView` | the code view: fields, focus, delegate calls |
| `OtpEntry` | what the code view promises: one gap of empty fields, closed and opened at its left end |
| `PhoneEntry` | the number: text field, country, what the closure captures, stores and hands on (composes with `SignIn`) |
| `ProfilePhoto` | the photo: sheet, camera, gallery, callback and upload (composes with `SignIn`) |
| `StopWatch` | the parts of a time and the text made of them, as operators |
| `CountdownLabel` | the text of the countdown label (composes `SignIn` with `StopWatch`) |
| `GifTiming` | the frames of the spinner's animated image |
| `MCSignIn`, `MCApiCalls`, `MCOTPView`, `MCPhoneEntry`, `MCProfilePhoto`, `MCCountdown`, `MCGifTiming` | instances for TLC |
| `SignInTypeProofs`, `SignInProofs`, `ApiCallsProofs`, `PhoneEntryProofs`, `ProfilePhotoProofs`, `OTPViewProofs`, `CountdownProofs`, `GifTimingProofs` | theorems and proofs; those about a composition with `SignIn` rest on the theorems about `SignIn` |

`SignIn` extends `ApiClient` and instantiates `Session` with a refinement
mapping (`ImplementsSession`); `OTPView` instantiates `OtpEntry`
(`ImplementsOtpEntry`). `SignIn` keeps of the code view only whether it has
the keyboard: with it, `enteredOTP` and `KeyWithoutCode` are possible at any time,
and `TapOtpField` and the helper `initializeUI` can bring it up. That allows every
step of `OtpEntry` and more; it is an argument by reading, which no run and no
theorem ties to `OTPView`. `ApiCalls`, `PhoneEntry`,
`ProfilePhoto` and `CountdownLabel` each add variables to `SignIn` and say for
every one of its actions what it does to them: each of their steps is a step of
`SignIn` together with the rest of the handler's effect, or a handler of their
own that leaves `SignIn` alone. `SignIn` groups its actions (`PhoneTouch`,
`ScreenTouch`, `ProcessEnd`, `Completion`) for that purpose.

### SignIn and the code

One action per handler, named after it. `NavigationScreens` starts a process:
the dashboard if the flag is set, otherwise the storyboard's navigation
controller with a second `LounchScreenVC` pushed on it. `LoginApiCalling`,
`enteredOTP`, `ResendOtpbtnref` and `EditUserProfileMethod` show a spinner and
issue a request (`Call`); what `APIRequest` does synchronously decides whether
it is in flight, has failed and hidden the spinner, or has been dropped with the
spinner left behind. `LoginCompletion`, `RegisterCompletion`,
`ResendCompletion` and `UpdateCompletion` are the closures. Each picks an answer
(HTTP code and body), computes the verdict its `if` chain reaches and applies
all of that branch. `action(vc)` is the timer. `Serve` is the server carrying a
request out while its answer is awaited, separately from that answer, and
`ServeLate` the server carrying a verification out at any time after it was sent:
after its timeout, after a kill, while another customer signs in. `Trap` is `dictionaryObject!` on JSON
that is not an object. `Kill` ends the process between handlers,
`KillInRegister` inside the closure that writes the credentials, between the
key and the flag. Kills at the other points of that closure and of the login
closure leave, of these three keys, what a completed or a not yet started closure
followed by `Kill` leaves; the number, a fourth, is in `PhoneEntry`.
`showCountriesList` and `didSelectRow` are the vendored picker's: its view finds
the navigation controller at the root of the window and pushes
`CountryPickerViewController` ("Countries") on it; choosing a row pops it. As the
navigation bar is hidden there is no other way out of the list. Its search field
and sections are left out.

State: `root`, `stack` (view controllers, bottom first), `otp` (one record per
live `OTPVerificationVC`), `request`, `overlay` (the requests whose spinner is
on the window), `alert`, `defaults` (the three UserDefaults keys the flow
reads), `accepted`, the server's record of confirmed customers, and `posted`, the
customers for whom a verification was ever sent, which outlives the process.
`otp[vc].resendFailed` is a history flag used by `ResendOffered` only.

Left out of the data here: phone numbers and photos (in modules of their own),
names, messages and toasts; a
string of a code is reduced to "complete or not", a body to its kind and its
`status`, a customer to a model value, a key to the customer it was issued to.
`client_service` is written between key and flag with the same value pattern as
the key and read by no modelled handler.

### ApiCalls and the code

`Wrapping_APIs.swift` holds 73 functions of two shapes: a call of `APIRequest`
(get or post), or a copy of its body with a multipart upload (50 functions, 48
of them the same text but for the URL). Each reads the credentials from
UserDefaults when it is called, with the empty string for what is missing, and
some put the customer id or an argument into the URL. A definition such as
`AddressApis` gives name and shape of the functions of one stretch of the file.
`Issue` makes a call of any shape, `Respond` is the answer through
`responseData`, `IssueBadURL` the trap of `URL(string:)!`, and `SignInStep` any
step of `SignIn`, which ends the calls if it ends the process. The app's screens
call only `API_LogIN`, `API_Register` and `API_Resend_OTP`, which are part of
`SignIn`; for the others the model allows a call whenever the process runs.
`signedIn` in a call's record is a history flag.

### OTPView and the code

`entry[i]` is the number of characters in field `i`; as the app configures the
view (`otpFieldEntrySecureType` and `otpFilledEntryDisplay` false) the text and
`secureEntryData` hold the same string. `ReplaceText` is the branch of
`shouldChangeCharactersIn` for a non-empty result, `DeleteFieldText` and
`deleteBackward` the two deleting branches, `calls` the delegate calls of the
last step in order. `OtpEntry` sees of this the set of empty fields, whether some field
holds several characters (which is what `BackspaceInLongText` and a pasted code are
about), whether the view has the keyboard and whether the last step called
`enteredOTP`.

### PhoneEntry and the code

`EditNumber` is any edit of the text field that
`shouldChangeCharactersIn` lets through. The limit compares the place where the
edit starts with ten, not the length it leads to, so a paste or an insertion
before the end makes the number longer, and a deletion that starts past the
tenth character is refused. `OpenCountryList` and `didSelectCountry` open and
leave the country list, with the label that is set when it is gone. `Submitbtnref` has both branches of
`validateSignupCredentials`. `captured` holds the constants of
`LoginApiCalling` that its closure retains. `PhoneCompletion` is that closure
with its writes of the number and the customer and the hand-over to the code
screen, `KillInLogin` the end of the process between the two writes. `issued` is
the server's record; `IssueUnseen` is an entry that this phone never hears of. A number is the pair of country and text; the code stores
the two concatenated, which loses nothing, since only texts of exactly ten
characters get that far.

### ProfilePhoto and the code

`modal` is what `ImagePickerManager` presents and the place in the stack of the
`EditMyProfileVC` that opened it, `photo` the pair `selectedImge`,
`imageselected` of each screen of the stack. `pickImage`, `openGallery`,
`openCamera` (with the alert when there is no camera), `CancelPicking` and
`didFinishPickingMediaWithInfo` are the handlers. `UploadProfile` is
`Submitbtnref` with the form it builds. Everything that needs no touch goes on
below a picker (`Background`). `picked` is a history variable.

### StopWatch, CountdownLabel and the code

`StopWatch` has the computed properties of the class of that name; a text is the
sequence of its digits. `Tick` is the timer's `action`, label included. The
other handlers hide or show the label (in `SignIn`) and never set its text. A new
instance has the storyboard's text, which is no time.

### GifTiming and the code

`animatedImageWithSource`, one action per turn of a loop: `ReadImage` collects
images and delays, `gcdForArray`, `CallPair` and `gcdForPair` compute the
greatest common divisor, `AppendFrames` repeats each image, `animatedImage` returns the
animation. `TrapAtDelay` is the unchecked read of the delay of an image that has no
GIF properties or no delay among them (`keyed` false). A missing `UnclampedDelayTime`
alone is undefined behaviour; its two outcomes, that trap and a value of zero, are
both in the model. `TrapAtImage` is the read of `images[i]` past the end after an image
that could not be decoded was left out. Delays are in milliseconds. The first
lines of `gcdForPair` for missing arguments cannot be reached from its one caller.

## 3. Assumptions about the environment

* UIKit: a push or pop is atomic, with the completion closure that the country
  picker attaches to it. The navigation bar is hidden
  (`Main.storyboard:414`), so there is no back button or back swipe other than
  the app's own buttons, and the country list is left by choosing. The overlay stops touches on the window but
  not the keyboard. An alert stops both. An alert is refused when the presenter
  is not on top or an alert is already there. A key window exists when a spinner
  is shown. A backspace on an empty field reaches `deleteBackward` and on a
  filled one `shouldChangeCharactersIn`.
* UIKit, for the number and the photo: the text field keeps the keyboard while a
  spinner is shown. A sheet or picker takes every touch and keystroke, and is
  presented only by a view controller on top that presents nothing else. The
  manager lives as long as its picker, through the cycle of references between
  the two. `AF.upload` builds its form when it is called.
* UIKit, for the image: the frames of an animated image are shown for equal
  times.
* Server: it issues a customer id to one number only. It reports `status` 200
  only for a request it carried out, and confirms a code only for a customer id it
  issued and for which a code was sent to it. It may carry a verification out while
  the answer is awaited (`Serve`) or at any later time, whatever has become of the
  request, the process or the customer (`ServeLate`), and it may issue ids to numbers
  this phone knows nothing of (`IssueUnseen`). Carrying out a late sign-in, resend or
  profile update changes nothing that the app or a property sees, so those have no late
  form. Answers may be lost, delayed, garbled or replaced by any other status.
* Server, for the URLs: a customer id it issues can stand in a URL. `IssueBadURL`
  is about arguments of the caller; `API_Resend_OTP`, the one function called by a
  screen whose URL is not fixed, puts in the stored id only.
* Alamofire: `responseJSON` succeeds exactly for JSON (fragments allowed).

## 4. Runs

| Run | Checks | Shows |
|---|---|---|
| `SignInSafety` | `TypeOK`, `FlagMeansConfirmed`, `CustomerAgrees`, `ScreenOutlivesRequest`, `LoneRequests`, `PendingCovered`, `SpinnerLeftBehind`, `ResendOffered`, `OneSignInPath`, `IInv`, `SignedInForGood`, `ImplementsSession` | the flow is safe under every answer, reachability result, kill, late confirmation and interleaving of the instance; a spinner left behind stops it and nothing more |
| `SignInLiveness` | `SpinnerIffPending`, `SpinnerEnds`, `CountdownEnds` | under fairness, and answers the handlers provide for, nothing hangs |
| `ApiCallsSafety` | `CallsTypeOK`, `CallsOfOneCustomer` | a call made in a signed-in session stays with its customer, through late answers, kills and relaunches |
| `ApiCallsLiveness` | `NoCallDropped`, `CallerTold` | on both routes every caller is told, HTTP 401 and a nil reachability object apart |
| `OTPViewPaste` | `TypeOK`, `OneGap`, `FocusAtGap`, `ImplementsOtpEntry`, `EnteredWhenTyped` | the fields have no holes and close and open from the left, whatever was typed, pasted, deleted or tapped, and a code of one character per field is reported by the keystroke that completes it |
| `PhoneEntry` | `PhoneTypeOK`, `NumberOfCustomer` | the stored number is the one the stored customer was issued to, on every code screen and in a session, although the field is edited behind the spinner and a kill can come between the two writes |
| `ProfilePhoto` | `PhotoTypeOK`, `PickerAlone`, `PhotoKept` | nothing comes in while a picker is up, and the photo picked last is the one on the screen and in the form |
| `CountdownLabel` | `LabelShowsTimer`, `LabelCountsDown` | a visible label tells the seconds left and never starts over |
| `GifTiming` | `TypeOK`, `GcdRight`, `DelaysKept`, `FrameTimeIsGcd`, `Terminates`, `EveryTurnCounts` | the divisor is right, no division is by zero, every image has its time, and the loops end because each turn leaves less to do |
| `SignInCallMe`, `OTPViewAutofill`, `OTPViewEditing` | one documented statement each | the code does otherwise (section 6) |

Bounds. `SignInSafety`: two customers (so ids can be mixed up), two code
screens (one on the stack, one popped and still retained), two requests (so two
verifications, or a verification and a resend, overlap), `SessionSeconds = 2`
(running, last second, expired), every HTTP code `responseData` names plus "no
response", every kind of body, every status a handler names plus the default.
When all identities of `OtpVCs` or `ReqIds` are in use a new one cannot be
created; a third concurrent request or third live code screen would only repeat
what two do, and the proofs hold for any number of both. Customers, code screens and requests
are symmetric. `SignInLiveness` uses one customer, no symmetry, and
leaves out what is known to hang: HTTP 401, a nil reachability object, a status
no branch names, empty bodies and traps. `ApiCallsSafety` uses two customers, one
code screen, two requests of the sign-in flow and one call, since calls do not
affect each other; `ApiCallsLiveness` leaves out HTTP 401 and nil.
`OTPViewPaste` uses the app's four
fields and insertions of 1, 2 and 4 characters. `PhoneEntry` has numbers of one
character (`NumberLength`) in a field of at most two (`MaxText`), so empty,
complete and overlong texts occur, with insertions of at most two characters
(`MaxInsert`), two digits and two countries to tell numbers apart, and two
customers. `ProfilePhoto` has two photos, so one can replace the other, and two
requests, so a verification can still be pending when a profile screen is there.
`CountdownLabel` counts from 61, so that the minute rolls over. `GifTiming` has
files of up to three images (the third meets a divisor that is not a delay),
with delays below the minimum, zero, missing, equal and coprime up to a factor.

Fairness (`FairSpec`, `CFairSpec`): each completion and each answer to a call is weakly fair, because Alamofire ends every
request, if only with a timeout, and each countdown timer is weakly fair,
because the run loop fires valid timers. In `GifTiming` the one running function
is weakly fair, a called function runs; it may stop (`CHECK_DEADLOCK FALSE`),
since it returns or traps. Nothing is assumed of the user, the
server or the system.

Each property has a mutant: a slip in the code (an operator commented "Slip:")
under which TLC finds the property violated.

## 5. Proofs

Assumptions on constants: `CustomersAssumption`, `OtpVCsAssumption` (the ids do
not collide with the special values), `SecondsAssumption`, `NetsAssumption` in
`SignIn`; `FieldsAssumption`, `InsertionsAssumption`, `EditingAssumption` in
`OTPView`; `LabelAssumption` (the countdown is below an hour, 60 seconds in the
app; the text has no hours) in `CountdownLabel`; `PhoneAssumption` in
`PhoneEntry`, `PhotosAssumption` in `ProfilePhoto`; `GifAssumption` (delays are
natural numbers) in `GifTiming`. Three theorems, `SpinnerCorrect`,
`NoCallDroppedCorrect` and `OtpEntryCorrect`, have hypotheses of their own, stated in them. Nothing else is
assumed; in particular any finite or infinite number of customers, screens, requests,
HTTP codes and statuses is allowed.

* `SignInTypeProofs!TypeCorrect`: `Spec => []TypeOK`, one step per action.
* `SignInProofs!Inductive`: `Spec => []IInv`. The safety properties are not
  inductive alone. That a late completion does no harm depends on where the
  stack stands, which depends on what could be touched, which depends on the
  spinners. `IInv` has one part per link of that chain. `StackShape` is the one
  path, with a navigation controller exactly while it is shown; height 4 of it is a code
  screen or the country list, and only over a code screen there is more. `RequestShape`
  says that a request in flight is covered by its spinner, that its screen is at
  a fixed height of the stack, that it carries the stored customer, that a
  verification's customer is among those posted, and that a served one is in the
  server's record. `LoneRequests` says which requests can overlap.
  `CustomerShape` says that a code screen at height 4 (`CodeScreen`) is for the stored
  customer. `FlagShape` says that the flag stands for a confirmation, and that with it
  set the stack is past the code screen. The lemma that carries the confirmation
  through the handlers says that the verdict "ok" of a verification is only
  reached by an answer to a served request.
* From `IInv`: `FlagCorrect`, `CustomerCorrect`, `ScreensCorrect`,
  `RequestsCorrect`, `CoveredCorrect`, `PathCorrect`, and the action property `SignedInCorrect`.
* `SignInProofs!LeftBehindCorrect`: `Spec => []SpinnerLeftBehind`, for any answers.
  A spinner is left behind by a request that was alone or by a verification or
  resend on a code screen; under it nothing can be touched, so no sign-in or
  update starts; what goes on below it are verifications, typed behind it too, and a
  resend sent before it.
* `SignInProofs!SessionCorrect`: `Spec => ImplementsSession`. Each action
  falls into one of few effects on flag, customer, code screen, codes tried and
  record, and each effect is a step of `Session` or a stutter under the mapping. A
  late confirmation can be for a customer who is no longer challenged; what keeps the
  session right is that the app opens one only on the answer to a request that
  carries its own customer.
* `SignInProofs!SpinnerCorrect`: `Spec => []SpinnerIffPending`, under
  `AnswersProvidedFor`: reachability is never nil, no answer has HTTP 401 or comes
  without data, and a status is one of 200, 204, 400, 401, 403. Each hypothesis
  closes one way of leaving a spinner behind; a JSON fragment need not be excluded,
  as its trap takes the spinners with it, so this is more than `SignInLiveness`
  checks. Half of the property is in `IInv`; the other half (`NoStaleSpinner`) is
  inductive once the verdicts "silent" and, for the sign-in, "ignored" are shown out of
  reach (`VerdictsProvidedFor`).
* `ApiCallsProofs!CallsKeepSignIn`: `CSpec => Spec`, the composition is a
  sign-in flow, so all the above holds next to API calls. `CallsTypeCorrect`,
  and `CallsCorrect`: `CSpec => []CallsOfOneCustomer`, which is inductive given
  `FlagCorrect` (when the call is made) and `SignedInCorrect` (until its answer).
  `NoCallDroppedCorrect`: `CSpec => []NoCallDropped` if reachability is never nil and
  no answer has HTTP 401. It goes through the catalogue: every function uses a method
  that `APIRequest` switches on, or the upload's copy of it.
* `PhoneEntryProofs`: `NumberKeepsSignIn` (`PSpec => Spec`), `PhoneTypeCorrect`, and
  `NumberCorrect`: `PSpec => []NumberOfCustomer`. The inductive invariant
  `NumberShape` names the code screen by its height in the stack: a sign-in in
  flight has captured a complete number, the screen at height 4 shows the stored
  one, and the stored customer's record is that number while there is such a
  screen or a session. Between a kill and the next sign-in nothing is said, which
  is what lets the two writes be torn. A completion that stores a new number meets no code
  screen and no session, by `RequestShape` and `FlagShape`.
* `ProfilePhotoProofs`: `PickerCorrect` (`HSpec => []PickerAlone`, since what needs
  no touch is a completion, of which none is pending, a timer or the server),
  `PhotoKeepsSignIn` (`HSpec => Spec`), `PhotoTypeCorrect`, and `PhotoCorrect`:
  `HSpec => []PhotoKept`. A profile screen is only ever pushed with an empty photo,
  and a photo is picked only with nothing pending, so no late verification can put
  an empty screen over it.
* `OTPViewProofs!TypeCorrect`, `GapCorrect`, `FocusCorrect`: types, the single
  gap and the keyboard at its edge, for any number of fields and any insertion
  lengths. `EnteredCorrect`: `Spec => EnteredWhenTyped`. The code counts characters
  where the property counts fields; that the sum over fields of at most one
  character is their number exactly if none is empty is an induction over the
  fields. `OtpEntryCorrect`: `Spec => ImplementsOtpEntry` without intermediate
  editing. It needs the inductive invariant of the gap: only with the keyboard at the
  gap's left end does each keystroke close or open the field that `OtpEntry` says, and
  only because of it the keyboard is given up where no gap is left.
* `CountdownProofs`: `TimeAddsUp`, the parts of a time add up to it.
  `ResendCorrect`: `Spec => []ResendOffered`. The inductive invariant `ClockInv`
  adds to it that no resend is pending next to a running timer, for screens that
  were left too, and it needs `IInv`: two resends never overlap, so an answered
  one leaves none pending. Every step has one of eight effects on a
  screen's clock (`ClockEffect`). `LabelCorrect` and `LabelDown`:
  `LSpec => []LabelShowsTimer` and `LSpec => LabelCountsDown`. A resend that
  restarts the timer leaves the old text, which is sound only because the
  stopped timer has hidden the label, and that is a part of `ClockInv`; the text itself is read
  back digit by digit (`TextReadsAsTime`).
* `GifTimingProofs!GifInductive`: `ReadShape` says what the first loop has
  collected, `GcdShape` that the common divisors of `a` and `b` are those of the
  delays read so far (Euclid's step), `FrameShape` what the second loop has
  appended. From them
  `GifTypeCorrect` (no division by zero included), `GcdCorrect` and
  `DelaysCorrect`, for any number of images and any delays. `FrameTimeCorrect`:
  `Spec => []FrameTimeIsGcd`, with the sum of the library's `SumFunction` taken apart
  (`SumFunctionIs`) and shown to scale (`SumScales`). `TurnsCorrect`:
  `Spec => EveryTurnCounts`, every step lowers loops, turns and divisor in
  lexicographic order. That is all of the argument for `Terminates` but the
  fairness.

Induction. The library's induction theorems take an operator as a parameter, which
the provers cannot instantiate. The two inductions over sums are therefore arguments by
least counterexample, over a set instead of a predicate: `Induct` in
`OTPViewProofs` and `LeastNumber`, `MinimalSubset` in `GifTimingProofs`.

Model-checked only: liveness (`SpinnerEnds`, `CountdownEnds`, `CallerTold`,
`Terminates`), which needs fairness and ENABLED and is out of the prover's reach.
The three properties of the runs that expect a violation are false of the code, and
so not for proof. Every other property of a run is a theorem.

## 6. Findings

Disagreements between the code and what a comment or a screen says, each with a
run whose property states the comment and is violated:

* `OTPViewAutofill`: a whole code inserted into one field is reported with
  the others empty (`VPMOTPView.swift:41`).
* `OTPViewEditing`: fields before the last filled one can be edited
  (`VPMOTPView.swift:102`).
* `SignInCallMe`: "Call me" goes on to the profile without a verification
  (`Main.storyboard:744`). The flag stays unset, so a relaunch starts over.

Observations without a run: two accepted concurrent verifications push the
profile screen twice; an accepted answer without `auth_key` stores an empty key
with the flag set; an answer without `customer_id` signs in customer "0"; the
`timeoutIntervalForRequest` of `APIRequest` has no effect, since
`session.configuration` is a copy; a kill between the write of the key and the
write of the flag leaves a key that later requests of another customer's sign-in
carry in their header until that sign-in completes; a kill between the writes of
number and customer leaves the number of one and the id of another, unused until
the next sign-in overwrites both. `enteredOTP` is called before
`hasEnteredAllOTP`, where the comment at `VPMOTPView.swift:41` has it last. Four
characters are taken where the screen asks for a 6-digit code
(`Main.storyboard:744`). The number field grows past ten characters by paste or
by insertion before the end, and then refuses a deletion after the tenth; the
validation on submit stops such a number. `Int(delay * 1000.0)` makes 2009
of 2.01 seconds, so a file's divisor can drop to 1 and its frames
multiply by the thousand. An image of the file that cannot be decoded makes the loop over the
frames read past the end, and one without delays traps when they are read; the
bundled file has neither.

## 7. Not modelled, and the plan

What the app's own code does to its state is modelled. Left out, and why:

* Dashboard screens: static, without state or requests.
* Version check (`AppUpdater`): called by nothing.
* `EditMyProfileVC.DeleteProfilepicMthod`: called by nothing.
* The document picker of `ImagePickerManager`: its one caller passes
  `isDocumentNeed` false.
* Core Data stack: template code without entities. Address models: decoding
  structures that no screen uses. Constants: URLs and keys. UI helpers, drawing
  and layout.
* The pods under `src/ThorChat/Pods` (Firebase, gRPC, BoringSSL, Alamofire and
  others): third-party code, nearly all of the C, C++ and Objective-C of the
  repository. The app calls Alamofire, whose behaviour enters the model
  through section 3, ObjectMapper, whose result is the record of a body, and
  CountryPickerView, whose push, pop and callback are actions of `SignIn` and
  `PhoneEntry`. So the project maps none of the repository's lines of C, C++ or
  Objective-C, and of its Swift the app's own code that runs and changes state and
  the lines of the picker that do.

Planned: shorter proofs where a lemma can serve several modules, in particular what
the compositions (`ApiCalls`, `PhoneEntry`, `ProfilePhoto`, `CountdownLabel`) each say
of a step of `SignIn`; and, for the liveness properties, the safety part of
the argument as it is done for `Terminates`, where it says more than its run.
