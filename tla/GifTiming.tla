------------------------------ MODULE GifTiming ------------------------------
(***************************************************************************)
(* The spinner's animated image: UIImage.animatedImageWithSource and its      *)
(* gcdForArray, gcdForPair and delayForImageAtIndex, which PUGIFLoading.show  *)
(* runs on the main thread for every request.                               *)
(*                                                                         *)
(* UIKit shows the frames of an animation for equal times, so an image with a  *)
(* longer delay is repeated: delay / gcd times, where gcd is that of all        *)
(* delays.  The images and the delays are collected in one loop, but an image   *)
(* that cannot be decoded is left out of its array while its delay is not.      *)
(* The properties of an image are read without asking whether they are there.   *)
(* Delays are in milliseconds, as Int(seconds * 1000.0) yields them, which is   *)
(* one less for a few: 2.01 seconds become 2009.                             *)
(***************************************************************************)
EXTENDS Integers, Sequences, Functions

CONSTANTS
  MaxFrames,   \* bound: images in the source
  Unclamped,   \* values of the property UnclampedDelayTime (0: none)
  DelayTimes   \* values of the property DelayTime

ASSUME GifAssumption == MaxFrames \in Nat /\ Unclamped \subseteq Nat /\ DelayTimes \subseteq Nat

\* keyed: the image has the dictionary and the delay properties that are read.
SourceImage ==
  [keyed : BOOLEAN, unclamped : Unclamped, delayTime : DelayTimes, decodable : BOOLEAN]
Sources == UNION {[1..n -> SourceImage] : n \in 0..MaxFrames}

VARIABLES
  source,   \* the images of the file
  pc,       \* the loop that runs: "read", "array", "pair", "frames"; "done", "trap"
  i,        \* that loop's index
  images,   \* the images decoded, by their place in the source
  delays,   \* the delay of every image
  gcd,      \* gcdForArray's result so far
  a, b,     \* gcdForPair's variables
  frames    \* the frames appended so far: an image and how often

vars == <<source, pc, i, images, delays, gcd, a, b, frames>>

count == Len(source)
duration == SumFunction(delays)

-----------------------------------------------------------------------------

\* Slip: short delays are not raised.
delayForImageAtIndex_NoMinimum(image) ==
  IF image.unclamped = 0 THEN image.delayTime ELSE image.unclamped

\* The unclamped delay unless it is zero, and a tenth of a second at least.
delayForImageAtIndex(image) ==
  LET delay == IF image.unclamped = 0 THEN image.delayTime ELSE image.unclamped
  IN IF delay < 100 THEN 100 ELSE delay

Init ==
  /\ source \in Sources
  /\ pc = "read" /\ i = 1
  /\ images = <<>> /\ delays = <<>> /\ frames = <<>>
  /\ gcd = 1 /\ a = 1 /\ b = 1

\* unsafeBitCast of a property that is missing, or the cast of nothing to a Double.
TrapAtDelay ==
  /\ pc = "read" /\ i <= count /\ ~source[i].keyed
  /\ pc' = "trap"
  /\ UNCHANGED <<source, i, images, delays, gcd, a, b, frames>>

ReadImage ==
  /\ pc = "read" /\ i <= count /\ source[i].keyed
  /\ images' = IF source[i].decodable THEN Append(images, i) ELSE images
  /\ delays' = Append(delays, delayForImageAtIndex(source[i]))
  /\ i' = i + 1
  /\ UNCHANGED <<source, pc, gcd, a, b, frames>>

\* gcdForArray: 1 for no delays, otherwise the first delay to begin with.
gcdForArray ==
  /\ pc = "read" /\ i > count
  /\ IF delays = <<>> THEN gcd' = 1 /\ pc' = "frames" ELSE gcd' = delays[1] /\ pc' = "array"
  /\ i' = 1
  /\ UNCHANGED <<source, images, delays, a, b, frames>>

\* Its loop calls gcdForPair(val, gcd), which puts the larger number first.
CallPair ==
  /\ pc = "array" /\ i <= Len(delays)
  /\ pc' = "pair"
  /\ IF delays[i] < gcd THEN a' = gcd /\ b' = delays[i] ELSE a' = delays[i] /\ b' = gcd
  /\ UNCHANGED <<source, i, images, delays, gcd, frames>>

\* Slip: the divisor is not replaced by the remainder.
gcdForPair_KeepsDivisor ==
  /\ pc = "pair"
  /\ LET rest == a % b IN
     IF rest = 0
     THEN gcd' = b /\ pc' = "array" /\ i' = i + 1 /\ UNCHANGED <<a, b>>
     ELSE a' = rest /\ UNCHANGED <<b, pc, i, gcd>>
  /\ UNCHANGED <<source, images, delays, frames>>

\* Slip: the last remainder but one is taken for the result.
gcdForPair_ReturnsDividend ==
  /\ pc = "pair"
  /\ LET rest == a % b IN
     IF rest = 0
     THEN gcd' = a /\ pc' = "array" /\ i' = i + 1 /\ UNCHANGED <<a, b>>
     ELSE a' = b /\ b' = rest /\ UNCHANGED <<pc, i, gcd>>
  /\ UNCHANGED <<source, images, delays, frames>>

\* One turn of gcdForPair's endless loop; it returns when the division comes out
\* even.
gcdForPair ==
  /\ pc = "pair"
  /\ LET rest == a % b IN
     IF rest = 0
     THEN gcd' = b /\ pc' = "array" /\ i' = i + 1 /\ UNCHANGED <<a, b>>
     ELSE a' = b /\ b' = rest /\ UNCHANGED <<pc, i, gcd>>
  /\ UNCHANGED <<source, images, delays, frames>>

StartFrames ==
  /\ pc = "array" /\ i > Len(delays)
  /\ pc' = "frames" /\ i' = 1
  /\ UNCHANGED <<source, images, delays, gcd, a, b, frames>>

\* images[i] is out of range when an image was left out.
TrapAtImage ==
  /\ pc = "frames" /\ i <= count /\ i > Len(images)
  /\ pc' = "trap"
  /\ UNCHANGED <<source, i, images, delays, gcd, a, b, frames>>

\* Slip: one frame more than the delay calls for.
AppendFrames_OneMore ==
  /\ pc = "frames" /\ i <= count /\ i <= Len(images)
  /\ frames' = Append(frames, [image |-> images[i], times |-> delays[i] \div gcd + 1])
  /\ i' = i + 1
  /\ UNCHANGED <<source, pc, images, delays, gcd, a, b>>

AppendFrames ==
  /\ pc = "frames" /\ i <= count /\ i <= Len(images)
  /\ frames' = Append(frames, [image |-> images[i], times |-> delays[i] \div gcd])
  /\ i' = i + 1
  /\ UNCHANGED <<source, pc, images, delays, gcd, a, b>>

animatedImage ==
  /\ pc = "frames" /\ i > count
  /\ pc' = "done"
  /\ UNCHANGED <<source, i, images, delays, gcd, a, b, frames>>

Next ==
  \/ TrapAtDelay
  \/ ReadImage
  \/ gcdForArray
  \/ CallPair
  \/ gcdForPair
  \/ StartFrames
  \/ TrapAtImage
  \/ AppendFrames
  \/ animatedImage

Spec == Init /\ [][Next]_vars

\* A function that is called runs.
FairSpec == Spec /\ WF_vars(Next)

-----------------------------------------------------------------------------
(* Properties. *)

Milliseconds == {n \in Nat : n >= 100}

\* Every variable keeps its type.  The delays are positive, and so are the
\* numbers gcdForPair divides by and the gcd the delays are divided by.
TypeOK ==
  /\ source \in Sources
  /\ pc \in {"read", "array", "pair", "frames", "done", "trap"}
  /\ i \in Nat \ {0}
  /\ images \in Seq(Nat \ {0})
  /\ delays \in Seq(Milliseconds)
  /\ gcd \in Nat \ {0} /\ a \in Nat \ {0} /\ b \in Nat \ {0}
  /\ frames \in Seq([image : Nat, times : Nat])

Divides(d, n) == \E q \in 0..n : n = d * q

\* gcdForArray returns the greatest common divisor of the delays: a number divides
\* it exactly if it divides every delay.
GcdRight ==
  pc \in {"frames", "done"} /\ delays # <<>> =>
    \A d \in 1..delays[1] : Divides(d, gcd) <=> \A k \in 1..Len(delays) : Divides(d, delays[k])

\* The animation that is returned shows every image of the file, in order, as
\* often as its own delay holds the gcd.  With an image or a delay missing there is
\* a trap, never an animation whose images and delays are out of step.
DelaysKept ==
  pc = "done" =>
    /\ \A k \in 1..count : source[k].decodable /\ source[k].keyed
    /\ Len(frames) = count
    /\ \A k \in 1..count : frames[k].image = k /\ frames[k].times * gcd = delays[k]

\* UIKit gives each frame the same part of duration, and that part is the gcd: so
\* every image is on the screen for exactly its delay.
FrameTimeIsGcd ==
  pc = "done" => duration = gcd * SumFunction([k \in DOMAIN frames |-> frames[k].times])

\* The endless loop of gcdForPair ends, and with it the work before a spinner is
\* shown.
Terminates == <>(pc \in {"done", "trap"})

\* The loops still to run, this one included, the turns left in it, and a bound on
\* the divisors gcdForPair still has to try.
LoopsLeft ==
  CASE pc = "read" -> 3
    [] pc \in {"array", "pair"} -> 2
    [] pc = "frames" -> 1
    [] pc \in {"done", "trap"} -> 0
TurnsLeft == count + 1 - i
Divisor == IF pc = "pair" THEN b ELSE gcd + 1

\* Why the loops end, gcdForPair's while true too: every turn leaves fewer loops, or
\* fewer turns of the same loop, or within one turn a smaller divisor.
EveryTurnCounts ==
  [][/\ TurnsLeft' >= 0 /\ Divisor' > 0
     /\ \/ LoopsLeft' < LoopsLeft
        \/ LoopsLeft' = LoopsLeft /\ TurnsLeft' < TurnsLeft
        \/ LoopsLeft' = LoopsLeft /\ TurnsLeft' = TurnsLeft /\ Divisor' < Divisor]_vars
=============================================================================
