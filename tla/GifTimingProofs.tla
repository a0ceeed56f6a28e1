--------------------------- MODULE GifTimingProofs ---------------------------
(***************************************************************************)
(* What animatedImageWithSource computes, for any number of images and any   *)
(* delays: gcdForArray's result is the greatest common divisor, no division   *)
(* is by zero, images and delays stay in step, each image is shown for its    *)
(* delay, and every turn of a loop is one fewer to go.                       *)
(***************************************************************************)
EXTENDS GifTiming, FiniteSetTheorems, TLAPS

Positive == Nat \ {0}

-----------------------------------------------------------------------------
(* Division. *)

LEMMA DivisionFact ==
  ASSUME NEW n \in Positive, NEW m \in Positive
  PROVE  /\ n = m * (n \div m) + (n % m)
         /\ n \div m \in Nat /\ n % m \in Nat /\ n % m < m
BY DEF Positive

LEMMA FactorBound ==
  ASSUME NEW d \in Positive, NEW q \in Int, NEW n \in Nat, n = d * q
  PROVE  q \in 0..n
<1>1. q >= 0
  BY DEF Positive
<1>2. d * q >= q
  BY <1>1 DEF Positive
<1> QED
  BY <1>1, <1>2

LEMMA DividesBy ==
  ASSUME NEW d \in Positive, NEW q \in Int, NEW n \in Nat, n = d * q
  PROVE  Divides(d, n)
BY FactorBound DEF Divides

\* The turn of gcdForPair's loop keeps the common divisors of its two numbers.
LEMMA RemainderDivisors ==
  ASSUME NEW d \in Positive, NEW n \in Positive, NEW m \in Positive
  PROVE  Divides(d, n) /\ Divides(d, m) <=> Divides(d, m) /\ Divides(d, n % m)
<1> DEFINE k == n \div m
           rest == n % m
<1>0. n = m * k + rest /\ k \in Nat /\ rest \in Nat
  BY DivisionFact
<1> HIDE DEF k, rest
<1>1. ASSUME Divides(d, n), Divides(d, m) PROVE Divides(d, rest)
  <2>1. PICK p \in 0..n : n = d * p
    BY <1>1 DEF Divides
  <2>2. PICK q \in 0..m : m = d * q
    BY <1>1 DEF Divides
  <2>3. p \in Int /\ q \in Int /\ d \in Int /\ k \in Int /\ n \in Int /\ rest \in Int
    BY <1>0 DEF Positive
  <2>4. rest = d * p - (d * q) * k
    BY <1>0, <2>1, <2>2, <2>3
  <2>5. rest = d * (p - q * k) /\ p - q * k \in Int
    BY <2>3, <2>4
  <2> QED
    BY <1>0, <2>5, DividesBy
<1>2. ASSUME Divides(d, m), Divides(d, rest) PROVE Divides(d, n)
  <2>1. PICK p \in 0..rest : rest = d * p
    BY <1>2 DEF Divides
  <2>2. PICK q \in 0..m : m = d * q
    BY <1>2 DEF Divides
  <2>3. p \in Int /\ q \in Int /\ d \in Int /\ k \in Int /\ n \in Nat
    BY <1>0, <2>1, <2>2 DEF Positive
  <2>4. n = (d * q) * k + d * p
    BY <1>0, <2>1, <2>2, <2>3
  <2>5. n = d * (q * k + p) /\ q * k + p \in Int
    BY <2>3, <2>4
  <2> QED
    BY <2>3, <2>5, DividesBy
<1> QED
  BY <1>1, <1>2 DEF rest

LEMMA EvenDivision ==
  ASSUME NEW d \in Positive, NEW n \in Positive, NEW m \in Positive, n % m = 0
  PROVE  Divides(d, n) /\ Divides(d, m) <=> Divides(d, m)
<1>1. Divides(d, 0)
  BY DividesBy, 0 = d * 0 DEF Positive
<1> QED
  BY <1>1, RemainderDivisors

LEMMA DividesItself ==
  ASSUME NEW n \in Positive PROVE Divides(n, n)
BY DividesBy, n = n * 1 DEF Positive

LEMMA ExactQuotient ==
  ASSUME NEW d \in Positive, NEW n \in Positive, Divides(d, n)
  PROVE  (n \div d) * d = n
<1>1. PICK q \in 0..n : n = d * q
  BY DEF Divides
<1>2. n = d * (n \div d) + (n % d) /\ n \div d \in Nat /\ n % d \in Nat /\ n % d < d
  BY DivisionFact
<1> DEFINE k == n \div d
           rest == n % d
<1>3. d * q = d * k + rest /\ k \in Int /\ rest \in Nat /\ rest < d /\ q \in Int /\ d \in Int
  BY <1>1, <1>2 DEF Positive
<1> HIDE DEF k, rest
<1>4. rest = d * (q - k)
  BY <1>3
<1>5. rest = 0
  <2>1. q - k \in Int
    BY <1>3
  <2>2. CASE q - k <= 0
    <3>1. d * (q - k) <= 0
      BY <2>2, <2>1 DEF Positive
    <3> QED
      BY <1>3, <1>4, <3>1
  <2>3. CASE q - k >= 1
    <3>1. d * (q - k) >= d
      BY <2>3, <2>1 DEF Positive
    <3> QED
      BY <1>3, <1>4, <3>1
  <2> QED
    BY <2>1, <2>2, <2>3
<1> QED
  BY <1>2, <1>5 DEF k, rest, Positive

-----------------------------------------------------------------------------
(* The invariant. *)

\* The first loop: a delay per image, an image only if it was decoded.
ReadShape ==
  /\ pc = "read" => i <= count + 1 /\ Len(delays) = i - 1
  /\ pc \notin {"read", "trap"} => Len(delays) = count
  /\ \A k \in 1..Len(delays) : source[k].keyed
  /\ Len(images) <= Len(delays)
  /\ Len(images) = Len(delays) =>
       \A k \in 1..Len(images) : images[k] = k /\ source[k].decodable

\* gcd has the common divisors of the delays it has seen, a and b those of gcd and
\* the next delay.
GcdShape ==
  /\ pc \in {"array", "pair"} =>
       /\ delays # <<>> /\ i <= Len(delays) + 1 /\ gcd <= delays[1]
       /\ \A d \in 1..delays[1] : Divides(d, gcd) <=>
            Divides(d, delays[1]) /\ \A k \in 1..i-1 : Divides(d, delays[k])
  /\ pc = "pair" =>
       /\ i <= Len(delays) /\ b <= gcd
       /\ \A d \in 1..delays[1] :
            Divides(d, a) /\ Divides(d, b) <=> Divides(d, gcd) /\ Divides(d, delays[i])
  /\ pc \in {"frames", "done"} /\ delays # <<>> => gcd <= delays[1]
  /\ GcdRight

\* The last loop: one block of frames per image.
FrameShape ==
  /\ pc \in {"read", "array", "pair"} => frames = <<>>
  /\ pc = "frames" => i <= count + 1 /\ Len(frames) = i - 1
  /\ pc = "done" => Len(frames) = count
  /\ Len(frames) <= Len(images) /\ Len(frames) <= Len(delays)
  /\ \A k \in 1..Len(frames) : frames[k] = [image |-> images[k], times |-> delays[k] \div gcd]

GInv == ReadShape /\ GcdShape /\ FrameShape

-----------------------------------------------------------------------------
(* Types. *)

LEMMA SourceIsSeq == TypeOK => source \in Seq(SourceImage) /\ count \in Nat
<1> SUFFICES ASSUME TypeOK PROVE source \in Seq(SourceImage) /\ count \in Nat
  OBVIOUS
<1>1. PICK n \in 0..MaxFrames : source \in [1..n -> SourceImage]
  BY DEF TypeOK, Sources
<1>2. n \in Nat
  BY <1>1, GifAssumption
<1>3. source \in Seq(SourceImage)
  BY <1>1, <1>2
<1> QED
  BY <1>3 DEF count

LEMMA DelayType ==
  ASSUME NEW image \in SourceImage PROVE delayForImageAtIndex(image) \in Milliseconds
<1>1. image.unclamped \in Nat /\ image.delayTime \in Nat
  BY GifAssumption DEF SourceImage
<1> QED
  BY <1>1 DEF delayForImageAtIndex, Milliseconds

LEMMA RemainderType ==
  ASSUME TypeOK, a % b # 0 PROVE a % b \in Nat \ {0}
<1>1. a \in Positive /\ b \in Positive
  BY DEF TypeOK, Positive
<1> QED
  BY <1>1, DivisionFact

LEMMA QuotientType ==
  ASSUME TypeOK, NEW k \in 1..Len(delays) PROVE delays[k] \div gcd \in Nat
<1>1. delays[k] \in Positive /\ gcd \in Positive
  BY DEF TypeOK, Milliseconds, Positive
<1> QED
  BY <1>1, DivisionFact

LEMMA GifTypeInit == Init => TypeOK
<1> SUFFICES ASSUME Init PROVE TypeOK
  OBVIOUS
<1>1. <<>> \in Seq(Nat \ {0}) /\ <<>> \in Seq(Milliseconds) /\ <<>> \in Seq([image : Nat, times : Nat])
  OBVIOUS
<1> QED
  BY <1>1 DEF Init, TypeOK

LEMMA GifTypeStep == TypeOK /\ ReadShape /\ [Next]_vars => TypeOK'
<1> SUFFICES ASSUME TypeOK, ReadShape, [Next]_vars PROVE TypeOK'
  OBVIOUS
<1> USE DEF TypeOK
<1>1. CASE ReadImage
  <2>1. i \in 1..Len(source) /\ source[i] \in SourceImage
    BY <1>1, SourceIsSeq DEF ReadImage, count
  <2>2. images' \in Seq(Nat \ {0})
    <3>1. Append(images, i) \in Seq(Nat \ {0})
      OBVIOUS
    <3> QED
      BY <1>1, <3>1 DEF ReadImage
  <2>3. delays' \in Seq(Milliseconds)
    BY <1>1, <2>1, DelayType DEF ReadImage
  <2> QED
    BY <1>1, <2>2, <2>3 DEF ReadImage
<1>2. CASE gcdForArray
  <2>1. gcd' \in Nat \ {0}
    BY <1>2 DEF gcdForArray, Milliseconds
  <2> QED
    BY <1>2, <2>1 DEF gcdForArray
<1>3. CASE CallPair
  <2>1. delays[i] \in Nat \ {0}
    BY <1>3 DEF CallPair, Milliseconds
  <2> QED
    BY <1>3, <2>1 DEF CallPair
<1>4. CASE gcdForPair
  BY <1>4, RemainderType DEF gcdForPair
<1>5. CASE StartFrames
  BY <1>5 DEF StartFrames
<1>6. CASE TrapAtImage \/ TrapAtDelay
  BY <1>6 DEF TrapAtImage, TrapAtDelay
<1>7. CASE AppendFrames
  <2>1. i \in 1..Len(images) /\ i \in 1..Len(delays)
    BY <1>7 DEF AppendFrames, ReadShape
  <2>2. [image |-> images[i], times |-> delays[i] \div gcd] \in [image : Nat, times : Nat]
    BY <2>1, QuotientType
  <2>3. frames' \in Seq([image : Nat, times : Nat])
    BY <1>7, <2>2 DEF AppendFrames
  <2> QED
    BY <1>7, <2>3 DEF AppendFrames
<1>8. CASE animatedImage
  BY <1>8 DEF animatedImage
<1>9. CASE UNCHANGED vars
  BY <1>9 DEF vars
<1> QED
  BY <1>1, <1>2, <1>3, <1>4, <1>5, <1>6, <1>7, <1>8, <1>9 DEF Next

-----------------------------------------------------------------------------
(* The first loop. *)

LEMMA ReadStep == TypeOK /\ ReadShape /\ [Next]_vars => ReadShape'
<1> SUFFICES ASSUME TypeOK, ReadShape, [Next]_vars PROVE ReadShape'
  OBVIOUS
<1>1. CASE ReadImage
  <2>1. i \in Nat /\ Len(delays) = i - 1 /\ count \in Nat /\ i <= count
    BY <1>1, SourceIsSeq DEF ReadImage, ReadShape, TypeOK
  <2>2. count' = count /\ source' = source /\ pc' = pc /\ i' = i + 1
    BY <1>1 DEF ReadImage, count
  <2>3. Len(delays') = Len(delays) + 1
    BY <1>1, DelayType DEF ReadImage, TypeOK
  <2>4. \A k \in 1..Len(delays') : source'[k].keyed
    <3>1. source[i].keyed
      BY <1>1 DEF ReadImage
    <3>2. ASSUME NEW k \in 1..Len(delays') PROVE k = i \/ k \in 1..Len(delays)
      BY <2>1, <2>3
    <3> QED
      BY <2>2, <3>1, <3>2 DEF ReadShape
  <2>5. CASE source[i].decodable
    <3>1. images' = Append(images, i)
      BY <1>1, <2>5 DEF ReadImage
    <3>2. /\ Len(images') = Len(images) + 1
          /\ \A k \in 1..Len(images) : images'[k] = images[k]
          /\ images'[Len(images) + 1] = i
      BY <3>1, <2>1 DEF TypeOK
    <3>3. ASSUME Len(images') = Len(delays'), NEW k \in 1..Len(images')
          PROVE  images'[k] = k /\ source'[k].decodable
      <4>1. Len(images) = Len(delays) /\ Len(images) + 1 = i
        BY <2>1, <2>3, <3>2, <3>3 DEF TypeOK
      <4>2. CASE k = i
        BY <2>2, <2>5, <3>2, <4>1, <4>2
      <4>3. CASE k # i
        <5>1. k \in 1..Len(images)
          BY <2>1, <3>2, <4>1, <4>3 DEF TypeOK
        <5> QED
          BY <2>2, <3>2, <4>1, <5>1 DEF ReadShape
      <4> QED
        BY <4>2, <4>3
    <3> QED
      BY <1>1, <2>1, <2>2, <2>3, <2>4, <3>2, <3>3 DEF ReadShape, TypeOK, ReadImage
  <2>6. CASE ~source[i].decodable
    <3>1. images' = images
      BY <1>1, <2>6 DEF ReadImage
    <3> QED
      BY <1>1, <2>1, <2>2, <2>3, <2>4, <3>1 DEF ReadShape, TypeOK, ReadImage
  <2> QED
    BY <2>5, <2>6
<1>2. CASE gcdForArray
  <2>1. Len(delays) = count
    BY <1>2, SourceIsSeq DEF gcdForArray, ReadShape, TypeOK
  <2> QED
    BY <1>2, <2>1 DEF gcdForArray, ReadShape, count
<1>3. CASE CallPair \/ gcdForPair \/ StartFrames \/ TrapAtImage \/ AppendFrames \/ animatedImage
  <2>1. pc \notin {"read", "trap"} /\ pc' # "read" /\ UNCHANGED <<source, images, delays>>
    BY <1>3 DEF CallPair, gcdForPair, StartFrames, TrapAtImage, AppendFrames, animatedImage
  <2> QED
    BY <2>1 DEF ReadShape, count
<1>4. CASE UNCHANGED vars
  BY <1>4 DEF vars, ReadShape, count
<1>5. CASE TrapAtDelay
  BY <1>5 DEF TrapAtDelay, ReadShape, count
<1> QED
  BY <1>1, <1>2, <1>3, <1>4, <1>5 DEF Next

-----------------------------------------------------------------------------
(* The greatest common divisor. *)

LEMMA FirstDelay == TypeOK /\ delays # <<>> => delays[1] \in Positive /\ Len(delays) >= 1
BY DEF TypeOK, Milliseconds, Positive

\* A turn that returns: the result has the common divisors of a and b.
LEMMA PairReturns ==
  ASSUME TypeOK, GcdShape, pc = "pair", a % b = 0,
         gcd' = b, pc' = "array", i' = i + 1, UNCHANGED delays
  PROVE  GcdShape'
<1>1. a \in Positive /\ b \in Positive /\ i \in Positive /\ gcd \in Positive
  BY DEF TypeOK, Positive
<1>2. /\ delays # <<>> /\ gcd <= delays[1] /\ i <= Len(delays) /\ b <= gcd
      /\ delays[1] \in Positive
  BY FirstDelay DEF GcdShape
<1>3. b <= delays[1] /\ i + 1 <= Len(delays) + 1
  BY <1>1, <1>2 DEF TypeOK, Positive
<1>4. ASSUME NEW d \in 1..delays[1]
      PROVE  Divides(d, b) <=>
               Divides(d, delays[1]) /\ \A k \in 1..(i + 1) - 1 : Divides(d, delays[k])
  <2>1. d \in Positive
    BY <1>2 DEF Positive
  <2>2. Divides(d, b) <=> Divides(d, gcd) /\ Divides(d, delays[i])
    BY <1>1, <2>1, EvenDivision DEF GcdShape
  <2>3. Divides(d, gcd) <=> Divides(d, delays[1]) /\ \A k \in 1..i-1 : Divides(d, delays[k])
    BY DEF GcdShape
  <2>4. \A k : k \in 1..(i + 1) - 1 <=> k \in 1..i-1 \/ k = i
    BY <1>1 DEF Positive
  <2> QED
    BY <2>2, <2>3, <2>4
<1> QED
  BY <1>2, <1>3, <1>4 DEF GcdShape, GcdRight

\* A turn that goes on: the common divisors stay the same, the divisor shrinks.
LEMMA PairGoesOn ==
  ASSUME TypeOK, GcdShape, pc = "pair", a % b # 0,
         a' = b, b' = a % b, UNCHANGED <<pc, i, gcd, delays>>
  PROVE  GcdShape'
<1>1. a \in Positive /\ b \in Positive /\ gcd \in Nat /\ a % b \in Nat /\ a % b < b
  BY DivisionFact DEF TypeOK, Positive
<1>2. b' <= gcd
  BY <1>1 DEF GcdShape, Positive
<1>3. ASSUME NEW d \in 1..delays[1]
      PROVE  Divides(d, b) /\ Divides(d, a % b) <=> Divides(d, gcd) /\ Divides(d, delays[i])
  <2>1. d \in Positive
    BY FirstDelay DEF GcdShape, Positive
  <2> QED
    BY <1>1, <2>1, RemainderDivisors DEF GcdShape
<1> QED
  BY <1>2, <1>3 DEF GcdShape, GcdRight

LEMMA GcdStep == TypeOK /\ GcdShape /\ [Next]_vars => GcdShape'
<1> SUFFICES ASSUME TypeOK, GcdShape, [Next]_vars PROVE GcdShape'
  OBVIOUS
<1>1. CASE ReadImage
  BY <1>1 DEF ReadImage, GcdShape, GcdRight
<1>2. CASE gcdForArray
  <2>1. CASE delays = <<>>
    BY <1>2, <2>1 DEF gcdForArray, GcdShape, GcdRight
  <2>2. CASE delays # <<>>
    BY <1>2, <2>2, FirstDelay DEF gcdForArray, GcdShape, GcdRight, Positive, TypeOK
  <2> QED
    BY <2>1, <2>2
<1>3. CASE CallPair
  <2>1. delays[i] \in Nat /\ gcd \in Nat
    BY <1>3 DEF CallPair, TypeOK, Milliseconds
  <2>2. b' <= gcd /\ ((a' = gcd /\ b' = delays[i]) \/ (a' = delays[i] /\ b' = gcd))
    BY <1>3, <2>1 DEF CallPair
  <2>3. \A d : Divides(d, a') /\ Divides(d, b') <=> Divides(d, gcd) /\ Divides(d, delays[i])
    BY <2>2
  <2> QED
    BY <1>3, <2>2, <2>3 DEF CallPair, GcdShape, GcdRight
<1>4. CASE gcdForPair
  <2>1. CASE a % b = 0
    BY <1>4, <2>1, PairReturns DEF gcdForPair
  <2>2. CASE a % b # 0
    BY <1>4, <2>2, PairGoesOn DEF gcdForPair
  <2> QED
    BY <2>1, <2>2
<1>5. CASE StartFrames
  <2>1. /\ delays # <<>> /\ i <= Len(delays) + 1 /\ i > Len(delays) /\ gcd <= delays[1]
        /\ i \in Nat /\ Len(delays) \in Nat /\ delays[1] \in Nat
    BY <1>5, FirstDelay DEF StartFrames, GcdShape, TypeOK, Positive
  <2>2. i - 1 = Len(delays) /\ 1 \in 1..Len(delays)
    BY <2>1, FirstDelay
  <2>3. \A d \in 1..delays[1] :
          Divides(d, gcd) <=> \A k \in 1..Len(delays) : Divides(d, delays[k])
    BY <1>5, <2>2 DEF StartFrames, GcdShape
  <2> QED
    BY <1>5, <2>1, <2>3 DEF StartFrames, GcdShape, GcdRight
<1>6. CASE TrapAtDelay \/ TrapAtImage \/ AppendFrames \/ animatedImage
  BY <1>6 DEF TrapAtDelay, TrapAtImage, AppendFrames, animatedImage, GcdShape, GcdRight
<1>7. CASE UNCHANGED vars
  BY <1>7 DEF vars, GcdShape, GcdRight
<1> QED
  BY <1>1, <1>2, <1>3, <1>4, <1>5, <1>6, <1>7 DEF Next

-----------------------------------------------------------------------------
(* The last loop. *)

LEMMA FrameStep == TypeOK /\ ReadShape /\ FrameShape /\ [Next]_vars => FrameShape'
<1> SUFFICES ASSUME TypeOK, ReadShape, FrameShape, [Next]_vars PROVE FrameShape'
  OBVIOUS
<1>1. CASE ReadImage
  <2>1. frames = <<>> /\ frames' = <<>> /\ pc' = "read"
    BY <1>1 DEF ReadImage, FrameShape
  <2>2. images' \in Seq(Nat \ {0}) /\ delays' \in Seq(Milliseconds)
    BY GifTypeStep DEF TypeOK
  <2> QED
    BY <2>1, <2>2 DEF FrameShape
<1>2. CASE gcdForArray
  <2>1. frames = <<>> /\ frames' = <<>> /\ pc' \in {"array", "frames"} /\ i' = 1 /\ pc = "read"
    BY <1>2 DEF gcdForArray, FrameShape
  <2>2. Len(frames') = 0 /\ images' = images /\ delays' = delays /\ count' = count /\ count \in Nat
    BY <1>2, <2>1, SourceIsSeq DEF gcdForArray, count
  <2> QED
    BY <2>1, <2>2 DEF FrameShape, TypeOK
<1>3. CASE CallPair \/ gcdForPair
  <2>1. /\ frames = <<>> /\ frames' = <<>> /\ pc' \in {"array", "pair"}
        /\ UNCHANGED <<images, delays>>
    BY <1>3 DEF CallPair, gcdForPair, FrameShape
  <2> QED
    BY <2>1 DEF FrameShape, TypeOK
<1>4. CASE StartFrames
  <2>1. /\ frames = <<>> /\ frames' = <<>> /\ pc' = "frames" /\ i' = 1 /\ count' = count
        /\ UNCHANGED <<images, delays>> /\ count \in Nat
    BY <1>4, SourceIsSeq DEF StartFrames, FrameShape, count
  <2> QED
    BY <2>1 DEF FrameShape, TypeOK
<1>5. CASE TrapAtImage \/ TrapAtDelay
  BY <1>5 DEF TrapAtImage, TrapAtDelay, FrameShape
<1>6. CASE AppendFrames
  <2> DEFINE frame == [image |-> images[i], times |-> delays[i] \div gcd]
  <2>1. /\ Len(frames) = i - 1 /\ i <= count /\ i <= Len(images) /\ Len(images) <= Len(delays)
        /\ i \in Nat /\ count \in Nat /\ Len(images) \in Nat /\ Len(delays) \in Nat
    BY <1>6, SourceIsSeq DEF AppendFrames, FrameShape, ReadShape, TypeOK
  <2>2. /\ UNCHANGED <<images, delays, gcd, pc>> /\ count' = count /\ i' = i + 1
        /\ frames' = Append(frames, frame)
    BY <1>6 DEF AppendFrames, count
  <2> HIDE DEF frame
  <2>3. /\ Len(frames') = Len(frames) + 1
        /\ \A k \in 1..Len(frames) : frames'[k] = frames[k]
        /\ frames'[Len(frames) + 1] = frame
    BY <2>2 DEF TypeOK
  <2>4. ASSUME NEW k \in 1..Len(frames')
        PROVE  frames'[k] = [image |-> images[k], times |-> delays[k] \div gcd]
    <3>1. CASE k = i
      BY <2>1, <2>3, <3>1 DEF frame
    <3>2. CASE k # i
      <4>1. k \in 1..Len(frames)
        BY <2>1, <2>3, <3>2
      <4> QED
        BY <2>3, <4>1 DEF FrameShape
    <3> QED
      BY <3>1, <3>2
  <2>5. /\ Len(frames') = i' - 1 /\ i' <= count' + 1
        /\ Len(frames') <= Len(images') /\ Len(frames') <= Len(delays')
    BY <2>1, <2>2, <2>3
  <2> QED
    BY <1>6, <2>2, <2>4, <2>5 DEF FrameShape, AppendFrames
<1>7. CASE animatedImage
  <2>1. Len(frames) = count
    BY <1>7, SourceIsSeq DEF animatedImage, FrameShape, TypeOK
  <2> QED
    BY <1>7, <2>1 DEF animatedImage, FrameShape, count
<1>8. CASE UNCHANGED vars
  BY <1>8 DEF vars, FrameShape, count
<1> QED
  BY <1>1, <1>2, <1>3, <1>4, <1>5, <1>6, <1>7, <1>8 DEF Next

-----------------------------------------------------------------------------
(* The theorems. *)

LEMMA GifInit == Init => GInv
<1> SUFFICES ASSUME Init PROVE GInv
  OBVIOUS
<1>1. TypeOK /\ count \in Nat
  BY GifTypeInit, SourceIsSeq
<1>2. Len(images) = 0 /\ Len(delays) = 0 /\ Len(frames) = 0
  BY DEF Init
<1> QED
  BY <1>1, <1>2 DEF Init, GInv, ReadShape, GcdShape, FrameShape, GcdRight

\* What every behaviour of animatedImageWithSource keeps.
THEOREM GifInductive == Spec => [](TypeOK /\ GInv)
<1>1. Init => TypeOK /\ GInv
  BY GifTypeInit, GifInit
<1>2. TypeOK /\ GInv /\ [Next]_vars => (TypeOK /\ GInv)'
  BY GifTypeStep, ReadStep, GcdStep, FrameStep DEF GInv
<1> QED
  BY <1>1, <1>2, PTL DEF Spec

\* No division of gcdForPair or of animatedImageWithSource is by zero, and every
\* delay has its minimum.
THEOREM GifTypeCorrect == Spec => []TypeOK
BY GifInductive, PTL

\* gcdForArray returns the greatest common divisor for any number of delays.
THEOREM GcdCorrect == Spec => []GcdRight
<1>1. GInv => GcdRight
  BY DEF GInv, GcdShape
<1> QED
  BY <1>1, GifInductive, PTL

\* An animation that is returned shows every image for its own delay.
THEOREM DelaysCorrect == Spec => []DelaysKept
<1>1. TypeOK /\ GInv => DelaysKept
  <2> SUFFICES ASSUME TypeOK, GInv, pc = "done" PROVE
        /\ \A k \in 1..count : source[k].decodable /\ source[k].keyed
        /\ Len(frames) = count
        /\ \A k \in 1..count : frames[k].image = k /\ frames[k].times * gcd = delays[k]
    BY DEF DelaysKept
  <2>1. /\ Len(frames) = count /\ Len(delays) = count /\ Len(images) = count /\ count \in Nat
    BY SourceIsSeq DEF GInv, FrameShape, ReadShape, TypeOK
  <2>2. \A k \in 1..count : images[k] = k /\ source[k].decodable /\ source[k].keyed
    BY <2>1 DEF GInv, ReadShape
  <2>3. ASSUME NEW k \in 1..count PROVE frames[k].image = k /\ frames[k].times * gcd = delays[k]
    <3>1. frames[k] = [image |-> images[k], times |-> delays[k] \div gcd]
      BY <2>1 DEF GInv, FrameShape
    <3>2. delays # <<>> /\ delays[k] \in Positive /\ gcd \in Positive
      BY <2>1 DEF TypeOK, Milliseconds, Positive
    <3>3. gcd \in 1..delays[1]
      BY <3>2, FirstDelay DEF GInv, GcdShape, Positive
    <3>4. Divides(gcd, delays[k])
      BY <2>1, <3>2, <3>3, DividesItself DEF GInv, GcdShape, GcdRight
    <3>5. (delays[k] \div gcd) * gcd = delays[k]
      BY <3>2, <3>4, ExactQuotient
    <3> QED
      BY <2>2, <3>1, <3>5
  <2> QED
    BY <2>1, <2>2, <2>3
<1> QED
  BY <1>1, GifInductive, PTL

-----------------------------------------------------------------------------
(* The sum of the delays.  SumFunction folds over the subsets of a domain; that  *)
(* such a fold exists, and what it yields, follows by induction over finite sets. *)

\* A non-empty set of naturals has a least element.
LEMMA LeastNumber ==
  ASSUME NEW T, T \subseteq Nat, T # {} PROVE \E x \in T : \A y \in T : x <= y
<1> DEFINE R == OpToRel(<, Nat)
<1>1. \E x \in T : \A y \in T : ~ (<<y, x>> \in R)
  BY NatLessThanWellFounded, WFMin
<1>2. \A x, y \in Nat : ~ (<<y, x>> \in R) => x <= y
  BY DEF OpToRel
<1> QED
  BY <1>1, <1>2

\* A non-empty set of subsets of a finite set has a minimal element.
LEMMA MinimalSubset ==
  ASSUME NEW D, IsFiniteSet(D), NEW T, T \subseteq SUBSET D, T # {}
  PROVE  \E s \in T : \A t \in T : t \subseteq s => t = s
<1>1. IsWellFoundedOn(StrictSubsetOrdering(D), SUBSET D)
  BY FS_StrictSubsetOrderingWellFounded, FS_FiniteSubsetsOfFinite
<1>2. PICK s \in T : \A t \in T : ~ (<<t, s>> \in StrictSubsetOrdering(D))
  BY <1>1, WFMin
<1>3. ASSUME NEW t \in T, t \subseteq s, t # s PROVE FALSE
  <2>1. <<t, s>> \in StrictSubsetOrdering(D)
    BY <1>3 DEF StrictSubsetOrdering
  <2> QED
    BY <1>2, <2>1
<1> QED
  BY <1>3

Chosen(s) == CHOOSE x \in s : TRUE

\* f is the fold of + with g over the sets in F.
SumOver(g, f, F) ==
  f = [s \in F |-> IF s = {} THEN 0 ELSE g[Chosen(s)] + f[s \ {Chosen(s)}]]

UpTo(D, n) == {s \in SUBSET D : Cardinality(s) <= n}

LEMMA WithoutChosen ==
  ASSUME NEW D, IsFiniteSet(D), NEW s \in SUBSET D, s # {}
  PROVE  /\ Chosen(s) \in s
         /\ s \ {Chosen(s)} \in SUBSET D
         /\ Cardinality(s) \in Nat
         /\ Cardinality(s \ {Chosen(s)}) = Cardinality(s) - 1
<1>1. Chosen(s) \in s
  BY DEF Chosen
<1>2. IsFiniteSet(s)
  BY FS_Subset
<1>3. Cardinality(s) \in Nat
  BY <1>2, FS_CardinalityType
<1>4. Cardinality(s \ {Chosen(s)}) = Cardinality(s) - 1
  BY <1>1, <1>2, FS_RemoveElement
<1> QED
  BY <1>1, <1>3, <1>4

\* One size more: the fold of the smaller sets carries over.
LEMMA NextSize ==
  ASSUME NEW D, IsFiniteSet(D), NEW g, NEW n \in Nat, NEW f, SumOver(g, f, UpTo(D, n))
  PROVE  \E e : SumOver(g, e, UpTo(D, n + 1))
<1> DEFINE F == UpTo(D, n + 1)
           e == [s \in F |-> IF s \in UpTo(D, n) THEN f[s]
                             ELSE g[Chosen(s)] + f[s \ {Chosen(s)}]]
           h == [s \in F |-> IF s = {} THEN 0 ELSE g[Chosen(s)] + e[s \ {Chosen(s)}]]
<1>1. ASSUME NEW s \in F PROVE e[s] = h[s]
  <2>1. s \in SUBSET D
    BY DEF UpTo
  <2>2. CASE s = {}
    <3>1. s \in UpTo(D, n)
      BY <2>1, <2>2, FS_EmptySet DEF UpTo
    <3>2. f[s] = 0
      BY <2>2, <3>1 DEF SumOver
    <3> QED
      BY <2>2, <3>1, <3>2
  <2>3. CASE s # {}
    <3> DEFINE t == s \ {Chosen(s)}
    <3>1. /\ t \in SUBSET D /\ Cardinality(s) \in Nat /\ Cardinality(t) = Cardinality(s) - 1
      BY <2>1, <2>3, WithoutChosen
    <3>2. Cardinality(s) <= n + 1
      BY DEF UpTo
    <3>3. t \in UpTo(D, n) /\ t \in F
      BY <3>1, <3>2 DEF UpTo
    <3>4. e[t] = f[t]
      BY <3>3
    <3>5. h[s] = g[Chosen(s)] + f[t]
      BY <2>3, <3>4
    <3>6. CASE s \in UpTo(D, n)
      <4>1. f[s] = g[Chosen(s)] + f[t]
        BY <2>3, <3>6 DEF SumOver
      <4> QED
        BY <3>5, <3>6, <4>1
    <3>7. CASE s \notin UpTo(D, n)
      BY <3>5, <3>7
    <3> QED
      BY <3>6, <3>7
  <2> QED
    BY <2>2, <2>3
<1>2. e = h
  BY <1>1
<1>3. SumOver(g, e, F)
  BY <1>2 DEF SumOver
<1> HIDE DEF e
<1> QED
  BY <1>3

LEMMA SumOverExists ==
  ASSUME NEW D, IsFiniteSet(D), NEW g PROVE \E f : SumOver(g, f, SUBSET D)
<1> DEFINE T == {n \in Nat : ~ \E f : SumOver(g, f, UpTo(D, n))}
<1>1. 0 \notin T
  <2> DEFINE f == [s \in UpTo(D, 0) |-> 0]
  <2>1. \A s \in UpTo(D, 0) : s = {}
    <3> SUFFICES ASSUME NEW s \in UpTo(D, 0), s # {} PROVE FALSE
      OBVIOUS
    <3>1. s \in SUBSET D /\ Cardinality(s) <= 0
      BY DEF UpTo
    <3>2. IsFiniteSet(s) /\ Cardinality(s) \in Nat
      BY <3>1, FS_Subset, FS_CardinalityType
    <3>3. Cardinality(s) = 0
      BY <3>1, <3>2
    <3> QED
      BY <3>2, <3>3, FS_EmptySet
  <2>2. SumOver(g, f, UpTo(D, 0))
    BY <2>1 DEF SumOver
  <2> HIDE DEF f
  <2> QED
    BY <2>2
<1>2. T = {}
  <2> SUFFICES ASSUME T # {} PROVE FALSE
    OBVIOUS
  <2>1. PICK x \in T : \A y \in T : x <= y
    BY LeastNumber
  <2>2. x - 1 \in Nat /\ x - 1 \notin T /\ (x - 1) + 1 = x
    BY <1>1, <2>1
  <2>3. PICK f : SumOver(g, f, UpTo(D, x - 1))
    BY <2>2
  <2>4. \E e : SumOver(g, e, UpTo(D, x))
    BY <2>2, <2>3, NextSize
  <2> QED
    BY <2>1, <2>4
<1>3. Cardinality(D) \in Nat /\ UpTo(D, Cardinality(D)) = SUBSET D
  BY FS_CardinalityType, FS_Subset DEF UpTo
<1>4. PICK f : SumOver(g, f, UpTo(D, Cardinality(D)))
  BY <1>2, <1>3
<1>5. SumOver(g, f, SUBSET D)
  BY <1>3, <1>4
<1> QED
  BY <1>5

LEMMA SumFunctionIs ==
  ASSUME NEW g, IsFiniteSet(DOMAIN g)
  PROVE  \E f : SumOver(g, f, SUBSET DOMAIN g) /\ SumFunction(g) = f[DOMAIN g]
<1> DEFINE D == DOMAIN g
           iter == CHOOSE f : f = [s \in SUBSET D |->
                     IF s = {} THEN 0 ELSE g[CHOOSE x \in s : TRUE] + f[s \ {CHOOSE x \in s : TRUE}]]
<1>1. \E f : f = [s \in SUBSET D |->
                IF s = {} THEN 0 ELSE g[CHOOSE x \in s : TRUE] + f[s \ {CHOOSE x \in s : TRUE}]]
  <2>1. PICK f : SumOver(g, f, SUBSET D)
    BY SumOverExists
  <2> QED
    BY <2>1 DEF SumOver, Chosen
<1>2. iter = [s \in SUBSET D |->
         IF s = {} THEN 0 ELSE g[CHOOSE x \in s : TRUE] + iter[s \ {CHOOSE x \in s : TRUE}]]
  BY <1>1
<1>3. SumFunction(g) = iter[D]
  BY DEF SumFunction, SumFunctionOnSet, FoldFunctionOnSet, MapThenFoldSet
<1> HIDE DEF iter
<1> QED
  BY <1>2, <1>3 DEF SumOver, Chosen

\* Sums of proportional values are proportional.
LEMMA SumScales ==
  ASSUME NEW D, IsFiniteSet(D), NEW c \in Nat, NEW g, NEW h,
         \A x \in D : h[x] \in Nat /\ g[x] = c * h[x],
         NEW f, SumOver(g, f, SUBSET D), NEW e, SumOver(h, e, SUBSET D)
  PROVE  \A s \in SUBSET D : e[s] \in Nat /\ f[s] = c * e[s]
<1> DEFINE T == {s \in SUBSET D : ~ (e[s] \in Nat /\ f[s] = c * e[s])}
<1> SUFFICES ASSUME T # {} PROVE FALSE
  OBVIOUS
<1>1. PICK s \in T : \A t \in T : t \subseteq s => t = s
  <2>1. T \subseteq SUBSET D
    OBVIOUS
  <2> HIDE DEF T
  <2> QED
    BY <2>1, MinimalSubset
<1>2. s # {}
  <2>1. f[{}] = 0 /\ e[{}] = 0
    BY DEF SumOver
  <2>2. e[{}] \in Nat /\ f[{}] = c * e[{}]
    BY <2>1
  <2>3. {} \notin T
    BY <2>2
  <2> HIDE DEF T
  <2> QED
    BY <2>3
<1> DEFINE x == Chosen(s)
           t == s \ {x}
<1>3. x \in s /\ x \in D /\ t \in SUBSET D /\ t \subseteq s /\ t # s
  BY <1>2 DEF Chosen
<1>4. e[t] \in Nat /\ f[t] = c * e[t]
  BY <1>1, <1>3
<1>5. f[s] = g[x] + f[t] /\ e[s] = h[x] + e[t]
  BY <1>2 DEF SumOver
<1>6. h[x] \in Nat /\ g[x] = c * h[x]
  BY <1>3
<1> HIDE DEF x, t
<1>7. e[s] \in Nat /\ f[s] = c * e[s]
  BY <1>4, <1>5, <1>6
<1> QED
  BY <1>7

\* UIKit's equal share of the duration of an animation that is returned is the gcd
\* of the delays, for any number of images and any delays: each image is shown for
\* exactly its delay.
THEOREM FrameTimeCorrect == Spec => []FrameTimeIsGcd
<1>1. TypeOK /\ GInv /\ DelaysKept => FrameTimeIsGcd
  <2> SUFFICES ASSUME TypeOK, GInv, DelaysKept, pc = "done"
               PROVE  duration = gcd * SumFunction([k \in DOMAIN frames |-> frames[k].times])
    BY DEF FrameTimeIsGcd
  <2> DEFINE D == 1..count
             h == [k \in DOMAIN frames |-> frames[k].times]
  <2>1. count \in Nat /\ DOMAIN frames = D /\ DOMAIN delays = D
    BY SourceIsSeq DEF DelaysKept, GInv, ReadShape, TypeOK
  <2>2. IsFiniteSet(D)
    BY <2>1, FS_Interval
  <2>3. \A k \in D : h[k] \in Nat /\ delays[k] = gcd * h[k]
    <3> SUFFICES ASSUME NEW k \in D PROVE h[k] \in Nat /\ delays[k] = gcd * h[k]
      OBVIOUS
    <3>1. h[k] = frames[k].times /\ frames[k].times * gcd = delays[k]
      BY <2>1 DEF DelaysKept
    <3>2. frames[k] \in [image : Nat, times : Nat]
      <4>1. \A T : \A q \in Seq(T) : \A j \in DOMAIN q : q[j] \in T
        OBVIOUS
      <4>2. frames \in Seq([image : Nat, times : Nat]) /\ k \in DOMAIN frames
        BY <2>1 DEF TypeOK
      <4> QED
        BY <4>1, <4>2
    <3>3. frames[k].times \in Nat /\ gcd \in Nat
      BY <3>2 DEF TypeOK
    <3> QED
      BY <3>1, <3>3
  <2>4. DOMAIN h = D /\ gcd \in Nat
    BY <2>1 DEF TypeOK
  <2> HIDE DEF D, h
  <2>5. PICK f : SumOver(delays, f, SUBSET D) /\ SumFunction(delays) = f[D]
    BY <2>1, <2>2, SumFunctionIs
  <2>6. PICK e : SumOver(h, e, SUBSET D) /\ SumFunction(h) = e[D]
    BY <2>2, <2>4, SumFunctionIs
  <2>7. f[D] = gcd * e[D]
    BY <2>2, <2>3, <2>4, <2>5, <2>6, SumScales
  <2> QED
    BY <2>5, <2>6, <2>7 DEF duration, h
<1> QED
  BY <1>1, GifInductive, DelaysCorrect, PTL

-----------------------------------------------------------------------------
(* Why it ends. *)

\* Every turn of every loop brings animatedImageWithSource closer to its end, for any
\* file: the three numbers go down in lexicographic order and are never negative.
THEOREM TurnsCorrect == Spec => EveryTurnCounts
<1> DEFINE Down == /\ TurnsLeft' >= 0 /\ Divisor' > 0
                   /\ \/ LoopsLeft' < LoopsLeft
                      \/ LoopsLeft' = LoopsLeft /\ TurnsLeft' < TurnsLeft
                      \/ /\ LoopsLeft' = LoopsLeft /\ TurnsLeft' = TurnsLeft
                         /\ Divisor' < Divisor
<1>1. TypeOK /\ GInv /\ TypeOK' /\ Next => Down
  <2> SUFFICES ASSUME TypeOK, GInv, TypeOK', Next PROVE Down
    OBVIOUS
  <2> USE DEF LoopsLeft
  <2>0. count \in Nat /\ count' = count /\ i \in Nat /\ i' \in Nat
    <3>1. source' = source
      BY DEF Next, TrapAtDelay, ReadImage, gcdForArray, CallPair, gcdForPair, StartFrames, TrapAtImage,
         AppendFrames, animatedImage
    <3> QED
      BY <3>1, SourceIsSeq DEF count, TypeOK
  <2>d. Divisor' > 0
    <3>1. b' \in Nat /\ b' > 0 /\ gcd' \in Nat
      BY DEF TypeOK
    <3>2. Divisor' = b' \/ Divisor' = gcd' + 1
      BY DEF Divisor
    <3> QED
      BY <3>1, <3>2
  <2>1. CASE ReadImage
    <3>1. pc = "read" /\ pc' = "read" /\ i <= count /\ i' = i + 1
      BY <2>1 DEF ReadImage
    <3> QED
      BY <2>0, <2>d, <3>1 DEF TurnsLeft
  <2>2. CASE gcdForArray \/ StartFrames
    <3>1. /\ \/ pc = "read" /\ pc' \in {"array", "frames"}
             \/ pc = "array" /\ pc' = "frames"
          /\ i' = 1
      BY <2>2 DEF gcdForArray, StartFrames
    <3> QED
      BY <2>0, <2>d, <3>1 DEF TurnsLeft
  <2>3. CASE CallPair
    <3>1. pc = "array" /\ pc' = "pair" /\ i <= Len(delays) /\ i' = i
      BY <2>3 DEF CallPair
    <3>2. Len(delays) = count
      BY <3>1 DEF GInv, ReadShape
    <3>3. b' <= gcd
      <4>1. delays[i] \in Nat /\ gcd \in Nat
        BY <3>1 DEF TypeOK, Milliseconds
      <4> QED
        BY <2>3, <4>1 DEF CallPair
    <3>4. Divisor = gcd + 1 /\ Divisor' = b' /\ gcd \in Nat /\ b' \in Nat
      BY <3>1 DEF Divisor, TypeOK
    <3> QED
      BY <2>0, <2>d, <3>1, <3>2, <3>3, <3>4 DEF TurnsLeft
  <2>4. CASE gcdForPair
    <3>1. pc = "pair" /\ i <= count
      BY <2>4 DEF gcdForPair, GInv, GcdShape, ReadShape
    <3>2. CASE a % b = 0
      <4>1. pc' = "array" /\ i' = i + 1
        BY <2>4, <3>2 DEF gcdForPair
      <4> QED
        BY <2>0, <2>d, <3>1, <4>1 DEF TurnsLeft
    <3>3. CASE a % b # 0
      <4>1. pc' = "pair" /\ i' = i /\ b' = a % b
        BY <2>4, <3>1, <3>3 DEF gcdForPair
      <4>2. b' < b
        BY <4>1, DivisionFact DEF TypeOK, Positive
      <4>3. Divisor = b /\ Divisor' = b'
        BY <3>1, <4>1 DEF Divisor
      <4> QED
        BY <2>0, <2>d, <3>1, <4>1, <4>2, <4>3 DEF TurnsLeft
    <3> QED
      BY <3>2, <3>3
  <2>5. CASE AppendFrames
    <3>1. pc = "frames" /\ pc' = "frames" /\ i <= count /\ i' = i + 1
      BY <2>5 DEF AppendFrames
    <3> QED
      BY <2>0, <2>d, <3>1 DEF TurnsLeft
  <2>6. CASE TrapAtDelay \/ TrapAtImage \/ animatedImage
    <3>1. /\ pc \in {"read", "frames"} /\ pc' \in {"trap", "done"}
          /\ i' = i /\ i <= count + 1
      BY <2>6 DEF TrapAtDelay, TrapAtImage, animatedImage, GInv, ReadShape, FrameShape
    <3> QED
      BY <2>0, <2>d, <3>1 DEF TurnsLeft
  <2> QED
    BY <2>1, <2>2, <2>3, <2>4, <2>5, <2>6 DEF Next
<1>2. TypeOK /\ GInv /\ TypeOK' /\ [Next]_vars => [Down]_vars
  BY <1>1
<1> QED
  BY <1>2, GifInductive, PTL DEF Spec, EveryTurnCounts
=============================================================================
