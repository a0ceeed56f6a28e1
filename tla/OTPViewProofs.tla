---------------------------- MODULE OTPViewProofs ----------------------------
(***************************************************************************)
(* For every number of fields and every set of insertion lengths: the type   *)
(* invariant of OTPView, the single gap, the place of the keyboard, when a    *)
(* typed code is reported, and that the view implements OtpEntry.            *)
(***************************************************************************)
EXTENDS OTPView, WellFoundedInduction, TLAPS

\* A non-empty set of naturals has a least element.
LEMMA LeastNatural ==
  ASSUME NEW T, T \subseteq Nat, T # {}
  PROVE  \E x \in T : \A y \in T : x <= y
<1> DEFINE R == OpToRel(<, Nat)
<1>1. \E x \in T : \A y \in T : ~ (<<y, x>> \in R)
  <2>1. IsWellFoundedOn(R, Nat)
    BY NatLessThanWellFounded
  <2> QED
    BY <2>1, WFMin
<1>2. \A x, y \in Nat : ~ (<<y, x>> \in R) => x <= y
  BY DEF OpToRel
<1> QED
  BY <1>1, <1>2

\* The forward search of isPreviousFieldsEntered finds the least empty field.
LEMMA FirstEmptyIsLeast ==
  ASSUME NEW e, Empty(e) # {}
  PROVE  FirstEmpty(e) \in Empty(e) /\ \A j \in Empty(e) : FirstEmpty(e) <= j
<1>1. Empty(e) \subseteq Nat
  BY FieldsAssumption DEF Empty, Fields
<1>2. \E i \in Empty(e) : \A j \in Empty(e) : i <= j
  BY <1>1, LeastNatural
<1> QED
  BY <1>2 DEF FirstEmpty

-----------------------------------------------------------------------------
(* The two conditions, for any contents e of the fields. *)

Contiguous(e) == \A i, j \in Empty(e), k \in Fields : i <= k /\ k <= j => k \in Empty(e)
AtGap(e, f)   == Empty(e) # {} => f \in {FirstEmpty(e), FirstEmpty(e) - 1}

\* A field is the first empty one if it is empty and no empty field is before it.
LEMMA FirstEmptyUnique ==
  ASSUME NEW e, NEW g \in Empty(e), \A j \in Empty(e) : g <= j
  PROVE  FirstEmpty(e) = g
<1>1. FirstEmpty(e) \in Empty(e) /\ \A j \in Empty(e) : FirstEmpty(e) <= j
  BY FirstEmptyIsLeast
<1>2. FirstEmpty(e) \in Int /\ g \in Int
  BY <1>1 DEF Empty, Fields
<1> QED
  BY <1>1, <1>2

\* Filling the field at the gap leaves one gap, and the keyboard may stay.
LEMMA FillKeepsGap ==
  ASSUME NEW e \in [Fields -> Nat], NEW f \in Fields, NEW n \in Nat \ {0},
         Contiguous(e), AtGap(e, f)
  PROVE  LET d == [e EXCEPT ![f] = n] IN Contiguous(d) /\ AtGap(d, f)
<1> DEFINE d == [e EXCEPT ![f] = n]
<1>1. Empty(d) = Empty(e) \ {f}
  BY DEF Empty
<1> HIDE DEF d
<1>2. \A x \in Fields : x \in Int
  BY DEF Fields
<1>3. \A x \in Empty(e) : x \in Fields
  BY DEF Empty
<1>4. f \in Empty(e) => \A j \in Empty(e) : f <= j
  <2> SUFFICES ASSUME f \in Empty(e) PROVE \A j \in Empty(e) : f <= j
    OBVIOUS
  <2>1. FirstEmpty(e) \in Empty(e) /\ \A j \in Empty(e) : FirstEmpty(e) <= j
    BY FirstEmptyIsLeast
  <2>2. f = FirstEmpty(e)
    BY <2>1, <1>2, <1>3 DEF AtGap
  <2> QED
    BY <2>1, <2>2
<1>5. Contiguous(d)
  <2> SUFFICES ASSUME NEW i \in Empty(d), NEW j \in Empty(d), NEW k \in Fields,
                      i <= k, k <= j
               PROVE  k \in Empty(d)
    BY DEF Contiguous
  <2>1. k \in Empty(e)
    BY <1>1 DEF Contiguous
  <2>2. k # f
    BY <2>1, <1>1, <1>2, <1>3, <1>4
  <2> QED
    BY <2>1, <2>2, <1>1
<1>6. AtGap(d, f)
  <2> SUFFICES ASSUME Empty(d) # {} PROVE f \in {FirstEmpty(d), FirstEmpty(d) - 1}
    BY DEF AtGap
  <2>1. CASE f \notin Empty(e)
    <3>1. Empty(d) = Empty(e)
      BY <2>1, <1>1
    <3>2. FirstEmpty(d) = FirstEmpty(e)
      BY <3>1 DEF FirstEmpty
    <3> QED
      BY <3>1, <3>2 DEF AtGap
  <2>2. CASE f \in Empty(e)
    <3>1. PICK j \in Empty(d) : TRUE
      OBVIOUS
    <3>2. j \in Empty(e) /\ j > f /\ f + 1 \in Fields
      BY <3>1, <2>2, <1>1, <1>2, <1>3, <1>4, FieldsAssumption DEF Fields
    <3>3. f + 1 \in Empty(d)
      BY <3>2, <2>2, <1>1, <1>2, <1>3 DEF Contiguous
    <3>4. \A x \in Empty(d) : f + 1 <= x
      BY <2>2, <1>1, <1>2, <1>3, <1>4
    <3>5. FirstEmpty(d) = f + 1
      BY <3>3, <3>4, FirstEmptyUnique
    <3> QED
      BY <3>5, <1>2
  <2> QED
    BY <2>1, <2>2
<1> QED
  BY <1>5, <1>6 DEF d

\* Clearing a filled field next to the gap extends the gap to the left.
LEMMA ClearExtendsGap ==
  ASSUME NEW e \in [Fields -> Nat], NEW f \in Fields, f \notin Empty(e),
         Contiguous(e), Empty(e) # {} => f = FirstEmpty(e) - 1
  PROVE  LET d == [e EXCEPT ![f] = 0] IN
         Contiguous(d) /\ Empty(d) # {} /\ FirstEmpty(d) = f
<1> DEFINE d == [e EXCEPT ![f] = 0]
<1>1. Empty(d) = Empty(e) \cup {f}
  BY DEF Empty
<1> HIDE DEF d
<1>2. \A x \in Fields : x \in Int
  BY DEF Fields
<1>3. \A x \in Empty(e) : x \in Fields
  BY DEF Empty
<1>4. \A j \in Empty(e) : f + 1 <= j /\ f + 1 \in Empty(e)
  BY FirstEmptyIsLeast, <1>2, <1>3
<1>5. Contiguous(d)
  <2> SUFFICES ASSUME NEW i \in Empty(d), NEW j \in Empty(d), NEW k \in Fields,
                      i <= k, k <= j
               PROVE  k \in Empty(d)
    BY DEF Contiguous
  <2>1. CASE k = f
    BY <2>1, <1>1
  <2>2. CASE k # f
    <3>1. f + 1 <= k /\ j \in Empty(e)
      BY <2>2, <1>1, <1>2, <1>3, <1>4
    <3>2. k \in Empty(e)
      BY <3>1, <1>4 DEF Contiguous
    <3> QED
      BY <3>2, <1>1
  <2> QED
    BY <2>1, <2>2
<1>6. f \in Empty(d) /\ \A j \in Empty(d) : f <= j
  BY <1>1, <1>2, <1>3, <1>4
<1>7. FirstEmpty(d) = f
  BY <1>6, FirstEmptyUnique
<1> QED
  BY <1>5, <1>6, <1>7 DEF d

-----------------------------------------------------------------------------
(* Type correctness. *)

LEMMA CallsType ==
  ASSUME NEW e
  PROVE  calculateEnteredOTPSTring(e)
           \in Seq({"enteredOTP", "hasEnteredAllOTP(true)", "hasEnteredAllOTP(false)"})
<1>1. \A S : \A x, y \in S : <<x, y>> \in Seq(S) /\ <<>> \in Seq(S)
  OBVIOUS
<1> QED
  BY <1>1 DEF calculateEnteredOTPSTring

LEMMA ResponderType ==
  ASSUME NEW e, NEW c, NEW f
  PROVE  becomeFirstResponder(e, c, f) \in {c, f}
BY DEF becomeFirstResponder

LEMMA TypeStep == TypeOK /\ [Next]_vars => TypeOK'
<1> SUFFICES ASSUME TypeOK, [Next]_vars PROVE TypeOK'
  OBVIOUS
<1> USE FieldsAssumption, InsertionsAssumption
<1>1. CASE initializeUI
  BY <1>1 DEF TypeOK, initializeUI, Fields
<1>2. ASSUME NEW f \in Fields, Tap(f) PROVE TypeOK'
  BY <1>2 DEF TypeOK, Tap, Fields
<1>3. ASSUME NEW n \in Nat, ReplaceText(n) PROVE TypeOK'
  <2>1. focus \in Fields
    BY <1>3 DEF TypeOK, ReplaceText, Fields
  <2>2. entry' \in [Fields -> Nat]
    BY <1>3, <2>1 DEF TypeOK, ReplaceText
  <2>3. becomeFirstResponder(entry', focus, focus + 1) \in {focus, focus + 1}
    BY ResponderType
  <2>4. focus' \in 0..otpFieldsCount
    BY <1>3, <2>1, <2>3 DEF ReplaceText, Fields
  <2> QED
    BY <1>3, <2>2, <2>4, CallsType DEF TypeOK, ReplaceText
<1>4. CASE InsertText
  BY <1>4, <1>3 DEF InsertText
<1>5. CASE BackspaceInLongText
  BY <1>5, <1>3 DEF BackspaceInLongText
<1>6. CASE DeleteFieldText
  <2>1. focus \in Fields
    BY <1>6 DEF TypeOK, DeleteFieldText, Fields
  <2>2. becomeFirstResponder(entry', focus, focus - 1) \in {focus, focus - 1}
    BY ResponderType
  <2>3. focus' \in 0..otpFieldsCount
    BY <1>6, <2>1, <2>2 DEF DeleteFieldText, Fields
  <2> QED
    BY <1>6, <2>1, <2>3 DEF TypeOK, DeleteFieldText, deleteText
<1>7. CASE deleteBackward
  <2>1. focus \in Fields
    BY <1>7 DEF TypeOK, deleteBackward, Fields
  <2>2. becomeFirstResponder(entry', focus, focus - 1) \in {focus, focus - 1}
    BY ResponderType
  <2>3. focus' \in 0..otpFieldsCount
    BY <1>7, <2>1, <2>2 DEF deleteBackward, Fields
  <2>4. focus > 1 => focus - 1 \in Fields
    BY <2>1 DEF Fields
  <2>5. entry' \in [Fields -> Nat] /\ calls' = <<"hasEnteredAllOTP(false)">>
    BY <1>7, <2>1, <2>4 DEF TypeOK, deleteBackward, deleteText
  <2> QED
    BY <2>3, <2>5 DEF TypeOK
<1>8. CASE UNCHANGED vars
  BY <1>8 DEF TypeOK, vars
<1> QED
  BY <1>1, <1>2, <1>4, <1>5, <1>6, <1>7, <1>8 DEF Next

LEMMA TypeInit == Init => TypeOK
BY FieldsAssumption DEF Init, TypeOK, Fields

\* Every state of VPMOTPView has its type, whatever is typed, pasted or deleted.
THEOREM TypeCorrect == Spec => []TypeOK
BY TypeInit, TypeStep, PTL DEF Spec

-----------------------------------------------------------------------------
(* One gap, and the keyboard at it. *)

GapInv == ~shouldAllowIntermediateEditing =>
            Contiguous(entry) /\ (focus # 0 => AtGap(entry, focus))

LEMMA GapStep == TypeOK /\ GapInv /\ [Next]_vars => GapInv'
<1> SUFFICES ASSUME TypeOK, GapInv, [Next]_vars, ~shouldAllowIntermediateEditing
             PROVE  Contiguous(entry') /\ (focus' # 0 => AtGap(entry', focus'))
  BY DEF GapInv
<1> USE FieldsAssumption, InsertionsAssumption
<1>0. Contiguous(entry) /\ (focus # 0 => AtGap(entry, focus))
  BY DEF GapInv
<1>a. \A e, c, f : AtGap(e, c) => AtGap(e, becomeFirstResponder(e, c, f))
  BY DEF becomeFirstResponder, isPreviousFieldsEntered, AtGap
<1>b. \A f \in Fields : f \notin Empty(entry) /\ AtGap(entry, f)
        => (Empty(entry) # {} => f = FirstEmpty(entry) - 1)
  BY FirstEmptyIsLeast DEF AtGap
<1>c. entry \in [Fields -> Nat] /\ (focus # 0 => focus \in Fields)
  BY DEF TypeOK, Fields
<1>d. \A e, f : Empty(e) # {} /\ FirstEmpty(e) = f => AtGap(e, f)
  BY DEF AtGap
<1>1. CASE initializeUI
  <2>1. Empty(entry') = Fields
    BY <1>1 DEF initializeUI, Empty
  <2>2. 1 \in Fields /\ \A j \in Fields : 1 <= j
    BY DEF Fields
  <2>3. FirstEmpty(entry') = 1
    BY <2>1, <2>2, FirstEmptyUnique
  <2>4. focus' # 0 => focus' = 1
    BY <1>1 DEF initializeUI
  <2> QED
    BY <2>1, <2>3, <2>4 DEF Contiguous, AtGap
<1>2. ASSUME NEW f \in Fields, Tap(f)
      PROVE  Contiguous(entry') /\ (focus' # 0 => AtGap(entry', focus'))
  BY <1>2, <1>0 DEF Tap, isPreviousFieldsEntered, AtGap
<1>3. ASSUME NEW n \in Insertions, ReplaceText(n)
      PROVE  Contiguous(entry') /\ (focus' # 0 => AtGap(entry', focus'))
  <2>1. focus \in Fields /\ n \in Nat \ {0} /\ entry' = [entry EXCEPT ![focus] = n]
        /\ AtGap(entry, focus)
    BY <1>0, <1>3, <1>c DEF ReplaceText
  <2>2. Contiguous(entry') /\ AtGap(entry', focus)
    BY <2>1, <1>0, <1>c, FillKeepsGap, Zenon
  <2>3. focus' # 0 => focus' = becomeFirstResponder(entry', focus, focus + 1)
    BY <1>3 DEF ReplaceText
  <2> QED
    BY <2>2, <2>3, <1>a
<1>4. CASE InsertText
  BY <1>4, <1>3 DEF InsertText
<1>5. CASE BackspaceInLongText
  <2>1. focus \in Fields /\ focus \notin Empty(entry) /\ AtGap(entry, focus)
        /\ entry' = [entry EXCEPT ![focus] = 0]
    BY <1>5, <1>0, <1>c DEF BackspaceInLongText, ReplaceText, Empty
  <2>2. Contiguous(entry') /\ Empty(entry') # {} /\ FirstEmpty(entry') = focus
    BY <2>1, <1>0, <1>b, <1>c, ClearExtendsGap
  <2>3. focus' # 0 => focus' = becomeFirstResponder(entry', focus, focus + 1)
    BY <1>5 DEF BackspaceInLongText, ReplaceText
  <2> QED
    BY <2>2, <2>3, <1>a, <1>d
<1>6. CASE DeleteFieldText
  <2>1. focus \in Fields /\ focus \notin Empty(entry) /\ AtGap(entry, focus)
        /\ entry' = [entry EXCEPT ![focus] = 0]
    BY <1>6, <1>0, <1>c DEF DeleteFieldText, deleteText, Empty
  <2>2. Contiguous(entry') /\ Empty(entry') # {} /\ FirstEmpty(entry') = focus
    BY <2>1, <1>0, <1>b, <1>c, ClearExtendsGap
  <2>3. focus' \in {focus, becomeFirstResponder(entry', focus, focus - 1)}
    BY <1>6 DEF DeleteFieldText
  <2> QED
    BY <2>2, <2>3, <1>a, <1>d
<1>7. CASE deleteBackward
  <2>1. focus \in Fields /\ focus \in Empty(entry) /\ AtGap(entry, focus)
    BY <1>7, <1>0, <1>c DEF deleteBackward, Empty
  <2>2. FirstEmpty(entry) = focus /\ \A j \in Empty(entry) : focus <= j
    BY <2>1, FirstEmptyIsLeast DEF AtGap, Empty, Fields
  <2>3. CASE focus > 1
    <3>1. focus - 1 \in Fields /\ focus - 1 \notin Empty(entry)
      BY <2>1, <2>2, <2>3 DEF Fields
    <3>2. entry' = [entry EXCEPT ![focus - 1] = 0]
      BY <1>7, <2>3 DEF deleteBackward, deleteText
    <3>3. Contiguous(entry') /\ Empty(entry') # {} /\ FirstEmpty(entry') = focus - 1
      BY <3>1, <3>2, <2>2, <1>0, <1>c, ClearExtendsGap
    <3>4. focus' = focus - 1
      BY <3>3, <1>7, <2>3 DEF deleteBackward, becomeFirstResponder, isPreviousFieldsEntered
    <3> QED
      BY <3>3, <3>4, <1>d
  <2>4. CASE ~(focus > 1)
    <3>1. entry' = entry /\ focus' = focus
      BY <1>7, <1>c, <2>4 DEF deleteBackward, deleteText
    <3> QED
      BY <3>1, <1>0
  <2> QED
    BY <2>3, <2>4
<1>8. CASE UNCHANGED vars
  BY <1>8, <1>0 DEF vars
<1> QED
  BY <1>1, <1>2, <1>4, <1>5, <1>6, <1>7, <1>8 DEF Next

LEMMA GapInit == Init => GapInv
<1> SUFFICES ASSUME Init PROVE Contiguous(entry) /\ (focus # 0 => AtGap(entry, focus))
  BY DEF GapInv
<1> USE FieldsAssumption
<1>1. Empty(entry) = Fields
  BY DEF Init, Empty
<1>2. 1 \in Fields /\ \A j \in Fields : 1 <= j
  BY DEF Fields
<1>3. FirstEmpty(entry) = 1
  BY <1>1, <1>2, FirstEmptyUnique
<1>4. focus # 0 => focus = 1
  BY DEF Init
<1> QED
  BY <1>1, <1>3, <1>4 DEF Contiguous, AtGap

LEMMA GapCorrectInv == Spec => []GapInv
BY GapInit, GapStep, TypeCorrect, PTL DEF Spec

\* Without intermediate editing the empty fields of VPMOTPView are neighbours, for
\* any number of fields and any lengths of pasted text.
THEOREM GapCorrect == Spec => []OneGap
<1>1. GapInv => OneGap
  BY DEF GapInv, OneGap, Contiguous
<1> QED
  BY <1>1, GapCorrectInv, PTL

\* Without intermediate editing the keyboard is at the first empty field of
\* VPMOTPView or just before it, whatever was typed, pasted or deleted.
THEOREM FocusCorrect == Spec => []FocusAtGap
<1>1. GapInv => FocusAtGap
  BY DEF GapInv, FocusAtGap, AtGap
<1> QED
  BY <1>1, GapCorrectInv, PTL

-----------------------------------------------------------------------------
(* The code is reported when it is complete. *)

\* Induction on a set of naturals that a statement about them defines: if it holds
\* 0, and n + 1 with n, for every n below m, it holds everything up to m.
LEMMA Induct ==
  ASSUME NEW G, NEW m \in Nat, 0 \in G, \A n \in Nat : n < m /\ n \in G => n + 1 \in G
  PROVE  \A n \in 0..m : n \in G
<1> DEFINE T == {n \in 0..m : n \notin G}
<1> SUFFICES ASSUME T # {} PROVE FALSE
  OBVIOUS
<1>1. T \subseteq Nat
  OBVIOUS
<1>2. PICK x \in T : \A y \in T : x <= y
  BY <1>1, LeastNatural
<1>3. x \in Nat /\ x # 0 /\ x <= m /\ x \notin G
  OBVIOUS
<1>4. x - 1 \in Nat /\ x - 1 < m /\ x - 1 \notin T
  BY <1>2, <1>3
<1>5. x - 1 \in G /\ (x - 1) + 1 = x
  BY <1>3, <1>4
<1> QED
  BY <1>3, <1>4, <1>5

\* The running sum that calculateEnteredOTPSTring's loop builds up.
Sums(e, f, m) == f = [i \in 0..m |-> IF i = 0 THEN 0 ELSE f[i - 1] + e[i]]

\* It exists for any contents of the fields.
LEMMA SumsExist == ASSUME NEW e, NEW m \in Nat PROVE \E f : Sums(e, f, m)
<1> DEFINE G == {n \in Nat : \E f : Sums(e, f, n)}
<1>1. 0 \in G
  <2> DEFINE f == [i \in 0..0 |-> 0]
  <2>1. Sums(e, f, 0)
    BY DEF Sums
  <2> HIDE DEF f
  <2> QED
    BY <2>1
<1>2. ASSUME NEW n \in Nat, n \in G PROVE n + 1 \in G
  <2>1. PICK f : Sums(e, f, n)
    BY <1>2
  <2> DEFINE g == [i \in 0..(n + 1) |-> IF i = n + 1 THEN f[n] + e[n + 1] ELSE f[i]]
             h == [i \in 0..(n + 1) |-> IF i = 0 THEN 0 ELSE g[i - 1] + e[i]]
  <2>2. ASSUME NEW i \in 0..(n + 1) PROVE g[i] = h[i]
    <3>1. CASE i = n + 1
      <4>1. i # 0 /\ i - 1 = n /\ n \in 0..(n + 1) /\ n # n + 1
        BY <3>1
      <4>2. g[n] = f[n]
        BY <4>1
      <4>3. h[i] = f[n] + e[n + 1]
        BY <3>1, <4>1, <4>2
      <4> QED
        BY <3>1, <4>3
    <3>2. CASE i = 0
      <4>1. g[i] = f[0] /\ h[i] = 0
        BY <3>2
      <4>2. f[0] = 0
        <5>1. 0 \in 0..n
          OBVIOUS
        <5> QED
          BY <2>1, <5>1 DEF Sums
      <4> QED
        BY <4>1, <4>2
    <3>3. CASE i # 0 /\ i # n + 1
      <4>1. i \in 0..n /\ i - 1 \in 0..(n + 1) /\ i - 1 # n + 1
        BY <3>3
      <4>2. g[i] = f[i] /\ h[i] = f[i - 1] + e[i]
        BY <3>3, <4>1
      <4>3. f[i] = f[i - 1] + e[i]
        BY <2>1, <3>3, <4>1 DEF Sums
      <4> QED
        BY <4>2, <4>3
    <3> QED
      BY <3>1, <3>2, <3>3
  <2>3. g = h
    BY <2>2
  <2>4. Sums(e, g, n + 1)
    BY <2>3 DEF Sums
  <2> HIDE DEF g
  <2> QED
    BY <2>4
<1> HIDE DEF G
<1>3. \A n \in 0..m : n \in G
  BY <1>1, <1>2, Induct
<1>4. m \in G
  BY <1>3
<1> QED
  BY <1>4 DEF G

\* So the loop computes it.
LEMMA EnteredCountIs ==
  ASSUME NEW e PROVE \E f : Sums(e, f, otpFieldsCount) /\ EnteredCount(e) = f[otpFieldsCount]
<1> DEFINE u == CHOOSE f : f = [i \in 0..otpFieldsCount |-> IF i = 0 THEN 0 ELSE f[i - 1] + e[i]]
<1>1. \E f : f = [i \in 0..otpFieldsCount |-> IF i = 0 THEN 0 ELSE f[i - 1] + e[i]]
  BY SumsExist, FieldsAssumption DEF Sums
<1>2. u = [i \in 0..otpFieldsCount |-> IF i = 0 THEN 0 ELSE u[i - 1] + e[i]]
  BY <1>1
<1>3. EnteredCount(e) = u[otpFieldsCount]
  BY DEF EnteredCount
<1> HIDE DEF u
<1> QED
  BY <1>2, <1>3 DEF Sums

\* With at most one character per field, the sum up to a field is at most its
\* number, and is its number exactly when no field up to it is empty.
LEMMA SumOfTyped ==
  ASSUME NEW e \in [Fields -> Nat], \A i \in Fields : e[i] <= 1,
         NEW f, Sums(e, f, otpFieldsCount)
  PROVE  \A n \in 0..otpFieldsCount :
           /\ f[n] \in Nat /\ f[n] <= n
           /\ f[n] = n <=> \A i \in 1..n : e[i] # 0
<1> DEFINE Good(n) == /\ f[n] \in Nat /\ f[n] <= n
                      /\ f[n] = n <=> \A i \in 1..n : e[i] # 0
           G == {n \in Nat : Good(n)}
<1> USE FieldsAssumption
<1>1. 0 \in G
  BY DEF Sums
<1>2. ASSUME NEW n \in Nat, n < otpFieldsCount, n \in G PROVE n + 1 \in G
  <2>1. n + 1 \in Fields /\ n + 1 \in 0..otpFieldsCount /\ n + 1 # 0 /\ (n + 1) - 1 = n
    BY <1>2 DEF Fields
  <2>2. f[n + 1] = f[n] + e[n + 1]
    BY <2>1 DEF Sums
  <2>3. e[n + 1] \in Nat /\ e[n + 1] <= 1
    BY <2>1
  <2>4. f[n] \in Nat /\ f[n] <= n /\ (f[n] = n <=> \A i \in 1..n : e[i] # 0)
    BY <1>2
  <2>5. (\A i \in 1..(n + 1) : e[i] # 0) <=> (\A i \in 1..n : e[i] # 0) /\ e[n + 1] # 0
    <3>1. \A i : i \in 1..(n + 1) <=> i \in 1..n \/ i = n + 1
      OBVIOUS
    <3> QED
      BY <3>1
  <2>6. f[n + 1] \in Nat /\ f[n + 1] <= n + 1 /\ (f[n + 1] = n + 1 <=> f[n] = n /\ e[n + 1] # 0)
    BY <2>2, <2>3, <2>4
  <2> QED
    BY <2>4, <2>5, <2>6
<1> HIDE DEF G
<1>3. \A n \in 0..otpFieldsCount : n \in G
  BY <1>1, <1>2, Induct
<1> QED
  BY <1>3 DEF G

\* The code is as long as the row of fields exactly when no field is empty.
LEMMA TypedCount ==
  ASSUME NEW e \in [Fields -> Nat], \A i \in Fields : e[i] <= 1
  PROVE  EnteredCount(e) = otpFieldsCount <=> Empty(e) = {}
<1>1. PICK f : Sums(e, f, otpFieldsCount) /\ EnteredCount(e) = f[otpFieldsCount]
  BY EnteredCountIs
<1>2. otpFieldsCount \in 0..otpFieldsCount
  BY FieldsAssumption
<1>3. f[otpFieldsCount] = otpFieldsCount <=> \A i \in 1..otpFieldsCount : e[i] # 0
  BY <1>1, <1>2, SumOfTyped
<1> QED
  BY <1>1, <1>3 DEF Empty, Fields

\* For any number of fields: with at most one character per field, the keystroke
\* that fills the last gap of VPMOTPView reports the code, and no other one does.
THEOREM EnteredCorrect == Spec => EnteredWhenTyped
<1>1. TypeOK' /\ [Next]_vars =>
        [InsertText /\ (\A i \in Fields : entry'[i] <= 1)
           => (calls' # <<>> <=> Empty(entry') = {})]_vars
  <2> SUFFICES ASSUME TypeOK', InsertText, \A i \in Fields : entry'[i] <= 1
               PROVE  calls' # <<>> <=> Empty(entry') = {}
    OBVIOUS
  <2>1. calls' = calculateEnteredOTPSTring(entry')
    BY DEF InsertText, ReplaceText
  <2>2. calls' # <<>> <=> EnteredCount(entry') = otpFieldsCount
    BY <2>1 DEF calculateEnteredOTPSTring
  <2>3. entry' \in [Fields -> Nat]
    BY DEF TypeOK
  <2> QED
    BY <2>2, <2>3, TypedCount
<1> QED
  BY <1>1, TypeCorrect, PTL DEF Spec, EnteredWhenTyped

-----------------------------------------------------------------------------
(* The entry as OtpEntry describes it. *)

LEMMA EntryInit == Init => E!Init
<1> SUFFICES ASSUME Init PROVE E!Init
  OBVIOUS
<1>1. Empty(entry) = E!Fields
  BY DEF Init, Empty, Fields, E!Fields
<1>2. ~ \E i \in Fields : entry[i] > 1
  BY DEF Init
<1>3. ~ \E i \in 1..Len(calls) : calls[i] = "enteredOTP"
  BY DEF Init
<1> QED
  BY <1>1, <1>2, <1>3 DEF E!Init

\* The first delegate call of a complete code is enteredOTP.
LEMMA ReportIs ==
  ASSUME calls' = calculateEnteredOTPSTring(entry')
  PROVE  (\E i \in 1..Len(calls') : calls'[i] = "enteredOTP")
           <=> EnteredCount(entry') = otpFieldsCount
<1>1. CASE EnteredCount(entry') = otpFieldsCount
  <2>1. calls' = <<"enteredOTP", "hasEnteredAllOTP(true)">>
    BY <1>1 DEF calculateEnteredOTPSTring
  <2>2. 1 \in 1..Len(calls') /\ calls'[1] = "enteredOTP"
    BY <2>1
  <2> QED
    BY <1>1, <2>2
<1>2. CASE EnteredCount(entry') # otpFieldsCount
  <2>1. calls' = <<>>
    BY <1>2 DEF calculateEnteredOTPSTring
  <2> QED
    BY <1>2, <2>1
<1> QED
  BY <1>1, <1>2

LEMMA EntryReports ==
  ASSUME TypeOK', calls' = calculateEnteredOTPSTring(entry') PROVE E!ReportsWhenFull
<1> SUFFICES ASSUME ~ \E i \in Fields : entry'[i] > 1
             PROVE  (\E i \in 1..Len(calls') : calls'[i] = "enteredOTP") <=> Empty(entry') = {}
  BY DEF E!ReportsWhenFull
<1>1. entry' \in [Fields -> Nat]
  BY DEF TypeOK
<1>2. \A i \in Fields : entry'[i] <= 1
  BY <1>1
<1> QED
  BY <1>1, <1>2, TypedCount, ReportIs

\* A field that is emptied is one before the gap, or the first of a new one.
LEMMA EntryWidens ==
  ASSUME TypeOK, NEW f \in Fields, f \notin Empty(entry),
         Empty(entry) # {} => f = FirstEmpty(entry) - 1,
         entry' = [entry EXCEPT ![f] = 0]
  PROVE  E!Widen /\ Empty(entry') = Empty(entry) \cup {f}
         /\ ((\E i \in Fields : entry'[i] > 1) => \E i \in Fields : entry[i] > 1)
<1>1. entry \in [Fields -> Nat]
  BY DEF TypeOK
<1>2. Empty(entry') = Empty(entry) \cup {f}
  BY <1>1 DEF Empty
<1>3. Empty(entry) # {} => f + 1 \in Empty(entry)
  BY FirstEmptyIsLeast DEF Empty, Fields
<1>4. f \in E!Fields \ Empty(entry)
  BY DEF Fields, E!Fields
<1>5. E!Widen
  BY <1>2, <1>3, <1>4 DEF E!Widen
<1>6. \A i \in Fields : entry'[i] > 1 => entry[i] > 1
  BY <1>1
<1> QED
  BY <1>2, <1>5, <1>6

\* A filled field at the keyboard is the one before the gap.
LEMMA FilledAtGap ==
  ASSUME NEW f, f \notin Empty(entry), AtGap(entry, f)
  PROVE  Empty(entry) # {} => f = FirstEmpty(entry) - 1
BY FirstEmptyIsLeast DEF AtGap

LEMMA EntryStep ==
  ASSUME ~shouldAllowIntermediateEditing, TypeOK, TypeOK', GapInv, [Next]_vars
  PROVE  [E!Next]_(E!evars)
<1> USE FieldsAssumption, InsertionsAssumption
<1>0. Contiguous(entry) /\ (focus # 0 => AtGap(entry, focus) /\ focus \in Fields)
  BY DEF GapInv, TypeOK, Fields
<1>t. entry \in [Fields -> Nat]
  BY DEF TypeOK
<1>q. /\ calls' = <<>> => ~ \E i \in 1..Len(calls') : calls'[i] = "enteredOTP"
      /\ calls' = <<"hasEnteredAllOTP(false)">>
           => ~ \E i \in 1..Len(calls') : calls'[i] = "enteredOTP"
  OBVIOUS
<1>1. CASE initializeUI
  <2>1. Empty(entry') = E!Fields /\ ~ \E i \in Fields : entry'[i] > 1
    BY <1>1 DEF initializeUI, Empty, Fields, E!Fields
  <2>2. calls' = <<>>
    BY <1>1 DEF initializeUI
  <2>3. E!Reset
    BY <2>1, <2>2, <1>q DEF E!Reset
  <2> QED
    BY <2>3 DEF E!Next
<1>2. ASSUME NEW f \in Fields, Tap(f) PROVE E!Next
  <2>1. entry' = entry /\ focus' # 0 /\ calls' = <<>>
    BY <1>2 DEF Tap, Fields
  <2>2. E!Focus
    BY <2>1, <1>q DEF E!Focus
  <2> QED
    BY <2>2 DEF E!Next
<1>3. ASSUME NEW n \in Insertions, ReplaceText(n) PROVE E!Next
  <2>1. /\ focus # 0 /\ focus \in Fields /\ AtGap(entry, focus) /\ n \in Nat \ {0}
        /\ entry' = [entry EXCEPT ![focus] = n] /\ calls' = calculateEnteredOTPSTring(entry')
    BY <1>3, <1>0 DEF ReplaceText
  <2>2. Empty(entry') = Empty(entry) \ {focus}
    BY <2>1, <1>t DEF Empty
  <2>3. focus \in Empty(entry) => \A x \in Empty(entry) : focus <= x
    BY <2>1, FirstEmptyIsLeast DEF AtGap, Empty, Fields
  <2>4. Empty(entry') = Empty(entry) \/ E!Narrow
    BY <2>2, <2>3 DEF E!Narrow
  <2>5. focus' # 0 \/ Empty(entry') = {}
    <3>1. CASE focus < otpFieldsCount
      <4>1. focus' \in {focus, focus + 1}
        BY <1>3, <3>1, ResponderType DEF ReplaceText
      <4> QED
        BY <2>1, <4>1 DEF Fields
    <3>2. CASE ~(focus < otpFieldsCount)
      <4>1. focus = otpFieldsCount
        BY <2>1, <3>2 DEF Fields
      <4>2. \A x \in Empty(entry) : x = otpFieldsCount
        BY <2>1, <4>1, FirstEmptyIsLeast DEF AtGap, Empty, Fields
      <4> QED
        BY <2>2, <4>1, <4>2
    <3> QED
      BY <3>1, <3>2
  <2>6. E!Insert
    BY <2>1, <2>4, <2>5, EntryReports DEF E!Insert
  <2> QED
    BY <2>6 DEF E!Next
<1>4. CASE BackspaceInLongText
  <2>1. /\ focus # 0 /\ focus \in Fields /\ AtGap(entry, focus) /\ entry[focus] > 1
        /\ focus \notin Empty(entry)
        /\ entry' = [entry EXCEPT ![focus] = 0] /\ calls' = calculateEnteredOTPSTring(entry')
    BY <1>4, <1>0, <1>t DEF BackspaceInLongText, ReplaceText, Empty
  <2>2. Empty(entry) # {} => focus = FirstEmpty(entry) - 1
    BY <2>1, FilledAtGap
  <2>3. E!Widen /\ Empty(entry') = Empty(entry) \cup {focus}
    BY <2>1, <2>2, EntryWidens
  <2>4. focus' # 0 \/ Empty(entry') = {otpFieldsCount}
    <3>1. CASE focus < otpFieldsCount
      <4>1. focus' \in {focus, focus + 1}
        BY <1>4, <3>1, ResponderType DEF BackspaceInLongText, ReplaceText
      <4> QED
        BY <2>1, <4>1 DEF Fields
    <3>2. CASE ~(focus < otpFieldsCount)
      <4>1. focus = otpFieldsCount
        BY <2>1, <3>2 DEF Fields
      <4>2. Empty(entry) = {}
        BY <2>2, <4>1, FirstEmptyIsLeast DEF Empty, Fields
      <4> QED
        BY <2>3, <4>1, <4>2
    <3> QED
      BY <3>1, <3>2
  <2>5. E!EraseLong
    BY <2>1, <2>3, <2>4, EntryReports DEF E!EraseLong
  <2> QED
    BY <2>5 DEF E!Next
<1>5. CASE DeleteFieldText
  <2>1. /\ focus # 0 /\ focus \in Fields /\ AtGap(entry, focus) /\ focus \notin Empty(entry)
        /\ entry' = [entry EXCEPT ![focus] = 0] /\ calls' = <<"hasEnteredAllOTP(false)">>
    BY <1>5, <1>0, <1>t DEF DeleteFieldText, deleteText, Empty
  <2>2. /\ E!Widen
        /\ (\E i \in Fields : entry'[i] > 1) => \E i \in Fields : entry[i] > 1
    BY <2>1, FilledAtGap, EntryWidens
  <2>3. focus' # 0
    <3>1. focus' = focus \/ (focus > 1 /\ focus' \in {focus, focus - 1})
      BY <1>5, ResponderType DEF DeleteFieldText
    <3> QED
      BY <2>1, <3>1 DEF Fields
  <2>4. E!Erase
    BY <2>1, <2>2, <2>3, <1>q DEF E!Erase
  <2> QED
    BY <2>4 DEF E!Next
<1>6. CASE deleteBackward
  <2>0. focus # 0 /\ focus \in Fields /\ focus \in Empty(entry) /\ AtGap(entry, focus)
    BY <1>6, <1>0 DEF deleteBackward, Empty
  <2>1. /\ focus # 0 /\ focus \in Fields /\ focus \in Empty(entry)
        /\ focus = FirstEmpty(entry) /\ calls' = <<"hasEnteredAllOTP(false)">>
    <3>1. FirstEmpty(entry) <= focus /\ FirstEmpty(entry) \in Int /\ focus \in Int
      BY <2>0, FirstEmptyIsLeast DEF Empty, Fields
    <3>2. focus \in {FirstEmpty(entry), FirstEmpty(entry) - 1}
      BY <2>0 DEF AtGap
    <3>3. calls' = <<"hasEnteredAllOTP(false)">>
      BY <1>6 DEF deleteBackward, deleteText
    <3> QED
      BY <2>0, <3>1, <3>2, <3>3
  <2>2. CASE focus > 1
    <3>1. focus - 1 \in Fields /\ focus - 1 \notin Empty(entry)
      BY <2>1, <2>2, FirstEmptyIsLeast DEF Fields
    <3>2. /\ E!Widen
          /\ (\E i \in Fields : entry'[i] > 1) => \E i \in Fields : entry[i] > 1
      BY <1>6, <2>1, <2>2, <3>1, EntryWidens DEF deleteBackward, deleteText
    <3>3. focus' # 0
      <4>1. focus' \in {focus, focus - 1}
        BY <1>6, <2>2, ResponderType DEF deleteBackward
      <4> QED
        BY <2>1, <2>2, <4>1 DEF Fields
    <3>4. E!Erase
      BY <2>1, <3>2, <3>3, <1>q DEF E!Erase
    <3> QED
      BY <3>4 DEF E!Next
  <2>3. CASE ~(focus > 1)
    <3>1. focus = 1
      BY <2>1, <2>3 DEF Fields
    <3>2. entry' = entry /\ focus' = focus
      BY <1>6, <1>t, <2>1, <2>3 DEF deleteBackward, deleteText, Empty
    <3>3. E!Erase
      BY <2>1, <3>1, <3>2, <1>q DEF E!Erase
    <3> QED
      BY <3>3 DEF E!Next
  <2> QED
    BY <2>2, <2>3
<1>7. CASE UNCHANGED vars
  BY <1>7 DEF vars, E!evars
<1> QED
  BY <1>1, <1>2, <1>3, <1>4, <1>5, <1>6, <1>7 DEF Next, InsertText

\* As this app configures it, VPMOTPView keeps what OtpEntry promises, for any number
\* of fields and any lengths of pasted text: its fields close and open at the left end
\* of one gap, each keystroke needs the keyboard, and a typed code is reported by the
\* keystroke that completes it.
THEOREM OtpEntryCorrect ==
  ASSUME ~shouldAllowIntermediateEditing PROVE Spec => ImplementsOtpEntry
<1>1. TypeOK /\ TypeOK' /\ GapInv /\ [Next]_vars => [E!Next]_(E!evars)
  BY EntryStep
<1> QED
  BY <1>1, EntryInit, TypeCorrect, GapCorrectInv, PTL DEF Spec, ImplementsOtpEntry, E!Spec
=============================================================================
