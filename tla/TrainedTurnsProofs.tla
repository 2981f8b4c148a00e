------------------------- MODULE TrainedTurnsProofs -------------------------
(***************************************************************************)
(* Proofs about rollouts of several turns, for every number of runners,    *)
(* dialogues and turns, every scheduler and every group of ranks.          *)
(*                                                                         *)
(* The inductive invariant has three parts.  RunnersInv: the ranks of      *)
(* colocated engines are in the same round, and a runner that is to take   *)
(* its turn has, in their order, the answers to its dialogues and not to   *)
(* others'.  DialoguesInv: before turn t (Talk) a dialogue's messages say  *)
(* what was answered in the turns before it, ids that every step returned  *)
(* are what the model's messages say, masks fit them, and there are as     *)
(* many log-probabilities as trained ids or more - more for good as soon   *)
(* as they are not of these ids.  ResultsInv: each result has the three    *)
(* properties, by what Talk says of the request that it is made of.        *)
(***************************************************************************)
EXTENDS TrainedTurns, SequenceLemmas, FiniteSetTheorems

-----------------------------------------------------------------------------
(* Selected.                                                                *)

\* What a mask keeps of each element.
KeptOf(s, mask) == [k \in DOMAIN s |-> IF mask[k] THEN <<s[k]>> ELSE <<>>]

\* These are as many as there are elements, and joined are what is selected.
LEMMA KeptType ==
    ASSUME NEW S, NEW s \in Seq(S), NEW mask
    PROVE  /\ KeptOf(s, mask) \in Seq(Seq(S)) /\ Len(KeptOf(s, mask)) = Len(s)
           /\ \A k \in 1..Len(s) : KeptOf(s, mask)[k] = IF mask[k] THEN <<s[k]>> ELSE <<>>
           /\ Selected(s, mask) = FlattenSeq(KeptOf(s, mask))
           /\ Selected(s, mask) \in Seq(S)
<1> DEFINE n == Len(s)
           kept == KeptOf(s, mask)
<1>1. n \in Nat /\ DOMAIN s = 1..n
  BY LenProperties
<1>2. \A k \in 1..n : (IF mask[k] THEN <<s[k]>> ELSE <<>>) \in Seq(S)
  <2>1. ASSUME NEW k \in 1..n PROVE (IF mask[k] THEN <<s[k]>> ELSE <<>>) \in Seq(S)
    <3>1. s[k] \in S
      BY ElementOfSeq
    <3>2. <<s[k]>> \in Seq(S) /\ <<>> \in Seq(S)
      BY <3>1, EmptySeq
    <3>3. QED
      BY <3>2
  <2>2. QED
    BY <2>1
<1>3. kept = [k \in 1..n |-> IF mask[k] THEN <<s[k]>> ELSE <<>>]
  BY <1>1 DEF KeptOf
<1>4. kept \in [1..n -> Seq(S)]
  BY <1>2, <1>3
<1>5. \A k \in 1..n : kept[k] = IF mask[k] THEN <<s[k]>> ELSE <<>>
  BY <1>3
<1> HIDE DEF kept, n
<1>6. kept \in Seq(Seq(S)) /\ Len(kept) = n
  BY <1>1, <1>4
<1>7. Selected(s, mask) = FlattenSeq(kept)
  BY Zenon DEF Selected, KeptOf, kept
<1>8. FlattenSeq(kept) \in Seq(S)
  <2>1. <<>> \in Seq(S)
    BY EmptySeq
  <2>2. QED
    BY <1>6, <2>1, FlattenAppend
<1>9. QED
  BY <1>5, <1>6, <1>7, <1>8 DEF kept, n

\* Of nothing, nothing is kept.
LEMMA SelectedNone ==
    ASSUME NEW mask PROVE Selected(<<>>, mask) = <<>>
<1> DEFINE none == <<>>
           kept == KeptOf(none, mask)
<1>1. none \in Seq({}) /\ Len(none) = 0
  BY EmptySeq
<1> HIDE DEF none, kept
<1>2. kept \in Seq(Seq({})) /\ Len(kept) = 0 /\ Selected(none, mask) = FlattenSeq(kept)
  BY <1>1, KeptType DEF kept
<1>3. FlattenSeq(kept) = <<>>
  BY <1>2, FlattenNone
<1>4. QED
  BY <1>2, <1>3 DEF none

\* One element more is kept or not.
LEMMA SelectedAppend ==
    ASSUME NEW S, NEW s \in Seq(S), NEW e \in S, NEW mask
    PROVE  Selected(Append(s, e), mask)
             = Selected(s, mask) \o (IF mask[Len(s) + 1] THEN <<e>> ELSE <<>>)
<1> DEFINE n == Len(s)
           u == Append(s, e)
           x == IF mask[n + 1] THEN <<e>> ELSE <<>>
           a == KeptOf(s, mask)
           b == KeptOf(u, mask)
<1>1. /\ n \in Nat /\ u \in Seq(S) /\ Len(u) = n + 1
      /\ \A k \in 1..n : u[k] = s[k]
      /\ u[n + 1] = e
  BY AppendProperties, LenProperties
<1>2. x \in Seq(S)
  <2>1. <<e>> \in Seq(S) /\ <<>> \in Seq(S)
    BY EmptySeq
  <2>2. QED
    BY <2>1
<1> HIDE DEF n, u, x, a, b
<1>3. /\ a \in Seq(Seq(S)) /\ Len(a) = n
      /\ \A k \in 1..n : a[k] = IF mask[k] THEN <<s[k]>> ELSE <<>>
      /\ Selected(s, mask) = FlattenSeq(a)
  BY KeptType DEF a, n
<1>4. /\ b \in Seq(Seq(S)) /\ Len(b) = n + 1
      /\ \A k \in 1..n + 1 : b[k] = IF mask[k] THEN <<u[k]>> ELSE <<>>
      /\ Selected(u, mask) = FlattenSeq(b)
  <2>1. Len(u) = n + 1 /\ u \in Seq(S)
    BY <1>1
  <2>2. /\ b \in Seq(Seq(S)) /\ Len(b) = Len(u)
        /\ \A k \in 1..Len(u) : b[k] = IF mask[k] THEN <<u[k]>> ELSE <<>>
        /\ Selected(u, mask) = FlattenSeq(b)
    BY <2>1, KeptType DEF b
  <2>3. QED
    BY <2>1, <2>2
<1>5. b = Append(a, x)
  <2> DEFINE c == Append(a, x)
  <2>1. /\ c \in Seq(Seq(S)) /\ Len(c) = n + 1
        /\ \A k \in 1..n : c[k] = a[k]
        /\ c[n + 1] = x
    BY <1>2, <1>3, AppendProperties
  <2> HIDE DEF c
  <2>2. ASSUME NEW k \in 1..n + 1 PROVE b[k] = c[k]
    <3>1. CASE k = n + 1
      BY <1>1, <1>4, <2>1, <3>1 DEF x
    <3>2. CASE k # n + 1
      <4>1. k \in 1..n
        BY <1>1, <3>2
      <4>2. b[k] = a[k]
        BY <1>1, <1>3, <1>4, <4>1
      <4>3. QED
        BY <2>1, <4>1, <4>2
    <3>3. QED
      BY <3>1, <3>2
  <2>3. Len(b) = Len(c) /\ \A k \in 1..Len(b) : b[k] = c[k]
    BY <1>4, <2>1, <2>2
  <2>4. b = c
    BY <1>4, <2>1, <2>3, SeqEqual
  <2>5. QED
    BY <2>4 DEF c
<1>6. FlattenSeq(Append(a, x)) = FlattenSeq(a) \o x
  BY <1>2, <1>3, FlattenAppend
<1>7. Selected(u, mask) = Selected(s, mask) \o x
  BY <1>3, <1>4, <1>5, <1>6
<1>8. QED
  BY <1>7, Zenon DEF u, x, n

\* A mask matters only where there are elements.
LEMMA SelectedSame ==
    ASSUME NEW S, NEW s \in Seq(S), NEW a, NEW b, \A k \in 1..Len(s) : a[k] = b[k]
    PROVE  Selected(s, a) = Selected(s, b)
<1>1. DOMAIN s = 1..Len(s)
  BY LenProperties
<1>2. KeptOf(s, a) = KeptOf(s, b)
  BY <1>1 DEF KeptOf
<1>3. QED
  BY <1>2, KeptType

\* Two sequences with their masks, one after the other.
LEMMA SelectedConcat ==
    ASSUME NEW S, NEW s \in Seq(S), NEW t \in Seq(S),
           NEW a \in Seq(BOOLEAN), NEW b \in Seq(BOOLEAN),
           Len(a) = Len(s), Len(b) = Len(t)
    PROVE  Selected(s \o t, a \o b) = Selected(s, a) \o Selected(t, b)
<1> DEFINE u == s \o t
           c == a \o b
           ks == KeptOf(s, a)
           kt == KeptOf(t, b)
           ku == KeptOf(u, c)
           m == Len(s)
           n == Len(t)
<1>1. m \in Nat /\ n \in Nat
  BY LenProperties
<1>2. u \in Seq(S) /\ EndToEnd(s, t, u)
  BY ConcatAt
<1>3. c \in Seq(BOOLEAN) /\ EndToEnd(a, b, c)
  BY ConcatAt
<1> HIDE DEF u, c, ks, kt, ku
<1>4. /\ ks \in Seq(Seq(S)) /\ Len(ks) = m
      /\ \A k \in 1..m : ks[k] = IF a[k] THEN <<s[k]>> ELSE <<>>
      /\ Selected(s, a) = FlattenSeq(ks)
  BY KeptType DEF ks
<1>5. /\ kt \in Seq(Seq(S)) /\ Len(kt) = n
      /\ \A k \in 1..n : kt[k] = IF b[k] THEN <<t[k]>> ELSE <<>>
      /\ Selected(t, b) = FlattenSeq(kt)
  BY KeptType DEF kt
<1>6. /\ ku \in Seq(Seq(S)) /\ Len(ku) = Len(u)
      /\ \A k \in 1..Len(u) : ku[k] = IF c[k] THEN <<u[k]>> ELSE <<>>
      /\ Selected(u, c) = FlattenSeq(ku)
  BY <1>2, KeptType DEF ku
<1>7. /\ Len(u) = m + n /\ \A k \in 1..m : u[k] = s[k] /\ c[k] = a[k]
      /\ \A k \in 1..n : u[m + k] = t[k] /\ c[m + k] = b[k]
  BY <1>2, <1>3 DEF EndToEnd
<1> DEFINE w == ks \o kt
<1>8. w \in Seq(Seq(S)) /\ EndToEnd(ks, kt, w)
  BY <1>4, <1>5, ConcatAt
<1> HIDE DEF w, m, n
<1>9. /\ Len(w) = m + n /\ \A k \in 1..m : w[k] = ks[k]
      /\ \A k \in 1..n : w[m + k] = kt[k]
  BY <1>4, <1>5, <1>8 DEF EndToEnd
<1>10. ASSUME NEW k \in 1..m + n PROVE ku[k] = w[k]
  <2>1. k \in 1..Len(u)
    BY <1>7
  <2>2. ku[k] = IF c[k] THEN <<u[k]>> ELSE <<>>
    BY <1>6, <2>1
  <2>3. CASE k <= m
    <3>1. k \in 1..m
      BY <1>1, <2>3
    <3>2. QED
      BY <1>4, <1>7, <1>9, <2>2, <3>1
  <2>4. CASE ~(k <= m)
    <3>1. PICK j \in 1..n : k = m + j
      <4>1. k - m \in 1..n /\ k = m + (k - m)
        BY <1>1, <2>4
      <4>2. QED
        BY <4>1
    <3>2. u[k] = t[j] /\ c[k] = b[j] /\ w[k] = kt[j]
      BY <1>7, <1>9, <3>1
    <3>3. QED
      BY <1>5, <2>2, <3>2
  <2>5. QED
    BY <2>3, <2>4
<1>11. ku = w
  <2>1. Len(ku) = Len(w) /\ \A k \in 1..Len(ku) : ku[k] = w[k]
    BY <1>6, <1>7, <1>9, <1>10
  <2>2. QED
    BY <1>6, <1>8, <2>1, SeqEqual
<1>12. FlattenSeq(ks \o kt) = FlattenSeq(ks) \o FlattenSeq(kt)
  BY <1>4, <1>5, FlattenConcat
<1>13. Selected(u, c) = Selected(s, a) \o Selected(t, b)
  BY <1>4, <1>5, <1>6, <1>11, <1>12 DEF w
<1>14. QED
  BY <1>13 DEF u, c

\* What is selected is of the sequence; a mask of ones selects all of it, a mask
\* without ones nothing.
LEMMA SelectedAll ==
    ASSUME NEW S, NEW s \in Seq(S), NEW mask, \A k \in 1..Len(s) : mask[k] = TRUE
    PROVE  Selected(s, mask) = s
<1> DEFINE T == {u \in Seq(S) : (\A k \in 1..Len(u) : mask[k] = TRUE) => Selected(u, mask) = u}
           none == <<>>
<1>1. none \in T
  <2>1. none \in Seq(S) /\ Selected(none, mask) = none
    BY EmptySeq, SelectedNone
  <2> HIDE DEF none
  <2>2. QED
    BY <2>1
<1>2. ASSUME NEW u \in Seq(S), NEW e \in S, u \in T
      PROVE  Append(u, e) \in T
  <2> DEFINE v == Append(u, e)
  <2>1. v \in Seq(S) /\ Len(v) = Len(u) + 1 /\ Len(u) \in Nat /\ v = u \o <<e>>
    BY AppendProperties, AppendIsConcat, LenProperties
  <2>2. Selected(v, mask) = Selected(u, mask) \o (IF mask[Len(u) + 1] THEN <<e>> ELSE <<>>)
    <3> HIDE DEF T
    <3>1. QED
      BY SelectedAppend
  <2> HIDE DEF v
  <2>3. ASSUME \A k \in 1..Len(v) : mask[k] = TRUE
        PROVE  Selected(v, mask) = v
    <3>1. mask[Len(u) + 1] = TRUE /\ \A k \in 1..Len(u) : mask[k] = TRUE
      BY <2>1, <2>3
    <3>2. Selected(u, mask) = u
      BY <1>2, <3>1
    <3> HIDE DEF T
    <3>3. QED
      BY <2>1, <2>2, <3>1, <3>2, Zenon
  <2>4. QED
    BY <2>1, <2>3 DEF v
<1> HIDE DEF T
<1>3. \A u \in Seq(S) : u \in T
  <2>1. <<>> \in T
    BY <1>1 DEF none
  <2>2. QED
    BY <1>2, <2>1, SeqInduction
<1>4. QED
  BY <1>3 DEF T

\* A mask of zeros keeps nothing.
LEMMA SelectedNothing ==
    ASSUME NEW S, NEW s \in Seq(S), NEW mask, \A k \in 1..Len(s) : mask[k] = FALSE
    PROVE  Selected(s, mask) = <<>>
<1> DEFINE none == <<>>
           T == {u \in Seq(S) : (\A k \in 1..Len(u) : mask[k] = FALSE) => Selected(u, mask) = none}
<1>1. none \in T
  <2>1. none \in Seq(S) /\ Selected(none, mask) = none
    BY EmptySeq, SelectedNone
  <2> HIDE DEF none
  <2>2. QED
    BY <2>1
<1>2. ASSUME NEW u \in Seq(S), NEW e \in S, u \in T
      PROVE  Append(u, e) \in T
  <2> DEFINE v == Append(u, e)
  <2>1. v \in Seq(S) /\ Len(v) = Len(u) + 1 /\ Len(u) \in Nat
    BY AppendProperties, LenProperties
  <2>2. Selected(v, mask) = Selected(u, mask) \o (IF mask[Len(u) + 1] THEN <<e>> ELSE none)
    <3> HIDE DEF T
    <3>1. QED
      BY SelectedAppend
  <2>4. none \o none = none
    <3>1. none \in Seq(S)
      BY EmptySeq
    <3>2. QED
      BY <3>1, ConcatEmptySeq
  <2> HIDE DEF v, none
  <2>3. ASSUME \A k \in 1..Len(v) : mask[k] = FALSE
        PROVE  Selected(v, mask) = none
    <3>1. mask[Len(u) + 1] = FALSE /\ \A k \in 1..Len(u) : mask[k] = FALSE
      BY <2>1, <2>3
    <3>2. Selected(u, mask) = none
      BY <1>2, <3>1
    <3> HIDE DEF T
    <3>3. QED
      BY <2>2, <2>4, <3>1, <3>2, Zenon
  <2>5. QED
    BY <2>1, <2>3 DEF v
<1> HIDE DEF T
<1>3. \A u \in Seq(S) : u \in T
  <2>1. <<>> \in T
    BY <1>1 DEF none
  <2>2. QED
    BY <1>2, <2>1, SeqInduction
<1>4. QED
  BY <1>3 DEF T, none

\* What is kept was there, and the mask keeps it.
LEMMA SelectedMembers ==
    ASSUME NEW S, NEW s \in Seq(S), NEW mask, NEW j \in 1..Len(Selected(s, mask))
    PROVE  \E k \in 1..Len(s) : mask[k] /\ Selected(s, mask)[j] = s[k]
<1> DEFINE Right(u) == \A i \in 1..Len(Selected(u, mask)) :
                          \E k \in 1..Len(u) : mask[k] /\ Selected(u, mask)[i] = u[k]
           T == {u \in Seq(S) : Right(u)}
           none == <<>>
<1>1. none \in T
  <2>1. none \in Seq(S) /\ Selected(none, mask) = none /\ Len(none) = 0
    BY EmptySeq, SelectedNone
  <2> HIDE DEF none
  <2>2. QED
    BY <2>1
<1>2. ASSUME NEW u \in Seq(S), NEW e \in S, u \in T
      PROVE  Append(u, e) \in T
  <2> DEFINE v == Append(u, e)
             a == Selected(u, mask)
             b == Selected(v, mask)
             x == IF mask[Len(u) + 1] THEN <<e>> ELSE <<>>
             n == Len(u)
  <2>1. v \in Seq(S) /\ Len(v) = n + 1 /\ n \in Nat /\ v[n + 1] = e /\ \A k \in 1..n : v[k] = u[k]
    BY AppendProperties, LenProperties
  <2>2. b = a \o x
    <3> HIDE DEF T
    <3>1. QED
      BY SelectedAppend
  <2>3. \A i \in 1..Len(a) : \E k \in 1..n : mask[k] /\ a[i] = u[k]
    BY <1>2
  <2>4. x \in Seq(S) /\ \A i \in 1..Len(x) : i = 1 /\ x[1] = e /\ mask[n + 1]
    <3>1. <<e>> \in Seq(S) /\ <<>> \in Seq(S) /\ Len(<<e>>) = 1 /\ Len(<<>>) = 0 /\ <<e>>[1] = e
      BY EmptySeq
    <3>2. CASE mask[n + 1]
      BY <3>1, <3>2
    <3>3. CASE ~mask[n + 1]
      BY <3>1, <3>3
    <3>4. QED
      BY <3>2, <3>3
  <2>5. a \in Seq(S)
    BY KeptType
  <2> HIDE DEF v, a, b, x, n, T
  <2>6. b \in Seq(S) /\ EndToEnd(a, x, b)
    BY <2>2, <2>4, <2>5, ConcatAt
  <2>7. Len(a) \in Nat /\ Len(x) \in Nat
    BY <2>4, <2>5, LenProperties
  <2>8. ASSUME NEW i \in 1..Len(b) PROVE \E k \in 1..Len(v) : mask[k] /\ b[i] = v[k]
    <3>1. CASE i \in 1..Len(a)
      <4>1. PICK k \in 1..n : mask[k] /\ a[i] = u[k]
        BY <2>3, <3>1
      <4>2. k \in 1..Len(v) /\ v[k] = u[k] /\ b[i] = a[i]
        BY <2>1, <2>6, <3>1 DEF EndToEnd
      <4>3. QED
        BY <4>1, <4>2
    <3>2. CASE i \notin 1..Len(a)
      <4>1. i - Len(a) \in 1..Len(x) /\ i = Len(a) + (i - Len(a))
        BY <2>6, <2>7, <3>2 DEF EndToEnd
      <4>2. b[i] = x[i - Len(a)]
        BY <2>6, <4>1 DEF EndToEnd
      <4>3. i - Len(a) = 1 /\ x[1] = e /\ mask[n + 1]
        BY <2>4, <4>1
      <4>4. n + 1 \in 1..Len(v) /\ b[i] = v[n + 1]
        BY <2>1, <4>2, <4>3
      <4>5. QED
        BY <4>3, <4>4
    <3>3. QED
      BY <3>1, <3>2
  <2>9. QED
    BY <2>1, <2>8 DEF v, b, T
<1> HIDE DEF T
<1>3. \A u \in Seq(S) : u \in T
  <2>1. <<>> \in T
    BY <1>1 DEF none
  <2>2. QED
    BY <1>2, <2>1, SeqInduction
<1>4. QED
  BY <1>3 DEF T

\* How many elements are selected depends on the mask alone.
LEMMA SelectedLength ==
    ASSUME NEW S, NEW R, NEW s \in Seq(S), NEW u \in Seq(R), Len(s) = Len(u), NEW mask
    PROVE  Len(Selected(s, mask)) = Len(Selected(u, mask))
<1> DEFINE Right(a) == \A b \in Seq(R) : Len(a) = Len(b) =>
                          Len(Selected(a, mask)) = Len(Selected(b, mask))
           T == {a \in Seq(S) : Right(a)}
           none == <<>>
<1>1. none \in T
  <2>1. none \in Seq(S) /\ Selected(none, mask) = none /\ Len(none) = 0
    BY EmptySeq, SelectedNone
  <2>2. ASSUME NEW b \in Seq(R), Len(b) = 0 PROVE b = none
    BY <2>2, EmptySeq
  <2> HIDE DEF none
  <2>3. QED
    BY <2>1, <2>2
<1>2. ASSUME NEW a \in Seq(S), NEW e \in S, a \in T
      PROVE  Append(a, e) \in T
  <2> DEFINE v == Append(a, e)
  <2>1. v \in Seq(S) /\ Len(v) = Len(a) + 1 /\ Len(a) \in Nat
    BY AppendProperties, LenProperties
  <2>2. Selected(v, mask) = Selected(a, mask) \o (IF mask[Len(a) + 1] THEN <<e>> ELSE <<>>)
    <3> HIDE DEF T
    <3>1. QED
      BY SelectedAppend
  <2>3. \A b \in Seq(R) : Len(a) = Len(b) => Len(Selected(a, mask)) = Len(Selected(b, mask))
    BY <1>2
  <2> HIDE DEF v, T
  <2>4. ASSUME NEW w \in Seq(R), Len(v) = Len(w)
        PROVE  Len(Selected(v, mask)) = Len(Selected(w, mask))
    <3>1. w # <<>>
      BY <2>1, <2>4, EmptySeq
    <3>2. PICK b \in Seq(R), c \in R : w = Append(b, c)
      BY <3>1, SequenceEmptyOrAppend
    <3>3. Len(w) = Len(b) + 1 /\ Len(b) \in Nat
      BY <3>2, AppendProperties, LenProperties
    <3>4. Len(b) = Len(a)
      BY <2>1, <2>4, <3>3
    <3>5. Selected(w, mask) = Selected(b, mask) \o (IF mask[Len(b) + 1] THEN <<c>> ELSE <<>>)
      BY <3>2, SelectedAppend
    <3>6. Len(Selected(a, mask)) = Len(Selected(b, mask))
      BY <2>3, <3>4
    <3>7. Selected(a, mask) \in Seq(S) /\ Selected(b, mask) \in Seq(R)
      BY KeptType
    <3>8. CASE mask[Len(a) + 1]
      <4>1. <<e>> \in Seq(S) /\ <<c>> \in Seq(R) /\ Len(<<e>>) = 1 /\ Len(<<c>>) = 1
        OBVIOUS
      <4>2. Selected(v, mask) = Selected(a, mask) \o <<e>> /\ Selected(w, mask) = Selected(b, mask) \o <<c>>
        BY <2>2, <3>4, <3>5, <3>8
      <4>3. /\ Len(Selected(v, mask)) = Len(Selected(a, mask)) + 1
            /\ Len(Selected(w, mask)) = Len(Selected(b, mask)) + 1
        BY <3>7, <4>1, <4>2, ConcatProperties
      <4>4. QED
        BY <3>6, <4>3
    <3>9. CASE ~mask[Len(a) + 1]
      <4>1. Selected(v, mask) = Selected(a, mask) \o <<>> /\ Selected(w, mask) = Selected(b, mask) \o <<>>
        BY <2>2, <3>4, <3>5, <3>9
      <4>2. Selected(v, mask) = Selected(a, mask) /\ Selected(w, mask) = Selected(b, mask)
        BY <3>7, <4>1, ConcatEmptySeq
      <4>3. QED
        BY <3>6, <4>2
    <3>10. QED
      BY <3>8, <3>9
  <2>5. QED
    BY <2>1, <2>4 DEF v, T
<1> HIDE DEF T
<1>3. \A a \in Seq(S) : a \in T
  <2>1. <<>> \in T
    BY <1>1 DEF none
  <2>2. QED
    BY <1>2, <2>1, SeqInduction
<1>4. QED
  BY <1>3 DEF T

\* With the length of its second part, a concatenation is this part.
LEMMA OnlySecond ==
    ASSUME NEW S, NEW a \in Seq(S), NEW b \in Seq(S), Len(a \o b) = Len(b)
    PROVE  a \o b = b
<1>1. Len(a \o b) = Len(a) + Len(b) /\ Len(a) \in Nat /\ Len(b) \in Nat
  BY ConcatProperties, LenProperties
<1>2. a = <<>>
  BY <1>1, EmptySeq
<1>3. QED
  BY <1>2, ConcatEmptySeq

-----------------------------------------------------------------------------
(* Messages.                                                                *)

\* Messages with a text over S.
Texts(S) == [role : {"user", "assistant"}, content : Seq(S)]

\* The texts of messages, and which of them are the model's.
Contents(b) == [k \in DOMAIN b |-> b[k].content]
ByModel(b) == [k \in DOMAIN b |-> b[k].role = "assistant"]

\* All that is said in messages, and what is said in each of the model's.
Text(b) == FlattenSeq(Contents(b))
ModelTexts(b) == Selected(Contents(b), ByModel(b))

\* The last message, and those before it.
LEMMA LastOfAppend ==
    ASSUME NEW S, NEW s \in Seq(S), NEW m \in S
    PROVE  Last(Append(s, m)) = m /\ Front(Append(s, m)) = s
<1> DEFINE u == Append(s, m)
           n == Len(s)
<1>1. /\ u \in Seq(S) /\ Len(u) = n + 1 /\ n \in Nat /\ u[n + 1] = m
      /\ \A k \in 1..n : u[k] = s[k] /\ s[k] \in S
  BY AppendProperties, LenProperties, ElementOfSeq
<1> HIDE DEF u
<1>2. Last(u) = m
  BY <1>1 DEF Last
<1>3. Front(u) = SubSeq(u, 1, n)
  <2>1. Len(u) - 1 = n
    BY <1>1
  <2>2. QED
    BY <2>1 DEF Front
<1>4. SubSeq(u, 1, n) = s
  <2> DEFINE w == SubSeq(u, 1, n)
  <2>1. w \in Seq(S) /\ Len(w) = n /\ \A k \in 1..n : w[k] = u[k]
    <3>1. 1 \in Int /\ n \in Int /\ \A k \in 1..n : u[k] \in S
      BY <1>1
    <3> HIDE DEF n
    <3>2. /\ w \in Seq(S) /\ Len(w) = IF 1 <= n THEN n - 1 + 1 ELSE 0
          /\ \A k \in 1..n - 1 + 1 : w[k] = u[1 + k - 1]
      BY <3>1, SubSeqProperties
    <3>3. QED
      BY <1>1, <3>1, <3>2
  <2> HIDE DEF w
  <2>2. w = s
    BY <1>1, <2>1, SeqEqual
  <2>3. QED
    BY <2>2 DEF w
<1>5. QED
  BY <1>2, <1>3, <1>4 DEF u

\* Messages are what Message makes.
LEMMA MessageFields ==
    ASSUME NEW S, NEW m \in Texts(S)
    PROVE  /\ m = Message(m.role, m.content)
           /\ m.role \in {"user", "assistant"} /\ m.content \in Seq(S)
           /\ \A c : [m EXCEPT !.content = c] = Message(m.role, c)
BY DEF Texts, Message

LEMMA MessageIs ==
    ASSUME NEW S, NEW c \in Seq(S), NEW role \in {"user", "assistant"}
    PROVE  /\ Message(role, c) \in Texts(S)
           /\ Message(role, c).role = role /\ Message(role, c).content = c
BY DEF Texts, Message

\* Changing the text of the last message.
Edited(b, c) == [b EXCEPT ![Len(b)].content = c]

LEMMA EditLast ==
    ASSUME NEW S, NEW s \in Seq(Texts(S)), NEW m \in Texts(S), NEW c \in Seq(S)
    PROVE  Edited(Append(s, m), c) = Append(s, Message(m.role, c))
<1> DEFINE u == Append(s, m)
           n == Len(s)
           x == Message(m.role, c)
           v == Append(s, x)
           e == [u EXCEPT ![n + 1] = x]
<1>1. x \in Texts(S) /\ [m EXCEPT !.content = c] = x
  <2>1. /\ m.role \in {"user", "assistant"}
        /\ \A d : [m EXCEPT !.content = d] = Message(m.role, d)
    BY MessageFields
  <2>2. [m EXCEPT !.content = c] = x
    BY <2>1
  <2> DEFINE role == m.role
  <2>3. role \in {"user", "assistant"}
    BY <2>1
  <2> HIDE DEF role
  <2>4. Message(role, c) \in Texts(S)
    BY <2>3, MessageIs
  <2>5. QED
    BY <2>2, <2>4 DEF role
<1>2. /\ u \in Seq(Texts(S)) /\ Len(u) = n + 1 /\ n \in Nat /\ u[n + 1] = m
      /\ \A k \in 1..n : u[k] = s[k]
  BY AppendProperties, LenProperties
<1> HIDE DEF x, u
<1>3. /\ v \in Seq(Texts(S)) /\ Len(v) = n + 1 /\ v[n + 1] = x
      /\ \A k \in 1..n : v[k] = s[k]
  BY <1>1, AppendProperties
<1>4. Edited(u, c) = e
  BY <1>1, <1>2 DEF Edited
<1>5. e \in Seq(Texts(S)) /\ Len(e) = n + 1 /\ \A k \in 1..n + 1 : e[k] = IF k = n + 1 THEN x ELSE u[k]
  <2>1. n + 1 \in 1..Len(u)
    BY <1>2
  <2> DEFINE p == n + 1
  <2> HIDE DEF p, n
  <2>2. /\ [u EXCEPT ![p] = x] \in Seq(Texts(S)) /\ Len([u EXCEPT ![p] = x]) = Len(u)
        /\ \A k \in 1..Len(u) : [u EXCEPT ![p] = x][k] = IF k = p THEN x ELSE u[k]
    <3>1. u \in Seq(Texts(S)) /\ p \in 1..Len(u)
      BY <1>2, <2>1 DEF p
    <3>2. x \in Texts(S)
      BY <1>1
    <3>3. QED
      BY <3>1, <3>2, ExceptSeq
  <2>3. QED
    BY <1>2, <2>2 DEF p
<1> HIDE DEF v, e, n
<1>6. ASSUME NEW k \in 1..Len(e) PROVE e[k] = v[k]
  <2>1. CASE k = n + 1
    BY <1>3, <1>5, <2>1
  <2>2. CASE k # n + 1
    <3>1. k \in 1..n
      BY <1>2, <1>5, <2>2
    <3>2. QED
      BY <1>2, <1>3, <1>5, <2>2, <3>1
  <2>3. QED
    BY <2>1, <2>2
<1>7. e = v
  BY <1>3, <1>5, <1>6, SeqEqual
<1>8. QED
  BY <1>4, <1>7 DEF v, x, u

\* As many texts as messages.
LEMMA ContentsType ==
    ASSUME NEW S, NEW b \in Seq(Texts(S))
    PROVE  /\ Contents(b) \in Seq(Seq(S)) /\ Len(Contents(b)) = Len(b)
           /\ \A k \in 1..Len(b) : Contents(b)[k] = b[k].content
           /\ \A k \in 1..Len(b) : ByModel(b)[k] = (b[k].role = "assistant")
           /\ Text(b) \in Seq(S) /\ ModelTexts(b) \in Seq(Seq(S))
<1> DEFINE n == Len(b)
           cs == Contents(b)
<1>1. n \in Nat /\ DOMAIN b = 1..n
  BY LenProperties
<1>2. \A k \in 1..n : b[k].content \in Seq(S)
  BY ElementOfSeq, MessageFields
<1>3. cs = [k \in 1..n |-> b[k].content] /\ ByModel(b) = [k \in 1..n |-> b[k].role = "assistant"]
  BY <1>1 DEF Contents, ByModel
<1>4. cs \in [1..n -> Seq(S)] /\ \A k \in 1..n : cs[k] = b[k].content
  BY <1>2, <1>3
<1>5. \A k \in 1..n : ByModel(b)[k] = (b[k].role = "assistant")
  BY <1>3
<1> HIDE DEF cs, n
<1>6. cs \in Seq(Seq(S)) /\ Len(cs) = n
  BY <1>1, <1>4
<1>7. FlattenSeq(cs) \in Seq(S)
  <2>1. <<>> \in Seq(S)
    BY EmptySeq
  <2>2. QED
    BY <1>6, <2>1, FlattenAppend
<1>8. Selected(cs, ByModel(b)) \in Seq(Seq(S))
  BY <1>6, KeptType
<1>9. QED
  BY <1>4, <1>5, <1>6, <1>7, <1>8 DEF cs, n, Text, ModelTexts

\* A message more says more, and is one of the model's or not.
LEMMA ContentsAppend ==
    ASSUME NEW S, NEW b \in Seq(Texts(S)), NEW m \in Texts(S)
    PROVE  /\ Text(Append(b, m)) = Text(b) \o m.content
           /\ ModelTexts(Append(b, m)) =
                IF m.role = "assistant" THEN Append(ModelTexts(b), m.content)
                ELSE ModelTexts(b)
<1> DEFINE n == Len(b)
           u == Append(b, m)
           cb == Contents(b)
           cu == Contents(u)
           v == Append(cb, m.content)
           x == m.content
<1>1. /\ u \in Seq(Texts(S)) /\ Len(u) = n + 1 /\ n \in Nat /\ u[n + 1] = m
      /\ \A k \in 1..n : u[k] = b[k]
  BY AppendProperties, LenProperties
<1>2. x \in Seq(S)
  BY MessageFields
<1> HIDE DEF u, cb, cu, n
<1>3. /\ cb \in Seq(Seq(S)) /\ Len(cb) = n /\ \A k \in 1..n : cb[k] = b[k].content
      /\ \A k \in 1..n : ByModel(b)[k] = (b[k].role = "assistant")
      /\ Text(b) = FlattenSeq(cb) /\ ModelTexts(b) = Selected(cb, ByModel(b))
  BY ContentsType DEF cb, n, Text, ModelTexts
<1>4. /\ cu \in Seq(Seq(S)) /\ Len(cu) = n + 1 /\ \A k \in 1..n + 1 : cu[k] = u[k].content
      /\ \A k \in 1..n + 1 : ByModel(u)[k] = (u[k].role = "assistant")
      /\ Text(u) = FlattenSeq(cu) /\ ModelTexts(u) = Selected(cu, ByModel(u))
  <2>1. u \in Seq(Texts(S)) /\ Len(u) = n + 1
    BY <1>1
  <2>2. /\ cu \in Seq(Seq(S)) /\ Len(cu) = Len(u) /\ \A k \in 1..Len(u) : cu[k] = u[k].content
        /\ \A k \in 1..Len(u) : ByModel(u)[k] = (u[k].role = "assistant")
    BY <2>1, ContentsType DEF cu
  <2>3. QED
    BY <2>1, <2>2 DEF Text, ModelTexts, cu
<1>5. /\ v \in Seq(Seq(S)) /\ Len(v) = n + 1 /\ v[n + 1] = x
      /\ \A k \in 1..n : v[k] = cb[k]
  BY <1>2, <1>3, AppendProperties
<1> HIDE DEF v
<1>6. ASSUME NEW k \in 1..Len(cu) PROVE cu[k] = v[k]
  <2>1. CASE k = n + 1
    BY <1>1, <1>4, <1>5, <2>1
  <2>2. CASE k # n + 1
    <3>1. k \in 1..n
      BY <1>1, <1>4, <2>2
    <3>2. cu[k] = u[k].content /\ v[k] = cb[k] /\ cb[k] = b[k].content /\ u[k] = b[k]
      BY <1>1, <1>3, <1>4, <1>5, <3>1
    <3>3. QED
      BY <3>2
  <2>3. QED
    BY <2>1, <2>2
<1>7. cu = v
  <2>1. cu \in Seq(Seq(S)) /\ v \in Seq(Seq(S)) /\ Len(cu) = Len(v)
    BY <1>4, <1>5
  <2>2. QED
    BY <1>6, <2>1, SeqEqual
<1> HIDE DEF x
<1>8. cu = Append(cb, x)
  BY <1>7 DEF v, x
<1>9. Text(u) = Text(b) \o x
  <2>1. FlattenSeq(Append(cb, x)) = FlattenSeq(cb) \o x
    BY <1>2, <1>3, FlattenAppend
  <2>2. QED
    BY <1>3, <1>4, <1>8, <2>1
<1>10. ModelTexts(u) = IF m.role = "assistant" THEN Append(ModelTexts(b), x) ELSE ModelTexts(b)
  <2> DEFINE bu == ByModel(u)
             bb == ByModel(b)
  <2>1. ASSUME NEW k \in 1..n PROVE bb[k] = bu[k]
    <3>1. k \in 1..n + 1
      BY <1>1
    <3>2. bu[k] = (u[k].role = "assistant")
      BY <1>4, <3>1
    <3>3. QED
      BY <1>1, <1>3, <3>2
  <2>2. bu[n + 1] = (m.role = "assistant")
    BY <1>1, <1>4
  <2> HIDE DEF bu, bb
  <2>3. Selected(cb, bu) = Selected(cb, bb)
    BY <1>3, <2>1, SelectedSame
  <2>4. Selected(Append(cb, x), bu) = Selected(cb, bu) \o (IF bu[n + 1] THEN <<x>> ELSE <<>>)
    <3>1. Selected(Append(cb, x), bu) = Selected(cb, bu) \o (IF bu[Len(cb) + 1] THEN <<x>> ELSE <<>>)
      BY <1>2, <1>3, SelectedAppend
    <3>2. QED
      BY <1>3, <3>1
  <2>5. ModelTexts(b) \in Seq(Seq(S))
    BY ContentsType
  <2>6. ModelTexts(u) = ModelTexts(b) \o (IF m.role = "assistant" THEN <<x>> ELSE <<>>)
    BY <1>3, <1>4, <1>8, <2>2, <2>3, <2>4 DEF bu, bb
  <2>7. ModelTexts(b) \o <<x>> = Append(ModelTexts(b), x)
    BY <1>2, <2>5, AppendIsConcat
  <2>8. ModelTexts(b) \o <<>> = ModelTexts(b)
    BY <2>5, ConcatEmptySeq
  <2>9. QED
    BY <2>6, <2>7, <2>8
<1>11. QED
  BY <1>9, <1>10 DEF u, x

\* The messages of a dialogue without the dummy that asks the model to go on, and
\* with it.
Continued(b) == Last(b).role = "assistant"
Open(b) == IF Continued(b) THEN Append(b, Dummy) ELSE b

\* What the messages are when the model says y: this follows c, what it has said
\* in the last message, and s are the messages before it.
Say(b, y) == IF Continued(b) THEN [b EXCEPT ![Len(b)].content = @ \o y]
             ELSE Append(b, Message("assistant", y))
SaysAfter(b, s, c) ==
    \/ Continued(b) /\ b = Append(s, Message("assistant", c))
    \/ ~Continued(b) /\ s = b /\ c = <<>>

\* Messages there are end in one of these ways.
LEMMA SaysAfterSome ==
    ASSUME NEW S, NEW b \in Seq(Texts(S)), b # <<>>
    PROVE  /\ Last(b) \in Texts(S)
           /\ \E s \in Seq(Texts(S)), c \in Seq(S) : SaysAfter(b, s, c)
<1>1. PICK s \in Seq(Texts(S)), m \in Texts(S) : b = Append(s, m)
  BY SequenceEmptyOrAppend
<1>2. Last(b) = m
  BY <1>1, LastOfAppend
<1>3. CASE Continued(b)
  <2>1. m.role = "assistant"
    BY <1>2, <1>3 DEF Continued
  <2>2. m = Message("assistant", m.content) /\ m.content \in Seq(S)
    BY <2>1, MessageFields
  <2> DEFINE c == m.content
  <2>3. b = Append(s, Message("assistant", c)) /\ c \in Seq(S)
    BY <1>1, <2>2
  <2> HIDE DEF c
  <2>4. SaysAfter(b, s, c)
    BY <1>3, <2>3 DEF SaysAfter
  <2>5. QED
    BY <1>2, <2>3, <2>4
<1>4. CASE ~Continued(b)
  <2>1. <<>> \in Seq(S) /\ SaysAfter(b, b, <<>>)
    BY <1>4, EmptySeq DEF SaysAfter
  <2>2. QED
    BY <1>2, <2>1
<1>5. QED
  BY <1>3, <1>4

\* What the model says follows what it has said in this message.
LEMMA SayIs ==
    ASSUME NEW S, NEW b \in Seq(Texts(S)), NEW s \in Seq(Texts(S)), NEW c \in Seq(S),
           SaysAfter(b, s, c), NEW y \in Seq(S)
    PROVE  /\ Say(b, y) = Append(s, Message("assistant", c \o y))
           /\ c \o y \in Seq(S)
<1>1. c \o y \in Seq(S)
  BY ConcatProperties
<1>2. CASE Continued(b)
  <2> DEFINE m == Message("assistant", c)
             z == c \o y
  <2>1. b = Append(s, m)
    BY <1>2 DEF SaysAfter
  <2>2. m \in Texts(S) /\ m.role = "assistant" /\ m.content = c
    BY MessageIs
  <2>3. Last(b) = m
    BY <2>1, <2>2, LastOfAppend
  <2>4. b[Len(b)].content = c
    BY <2>2, <2>3 DEF Last
  <2>5. Say(b, y) = Edited(b, b[Len(b)].content \o y)
    <3>1. Say(b, y) = [b EXCEPT ![Len(b)].content = @ \o y]
      BY <1>2, Zenon DEF Say
    <3>2. QED
      BY <3>1 DEF Edited
  <2>6. Say(b, y) = Edited(b, z)
    BY <2>4, <2>5
  <2> HIDE DEF m, z
  <2>7. Edited(Append(s, m), z) = Append(s, Message(m.role, z))
    <3>1. z \in Seq(S) /\ m \in Texts(S)
      BY <1>1, <2>2 DEF z
    <3>2. QED
      BY <3>1, EditLast
  <2>8. QED
    BY <1>1, <2>1, <2>2, <2>6, <2>7 DEF z
<1>3. CASE ~Continued(b)
  <2>1. s = b /\ c = <<>>
    BY <1>3 DEF SaysAfter
  <2>2. <<>> \o y = y
    BY ConcatEmptySeq
  <2>3. Say(b, y) = Append(b, Message("assistant", y))
    BY <1>3 DEF Say
  <2>4. QED
    BY <1>1, <2>1, <2>2, <2>3
<1>4. QED
  BY <1>2, <1>3

-----------------------------------------------------------------------------
(* Parts that are tracked beside the messages.                              *)

\* Extending the last part.
LEMMA ExtendIs ==
    ASSUME NEW S, NEW parts \in Seq(Seq(S)), NEW c \in Seq(S), NEW new \in Seq(S)
    PROVE  /\ ExtendLast(Append(parts, c), new) = Append(parts, c \o new)
           /\ c \o new \in Seq(S)
<1> DEFINE u == Append(parts, c)
           n == Len(parts)
           x == c \o new
           v == Append(parts, x)
           p == n + 1
<1>1. x \in Seq(S)
  BY ConcatProperties
<1>2. /\ u \in Seq(Seq(S)) /\ Len(u) = p /\ n \in Nat /\ u[p] = c
      /\ \A k \in 1..n : u[k] = parts[k]
  BY AppendProperties, LenProperties
<1>3. /\ v \in Seq(Seq(S)) /\ Len(v) = p /\ v[p] = x
      /\ \A k \in 1..n : v[k] = parts[k]
  BY <1>1, AppendProperties
<1>4. p \in 1..Len(u) /\ \A k \in 1..p : k = p \/ k \in 1..n
  BY <1>2, SMTT(30)
<1> HIDE DEF u, v, x, p
<1>5. ExtendLast(u, new) = [u EXCEPT ![p] = x]
  BY <1>2 DEF ExtendLast, x
<1> DEFINE e == [u EXCEPT ![p] = x]
<1>6. e \in Seq(Seq(S)) /\ Len(e) = Len(u) /\ \A k \in 1..Len(u) : e[k] = IF k = p THEN x ELSE u[k]
  BY <1>1, <1>2, <1>4, ExceptSeq
<1> HIDE DEF e, n
<1>7. ASSUME NEW k \in 1..Len(e) PROVE e[k] = v[k]
  BY <1>2, <1>3, <1>4, <1>6
<1>8. e = v
  <2>1. e \in Seq(Seq(S)) /\ v \in Seq(Seq(S)) /\ Len(e) = Len(v)
    BY <1>2, <1>3, <1>6
  <2>2. QED
    BY <1>7, <2>1, SeqEqual
<1>9. QED
  BY <1>1, <1>5, <1>8 DEF e, u, v, x

\* The last part is extended, and the others are left alone.
LEMMA ExtendProperties ==
    ASSUME NEW S, NEW parts \in Seq(Seq(S)), parts # <<>>, NEW new \in Seq(S)
    PROVE  LET more == ExtendLast(parts, new)
           IN  /\ more \in Seq(Seq(S)) /\ Len(more) = Len(parts)
               /\ \A k \in 1..Len(parts) - 1 : more[k] = parts[k]
               /\ parts[Len(parts)] \in Seq(S)
               /\ more[Len(parts)] = parts[Len(parts)] \o new
               /\ FlattenSeq(more) = FlattenSeq(parts) \o new
<1> DEFINE more == ExtendLast(parts, new)
           n == Len(parts)
<1>1. PICK s \in Seq(Seq(S)), c \in Seq(S) : parts = Append(s, c)
  BY SequenceEmptyOrAppend
<1> DEFINE x == c \o new
<1>2. x \in Seq(S) /\ more = Append(s, x)
  BY <1>1, ExtendIs
<1>3. Len(s) \in Nat /\ n = Len(s) + 1 /\ parts[n] = c /\ \A k \in 1..Len(s) : parts[k] = s[k]
  BY <1>1, AppendProperties, LenProperties
<1> HIDE DEF more, x, n
<1>4. more \in Seq(Seq(S)) /\ Len(more) = n /\ more[n] = x /\ \A k \in 1..Len(s) : more[k] = s[k]
  BY <1>2, <1>3, AppendProperties
<1>5. FlattenSeq(more) = FlattenSeq(s) \o x /\ FlattenSeq(parts) = FlattenSeq(s) \o c /\ FlattenSeq(s) \in Seq(S)
  BY <1>1, <1>2, FlattenAppend
<1>6. FlattenSeq(more) = FlattenSeq(parts) \o new
  <2> DEFINE f == FlattenSeq(s)
  <2>1. f \in Seq(S)
    BY <1>5
  <2> HIDE DEF f
  <2>2. (f \o c) \o new = f \o (c \o new)
    BY <2>1, ConcatAssociative, SMTT(40)
  <2>3. FlattenSeq(more) = f \o (c \o new) /\ FlattenSeq(parts) = f \o c
    BY <1>5 DEF f, x
  <2>4. QED
    BY <2>2, <2>3
<1>7. \A k \in 1..n - 1 : more[k] = parts[k]
  <2> DEFINE p == Len(s)
  <2>1. n - 1 = p /\ \A k \in 1..p : more[k] = s[k] /\ parts[k] = s[k]
    BY <1>3, <1>4
  <2> HIDE DEF p
  <2>2. QED
    BY <2>1
<1>8. QED
  BY <1>3, <1>4, <1>6, <1>7 DEF more, n, x

\* What is tracked follows what was tracked before.
LEMMA TrackProperties ==
    ASSUME NEW S, NEW parts \in Seq(Seq(S)), NEW new \in Seq(S), NEW continues
    PROVE  /\ Track(parts, new, continues) \in Seq(Seq(S))
           /\ Track(parts, new, continues) # <<>>
           /\ FlattenSeq(parts) \in Seq(S)
           /\ FlattenSeq(Track(parts, new, continues)) = FlattenSeq(parts) \o new
<1> DEFINE more == Track(parts, new, continues)
<1>1. CASE continues /\ parts # <<>>
  <2>1. more = ExtendLast(parts, new)
    BY <1>1 DEF Track
  <2>2. /\ ExtendLast(parts, new) \in Seq(Seq(S)) /\ Len(ExtendLast(parts, new)) = Len(parts)
        /\ FlattenSeq(ExtendLast(parts, new)) = FlattenSeq(parts) \o new
    BY <1>1, ExtendProperties
  <2>3. Len(parts) # 0
    BY <1>1, EmptySeq
  <2>4. FlattenSeq(parts) \in Seq(S)
    BY FlattenAppend
  <2> HIDE DEF more
  <2>5. more # <<>>
    BY <2>1, <2>2, <2>3, EmptySeq
  <2>6. QED
    BY <2>1, <2>2, <2>4, <2>5 DEF more
<1>2. CASE ~(continues /\ parts # <<>>)
  <2>1. more = Append(parts, new)
    BY <1>2 DEF Track
  <2>2. Append(parts, new) \in Seq(Seq(S)) /\ Append(parts, new) # <<>>
    BY AppendProperties
  <2>3. FlattenSeq(parts) \in Seq(S) /\ FlattenSeq(Append(parts, new)) = FlattenSeq(parts) \o new
    BY FlattenAppend
  <2> HIDE DEF more
  <2>4. QED
    BY <2>1, <2>2, <2>3 DEF more
<1>3. QED
  BY <1>1, <1>2

\* Two lists of parts of the same lengths remain so.
LEMMA SameLengthsAppend ==
    ASSUME NEW S, NEW R, NEW ids \in Seq(Seq(S)), NEW mask \in Seq(Seq(R)),
           NEW a \in Seq(S), NEW m \in Seq(R), SameLengths(ids, mask), Len(a) = Len(m)
    PROVE  SameLengths(Append(ids, a), Append(mask, m))
<1> DEFINE u == Append(ids, a)
           v == Append(mask, m)
           n == Len(ids)
<1>1. /\ u \in Seq(Seq(S)) /\ Len(u) = n + 1 /\ n \in Nat /\ u[n + 1] = a
      /\ \A k \in 1..n : u[k] = ids[k]
  BY AppendProperties, LenProperties
<1>2. n = Len(mask) /\ \A k \in 1..n : Len(ids[k]) = Len(mask[k])
  <2>1. DOMAIN ids = 1..n
    BY LenProperties
  <2>2. QED
    BY <2>1 DEF SameLengths
<1>3. /\ v \in Seq(Seq(R)) /\ Len(v) = n + 1 /\ v[n + 1] = m
      /\ \A k \in 1..n : v[k] = mask[k]
  BY <1>2, AppendProperties
<1> HIDE DEF u, v, n
<1>4. DOMAIN u = 1..n + 1
  BY <1>1, LenProperties
<1>5. ASSUME NEW k \in 1..n + 1 PROVE Len(u[k]) = Len(v[k])
  <2>1. CASE k = n + 1
    BY <1>1, <1>3, <2>1
  <2>2. CASE k # n + 1
    <3>1. k \in 1..n
      BY <1>1, <2>2
    <3>2. QED
      BY <1>1, <1>2, <1>3, <3>1
  <2>3. QED
    BY <2>1, <2>2
<1>6. SameLengths(u, v)
  BY <1>1, <1>3, <1>4, <1>5 DEF SameLengths
<1>7. QED
  BY <1>6 DEF u, v

\* The last of each, and the others.
LEMMA SameLengthsSplit ==
    ASSUME NEW S, NEW R, NEW p \in Seq(Seq(S)), NEW c \in Seq(S),
           NEW mask \in Seq(Seq(R)), SameLengths(Append(p, c), mask)
    PROVE  \E q \in Seq(Seq(R)), e \in Seq(R) :
               mask = Append(q, e) /\ SameLengths(p, q) /\ Len(c) = Len(e)
<1> DEFINE n == Len(p)
           ids == Append(p, c)
<1>2. ids \in Seq(Seq(S)) /\ Len(ids) = n + 1 /\ n \in Nat /\ ids[n + 1] = c /\ \A k \in 1..n : ids[k] = p[k]
  BY AppendProperties, LenProperties
<1> HIDE DEF ids
<1>3. Len(mask) = n + 1 /\ \A k \in 1..n + 1 : Len(ids[k]) = Len(mask[k])
  <2>1. DOMAIN ids = 1..Len(ids)
    BY <1>2, LenProperties
  <2>2. SameLengths(ids, mask)
    BY DEF ids
  <2>3. QED
    BY <1>2, <2>1, <2>2 DEF SameLengths
<1>4. mask # <<>>
  BY <1>2, <1>3, EmptySeq
<1>5. PICK q \in Seq(Seq(R)), e \in Seq(R) : mask = Append(q, e)
  BY <1>4, SequenceEmptyOrAppend
<1>6. Len(mask) = Len(q) + 1 /\ Len(q) \in Nat /\ mask[Len(q) + 1] = e /\ \A k \in 1..Len(q) : mask[k] = q[k]
  BY <1>5, AppendProperties, LenProperties
<1>7. Len(q) = n
  BY <1>2, <1>3, <1>6
<1>8. Len(c) = Len(e)
  <2>1. n + 1 \in 1..n + 1
    BY <1>2
  <2>2. QED
    BY <1>2, <1>3, <1>6, <1>7, <2>1
<1> HIDE DEF n
<1>9. SameLengths(p, q)
  <2>1. DOMAIN p = 1..n
    BY LenProperties DEF n
  <2>2. ASSUME NEW k \in 1..n PROVE Len(p[k]) = Len(q[k])
    <3>1. k \in 1..n + 1
      BY <1>2
    <3>2. QED
      BY <1>2, <1>3, <1>6, <1>7, <3>1
  <2>3. QED
    BY <1>7, <2>1, <2>2 DEF SameLengths, n
<1>10. QED
  BY <1>5, <1>8, <1>9

\* Parts that are extended by as much, and by as many.
LEMMA SameLengthsExtend ==
    ASSUME NEW S, NEW R, NEW ids \in Seq(Seq(S)), NEW mask \in Seq(Seq(R)), ids # <<>>,
           NEW a \in Seq(S), NEW m \in Seq(R), SameLengths(ids, mask), Len(a) = Len(m)
    PROVE  SameLengths(ExtendLast(ids, a), ExtendLast(mask, m))
<1>1. PICK p \in Seq(Seq(S)), c \in Seq(S) : ids = Append(p, c)
  BY SequenceEmptyOrAppend
<1>2. PICK q \in Seq(Seq(R)), e \in Seq(R) :
          mask = Append(q, e) /\ SameLengths(p, q) /\ Len(c) = Len(e)
  BY <1>1, SameLengthsSplit
<1>3. ExtendLast(ids, a) = Append(p, c \o a) /\ c \o a \in Seq(S)
  BY <1>1, ExtendIs, SMTT(30)
<1>4. ExtendLast(mask, m) = Append(q, e \o m) /\ e \o m \in Seq(R)
  <2>1. ExtendLast(Append(q, e), m) = Append(q, e \o m) /\ e \o m \in Seq(R)
    BY ExtendIs
  <2>2. QED
    BY <1>2, <2>1
<1>5. Len(c \o a) = Len(e \o m)
  <2>1. Len(c \o a) = Len(c) + Len(a)
    BY ConcatProperties
  <2>2. Len(e \o m) = Len(e) + Len(m)
    BY ConcatProperties
  <2>3. QED
    BY <1>2, <2>1, <2>2
<1> DEFINE x == c \o a
           y == e \o m
<1>6. x \in Seq(S) /\ y \in Seq(R) /\ Len(x) = Len(y)
  BY <1>3, <1>4, <1>5
<1> HIDE DEF x, y
<1>7. SameLengths(Append(p, x), Append(q, y))
  BY <1>2, <1>6, SameLengthsAppend
<1>8. QED
  BY <1>3, <1>4, <1>7 DEF x, y

\* And so have the sequences that they make as many elements.
LEMMA SameLengthsFlatten ==
    ASSUME NEW S, NEW R, NEW ids \in Seq(Seq(S)), NEW mask \in Seq(Seq(R)),
           SameLengths(ids, mask)
    PROVE  Len(FlattenSeq(ids)) = Len(FlattenSeq(mask))
<1> DEFINE Right(u) == \A v \in Seq(Seq(R)) :
                          SameLengths(u, v) => Len(FlattenSeq(u)) = Len(FlattenSeq(v))
           T == {u \in Seq(Seq(S)) : Right(u)}
           none == <<>>
<1>1. none \in T
  <2>1. none \in Seq(Seq(S)) /\ Len(none) = 0 /\ FlattenSeq(none) = none
    BY EmptySeq, FlattenNone
  <2> HIDE DEF none
  <2>2. ASSUME NEW v \in Seq(Seq(R)), SameLengths(none, v)
        PROVE  Len(FlattenSeq(none)) = Len(FlattenSeq(v))
    <3>1. Len(v) = 0
      BY <2>1, <2>2 DEF SameLengths
    <3>2. v = <<>> /\ FlattenSeq(v) = <<>>
      BY <3>1, FlattenNone
    <3>3. QED
      BY <2>1, <3>2 DEF none
  <2>3. QED
    BY <2>1, <2>2
<1>2. ASSUME NEW p \in Seq(Seq(S)), NEW c \in Seq(S), p \in T
      PROVE  Append(p, c) \in T
  <2> DEFINE u == Append(p, c)
  <2>1. u \in Seq(Seq(S)) /\ FlattenSeq(u) = FlattenSeq(p) \o c /\ FlattenSeq(p) \in Seq(S)
    <3> HIDE DEF T
    <3>1. u \in Seq(Seq(S))
      BY AppendProperties
    <3>2. FlattenSeq(u) = FlattenSeq(p) \o c /\ FlattenSeq(p) \in Seq(S)
      BY FlattenAppend
    <3>3. QED
      BY <3>1, <3>2
  <2>2. \A v \in Seq(Seq(R)) : SameLengths(p, v) => Len(FlattenSeq(p)) = Len(FlattenSeq(v))
    BY <1>2
  <2> HIDE DEF T
  <2>3. ASSUME NEW v \in Seq(Seq(R)), SameLengths(u, v)
        PROVE  Len(FlattenSeq(u)) = Len(FlattenSeq(v))
    <3>1. PICK q \in Seq(Seq(R)), e \in Seq(R) :
              v = Append(q, e) /\ SameLengths(p, q) /\ Len(c) = Len(e)
      BY <2>3, SameLengthsSplit
    <3>2. Len(FlattenSeq(p)) = Len(FlattenSeq(q))
      BY <2>2, <3>1
    <3>3. FlattenSeq(v) = FlattenSeq(q) \o e /\ FlattenSeq(q) \in Seq(R)
      BY <3>1, FlattenAppend
    <3>4. Len(FlattenSeq(p) \o c) = Len(FlattenSeq(p)) + Len(c)
      BY <2>1, ConcatProperties
    <3>5. Len(FlattenSeq(q) \o e) = Len(FlattenSeq(q)) + Len(e)
      BY <3>3, ConcatProperties
    <3>6. QED
      BY <2>1, <3>1, <3>2, <3>3, <3>4, <3>5
  <2> HIDE DEF u
  <2>4. u \in T
    BY <2>1, <2>3 DEF T
  <2>5. QED
    BY <2>4 DEF u
<1> HIDE DEF T
<1>3. \A u \in Seq(Seq(S)) : u \in T
  <2>1. <<>> \in T
    BY <1>1 DEF none
  <2>2. QED
    BY <1>2, <2>1, SeqInduction
<1>4. QED
  BY <1>3 DEF T

\* As much is tracked of ids as of masks, so they keep fitting.
LEMMA SameLengthsTrack ==
    ASSUME NEW S, NEW R, NEW ids \in Seq(Seq(S)), NEW mask \in Seq(Seq(R)),
           NEW a \in Seq(S), NEW m \in Seq(R), SameLengths(ids, mask), Len(a) = Len(m),
           NEW continues
    PROVE  SameLengths(Track(ids, a, continues), Track(mask, m, continues))
<1>1. ids = <<>> <=> mask = <<>>
  <2>1. Len(ids) = Len(mask)
    BY DEF SameLengths
  <2>2. (ids = <<>> <=> Len(ids) = 0) /\ (mask = <<>> <=> Len(mask) = 0)
    BY EmptySeq
  <2>3. QED
    BY <2>1, <2>2
<1>2. CASE continues /\ ids # <<>>
  <2>1. SameLengths(ExtendLast(ids, a), ExtendLast(mask, m))
    BY <1>2, SameLengthsExtend
  <2>2. QED
    BY <1>1, <1>2, <2>1 DEF Track
<1>3. CASE ~(continues /\ ids # <<>>)
  <2>1. SameLengths(Append(ids, a), Append(mask, m))
    BY SameLengthsAppend
  <2>2. QED
    BY <1>1, <1>3, <2>1 DEF Track
<1>4. QED
  BY <1>2, <1>3

\* What the model says is added to the text, and to the texts of the model's
\* messages as the tokens are tracked.
LEMMA SayProperties ==
    ASSUME NEW S, NEW b \in Seq(Texts(S)), b # <<>>, NEW y \in Seq(S)
    PROVE  /\ Say(b, y) \in Seq(Texts(S)) /\ Say(b, y) # <<>> /\ Continued(Say(b, y))
           /\ Text(Say(b, y)) = Text(b) \o y
           /\ Continued(b) => ModelTexts(b) # <<>>
           /\ ModelTexts(Say(b, y)) = Track(ModelTexts(b), y, Continued(b))
<1>1. PICK s \in Seq(Texts(S)), c \in Seq(S) : SaysAfter(b, s, c)
  BY SaysAfterSome
<1> DEFINE x == c \o y
           m == Message("assistant", x)
           u == Say(b, y)
           l == Message("assistant", c)
<1>2. x \in Seq(S) /\ u = Append(s, m)
  BY <1>1, SayIs
<1> HIDE DEF x
<1>3. m \in Texts(S) /\ m.role = "assistant" /\ m.content = x
  BY <1>2, MessageIs
<1>4. l \in Texts(S) /\ l.role = "assistant" /\ l.content = c
  BY MessageIs
<1> HIDE DEF m, u, l
<1>5. u \in Seq(Texts(S)) /\ u # <<>> /\ Continued(u)
  <2>1. Last(u) = m
    BY <1>2, <1>3, LastOfAppend
  <2>2. QED
    BY <1>2, <1>3, <2>1, AppendProperties DEF Continued
<1>6. Text(u) = Text(s) \o x /\ ModelTexts(u) = Append(ModelTexts(s), x)
  BY <1>2, <1>3, ContentsAppend
<1>7. Text(s) \in Seq(S) /\ ModelTexts(s) \in Seq(Seq(S))
  BY ContentsType
<1>8. CASE Continued(b)
  <2>1. b = Append(s, l)
    BY <1>1, <1>8 DEF SaysAfter, l
  <2>2. Text(b) = Text(s) \o c /\ ModelTexts(b) = Append(ModelTexts(s), c)
    BY <1>4, <2>1, ContentsAppend
  <2>3. Text(u) = Text(b) \o y
    <3> DEFINE f == Text(s)
    <3>1. f \in Seq(S)
      BY <1>7
    <3> HIDE DEF f
    <3>2. (f \o c) \o y = f \o (c \o y)
      BY <3>1, ConcatAssociative, SMTT(40)
    <3>3. Text(u) = f \o (c \o y) /\ Text(b) = f \o c
      BY <1>6, <2>2 DEF f, x
    <3>4. QED
      BY <3>2, <3>3
  <2>4. ModelTexts(b) # <<>>
    BY <1>7, <2>2, AppendProperties, SMTT(30)
  <2>5. ExtendLast(Append(ModelTexts(s), c), y) = Append(ModelTexts(s), c \o y)
    BY <1>7, ExtendIs, SMTT(30)
  <2>6. Track(ModelTexts(b), y, Continued(b)) = ExtendLast(ModelTexts(b), y)
    BY <1>8, <2>4 DEF Track
  <2>7. ModelTexts(u) = Track(ModelTexts(b), y, Continued(b))
    BY <1>6, <2>2, <2>5, <2>6 DEF x
  <2>8. QED
    BY <1>5, <2>3, <2>4, <2>7 DEF u
<1>9. CASE ~Continued(b)
  <2>1. s = b /\ c = <<>>
    BY <1>1, <1>9 DEF SaysAfter
  <2>2. x = y
    BY <2>1, ConcatEmptySeq DEF x
  <2>3. Track(ModelTexts(b), y, Continued(b)) = Append(ModelTexts(b), y)
    BY <1>9 DEF Track
  <2>4. QED
    BY <1>5, <1>6, <1>9, <2>1, <2>2, <2>3 DEF u
<1>10. QED
  BY <1>8, <1>9

-----------------------------------------------------------------------------
(* A dialogue's request.                                                    *)

\* The requests over a set of tokens, and the messages without a dummy.
Requests(S) ==
    [messages : Seq(Texts(S) \cup {Dummy}), continues : BOOLEAN,
     ids : Seq(Seq(S)), mask : Seq(Seq(BOOLEAN)), logprobs : Seq(Seq(S))]

SpokenOf(messages) ==
    IF Last(messages).content = None THEN Front(messages) ELSE messages

\* A dummy is there exactly when the model is to go on.
LEMMA OpenProperties ==
    ASSUME NEW S, None \notin Seq(S), NEW b \in Seq(Texts(S)), b # <<>>
    PROVE  /\ Open(b) \in Seq(Texts(S) \cup {Dummy})
           /\ Last(Open(b)).content = None <=> Continued(b)
           /\ Continued(b) => Last(Open(b)) = Dummy /\ Front(Open(b)) = b
           /\ ~Continued(b) => Open(b) = b
           /\ SpokenOf(Open(b)) = b
           /\ Last(b).content # None
<1> DEFINE T == Texts(S) \cup {Dummy}
           u == Open(b)
<1>1. b \in Seq(T) /\ Dummy \in T
  <2>1. Texts(S) \subseteq T
    OBVIOUS
  <2> HIDE DEF T
  <2>2. b \in Seq(T)
    BY <2>1, SeqMonotonic
  <2>3. QED
    BY <2>2 DEF T
<1>2. Last(b).content \in Seq(S)
  <2>1. Last(b) \in Texts(S)
    BY SaysAfterSome
  <2>2. QED
    BY <2>1, MessageFields
<1>3. Dummy.content = None /\ Dummy.role = "assistant"
  BY DEF Dummy, Message
<1> HIDE DEF T
<1>4. CASE Continued(b)
  <2>1. u = Append(b, Dummy)
    BY <1>4 DEF Open
  <2>2. Last(u) = Dummy /\ Front(u) = b /\ u \in Seq(T)
    BY <1>1, <2>1, LastOfAppend, AppendProperties
  <2> HIDE DEF u
  <2>3. SpokenOf(u) = b
    BY <1>3, <2>2 DEF SpokenOf
  <2>4. QED
    BY <1>2, <1>3, <1>4, <2>2, <2>3 DEF u, T
<1>5. CASE ~Continued(b)
  <2>1. u = b
    BY <1>5 DEF Open
  <2>2. Last(b).content # None
    BY <1>2
  <2> HIDE DEF u
  <2>3. SpokenOf(u) = b
    BY <2>1, <2>2 DEF SpokenOf
  <2>4. QED
    BY <1>1, <1>5, <2>1, <2>2, <2>3 DEF u, T
<1>6. QED
  BY <1>4, <1>5

\* A request with its answer.
Answered(q, b, a) == [q EXCEPT !.messages = Say(b, a), !.continues = Continued(b)]

\* The answer is said after the messages without their dummy.
LEMMA TakeAnswerIs ==
    ASSUME NEW S, None \notin Seq(S), NEW b \in Seq(Texts(S)), b # <<>>,
           NEW q, q.messages = Open(b), NEW a \in Seq(S)
    PROVE  TakeAnswer(q, a) = Answered(q, b, a)
<1> DEFINE before == IF Last(q.messages).content = None
                     THEN RemoveResponse(q.messages) ELSE q.messages
<1>1. /\ Last(Open(b)).content = None <=> Continued(b)
      /\ Continued(b) => Last(Open(b)) = Dummy /\ Front(Open(b)) = b
      /\ ~Continued(b) => Open(b) = b
  BY OpenProperties
<1>2. Dummy.role = "assistant"
  BY DEF Dummy, Message
<1>3. before = b
  BY <1>1, <1>2 DEF RemoveResponse
<1>4. (Last(b).role = "assistant") = Continued(b)
  BY DEF Continued
<1> DEFINE more(m) == IF Last(m).role = "assistant"
                      THEN [m EXCEPT ![Len(m)].content = @ \o a]
                      ELSE Append(m, Message("assistant", a))
<1>5. more(b) = Say(b, a)
  BY Zenon DEF Say, Continued
<1>6. TakeAnswer(q, a) = [q EXCEPT !.messages = more(before),
                                   !.continues = (Last(before).role = "assistant")]
  BY Zenon DEF TakeAnswer
<1> HIDE DEF before, more
<1>7. QED
  BY <1>3, <1>4, <1>5, <1>6, Zenon DEF Answered

\* What a step keeps of an answer, and adds to it.
Cut(style, a) == IF style.truncates /\ Len(a) > 1 THEN 1 ELSE 0
Tip(style, d, t) == IF style.adds THEN <<[of |-> d, turn |-> t, place |-> 0]>> ELSE <<>>
Kept(style, a) == SubSeq(a, 1, Len(a) - Cut(style, a))

\* A step keeps a beginning of the answer, and one token at least.
LEMMA KeptProperties ==
    ASSUME NEW S, NEW a \in Seq(S), a # <<>>, NEW style
    PROVE  /\ Kept(style, a) \in Seq(S) /\ Len(Kept(style, a)) \in 1..Len(a)
           /\ \A k \in 1..Len(Kept(style, a)) : Kept(style, a)[k] = a[k]
           /\ ~style.truncates => Kept(style, a) = a
           /\ \A c \in Seq(S) :
                SubSeq(c \o a, 1, Len(c \o a) - Cut(style, a)) = c \o Kept(style, a)
<1> DEFINE n == Len(a)
           cut == Cut(style, a)
           m == n - cut
           u == SubSeq(a, 1, m)
<1>1. n \in Nat /\ n >= 1
  BY EmptySeq, LenProperties
<1>2. cut \in {0, 1} /\ cut < n /\ (~style.truncates => cut = 0)
  BY <1>1 DEF Cut
<1> HIDE DEF cut
<1>3. m \in 1..n /\ (~style.truncates => m = n)
  BY <1>1, <1>2
<1>4. \A k \in 1..n : a[k] \in S
  BY ElementOfSeq
<1> HIDE DEF m, n
<1>5. u \in Seq(S) /\ Len(u) = m /\ \A k \in 1..m : u[k] = a[k]
  <2>1. /\ 1 \in Int /\ m \in Int /\ \A k \in 1..m : a[k] \in S
        /\ 1 <= m /\ m - 1 + 1 = m /\ \A k \in 1..m : 1 + k - 1 = k
    BY <1>1, <1>3, <1>4
  <2>2. /\ u \in Seq(S) /\ Len(u) = IF 1 <= m THEN m - 1 + 1 ELSE 0
        /\ \A k \in 1..m - 1 + 1 : u[k] = a[1 + k - 1]
    BY <2>1, SubSeqProperties
  <2>3. \A k \in 1..m : u[k] = a[k]
    BY <2>1, <2>2
  <2>4. QED
    BY <2>1, <2>2, <2>3
<1>6. Kept(style, a) = u
  BY Zenon DEF Kept, u, m, n, cut
<1>7. m = n => u = a
  <2>1. SubSeq(a, 1, Len(a)) = a
    BY SubSeqFull
  <2>2. QED
    BY <2>1 DEF n
<1>8. ASSUME NEW c \in Seq(S) PROVE SubSeq(c \o a, 1, Len(c \o a) - cut) = c \o u
  <2> DEFINE w == c \o a
             l == Len(c)
             z == c \o u
             v == SubSeq(w, 1, l + m)
  <2> HIDE DEF u
  <2>1. w \in Seq(S) /\ EndToEnd(c, a, w) /\ z \in Seq(S) /\ EndToEnd(c, u, z)
    BY <1>5, ConcatAt
  <2>2. l \in Nat /\ \A k \in 1..Len(w) : w[k] \in S
    BY <2>1, LenProperties, ElementOfSeq
  <2> HIDE DEF w, l, z, v
  <2>3. Len(w) = l + n /\ \A k \in 1..l : w[k] = c[k] /\ z[k] = c[k]
    BY <2>1 DEF EndToEnd, l, n
  <2>4. Len(z) = l + m /\ \A k \in 1..m : w[l + k] = a[k] /\ z[l + k] = u[k]
    <3>1. \A k \in 1..m : k \in 1..n
      BY <1>1, <1>3
    <3>2. QED
      BY <1>5, <2>1, <3>1 DEF EndToEnd, l, n
  <2>5. Len(w) - cut = l + m
    BY <1>1, <1>2, <2>2, <2>3 DEF m
  <2>6. v \in Seq(S) /\ Len(v) = l + m /\ \A k \in 1..l + m : v[k] = w[k]
    <3> DEFINE p == l + m
    <3>1. /\ 1 \in Int /\ p \in Int /\ \A k \in 1..p : w[k] \in S
          /\ 1 <= p /\ p - 1 + 1 = p /\ \A k \in 1..p : 1 + k - 1 = k
      BY <1>1, <1>3, <2>2, <2>3
    <3> HIDE DEF p
    <3>2. /\ SubSeq(w, 1, p) \in Seq(S)
          /\ Len(SubSeq(w, 1, p)) = IF 1 <= p THEN p - 1 + 1 ELSE 0
          /\ \A k \in 1..p - 1 + 1 : SubSeq(w, 1, p)[k] = w[1 + k - 1]
      BY <3>1, SubSeqProperties
    <3>3. \A k \in 1..p : SubSeq(w, 1, p)[k] = w[k]
      BY <3>1, <3>2
    <3>4. QED
      BY <3>1, <3>2, <3>3 DEF p, v
  <2>7. ASSUME NEW k \in 1..Len(v) PROVE v[k] = z[k]
    <3>1. CASE k \in 1..l
      BY <2>3, <2>6, <3>1
    <3>2. CASE k \notin 1..l
      <4>1. k - l \in 1..m /\ k = l + (k - l)
        BY <1>1, <1>3, <2>2, <2>6, <3>2
      <4>2. w[l + (k - l)] = a[k - l] /\ z[l + (k - l)] = u[k - l] /\ u[k - l] = a[k - l]
        BY <1>5, <2>4, <4>1
      <4>3. QED
        BY <2>6, <4>1, <4>2
    <3>3. QED
      BY <3>1, <3>2
  <2>8. v = z
    <3>1. v \in Seq(S) /\ z \in Seq(S) /\ Len(v) = Len(z)
      BY <2>1, <2>4, <2>6
    <3>2. QED
      BY <2>7, <3>1, SeqEqual
  <2>9. QED
    BY <2>5, <2>8 DEF v, z, w
<1>9. QED
  <2>1. m \in 1..Len(a)
    BY <1>3 DEF n
  <2> HIDE DEF u
  <2>2. QED
    BY <1>3, <1>5, <1>6, <1>7, <1>8, <2>1 DEF cut

-----------------------------------------------------------------------------
(* A turn.                                                                  *)

\* The messages after the scheduler's step.
Onwards(b, y, style) ==
    IF style.continues THEN Say(b, y) ELSE Append(Say(b, y), Message("user", <<>>))

\* A step leaves in the messages what it returns as ids.
LEMMA StepIs ==
    ASSUME NEW S, NEW b \in Seq(Texts(S)), b # <<>>, NEW a \in Seq(S), a # <<>>,
           NEW style, NEW d, NEW t, Tip(style, d, t) \in Seq(S),
           NEW request, request.messages = Say(b, a)
    PROVE  LET y == Kept(style, a) \o Tip(style, d, t)
               returned == Step(request, a, style, d, t)
           IN  /\ y \in Seq(S)
               /\ returned.messages = Onwards(b, y, style)
               /\ returned.ids = y
               /\ returned.mask = LossMask(Kept(style, a), Tip(style, d, t))
               /\ returned.logprobs = LogprobsOf(IF style.logprobs THEN Kept(style, a) ELSE a)
<1> DEFINE kept == Kept(style, a)
           tip == Tip(style, d, t)
           y == kept \o tip
           cut == Cut(style, a)
           u == Say(b, a)
           returned == Step(request, a, style, d, t)
           said == Last(u).content
           z == SubSeq(said, 1, Len(said) - cut) \o tip
<1>1. /\ kept \in Seq(S) /\ tip \in Seq(S) /\ y \in Seq(S)
      /\ \A c \in Seq(S) : SubSeq(c \o a, 1, Len(c \o a) - cut) = c \o kept
  <2>1. kept \in Seq(S) /\ \A c \in Seq(S) : SubSeq(c \o a, 1, Len(c \o a) - cut) = c \o kept
    BY KeptProperties
  <2> HIDE DEF kept, cut
  <2>2. tip \in Seq(S)
    OBVIOUS
  <2> HIDE DEF tip
  <2>3. y \in Seq(S)
    BY <2>1, <2>2, ConcatProperties
  <2>4. QED
    BY <2>1, <2>2, <2>3
<1>2. /\ returned.messages = IF style.continues THEN Edited(u, z)
                             ELSE Append(Edited(u, z), Message("user", <<>>))
      /\ returned.ids = y
      /\ returned.mask = LossMask(kept, tip)
      /\ returned.logprobs = LogprobsOf(IF style.logprobs THEN kept ELSE a)
  BY DEF Step, Edited, Kept, Tip, Cut
<1>3. PICK s \in Seq(Texts(S)), c \in Seq(S) : SaysAfter(b, s, c)
  BY SaysAfterSome
<1> HIDE DEF kept, tip, y, cut, returned
<1>4. u = Append(s, Message("assistant", c \o a)) /\ c \o a \in Seq(S)
  BY <1>3, SayIs
<1>5. Say(b, y) = Append(s, Message("assistant", c \o y)) /\ c \o y \in Seq(S)
  BY <1>1, <1>3, SayIs
<1> DEFINE m == Message("assistant", c \o a)
<1>6. m \in Texts(S) /\ m.role = "assistant" /\ m.content = c \o a /\ u = Append(s, m)
  BY <1>4, MessageIs
<1> HIDE DEF u, m
<1>7. said = c \o a
  <2>1. Last(u) = m
    BY <1>6, LastOfAppend
  <2>2. QED
    BY <1>6, <2>1
<1>8. z = c \o y
  <2>1. SubSeq(said, 1, Len(said) - cut) = c \o kept
    BY <1>1, <1>7
  <2>2. (c \o kept) \o tip = c \o (kept \o tip)
    <3>1. c \in Seq(S) /\ kept \in Seq(S) /\ tip \in Seq(S)
      BY <1>1
    <3>2. QED
      BY <3>1, ConcatAssociative, SMTT(40)
  <2>3. QED
    BY <2>1, <2>2 DEF y
<1> HIDE DEF z
<1>9. Edited(u, z) = Say(b, y)
  <2>1. z \in Seq(S)
    BY <1>5, <1>8
  <2>2. Edited(Append(s, m), z) = Append(s, Message(m.role, z))
    BY <1>6, <2>1, EditLast
  <2>3. QED
    BY <1>5, <1>6, <1>8, <2>2
<1>10. returned.messages = Onwards(b, y, style)
  BY <1>2, <1>9 DEF Onwards
<1>11. QED
  BY <1>1, <1>2, <1>10 DEF kept, tip, y, returned

\* They say y more, in a message of the model's that is tracked as ids are.
LEMMA OnwardsProperties ==
    ASSUME NEW S, NEW b \in Seq(Texts(S)), b # <<>>, NEW y \in Seq(S), NEW style,
           style.continues \in BOOLEAN
    PROVE  LET after == Onwards(b, y, style)
           IN  /\ after \in Seq(Texts(S)) /\ after # <<>>
               /\ Continued(after) = style.continues
               /\ Text(after) = Text(b) \o y
               /\ ModelTexts(after) = Track(ModelTexts(b), y, Continued(b))
<1> DEFINE u == Say(b, y)
           m == Message("user", <<>>)
           v == Append(u, m)
           after == Onwards(b, y, style)
<1>1. /\ u \in Seq(Texts(S)) /\ u # <<>> /\ Continued(u)
      /\ Text(u) = Text(b) \o y
      /\ ModelTexts(u) = Track(ModelTexts(b), y, Continued(b))
  BY SayProperties
<1>2. m \in Texts(S) /\ m.role = "user" /\ m.content = <<>>
  <2>1. <<>> \in Seq(S)
    BY EmptySeq
  <2>2. QED
    BY <2>1, MessageIs
<1> HIDE DEF u, m
<1>3. CASE style.continues
  <2>1. after = u
    BY <1>3 DEF Onwards, u
  <2> HIDE DEF after
  <2>2. QED
    BY <1>1, <1>3, <2>1 DEF after, Continued
<1>4. CASE ~style.continues
  <2>1. after = v
    BY <1>4 DEF Onwards, u, m
  <2>2. v \in Seq(Texts(S)) /\ v # <<>>
    BY <1>1, <1>2, AppendProperties
  <2>3. Last(v) = m
    BY <1>1, <1>2, LastOfAppend
  <2>4. Text(v) = Text(u) \o m.content /\ ModelTexts(v) = ModelTexts(u)
    BY <1>1, <1>2, ContentsAppend
  <2>5. Text(u) \o <<>> = Text(u)
    <3>1. Text(u) \in Seq(S)
      BY <1>1, ContentsType
    <3>2. QED
      BY <3>1, ConcatEmptySeq
  <2> HIDE DEF v, after
  <2>6. Continued(v) = FALSE
    BY <1>2, <2>3 DEF Continued
  <2>7. QED
    BY <1>1, <1>2, <1>4, <2>1, <2>2, <2>4, <2>5, <2>6 DEF after
<1>5. QED
  BY <1>3, <1>4

\* A mask of ones.
LEMMA OnesIs ==
    ASSUME NEW S, NEW a \in Seq(S)
    PROVE  /\ Ones(a) \in Seq(BOOLEAN) /\ Len(Ones(a)) = Len(a)
           /\ \A k \in 1..Len(a) : Ones(a)[k] = TRUE
<1>1. Len(a) \in Nat /\ DOMAIN a = 1..Len(a)
  BY LenProperties
<1>2. Ones(a) = [k \in 1..Len(a) |-> TRUE]
  BY <1>1 DEF Ones
<1>3. QED
  BY <1>1, <1>2

\* A loss mask fits an edited answer, and selects what was kept of it.
LEMMA LossMaskIs ==
    ASSUME NEW S, NEW kept \in Seq(S), NEW tip \in Seq(S)
    PROVE  /\ LossMask(kept, tip) \in Seq(BOOLEAN)
           /\ Len(LossMask(kept, tip)) = Len(kept \o tip)
           /\ Selected(kept \o tip, LossMask(kept, tip)) = kept
<1> DEFINE o == Ones(kept)
           z == [k \in DOMAIN tip |-> FALSE]
<1>1. o \in Seq(BOOLEAN) /\ Len(o) = Len(kept) /\ \A k \in 1..Len(kept) : o[k] = TRUE
  BY OnesIs
<1>2. z \in Seq(BOOLEAN) /\ Len(z) = Len(tip) /\ \A k \in 1..Len(tip) : z[k] = FALSE
  <2>1. Len(tip) \in Nat /\ DOMAIN tip = 1..Len(tip)
    BY LenProperties
  <2>2. z = [k \in 1..Len(tip) |-> FALSE]
    BY <2>1
  <2>3. QED
    BY <2>1, <2>2
<1>3. LossMask(kept, tip) = o \o z
  BY Zenon DEF LossMask
<1> HIDE DEF o, z
<1>4. o \o z \in Seq(BOOLEAN) /\ Len(o \o z) = Len(kept) + Len(tip)
  <2>1. o \in Seq(BOOLEAN) /\ z \in Seq(BOOLEAN)
    BY <1>1, <1>2
  <2>2. o \o z \in Seq(BOOLEAN) /\ Len(o \o z) = Len(o) + Len(z)
    BY <2>1, ConcatProperties
  <2>3. QED
    BY <1>1, <1>2, <2>2
<1>5. Len(kept \o tip) = Len(kept) + Len(tip)
  BY ConcatProperties
<1>6. Selected(kept \o tip, o \o z) = Selected(kept, o) \o Selected(tip, z)
  BY <1>1, <1>2, SelectedConcat
<1>7. Selected(kept, o) = kept
  BY <1>1, SelectedAll
<1>8. Selected(tip, z) = <<>>
  BY <1>2, SelectedNothing
<1>9. kept \o <<>> = kept
  BY ConcatEmptySeq
<1>10. QED
  BY <1>3, <1>4, <1>5, <1>6, <1>7, <1>8, <1>9

\* A turn after which the dialogue goes on.
Gained(style, a) == IF style.logprobs THEN Kept(style, a) ELSE a

\* What the loop keeps of a turn, field by field.
LEMMA KeepTurnIs ==
    ASSUME NEW S, None \notin Seq(S), NEW b \in Seq(Texts(S)), b # <<>>,
           NEW q \in Requests(S), q.messages = Open(b),
           NEW a \in Seq(S), a # <<>>, NEW style \in Styles, style.mask => style.ids,
           NEW d, NEW t, Tip(style, d, t) \in Seq(S), setup.logprobs \in BOOLEAN
    PROVE  LET after == KeepTurn(TakeAnswer(q, a), a, style, d, t)
               y == Kept(style, a) \o Tip(style, d, t)
               lossMask == LossMask(Kept(style, a), Tip(style, d, t))
           IN  /\ after \in Requests(S)
               /\ y \in Seq(S)
               /\ after.messages = Open(Onwards(b, y, style))
               /\ after.ids = IF style.ids THEN Track(q.ids, y, Continued(b)) ELSE q.ids
               /\ after.mask = IF style.mask THEN Track(q.mask, lossMask, Continued(b))
                               ELSE q.mask
               /\ after.logprobs = IF setup.logprobs
                                   THEN Track(q.logprobs, Gained(style, a), Continued(b))
                                   ELSE q.logprobs
<1> DEFINE request == TakeAnswer(q, a)
           returned == Step(request, a, style, d, t)
           goesOn == Continued(b)
           y == Kept(style, a) \o Tip(style, d, t)
           lossMask == LossMask(Kept(style, a), Tip(style, d, t))
           gained == Gained(style, a)
           after == KeepTurn(request, a, style, d, t)
           msgs == Onwards(b, y, style)
<1>1. request = [q EXCEPT !.messages = Say(b, a), !.continues = goesOn]
  <2>1. request = Answered(q, b, a)
    BY TakeAnswerIs
  <2>2. QED
    BY <2>1, Zenon DEF Answered
<1>2. /\ request.messages = Say(b, a) /\ request.continues = goesOn
      /\ request.ids = q.ids /\ request.mask = q.mask /\ request.logprobs = q.logprobs
      /\ DOMAIN request = DOMAIN q
  <2> DEFINE u == Say(b, a)
  <2> HIDE DEF u, request, goesOn
  <2>1. request = [q EXCEPT !.messages = u, !.continues = goesOn]
    BY <1>1, Zenon DEF u
  <2>2. QED
    BY <2>1 DEF Requests, u
<1>3. /\ y \in Seq(S) /\ returned.messages = msgs /\ returned.ids = y
      /\ returned.mask = lossMask
      /\ returned.logprobs = LogprobsOf(gained)
  <2> HIDE DEF request
  <2>1. LET z == Kept(style, a) \o Tip(style, d, t)
            r == Step(request, a, style, d, t)
        IN  /\ z \in Seq(S)
            /\ r.messages = Onwards(b, z, style)
            /\ r.ids = z
            /\ r.mask = LossMask(Kept(style, a), Tip(style, d, t))
            /\ r.logprobs = LogprobsOf(IF style.logprobs THEN Kept(style, a) ELSE a)
    BY <1>2, StepIs
  <2>2. QED
    BY <2>1, Zenon DEF Gained
<1>4. style.continues \in BOOLEAN /\ goesOn \in BOOLEAN
  BY DEF Styles, Continued
<1>5. Kept(style, a) \in Seq(S) /\ Len(Kept(style, a)) >= 1
  <2>1. Kept(style, a) \in Seq(S) /\ Len(Kept(style, a)) \in 1..Len(a)
    BY KeptProperties
  <2>2. QED
    BY <2>1
<1>6. gained \in Seq(S) /\ gained # <<>>
  <2>1. Kept(style, a) # <<>>
    BY <1>5, EmptySeq
  <2>2. QED
    BY <1>5, <2>1 DEF Gained
<1>7. lossMask \in Seq(BOOLEAN)
  <2> DEFINE tip == Tip(style, d, t)
             kept == Kept(style, a)
  <2>1. tip \in Seq(S) /\ kept \in Seq(S)
    BY <1>5
  <2> HIDE DEF tip, kept
  <2>2. LossMask(kept, tip) \in Seq(BOOLEAN)
    BY <2>1, LossMaskIs
  <2>3. QED
    BY <2>2 DEF kept, tip
<1> HIDE DEF y, lossMask, gained
<1>8. msgs \in Seq(Texts(S)) /\ msgs # <<>> /\ Continued(msgs) = style.continues
  BY <1>3, <1>4, OnwardsProperties
<1> HIDE DEF msgs, request, returned, goesOn
<1>9. IF Last(returned.messages).role = "assistant"
      THEN Append(returned.messages, Dummy) = Open(msgs) ELSE returned.messages = Open(msgs)
  BY <1>3 DEF Open, Continued
<1>10. Open(msgs) \in Seq(Texts(S) \cup {Dummy})
  BY <1>8, OpenProperties
<1> DEFINE ids == IF style.ids THEN Track(q.ids, y, goesOn) ELSE q.ids
           mask == IF style.mask THEN Track(q.mask, lossMask, goesOn) ELSE q.mask
           logprobs == IF setup.logprobs THEN Track(q.logprobs, gained, goesOn)
                       ELSE q.logprobs
<1>11. q.ids \in Seq(Seq(S)) /\ q.mask \in Seq(Seq(BOOLEAN)) /\ q.logprobs \in Seq(Seq(S))
  BY DEF Requests
<1>12. ids \in Seq(Seq(S))
  BY <1>3, <1>4, <1>11, TrackProperties
<1>13. mask \in Seq(Seq(BOOLEAN))
  BY <1>4, <1>7, <1>11, TrackProperties
<1>14. logprobs \in Seq(Seq(S))
  BY <1>4, <1>6, <1>11, TrackProperties
<1>15. after = [request EXCEPT !.messages = Open(msgs), !.ids = ids, !.mask = mask,
                               !.logprobs = logprobs]
  <2>1. returned.logprobs # <<>> <=> setup.logprobs
    BY <1>3, <1>6 DEF LogprobsOf
  <2>2. setup.logprobs => returned.logprobs = gained
    BY <1>3 DEF LogprobsOf
  <2>3. logprobs = IF returned.logprobs # <<>>
                   THEN Track(request.logprobs, returned.logprobs, request.continues)
                   ELSE request.logprobs
    BY <1>2, <2>1, <2>2
  <2>4. ids = IF style.ids THEN Track(request.ids, returned.ids, request.continues)
              ELSE request.ids
    BY <1>2, <1>3
  <2>5. mask = IF style.mask THEN Track(request.mask, returned.mask, request.continues)
               ELSE request.mask
    BY <1>2, <1>3
  <2> DEFINE m == IF Last(returned.messages).role = "assistant"
                  THEN Append(returned.messages, Dummy) ELSE returned.messages
             i == IF style.ids THEN Track(request.ids, returned.ids, request.continues)
                  ELSE request.ids
             k == IF style.mask THEN Track(request.mask, returned.mask, request.continues)
                  ELSE request.mask
             l == IF returned.logprobs # <<>>
                  THEN Track(request.logprobs, returned.logprobs, request.continues)
                  ELSE request.logprobs
  <2>6. after = [request EXCEPT !.messages = m, !.ids = i, !.mask = k, !.logprobs = l]
    BY Zenon DEF KeepTurn, returned
  <2>7. m = Open(msgs) /\ i = ids /\ k = mask /\ l = logprobs
    BY <1>9, <2>3, <2>4, <2>5
  <2> HIDE DEF m, i, k, l, after, ids, mask, logprobs
  <2>8. QED
    BY <2>6, <2>7, Zenon
<1> HIDE DEF after, ids, mask, logprobs
<1> DEFINE msgs1 == Open(msgs)
<1> HIDE DEF msgs1
<1>16. /\ after \in Requests(S) /\ after.messages = msgs1
       /\ after.ids = ids /\ after.mask = mask /\ after.logprobs = logprobs
  <2> DEFINE said == Say(b, a)
  <2> HIDE DEF said
  <2>1. request = [q EXCEPT !.messages = said, !.continues = goesOn]
    BY <1>1, Zenon DEF request, said, goesOn
  <2>2. after = [request EXCEPT !.messages = msgs1, !.ids = ids, !.mask = mask,
                                !.logprobs = logprobs]
    BY <1>15, Zenon DEF msgs1
  <2>3. msgs1 \in Seq(Texts(S) \cup {Dummy})
    BY <1>10, Zenon DEF msgs1
  <2>4. DOMAIN request = {"messages", "continues", "ids", "mask", "logprobs"}
    BY <2>1 DEF Requests
  <2>5. after = [messages |-> msgs1, continues |-> goesOn, ids |-> ids, mask |-> mask,
                 logprobs |-> logprobs]
    BY <2>1, <2>2 DEF Requests
  <2>6. QED
    BY <1>4, <1>12, <1>13, <1>14, <2>3, <2>5 DEF Requests
<1>17. QED
  BY <1>3, <1>16, Zenon DEF after, y, lossMask, gained, msgs, msgs1, ids, mask, logprobs, request, goesOn

-----------------------------------------------------------------------------
(* Ids and masks, and the last turn.                                        *)

\* The ids that a mask keeps.
Masked(ids, mask) == Selected(FlattenSeq(ids), FlattenSeq(mask))

\* A part more, with its mask.
LEMMA MaskedAppend ==
    ASSUME NEW S, NEW ids \in Seq(Seq(S)), NEW mask \in Seq(Seq(BOOLEAN)),
           NEW a \in Seq(S), NEW m \in Seq(BOOLEAN), SameLengths(ids, mask), Len(a) = Len(m)
    PROVE  /\ Masked(ids, mask) \in Seq(S)
           /\ Masked(Append(ids, a), Append(mask, m)) = Masked(ids, mask) \o Selected(a, m)
<1> DEFINE f == FlattenSeq(ids)
           g == FlattenSeq(mask)
<1>1. f \in Seq(S) /\ FlattenSeq(Append(ids, a)) = f \o a
  BY FlattenAppend
<1>2. g \in Seq(BOOLEAN) /\ FlattenSeq(Append(mask, m)) = g \o m
  BY FlattenAppend
<1>3. Len(f) = Len(g)
  BY SameLengthsFlatten
<1> HIDE DEF f, g
<1>4. Selected(f \o a, g \o m) = Selected(f, g) \o Selected(a, m)
  BY <1>1, <1>2, <1>3, SelectedConcat, SMTT(30)
<1>5. Selected(f, g) \in Seq(S)
  BY <1>1, KeptType
<1>6. QED
  BY <1>1, <1>2, <1>4, <1>5, Zenon DEF Masked, f, g

\* Masks that are tracked are joined.
LEMMA TrackMask ==
    ASSUME NEW mask \in Seq(Seq(BOOLEAN)), NEW m \in Seq(BOOLEAN), NEW continues
    PROVE  /\ FlattenSeq(mask) \in Seq(BOOLEAN)
           /\ FlattenSeq(Track(mask, m, continues)) = FlattenSeq(mask) \o m
BY TrackProperties

\* What is tracked is selected after what was selected before.
LEMMA MaskedTrack ==
    ASSUME NEW S, NEW ids \in Seq(Seq(S)), NEW mask \in Seq(Seq(BOOLEAN)),
           NEW a \in Seq(S), NEW m \in Seq(BOOLEAN), SameLengths(ids, mask), Len(a) = Len(m),
           NEW continues
    PROVE  /\ Masked(ids, mask) \in Seq(S)
           /\ Masked(Track(ids, a, continues), Track(mask, m, continues))
                = Masked(ids, mask) \o Selected(a, m)
<1> DEFINE f == FlattenSeq(ids)
           g == FlattenSeq(mask)
<1>1. f \in Seq(S) /\ FlattenSeq(Track(ids, a, continues)) = f \o a
  BY TrackProperties
<1>2. g \in Seq(BOOLEAN) /\ FlattenSeq(Track(mask, m, continues)) = g \o m
  BY TrackMask
<1>3. Len(f) = Len(g)
  BY SameLengthsFlatten
<1> HIDE DEF f, g
<1>4. Selected(f \o a, g \o m) = Selected(f, g) \o Selected(a, m)
  BY <1>1, <1>2, <1>3, SelectedConcat, SMTT(30)
<1>5. Selected(f, g) \in Seq(S)
  BY <1>1, KeptType
<1>6. QED
  BY <1>1, <1>2, <1>4, <1>5, Zenon DEF Masked, f, g

\* As many ones are counted in the masks.
LEMMA CountOnesIs ==
    ASSUME NEW S, NEW ids \in Seq(Seq(S)), NEW mask \in Seq(Seq(BOOLEAN)),
           SameLengths(ids, mask)
    PROVE  CountOnes(mask) = Len(Masked(ids, mask))
<1> DEFINE f == FlattenSeq(ids)
           g == FlattenSeq(mask)
<1>1. f \in Seq(S) /\ g \in Seq(BOOLEAN)
  <2>1. <<>> \in Seq(S) /\ <<>> \in Seq(BOOLEAN)
    BY EmptySeq
  <2>2. f \in Seq(S)
    BY <2>1, FlattenAppend
  <2>3. g \in Seq(BOOLEAN)
    BY <2>1, FlattenAppend
  <2>4. QED
    BY <2>2, <2>3
<1>2. Len(f) = Len(g)
  BY SameLengthsFlatten
<1> HIDE DEF f, g
<1>3. Len(Selected(f, g)) = Len(Selected(g, g))
  BY <1>1, <1>2, SelectedLength
<1>4. QED
  BY <1>3, Zenon DEF CountOnes, Masked, f, g

\* A mask of ones keeps everything.
LEMMA SelectedOnes ==
    ASSUME NEW S, NEW a \in Seq(S)
    PROVE  Selected(a, Ones(a)) = a
<1>1. \A k \in 1..Len(a) : Ones(a)[k] = TRUE
  BY OnesIs
<1>2. QED
  BY <1>1, SelectedAll

\* What is kept of the last turn.
LastKept(parts, new, firstIds, goesOn) ==
    CASE new = <<>> \/ (goesOn /\ parts = <<>>) -> parts
      [] new # <<>> /\ goesOn /\ parts # <<>> -> ExtendLast(parts, new)
      [] new # <<>> /\ firstIds -> <<new>>
      [] OTHER -> IF setup.colocate THEN Append(parts, new) ELSE parts

KeptWell(kept, parts, new, firstIds, continues) ==
    /\ new = <<>> => kept = parts
    /\ new # <<>> /\ firstIds => kept = <<new>>
    /\ new # <<>> /\ ~firstIds /\ continues /\ parts = <<>> => kept = parts
    /\ new # <<>> /\ ~firstIds /\ parts # <<>> /\ (continues \/ setup.colocate)
          => kept = Track(parts, new, continues)
LEMMA LastKeptIs ==
    ASSUME NEW S, NEW parts \in Seq(Seq(S)), NEW new \in Seq(S),
           NEW firstIds, NEW continues, NEW goesOn, goesOn = (continues /\ ~firstIds),
           setup.colocate \in BOOLEAN
    PROVE  /\ LastKept(parts, new, firstIds, goesOn) \in Seq(Seq(S))
           /\ KeptWell(LastKept(parts, new, firstIds, goesOn), parts, new, firstIds, continues)
<1> DEFINE kept == LastKept(parts, new, firstIds, goesOn)
           more == ExtendLast(parts, new)
           longer == Append(parts, new)
           one == <<new>>
<1>1. parts # <<>> => more \in Seq(Seq(S))
  BY ExtendProperties
<1>2. longer \in Seq(Seq(S))
  BY AppendProperties
<1>3. one \in Seq(Seq(S))
  OBVIOUS
<1>4. Track(parts, new, continues) = IF continues /\ parts # <<>> THEN more ELSE longer
  BY Zenon DEF Track
<1> HIDE DEF more, longer, one
<1>5. CASE new = <<>>
  <2> DEFINE empty == new = <<>>
             none == parts = <<>>
             x == ExtendLast(parts, new)
             y == IF setup.colocate THEN Append(parts, new) ELSE parts
             z == <<new>>
  <2>3. kept = CASE empty \/ (goesOn /\ none) -> parts
                 [] ~empty /\ goesOn /\ ~none -> x
                 [] ~empty /\ firstIds -> z
                 [] OTHER -> y
    BY Zenon DEF LastKept
  <2>4. empty
    BY <1>5
  <2> HIDE DEF empty, none, x, y, z, kept
  <2>1. kept = parts
    BY <2>3, <2>4
  <2>2. QED
    BY <1>5, <2>1 DEF kept, KeptWell
<1>6. CASE new # <<>> /\ firstIds
  <2>1. kept = one
    BY <1>6 DEF LastKept, one
  <2> HIDE DEF kept
  <2>2. QED
    BY <1>3, <1>6, <2>1 DEF kept, one, KeptWell
<1>7. CASE new # <<>> /\ ~firstIds /\ continues
  <2>1. kept = IF parts # <<>> THEN more ELSE parts
    BY <1>7 DEF LastKept, more
  <2> HIDE DEF kept
  <2>2. QED
    BY <1>1, <1>4, <1>7, <2>1 DEF kept, KeptWell
<1>8. CASE new # <<>> /\ ~firstIds /\ ~continues
  <2>1. kept = IF setup.colocate THEN longer ELSE parts
    BY <1>8 DEF LastKept, longer
  <2> HIDE DEF kept
  <2>2. QED
    BY <1>2, <1>4, <1>8, <2>1 DEF kept, KeptWell
<1>9. QED
  BY <1>5, <1>6, <1>7, <1>8

\* What is kept of the last turn, field by field.
LEMMA KeepLastIs ==
    ASSUME NEW S, None \notin Seq(S), NEW b \in Seq(Texts(S)), b # <<>>,
           NEW q \in Requests(S), q.messages = Open(b), NEW a \in Seq(S),
           setup.colocate \in BOOLEAN
    PROVE  LET last == KeepLastTurn(TakeAnswer(q, a), a)
               firstIds == q.ids = <<>>
               goesOn == Continued(b) /\ ~firstIds
           IN  /\ last \in Requests(S)
               /\ last.messages = Say(b, a)
               /\ last.ids = LastKept(q.ids, a, firstIds, goesOn)
               /\ last.mask = LastKept(q.mask, Ones(a), firstIds, goesOn)
               /\ last.logprobs = LastKept(q.logprobs, LogprobsOf(a), firstIds, goesOn)
<1> DEFINE request == TakeAnswer(q, a)
           last == KeepLastTurn(request, a)
           said == Say(b, a)
           more == Continued(b)
           firstIds == q.ids = <<>>
           goesOn == more /\ ~firstIds
           ids == LastKept(q.ids, a, firstIds, goesOn)
           mask == LastKept(q.mask, Ones(a), firstIds, goesOn)
           logprobs == LastKept(q.logprobs, LogprobsOf(a), firstIds, goesOn)
<1>1. request = [q EXCEPT !.messages = said, !.continues = more]
  <2>1. request = Answered(q, b, a)
    BY TakeAnswerIs
  <2>2. QED
    BY <2>1, Zenon DEF Answered
<1> HIDE DEF said, more, request
<1>2. request = [messages |-> said, continues |-> more, ids |-> q.ids, mask |-> q.mask,
                 logprobs |-> q.logprobs]
  BY <1>1 DEF Requests
<1>3. last = [request EXCEPT
                !.ids = LastKept(request.ids, a, request.ids = <<>>,
                                 request.continues /\ ~(request.ids = <<>>)),
                !.mask = LastKept(request.mask, Ones(a), request.ids = <<>>,
                                 request.continues /\ ~(request.ids = <<>>)),
                !.logprobs = LastKept(request.logprobs, LogprobsOf(a), request.ids = <<>>,
                                 request.continues /\ ~(request.ids = <<>>))]
  BY Zenon DEF KeepLastTurn, LastKept
<1>4. last = [request EXCEPT !.ids = ids, !.mask = mask, !.logprobs = logprobs]
  <2>1. request.ids = q.ids /\ request.continues = more /\ request.mask = q.mask
        /\ request.logprobs = q.logprobs
    BY <1>2
  <2> HIDE DEF last
  <2>2. QED
    BY <1>3, <2>1, Zenon
<1>5. said \in Seq(Texts(S) \cup {Dummy})
  <2>1. said \in Seq(Texts(S))
    BY SayProperties DEF said
  <2>2. Texts(S) \subseteq Texts(S) \cup {Dummy}
    OBVIOUS
  <2> DEFINE T == Texts(S) \cup {Dummy}
  <2> HIDE DEF T
  <2>3. Texts(S) \subseteq T
    BY <2>2 DEF T
  <2>4. said \in Seq(T)
    BY <2>1, <2>3, SeqMonotonic
  <2>5. QED
    BY <2>4 DEF T
<1>6. more \in BOOLEAN /\ firstIds \in BOOLEAN
  BY DEF Continued, more
<1>7. Ones(a) \in Seq(BOOLEAN) /\ LogprobsOf(a) \in Seq(S)
  <2>1. <<>> \in Seq(S)
    BY EmptySeq
  <2>2. QED
    BY <2>1, OnesIs DEF LogprobsOf
<1>8. q.ids \in Seq(Seq(S)) /\ q.mask \in Seq(Seq(BOOLEAN)) /\ q.logprobs \in Seq(Seq(S))
  BY DEF Requests
<1> DEFINE first == q.ids = <<>>
<1>9. first \in BOOLEAN /\ firstIds = first
  OBVIOUS
<1> HIDE DEF first
<1> DEFINE on == more /\ ~first
<1>14. on = (more /\ ~first)
  OBVIOUS
<1> HIDE DEF on
<1>10. /\ LastKept(q.ids, a, first, on) \in Seq(Seq(S))
       /\ LastKept(q.mask, Ones(a), first, on) \in Seq(Seq(BOOLEAN))
       /\ LastKept(q.logprobs, LogprobsOf(a), first, on) \in Seq(Seq(S))
  <2>1. LastKept(q.ids, a, first, on) \in Seq(Seq(S))
    BY <1>8, <1>14, LastKeptIs
  <2>2. LastKept(q.mask, Ones(a), first, on) \in Seq(Seq(BOOLEAN))
    BY <1>7, <1>8, <1>14, LastKeptIs
  <2>3. LastKept(q.logprobs, LogprobsOf(a), first, on) \in Seq(Seq(S))
    BY <1>7, <1>8, <1>14, LastKeptIs
  <2>4. QED
    BY <2>1, <2>2, <2>3
<1>11. ids \in Seq(Seq(S)) /\ mask \in Seq(Seq(BOOLEAN)) /\ logprobs \in Seq(Seq(S))
  BY <1>10, Zenon DEF first, on
<1> HIDE DEF last, ids, mask, logprobs
<1>12. last = [messages |-> said, continues |-> more, ids |-> ids, mask |-> mask,
               logprobs |-> logprobs]
  BY <1>2, <1>4
<1>13. last \in Requests(S)
  BY <1>5, <1>6, <1>11, <1>12 DEF Requests
<1>16. last.messages = said /\ last.ids = ids /\ last.mask = mask /\ last.logprobs = logprobs
  BY <1>12
<1>17. QED
  BY <1>13, <1>16, Zenon DEF last, said, ids, mask, logprobs, request, more

\* A text of the dialogue d with the first token of each of its first n turns.
OwnText(text, d, n) ==
    /\ \A j \in DOMAIN text : text[j].of = d /\ text[j].turn <= n
    /\ \A u \in 1..n : \E j \in DOMAIN text : text[j].turn = u /\ text[j].place = 1
    /\ \A i, j \in DOMAIN text : i < j => text[i].turn <= text[j].turn

\* What is said in a turn.
SaidInTurn(y, d, t) ==
    /\ y # <<>> /\ y[1].place = 1
    /\ \A j \in 1..Len(y) : y[j].of = d /\ y[j].turn = t

\* What is said in the next turn makes the text that of one turn more.
LEMMA OwnTextGrows ==
    ASSUME NEW S, NEW text \in Seq(S), NEW y \in Seq(S), NEW d, NEW n \in Nat,
           \A x \in S : x.turn \in Nat,
           OwnText(text, d, n), SaidInTurn(y, d, n + 1)
    PROVE  OwnText(text \o y, d, n + 1)
<1> DEFINE w == text \o y
           l == Len(text)
           m == Len(y)
<1>1. w \in Seq(S) /\ EndToEnd(text, y, w)
  BY ConcatAt
<1>2. DOMAIN text = 1..l /\ DOMAIN w = 1..Len(w) /\ l \in Nat /\ m \in Nat /\ m >= 1
  <2>1. m # 0
    BY EmptySeq DEF SaidInTurn
  <2> HIDE DEF w
  <2>2. QED
    BY <1>1, <2>1, LenProperties
<1> HIDE DEF w, l, m
<1>3. Len(w) = l + m /\ \A k \in 1..l : w[k] = text[k]
  BY <1>1 DEF EndToEnd, l, m
<1>4. \A k \in 1..m : w[l + k] = y[k]
  BY <1>1 DEF EndToEnd, l, m
<1>5. \A j \in 1..l : text[j].of = d /\ text[j].turn <= n /\ text[j].turn \in Nat
  <2>1. \A j \in 1..l : text[j] \in S
    BY ElementOfSeq DEF l
  <2>2. QED
    BY <1>2, <2>1 DEF OwnText
<1>6. \A j \in 1..m : y[j].of = d /\ y[j].turn = n + 1
  BY DEF SaidInTurn, m
<1>7. \A j \in 1..l + m : j \in 1..l \/ (j \notin 1..l /\ j - l \in 1..m /\ j = l + (j - l))
  BY <1>2
<1>8. ASSUME NEW j \in 1..l + m
      PROVE  /\ w[j].of = d /\ w[j].turn \in Nat
             /\ j \in 1..l => w[j].turn <= n
             /\ j \notin 1..l => w[j].turn = n + 1
  <2>1. CASE j \in 1..l
    BY <1>3, <1>5, <2>1
  <2>2. CASE j \notin 1..l
    <3>1. j - l \in 1..m /\ j = l + (j - l)
      BY <1>7, <2>2
    <3>2. w[j] = y[j - l]
      BY <1>4, <3>1
    <3>3. QED
      BY <1>6, <2>2, <3>1, <3>2
  <2>3. QED
    BY <2>1, <2>2
<1>9. ASSUME NEW u \in 1..n + 1
      PROVE  \E j \in 1..l + m : w[j].turn = u /\ w[j].place = 1
  <2>1. CASE u = n + 1
    <3>1. 1 \in 1..m /\ l + 1 \in 1..l + m
      BY <1>2
    <3>2. w[l + 1] = y[1]
      BY <1>4, <3>1
    <3>3. w[l + 1].turn = u /\ w[l + 1].place = 1
      BY <1>6, <2>1, <3>1, <3>2 DEF SaidInTurn
    <3>4. QED
      BY <3>1, <3>3
  <2>2. CASE u # n + 1
    <3>1. u \in 1..n
      BY <2>2
    <3>2. PICK j \in 1..l : text[j].turn = u /\ text[j].place = 1
      BY <1>2, <3>1 DEF OwnText
    <3>3. j \in 1..l + m /\ w[j] = text[j]
      BY <1>2, <1>3
    <3>4. QED
      BY <3>2, <3>3
  <2>3. QED
    BY <2>1, <2>2
<1>10. ASSUME NEW i \in 1..l + m, NEW j \in 1..l + m, i < j
       PROVE  w[i].turn <= w[j].turn
  <2>1. CASE j \in 1..l
    <3>1. i \in 1..l
      BY <1>2, <1>10, <2>1
    <3>2. text[i].turn <= text[j].turn
      BY <1>2, <1>10, <2>1, <3>1 DEF OwnText
    <3>3. QED
      BY <1>3, <2>1, <3>1, <3>2
  <2>2. CASE j \notin 1..l
    <3>1. w[j].turn = n + 1 /\ w[i].turn \in Nat /\ (w[i].turn <= n \/ w[i].turn = n + 1)
      BY <1>8, <2>2
    <3>2. QED
      BY <3>1
  <2>3. QED
    BY <2>1, <2>2
<1>11. OwnText(w, d, n + 1)
  <2>1. DOMAIN w = 1..l + m
    BY <1>2, <1>3
  <2>2. \A j \in 1..l + m : w[j].of = d /\ w[j].turn <= n + 1
    BY <1>8
  <2>3. QED
    BY <1>9, <1>10, <2>1, <2>2, ZenonT(40) DEF OwnText
<1>12. QED
  BY <1>11 DEF w

-----------------------------------------------------------------------------
(* The invariant.                                                           *)

\* The tokens of a setup, which `Tokens` are of the setup there is.
TokensIn(s) ==
    [of : UNION {ToSet(s.dialogues[r]) : r \in DOMAIN s.dialogues},
     turn : 1..s.maxTurns, place : Nat]

\* The scheduler's steps before turn t.
StepsBefore(s, t) == {s.scheduler[u] : u \in 1..t - 1}

\* Ids that every step returned are what the model's messages say; masks that came
\* with all of them fit them.
IdsInv(s, q, b, t) ==
    LET steps == StepsBefore(s, t) IN
    /\ (\A style \in steps : style.ids) => q.ids = ModelTexts(b)
    /\ (\A style \in steps : ~style.ids) => q.ids = <<>>
    /\ (\A style \in steps : style.ids => style.mask) => SameLengths(q.ids, q.mask)
    /\ (\A style \in steps : ~style.mask) => q.mask = <<>>

\* There are as many log-probabilities as trained ids, or more; if as many, they
\* are of these ids, and no step returned none.
LogprobsInv(s, q, t) ==
    LET steps == StepsBefore(s, t)
        logprobs == FlattenSeq(q.logprobs)
        masked == Masked(q.ids, q.mask)
    IN  /\ ~s.logprobs => q.logprobs = <<>>
        /\ s.logprobs /\ t > 1 => q.logprobs # <<>>
        /\ s.logprobs /\ (\A style \in steps : style.ids => style.mask) =>
              /\ Len(logprobs) >= Len(masked)
              /\ Len(logprobs) = Len(masked) =>
                    logprobs = masked /\ \A style \in steps : style.ids

\* The dialogue d, before its turn t.
Talk(s, q, d, t) ==
    LET b == SpokenOf(q.messages) IN
    /\ q \in Requests(TokensIn(s))
    /\ q.messages = Open(b) /\ b \in Seq(Texts(TokensIn(s))) /\ b # <<>>
    /\ Continued(b) <=> t > 1 /\ s.scheduler[t - 1].continues
    /\ OwnText(Text(b), d, t - 1)
    /\ IdsInv(s, q, b, t)
    /\ LogprobsInv(s, q, t)

\* The dialogues that a runner has from the start, and those that go on.
Own(r) == ToSet(setup.dialogues[r])
Running(r) == ToSet(indexToInfer[r])

\* The ranks of colocated engines are in the same turn, which a rank that is not
\* in it has yet to begin.
Round(r) == IF pc[r] = "turn" THEN turn[r] ELSE turn[r] - 1

\* An answer that the engine may give to d in turn t.
IsAnswer(s, a, d, t) == \E n \in s.lengths : a = Generated(d, t, n)

\* A runner has an answer to each of its dialogues.
Answers(r) ==
    /\ Len(outputs[r]) = Len(indexToInfer[r])
    /\ \A k \in 1..Len(outputs[r]) :
        IsAnswer(setup, outputs[r][k], indexToInfer[r][k], turn[r])

\* The invariant of the runners: of the turns they are in, the dialogues they
\* have left, and the answers they hold.
RunnersInv ==
    /\ setup \in Setups
    /\ pc \in [Runners -> {"rollout", "gather", "turn", "done"}]
    /\ turn \in [Runners -> Nat \ {0}]
    /\ indexToInfer \in [Runners -> Seq(Dialogues)]
    /\ outputs \in [Runners -> Seq(Seq(TokensIn(setup)))]
    /\ \A r \in Runners :
        /\ Running(r) \subseteq Own(r)
        /\ Running(r) # {} => turn[r] <= setup.maxTurns
        /\ pc[r] \in {"gather", "turn"} => Answers(r)
    /\ setup.colocate => \A r, q \in Runners : Round(r) = Round(q)

\* A dummy is the last message, of a dialogue that goes on.
DummyLast(messages, result) ==
    \A k \in DOMAIN messages : messages[k].content = None =>
        k = Len(messages) /\ result = NoResult

\* The invariant of the dialogues that go on, and of all requests.
DialoguesInv ==
    /\ DOMAIN requests = Dialogues /\ DOMAIN results = Dialogues
    /\ \A d \in Dialogues : requests[d] \in Requests(TokensIn(setup))
    /\ \A r \in Runners : \A d \in Running(r) :
        results[d] = NoResult /\ Talk(setup, requests[d], d, turn[r])
    /\ \A d \in Dialogues : DummyLast(requests[d].messages, results[d])
-----------------------------------------------------------------------------
(* What is known of a setup, and of an answer.                              *)

\* The dialogues of a setup.
DialoguesOf(s) == UNION {ToSet(s.dialogues[r]) : r \in DOMAIN s.dialogues}

\* The fields of a setup.
LEMMA SetupFacts ==
    ASSUME NEW s \in Setups
    PROVE  /\ s.colocate \in BOOLEAN /\ s.logprobs \in BOOLEAN /\ s.lastRound \in BOOLEAN
           /\ s.maxTurns \in Nat \ {0} /\ s.lengths \in SUBSET (Nat \ {0})
           /\ s.dialogues \in Seq(Seq(Nat))
           /\ s.scheduler \in Seq(Styles) /\ Len(s.scheduler) = s.maxTurns - 1
BY MultiTurnAssumption DEF SetupRecords

\* The scheduler has a step for each turn but the last.
LEMMA StyleFacts ==
    ASSUME NEW s \in Setups, NEW t \in 1..s.maxTurns - 1
    PROVE  /\ s.scheduler[t] \in Styles
           /\ s.scheduler[t].mask => s.scheduler[t].ids
           /\ s.scheduler[t].truncates => s.scheduler[t].logprobs
<1>1. s.scheduler \in Seq(Styles) /\ t \in 1..Len(s.scheduler)
  BY SetupFacts
<1>2. DOMAIN s.scheduler = 1..Len(s.scheduler)
  BY <1>1, LenProperties
<1>3. s.scheduler[t] \in Styles
  BY <1>1, ElementOfSeq
<1>4. \A u \in DOMAIN s.scheduler : LET style == s.scheduler[u] IN
          /\ style.mask => style.ids
          /\ style.truncates => style.ids /\ style.logprobs
  BY MultiTurnAssumption
<1>5. QED
  BY <1>1, <1>2, <1>3, <1>4

\* None is no sequence of tokens.
LEMMA TokensAre ==
    ASSUME NEW s \in Setups
    PROVE  /\ TokensIn(s) = [of : DialoguesOf(s), turn : 1..s.maxTurns, place : Nat]
           /\ DialoguesOf(s) \subseteq Nat
           /\ \A x \in TokensIn(s) : x.turn \in Nat
           /\ None \notin Seq(TokensIn(s))
<1>1. TokensIn(s) = [of : DialoguesOf(s), turn : 1..s.maxTurns, place : Nat]
  BY Zenon DEF TokensIn, DialoguesOf
<1>2. s.dialogues \in Seq(Seq(Nat)) /\ s.maxTurns \in Nat
  BY SetupFacts
<1>3. DialoguesOf(s) \subseteq Nat
  <2>1. ASSUME NEW d \in DialoguesOf(s) PROVE d \in Nat
    <3>1. PICK r \in DOMAIN s.dialogues : d \in ToSet(s.dialogues[r])
      BY DEF DialoguesOf
    <3>2. s.dialogues[r] \in Seq(Nat)
      <4>1. DOMAIN s.dialogues = 1..Len(s.dialogues)
        BY <1>2, LenProperties
      <4>2. QED
        BY <1>2, <3>1, <4>1, ElementOfSeq
    <3>3. PICK k \in DOMAIN s.dialogues[r] : d = s.dialogues[r][k]
      BY <3>1 DEF ToSet
    <3>4. DOMAIN s.dialogues[r] = 1..Len(s.dialogues[r])
      BY <3>2, LenProperties
    <3>5. QED
      BY <3>2, <3>3, <3>4, ElementOfSeq
  <2>2. QED
    BY <2>1
<1>4. \A x \in TokensIn(s) : x.turn \in Nat
  BY <1>1, <1>2
<1> DEFINE T == [of : Nat, turn : Nat, place : Nat]
           U == TokensIn(s)
<1>5. U \subseteq T
  BY <1>1, <1>2, <1>3
<1>6. None \notin Seq(T)
  BY NoneAssumption
<1> HIDE DEF T, U
<1>7. None \notin Seq(U)
  BY <1>5, <1>6, SeqMonotonic
<1>8. QED
  BY <1>1, <1>3, <1>4, <1>7 DEF U

\* An answer is said in its turn.
LEMMA AnswerFacts ==
    ASSUME NEW s \in Setups, NEW d \in DialoguesOf(s), NEW t \in 1..s.maxTurns, NEW a,
           IsAnswer(s, a, d, t)
    PROVE  a \in Seq(TokensIn(s)) /\ a # <<>> /\ SaidInTurn(a, d, t)
<1>1. PICK n \in s.lengths : a = Generated(d, t, n)
  BY DEF IsAnswer
<1>2. n \in Nat /\ n >= 1 /\ s.maxTurns \in Nat
  BY SetupFacts
<1>3. a = [k \in 1..n |-> [of |-> d, turn |-> t, place |-> k]]
  BY <1>1 DEF Generated
<1>4. \A k \in 1..n : [of |-> d, turn |-> t, place |-> k] \in TokensIn(s)
  <2>1. TokensIn(s) = [of : DialoguesOf(s), turn : 1..s.maxTurns, place : Nat]
    BY TokensAre
  <2>2. \A k \in 1..n : k \in Nat
    BY <1>2
  <2>3. QED
    BY <2>1, <2>2
<1>5. a \in [1..n -> TokensIn(s)]
  BY <1>3, <1>4
<1>6. a \in Seq(TokensIn(s)) /\ Len(a) = n
  BY <1>2, <1>5
<1>7. \A k \in 1..n : a[k].of = d /\ a[k].turn = t /\ a[k].place = k
  BY <1>3
<1>8. a # <<>>
  BY <1>2, <1>6, EmptySeq
<1>9. QED
  BY <1>2, <1>6, <1>7, <1>8 DEF SaidInTurn

\* What a step makes of an answer is said in its turn.
LEMMA TurnFacts ==
    ASSUME NEW s \in Setups, NEW d \in DialoguesOf(s), NEW t \in 1..s.maxTurns - 1, NEW a,
           IsAnswer(s, a, d, t), NEW style
    PROVE  /\ Tip(style, d, t) \in Seq(TokensIn(s))
           /\ Kept(style, a) \o Tip(style, d, t) \in Seq(TokensIn(s))
           /\ SaidInTurn(Kept(style, a) \o Tip(style, d, t), d, t)
<1> DEFINE S == TokensIn(s)
           kept == Kept(style, a)
           tip == Tip(style, d, t)
           y == kept \o tip
<1>1. t \in 1..s.maxTurns /\ t \in Nat
  BY SetupFacts
<1>2. a \in Seq(S) /\ a # <<>> /\ SaidInTurn(a, d, t)
  BY <1>1, AnswerFacts
<1>3. tip \in Seq(S) /\ \A k \in 1..Len(tip) : tip[k].of = d /\ tip[k].turn = t
  <2> DEFINE x == [of |-> d, turn |-> t, place |-> 0]
  <2>1. x \in S /\ x.of = d /\ x.turn = t
    BY <1>1, TokensAre
  <2> HIDE DEF x, S
  <2>2. <<x>> \in Seq(S) /\ Len(<<x>>) = 1 /\ <<x>>[1] = x /\ <<>> \in Seq(S) /\ Len(<<>>) = 0
    BY <2>1, EmptySeq
  <2>3. tip = IF style.adds THEN <<x>> ELSE <<>>
    BY Zenon DEF Tip, x
  <2>4. CASE style.adds
    <3>1. tip = <<x>>
      BY <2>3, <2>4
    <3>2. \A k \in 1..Len(<<x>>) : <<x>>[k] = x
      BY <2>2
    <3> HIDE DEF tip
    <3>3. QED
      BY <2>1, <2>2, <3>1, <3>2
  <2>5. CASE ~style.adds
    <3>1. tip = <<>>
      BY <2>3, <2>5
    <3> HIDE DEF tip
    <3>2. QED
      BY <2>2, <3>1
  <2>6. QED
    BY <2>4, <2>5
<1> HIDE DEF S
<1>4. /\ kept \in Seq(S) /\ Len(kept) \in 1..Len(a) /\ \A k \in 1..Len(kept) : kept[k] = a[k]
  BY <1>2, KeptProperties
<1> HIDE DEF kept, tip
<1>5. y \in Seq(S) /\ EndToEnd(kept, tip, y)
  BY <1>3, <1>4, ConcatAt
<1> HIDE DEF y
<1>6. Len(kept) \in Nat /\ Len(tip) \in Nat /\ Len(a) \in Nat /\ Len(kept) >= 1
  BY <1>2, <1>3, <1>4, LenProperties
<1>7. /\ Len(y) = Len(kept) + Len(tip)
      /\ \A k \in 1..Len(kept) : y[k] = kept[k]
      /\ \A k \in 1..Len(tip) : y[Len(kept) + k] = tip[k]
  BY <1>5 DEF EndToEnd
<1>8. ASSUME NEW k \in 1..Len(y) PROVE y[k].of = d /\ y[k].turn = t
  <2>1. CASE k \in 1..Len(kept)
    <3>1. y[k] = a[k] /\ k \in 1..Len(a)
      BY <1>4, <1>6, <1>7, <2>1
    <3>2. QED
      BY <1>2, <3>1 DEF SaidInTurn
  <2>2. CASE k \notin 1..Len(kept)
    <3>1. k - Len(kept) \in 1..Len(tip) /\ k = Len(kept) + (k - Len(kept))
      BY <1>6, <1>7, <2>2
    <3>2. y[k] = tip[k - Len(kept)]
      BY <1>7, <3>1
    <3>3. QED
      BY <1>3, <3>1, <3>2
  <2>3. QED
    BY <2>1, <2>2
<1>9. y # <<>> /\ y[1].place = 1
  <2>1. Len(y) >= 1 /\ y[1] = a[1]
    <3>1. 1 \in 1..Len(kept)
      BY <1>6
    <3>2. QED
      BY <1>4, <1>6, <1>7, <3>1
  <2>2. QED
    BY <1>2, <2>1, EmptySeq DEF SaidInTurn
<1>10. SaidInTurn(y, d, t)
  BY <1>8, <1>9 DEF SaidInTurn
<1>11. QED
  BY <1>3, <1>5, <1>10 DEF S, y, kept, tip

-----------------------------------------------------------------------------
(* A dialogue goes on.                                                      *)

\* A turn adds a step.
LEMMA StepsGrow ==
    ASSUME NEW s, NEW t \in Nat \ {0}
    PROVE  /\ StepsBefore(s, t + 1) = StepsBefore(s, t) \cup {s.scheduler[t]}
           /\ StepsBefore(s, 1) = {}
<1>1. 1..(t + 1) - 1 = (1..t - 1) \cup {t} /\ 1..1 - 1 = {}
  OBVIOUS
<1>2. StepsBefore(s, t + 1) = StepsBefore(s, t) \cup {s.scheduler[t]}
  BY <1>1 DEF StepsBefore
<1>3. StepsBefore(s, 1) = {}
  BY DEF StepsBefore
<1>4. QED
  BY <1>2, <1>3

\* A turn after which the dialogue d goes on, by what it does to each part.
Goes(s, q, after, b, y, lm, gained, style) ==
    /\ after.messages = Open(Onwards(b, y, style))
    /\ after.ids = IF style.ids THEN Track(q.ids, y, Continued(b)) ELSE q.ids
    /\ after.mask = IF style.mask THEN Track(q.mask, lm, Continued(b)) ELSE q.mask
    /\ after.logprobs = IF s.logprobs THEN Track(q.logprobs, gained, Continued(b))
                        ELSE q.logprobs

\* Such a turn keeps what is known of the ids and masks.
LEMMA GoesOnIds ==
    ASSUME NEW s, NEW t \in Nat \ {0}, NEW S, NEW b \in Seq(Texts(S)), b # <<>>,
           NEW q \in Requests(S), NEW after, NEW y \in Seq(S), NEW lm \in Seq(BOOLEAN),
           NEW gained, NEW style \in Styles, style = s.scheduler[t],
           style.mask => style.ids, Len(y) = Len(lm),
           Goes(s, q, after, b, y, lm, gained, style), IdsInv(s, q, b, t)
    PROVE  IdsInv(s, after, Onwards(b, y, style), t + 1)
<1> DEFINE steps == StepsBefore(s, t)
           more == StepsBefore(s, t + 1)
           c == Continued(b)
           b2 == Onwards(b, y, style)
<1>1. more = steps \cup {style}
  BY StepsGrow
<1>2. style.continues \in BOOLEAN /\ style.ids \in BOOLEAN /\ style.mask \in BOOLEAN
  BY DEF Styles
<1>3. ModelTexts(b2) = Track(ModelTexts(b), y, c)
  BY <1>2, OnwardsProperties
<1>4. /\ after.ids = IF style.ids THEN Track(q.ids, y, c) ELSE q.ids
      /\ after.mask = IF style.mask THEN Track(q.mask, lm, c) ELSE q.mask
  BY DEF Goes
<1>5. /\ (\A x \in steps : x.ids) => q.ids = ModelTexts(b)
      /\ (\A x \in steps : ~x.ids) => q.ids = <<>>
      /\ (\A x \in steps : x.ids => x.mask) => SameLengths(q.ids, q.mask)
      /\ (\A x \in steps : ~x.mask) => q.mask = <<>>
  BY DEF IdsInv
<1>6. q.ids \in Seq(Seq(S)) /\ q.mask \in Seq(Seq(BOOLEAN))
  BY DEF Requests
<1> HIDE DEF steps, more, b2, c
<1>7. ASSUME \A x \in more : x.ids PROVE after.ids = ModelTexts(b2)
  <2>1. (\A x \in steps : x.ids) /\ style.ids
    BY <1>1, <1>7
  <2>2. QED
    BY <1>3, <1>4, <1>5, <2>1
<1>8. ASSUME \A x \in more : ~x.ids PROVE after.ids = <<>>
  <2>1. (\A x \in steps : ~x.ids) /\ ~style.ids
    BY <1>1, <1>8
  <2>2. QED
    BY <1>4, <1>5, <2>1
<1>9. ASSUME \A x \in more : x.ids => x.mask PROVE SameLengths(after.ids, after.mask)
  <2>1. SameLengths(q.ids, q.mask) /\ (style.ids => style.mask)
    BY <1>1, <1>5, <1>9
  <2>2. CASE style.ids
    <3>1. after.ids = Track(q.ids, y, c) /\ after.mask = Track(q.mask, lm, c)
      BY <1>4, <2>1, <2>2
    <3> DEFINE u == q.ids
               v == q.mask
    <3>2. u \in Seq(Seq(S)) /\ v \in Seq(Seq(BOOLEAN)) /\ SameLengths(u, v)
      BY <1>6, <2>1
    <3> HIDE DEF u, v
    <3>3. SameLengths(Track(u, y, c), Track(v, lm, c))
      BY <3>2, SameLengthsTrack
    <3>4. QED
      BY <3>1, <3>3 DEF u, v
  <2>3. CASE ~style.ids
    BY <1>4, <2>1, <2>3
  <2>4. QED
    BY <2>2, <2>3
<1>10. ASSUME \A x \in more : ~x.mask PROVE after.mask = <<>>
  <2>1. (\A x \in steps : ~x.mask) /\ ~style.mask
    BY <1>1, <1>10
  <2>2. QED
    BY <1>4, <1>5, <2>1
<1>11. QED
  BY <1>7, <1>8, <1>9, <1>10 DEF IdsInv, more, b2

\* And of the log-probabilities.
LEMMA GoesOnLogprobs ==
    ASSUME NEW s, NEW t \in Nat \ {0}, NEW S, NEW b,
           NEW q \in Requests(S), NEW after, NEW kept \in Seq(S), kept # <<>>,
           NEW tip \in Seq(S), NEW style \in Styles, style = s.scheduler[t],
           style.mask => style.ids, s.logprobs \in BOOLEAN,
           Goes(s, q, after, b, kept \o tip, LossMask(kept, tip), kept, style),
           IdsInv(s, q, b, t), LogprobsInv(s, q, t)
    PROVE  LogprobsInv(s, after, t + 1)
<1> DEFINE steps == StepsBefore(s, t)
           more == StepsBefore(s, t + 1)
           c == Continued(b)
           y == kept \o tip
           lm == LossMask(kept, tip)
           old == FlattenSeq(q.logprobs)
           new == FlattenSeq(after.logprobs)
           before == Masked(q.ids, q.mask)
           masked == Masked(after.ids, after.mask)
<1>1. more = steps \cup {style}
  BY StepsGrow
<1>2. style.ids \in BOOLEAN /\ style.mask \in BOOLEAN
  BY DEF Styles
<1>3. lm \in Seq(BOOLEAN) /\ Len(lm) = Len(y) /\ Selected(y, lm) = kept /\ y \in Seq(S)
  BY LossMaskIs, ConcatProperties
<1>4. /\ after.ids = IF style.ids THEN Track(q.ids, y, c) ELSE q.ids
      /\ after.mask = IF style.mask THEN Track(q.mask, lm, c) ELSE q.mask
      /\ after.logprobs = IF s.logprobs THEN Track(q.logprobs, kept, c) ELSE q.logprobs
  BY DEF Goes
<1>5. q.ids \in Seq(Seq(S)) /\ q.mask \in Seq(Seq(BOOLEAN)) /\ q.logprobs \in Seq(Seq(S))
  BY DEF Requests
<1>6. /\ ~s.logprobs => q.logprobs = <<>>
      /\ s.logprobs /\ t > 1 => q.logprobs # <<>>
      /\ s.logprobs /\ (\A x \in steps : x.ids => x.mask) =>
            /\ Len(old) >= Len(before)
            /\ Len(old) = Len(before) => old = before /\ \A x \in steps : x.ids
  BY DEF LogprobsInv
<1>7. (\A x \in steps : x.ids => x.mask) => SameLengths(q.ids, q.mask)
  BY DEF IdsInv
<1> HIDE DEF steps, more, c, y, lm, before, old
<1>8. ~s.logprobs => after.logprobs = <<>>
  BY <1>4, <1>6
<1>9. ASSUME s.logprobs
      PROVE  after.logprobs # <<>> /\ new = old \o kept /\ old \in Seq(S)
  <2>1. after.logprobs = Track(q.logprobs, kept, c)
    BY <1>4, <1>9
  <2> DEFINE l == q.logprobs
  <2>2. l \in Seq(Seq(S))
    BY <1>5
  <2> HIDE DEF l
  <2>3. /\ Track(l, kept, c) # <<>> /\ FlattenSeq(l) \in Seq(S)
        /\ FlattenSeq(Track(l, kept, c)) = FlattenSeq(l) \o kept
    BY <2>2, TrackProperties
  <2>4. QED
    BY <2>1, <2>3 DEF l, old
<1> HIDE DEF new, masked
<1>10. ASSUME s.logprobs, \A x \in more : x.ids => x.mask
       PROVE  /\ Len(new) >= Len(masked)
              /\ Len(new) = Len(masked) => new = masked /\ \A x \in more : x.ids
  <2>1. (\A x \in steps : x.ids => x.mask) /\ (style.ids => style.mask)
    BY <1>1, <1>10
  <2>2. SameLengths(q.ids, q.mask)
    BY <1>7, <2>1
  <2>3. /\ Len(old) >= Len(before)
        /\ Len(old) = Len(before) => old = before /\ \A x \in steps : x.ids
    BY <1>6, <1>10, <2>1
  <2>4. new = old \o kept /\ old \in Seq(S)
    BY <1>9, <1>10
  <2>5. Len(new) = Len(old) + Len(kept) /\ Len(old) \in Nat /\ Len(kept) \in Nat \ {0}
    BY <2>4, ConcatProperties, LenProperties, EmptySeq
  <2> DEFINE u == q.ids
             v == q.mask
  <2>6. u \in Seq(Seq(S)) /\ v \in Seq(Seq(BOOLEAN)) /\ SameLengths(u, v)
    BY <1>5, <2>2
  <2>7. before = Masked(u, v)
    BY DEF before
  <2> HIDE DEF u, v
  <2>8. before \in Seq(S) /\ Masked(Track(u, y, c), Track(v, lm, c)) = before \o kept
    <3>1. /\ Masked(u, v) \in Seq(S)
          /\ Masked(Track(u, y, c), Track(v, lm, c)) = Masked(u, v) \o Selected(y, lm)
      BY <1>3, <2>6, MaskedTrack, SMTT(30)
    <3>2. QED
      BY <1>3, <2>7, <3>1
  <2>9. Len(before) \in Nat /\ Len(before \o kept) = Len(before) + Len(kept)
    BY <2>8, ConcatProperties, LenProperties
  <2>10. CASE style.ids
    <3>1. masked = before \o kept
      BY <1>4, <2>1, <2>8, <2>10 DEF masked, u, v
    <3>2. Len(new) >= Len(masked)
      BY <2>3, <2>5, <2>9, <3>1
    <3>3. ASSUME Len(new) = Len(masked) PROVE new = masked /\ \A x \in more : x.ids
      <4>1. Len(old) = Len(before)
        BY <2>5, <2>9, <3>1, <3>3
      <4>2. old = before /\ \A x \in steps : x.ids
        BY <2>3, <4>1
      <4>3. new = masked
        BY <2>4, <3>1, <4>2
      <4>4. QED
        BY <1>1, <2>10, <4>2, <4>3
    <3>4. QED
      BY <3>2, <3>3
  <2>11. CASE ~style.ids
    <3>1. masked = before
      BY <1>2, <1>4, <2>11 DEF masked, before
    <3>2. Len(new) > Len(masked)
      BY <2>3, <2>5, <2>9, <3>1
    <3>3. Len(masked) \in Nat
      BY <2>9, <3>1
    <3>4. QED
      BY <2>5, <3>2, <3>3
  <2>12. QED
    BY <2>10, <2>11
<1>11. QED
  BY <1>8, <1>9, <1>10 DEF LogprobsInv, more, new, masked

\* A dialogue that goes on is one before its next turn.
LEMMA GoesOn ==
    ASSUME setup \in Setups, NEW t \in 1..setup.maxTurns - 1, NEW d \in DialoguesOf(setup),
           NEW q, Talk(setup, q, d, t), NEW a, IsAnswer(setup, a, d, t)
    PROVE  Talk(setup, KeepTurn(TakeAnswer(q, a), a, setup.scheduler[t], d, t), d, t + 1)
<1> DEFINE s == setup
           S == TokensIn(s)
           b == SpokenOf(q.messages)
           style == s.scheduler[t]
           kept == Kept(style, a)
           tip == Tip(style, d, t)
           y == kept \o tip
           lm == LossMask(kept, tip)
           after == KeepTurn(TakeAnswer(q, a), a, style, d, t)
           b2 == Onwards(b, y, style)
<1>1. /\ q \in Requests(S) /\ q.messages = Open(b) /\ b \in Seq(Texts(S)) /\ b # <<>>
      /\ Continued(b) <=> t > 1 /\ s.scheduler[t - 1].continues
      /\ OwnText(Text(b), d, t - 1)
      /\ IdsInv(s, q, b, t) /\ LogprobsInv(s, q, t)
  BY DEF Talk
<1>2. t \in Nat \ {0} /\ t \in 1..s.maxTurns /\ s.logprobs \in BOOLEAN /\ s \in Setups
  BY SetupFacts
<1>3. /\ style \in Styles /\ (style.mask => style.ids)
      /\ (style.truncates => style.logprobs) /\ style.continues \in BOOLEAN
  BY StyleFacts DEF Styles
<1> HIDE DEF style, S, s
<1>4. None \notin Seq(S) /\ \A x \in S : x.turn \in Nat
  BY <1>2, TokensAre DEF S
<1>5. a \in Seq(S) /\ a # <<>>
  BY <1>2, AnswerFacts DEF S, s
<1>6. tip \in Seq(S) /\ y \in Seq(S) /\ SaidInTurn(y, d, t)
  BY TurnFacts DEF S, s
<1>7. /\ kept \in Seq(S) /\ Len(kept) \in 1..Len(a) /\ (~style.truncates => kept = a)
  BY <1>5, KeptProperties
<1>8. kept # <<>>
  <2> HIDE DEF kept
  <2>1. Len(a) \in Nat
    BY <1>5, LenProperties
  <2>2. Len(kept) # 0
    BY <1>7, <2>1
  <2>3. QED
    BY <2>2, EmptySeq
<1>9. Gained(style, a) = kept
  BY <1>3, <1>7 DEF Gained
<1> HIDE DEF b
<1>10. /\ after \in Requests(S)
       /\ after.messages = Open(b2)
       /\ after.ids = IF style.ids THEN Track(q.ids, y, Continued(b)) ELSE q.ids
       /\ after.mask = IF style.mask THEN Track(q.mask, lm, Continued(b)) ELSE q.mask
       /\ after.logprobs = IF setup.logprobs
                           THEN Track(q.logprobs, Gained(style, a), Continued(b))
                           ELSE q.logprobs
  <2>1. setup.logprobs \in BOOLEAN /\ Tip(style, d, t) \in Seq(S)
    BY <1>2, <1>6 DEF s
  <2>2. LET w == KeepTurn(TakeAnswer(q, a), a, style, d, t)
            z == Kept(style, a) \o Tip(style, d, t)
            lossMask == LossMask(Kept(style, a), Tip(style, d, t))
        IN  /\ w \in Requests(S)
            /\ z \in Seq(S)
            /\ w.messages = Open(Onwards(b, z, style))
            /\ w.ids = IF style.ids THEN Track(q.ids, z, Continued(b)) ELSE q.ids
            /\ w.mask = IF style.mask THEN Track(q.mask, lossMask, Continued(b))
                            ELSE q.mask
            /\ w.logprobs = IF setup.logprobs
                                THEN Track(q.logprobs, Gained(style, a), Continued(b))
                                ELSE q.logprobs
    BY <1>1, <1>3, <1>4, <1>5, <2>1, KeepTurnIs
  <2>3. QED
    BY <2>2, Zenon
<1> HIDE DEF after, kept, tip
<1>11. Goes(s, q, after, b, y, lm, kept, style)
  BY <1>9, <1>10, Zenon DEF Goes, b2, s
<1>12. lm \in Seq(BOOLEAN) /\ Len(y) = Len(lm)
  BY <1>6, <1>7, LossMaskIs
<1>13. LogprobsInv(s, after, t + 1)
  <2>1. style = s.scheduler[t]
    BY DEF style
  <2>2. QED
    BY <1>1, <1>2, <1>3, <1>6, <1>7, <1>8, <1>11, <2>1, GoesOnLogprobs
<1> HIDE DEF y, lm
<1>14. IdsInv(s, after, b2, t + 1)
  <2>1. style = s.scheduler[t]
    BY DEF style
  <2>2. QED
    BY <1>1, <1>2, <1>3, <1>6, <1>11, <1>12, <2>1, GoesOnIds DEF b2
<1>15. /\ b2 \in Seq(Texts(S)) /\ b2 # <<>> /\ Continued(b2) = style.continues
       /\ Text(b2) = Text(b) \o y
  <2>1. b \in Seq(Texts(S)) /\ b # <<>> /\ y \in Seq(S) /\ style.continues \in BOOLEAN
    BY <1>1, <1>3, <1>6
  <2>2. LET w == Onwards(b, y, style)
        IN  /\ w \in Seq(Texts(S)) /\ w # <<>>
            /\ Continued(w) = style.continues
            /\ Text(w) = Text(b) \o y
            /\ ModelTexts(w) = Track(ModelTexts(b), y, Continued(b))
    BY <2>1, OnwardsProperties
  <2>3. QED
    BY <2>2 DEF b2
<1>16. OwnText(Text(b2), d, t)
  <2>1. Text(b) \in Seq(S)
    BY <1>1, ContentsType
  <2> DEFINE n == t - 1
             text == Text(b)
  <2>2. n \in Nat /\ n + 1 = t /\ OwnText(text, d, n) /\ text \in Seq(S)
    BY <1>1, <1>2, <2>1
  <2> HIDE DEF n, text
  <2>3. SaidInTurn(y, d, n + 1)
    BY <1>6, <2>2
  <2>4. OwnText(text \o y, d, n + 1)
    BY <1>4, <1>6, <2>2, <2>3, OwnTextGrows
  <2>5. QED
    BY <1>15, <2>2, <2>4 DEF text
<1> HIDE DEF b2
<1>17. SpokenOf(after.messages) = b2
  BY <1>4, <1>10, <1>15, OpenProperties
<1>18. (t + 1) - 1 = t /\ t + 1 > 1
  BY <1>2
<1>19. Talk(s, after, d, t + 1)
  <2>1. Continued(b2) <=> t + 1 > 1 /\ s.scheduler[(t + 1) - 1].continues
    BY <1>15, <1>18 DEF style
  <2>2. OwnText(Text(b2), d, (t + 1) - 1)
    BY <1>16, <1>18
  <2>3. QED
    BY <1>10, <1>13, <1>14, <1>15, <1>17, <2>1, <2>2, Zenon DEF Talk, S
<1>20. QED
  BY <1>19 DEF after, s, style

-----------------------------------------------------------------------------
(* Putting ids into messages.                                               *)

\* The assistant messages from the k-th one on.
AtTheBack(b, k) == {j \in k..Len(b) : b[j].role = "assistant"}

\* Messages are counted from the last, so a message more counts for all.
LEMMA BackOfAppend ==
    ASSUME NEW S, NEW b \in Seq(S), NEW m \in S
    PROVE  /\ \A k \in 1..Len(b) + 1 :
                /\ FromTheBack(b, k) \in Nat
                /\ FromTheBack(Append(b, m), k)
                    = FromTheBack(b, k) + IF m.role = "assistant" THEN 1 ELSE 0
           /\ FromTheBack(b, Len(b) + 1) = 0
<1> DEFINE n == Len(b)
           u == Append(b, m)
<1>1. /\ u \in Seq(S) /\ Len(u) = n + 1 /\ n \in Nat /\ u[n + 1] = m
      /\ \A k \in 1..n : u[k] = b[k]
  BY AppendProperties, LenProperties
<1> HIDE DEF u
<1>2. ASSUME NEW k \in 1..n + 1
      PROVE  /\ FromTheBack(b, k) \in Nat
             /\ FromTheBack(u, k) = FromTheBack(b, k) + IF m.role = "assistant" THEN 1 ELSE 0
  <2> DEFINE A == AtTheBack(b, k)
             B == AtTheBack(u, k)
  <2>1. A \subseteq k..n /\ IsFiniteSet(k..n)
    BY <1>1, FS_Interval DEF AtTheBack
  <2> HIDE DEF n
  <2>2. IsFiniteSet(A)
    <3> HIDE DEF A
    <3>1. QED
      BY <2>1, FS_Subset
  <2>3. Cardinality(A) \in Nat
    <3> HIDE DEF A
    <3>1. QED
      BY <2>2, FS_CardinalityType
  <2>4. FromTheBack(b, k) = Cardinality(A) /\ FromTheBack(u, k) = Cardinality(B)
    BY DEF FromTheBack, AtTheBack
  <2>5. B = IF m.role = "assistant" THEN A \cup {n + 1} ELSE A
    BY <1>1 DEF AtTheBack, n
  <2>6. n + 1 \notin A
    BY <1>1, <2>1
  <2>7. Cardinality(A \cup {n + 1}) = Cardinality(A) + 1
    <3> HIDE DEF A
    <3>1. QED
      BY <2>2, <2>6, FS_AddElement
  <2> HIDE DEF A, B
  <2>8. QED
    BY <2>3, <2>4, <2>5, <2>7
<1>3. FromTheBack(b, n + 1) = 0
  <2>1. AtTheBack(b, n + 1) = {}
    BY <1>1 DEF AtTheBack
  <2>2. FromTheBack(b, n + 1) = Cardinality({})
    BY <2>1 DEF FromTheBack, AtTheBack
  <2>3. QED
    BY <2>2, FS_EmptySet
<1>4. QED
  BY <1>2, <1>3 DEF u

\* Counting from the last one backwards finds a message among the model's.
Found(b, k) ==
    LET texts == ModelTexts(b) IN
    /\ FromTheBack(b, k) \in 1..Len(texts)
    /\ texts[Len(texts) + 1 - FromTheBack(b, k)] = b[k].content

\* The ids that are counted off from the back for a message are its own.
LEMMA FromTheBackFinds ==
    ASSUME NEW S, NEW w \in Seq(Texts(S))
    PROVE  \A k \in 1..Len(w) : w[k].role = "assistant" => Found(w, k)
<1> DEFINE T == {b \in Seq(Texts(S)) :
                    \A k \in 1..Len(b) : b[k].role = "assistant" => Found(b, k)}
<1>1. <<>> \in T
  <2>1. <<>> \in Seq(Texts(S)) /\ Len(<<>>) = 0
    BY EmptySeq
  <2>2. QED
    BY <2>1
<1>2. ASSUME NEW b \in Seq(Texts(S)), NEW m \in Texts(S), b \in T
      PROVE  Append(b, m) \in T
  <2> DEFINE n == Len(b)
             u == Append(b, m)
             before == ModelTexts(b)
             texts == ModelTexts(u)
             c == m.content
  <2>1. /\ u \in Seq(Texts(S)) /\ Len(u) = n + 1 /\ n \in Nat /\ u[n + 1] = m
        /\ \A k \in 1..n : u[k] = b[k]
    BY AppendProperties, LenProperties
  <2>2. \A k \in 1..n : b[k].role = "assistant" => Found(b, k)
    BY <1>2
  <2> HIDE DEF T
  <2>3. before \in Seq(Seq(S)) /\ c \in Seq(S)
    BY ContentsType, MessageFields
  <2>4. texts = IF m.role = "assistant" THEN Append(before, c) ELSE before
    BY ContentsAppend
  <2>5. /\ \A k \in 1..n + 1 :
            /\ FromTheBack(b, k) \in Nat
            /\ FromTheBack(u, k) = FromTheBack(b, k) + IF m.role = "assistant" THEN 1 ELSE 0
        /\ FromTheBack(b, n + 1) = 0
    BY BackOfAppend
  <2> HIDE DEF u, before, texts, c
  <2>6. /\ Len(Append(before, c)) = Len(before) + 1 /\ Len(before) \in Nat
        /\ Append(before, c)[Len(before) + 1] = c
        /\ \A k \in 1..Len(before) : Append(before, c)[k] = before[k]
    BY <2>3, AppendProperties, LenProperties
  <2>7. ASSUME NEW k \in 1..Len(u), u[k].role = "assistant"
        PROVE  Found(u, k)
    <3> DEFINE f == FromTheBack(b, k)
    <3>1. k \in 1..n + 1
      BY <2>1
    <3>2. f \in Nat /\ FromTheBack(u, k) = f + IF m.role = "assistant" THEN 1 ELSE 0
      BY <2>5, <3>1
    <3>3. CASE k = n + 1
      <4>1. m.role = "assistant" /\ f = 0 /\ u[k].content = c
        BY <2>1, <2>5, <2>7, <3>3 DEF c
      <4>2. texts = Append(before, c) /\ FromTheBack(u, k) = 1
        BY <2>4, <3>2, <4>1
      <4> HIDE DEF f
      <4>3. Len(texts) = Len(before) + 1 /\ texts[Len(before) + 1] = c
        BY <2>6, <4>2
      <4>4. FromTheBack(u, k) \in 1..Len(texts)
            /\ texts[Len(texts) + 1 - FromTheBack(u, k)] = u[k].content
        BY <2>6, <4>1, <4>2, <4>3
      <4>5. QED
        BY <4>4 DEF Found, texts
    <3>4. CASE k # n + 1
      <4>1. k \in 1..n
        BY <2>1, <3>1, <3>4
      <4>2. u[k] = b[k] /\ b[k].role = "assistant"
        BY <2>1, <2>7, <4>1
      <4>3. f \in 1..Len(before) /\ before[Len(before) + 1 - f] = b[k].content
        BY <2>2, <4>1, <4>2 DEF Found, before
      <4> HIDE DEF f
      <4> DEFINE i == Len(before) + 1 - f
      <4>4. i \in 1..Len(before)
        BY <2>6, <4>3
      <4>5. Append(before, c)[i] = before[i]
        BY <2>6, <4>4
      <4>6. Len(texts) + 1 - FromTheBack(u, k) = i /\ FromTheBack(u, k) \in 1..Len(texts)
        <5> DEFINE more == IF m.role = "assistant" THEN 1 ELSE 0
                   g == FromTheBack(u, k)
                   old == Len(before)
                   all == Len(texts)
        <5>1. all = old + more
          BY <2>4, <2>6
        <5>2. g = f + more /\ more \in {0, 1} /\ f \in 1..old /\ old \in Nat /\ i = old + 1 - f
          BY <2>6, <3>2, <4>3
        <5> HIDE DEF more, g, old, all, i
        <5>3. all + 1 - g = i /\ g \in 1..all
          BY <5>1, <5>2
        <5>4. QED
          BY <5>3 DEF g, all
      <4>7. texts[i] = before[i]
        BY <2>4, <4>5
      <4> HIDE DEF i
      <4>8. texts[Len(texts) + 1 - FromTheBack(u, k)] = u[k].content
        BY <4>2, <4>3, <4>6, <4>7 DEF i
      <4>9. QED
        BY <4>6, <4>8 DEF Found, texts
    <3>5. QED
      BY <3>3, <3>4
  <2>8. QED
    BY <2>1, <2>7 DEF T, u
<1> HIDE DEF T
<1>3. w \in T
  BY <1>1, <1>2, SeqInduction
<1>4. QED
  BY <1>3 DEF T

\* Ids that are the last of what the model's messages say come into these messages.
LEMMA IdsInPlace ==
    ASSUME NEW S, NEW out, out.messages \in Seq(Texts(S)), out.ids \in Seq(Seq(S)),
           NEW first \in Seq(Seq(S)), ModelTexts(out.messages) = first \o out.ids
    PROVE  \A k \in DOMAIN out.messages : TokensOf(out, k) = out.messages[k].content
<1> DEFINE w == out.messages
           ids == out.ids
           texts == ModelTexts(w)
<1>1. /\ Len(first \o ids) = Len(first) + Len(ids) /\ Len(first) \in Nat /\ Len(ids) \in Nat
      /\ \A i \in 1..Len(ids) : (first \o ids)[Len(first) + i] = ids[i]
  BY ConcatAt, LenProperties DEF EndToEnd
<1>2. DOMAIN w = 1..Len(w)
  BY LenProperties
<1>3. ASSUME NEW k \in 1..Len(w), IsReplaced(out, k)
      PROVE  ids[PartOf(out, k)] = w[k].content
  <2> DEFINE f == FromTheBack(w, k)
  <2>1. w[k].role = "assistant" /\ f <= Len(ids)
    BY <1>3 DEF IsReplaced
  <2>2. f \in 1..Len(texts) /\ texts[Len(texts) + 1 - f] = w[k].content
    <3>1. Found(w, k)
      BY <2>1, FromTheBackFinds
    <3>2. QED
      BY <3>1 DEF Found
  <2>3. PartOf(out, k) = Len(ids) + 1 - f
    BY DEF PartOf
  <2> HIDE DEF f
  <2> DEFINE i == Len(ids) + 1 - f
  <2>4. Len(texts) = Len(first) + Len(ids) /\ texts = first \o ids
    BY <1>1
  <2> HIDE DEF texts, ids, w
  <2>5. i \in 1..Len(ids) /\ Len(texts) + 1 - f = Len(first) + i
    BY <1>1, <2>1, <2>2, <2>4
  <2> HIDE DEF i
  <2>6. texts[Len(first) + i] = ids[i]
    BY <1>1, <2>4, <2>5
  <2>7. QED
    BY <2>2, <2>3, <2>5, <2>6 DEF i
<1>4. ASSUME NEW k \in 1..Len(w) PROVE TokensOf(out, k) = w[k].content
  BY <1>3 DEF TokensOf
<1>5. QED
  BY <1>2, <1>4

-----------------------------------------------------------------------------
(* The tokens of messages that are trained when ids and masks came for all. *)

\* The trained tokens of each message.
LaidAt(b, ids, mask, k) ==
    IF b[k].role # "assistant" THEN <<>>
    ELSE LET place == Len(ids) + 1 - FromTheBack(b, k)
         IN  Selected(ids[place], mask[place])
Laid(b, ids, mask) == [k \in DOMAIN b |-> LaidAt(b, ids, mask, k)]

\* They are sequences of tokens, one for each message.
LEMMA LaidType ==
    ASSUME NEW S, NEW b \in Seq(Texts(S)), NEW mask
    PROVE  /\ Laid(b, ModelTexts(b), mask) \in Seq(Seq(S))
           /\ Len(Laid(b, ModelTexts(b), mask)) = Len(b)
           /\ \A k \in 1..Len(b) :
                Laid(b, ModelTexts(b), mask)[k] = LaidAt(b, ModelTexts(b), mask, k)
<1> DEFINE ids == ModelTexts(b)
           n == Len(b)
<1>1. n \in Nat /\ DOMAIN b = 1..n /\ ids \in Seq(Seq(S)) /\ Len(ids) \in Nat
      /\ \A i \in 1..Len(ids) : ids[i] \in Seq(S)
  <2>1. ids \in Seq(Seq(S))
    BY ContentsType
  <2> HIDE DEF ids
  <2>2. n \in Nat /\ DOMAIN b = 1..n /\ Len(ids) \in Nat
    BY <2>1, LenProperties
  <2>3. \A i \in 1..Len(ids) : ids[i] \in Seq(S)
    BY <2>1, ElementOfSeq
  <2>4. QED
    BY <2>1, <2>2, <2>3
<1>2. ASSUME NEW k \in 1..n PROVE LaidAt(b, ids, mask, k) \in Seq(S)
  <2>1. CASE b[k].role # "assistant"
    <3>1. <<>> \in Seq(S)
      BY EmptySeq
    <3>2. QED
      BY <2>1, <3>1 DEF LaidAt
  <2>2. CASE b[k].role = "assistant"
    <3> DEFINE f == FromTheBack(b, k)
               i == Len(ids) + 1 - f
    <3>1. f \in 1..Len(ids)
      BY <2>2, FromTheBackFinds DEF Found
    <3> HIDE DEF f, ids
    <3>2. i \in 1..Len(ids)
      BY <1>1, <3>1
    <3> HIDE DEF i
    <3>3. ids[i] \in Seq(S)
      BY <1>1, <3>2
    <3>4. Selected(ids[i], mask[i]) \in Seq(S)
      BY <3>3, KeptType
    <3>5. LaidAt(b, ids, mask, k) = Selected(ids[i], mask[i])
      BY <2>2, Zenon DEF LaidAt, i, f
    <3>6. QED
      BY <3>4, <3>5 DEF ids
  <2>3. QED
    BY <2>1, <2>2
<1> DEFINE laid == Laid(b, ids, mask)
<1>3. laid = [k \in 1..n |-> LaidAt(b, ids, mask, k)]
  BY <1>1 DEF Laid
<1> HIDE DEF laid, ids
<1>4. laid \in [1..n -> Seq(S)] /\ \A k \in 1..n : laid[k] = LaidAt(b, ids, mask, k)
  BY <1>2, <1>3
<1>5. laid \in Seq(Seq(S)) /\ Len(laid) = n
  <2> HIDE DEF n
  <2>1. laid \in Seq(Seq(S))
    BY <1>1, <1>4, SeqDef
  <2>2. DOMAIN laid = 1..n
    BY <1>3
  <2>3. QED
    BY <1>1, <2>1, <2>2, LenProperties
<1>6. QED
  BY <1>4, <1>5 DEF laid, ids

\* One more message adds new.
LaidMore(b, m, mask, q, new) ==
    LET u == Append(b, m) IN
    /\ \A k \in 1..Len(b) :
            LaidAt(u, ModelTexts(u), mask, k) = LaidAt(b, ModelTexts(b), q, k)
    /\ LaidAt(u, ModelTexts(u), mask, Len(b) + 1) = new

\* The trained tokens of a message more are after the others'.
LEMMA LaidAppend ==
    ASSUME NEW S, NEW b \in Seq(Texts(S)), NEW m \in Texts(S), NEW mask, NEW q, NEW new,
           LaidMore(b, m, mask, q, new)
    PROVE  FlattenSeq(Laid(Append(b, m), ModelTexts(Append(b, m)), mask))
                = FlattenSeq(Laid(b, ModelTexts(b), q)) \o new
<1> DEFINE u == Append(b, m)
           n == Len(b)
           x == Laid(b, ModelTexts(b), q)
           y == Laid(u, ModelTexts(u), mask)
           z == Append(x, new)
<1>1. u \in Seq(Texts(S)) /\ Len(u) = n + 1 /\ n \in Nat
  BY AppendProperties, LenProperties
<1>2. /\ x \in Seq(Seq(S)) /\ Len(x) = n
      /\ \A k \in 1..n : x[k] = LaidAt(b, ModelTexts(b), q, k)
  BY LaidType
<1>3. /\ \A k \in 1..n : LaidAt(u, ModelTexts(u), mask, k) = LaidAt(b, ModelTexts(b), q, k)
      /\ LaidAt(u, ModelTexts(u), mask, n + 1) = new
  BY DEF LaidMore
<1> HIDE DEF u, x
<1>4. /\ y \in Seq(Seq(S)) /\ Len(y) = n + 1
      /\ \A k \in 1..n + 1 : y[k] = LaidAt(u, ModelTexts(u), mask, k)
  <2>1. /\ y \in Seq(Seq(S)) /\ Len(y) = Len(u)
        /\ \A k \in 1..Len(u) : y[k] = LaidAt(u, ModelTexts(u), mask, k)
    BY <1>1, LaidType
  <2>2. QED
    BY <1>1, <2>1
<1> HIDE DEF n, y
<1>5. new \in Seq(S)
  <2>1. n + 1 \in 1..Len(y)
    BY <1>1, <1>4
  <2>2. y[n + 1] \in Seq(S)
    BY <1>4, <2>1, ElementOfSeq
  <2>3. y[n + 1] = new
    BY <1>1, <1>3, <1>4
  <2>4. QED
    BY <2>2, <2>3
<1>6. /\ z \in Seq(Seq(S)) /\ Len(z) = n + 1 /\ z[n + 1] = new
      /\ \A k \in 1..n : z[k] = x[k]
  BY <1>2, <1>5, AppendProperties
<1> HIDE DEF z
<1>7. ASSUME NEW k \in 1..Len(y) PROVE y[k] = z[k]
  <2>1. CASE k = n + 1
    BY <1>1, <1>3, <1>4, <1>6, <2>1
  <2>2. CASE k # n + 1
    <3>1. k \in 1..n /\ k \in 1..n + 1
      BY <1>1, <1>4, <2>2
    <3>2. QED
      BY <1>2, <1>3, <1>4, <1>6, <3>1
  <2>3. QED
    BY <2>1, <2>2
<1>8. y = z
  <2>1. y \in Seq(Seq(S)) /\ z \in Seq(Seq(S)) /\ Len(y) = Len(z)
    BY <1>4, <1>6
  <2>2. QED
    BY <1>7, <2>1, SeqEqual
<1>9. FlattenSeq(Append(x, new)) = FlattenSeq(x) \o new
  BY <1>2, <1>5, FlattenAppend
<1>10. FlattenSeq(y) = FlattenSeq(x) \o new
  BY <1>8, <1>9, Zenon DEF z
<1>11. QED
  BY <1>10 DEF y, x, u

\* The same place in longer lists.
LEMMA SamePlace ==
    ASSUME NEW S, NEW b \in Seq(Texts(S)), NEW m \in Texts(S),
           NEW k \in 1..Len(b), b[k].role = "assistant"
    PROVE  LET u == Append(b, m)
               place == Len(ModelTexts(b)) + 1 - FromTheBack(b, k)
           IN  /\ place \in 1..Len(ModelTexts(b))
               /\ Len(ModelTexts(u)) + 1 - FromTheBack(u, k) = place
               /\ ModelTexts(u)[place] = ModelTexts(b)[place]
<1> DEFINE u == Append(b, m)
           before == ModelTexts(b)
           texts == ModelTexts(u)
           c == m.content
           f == FromTheBack(b, k)
           g == FromTheBack(u, k)
           old == Len(before)
           all == Len(texts)
           more == IF m.role = "assistant" THEN 1 ELSE 0
           place == old + 1 - f
<1>1. before \in Seq(Seq(S)) /\ c \in Seq(S)
  BY ContentsType, MessageFields
<1>2. texts = IF m.role = "assistant" THEN Append(before, c) ELSE before
  BY ContentsAppend
<1>3. k \in 1..Len(b) + 1
  BY LenProperties
<1>4. f \in Nat /\ g = f + more
  BY <1>3, BackOfAppend
<1>5. f \in 1..old
  BY FromTheBackFinds DEF Found
<1> HIDE DEF before, texts, c, f, g
<1>6. /\ Len(Append(before, c)) = old + 1 /\ old \in Nat
      /\ \A i \in 1..old : Append(before, c)[i] = before[i]
  BY <1>1, AppendProperties, LenProperties
<1>7. all = old + more /\ more \in {0, 1}
  BY <1>2, <1>6
<1> HIDE DEF old, all, more
<1>8. place \in 1..old /\ all + 1 - g = place
  BY <1>4, <1>5, <1>6, <1>7
<1> HIDE DEF place
<1>9. texts[place] = before[place]
  BY <1>2, <1>6, <1>8
<1>10. QED
  BY <1>8, <1>9 DEF place, all, old, g, f, texts, before, u

\* Message by message the masks select what they select of all ids.
LEMMA LaidIsMasked ==
    ASSUME NEW S, NEW w \in Seq(Texts(S)), NEW mask \in Seq(Seq(BOOLEAN)),
           SameLengths(ModelTexts(w), mask)
    PROVE  FlattenSeq(Laid(w, ModelTexts(w), mask)) = Masked(ModelTexts(w), mask)
<1> DEFINE Fits(b) == \A q \in Seq(Seq(BOOLEAN)) : SameLengths(ModelTexts(b), q) =>
                FlattenSeq(Laid(b, ModelTexts(b), q)) = Masked(ModelTexts(b), q)
           T == {b \in Seq(Texts(S)) : Fits(b)}
<1>1. <<>> \in T
  <2> DEFINE none == <<>>
  <2>1. none \in Seq(Texts(S)) /\ Len(none) = 0
    BY EmptySeq
  <2>2. ASSUME NEW q \in Seq(Seq(BOOLEAN)), SameLengths(ModelTexts(none), q)
        PROVE  FlattenSeq(Laid(none, ModelTexts(none), q)) = Masked(ModelTexts(none), q)
    <3> DEFINE laid == Laid(none, ModelTexts(none), q)
               texts == ModelTexts(none)
    <3>0. none = <<>>
      OBVIOUS
    <3> HIDE DEF none
    <3>1. laid \in Seq(Seq(S)) /\ Len(laid) = 0
      BY <2>1, LaidType
    <3>2. FlattenSeq(laid) = <<>>
      <4> HIDE DEF laid
      <4>1. QED
        BY <3>1, FlattenNone
    <3>3. Contents(none) \in Seq(Seq(S)) /\ Len(Contents(none)) = 0
      BY <2>1, ContentsType
    <3>4. Contents(none) = <<>>
      BY <3>3, FlattenNone
    <3>5. texts = <<>>
      BY <3>4, SelectedNone DEF ModelTexts
    <3> HIDE DEF texts
    <3>6. FlattenSeq(texts) = <<>>
      <4>1. texts \in Seq(Seq(S)) /\ Len(texts) = 0
        BY <3>5, EmptySeq
      <4>2. QED
        BY <4>1, FlattenNone
    <3>7. Masked(texts, q) = <<>>
      BY <3>6, SelectedNone DEF Masked
    <3>8. QED
      BY <3>2, <3>7 DEF laid, texts
  <2>3. none \in T
    <3>1. Fits(none)
      BY <2>2
    <3> HIDE DEF Fits, none
    <3>2. QED
      BY <2>1, <3>1
  <2>4. QED
    BY <2>3
<1>2. ASSUME NEW b \in Seq(Texts(S)), NEW m \in Texts(S), b \in T
      PROVE  Append(b, m) \in T
  <2> DEFINE n == Len(b)
             u == Append(b, m)
             before == ModelTexts(b)
             texts == ModelTexts(u)
             c == m.content
  <2>1. /\ u \in Seq(Texts(S)) /\ Len(u) = n + 1 /\ n \in Nat /\ u[n + 1] = m
        /\ \A k \in 1..n : u[k] = b[k]
    BY AppendProperties, LenProperties
  <2>2. Fits(b)
    BY <1>2
  <2> HIDE DEF T
  <2>3. before \in Seq(Seq(S)) /\ c \in Seq(S)
    BY ContentsType, MessageFields
  <2>4. texts = IF m.role = "assistant" THEN Append(before, c) ELSE before
    BY ContentsAppend
  <2>5. FromTheBack(u, n + 1) = IF m.role = "assistant" THEN 1 ELSE 0
    <3>1. n + 1 \in 1..n + 1
      BY <2>1
    <3>2. FromTheBack(b, n + 1) = 0 /\ FromTheBack(u, n + 1)
            = FromTheBack(b, n + 1) + IF m.role = "assistant" THEN 1 ELSE 0
      BY <3>1, BackOfAppend
    <3>3. QED
      BY <3>2
  <2>6. ASSUME NEW k \in 1..n, b[k].role = "assistant"
        PROVE  LET place == Len(before) + 1 - FromTheBack(b, k)
               IN  /\ place \in 1..Len(before)
                   /\ Len(texts) + 1 - FromTheBack(u, k) = place
                   /\ texts[place] = before[place]
    BY <2>6, SamePlace
  <2>7. Len(before) \in Nat
    BY <2>3, LenProperties
  <2>8. ASSUME NEW q \in Seq(Seq(BOOLEAN)), SameLengths(texts, q)
        PROVE  FlattenSeq(Laid(u, texts, q)) = Masked(texts, q)
    <3>1. CASE m.role # "assistant"
      <4>1. texts = before
        BY <2>4, <3>1
      <4>2. ASSUME NEW k \in 1..n PROVE LaidAt(u, texts, q, k) = LaidAt(b, before, q, k)
        <5>1. u[k] = b[k]
          BY <2>1
        <5>2. CASE b[k].role # "assistant"
          BY <5>1, <5>2 DEF LaidAt
        <5>3. CASE b[k].role = "assistant"
          <6>1. Len(texts) + 1 - FromTheBack(u, k) = Len(before) + 1 - FromTheBack(b, k)
            BY <2>6, <5>3
          <6> HIDE DEF u, texts, before
          <6>2. QED
            BY <4>1, <5>1, <6>1, Zenon DEF LaidAt
        <5>4. QED
          BY <5>2, <5>3
      <4>3. LaidAt(u, texts, q, n + 1) = <<>>
        BY <2>1, <3>1 DEF LaidAt
      <4>4. FlattenSeq(Laid(u, texts, q)) = FlattenSeq(Laid(b, before, q)) \o <<>>
        <5> DEFINE none == <<>>
        <5>1. LaidMore(b, m, q, q, none)
          BY <4>2, <4>3 DEF LaidMore
        <5> HIDE DEF none
        <5>2. FlattenSeq(Laid(u, texts, q)) = FlattenSeq(Laid(b, before, q)) \o none
          BY <5>1, LaidAppend
        <5>3. QED
          BY <5>2 DEF none
      <4>5. Laid(b, before, q) \in Seq(Seq(S))
        BY LaidType
      <4>6. FlattenSeq(Laid(b, before, q)) = Masked(before, q)
        <5>1. SameLengths(before, q)
          BY <2>8, <4>1
        <5>2. QED
          BY <2>2, <5>1
      <4>7. Masked(before, q) \in Seq(S)
        <5>1. FlattenSeq(before) \in Seq(S)
          <6> HIDE DEF before
          <6>1. \E e \in Seq(S) : TRUE
            BY EmptySeq
          <6>2. QED
            BY <2>3, <6>1, FlattenAppend
        <5>2. QED
          BY <5>1, KeptType DEF Masked
      <4> HIDE DEF u, texts, before
      <4>8. Masked(before, q) \o <<>> = Masked(before, q)
        BY <4>7, ConcatEmptySeq
      <4>9. QED
        BY <4>1, <4>4, <4>6, <4>8
    <3>2. CASE m.role = "assistant"
      <4>1. texts = Append(before, c)
        BY <2>4, <3>2
      <4>2. PICK p \in Seq(Seq(BOOLEAN)), e \in Seq(BOOLEAN) :
                q = Append(p, e) /\ SameLengths(before, p) /\ Len(c) = Len(e)
        <5>1. SameLengths(Append(before, c), q)
          BY <2>8, <4>1
        <5> HIDE DEF before, c, texts
        <5>2. QED
          BY <2>3, <5>1, SameLengthsSplit
      <4>3. /\ Len(p) = Len(before) /\ q[Len(before) + 1] = e
            /\ \A i \in 1..Len(before) : q[i] = p[i]
        <5>1. Len(p) = Len(before)
          BY <4>2 DEF SameLengths
        <5> HIDE DEF before
        <5>2. Append(p, e)[Len(p) + 1] = e /\ \A i \in 1..Len(p) : Append(p, e)[i] = p[i]
          BY AppendProperties
        <5>3. QED
          BY <4>2, <5>1, <5>2
      <4>4. ASSUME NEW k \in 1..n PROVE LaidAt(u, texts, q, k) = LaidAt(b, before, p, k)
        <5>1. u[k] = b[k]
          BY <2>1
        <5>2. CASE b[k].role # "assistant"
          BY <5>1, <5>2 DEF LaidAt
        <5>3. CASE b[k].role = "assistant"
          <6> DEFINE i == Len(before) + 1 - FromTheBack(b, k)
          <6>1. /\ i \in 1..Len(before)
                /\ Len(texts) + 1 - FromTheBack(u, k) = i
                /\ texts[i] = before[i]
            BY <2>6, <5>3
          <6>2. LaidAt(b, before, p, k) = Selected(before[i], p[i])
            BY <5>3, Zenon DEF LaidAt
          <6> HIDE DEF u, texts, before, i
          <6>3. q[i] = p[i]
            BY <4>3, <6>1
          <6>4. LaidAt(u, texts, q, k) = Selected(texts[i], q[i])
            BY <5>1, <5>3, <6>1, Zenon DEF LaidAt
          <6>5. QED
            BY <6>1, <6>2, <6>3, <6>4, Zenon
        <5>4. QED
          BY <5>2, <5>3
      <4>5. LaidAt(u, texts, q, n + 1) = Selected(c, e)
        <5>1. u[n + 1].role = "assistant" /\ FromTheBack(u, n + 1) = 1
          BY <2>1, <2>5, <3>2
        <5> HIDE DEF u, before, c, texts, n
        <5>2. Len(texts) = Len(before) + 1 /\ texts[Len(before) + 1] = c
          BY <2>3, <4>1, AppendProperties
        <5> DEFINE i == Len(before) + 1
        <5>3. Len(texts) + 1 - FromTheBack(u, n + 1) = i
          BY <2>7, <5>1, <5>2
        <5>4. texts[i] = c /\ q[i] = e
          BY <4>3, <5>2
        <5> HIDE DEF i
        <5>5. QED
          BY <5>1, <5>3, <5>4, Zenon DEF LaidAt
      <4>6. FlattenSeq(Laid(u, texts, q)) = FlattenSeq(Laid(b, before, p)) \o Selected(c, e)
        <5>1. LaidMore(b, m, q, p, Selected(c, e))
          BY <4>4, <4>5 DEF LaidMore
        <5>2. QED
          BY <5>1, LaidAppend
      <4>7. FlattenSeq(Laid(b, before, p)) = Masked(before, p)
        BY <2>2, <4>2
      <4> HIDE DEF u, before, c, texts
      <4>8. Masked(Append(before, c), Append(p, e)) = Masked(before, p) \o Selected(c, e)
        BY <2>3, <4>2, MaskedAppend
      <4>9. QED
        BY <4>1, <4>2, <4>6, <4>7, <4>8
    <3>3. QED
      BY <3>1, <3>2
  <2>9. Fits(u)
    BY <2>8
  <2> HIDE DEF Fits
  <2>10. QED
    BY <2>1, <2>9 DEF T, u
<1> HIDE DEF T
<1>3. w \in T
  BY <1>1, <1>2, SeqInduction
<1>4. QED
  BY <1>3 DEF T

-----------------------------------------------------------------------------
(* A dialogue's end.                                                        *)

\* What LosesLastTurn says of an end in turn t.
Loses(s, t) ==
    /\ ~s.colocate /\ t > 1
    /\ ~s.scheduler[t - 1].continues
    /\ \E style \in StepsBefore(s, t) : style.ids

\* The first part that is tracked.
LEMMA TrackNone ==
    ASSUME NEW S, NEW new \in Seq(S), NEW continues
    PROVE  Track(<<>>, new, continues) = <<new>>
<1> DEFINE none == <<>>
<1>1. none \in Seq(Seq(S)) /\ none = <<>>
  BY EmptySeq
<1> HIDE DEF none
<1>2. Append(none, new) = none \o <<new>> /\ <<new>> \in Seq(Seq(S))
  BY <1>1, AppendIsConcat
<1>3. none \o <<new>> = <<new>>
  BY <1>1, <1>2, ConcatEmptySeq
<1>4. Track(none, new, continues) = Append(none, new)
  BY <1>1 DEF Track
<1>5. QED
  BY <1>1, <1>2, <1>3, <1>4

\* What is kept at the end of a dialogue whose last turn is not lost.
LastParts(q, last, b, a) ==
    /\ last.ids = Track(q.ids, a, Continued(b))
    /\ SameLengths(q.ids, q.mask) => last.mask = Track(q.mask, Ones(a), Continued(b))
    /\ q.ids # <<>> /\ Continued(b) /\ q.mask = <<>> => last.mask = <<>>
    /\ last.logprobs = IF ~setup.logprobs THEN <<>>
                       ELSE IF q.ids = <<>> THEN <<a>>
                       ELSE Track(q.logprobs, a, Continued(b))

\* What is known of a dialogue's request when it has ended.
LEMMA EndParts ==
    ASSUME setup \in Setups, NEW t \in 1..setup.maxTurns, NEW d \in DialoguesOf(setup),
           NEW q, Talk(setup, q, d, t), NEW a, IsAnswer(setup, a, d, t)
    PROVE  LET last == KeepLastTurn(TakeAnswer(q, a), a)
               b == SpokenOf(q.messages)
               S == TokensIn(setup)
           IN  /\ last \in Requests(S)
               /\ last.messages = Say(b, a)
               /\ last.messages \in Seq(Texts(S)) /\ Continued(last.messages)
               /\ ~Loses(setup, t) => LastParts(q, last, b, a)
<1> DEFINE s == setup
           S == TokensIn(s)
           b == SpokenOf(q.messages)
           last == KeepLastTurn(TakeAnswer(q, a), a)
           firstIds == q.ids = <<>>
           on == Continued(b)
           goesOn == on /\ ~firstIds
           ones == Ones(a)
           gained == LogprobsOf(a)
<1>1. /\ q \in Requests(S) /\ q.messages = Open(b) /\ b \in Seq(Texts(S)) /\ b # <<>>
      /\ Continued(b) <=> t > 1 /\ s.scheduler[t - 1].continues
      /\ IdsInv(s, q, b, t) /\ LogprobsInv(s, q, t)
  BY DEF Talk
<1>2. t \in Nat \ {0} /\ s.logprobs \in BOOLEAN /\ s.colocate \in BOOLEAN
  BY SetupFacts
<1>3. None \notin Seq(S) /\ a \in Seq(S) /\ a # <<>>
  BY TokensAre, AnswerFacts
<1>4. on \in BOOLEAN /\ firstIds \in BOOLEAN
  BY DEF Continued
<1>5. /\ q.ids \in Seq(Seq(S)) /\ q.mask \in Seq(Seq(BOOLEAN)) /\ q.logprobs \in Seq(Seq(S))
  BY <1>1 DEF Requests
<1>6. ones \in Seq(BOOLEAN) /\ ones # <<>>
  <2>1. ones \in Seq(BOOLEAN) /\ Len(ones) = Len(a)
    BY <1>3, OnesIs
  <2>2. Len(a) # 0
    BY <1>3, EmptySeq
  <2> HIDE DEF ones
  <2>3. QED
    BY <2>1, <2>2, EmptySeq
<1>7. gained = IF s.logprobs THEN a ELSE <<>>
  BY DEF LogprobsOf
<1> HIDE DEF S, b
<1>8. /\ last \in Requests(S)
      /\ last.messages = Say(b, a)
      /\ last.ids = LastKept(q.ids, a, firstIds, goesOn)
      /\ last.mask = LastKept(q.mask, ones, firstIds, goesOn)
      /\ last.logprobs = LastKept(q.logprobs, gained, firstIds, goesOn)
  <2>1. setup.colocate \in BOOLEAN
    BY <1>2 DEF s
  <2>2. LET l == KeepLastTurn(TakeAnswer(q, a), a)
            f == q.ids = <<>>
            g == Continued(b) /\ ~f
        IN  /\ l \in Requests(S)
            /\ l.messages = Say(b, a)
            /\ l.ids = LastKept(q.ids, a, f, g)
            /\ l.mask = LastKept(q.mask, Ones(a), f, g)
            /\ l.logprobs = LastKept(q.logprobs, LogprobsOf(a), f, g)
    BY <1>1, <1>3, <2>1, KeepLastIs
  <2>3. QED
    BY <2>2, Zenon
<1>9. Say(b, a) \in Seq(Texts(S)) /\ Continued(Say(b, a))
  BY <1>1, <1>3, SayProperties
<1>11. goesOn = (on /\ ~firstIds)
  OBVIOUS
<1> HIDE DEF last, ones, gained
<1>10. ASSUME ~Loses(s, t) PROVE LastParts(q, last, b, a)
  <2>1. ~firstIds => t > 1 /\ (on \/ s.colocate)
    <3>1. ASSUME ~firstIds PROVE t > 1 /\ (on \/ s.colocate)
      <4>1. \E style \in StepsBefore(s, t) : style.ids
        <5>1. (\A style \in StepsBefore(s, t) : ~style.ids) => q.ids = <<>>
          BY <1>1 DEF IdsInv
        <5>2. QED
          BY <3>1, <5>1
      <4>2. t > 1
        BY <1>2, <4>1 DEF StepsBefore
      <4>3. QED
        BY <1>1, <1>10, <4>1, <4>2 DEF Loses
    <3>2. QED
      BY <3>1
  <2>2. /\ a # <<>> /\ firstIds => last.ids = <<a>>
        /\ a # <<>> /\ ~firstIds /\ q.ids # <<>> /\ (on \/ s.colocate)
                => last.ids = Track(q.ids, a, on)
    <3>1. KeptWell(LastKept(q.ids, a, firstIds, goesOn), q.ids, a, firstIds, on)
      <4> HIDE DEF on, firstIds, goesOn
      <4>1. setup.colocate \in BOOLEAN
        BY <1>2
      <4>2. QED
        BY <1>3, <1>5, <1>11, <4>1, LastKeptIs
    <3>2. KeptWell(last.ids, q.ids, a, firstIds, on)
      BY <1>8, <3>1, Zenon
    <3>3. QED
      BY <3>2, Zenon DEF KeptWell, s
  <2>3. /\ ones # <<>> /\ firstIds => last.mask = <<ones>>
        /\ ones # <<>> /\ ~firstIds /\ on /\ q.mask = <<>> => last.mask = q.mask
        /\ ones # <<>> /\ ~firstIds /\ q.mask # <<>> /\ (on \/ s.colocate)
                => last.mask = Track(q.mask, ones, on)
    <3>1. KeptWell(LastKept(q.mask, ones, firstIds, goesOn), q.mask, ones, firstIds, on)
      <4> HIDE DEF on, firstIds, goesOn
      <4>1. setup.colocate \in BOOLEAN
        BY <1>2
      <4> DEFINE B == BOOLEAN
      <4>2. q.mask \in Seq(Seq(B)) /\ ones \in Seq(B)
        BY <1>5, <1>6
      <4> HIDE DEF B
      <4>3. QED
        BY <1>11, <4>1, <4>2, LastKeptIs
    <3>2. KeptWell(last.mask, q.mask, ones, firstIds, on)
      BY <1>8, <3>1, Zenon
    <3>3. QED
      BY <3>2, Zenon DEF KeptWell, s
  <2>4. /\ gained = <<>> => last.logprobs = q.logprobs
        /\ gained # <<>> /\ firstIds => last.logprobs = <<gained>>
        /\ gained # <<>> /\ ~firstIds /\ q.logprobs # <<>> /\ (on \/ s.colocate)
                => last.logprobs = Track(q.logprobs, gained, on)
    <3>1. KeptWell(LastKept(q.logprobs, gained, firstIds, goesOn),
                   q.logprobs, gained, firstIds, on)
      <4> HIDE DEF on, firstIds, goesOn
      <4>1. setup.colocate \in BOOLEAN /\ gained \in Seq(S)
        <5>1. <<>> \in Seq(S)
          BY EmptySeq
        <5>2. QED
          BY <1>2, <1>3, <1>7, <5>1
      <4>2. QED
        BY <1>5, <1>11, <4>1, LastKeptIs
    <3>2. KeptWell(last.logprobs, q.logprobs, gained, firstIds, on)
      BY <1>8, <3>1, Zenon
    <3>3. QED
      BY <3>2, Zenon DEF KeptWell, s
  <2>5. Track(<<>>, a, on) = <<a>>
    BY <1>3, TrackNone
  <2>6. Track(<<>>, ones, on) = <<ones>>
    BY <1>6, TrackNone
  <2>7. last.ids = Track(q.ids, a, on)
    BY <1>3, <2>1, <2>2, <2>5
  <2>8. SameLengths(q.ids, q.mask) => last.mask = Track(q.mask, ones, on)
    <3>1. ASSUME SameLengths(q.ids, q.mask) PROVE q.ids = <<>> <=> q.mask = <<>>
      <4>1. Len(q.ids) = Len(q.mask)
        BY <3>1 DEF SameLengths
      <4>2. (q.ids = <<>> <=> Len(q.ids) = 0) /\ (q.mask = <<>> <=> Len(q.mask) = 0)
        BY <1>5, EmptySeq
      <4>3. QED
        BY <4>1, <4>2
    <3>2. QED
      BY <1>6, <2>1, <2>3, <2>6, <3>1
  <2>9. q.ids # <<>> /\ on /\ q.mask = <<>> => last.mask = <<>>
    BY <1>6, <2>3
  <2>10. last.logprobs = IF ~s.logprobs THEN <<>>
                         ELSE IF firstIds THEN <<a>> ELSE Track(q.logprobs, a, on)
    <3>1. /\ ~s.logprobs => q.logprobs = <<>>
          /\ s.logprobs /\ t > 1 => q.logprobs # <<>>
      BY <1>1 DEF LogprobsInv
    <3>2. CASE ~s.logprobs
      BY <1>7, <2>4, <3>1, <3>2
    <3>3. CASE s.logprobs
      BY <1>3, <1>7, <2>1, <2>4, <3>1, <3>3
    <3>4. QED
      BY <3>2, <3>3
  <2>11. QED
    BY <2>7, <2>8, <2>9, <2>10 DEF LastParts, ones
<1>12. QED
  BY <1>8, <1>9, <1>10 DEF last, b, S

\* What the invariants say of one result.
Said(out) == FlattenSeq([k \in DOMAIN out.messages |-> out.messages[k].content])
OwnResult(out, d) == out.turns <= setup.maxTurns /\ OwnText(Said(out), d, out.turns)
TrainsResult(out) ==
    Regular(out) /\ ~LosesLastTurn(out) =>
        /\ IdsReplaceable(out)
        /\ \A k \in DOMAIN out.messages : TokensOf(out, k) = out.messages[k].content
LogprobsResult(out) ==
    /\ UsesLogprobs(out)
    /\ ~LosesLastTurn(out)
    /\ \A style \in StepsTaken(out) : style.ids => style.mask
    => FlattenSeq(MergedLogprobs(out)) = CompletionTokens(out)

\* The fields of a result.
LEMMA OutputIs ==
    ASSUME NEW last, NEW a, NEW t
    PROVE  LET out == RolloutOutput(last, a, t)
           IN  /\ out.turns = t /\ out.messages = last.messages
               /\ out.ids = last.ids /\ out.mask = last.mask
               /\ out.logprobs = CompleteLogprobs(last)
               /\ out.lastLogprobs = LogprobsOf(a)
               /\ StepsTaken(out) = StepsBefore(setup, t)
               /\ LosesLastTurn(out) <=> Loses(setup, t)
<1> DEFINE out == RolloutOutput(last, a, t)
           kept == CompleteLogprobs(last)
           own == LogprobsOf(a)
<1> HIDE DEF kept, own
<1>1. out = [turns |-> t, messages |-> last.messages, ids |-> last.ids,
             mask |-> last.mask, logprobs |-> kept, lastLogprobs |-> own]
  BY Zenon DEF RolloutOutput, kept, own
<1> HIDE DEF out
<1>2. /\ out.turns = t /\ out.messages = last.messages
      /\ out.ids = last.ids /\ out.mask = last.mask
      /\ out.logprobs = kept /\ out.lastLogprobs = own
  BY <1>1
<1>3. StepsTaken(out) = StepsBefore(setup, t)
  BY <1>2, Zenon DEF StepsTaken, StepsBefore
<1>4. LosesLastTurn(out) <=> Loses(setup, t)
  BY <1>2, <1>3, Zenon DEF LosesLastTurn, Loses
<1>5. QED
  BY <1>2, <1>3, <1>4, Zenon DEF out, kept, own

\* A dialogue that ends in turn t, with the result out.
Ends(q, a, d, t, last, out) ==
    /\ setup \in Setups /\ t \in 1..setup.maxTurns /\ d \in DialoguesOf(setup)
    /\ Talk(setup, q, d, t) /\ IsAnswer(setup, a, d, t)
    /\ last = KeepLastTurn(TakeAnswer(q, a), a) /\ out = RolloutOutput(last, a, t)

\* What is known of it.
LEMMA EndsFacts ==
    ASSUME NEW q, NEW a, NEW d, NEW t, NEW last, NEW out, Ends(q, a, d, t, last, out)
    PROVE  LET b == SpokenOf(q.messages)
               S == TokensIn(setup)
               w == Say(b, a)
           IN  /\ last \in Requests(S) /\ last.messages = w /\ w \in Seq(Texts(S))
               /\ Continued(w)
               /\ b \in Seq(Texts(S)) /\ b # <<>> /\ q \in Requests(S)
               /\ a \in Seq(S) /\ a # <<>>
               /\ ~Loses(setup, t) => LastParts(q, last, b, a)
               /\ out.turns = t /\ out.messages = w
               /\ out.ids = last.ids /\ out.mask = last.mask
               /\ out.logprobs = CompleteLogprobs(last)
               /\ out.lastLogprobs = LogprobsOf(a)
               /\ StepsTaken(out) = StepsBefore(setup, t)
               /\ LosesLastTurn(out) <=> Loses(setup, t)
<1> DEFINE b == SpokenOf(q.messages)
           S == TokensIn(setup)
           w == Say(b, a)
<1>1. /\ setup \in Setups /\ t \in 1..setup.maxTurns /\ d \in DialoguesOf(setup)
      /\ Talk(setup, q, d, t) /\ IsAnswer(setup, a, d, t)
      /\ last = KeepLastTurn(TakeAnswer(q, a), a) /\ out = RolloutOutput(last, a, t)
  BY DEF Ends
<1>2. b \in Seq(Texts(S)) /\ b # <<>> /\ q \in Requests(S)
  BY <1>1 DEF Talk
<1>3. a \in Seq(S) /\ a # <<>>
  BY <1>1, AnswerFacts
<1>4. LET l == KeepLastTurn(TakeAnswer(q, a), a)
      IN  /\ l \in Requests(S)
          /\ l.messages = w
          /\ l.messages \in Seq(Texts(S)) /\ Continued(l.messages)
          /\ ~Loses(setup, t) => LastParts(q, l, b, a)
  BY <1>1, EndParts
<1>5. /\ last \in Requests(S) /\ last.messages = w
      /\ last.messages \in Seq(Texts(S)) /\ Continued(last.messages)
      /\ ~Loses(setup, t) => LastParts(q, last, b, a)
  BY <1>1, <1>4, Zenon
<1>6. /\ out.turns = t /\ out.messages = last.messages
      /\ out.ids = last.ids /\ out.mask = last.mask
      /\ out.logprobs = CompleteLogprobs(last)
      /\ out.lastLogprobs = LogprobsOf(a)
      /\ StepsTaken(out) = StepsBefore(setup, t)
      /\ LosesLastTurn(out) <=> Loses(setup, t)
  <2>1. LET o == RolloutOutput(last, a, t)
        IN  /\ o.turns = t /\ o.messages = last.messages
            /\ o.ids = last.ids /\ o.mask = last.mask
            /\ o.logprobs = CompleteLogprobs(last)
            /\ o.lastLogprobs = LogprobsOf(a)
            /\ StepsTaken(o) = StepsBefore(setup, t)
            /\ LosesLastTurn(o) <=> Loses(setup, t)
    BY OutputIs
  <2>2. QED
    BY <1>1, <2>1, Zenon
<1> HIDE DEF b, S, w
<1>7. QED
  BY <1>2, <1>3, <1>5, <1>6 DEF b, S, w

\* Its messages say what was answered to it, turn after turn.
LEMMA EndsWithOwnTurns ==
    ASSUME NEW q, NEW a, NEW d, NEW t, NEW last, NEW out, Ends(q, a, d, t, last, out)
    PROVE  OwnResult(out, d)
<1> DEFINE b == SpokenOf(q.messages)
           S == TokensIn(setup)
           w == Say(b, a)
<1>1. /\ setup \in Setups /\ t \in 1..setup.maxTurns /\ d \in DialoguesOf(setup)
      /\ Talk(setup, q, d, t) /\ IsAnswer(setup, a, d, t)
  BY DEF Ends
<1>2. /\ b \in Seq(Texts(S)) /\ b # <<>> /\ a \in Seq(S) /\ out.turns = t /\ out.messages = w
  <2> HIDE DEF w
  <2>1. QED
    BY EndsFacts DEF w
<1>3. SaidInTurn(a, d, t)
  BY <1>1, AnswerFacts
<1>4. setup.maxTurns \in Nat \ {0} /\ \A x \in S : x.turn \in Nat
  BY <1>1, SetupFacts, TokensAre
<1>5. OwnText(Text(b), d, t - 1)
  BY <1>1 DEF Talk
<1> DEFINE n == t - 1
           text == Text(b)
<1>6. n \in Nat /\ n + 1 = t
  BY <1>1, <1>4
<1>7. text \in Seq(S) /\ Text(w) = text \o a
  <2>1. Text(Say(b, a)) = Text(b) \o a
    BY <1>2, SayProperties
  <2>2. QED
    BY <1>2, <2>1, ContentsType
<1> HIDE DEF n, text, S, b
<1>8. OwnText(text \o a, d, n + 1)
  <2>1. OwnText(text, d, n) /\ SaidInTurn(a, d, n + 1)
    BY <1>3, <1>5, <1>6 DEF n, text
  <2>2. QED
    BY <1>2, <1>4, <1>6, <1>7, <2>1, OwnTextGrows
<1>9. OwnText(Text(w), d, t)
  BY <1>6, <1>7, <1>8, Zenon
<1>10. Said(out) = Text(w)
  <2> HIDE DEF w
  <2>1. QED
    BY <1>2, Zenon DEF Said, Text, Contents
<1>11. t <= setup.maxTurns
  BY <1>1, <1>4
<1>12. OwnText(Said(out), d, t)
  BY <1>9, <1>10, Zenon
<1>13. QED
  BY <1>2, <1>11, <1>12, Zenon DEF OwnResult

\* Its ids come to stand for what its messages say.
LEMMA EndsTrainingWhatWasSaid ==
    ASSUME NEW q, NEW a, NEW d, NEW t, NEW last, NEW out, Ends(q, a, d, t, last, out)
    PROVE  TrainsResult(out)
<1> SUFFICES ASSUME Regular(out), ~LosesLastTurn(out)
             PROVE  /\ IdsReplaceable(out)
                    /\ \A k \in DOMAIN out.messages : TokensOf(out, k) = out.messages[k].content
  BY DEF TrainsResult
<1> DEFINE b == SpokenOf(q.messages)
           S == TokensIn(setup)
           w == Say(b, a)
           on == Continued(b)
           steps == StepsBefore(setup, t)
           ones == Ones(a)
           texts == ModelTexts(b)
<1>1. /\ setup \in Setups /\ t \in 1..setup.maxTurns /\ Talk(setup, q, d, t)
  BY DEF Ends
<1>2. /\ last \in Requests(S) /\ w \in Seq(Texts(S)) /\ b \in Seq(Texts(S)) /\ b # <<>>
      /\ q \in Requests(S) /\ a \in Seq(S) /\ out.messages = w
      /\ out.ids = last.ids /\ out.mask = last.mask /\ StepsTaken(out) = steps
      /\ ~Loses(setup, t) => LastParts(q, last, b, a)
      /\ LosesLastTurn(out) <=> Loses(setup, t)
  <2> HIDE DEF w, b, S, steps
  <2>1. QED
    BY EndsFacts DEF w, b, S, steps
<1>3. (on <=> t > 1 /\ setup.scheduler[t - 1].continues) /\ IdsInv(setup, q, b, t)
  BY <1>1 DEF Talk
<1>4. t \in Nat \ {0}
  BY <1>1, SetupFacts
<1>5. /\ q.ids \in Seq(Seq(S)) /\ q.mask \in Seq(Seq(BOOLEAN)) /\ last.ids \in Seq(Seq(S))
  BY <1>2 DEF Requests
<1>6. t > 1 => setup.scheduler[t - 1] \in steps
  BY <1>4 DEF StepsBefore
<1>7. t = 1 => steps = {}
  BY <1>4 DEF StepsBefore
<1>8. /\ (\A style \in steps : style.ids) => q.ids = texts
      /\ (\A style \in steps : ~style.ids) => q.ids = <<>>
      /\ (\A style \in steps : style.ids => style.mask) => SameLengths(q.ids, q.mask)
      /\ (\A style \in steps : ~style.mask) => q.mask = <<>>
  BY <1>3 DEF IdsInv
<1>9. /\ texts \in Seq(Seq(S)) /\ (on => texts # <<>>)
      /\ ModelTexts(w) = Track(texts, a, on)
  <2>1. /\ Continued(b) => ModelTexts(b) # <<>>
        /\ ModelTexts(Say(b, a)) = Track(ModelTexts(b), a, Continued(b))
    <3> HIDE DEF b, S
    <3>1. QED
      BY <1>2, SayProperties
  <2>2. ModelTexts(b) \in Seq(Seq(S))
    <3> HIDE DEF b, S
    <3>1. QED
      BY <1>2, ContentsType
  <2>3. QED
    BY <2>1, <2>2
<1>10. ones \in Seq(BOOLEAN) /\ Len(a) = Len(ones)
  <2> HIDE DEF S
  <2>1. QED
    BY <1>2, OnesIs
<1>11. /\ out.ids = Track(q.ids, a, on)
       /\ SameLengths(q.ids, q.mask) => out.mask = Track(q.mask, ones, on)
       /\ q.ids # <<>> /\ on /\ q.mask = <<>> => out.mask = <<>>
  BY <1>2 DEF LastParts
<1>12. \/ \A style \in steps : ~style.ids /\ ~style.continues
       \/ /\ \A style \in steps : style.ids
          /\ \/ \A style \in steps : style.mask
             \/ \A style \in steps : ~style.mask /\ style.continues
  BY <1>2 DEF Regular
<1> HIDE DEF S, b, w, on, steps, ones, texts
<1>13. SameLengths(q.ids, q.mask) => SameLengths(out.ids, out.mask)
  <2>1. ASSUME SameLengths(q.ids, q.mask) PROVE SameLengths(out.ids, out.mask)
    <3> DEFINE B == BOOLEAN
    <3>1. q.mask \in Seq(Seq(B)) /\ ones \in Seq(B)
      BY <1>5, <1>10
    <3> HIDE DEF B
    <3>2. SameLengths(Track(q.ids, a, on), Track(q.mask, ones, on))
      BY <1>2, <1>5, <1>10, <2>1, <3>1, SameLengthsTrack
    <3>3. QED
      BY <1>11, <2>1, <3>2
  <2>2. QED
    BY <2>1
<1>14. IdsReplaceable(out) /\ \E first \in Seq(Seq(S)) : ModelTexts(w) = first \o out.ids
  <2>1. CASE \A style \in steps : ~style.ids /\ ~style.continues
    <3>1. q.ids = <<>> /\ SameLengths(q.ids, q.mask) /\ ~on
      BY <1>3, <1>6, <1>8, <2>1
    <3>2. out.ids = <<a>>
      <4>1. Track(<<>>, a, on) = <<a>>
        BY <1>2, TrackNone
      <4>2. QED
        BY <1>11, <3>1, <4>1
    <3>3. ModelTexts(w) = texts \o <<a>>
      <4>1. ModelTexts(w) = Append(texts, a)
        BY <1>9, <3>1 DEF Track
      <4>2. Append(texts, a) = texts \o <<a>>
        BY <1>2, <1>9, AppendIsConcat
      <4>3. QED
        BY <4>1, <4>2
    <3>4. IdsReplaceable(out)
      BY <1>13, <3>1 DEF IdsReplaceable
    <3>5. QED
      BY <1>9, <3>2, <3>3, <3>4
  <2>2. CASE /\ \A style \in steps : style.ids
             /\ \/ \A style \in steps : style.mask
                \/ \A style \in steps : ~style.mask /\ style.continues
    <3>1. q.ids = texts
      BY <1>8, <2>2
    <3>2. ModelTexts(w) = out.ids
      BY <1>9, <1>11, <3>1
    <3>3. \E first \in Seq(Seq(S)) : ModelTexts(w) = first \o out.ids
      <4> DEFINE none == <<>>
                 T == Seq(S)
      <4>1. none \in Seq(T) /\ none = <<>>
        BY EmptySeq
      <4>2. out.ids \in Seq(T)
        BY <1>2, <1>5
      <4> HIDE DEF none, T
      <4>3. none \o out.ids = out.ids
        BY <4>1, <4>2, ConcatEmptySeq
      <4>4. QED
        BY <3>2, <4>1, <4>3 DEF T
    <3>4. IdsReplaceable(out)
      <4>1. CASE (\A style \in steps : style.mask) \/ t = 1
        <5>1. SameLengths(q.ids, q.mask)
          BY <1>7, <1>8, <4>1
        <5>2. QED
          BY <1>13, <5>1 DEF IdsReplaceable
      <4>2. CASE (\A style \in steps : ~style.mask /\ style.continues) /\ t # 1
        <5>1. on /\ q.mask = <<>>
          BY <1>3, <1>4, <1>6, <1>8, <4>2
        <5>2. out.mask = <<>>
          BY <1>9, <1>11, <3>1, <5>1
        <5>3. QED
          BY <5>2 DEF IdsReplaceable
      <4>3. QED
        BY <2>2, <4>1, <4>2
    <3>5. QED
      BY <3>3, <3>4
  <2>3. QED
    BY <1>12, <2>1, <2>2
<1>15. \A k \in DOMAIN out.messages : TokensOf(out, k) = out.messages[k].content
  <2>1. PICK first \in Seq(Seq(S)) : ModelTexts(w) = first \o out.ids
    BY <1>14
  <2>2. out.messages \in Seq(Texts(S)) /\ out.ids \in Seq(Seq(S))
        /\ ModelTexts(out.messages) = first \o out.ids
    BY <1>2, <1>5, <2>1
  <2>3. QED
    BY <2>1, <2>2, IdsInPlace
<1>16. QED
  BY <1>14, <1>15

-----------------------------------------------------------------------------
(* Completion tokens, and their log-probabilities.                          *)

\* The last part of ids, under its mask, ends with the last answer.
EndsIn(S, ids, mask, a) ==
    \E x \in Seq(S) : Selected(ids[Len(ids)], mask[Len(ids)]) = x \o a

\* What is tracked last, with a mask of ones, ends the selected tokens.
LEMMA LastPartEnds ==
    ASSUME NEW S, NEW ids \in Seq(Seq(S)), NEW mask \in Seq(Seq(BOOLEAN)),
           SameLengths(ids, mask), NEW a \in Seq(S), NEW on
    PROVE  EndsIn(S, Track(ids, a, on), Track(mask, Ones(a), on), a)
<1> DEFINE ones == Ones(a)
           more == Track(ids, a, on)
           masks == Track(mask, ones, on)
           n == Len(ids)
           B == BOOLEAN
<1>1. ones \in Seq(BOOLEAN) /\ Len(ones) = Len(a) /\ Selected(a, ones) = a
  BY OnesIs, SelectedOnes
<1>2. n = Len(mask) /\ \A k \in 1..n : Len(ids[k]) = Len(mask[k])
  <2>1. DOMAIN ids = 1..n
    BY LenProperties
  <2>2. QED
    BY <2>1 DEF SameLengths
<1>3. n \in Nat /\ (ids # <<>> <=> n # 0) /\ (mask # <<>> <=> n # 0)
  BY <1>2, EmptySeq, LenProperties
<1> HIDE DEF ones, B
<1>4. mask \in Seq(Seq(B)) /\ ones \in Seq(B)
  BY <1>1 DEF B
<1>5. CASE on /\ n # 0
  <2>1. more = ExtendLast(ids, a) /\ masks = ExtendLast(mask, ones)
    BY <1>3, <1>5, Zenon DEF Track
  <2>2. /\ Len(ExtendLast(ids, a)) = n /\ ids[n] \in Seq(S)
        /\ ExtendLast(ids, a)[n] = ids[n] \o a
    BY <1>3, <1>5, ExtendProperties
  <2>3. mask[n] \in Seq(B) /\ ExtendLast(mask, ones)[n] = mask[n] \o ones
    <3>1. mask # <<>>
      BY <1>3, <1>5
    <3>2. /\ mask[Len(mask)] \in Seq(B)
          /\ ExtendLast(mask, ones)[Len(mask)] = mask[Len(mask)] \o ones
      BY <1>4, <3>1, ExtendProperties
    <3>3. QED
      BY <1>2, <3>2
  <2>4. n \in 1..n
    BY <1>3, <1>5
  <2>5. Len(ids[n]) = Len(mask[n])
    BY <1>2, <2>4
  <2> DEFINE x == ids[n]
             y == mask[n]
  <2>6. x \in Seq(S) /\ y \in Seq(BOOLEAN) /\ Len(y) = Len(x)
    BY <2>2, <2>3, <2>5 DEF B
  <2>7. more[Len(more)] = x \o a /\ masks[Len(more)] = y \o ones
    BY <2>1, <2>2, <2>3
  <2> HIDE DEF x, y, more, masks
  <2>8. Selected(x \o a, y \o ones) = Selected(x, y) \o Selected(a, ones)
    <3>1. ones \in Seq(BOOLEAN) /\ Len(ones) = Len(a)
      BY <1>1
    <3>2. QED
      BY <2>6, <3>1, SelectedConcat
  <2>9. Selected(x, y) \in Seq(S)
    BY <2>6, KeptType
  <2>10. QED
    BY <1>1, <2>7, <2>8, <2>9 DEF more, masks, ones, EndsIn
<1>6. CASE ~(on /\ n # 0)
  <2>1. more = Append(ids, a) /\ masks = Append(mask, ones)
    BY <1>3, <1>6, Zenon DEF Track
  <2>2. Len(Append(ids, a)) = n + 1 /\ Append(ids, a)[n + 1] = a
    BY AppendProperties
  <2>3. Append(mask, ones)[n + 1] = ones
    <3>1. Append(mask, ones)[Len(mask) + 1] = ones
      BY <1>4, AppendProperties
    <3>2. QED
      BY <1>2, <3>1
  <2>4. Selected(more[Len(more)], masks[Len(more)]) = a
    BY <1>1, <2>1, <2>2, <2>3
  <2> HIDE DEF more, masks
  <2>5. \E x \in Seq(S) : a = x \o a
    <3> DEFINE none == <<>>
    <3>1. none \in Seq(S) /\ none = <<>>
      BY EmptySeq
    <3> HIDE DEF none
    <3>2. none \o a = a
      BY <3>1, ConcatEmptySeq
    <3>3. QED
      BY <3>1, <3>2
  <2>6. QED
    BY <2>4, <2>5 DEF more, masks, ones, EndsIn
<1>7. QED
  BY <1>5, <1>6

\* What is trained of a message is a sequence of tokens.
LEMMA TrainedType ==
    ASSUME NEW S, NEW out, out.messages \in Seq(Texts(S)), out.ids \in Seq(Seq(S)),
           NEW k \in 1..Len(out.messages)
    PROVE  TrainedOf(out, k) \in Seq(S)
<1> DEFINE w == out.messages
           ids == out.ids
           f == FromTheBack(w, k)
           tokens == TokensOf(out, k)
           mask == out.mask[PartOf(out, k)]
<1>1. w[k] \in Texts(S)
  BY ElementOfSeq
<1>2. w[k].content \in Seq(S)
  BY <1>1, MessageFields
<1>3. Len(ids) \in Nat
  BY LenProperties
<1>4. tokens \in Seq(S)
  <2>1. CASE IsReplaced(out, k)
    <3>1. w[k].role = "assistant" /\ f <= Len(ids)
      BY <2>1 DEF IsReplaced
    <3>2. f \in 1..Len(ModelTexts(w))
      BY <3>1, FromTheBackFinds DEF Found
    <3>3. Len(ModelTexts(w)) \in Nat
      <4>1. ModelTexts(w) \in Seq(Seq(S))
        BY ContentsType
      <4>2. QED
        BY <4>1, LenProperties
    <3> HIDE DEF f
    <3>4. Len(ids) + 1 - f \in 1..Len(ids)
      BY <1>3, <3>1, <3>2, <3>3
    <3>5. ids[Len(ids) + 1 - f] \in Seq(S)
      BY <3>4, ElementOfSeq
    <3>6. tokens = ids[Len(ids) + 1 - f]
      BY <2>1, Zenon DEF TokensOf, PartOf, f
    <3>7. QED
      BY <3>5, <3>6
  <2>2. CASE ~IsReplaced(out, k)
    BY <1>2, <2>2 DEF TokensOf
  <2>3. QED
    BY <2>1, <2>2
<1> HIDE DEF tokens, mask
<1>5. Selected(tokens, mask) \in Seq(S)
  BY <1>4, KeptType
<1>6. <<>> \in Seq(S)
  BY EmptySeq
<1>7. TrainedOf(out, k) \in {<<>>, Selected(tokens, mask), tokens}
  BY DEF TrainedOf, tokens, mask
<1>8. QED
  BY <1>4, <1>5, <1>6, <1>7

\* What is trained ends with what the last part of the ids puts into the last message.
LEMMA CompletionEnds ==
    ASSUME NEW S, NEW out, out.messages \in Seq(Texts(S)), out.messages # <<>>,
           Continued(out.messages), out.ids \in Seq(Seq(S)), out.ids # <<>>, out.mask # <<>>
    PROVE  \E y \in Seq(S) : CompletionTokens(out)
                = y \o Selected(out.ids[Len(out.ids)], out.mask[Len(out.ids)])
<1> DEFINE w == out.messages
           z == Selected(out.ids[Len(out.ids)], out.mask[Len(out.ids)])
           laid == [k \in DOMAIN w |-> TrainedOf(out, k)]
           T == Seq(S)
<1>1. PICK s \in Seq(Texts(S)), c \in Seq(S) : w = Append(s, Message("assistant", c))
  <2>1. \E s \in Seq(Texts(S)), c \in Seq(S) : SaysAfter(w, s, c)
    BY SaysAfterSome
  <2>2. QED
    BY <2>1 DEF SaysAfter
<1> DEFINE m == Message("assistant", c)
           n == Len(s)
<1>2. m \in Texts(S) /\ m.role = "assistant"
  BY MessageIs
<1> HIDE DEF m
<1>3. w = Append(s, m)
  BY <1>1 DEF m
<1>4. Len(w) = n + 1 /\ n \in Nat /\ w[n + 1] = m /\ DOMAIN w = 1..n + 1
  <2>1. Len(Append(s, m)) = n + 1 /\ n \in Nat /\ Append(s, m)[n + 1] = m
    BY <1>2, AppendProperties, LenProperties
  <2>2. DOMAIN w = 1..Len(w)
    BY LenProperties
  <2>3. QED
    BY <1>3, <2>1, <2>2
<1>5. FromTheBack(w, n + 1) = 1
  <2>1. n + 1 \in 1..n + 1
    BY <1>4
  <2>2. /\ FromTheBack(s, n + 1) = 0
        /\ FromTheBack(Append(s, m), n + 1)
            = FromTheBack(s, n + 1) + IF m.role = "assistant" THEN 1 ELSE 0
    BY <1>2, <2>1, BackOfAppend
  <2>3. QED
    BY <1>2, <1>3, <2>2
<1>6. Len(out.ids) \in Nat \ {0}
  BY EmptySeq
<1>7. TrainedOf(out, n + 1) = z
  <2>1. IsReplaced(out, n + 1)
    BY <1>2, <1>4, <1>5, <1>6 DEF IsReplaced
  <2>2. PartOf(out, n + 1) = Len(out.ids)
    BY <1>5, <1>6 DEF PartOf
  <2>3. TokensOf(out, n + 1) = out.ids[Len(out.ids)]
    BY <2>1, <2>2 DEF TokensOf
  <2>4. out.messages[n + 1].role = "assistant"
    BY <1>2, <1>4
  <2>5. TrainedOf(out, n + 1) = Selected(TokensOf(out, n + 1), out.mask[PartOf(out, n + 1)])
    BY <2>1, <2>4, Zenon DEF TrainedOf
  <2>6. QED
    BY <2>2, <2>3, <2>5, Zenon
<1>8. ASSUME NEW k \in 1..n + 1 PROVE TrainedOf(out, k) \in T
  BY <1>4, TrainedType
<1> HIDE DEF w, z, T
<1>9. laid = [k \in 1..n + 1 |-> TrainedOf(out, k)]
  BY <1>4
<1> DEFINE front == [k \in 1..n |-> TrainedOf(out, k)]
           new == TrainedOf(out, n + 1)
<1>10. front \in Seq(T) /\ Len(front) = n /\ \A k \in 1..n : front[k] = TrainedOf(out, k)
  <2>1. \A k \in 1..n : TrainedOf(out, k) \in T
    BY <1>4, <1>8
  <2>2. front \in [1..n -> T] /\ DOMAIN front = 1..n
    BY <2>1
  <2> HIDE DEF front, n
  <2>3. front \in Seq(T)
    BY <1>4, <2>2, SeqDef
  <2>4. Len(front) = n
    BY <1>4, <2>2, <2>3, LenProperties
  <2>5. QED
    BY <2>3, <2>4 DEF front
<1>11. laid \in Seq(T) /\ Len(laid) = n + 1 /\ \A k \in 1..n + 1 : laid[k] = TrainedOf(out, k)
  <2>1. laid \in [1..n + 1 -> T] /\ DOMAIN laid = 1..n + 1
    BY <1>8, <1>9
  <2>2. \A k \in 1..n + 1 : laid[k] = TrainedOf(out, k)
    BY <1>9
  <2> HIDE DEF laid, n
  <2>3. laid \in Seq(T)
    BY <1>4, <2>1, SeqDef
  <2>4. Len(laid) = n + 1
    BY <1>4, <2>1, <2>3, LenProperties
  <2>5. QED
    BY <2>2, <2>3, <2>4
<1>12. new \in T
  BY <1>4, <1>8
<1> HIDE DEF laid, front, new
<1>13. laid = Append(front, new)
  <2> DEFINE u == Append(front, new)
  <2>1. u \in Seq(T) /\ Len(u) = n + 1 /\ u[n + 1] = new /\ \A k \in 1..n : u[k] = front[k]
    BY <1>10, <1>12, AppendProperties
  <2> HIDE DEF u, n
  <2>2. ASSUME NEW k \in 1..Len(laid) PROVE laid[k] = u[k]
    <3>1. CASE k = n + 1
      BY <1>4, <1>11, <2>1, <3>1 DEF new
    <3>2. CASE k # n + 1
      <4>1. k \in 1..n /\ k \in 1..n + 1
        BY <1>4, <1>11, <3>2
      <4>2. QED
        BY <1>10, <1>11, <2>1, <4>1
    <3>3. QED
      BY <3>1, <3>2
  <2>3. laid = u
    BY <1>11, <2>1, <2>2, SeqEqual
  <2>4. QED
    BY <2>3 DEF u
<1>14. FlattenSeq(front) \in Seq(S) /\ FlattenSeq(Append(front, new)) = FlattenSeq(front) \o new
  BY <1>10, <1>12, FlattenAppend DEF T
<1>15. CompletionTokens(out) = FlattenSeq(laid)
  BY Zenon DEF CompletionTokens, laid, w
<1>16. new = z
  BY <1>7 DEF new
<1>17. QED
  BY <1>13, <1>14, <1>15, <1>16 DEF z

\* When ids and masks came for all of the model's messages, they are trained on.
LEMMA CompletionIsMasked ==
    ASSUME NEW S, NEW out, out.messages \in Seq(Texts(S)),
           out.ids = ModelTexts(out.messages), out.mask \in Seq(Seq(BOOLEAN)),
           out.mask # <<>>, SameLengths(out.ids, out.mask)
    PROVE  CompletionTokens(out) = Masked(out.ids, out.mask)
<1> DEFINE w == out.messages
           ids == out.ids
           mask == out.mask
<1>1. ASSUME NEW k \in DOMAIN w PROVE TrainedOf(out, k) = LaidAt(w, ids, mask, k)
  <2>1. CASE w[k].role # "assistant"
    BY <2>1 DEF TrainedOf, LaidAt
  <2>2. CASE w[k].role = "assistant"
    <3>1. k \in 1..Len(w)
      BY LenProperties
    <3>2. Found(w, k)
      BY <2>2, <3>1, FromTheBackFinds
    <3>3. FromTheBack(w, k) <= Len(ids)
      <4>1. Len(ModelTexts(w)) \in Nat
        <5>1. ModelTexts(w) \in Seq(Seq(S))
          BY ContentsType
        <5>2. QED
          BY <5>1, LenProperties
      <4>2. QED
        BY <3>2, <4>1 DEF Found
    <3>4. IsReplaced(out, k)
      BY <2>2, <3>3 DEF IsReplaced
    <3>5. TrainedOf(out, k) = Selected(ids[PartOf(out, k)], mask[PartOf(out, k)])
      BY <2>2, <3>4, Zenon DEF TrainedOf, TokensOf
    <3>6. PartOf(out, k) = Len(ids) + 1 - FromTheBack(w, k)
      BY DEF PartOf
    <3>7. LaidAt(w, ids, mask, k) = Selected(ids[PartOf(out, k)], mask[PartOf(out, k)])
      BY <2>2, <3>6, Zenon DEF LaidAt
    <3>8. QED
      BY <3>5, <3>7
  <2>3. QED
    BY <2>1, <2>2
<1>2. CompletionTokens(out) = FlattenSeq(Laid(w, ids, mask))
  <2>1. [k \in DOMAIN w |-> TrainedOf(out, k)] = [k \in DOMAIN w |-> LaidAt(w, ids, mask, k)]
    BY <1>1
  <2>2. QED
    BY <2>1, Zenon DEF CompletionTokens, Laid
<1>3. FlattenSeq(Laid(w, ModelTexts(w), mask)) = Masked(ModelTexts(w), mask)
  BY LaidIsMasked
<1>4. QED
  BY <1>2, <1>3, Zenon

\* Counts decide which log-probabilities the trainer has.
LEMMA CompleteLogprobsIs ==
    ASSUME NEW S, NEW last, last.ids \in Seq(Seq(S)), last.mask \in Seq(Seq(BOOLEAN)),
           SameLengths(last.ids, last.mask)
    PROVE  /\ CompleteLogprobs(last) \in {last.logprobs, <<>>}
           /\ CompleteLogprobs(last) # <<>> =>
                Len(FlattenSeq(last.logprobs)) = Len(Masked(last.ids, last.mask))
<1>1. CompleteLogprobs(last) \in {last.logprobs, <<>>}
  BY DEF CompleteLogprobs
<1>2. ASSUME CompleteLogprobs(last) # <<>>
      PROVE  Len(FlattenSeq(last.logprobs)) = Len(Masked(last.ids, last.mask))
  <2>1. last.ids # <<>>
    BY <1>2 DEF CompleteLogprobs
  <2>2. last.mask # <<>>
    <3>1. Len(last.ids) = Len(last.mask)
      BY DEF SameLengths
    <3>2. Len(last.ids) # 0 /\ (last.mask = <<>> => Len(last.mask) = 0)
      BY <2>1, EmptySeq
    <3>3. QED
      BY <3>1, <3>2
  <2> DEFINE count == Len(FlattenSeq(last.logprobs))
             ones == CountOnes(last.mask)
             all == Len(FlattenSeq(last.ids))
  <2>3. CompleteLogprobs(last) =
            IF last.ids # <<>> /\ count = (IF last.mask # <<>> THEN ones ELSE all)
            THEN last.logprobs ELSE <<>>
    BY Zenon DEF CompleteLogprobs
  <2> HIDE DEF count, ones, all
  <2>4. count = ones
    BY <1>2, <2>2, <2>3
  <2>5. ones = Len(Masked(last.ids, last.mask))
    BY CountOnesIs DEF ones
  <2>6. QED
    BY <2>4, <2>5 DEF count
<1>3. QED
  BY <1>1, <1>2

\* Its log-probabilities are laid over the tokens that they are of.
LEMMA EndsWithItsLogprobs ==
    ASSUME NEW q, NEW a, NEW d, NEW t, NEW last, NEW out, Ends(q, a, d, t, last, out)
    PROVE  LogprobsResult(out)
<1> SUFFICES ASSUME UsesLogprobs(out), ~LosesLastTurn(out),
                    \A style \in StepsTaken(out) : style.ids => style.mask
             PROVE  FlattenSeq(MergedLogprobs(out)) = CompletionTokens(out)
  BY DEF LogprobsResult
<1> DEFINE b == SpokenOf(q.messages)
           S == TokensIn(setup)
           w == Say(b, a)
           on == Continued(b)
           steps == StepsBefore(setup, t)
           ones == Ones(a)
           texts == ModelTexts(b)
           asked == setup.logprobs
           complete == CompleteLogprobs(last)
           merged == MergedLogprobs(out)
           completion == CompletionTokens(out)
           before == Masked(q.ids, q.mask)
           masked == Masked(out.ids, out.mask)
           earlier == FlattenSeq(q.logprobs)
           logprobs == FlattenSeq(last.logprobs)
<1>1. /\ setup \in Setups /\ t \in 1..setup.maxTurns /\ Talk(setup, q, d, t)
  BY DEF Ends
<1>2. /\ last \in Requests(S) /\ w \in Seq(Texts(S)) /\ b \in Seq(Texts(S)) /\ b # <<>>
      /\ q \in Requests(S) /\ a \in Seq(S) /\ a # <<>> /\ out.messages = w /\ Continued(w)
      /\ out.ids = last.ids /\ out.mask = last.mask /\ StepsTaken(out) = steps
      /\ out.logprobs = complete /\ out.lastLogprobs = LogprobsOf(a)
      /\ ~Loses(setup, t) => LastParts(q, last, b, a)
      /\ LosesLastTurn(out) <=> Loses(setup, t)
  <2> HIDE DEF w, b, S, steps, complete
  <2>1. QED
    BY EndsFacts DEF w, b, S, steps, complete
<1>3. IdsInv(setup, q, b, t) /\ LogprobsInv(setup, q, t)
  BY <1>1 DEF Talk
<1>4. asked \in BOOLEAN
  BY <1>1, SetupFacts
<1>5. /\ q.ids \in Seq(Seq(S)) /\ q.mask \in Seq(Seq(BOOLEAN)) /\ q.logprobs \in Seq(Seq(S))
      /\ last.ids \in Seq(Seq(S)) /\ last.mask \in Seq(Seq(BOOLEAN))
      /\ last.logprobs \in Seq(Seq(S))
  BY <1>2 DEF Requests
<1>6. /\ (\A style \in steps : style.ids) => q.ids = texts
      /\ (\A style \in steps : ~style.ids) => q.ids = <<>>
      /\ SameLengths(q.ids, q.mask)
  BY <1>2, <1>3 DEF IdsInv
<1>7. /\ asked => Len(earlier) >= Len(before)
      /\ asked /\ Len(earlier) = Len(before) =>
            earlier = before /\ \A style \in steps : style.ids
  BY <1>2, <1>3 DEF LogprobsInv
<1>8. ModelTexts(w) = Track(texts, a, on) /\ w # <<>>
  <2>1. ModelTexts(Say(b, a)) = Track(ModelTexts(b), a, Continued(b)) /\ Say(b, a) # <<>>
    <3> HIDE DEF b, S
    <3>1. QED
      BY <1>2, SayProperties
  <2>2. QED
    BY <2>1
<1>9. ones \in Seq(BOOLEAN) /\ Len(a) = Len(ones)
  <2> HIDE DEF S
  <2>1. QED
    BY <1>2, OnesIs
<1>10. Selected(a, ones) = a
  <2> HIDE DEF S
  <2>1. QED
    BY <1>2, SelectedOnes
<1>11. /\ last.ids = Track(q.ids, a, on)
       /\ last.mask = Track(q.mask, ones, on)
       /\ last.logprobs = IF ~asked THEN <<>>
                          ELSE IF q.ids = <<>> THEN <<a>> ELSE Track(q.logprobs, a, on)
  BY <1>2, <1>6 DEF LastParts
<1>12. LogprobsOf(a) = IF asked THEN a ELSE <<>>
  BY DEF LogprobsOf
<1> HIDE DEF S, b, w, on, steps, texts, asked, complete, earlier, logprobs
<1>13. SameLengths(last.ids, last.mask) /\ last.ids # <<>> /\ last.mask # <<>>
  <2> DEFINE B == BOOLEAN
  <2>1. q.mask \in Seq(Seq(B)) /\ ones \in Seq(B) /\ Len(a) = Len(ones)
    BY <1>5, <1>9
  <2> HIDE DEF B, ones
  <2>2. SameLengths(Track(q.ids, a, on), Track(q.mask, ones, on))
    BY <1>2, <1>5, <1>6, <2>1, SameLengthsTrack
  <2>3. Track(q.ids, a, on) # <<>>
    BY <1>2, <1>5, TrackProperties
  <2>4. Track(q.mask, ones, on) # <<>>
    BY <2>1, TrackProperties
  <2>5. QED
    BY <1>11, <2>2, <2>3, <2>4
<1>14. completion \in Seq(S) /\ \E y \in Seq(S) : completion = y \o a
  <2>1. \E x \in Seq(S) : Selected(last.ids[Len(last.ids)], last.mask[Len(last.ids)]) = x \o a
    <3>1. EndsIn(S, Track(q.ids, a, on), Track(q.mask, Ones(a), on), a)
      <4>1. /\ q.ids \in Seq(Seq(S)) /\ q.mask \in Seq(Seq(BOOLEAN))
            /\ SameLengths(q.ids, q.mask) /\ a \in Seq(S)
        BY <1>2, <1>5, <1>6
      <4>2. QED
        BY <4>1, LastPartEnds
    <3>2. QED
      BY <1>11, <3>1, Zenon DEF EndsIn
  <2>2. PICK x \in Seq(S) : Selected(last.ids[Len(last.ids)], last.mask[Len(last.ids)]) = x \o a
    BY <2>1
  <2>3. \E y \in Seq(S) : completion
            = y \o Selected(out.ids[Len(out.ids)], out.mask[Len(out.ids)])
    <3>1. /\ out.messages \in Seq(Texts(S)) /\ out.messages # <<>> /\ Continued(out.messages)
          /\ out.ids \in Seq(Seq(S)) /\ out.ids # <<>> /\ out.mask # <<>>
      BY <1>2, <1>5, <1>8, <1>13
    <3>2. QED
      BY <3>1, CompletionEnds
  <2> HIDE DEF completion
  <2>4. PICK y \in Seq(S) : completion = y \o (x \o a)
    BY <1>2, <2>2, <2>3
  <2>5. y \o (x \o a) = (y \o x) \o a /\ y \o x \in Seq(S) /\ y \o (x \o a) \in Seq(S)
    <3>1. x \o a \in Seq(S) /\ y \o x \in Seq(S)
      BY <1>2, ConcatProperties
    <3>2. y \o (x \o a) \in Seq(S)
      BY <3>1, ConcatProperties
    <3>3. (y \o x) \o a = y \o (x \o a)
      BY <1>2, ConcatAssociative, SMTT(40)
    <3>4. QED
      BY <3>1, <3>2, <3>3
  <2>6. QED
    BY <2>4, <2>5
<1>15. /\ merged # <<>> /\ Len(FlattenSeq(merged)) = Len(completion)
  BY DEF UsesLogprobs
<1>16. merged = IF complete # <<>> THEN complete
                ELSE IF LogprobsOf(a) # <<>> THEN <<LogprobsOf(a)>> ELSE <<>>
  BY <1>2 DEF MergedLogprobs
<1>17. /\ complete \in {last.logprobs, <<>>}
       /\ complete # <<>> => Len(logprobs) = Len(masked)
  <2>1. /\ CompleteLogprobs(last) \in {last.logprobs, <<>>}
        /\ CompleteLogprobs(last) # <<>> =>
            Len(FlattenSeq(last.logprobs)) = Len(Masked(last.ids, last.mask))
    BY <1>5, <1>13, CompleteLogprobsIs
  <2>2. QED
    BY <1>2, <2>1 DEF complete, logprobs
<1> HIDE DEF ones, merged, completion, masked, before
<1>18. asked
  BY <1>4, <1>11, <1>12, <1>15, <1>16, <1>17
<1>19. ASSUME FlattenSeq(merged) = a PROVE FlattenSeq(merged) = completion
  <2>1. PICK y \in Seq(S) : completion = y \o a
    BY <1>14
  <2>2. Len(y \o a) = Len(a)
    BY <1>15, <1>19, <2>1
  <2>3. y \o a = a
    BY <1>2, <2>2, OnlySecond
  <2>4. QED
    BY <1>19, <2>1, <2>3
<1>20. CASE complete = <<>>
  <2>1. merged = <<a>>
    BY <1>2, <1>12, <1>16, <1>18, <1>20
  <2>2. FlattenSeq(merged) = a
    BY <1>2, <2>1, FlattenOne
  <2>3. QED
    BY <1>19, <2>2 DEF merged, completion
<1>21. CASE complete # <<>> /\ q.ids = <<>>
  <2>1. merged = <<a>>
    BY <1>11, <1>16, <1>17, <1>18, <1>21
  <2>2. FlattenSeq(merged) = a
    BY <1>2, <2>1, FlattenOne
  <2>3. QED
    BY <1>19, <2>2 DEF merged, completion
<1>22. CASE complete # <<>> /\ q.ids # <<>>
  <2>1. merged = last.logprobs /\ last.logprobs = Track(q.logprobs, a, on)
    BY <1>11, <1>16, <1>17, <1>18, <1>22
  <2>2. earlier \in Seq(S) /\ logprobs = earlier \o a
    <3>1. /\ FlattenSeq(q.logprobs) \in Seq(S)
          /\ FlattenSeq(Track(q.logprobs, a, on)) = FlattenSeq(q.logprobs) \o a
      <4>1. q.logprobs \in Seq(Seq(S)) /\ a \in Seq(S)
        BY <1>2, <1>5
      <4>2. QED
        BY <4>1, TrackProperties, ZenonT(40)
    <3>2. QED
      BY <2>1, <3>1 DEF earlier, logprobs
  <2>3. before \in Seq(S) /\ masked = before \o a
    <3>1. /\ Masked(q.ids, q.mask) \in Seq(S)
          /\ Masked(Track(q.ids, a, on), Track(q.mask, ones, on))
                = Masked(q.ids, q.mask) \o Selected(a, ones)
      <4>1. /\ q.ids \in Seq(Seq(S)) /\ q.mask \in Seq(Seq(BOOLEAN)) /\ a \in Seq(S)
            /\ ones \in Seq(BOOLEAN) /\ SameLengths(q.ids, q.mask) /\ Len(a) = Len(ones)
        BY <1>2, <1>5, <1>6, <1>9
      <4>2. QED
        BY <4>1, MaskedTrack
    <3>2. QED
      BY <1>2, <1>10, <1>11, <3>1 DEF before, masked
  <2>4. Len(earlier \o a) = Len(before \o a)
    BY <1>17, <1>22, <2>2, <2>3
  <2>5. Len(earlier) = Len(before)
    <3>1. /\ Len(earlier \o a) = Len(earlier) + Len(a)
          /\ Len(before \o a) = Len(before) + Len(a)
      BY <1>2, <2>2, <2>3, ConcatProperties
    <3>2. Len(earlier) \in Nat /\ Len(before) \in Nat /\ Len(a) \in Nat
      BY <1>2, <2>2, <2>3, LenProperties
    <3> DEFINE x == Len(earlier)
               y == Len(before)
               z == Len(a)
    <3>3. x + z = y + z /\ x \in Nat /\ y \in Nat /\ z \in Nat
      BY <2>4, <3>1, <3>2
    <3> HIDE DEF x, y, z
    <3>4. x = y
      BY <3>3
    <3>5. QED
      BY <3>4 DEF x, y
  <2>6. earlier = before /\ \A style \in steps : style.ids
    BY <1>7, <1>18, <2>5
  <2>7. out.ids = ModelTexts(out.messages)
    BY <1>2, <1>6, <1>8, <1>11, <2>6
  <2>8. completion = masked
    <3>1. /\ out.messages \in Seq(Texts(S)) /\ out.mask \in Seq(Seq(BOOLEAN))
          /\ out.mask # <<>> /\ SameLengths(out.ids, out.mask)
      BY <1>2, <1>5, <1>13
    <3>2. CompletionTokens(out) = Masked(out.ids, out.mask)
      BY <2>7, <3>1, CompletionIsMasked
    <3>3. QED
      BY <3>2 DEF completion, masked
  <2>9. FlattenSeq(merged) = logprobs
    BY <2>1 DEF logprobs
  <2>10. QED
    BY <2>2, <2>3, <2>6, <2>8, <2>9 DEF merged, completion
<1>23. QED
  BY <1>20, <1>21, <1>22 DEF merged, completion

-----------------------------------------------------------------------------
(* Ranks that generate together.                                            *)

\* The ranks q of the group of r are runners; the group is theirs too, and its
\* k-th rank has local rank k - 1.
LEMMA GroupFacts ==
    ASSUME setup \in Setups, NEW r \in Runners
    PROVE  /\ GroupSize \in Nat \ {0} /\ Runners \subseteq Nat \ {0}
           /\ DOMAIN Group(r) = 1..GroupSize
           /\ LocalRank(r) \in 0..GroupSize - 1 /\ Group(r)[LocalRank(r) + 1] = r
           /\ \A k \in 1..GroupSize :
                /\ Group(r)[k] \in Runners
                /\ LocalRank(Group(r)[k]) = k - 1
                /\ Group(Group(r)[k]) = Group(r)
           /\ ~setup.colocate => \A k \in 1..GroupSize : Group(r)[k] = r
<1> DEFINE g == GroupSize
           n == Len(setup.dialogues)
           m == LocalRank(r)
           p == (r - 1) \div g
           e == n \div g
           base == p * g
<1>1. /\ TpSize \in Nat \ {0} /\ setup.colocate \in BOOLEAN
      /\ setup.colocate => n % TpSize = 0
  BY MultiTurnAssumption, SetupFacts
<1>2. setup.dialogues \in Seq(Seq(Nat))
  BY SetupFacts
<1>3. n \in Nat /\ Runners = 1..n
  BY <1>2, LenProperties DEF Runners
<1>4. g \in Nat \ {0} /\ (~setup.colocate => g = 1)
  BY <1>1 DEF GroupSize
<1>5. n % g = 0
  <2>1. CASE setup.colocate
    BY <1>1, <2>1 DEF GroupSize
  <2>2. CASE ~setup.colocate
    <3>1. g = 1
      BY <1>4, <2>2
    <3> HIDE DEF g, n
    <3>2. QED
      BY <1>3, <3>1
  <2>3. QED
    BY <2>1, <2>2
<1>6. m = (r - 1) % g /\ r - 1 \in Nat /\ r \in 1..n
  BY <1>3 DEF LocalRank
<1> HIDE DEF g, n
<1>7. p \in Nat /\ m \in 0..g - 1 /\ r - 1 = base + m
  <2>1. /\ (r - 1) \div g \in Nat
        /\ (r - 1) % g \in 0..g - 1
        /\ r - 1 = ((r - 1) \div g) * g + ((r - 1) % g)
    BY <1>4, <1>6, DivMod
  <2>2. QED
    BY <1>6, <2>1
<1>8. e \in Nat /\ n = e * g
  <2>1. /\ n \div g \in Nat /\ n = (n \div g) * g + (n % g)
    BY <1>3, <1>4, DivMod
  <2> DEFINE x == e * g
             z == n % g
  <2>2. n = x + z /\ z = 0 /\ e \in Nat /\ x \in Nat
    BY <1>4, <1>5, <2>1
  <2> HIDE DEF x, z, e
  <2>3. n = x
    BY <2>2
  <2>4. QED
    BY <2>2, <2>3 DEF x
<1> HIDE DEF p, e, m
<1>9. base \in Nat /\ base + g <= n
  <2>1. base \in Nat
    BY <1>4, <1>7
  <2>2. p < e
    <3>1. ASSUME e <= p PROVE FALSE
      <4>1. e * g <= p * g
        BY <1>4, <1>7, <1>8, <3>1, TimesMonotone
      <4>2. n <= base
        BY <1>8, <4>1
      <4> HIDE DEF base
      <4>3. QED
        BY <1>3, <1>6, <1>7, <2>1, <4>2
    <3>2. QED
      BY <1>7, <1>8, <3>1
  <2>3. (p + 1) * g <= e * g
    BY <1>4, <1>7, <1>8, <2>2, TimesMonotone
  <2>4. (p + 1) * g = p * g + g
    BY <1>4, <1>7
  <2>5. QED
    BY <1>8, <2>1, <2>3, <2>4
<1>10. Group(r) = [k \in 1..g |-> base + k]
  <2>1. r - 1 - m = base
    <3> HIDE DEF base
    <3>1. QED
      BY <1>4, <1>6, <1>7, <1>9
  <2> HIDE DEF base
  <2>2. Group(r) = [k \in 1..g |-> r - 1 - m + k]
    BY Zenon DEF Group, g, m
  <2>3. QED
    BY <2>1, <2>2, Zenon
<1>11. ASSUME NEW k \in 1..g
       PROVE  /\ base + k \in Runners
              /\ LocalRank(base + k) = k - 1
              /\ Group(base + k) = Group(r)
  <2>1. base + k \in Runners
    <3> HIDE DEF base
    <3>1. QED
      BY <1>3, <1>4, <1>9
  <2>2. (p * g + (k - 1)) % g = k - 1
    <3>1. k - 1 \in Nat /\ k - 1 < g
      BY <1>4
    <3>2. QED
      BY <1>4, <1>7, <3>1, DivUnique
  <2>3. LocalRank(base + k) = k - 1
    <3>1. (base + k) - 1 = base + (k - 1)
      <4> HIDE DEF base
      <4>1. QED
        BY <1>4, <1>9
    <3>2. LocalRank(base + k) = ((base + k) - 1) % g
      BY Zenon DEF LocalRank, g
    <3>3. QED
      BY <2>2, <3>1, <3>2, Zenon
  <2> HIDE DEF base
  <2>4. (base + k) - 1 - (k - 1) = base
    BY <1>4, <1>9
  <2>5. Group(base + k) = [i \in 1..g |-> (base + k) - 1 - LocalRank(base + k) + i]
    BY Zenon DEF Group, g
  <2>6. Group(base + k) = [i \in 1..g |-> base + i]
    BY <2>3, <2>4, <2>5, Zenon
  <2>7. QED
    BY <1>10, <2>1, <2>3, <2>6
<1> HIDE DEF base
<1>12. /\ DOMAIN Group(r) = 1..g
       /\ \A k \in 1..g : Group(r)[k] = base + k
  BY <1>10
<1>13. m + 1 \in 1..g /\ base + (m + 1) = r
  BY <1>4, <1>6, <1>7, <1>9
<1>14. Group(r)[m + 1] = r
  BY <1>12, <1>13
<1>15. \A k \in 1..g : /\ Group(r)[k] \in Runners
                       /\ LocalRank(Group(r)[k]) = k - 1
                       /\ Group(Group(r)[k]) = Group(r)
  BY <1>11, <1>12
<1>16. ~setup.colocate => \A k \in 1..g : Group(r)[k] = r
  <2>1. ASSUME ~setup.colocate, NEW k \in 1..g PROVE Group(r)[k] = r
    BY <1>4, <1>7, <1>13, <1>14, <2>1
  <2>2. QED
    BY <2>1
<1>17. Runners \subseteq Nat \ {0}
  BY <1>3
<1>18. QED
  BY <1>4, <1>7, <1>12, <1>14, <1>15, <1>16, <1>17 DEF m, g

\* The ranks of a group are in one turn.
LEMMA SameTurn ==
    ASSUME RunnersInv, NEW r \in Runners, Rollout(r), NEW i \in 1..GroupSize
    PROVE  turn[Group(r)[i]] = turn[r]
<1> DEFINE q == Group(r)[i]
<1>1. setup \in Setups /\ turn \in [Runners -> Nat \ {0}]
      /\ (setup.colocate => \A x, y \in Runners : Round(x) = Round(y))
  BY DEF RunnersInv
<1>2. /\ q \in Runners /\ LocalRank(r) \in 0..GroupSize - 1 /\ Group(r)[LocalRank(r) + 1] = r
      /\ GroupSize \in Nat /\ (~setup.colocate => q = r)
  BY <1>1, GroupFacts
<1>3. pc[q] = "rollout" /\ pc[r] = "rollout"
  <2>1. LocalRank(r) + 1 \in 1..GroupSize
    BY <1>2
  <2>2. \A k \in 1..GroupSize : pc[Group(r)[k]] = "rollout"
    BY DEF Rollout
  <2>3. QED
    BY <1>2, <2>1, <2>2
<1> HIDE DEF q
<1>4. CASE setup.colocate
  <2>1. Round(q) = Round(r)
    BY <1>1, <1>2, <1>4
  <2>2. turn[q] - 1 = turn[r] - 1
    BY <1>3, <2>1 DEF Round
  <2>3. turn[q] \in Nat /\ turn[r] \in Nat
    BY <1>1, <1>2
  <2>4. turn[q] = turn[r]
    BY <2>2, <2>3
  <2>5. QED
    BY <2>4 DEF q
<1>5. CASE ~setup.colocate
  BY <1>2, <1>5 DEF q
<1>6. QED
  BY <1>4, <1>5

\* A rank takes, of the answers to its group, those to its own dialogues.
LEMMA RolloutAnswers ==
    ASSUME RunnersInv, NEW r \in Runners, Rollout(r), NEW i \in 1..GroupSize,
           NEW q, q = Group(r)[i]
    PROVE  /\ outputs'[q] \in Seq(Seq(TokensIn(setup)))
           /\ Len(outputs'[q]) = Len(indexToInfer[q])
           /\ \A k \in 1..Len(outputs'[q]) :
                IsAnswer(setup, outputs'[q][k], indexToInfer[q][k], turn[q])
<1> DEFINE D == Dialogues
           g == GroupSize
           group == Group(r)
           parts == [k \in 1..g |-> indexToInfer[group[k]]]
           gathered == FlattenSeq(parts)
           start == StartIdx(q)
           mine == indexToInfer[q]
           len == Len(mine)
           mineOut == outputs'[q]
<1>1. setup \in Setups /\ turn \in [Runners -> Nat \ {0}]
      /\ indexToInfer \in [Runners -> Seq(D)]
  BY DEF RunnersInv
<1>2. /\ g \in Nat \ {0} /\ DOMAIN group = 1..g
      /\ \A k \in 1..g : group[k] \in Runners
      /\ q \in Runners /\ LocalRank(q) = i - 1 /\ Group(q) = group
  BY <1>1, GroupFacts
<1>3. turn[q] = turn[r]
  BY SameTurn
<1>4. PICK n \in [DOMAIN gathered -> setup.lengths] :
        LET answers == [k \in DOMAIN gathered |-> Generated(gathered[k], turn[r], n[k])]
        IN  outputs' = [x \in Runners |-> IF x \in ToSet(group)
                THEN SubSeq(answers, StartIdx(x) + 1, StartIdx(x) + Len(indexToInfer[x]))
                ELSE outputs[x]]
  BY Zenon DEF Rollout
<1> DEFINE answers == [k \in DOMAIN gathered |-> Generated(gathered[k], turn[r], n[k])]
<1>5. q \in ToSet(group)
  BY <1>2 DEF ToSet
<1>6. mineOut = SubSeq(answers, start + 1, start + len)
  <2> HIDE DEF answers, group, start, gathered
  <2>1. outputs' = [x \in Runners |-> IF x \in ToSet(group)
                THEN SubSeq(answers, StartIdx(x) + 1, StartIdx(x) + Len(indexToInfer[x]))
                ELSE outputs[x]]
    BY <1>4, Zenon DEF answers
  <2>2. QED
    BY <1>2, <1>5, <2>1 DEF start
<1>7. start = Len(FlattenSeq([k \in 1..i - 1 |-> indexToInfer[group[k]]]))
  <2> HIDE DEF group
  <2>1. QED
    BY <1>2, Zenon DEF StartIdx
<1>8. parts[i] = mine
  BY <1>2
<1>9. parts \in [1..g -> Seq(D)]
  <2> HIDE DEF group
  <2>1. QED
    BY <1>1, <1>2
<1>10. mine \in Seq(D)
  BY <1>1, <1>2
<1> HIDE DEF group, D
<1>11. [k \in 1..i - 1 |-> indexToInfer[group[k]]] = [k \in 1..i - 1 |-> parts[k]]
  <2>1. \A k \in 1..i - 1 : parts[k] = indexToInfer[group[k]]
    BY <1>2
  <2>2. QED
    BY <2>1
<1> HIDE DEF parts, g, start, mine, answers, mineOut
<1>12. /\ start \in Nat /\ gathered \in Seq(D)
       /\ start + len <= Len(gathered)
       /\ \A k \in 1..len : gathered[start + k] = mine[k]
  <2> DEFINE front == [k \in 1..i - 1 |-> parts[k]]
  <2>1. /\ parts \in Seq(Seq(D)) /\ Len(parts) = g /\ front = SubSeq(parts, 1, i - 1)
    <3>1. i \in 1..g
      BY DEF g
    <3> DEFINE T == Seq(D)
    <3>2. parts \in [1..g -> T]
      BY <1>9
    <3> HIDE DEF T
    <3>3. parts \in Seq(T) /\ Len(parts) = g /\ front = SubSeq(parts, 1, i - 1)
      BY <1>2, <3>1, <3>2, FirstParts
    <3>4. QED
      BY <3>3 DEF T
  <2>2. start = Len(FlattenSeq(front))
    BY <1>7, <1>11
  <2> HIDE DEF front
  <2>3. start = Len(FlattenSeq(SubSeq(parts, 1, i - 1))) /\ i \in 1..Len(parts)
    BY <2>1, <2>2 DEF g
  <2>4. /\ start \in Nat /\ FlattenSeq(parts) \in Seq(D)
        /\ start + Len(parts[i]) <= Len(FlattenSeq(parts))
        /\ \A k \in 1..Len(parts[i]) : FlattenSeq(parts)[start + k] = parts[i][k]
    <3>1. parts \in Seq(Seq(D)) /\ i \in 1..Len(parts)
      BY <2>1, <2>3
    <3>2. PartBegins(D, parts, i, Len(FlattenSeq(SubSeq(parts, 1, i - 1))))
      BY <3>1, FlattenSlice, Zenon
    <3>3. PartBegins(D, parts, i, start)
      BY <2>3, <3>2, Zenon
    <3>4. QED
      BY <3>3, Zenon DEF PartBegins
  <2>5. QED
    BY <1>8, <2>4, Zenon
<1> HIDE DEF gathered
<1>13. len \in Nat /\ DOMAIN gathered = 1..Len(gathered) /\ Len(gathered) \in Nat
  BY <1>10, <1>12, LenProperties
<1> HIDE DEF len
<1>14. Len(mineOut) = len /\ \A k \in 1..len : mineOut[k] = answers[start + k]
  <2>1. LET part == SubSeq(answers, start + 1, start + len)
        IN  /\ Len(part) = len
            /\ \A k \in 1..len : part[k] = answers[start + k]
    BY <1>12, <1>13, SliceAt
  <2>2. QED
    BY <1>6, <2>1, Zenon
<1>15. ASSUME NEW k \in 1..len
       PROVE  IsAnswer(setup, mineOut[k], mine[k], turn[q]) /\ mineOut[k] \in Seq(TokensIn(setup))
  <2>1. start + k \in DOMAIN gathered
    BY <1>12, <1>13
  <2>2. answers[start + k] = Generated(mine[k], turn[q], n[start + k])
    <3>1. answers[start + k] = Generated(gathered[start + k], turn[r], n[start + k])
      BY <2>1 DEF answers
    <3>2. QED
      BY <1>3, <1>12, <3>1
  <2>3. n[start + k] \in setup.lengths
    BY <1>4, <2>1
  <2>4. IsAnswer(setup, mineOut[k], mine[k], turn[q])
    BY <1>14, <2>2, <2>3, Zenon DEF IsAnswer
  <2>5. mine[k] \in D /\ mine[k] \in Running(q)
    <3>1. k \in 1..Len(mine) /\ DOMAIN mine = 1..Len(mine)
      BY <1>10, LenProperties DEF len
    <3>2. mine[k] \in D
      BY <1>10, <3>1, ElementOfSeq
    <3>3. mine[k] \in ToSet(mine)
      BY <3>1 DEF ToSet
    <3>4. QED
      BY <3>2, <3>3 DEF Running, mine
  <2>6. turn[q] \in 1..setup.maxTurns
    <3>1. turn[q] <= setup.maxTurns
      BY <1>2, <2>5 DEF RunnersInv
    <3>2. turn[q] \in Nat \ {0} /\ setup.maxTurns \in Nat
      BY <1>1, <1>2, SetupFacts
    <3>3. QED
      BY <3>1, <3>2
  <2>7. mine[k] \in DialoguesOf(setup)
    BY <2>5 DEF D, Dialogues, Runners, DialoguesOf
  <2>8. mineOut[k] \in Seq(TokensIn(setup))
    BY <1>1, <2>4, <2>6, <2>7, AnswerFacts
  <2>9. QED
    BY <2>4, <2>8
<1>16. mineOut \in Seq(Seq(TokensIn(setup)))
  <2> DEFINE T == Seq(TokensIn(setup))
             A == {answers[j] : j \in start + 1..start + len}
  <2>1. \A j \in start + 1..start + len : answers[j] \in A
    OBVIOUS
  <2>2. start + 1 \in Int /\ start + len \in Int
    BY <1>12, <1>13
  <2> HIDE DEF A
  <2>3. mineOut \in Seq(A)
    BY <1>6, <2>1, <2>2, SubSeqProperties
  <2>4. \A k \in 1..len : mineOut[k] \in T
    BY <1>15
  <2> HIDE DEF T
  <2>5. mineOut \in [1..len -> T]
    BY <1>14, <2>3, <2>4, LenProperties
  <2>6. mineOut \in Seq(T)
    BY <1>13, <2>5, SeqDef
  <2>7. QED
    BY <2>6 DEF T
<1>17. QED
  BY <1>14, <1>15, <1>16 DEF mineOut, mine, len

-----------------------------------------------------------------------------
(* The invariant of the runners is kept.                                    *)

\* The runners at the start.
LEMMA InitRunners ==
    ASSUME Init
    PROVE  RunnersInv
<1>1. /\ setup \in Setups
      /\ pc = [r \in Runners |-> "rollout"]
      /\ indexToInfer = setup.dialogues
      /\ turn = [r \in Runners |-> 1]
      /\ outputs = [r \in Runners |-> <<>>]
  BY DEF Init
<1>2. setup.dialogues \in Seq(Seq(Nat)) /\ setup.maxTurns \in Nat \ {0}
  BY <1>1, SetupFacts
<1>3. \A r \in Runners : setup.dialogues[r] \in Seq(Nat)
  <2> DEFINE T == Seq(Nat)
  <2>1. setup.dialogues \in Seq(T)
    BY <1>2
  <2> HIDE DEF T
  <2>2. \A r \in Runners : setup.dialogues[r] \in T
    BY <2>1, LenProperties, ElementOfSeq DEF Runners
  <2>3. QED
    BY <2>2 DEF T
<1>4. indexToInfer \in [Runners -> Seq(Dialogues)]
  <2>1. ASSUME NEW r \in Runners PROVE setup.dialogues[r] \in Seq(Dialogues)
    <3>1. ToSet(setup.dialogues[r]) \subseteq Dialogues
      BY DEF Dialogues
    <3>2. QED
      BY <1>3, <3>1, SeqOverItsSet
  <2>2. setup.dialogues \in [Runners -> {setup.dialogues[r] : r \in Runners}]
    <3>1. setup.dialogues = [r \in Runners |-> setup.dialogues[r]]
      <4> DEFINE T == Seq(Nat)
      <4>1. setup.dialogues \in Seq(T)
        BY <1>2
      <4> HIDE DEF T
      <4>2. setup.dialogues \in [1..Len(setup.dialogues) -> T]
        BY <4>1, LenProperties
      <4>3. QED
        BY <4>2 DEF Runners
    <3>2. QED
      BY <3>1
  <2>3. QED
    BY <1>1, <2>1, <2>2
<1>5. outputs \in [Runners -> Seq(Seq(TokensIn(setup)))]
  <2> DEFINE T == Seq(Seq(TokensIn(setup)))
  <2>1. <<>> \in T
    BY EmptySeq
  <2> HIDE DEF T
  <2>2. outputs \in [Runners -> T]
    BY <1>1, <2>1
  <2>3. QED
    BY <2>2 DEF T
<1>6. \A r \in Runners : Running(r) \subseteq Own(r)
  BY <1>1 DEF Running, Own
<1>7. \A r \in Runners : turn[r] <= setup.maxTurns /\ pc[r] = "rollout" /\ Round(r) = 0
  BY <1>1, <1>2 DEF Round
<1>8. /\ pc \in [Runners -> {"rollout", "gather", "turn", "done"}]
      /\ turn \in [Runners -> Nat \ {0}]
  BY <1>1
<1>9. QED
  BY <1>1, <1>4, <1>5, <1>6, <1>7, <1>8 DEF RunnersInv

\* The engine answers a group: its ranks stay in their round.
LEMMA RolloutKeepsRunners ==
    ASSUME RunnersInv, NEW r \in Runners, Rollout(r)
    PROVE  RunnersInv'
<1> DEFINE T == Seq(Seq(TokensIn(setup)))
           group == Group(r)
<1>1. /\ setup \in Setups
      /\ pc \in [Runners -> {"rollout", "gather", "turn", "done"}]
      /\ turn \in [Runners -> Nat \ {0}]
      /\ indexToInfer \in [Runners -> Seq(Dialogues)]
      /\ outputs \in [Runners -> Seq(Seq(TokensIn(setup)))]
      /\ \A q \in Runners :
        /\ Running(q) \subseteq Own(q)
        /\ Running(q) # {} => turn[q] <= setup.maxTurns
        /\ pc[q] \in {"gather", "turn"} => Answers(q)
      /\ setup.colocate => \A x, y \in Runners : Round(x) = Round(y)
  BY Zenon DEF RunnersInv
<1>2. /\ setup' = setup /\ indexToInfer' = indexToInfer /\ turn' = turn
      /\ requests' = requests /\ results' = results
      /\ pc' = [q \in Runners |->
            IF q \notin ToSet(group) THEN pc[q]
            ELSE IF setup.colocate THEN "gather" ELSE "turn"]
      /\ \A k \in 1..GroupSize : pc[group[k]] = "rollout"
  BY DEF Rollout
<1>3. /\ Runners' = Runners /\ Dialogues' = Dialogues
      /\ \A q : Running(q)' = Running(q) /\ Own(q)' = Own(q)
  BY <1>2 DEF Runners, Dialogues, Running, Own
<1>4. DOMAIN group = 1..GroupSize /\ \A k \in 1..GroupSize : group[k] \in Runners
  BY <1>1, GroupFacts
<1>5. ASSUME NEW q \in ToSet(group)
      PROVE  /\ q \in Runners /\ pc[q] = "rollout"
             /\ outputs'[q] \in T
             /\ Len(outputs'[q]) = Len(indexToInfer[q])
             /\ \A k \in 1..Len(outputs'[q]) :
                  IsAnswer(setup, outputs'[q][k], indexToInfer[q][k], turn[q])
  <2>1. PICK i \in 1..GroupSize : q = group[i]
    BY <1>4 DEF ToSet
  <2>2. /\ outputs'[q] \in Seq(Seq(TokensIn(setup)))
        /\ Len(outputs'[q]) = Len(indexToInfer[q])
        /\ \A k \in 1..Len(outputs'[q]) :
             IsAnswer(setup, outputs'[q][k], indexToInfer[q][k], turn[q])
    BY <2>1, RolloutAnswers
  <2>3. q \in Runners /\ pc[q] = "rollout"
    BY <1>2, <1>4, <2>1
  <2>4. QED
    BY <2>2, <2>3
<1>6. /\ DOMAIN outputs' = Runners
      /\ outputs' = [q \in Runners |-> outputs'[q]]
      /\ \A q \in Runners : q \notin ToSet(group) => outputs'[q] = outputs[q]
  <2> DEFINE gathered == FlattenSeq([k \in 1..GroupSize |-> indexToInfer[group[k]]])
  <2>1. PICK n \in [DOMAIN gathered -> setup.lengths] :
          LET answers == [k \in DOMAIN gathered |-> Generated(gathered[k], turn[r], n[k])]
          IN  outputs' = [x \in Runners |-> IF x \in ToSet(group)
                THEN SubSeq(answers, StartIdx(x) + 1, StartIdx(x) + Len(indexToInfer[x]))
                ELSE outputs[x]]
    BY Zenon DEF Rollout
  <2> DEFINE answers == [k \in DOMAIN gathered |-> Generated(gathered[k], turn[r], n[k])]
  <2> HIDE DEF group, gathered
  <2>2. outputs' = [x \in Runners |-> IF x \in ToSet(group)
                THEN SubSeq(answers, StartIdx(x) + 1, StartIdx(x) + Len(indexToInfer[x]))
                ELSE outputs[x]]
    BY <2>1, Zenon DEF answers
  <2> HIDE DEF answers
  <2>3. QED
    BY <2>2
<1> HIDE DEF group, T
<1>7. outputs' \in [Runners -> T]
  <2>1. \A q \in Runners : outputs'[q] \in T
    BY <1>1, <1>5, <1>6 DEF T
  <2>2. QED
    BY <1>6, <2>1
<1>8. pc' \in [Runners -> {"rollout", "gather", "turn", "done"}]
  BY <1>1, <1>2
<1>9. ASSUME NEW q \in Runners, pc'[q] \in {"gather", "turn"} PROVE Answers(q)'
  <2>1. CASE q \in ToSet(group)
    <3>1. /\ Len(outputs'[q]) = Len(indexToInfer[q])
          /\ \A k \in 1..Len(outputs'[q]) :
               IsAnswer(setup, outputs'[q][k], indexToInfer[q][k], turn[q])
      BY <1>5, <2>1
    <3>2. QED
      BY <1>2, <3>1, Zenon DEF Answers
  <2>2. CASE q \notin ToSet(group)
    <3>1. pc[q] \in {"gather", "turn"} /\ outputs'[q] = outputs[q]
      BY <1>2, <1>6, <1>9, <2>2
    <3>2. Answers(q)
      BY <1>1, <3>1
    <3>3. QED
      BY <1>2, <3>1, <3>2, Zenon DEF Answers
  <2>3. QED
    BY <2>1, <2>2
<1>10. ASSUME setup.colocate PROVE \A q \in Runners : Round(q)' = Round(q)
  <2>1. ASSUME NEW q \in Runners PROVE Round(q)' = Round(q)
    <3>1. CASE q \in ToSet(group)
      BY <1>2, <1>5, <1>10, <3>1 DEF Round
    <3>2. CASE q \notin ToSet(group)
      BY <1>2, <3>2 DEF Round
    <3>3. QED
      BY <3>1, <3>2
  <2>2. QED
    BY <2>1
<1>11. setup'.colocate => \A x, y \in Runners' : Round(x)' = Round(y)'
  BY <1>1, <1>2, <1>3, <1>10, Zenon
<1>12. /\ setup' \in Setups
       /\ turn' \in [Runners' -> Nat \ {0}]
       /\ indexToInfer' \in [Runners' -> Seq(Dialogues')]
       /\ pc' \in [Runners' -> {"rollout", "gather", "turn", "done"}]
       /\ outputs' \in [Runners' -> Seq(Seq(TokensIn(setup')))]
  BY <1>1, <1>2, <1>3, <1>7, <1>8, Zenon DEF T
<1>13. \A q \in Runners' :
        /\ Running(q)' \subseteq Own(q)'
        /\ Running(q)' # {} => turn'[q] <= setup'.maxTurns
        /\ pc'[q] \in {"gather", "turn"} => Answers(q)'
  BY <1>1, <1>2, <1>3, <1>9, Zenon
<1>14. QED
  BY <1>11, <1>12, <1>13, Zenon DEF RunnersInv

\* All ranks leave the collective for the same place.
LEMMA GatherKeepsRunners ==
    ASSUME RunnersInv, Gather
    PROVE  RunnersInv'
<1>1. /\ setup \in Setups
      /\ pc \in [Runners -> {"rollout", "gather", "turn", "done"}]
      /\ turn \in [Runners -> Nat \ {0}]
      /\ indexToInfer \in [Runners -> Seq(Dialogues)]
      /\ outputs \in [Runners -> Seq(Seq(TokensIn(setup)))]
      /\ \A q \in Runners :
        /\ Running(q) \subseteq Own(q)
        /\ Running(q) # {} => turn[q] <= setup.maxTurns
        /\ pc[q] \in {"gather", "turn"} => Answers(q)
      /\ setup.colocate => \A x, y \in Runners : Round(x) = Round(y)
  BY Zenon DEF RunnersInv
<1>2. /\ setup' = setup /\ indexToInfer' = indexToInfer /\ turn' = turn
      /\ outputs' = outputs /\ requests' = requests /\ results' = results
      /\ setup.colocate /\ \A r \in Runners : pc[r] = "gather"
      /\ pc' = [r \in Runners |->
          IF \E q \in Runners : indexToInfer[q] # <<>> THEN "turn" ELSE "done"]
  BY DEF Gather
<1>3. /\ Runners' = Runners /\ Dialogues' = Dialogues
      /\ \A q : Running(q)' = Running(q) /\ Own(q)' = Own(q)
  BY <1>2 DEF Runners, Dialogues, Running, Own
<1>4. pc' \in [Runners -> {"rollout", "gather", "turn", "done"}]
  BY <1>2
<1>5. \A q \in Runners : Answers(q)'
  BY <1>1, <1>2, Zenon DEF Answers
<1>6. \A x, y \in Runners : turn[x] = turn[y]
  <2>1. ASSUME NEW x \in Runners, NEW y \in Runners PROVE turn[x] = turn[y]
    <3>1. turn[x] - 1 = turn[y] - 1
      BY <1>1, <1>2 DEF Round
    <3>2. turn[x] \in Nat /\ turn[y] \in Nat
      BY <1>1
    <3>3. QED
      BY <3>1, <3>2
  <2>2. QED
    BY <2>1
<1>7. \A x, y \in Runners : Round(x)' = Round(y)'
  <2>1. ASSUME NEW x \in Runners, NEW y \in Runners PROVE Round(x)' = Round(y)'
    <3>1. pc'[x] = pc'[y] /\ turn'[x] = turn'[y]
      BY <1>2, <1>6
    <3>2. QED
      BY <3>1, Zenon DEF Round
  <2>2. QED
    BY <2>1
<1>8. /\ setup' \in Setups
      /\ turn' \in [Runners' -> Nat \ {0}]
      /\ indexToInfer' \in [Runners' -> Seq(Dialogues')]
      /\ pc' \in [Runners' -> {"rollout", "gather", "turn", "done"}]
      /\ outputs' \in [Runners' -> Seq(Seq(TokensIn(setup')))]
  BY <1>1, <1>2, <1>3, <1>4, Zenon
<1>9. \A q \in Runners' :
        /\ Running(q)' \subseteq Own(q)'
        /\ Running(q)' # {} => turn'[q] <= setup'.maxTurns
        /\ pc'[q] \in {"gather", "turn"} => Answers(q)'
  BY <1>1, <1>2, <1>3, <1>5, Zenon
<1>10. QED
  BY <1>3, <1>7, <1>8, <1>9, Zenon DEF RunnersInv

-----------------------------------------------------------------------------
(* A runner's turn.                                                         *)

\* What a runner's turn does, given which of its dialogues stop, and what it was
\* answered.
Answer(r, d) == outputs[r][CHOOSE k \in DOMAIN indexToInfer[r] : indexToInfer[r][k] = d]
Taken(r, d) == TakeAnswer(requests[d], Answer(r, d))
Ended(r, d) == KeepLastTurn(Taken(r, d), Answer(r, d))
GoneOn(r, d) == KeepTurn(Taken(r, d), Answer(r, d), setup.scheduler[turn[r]], d, turn[r])
Left(r, stops) ==
    Selected(indexToInfer[r], [k \in DOMAIN indexToInfer[r] |-> indexToInfer[r][k] \notin stops])

TurnOf(r, stops) ==
    /\ pc[r] = "turn" /\ stops \subseteq Running(r)
    /\ turn[r] >= setup.maxTurns => stops = Running(r)
    /\ requests' = [d \in Dialogues |->
        IF d \in stops THEN Ended(r, d)
        ELSE IF d \in Running(r) THEN GoneOn(r, d) ELSE requests[d]]
    /\ results' = [d \in Dialogues |-> IF d \in stops
        THEN RolloutOutput(Ended(r, d), Answer(r, d), turn[r]) ELSE results[d]]
    /\ indexToInfer' = [indexToInfer EXCEPT ![r] = Left(r, stops)]
    /\ pc' = [pc EXCEPT ![r] =
        IF ~setup.colocate /\ Left(r, stops) = <<>> THEN "done" ELSE "rollout"]
    /\ turn' = [turn EXCEPT ![r] = turn[r] + 1]
    /\ outputs' = [outputs EXCEPT ![r] = <<>>]
    /\ setup' = setup

\* A runner's turn is such a turn.
LEMMA TurnIs ==
    ASSUME NEW r \in Runners, Turn(r)
    PROVE  \E stops : TurnOf(r, stops)
<1> DEFINE batch == indexToInfer[r]
           t == turn[r]
           answer(d) == outputs[r][CHOOSE k \in DOMAIN batch : batch[k] = d]
           taken == [d \in ToSet(batch) |-> TakeAnswer(requests[d], answer(d))]
<1>1. PICK finished \in SUBSET ToSet(batch) :
            LET stops == IF t >= setup.maxTurns THEN ToSet(batch) ELSE finished
                after == [d \in ToSet(batch) |->
                    IF d \in stops THEN KeepLastTurn(taken[d], answer(d))
                    ELSE KeepTurn(taken[d], answer(d), setup.scheduler[t], d, t)]
                next == Selected(batch, [k \in DOMAIN batch |-> batch[k] \notin stops])
            IN  /\ t >= setup.maxTurns => finished = {}
                /\ requests' = [d \in Dialogues |->
                    IF d \in ToSet(batch) THEN after[d] ELSE requests[d]]
                /\ results' = [d \in Dialogues |-> IF d \in stops
                    THEN RolloutOutput(after[d], answer(d), t) ELSE results[d]]
                /\ indexToInfer' = [indexToInfer EXCEPT ![r] = next]
                /\ pc' = [pc EXCEPT ![r] =
                    IF ~setup.colocate /\ next = <<>> THEN "done" ELSE "rollout"]
  BY Zenon DEF Turn
<1> DEFINE stops == IF t >= setup.maxTurns THEN ToSet(batch) ELSE finished
           after == [d \in ToSet(batch) |->
                    IF d \in stops THEN KeepLastTurn(taken[d], answer(d))
                    ELSE KeepTurn(taken[d], answer(d), setup.scheduler[t], d, t)]
<1>2. /\ pc[r] = "turn" /\ setup' = setup
      /\ turn' = [turn EXCEPT ![r] = turn[r] + 1]
      /\ outputs' = [outputs EXCEPT ![r] = <<>>]
  BY Zenon DEF Turn
<1>3. /\ requests' = [d \in Dialogues |->
            IF d \in ToSet(batch) THEN after[d] ELSE requests[d]]
      /\ results' = [d \in Dialogues |-> IF d \in stops
            THEN RolloutOutput(after[d], answer(d), t) ELSE results[d]]
      /\ indexToInfer' = [indexToInfer EXCEPT ![r] = Left(r, stops)]
      /\ pc' = [pc EXCEPT ![r] =
            IF ~setup.colocate /\ Left(r, stops) = <<>> THEN "done" ELSE "rollout"]
  BY <1>1, Zenon DEF Left
<1>4. stops \subseteq Running(r) /\ (turn[r] >= setup.maxTurns => stops = Running(r))
  BY DEF Running
<1> HIDE DEF stops
<1>5. \A d \in ToSet(batch) : taken[d] = Taken(r, d)
  BY Zenon DEF Taken, Answer
<1>6. \A d \in Dialogues :
        /\ (IF d \in ToSet(batch) THEN after[d] ELSE requests[d])
            = IF d \in stops THEN Ended(r, d)
              ELSE IF d \in Running(r) THEN GoneOn(r, d) ELSE requests[d]
        /\ (IF d \in stops THEN RolloutOutput(after[d], answer(d), t) ELSE results[d])
            = IF d \in stops THEN RolloutOutput(Ended(r, d), Answer(r, d), turn[r])
              ELSE results[d]
  <2>1. SUFFICES ASSUME NEW d \in Dialogues
                 PROVE  /\ (IF d \in ToSet(batch) THEN after[d] ELSE requests[d])
                            = IF d \in stops THEN Ended(r, d)
                              ELSE IF d \in Running(r) THEN GoneOn(r, d) ELSE requests[d]
                        /\ (IF d \in stops THEN RolloutOutput(after[d], answer(d), t)
                            ELSE results[d])
                            = IF d \in stops THEN RolloutOutput(Ended(r, d), Answer(r, d), turn[r])
                              ELSE results[d]
    OBVIOUS
  <2> DEFINE mine == ToSet(batch)
             x == answer(d)
  <2>2. x = Answer(r, d) /\ Running(r) = mine
    BY Zenon DEF Answer, Running
  <2>3. d \in mine => after[d] = IF d \in stops THEN KeepLastTurn(taken[d], x)
                                ELSE KeepTurn(taken[d], x, setup.scheduler[t], d, t)
    <3> HIDE DEF taken
    <3>1. QED
      BY Zenon
  <2>4. d \in mine => taken[d] = Taken(r, d)
    BY <1>5
  <2> HIDE DEF taken, x, after, mine
  <2>5. d \in mine => after[d] = IF d \in stops THEN Ended(r, d) ELSE GoneOn(r, d)
    BY <2>2, <2>3, <2>4, Zenon DEF Ended, GoneOn
  <2>6. d \in stops => d \in mine
    BY <1>4, <2>2
  <2>7. /\ (IF d \in mine THEN after[d] ELSE requests[d])
            = IF d \in stops THEN Ended(r, d)
              ELSE IF d \in Running(r) THEN GoneOn(r, d) ELSE requests[d]
        /\ (IF d \in stops THEN RolloutOutput(after[d], x, t) ELSE results[d])
            = IF d \in stops THEN RolloutOutput(Ended(r, d), Answer(r, d), turn[r])
              ELSE results[d]
    BY <2>2, <2>5, <2>6, Zenon
  <2>8. QED
    BY <2>7, Zenon DEF x, mine
<1> HIDE DEF after
<1>7. requests' = [d \in Dialogues |->
        IF d \in stops THEN Ended(r, d)
        ELSE IF d \in Running(r) THEN GoneOn(r, d) ELSE requests[d]]
  BY <1>3, <1>6, Zenon
<1>8. results' = [d \in Dialogues |-> IF d \in stops
        THEN RolloutOutput(Ended(r, d), Answer(r, d), turn[r]) ELSE results[d]]
  BY <1>3, <1>6, Zenon
<1>9. TurnOf(r, stops)
  BY <1>2, <1>3, <1>4, <1>7, <1>8, Zenon DEF TurnOf
<1>10. QED
  BY <1>9

\* The dialogues that go on are those that did not stop.
LEMMA LeftFacts ==
    ASSUME RunnersInv, NEW r \in Runners, NEW stops
    PROVE  /\ Left(r, stops) \in Seq(Dialogues)
           /\ \A d \in ToSet(Left(r, stops)) : d \in Running(r) /\ d \notin stops
<1> DEFINE batch == indexToInfer[r]
           mask == [k \in DOMAIN batch |-> batch[k] \notin stops]
           left == Selected(batch, mask)
<1>1. batch \in Seq(Dialogues)
  BY DEF RunnersInv
<1>2. DOMAIN batch = 1..Len(batch)
  BY <1>1, LenProperties
<1>3. \A k \in 1..Len(batch) : mask[k] <=> batch[k] \notin stops
  BY <1>2
<1>4. \A k \in 1..Len(batch) : batch[k] \in Running(r)
  BY <1>2 DEF Running, ToSet
<1>5. Left(r, stops) = left
  BY Zenon DEF Left
<1> HIDE DEF mask, left, batch
<1>6. left \in Seq(Dialogues)
  BY <1>1, KeptType DEF left
<1>7. ASSUME NEW d \in ToSet(left) PROVE d \in Running(r) /\ d \notin stops
  <2>1. PICK j \in 1..Len(left) : d = left[j]
    BY <1>6, LenProperties DEF ToSet
  <2>2. \E k \in 1..Len(batch) : mask[k] /\ left[j] = batch[k]
    <3>1. j \in 1..Len(Selected(batch, mask))
      BY DEF left
    <3>2. QED
      BY <1>1, <3>1, SelectedMembers DEF left
  <2>3. QED
    BY <1>3, <1>4, <2>1, <2>2
<1>8. QED
  BY <1>5, <1>6, <1>7

\* After its turn a runner has fewer dialogues, and none after the last turn.
LEMMA TurnKeepsRunners ==
    ASSUME RunnersInv, NEW r \in Runners, NEW stops, TurnOf(r, stops)
    PROVE  RunnersInv'
<1> DEFINE left == Left(r, stops)
           T == Seq(Seq(TokensIn(setup)))
<1>1. /\ setup \in Setups
      /\ pc \in [Runners -> {"rollout", "gather", "turn", "done"}]
      /\ turn \in [Runners -> Nat \ {0}]
      /\ indexToInfer \in [Runners -> Seq(Dialogues)]
      /\ outputs \in [Runners -> T]
      /\ \A q \in Runners :
        /\ Running(q) \subseteq Own(q)
        /\ Running(q) # {} => turn[q] <= setup.maxTurns
        /\ pc[q] \in {"gather", "turn"} => Answers(q)
      /\ setup.colocate => \A x, y \in Runners : Round(x) = Round(y)
  BY Zenon DEF RunnersInv
<1>2. /\ pc[r] = "turn" /\ (turn[r] >= setup.maxTurns => stops = Running(r))
      /\ indexToInfer' = [indexToInfer EXCEPT ![r] = left]
      /\ pc' = [pc EXCEPT ![r] =
            IF ~setup.colocate /\ left = <<>> THEN "done" ELSE "rollout"]
      /\ turn' = [turn EXCEPT ![r] = turn[r] + 1]
      /\ outputs' = [outputs EXCEPT ![r] = <<>>]
      /\ setup' = setup
  BY Zenon DEF TurnOf
<1>3. Runners' = Runners /\ Dialogues' = Dialogues /\ \A q : Own(q)' = Own(q)
  BY <1>2 DEF Runners, Dialogues, Own
<1>4. left \in Seq(Dialogues) /\ \A d \in ToSet(left) : d \in Running(r) /\ d \notin stops
  BY LeftFacts
<1> HIDE DEF left
<1>5. /\ indexToInfer' \in [Runners -> Seq(Dialogues)]
      /\ indexToInfer'[r] = left
      /\ \A q \in Runners : q # r => indexToInfer'[q] = indexToInfer[q]
  <2> DEFINE D == Seq(Dialogues)
  <2>1. left \in D /\ indexToInfer \in [Runners -> D]
    BY <1>1, <1>4
  <2> HIDE DEF D
  <2>2. /\ indexToInfer' \in [Runners -> D]
        /\ indexToInfer'[r] = left
        /\ \A q \in Runners : q # r => indexToInfer'[q] = indexToInfer[q]
    BY <1>2, <2>1
  <2>3. QED
    BY <2>2 DEF D
<1>6. outputs' \in [Runners -> T] /\ \A q \in Runners : q # r => outputs'[q] = outputs[q]
  <2>1. <<>> \in T
    BY EmptySeq
  <2> HIDE DEF T
  <2>2. QED
    BY <1>1, <1>2, <2>1
<1> HIDE DEF T
<1>7. /\ pc' \in [Runners -> {"rollout", "gather", "turn", "done"}]
      /\ pc'[r] \in {"done", "rollout"}
      /\ \A q \in Runners : q # r => pc'[q] = pc[q]
  BY <1>1, <1>2
<1>8. /\ turn' \in [Runners -> Nat \ {0}] /\ turn'[r] = turn[r] + 1
      /\ turn[r] \in Nat
      /\ \A q \in Runners : q # r => turn'[q] = turn[q]
  BY <1>1, <1>2
<1>9. Running(r)' = ToSet(left) /\ \A q \in Runners : q # r => Running(q)' = Running(q)
  BY <1>5 DEF Running
<1>10. Running(r)' \subseteq Running(r) /\ (Running(r)' # {} => turn'[r] <= setup.maxTurns)
  <2>1. setup.maxTurns \in Nat
    BY <1>1, SetupFacts
  <2>2. ToSet(left) # {} => ~(turn[r] >= setup.maxTurns)
    BY <1>2, <1>4
  <2>3. QED
    BY <1>4, <1>8, <1>9, <2>1, <2>2
<1>11. ASSUME NEW q \in Runners
       PROVE  /\ Running(q)' \subseteq Own(q)'
              /\ Running(q)' # {} => turn'[q] <= setup'.maxTurns
              /\ pc'[q] \in {"gather", "turn"} => Answers(q)'
              /\ Round(q)' = Round(q)
  <2>1. CASE q = r
    <3>1. Running(r)' \subseteq Own(r)'
      BY <1>1, <1>3, <1>10
    <3>2. Running(r)' # {} => turn'[r] <= setup'.maxTurns
      BY <1>2, <1>10
    <3>3. ~(pc'[r] \in {"gather", "turn"}) /\ pc'[r] # "turn"
      BY <1>7
    <3>4. Round(r)' = Round(r)
      <4>1. Round(r) = turn[r]
        BY <1>2 DEF Round
      <4>2. Round(r)' = turn'[r] - 1
        BY <3>3 DEF Round
      <4>3. QED
        BY <1>8, <4>1, <4>2
    <3>5. QED
      BY <2>1, <3>1, <3>2, <3>3, <3>4
  <2>2. CASE q # r
    <3>1. /\ Running(q)' = Running(q) /\ Own(q)' = Own(q) /\ pc'[q] = pc[q]
          /\ turn'[q] = turn[q] /\ outputs'[q] = outputs[q]
          /\ indexToInfer'[q] = indexToInfer[q]
      BY <1>3, <1>5, <1>6, <1>7, <1>8, <1>9, <2>2
    <3>2. Answers(q) => Answers(q)'
      BY <1>2, <3>1, Zenon DEF Answers
    <3>3. Round(q)' = Round(q)
      BY <3>1, Zenon DEF Round
    <3>4. QED
      BY <1>1, <1>2, <3>1, <3>2, <3>3, Zenon
  <2>3. QED
    BY <2>1, <2>2
<1>12. setup'.colocate => \A x, y \in Runners' : Round(x)' = Round(y)'
  BY <1>1, <1>2, <1>3, <1>11, ZenonT(40)
<1>13. /\ setup' \in Setups
       /\ turn' \in [Runners' -> Nat \ {0}]
       /\ indexToInfer' \in [Runners' -> Seq(Dialogues')]
       /\ pc' \in [Runners' -> {"rollout", "gather", "turn", "done"}]
       /\ outputs' \in [Runners' -> Seq(Seq(TokensIn(setup')))]
  BY <1>1, <1>2, <1>3, <1>5, <1>6, <1>7, <1>8, Zenon DEF T
<1>14. \A q \in Runners' :
        /\ Running(q)' \subseteq Own(q)'
        /\ Running(q)' # {} => turn'[q] <= setup'.maxTurns
        /\ pc'[q] \in {"gather", "turn"} => Answers(q)'
  BY <1>3, <1>11, Zenon
<1>15. QED
  BY <1>12, <1>13, <1>14, Zenon DEF RunnersInv

\* A step that changes nothing.
LEMMA StutterKeepsRunners ==
    ASSUME RunnersInv, UNCHANGED vars
    PROVE  RunnersInv'
BY DEF RunnersInv, vars, Runners, Dialogues, Running, Own, Answers, Round

-----------------------------------------------------------------------------
(* The invariant of the dialogues and of the results is kept.               *)

\* What is said of one result in a state is said of it in the next.
LEMMA OwnResultNext ==
    ASSUME setup' = setup, NEW d, NEW out, results'[d] = out, OwnResult(out, d)
    PROVE  OwnResult(results[d], d)'
<1>1. Said(results[d])' = Said(out)
  BY Zenon DEF Said
<1>2. QED
  BY <1>1, Zenon DEF OwnResult

\* Of the steps its dialogue took.
LEMMA StepsTakenNext ==
    ASSUME setup' = setup, NEW d, NEW out, results'[d] = out
    PROVE  /\ StepsTaken(results[d])' = StepsTaken(out)
           /\ LosesLastTurn(results[d])' <=> LosesLastTurn(out)
           /\ Regular(results[d])' <=> Regular(out)
<1>1. StepsTaken(results[d])' = StepsTaken(out)
  BY Zenon DEF StepsTaken
<1>2. LosesLastTurn(results[d])' <=> LosesLastTurn(out)
  BY <1>1, Zenon DEF LosesLastTurn
<1>3. Regular(results[d])' <=> Regular(out)
  BY <1>1, Zenon DEF Regular
<1>4. QED
  BY <1>1, <1>2, <1>3

\* Of the tokens it is trained on.
LEMMA TrainsResultNext ==
    ASSUME setup' = setup, NEW d, NEW out, results'[d] = out, TrainsResult(out)
    PROVE  TrainsResult(results[d])'
<1>1. /\ IdsReplaceable(results[d])' <=> IdsReplaceable(out)
  BY Zenon DEF IdsReplaceable
<1>2. \A k : TokensOf(results[d], k)' = TokensOf(out, k)
  BY Zenon DEF TokensOf, IsReplaced, PartOf
<1>3. QED
  BY <1>1, <1>2, StepsTakenNext, Zenon DEF TrainsResult

\* Of its log-probabilities.
LEMMA LogprobsResultNext ==
    ASSUME setup' = setup, NEW d, NEW out, results'[d] = out, LogprobsResult(out)
    PROVE  LogprobsResult(results[d])'
<1>1. /\ IdsReplaceable(results[d])' <=> IdsReplaceable(out)
      /\ MergedLogprobs(results[d])' = MergedLogprobs(out)
  BY Zenon DEF IdsReplaceable, MergedLogprobs
<1>2. CompletionTokens(results[d])' = CompletionTokens(out)
  <2>1. \A k : TrainedOf(results[d], k)' = TrainedOf(out, k)
    BY Zenon DEF TrainedOf, TokensOf, IsReplaced, PartOf
  <2>2. QED
    BY <2>1, Zenon DEF CompletionTokens
<1>3. UsesLogprobs(results[d])' <=> UsesLogprobs(out)
  BY <1>1, <1>2, Zenon DEF UsesLogprobs
<1>4. QED
  BY <1>1, <1>2, <1>3, StepsTakenNext, Zenon DEF LogprobsResult

\* The invariant of the results: each has the three properties.
ResultsInv ==
    \A d \in Finished :
        /\ OwnResult(results[d], d)
        /\ TrainsResult(results[d])
        /\ LogprobsResult(results[d])

\* No message but a dummy is without a text.
LEMMA TextsAreTexts ==
    ASSUME NEW S, None \notin Seq(S), NEW messages \in Seq(Texts(S)), NEW result
    PROVE  DummyLast(messages, result)
<1>1. ASSUME NEW k \in DOMAIN messages PROVE messages[k].content # None
  <2>1. k \in 1..Len(messages)
    BY LenProperties
  <2>2. messages[k] \in Texts(S)
    BY <2>1, ElementOfSeq
  <2>3. messages[k].content \in Seq(S)
    BY <2>2 DEF Texts
  <2>4. QED
    BY <2>3
<1>2. QED
  BY <1>1, Zenon DEF DummyLast

\* With a dummy, the dummy is the last.
LEMMA OpenDummyLast ==
    ASSUME NEW S, None \notin Seq(S), NEW b \in Seq(Texts(S))
    PROVE  DummyLast(Open(b), NoResult)
<1>1. CASE ~Continued(b)
  <2>1. Open(b) = b
    BY <1>1 DEF Open
  <2>2. QED
    BY <2>1, TextsAreTexts
<1>2. CASE Continued(b)
  <2> DEFINE o == Append(b, Dummy)
             T == Texts(S) \cup {Dummy}
  <2>1. Open(b) = o
    BY <1>2 DEF Open
  <2>2. b \in Seq(T) /\ Dummy \in T
    <3> DEFINE U == Texts(S)
    <3>1. U \subseteq T /\ b \in Seq(U)
      OBVIOUS
    <3> HIDE DEF U, T
    <3>2. b \in Seq(T)
      BY <3>1, SeqMonotonic
    <3>3. QED
      BY <3>2 DEF T
  <2> HIDE DEF T
  <2>3. /\ Len(o) = Len(b) + 1 /\ Len(b) \in Nat /\ DOMAIN o = 1..Len(o)
        /\ \A k \in 1..Len(b) : o[k] = b[k]
    BY <2>2, AppendProperties, LenProperties
  <2>4. \A k \in 1..Len(b) : b[k].content # None
    <3>1. \A k \in 1..Len(b) : b[k] \in Texts(S)
      BY ElementOfSeq
    <3>2. QED
      BY <3>1 DEF Texts
  <2> HIDE DEF o
  <2>5. \A k \in DOMAIN o : o[k].content = None => k = Len(o) /\ NoResult = NoResult
    <3>1. ASSUME NEW k \in DOMAIN o, k # Len(o) PROVE o[k].content # None
      <4>1. k \in 1..Len(b)
        BY <2>3, <3>1
      <4>2. QED
        BY <2>3, <2>4, <4>1
    <3>2. QED
      BY <3>1
  <2>6. DummyLast(o, NoResult)
    BY <2>5, Zenon DEF DummyLast
  <2>7. QED
    BY <2>1, <2>6
<1>3. QED
  BY <1>1, <1>2

\* A dialogue before its first turn.
LEMMA NewTalk ==
    ASSUME NEW s \in Setups, NEW d
    PROVE  /\ Talk(s, NewRequest, d, 1)
           /\ NewRequest \in Requests(TokensIn(s))
           /\ DummyLast(NewRequest.messages, NoResult)
<1> DEFINE S == TokensIn(s)
           q == NewRequest
           none == <<>>
           m == Message("user", none)
           b == <<m>>
<1>1. None \notin Seq(S) /\ none \in Seq(S) /\ none \in Seq(Seq(S))
      /\ none \in Seq(Seq(BOOLEAN)) /\ none \in Seq(BOOLEAN) /\ Len(none) = 0
  <2>1. None \notin Seq(S)
    BY TokensAre
  <2>2. QED
    BY <2>1, EmptySeq
<1>2. /\ q.messages = b /\ q.continues = FALSE
      /\ q.ids = none /\ q.mask = none /\ q.logprobs = none
      /\ q = [messages |-> b, continues |-> FALSE, ids |-> none, mask |-> none,
              logprobs |-> none]
  BY Zenon DEF NewRequest
<1> HIDE DEF S, q, none
<1>3. m \in Texts(S) /\ m.content = none /\ m.role = "user"
  BY <1>1 DEF Texts, Message
<1> DEFINE X == Texts(S)
           Y == Texts(S) \cup {Dummy}
<1>4. /\ b \in Seq(X) /\ b \in Seq(Y) /\ Len(b) = 1 /\ b[1] = m /\ DOMAIN b = {1}
      /\ b # <<>> /\ Last(b) = m
  <2>1. m \in X /\ m \in Y
    BY <1>3
  <2> HIDE DEF X, Y, m
  <2>2. QED
    BY <2>1, EmptySeq DEF Last
<1>5. q \in Requests(S)
  <2> DEFINE I == Seq(Seq(S))
             M == Seq(Seq(BOOLEAN))
             Z == Seq(Y)
  <2>1. b \in Z /\ none \in I /\ none \in M
    BY <1>1, <1>4
  <2> HIDE DEF I, M, Z, b
  <2>2. q \in [messages : Z, continues : BOOLEAN, ids : I, mask : M, logprobs : I]
    BY <1>2, <2>1
  <2>3. QED
    BY <2>2, Zenon DEF Requests, I, M, Z
<1>6. SpokenOf(q.messages) = b
  BY <1>1, <1>2, <1>3, <1>4 DEF SpokenOf
<1>7. ~Continued(b)
  BY <1>3, <1>4 DEF Continued
<1>8. q.messages = Open(b)
  BY <1>2, <1>7 DEF Open
<1>9. Contents(b) \in Seq(Seq(S)) /\ Contents(b) = <<none>>
  <2>1. Contents(b) = [k \in {1} |-> none]
    <3> HIDE DEF b
    <3>1. QED
      BY <1>3, <1>4 DEF Contents
  <2> DEFINE T == Seq(S)
  <2>2. none \in T
    BY <1>1
  <2> HIDE DEF T
  <2>3. [k \in {1} |-> none] = <<none>> /\ <<none>> \in Seq(T)
    BY <2>2
  <2>4. QED
    BY <2>1, <2>3 DEF T
<1>10. Text(b) = none
  BY <1>1, <1>9, FlattenOne DEF Text
<1>11. ModelTexts(b) = none
  <2> DEFINE c == Contents(b)
             mask == ByModel(b)
             T == Seq(S)
  <2>1. mask[1] = FALSE
    <3> HIDE DEF b
    <3>1. QED
      BY <1>3, <1>4 DEF ByModel
  <2>2. c \in Seq(T) /\ Len(c) = 1
    BY <1>9
  <2> HIDE DEF c, mask, T
  <2>3. \A k \in 1..Len(c) : mask[k] = FALSE
    BY <2>1, <2>2
  <2>4. Selected(c, mask) = none
    BY <2>2, <2>3, SelectedNothing DEF none
  <2>5. QED
    BY <2>4 DEF ModelTexts, c, mask
<1>12. FlattenSeq(none) = none
  BY <1>1, FlattenNone DEF none
<1>13. Masked(none, none) = none
  BY <1>12, SelectedNone DEF Masked, none
<1>14. StepsBefore(s, 1) = {}
  BY StepsGrow
<1> HIDE DEF b, m, X, Y
<1>15. OwnText(Text(b), d, 0)
  <2>1. DOMAIN none = {}
    BY <1>1, LenProperties
  <2>2. QED
    BY <1>10, <2>1 DEF OwnText
<1>16. IdsInv(s, q, b, 1)
  <2>1. SameLengths(none, none)
    <3>1. DOMAIN none = {}
      BY <1>1, LenProperties
    <3>2. QED
      BY <3>1 DEF SameLengths
  <2>2. QED
    BY <1>2, <1>11, <2>1 DEF IdsInv, none
<1>17. LogprobsInv(s, q, 1)
  <2>1. Len(none) >= Len(none) /\ 1 - 1 = 0 /\ ~(1 > 1)
    BY <1>1
  <2>2. \A style \in StepsBefore(s, 1) : style.ids
    BY <1>14
  <2>3. QED
    BY <1>2, <1>12, <1>13, <2>1, <2>2 DEF LogprobsInv, none
<1>18. Talk(s, q, d, 1)
  <2>1. 1 - 1 = 0 /\ ~(1 > 1)
    OBVIOUS
  <2>2. Texts(S) = X
    BY DEF X
  <2>3. b \in Seq(Texts(S)) /\ b # <<>>
    BY <1>4, <2>2
  <2>4. QED
    BY <1>5, <1>6, <1>7, <1>8, <1>15, <1>16, <1>17, <2>1, <2>3 DEF Talk, S
<1>19. DummyLast(q.messages, NoResult)
  <2>1. b \in Seq(Texts(S))
    BY <1>4 DEF X
  <2>2. QED
    BY <1>1, <1>8, <2>1, OpenDummyLast
<1>20. QED
  BY <1>5, <1>18, <1>19 DEF q, S

\* The dialogues at the start.
LEMMA InitDialogues ==
    ASSUME Init
    PROVE  DialoguesInv /\ ResultsInv
<1>1. /\ setup \in Setups
      /\ turn = [r \in Runners |-> 1]
      /\ requests = [d \in Dialogues |-> NewRequest]
      /\ results = [d \in Dialogues |-> NoResult]
      /\ RunnersInv
  BY InitRunners DEF Init
<1>2. \A d \in Dialogues : results[d] = NoResult /\ requests[d] = NewRequest
  BY <1>1
<1>3. \A r \in Runners : \A d \in Running(r) : d \in Dialogues
  BY <1>1 DEF RunnersInv, Dialogues, Own
<1>4. \A d : /\ Talk(setup, NewRequest, d, 1)
             /\ NewRequest \in Requests(TokensIn(setup))
             /\ DummyLast(NewRequest.messages, NoResult)
  BY <1>1, NewTalk
<1>5. \A r \in Runners : turn[r] = 1
  BY <1>1
<1>6. DOMAIN requests = Dialogues /\ DOMAIN results = Dialogues
  BY <1>1
<1>7. DialoguesInv
  BY <1>2, <1>3, <1>4, <1>5, <1>6, Zenon DEF DialoguesInv
<1>8. Finished = {}
  BY <1>2 DEF Finished
<1>9. QED
  BY <1>7, <1>8 DEF ResultsInv

\* No dialogue is another runner's too.
LEMMA OwnApart ==
    ASSUME setup \in Setups, NEW r \in Runners, NEW q \in Runners, NEW d \in Own(r), d \in Own(q)
    PROVE  r = q
<1>1. \A d1, d2 \in DOMAIN setup.dialogues :
        ToSet(setup.dialogues[d1]) \cap ToSet(setup.dialogues[d2]) # {} => d1 = d2
  BY MultiTurnAssumption
<1>2. r \in DOMAIN setup.dialogues /\ q \in DOMAIN setup.dialogues
  BY DEF Runners
<1>3. ToSet(setup.dialogues[r]) \cap ToSet(setup.dialogues[q]) # {}
  BY DEF Own
<1>4. QED
  BY <1>1, <1>2, <1>3, Zenon

\* The answer that a runner takes for a dialogue is this dialogue's.
LEMMA AnswerIs ==
    ASSUME RunnersInv, NEW r \in Runners, pc[r] = "turn", NEW d \in Running(r)
    PROVE  /\ IsAnswer(setup, Answer(r, d), d, turn[r])
           /\ d \in DialoguesOf(setup) /\ d \in Dialogues /\ d \in Own(r)
           /\ turn[r] \in 1..setup.maxTurns
<1> DEFINE batch == indexToInfer[r]
           k == CHOOSE j \in DOMAIN batch : batch[j] = d
<1>1. /\ setup \in Setups /\ batch \in Seq(Dialogues) /\ turn[r] \in Nat \ {0}
      /\ Running(r) \subseteq Own(r) /\ turn[r] <= setup.maxTurns /\ Answers(r)
  BY DEF RunnersInv
<1>2. DOMAIN batch = 1..Len(batch) /\ setup.maxTurns \in Nat
  BY <1>1, LenProperties, SetupFacts
<1>3. k \in DOMAIN batch /\ batch[k] = d
  <2>1. \E j \in DOMAIN batch : batch[j] = d
    BY DEF Running, ToSet
  <2>2. QED
    BY <2>1, Zenon
<1>4. Answer(r, d) = outputs[r][k]
  BY Zenon DEF Answer
<1> HIDE DEF k, batch
<1>5. IsAnswer(setup, outputs[r][k], batch[k], turn[r])
  BY <1>1, <1>2, <1>3 DEF Answers, batch
<1>6. d \in Own(r) /\ d \in DialoguesOf(setup) /\ d \in Dialogues
  BY <1>1, Zenon DEF Own, DialoguesOf, Dialogues, Runners
<1>7. QED
  BY <1>1, <1>2, <1>3, <1>4, <1>5, <1>6

\* A dialogue that goes on.
LEMMA TalkGoesOn ==
    ASSUME RunnersInv, DialoguesInv, NEW r \in Runners, pc[r] = "turn", NEW d \in Running(r),
           ~(turn[r] >= setup.maxTurns)
    PROVE  /\ Talk(setup, GoneOn(r, d), d, turn[r] + 1)
           /\ GoneOn(r, d) \in Requests(TokensIn(setup))
           /\ DummyLast(GoneOn(r, d).messages, NoResult)
<1> DEFINE t == turn[r]
           a == Answer(r, d)
           q == requests[d]
           S == TokensIn(setup)
<1>1. /\ setup \in Setups /\ IsAnswer(setup, a, d, t) /\ d \in DialoguesOf(setup)
      /\ t \in 1..setup.maxTurns
  BY AnswerIs DEF RunnersInv
<1>2. Talk(setup, q, d, t)
  BY DEF DialoguesInv
<1>3. t \in 1..setup.maxTurns - 1
  BY <1>1, SetupFacts
<1>4. GoneOn(r, d) = KeepTurn(TakeAnswer(q, a), a, setup.scheduler[t], d, t)
  BY Zenon DEF GoneOn, Taken
<1> HIDE DEF t, a, q
<1>5. Talk(setup, KeepTurn(TakeAnswer(q, a), a, setup.scheduler[t], d, t), d, t + 1)
  BY <1>1, <1>2, <1>3, GoesOn
<1> DEFINE after == GoneOn(r, d)
           b == SpokenOf(after.messages)
<1>6. Talk(setup, after, d, t + 1)
  BY <1>4, <1>5, Zenon
<1> HIDE DEF after
<1>7. after \in Requests(S) /\ after.messages = Open(b) /\ b \in Seq(Texts(S))
  BY <1>6 DEF Talk
<1>8. None \notin Seq(S)
  BY <1>1, TokensAre
<1>9. DummyLast(after.messages, NoResult)
  <2> HIDE DEF b, S
  <2>1. DummyLast(Open(b), NoResult)
    BY <1>7, <1>8, OpenDummyLast
  <2>2. QED
    BY <1>7, <2>1
<1>10. QED
  BY <1>6, <1>7, <1>9 DEF after, t

\* A dialogue that ends.
LEMMA TalkEnds ==
    ASSUME RunnersInv, DialoguesInv, NEW r \in Runners, pc[r] = "turn", NEW d \in Running(r),
           NEW out, out = RolloutOutput(Ended(r, d), Answer(r, d), turn[r])
    PROVE  /\ Ended(r, d) \in Requests(TokensIn(setup))
           /\ DummyLast(Ended(r, d).messages, out)
           /\ OwnResult(out, d) /\ TrainsResult(out) /\ LogprobsResult(out)
<1> DEFINE t == turn[r]
           a == Answer(r, d)
           q == requests[d]
           S == TokensIn(setup)
           last == Ended(r, d)
           w == Say(SpokenOf(q.messages), a)
<1>1. /\ setup \in Setups /\ IsAnswer(setup, a, d, t) /\ d \in DialoguesOf(setup)
      /\ t \in 1..setup.maxTurns
  BY AnswerIs DEF RunnersInv
<1>2. Talk(setup, q, d, t)
  BY DEF DialoguesInv
<1>3. last = KeepLastTurn(TakeAnswer(q, a), a)
  BY Zenon DEF Ended, Taken
<1>4. out = RolloutOutput(last, a, t)
  OBVIOUS
<1> HIDE DEF t, a, q, last
<1>5. Ends(q, a, d, t, last, out)
  BY <1>1, <1>2, <1>3, <1>4, Zenon DEF Ends
<1>6. OwnResult(out, d) /\ TrainsResult(out) /\ LogprobsResult(out)
  BY <1>5, EndsWithOwnTurns, EndsTrainingWhatWasSaid, EndsWithItsLogprobs
<1>7. last \in Requests(S) /\ last.messages = w /\ w \in Seq(Texts(S))
  <2>1. LET b == SpokenOf(q.messages)
            U == TokensIn(setup)
            v == Say(b, a)
        IN  last \in Requests(U) /\ last.messages = v /\ v \in Seq(Texts(U))
    BY <1>5, EndsFacts
  <2>2. QED
    BY <2>1, Zenon
<1>8. None \notin Seq(S)
  BY <1>1, TokensAre
<1> HIDE DEF S, w
<1>9. DummyLast(w, out)
  BY <1>7, <1>8, TextsAreTexts
<1>10. QED
  BY <1>6, <1>7, <1>9 DEF S, last

\* What a turn leaves of each dialogue.
LEMMA TurnKeepsDialogues ==
    ASSUME RunnersInv, DialoguesInv, ResultsInv,
           NEW r \in Runners, NEW stops, TurnOf(r, stops)
    PROVE  DialoguesInv' /\ ResultsInv'
<1> DEFINE left == Left(r, stops)
           S == TokensIn(setup)
           goes(d) == GoneOn(r, d)
           ends(d) == Ended(r, d)
           out(d) == RolloutOutput(Ended(r, d), Answer(r, d), turn[r])
<1>1. /\ pc[r] = "turn" /\ stops \subseteq Running(r)
      /\ turn[r] >= setup.maxTurns => stops = Running(r)
      /\ requests' = [d \in Dialogues |->
          IF d \in stops THEN Ended(r, d)
          ELSE IF d \in Running(r) THEN GoneOn(r, d) ELSE requests[d]]
      /\ results' = [d \in Dialogues |-> IF d \in stops
          THEN RolloutOutput(Ended(r, d), Answer(r, d), turn[r]) ELSE results[d]]
      /\ indexToInfer' = [indexToInfer EXCEPT ![r] = Left(r, stops)]
      /\ turn' = [turn EXCEPT ![r] = turn[r] + 1]
      /\ setup' = setup
  BY Zenon DEF TurnOf
<1>2. /\ setup \in Setups /\ indexToInfer \in [Runners -> Seq(Dialogues)]
      /\ turn \in [Runners -> Nat \ {0}]
      /\ \A x \in Runners : Running(x) \subseteq Own(x)
  BY Zenon DEF RunnersInv
<1>3. /\ \A d \in Dialogues : requests[d] \in Requests(S)
      /\ \A x \in Runners : \A d \in Running(x) :
          results[d] = NoResult /\ Talk(setup, requests[d], d, turn[x])
      /\ \A d \in Dialogues : DummyLast(requests[d].messages, results[d])
  BY Zenon DEF DialoguesInv
<1>4. Runners' = Runners /\ Dialogues' = Dialogues
  BY <1>1 DEF Runners, Dialogues
<1>5. \A x \in Runners : Running(x) \subseteq Dialogues
  BY <1>2 DEF Own, Dialogues
<1>6. /\ DOMAIN requests' = Dialogues /\ DOMAIN results' = Dialogues
      /\ \A d \in stops : requests'[d] = Ended(r, d)
            /\ results'[d] = RolloutOutput(Ended(r, d), Answer(r, d), turn[r])
      /\ \A d \in Running(r) : d \notin stops => requests'[d] = GoneOn(r, d)
      /\ \A d \in Dialogues : d \notin stops => results'[d] = results[d]
      /\ \A d \in Dialogues : d \notin Running(r) =>
            requests'[d] = requests[d] /\ results'[d] = results[d]
  <2>1. stops \subseteq Dialogues /\ Running(r) \subseteq Dialogues
    BY <1>1, <1>5
  <2>2. QED
    BY <1>1, <2>1, Zenon
<1>7. \A d \in ToSet(left) : d \in Running(r) /\ d \notin stops
  BY LeftFacts
<1> HIDE DEF left
<1>8. /\ Running(r)' = ToSet(left) /\ turn'[r] = turn[r] + 1
      /\ \A x \in Runners : x # r => Running(x)' = Running(x) /\ turn'[x] = turn[x]
  <2> DEFINE D == Seq(Dialogues)
  <2>1. indexToInfer \in [Runners -> D]
    BY <1>2
  <2> HIDE DEF D
  <2>2. indexToInfer'[r] = left /\ \A x \in Runners : x # r => indexToInfer'[x] = indexToInfer[x]
    BY <1>1, <2>1 DEF left
  <2>3. QED
    BY <1>1, <1>2, <2>2 DEF Running
<1>9. ASSUME NEW d \in stops
      PROVE  /\ requests'[d] \in Requests(S)
             /\ DummyLast(requests'[d].messages, results'[d])
             /\ OwnResult(results[d], d)' /\ TrainsResult(results[d])'
             /\ LogprobsResult(results[d])'
  <2>1. d \in Running(r)
    BY <1>1
  <2>2. PICK o : o = RolloutOutput(Ended(r, d), Answer(r, d), turn[r])
    OBVIOUS
  <2>3. /\ Ended(r, d) \in Requests(TokensIn(setup))
        /\ DummyLast(Ended(r, d).messages, o)
        /\ OwnResult(o, d) /\ TrainsResult(o) /\ LogprobsResult(o)
    BY <1>1, <2>1, <2>2, TalkEnds
  <2>4. results'[d] = o /\ requests'[d] = Ended(r, d)
    BY <1>6, <2>2
  <2>5. setup' = setup
    BY <1>1
  <2>6. OwnResult(results[d], d)' /\ TrainsResult(results[d])' /\ LogprobsResult(results[d])'
    BY <2>3, <2>4, <2>5, OwnResultNext, TrainsResultNext, LogprobsResultNext
  <2>7. QED
    BY <2>3, <2>4, <2>6, Zenon
<1>10. ASSUME NEW d \in Running(r), d \notin stops
       PROVE  /\ requests'[d] \in Requests(S) /\ results'[d] = NoResult
              /\ DummyLast(requests'[d].messages, results'[d])
              /\ Talk(setup, requests'[d], d, turn[r] + 1)
  <2>1. ~(turn[r] >= setup.maxTurns)
    BY <1>1, <1>10
  <2>2. /\ Talk(setup, GoneOn(r, d), d, turn[r] + 1)
        /\ GoneOn(r, d) \in Requests(TokensIn(setup))
        /\ DummyLast(GoneOn(r, d).messages, NoResult)
    BY <1>1, <2>1, TalkGoesOn
  <2>3. results'[d] = NoResult /\ requests'[d] = GoneOn(r, d)
    BY <1>3, <1>5, <1>6, <1>10
  <2>4. QED
    BY <2>2, <2>3, Zenon
<1>11. ASSUME NEW d \in Dialogues
       PROVE  requests'[d] \in Requests(S) /\ DummyLast(requests'[d].messages, results'[d])
  <2>1. CASE d \in stops
    BY <1>9, <2>1
  <2>2. CASE d \in Running(r) /\ d \notin stops
    BY <1>10, <2>2
  <2>3. CASE d \notin Running(r)
    BY <1>3, <1>6, <2>3
  <2>4. QED
    BY <1>1, <2>1, <2>2, <2>3
<1>12. ASSUME NEW x \in Runners, NEW d \in Running(x)'
       PROVE  results'[d] = NoResult /\ Talk(setup, requests'[d], d, turn'[x])
  <2>1. CASE x = r
    BY <1>7, <1>8, <1>10, <2>1
  <2>2. CASE x # r
    <3>1. d \in Running(x) /\ turn'[x] = turn[x]
      BY <1>8, <2>2
    <3>2. d \notin Running(r)
      BY <1>2, <2>2, <3>1, OwnApart
    <3>3. requests'[d] = requests[d] /\ results'[d] = results[d]
      BY <1>5, <1>6, <3>1, <3>2
    <3>4. QED
      BY <1>3, <3>1, <3>3
  <2>3. QED
    BY <2>1, <2>2
<1>13. DialoguesInv'
  <2>1. /\ DOMAIN requests' = Dialogues' /\ DOMAIN results' = Dialogues'
        /\ \A d \in Dialogues' : requests'[d] \in Requests(TokensIn(setup'))
        /\ \A x \in Runners' : \A d \in Running(x)' :
            results'[d] = NoResult /\ Talk(setup', requests'[d], d, turn'[x])
        /\ \A d \in Dialogues' : DummyLast(requests'[d].messages, results'[d])
    BY <1>1, <1>4, <1>6, <1>11, <1>12, Zenon DEF S
  <2>2. QED
    BY <2>1, Zenon DEF DialoguesInv
<1>14. ASSUME NEW d \in Finished'
       PROVE  /\ OwnResult(results[d], d)' /\ TrainsResult(results[d])'
              /\ LogprobsResult(results[d])'
  <2>1. d \in Dialogues /\ results'[d] # NoResult
    BY <1>4 DEF Finished
  <2>2. CASE d \in stops
    BY <1>9, <2>2
  <2>3. CASE d \notin stops
    <3>1. results'[d] = results[d] /\ d \in Finished
      BY <1>6, <2>1, <2>3 DEF Finished
    <3>2. PICK o : o = results[d]
      OBVIOUS
    <3>3. OwnResult(o, d) /\ TrainsResult(o) /\ LogprobsResult(o)
      BY <3>1, <3>2, Zenon DEF ResultsInv
    <3>4. results'[d] = o /\ setup' = setup
      BY <1>1, <3>1, <3>2
    <3>5. QED
      BY <3>3, <3>4, OwnResultNext, TrainsResultNext, LogprobsResultNext
  <2>4. QED
    BY <2>2, <2>3
<1>15. ResultsInv'
  BY <1>14, Zenon DEF ResultsInv
<1>16. QED
  BY <1>13, <1>15

\* And what every other step leaves of them: all.
LEMMA OthersKeepDialogues ==
    ASSUME DialoguesInv, ResultsInv,
           setup' = setup, requests' = requests, results' = results,
           \/ indexToInfer' = indexToInfer /\ turn' = turn
    PROVE  DialoguesInv' /\ ResultsInv'
<1>1. Runners' = Runners /\ Dialogues' = Dialogues /\ Finished' = Finished
  BY DEF Runners, Dialogues, Finished
<1>2. \A r : Running(r)' = Running(r)
  BY DEF Running
<1>3. DialoguesInv'
  BY <1>1, <1>2, Zenon DEF DialoguesInv
<1>4. ASSUME NEW d \in Finished'
      PROVE  /\ OwnResult(results[d], d)' /\ TrainsResult(results[d])'
             /\ LogprobsResult(results[d])'
  <2>1. PICK o : o = results[d]
    OBVIOUS
  <2>2. OwnResult(o, d) /\ TrainsResult(o) /\ LogprobsResult(o)
    BY <1>1, <2>1, Zenon DEF ResultsInv
  <2>3. results'[d] = o
    BY <2>1
  <2>4. QED
    BY <2>2, <2>3, OwnResultNext, TrainsResultNext, LogprobsResultNext
<1>5. ResultsInv'
  BY <1>4, Zenon DEF ResultsInv
<1>6. QED
  BY <1>3, <1>5

-----------------------------------------------------------------------------
(* The theorems.                                                            *)

\* The inductive invariant.
TurnsInv == RunnersInv /\ DialoguesInv /\ ResultsInv

\* It holds at the start, every step keeps it, and so it holds always.
LEMMA InitTurns ==
    Init => TurnsInv
BY InitRunners, InitDialogues DEF TurnsInv

LEMMA NextTurns ==
    TurnsInv /\ [Next]_vars => TurnsInv'
<1> SUFFICES ASSUME RunnersInv, DialoguesInv, ResultsInv, [Next]_vars
             PROVE  RunnersInv' /\ DialoguesInv' /\ ResultsInv'
  BY DEF TurnsInv
<1>1. ASSUME NEW r \in Runners, Rollout(r)
      PROVE  RunnersInv' /\ DialoguesInv' /\ ResultsInv'
  <2>1. RunnersInv'
    BY <1>1, RolloutKeepsRunners
  <2>2. /\ setup' = setup /\ requests' = requests /\ results' = results
        /\ indexToInfer' = indexToInfer /\ turn' = turn
    BY <1>1 DEF Rollout
  <2>3. QED
    BY <2>1, <2>2, OthersKeepDialogues
<1>2. ASSUME NEW r \in Runners, Turn(r)
      PROVE  RunnersInv' /\ DialoguesInv' /\ ResultsInv'
  <2>1. PICK stops : TurnOf(r, stops)
    BY <1>2, TurnIs
  <2>2. QED
    BY <2>1, TurnKeepsRunners, TurnKeepsDialogues
<1>3. CASE Gather
  <2>1. RunnersInv'
    BY <1>3, GatherKeepsRunners
  <2>2. /\ setup' = setup /\ requests' = requests /\ results' = results
        /\ indexToInfer' = indexToInfer /\ turn' = turn
    BY <1>3 DEF Gather
  <2>3. QED
    BY <2>1, <2>2, OthersKeepDialogues
<1>4. CASE UNCHANGED vars
  <2>1. /\ setup' = setup /\ requests' = requests /\ results' = results
        /\ indexToInfer' = indexToInfer /\ turn' = turn
    BY <1>4 DEF vars
  <2>2. QED
    BY <1>4, <2>1, StutterKeepsRunners, OthersKeepDialogues
<1>5. QED
  BY <1>1, <1>2, <1>3, <1>4 DEF Next

LEMMA TurnsAlways ==
    Spec => []TurnsInv
BY InitTurns, NextTurns, PTL DEF Spec

\* The tokens of the setup there is.
LEMMA TokensAreThose ==
    Tokens = TokensIn(setup)
BY DEF Tokens, TokensIn, Dialogues, Runners

\* Types are part of the invariant.
LEMMA TypesFollow ==
    TurnsInv => TypeOK
<1> SUFFICES ASSUME RunnersInv, DialoguesInv PROVE TypeOK
  BY DEF TurnsInv
<1> DEFINE S == TokensIn(setup)
<1>1. /\ setup \in Setups
      /\ pc \in [Runners -> {"rollout", "gather", "turn", "done"}]
      /\ turn \in [Runners -> Nat \ {0}]
  BY DEF RunnersInv
<1>2. ASSUME NEW r \in Runners
      PROVE  /\ outputs[r] \in Seq(Seq(S))
             /\ pc[r] \in {"gather", "turn"} => Len(outputs[r]) = Len(indexToInfer[r])
  <2> DEFINE T == Seq(Seq(S))
  <2>1. outputs \in [Runners -> T]
    BY Zenon DEF RunnersInv
  <2>2. pc[r] \in {"gather", "turn"} => Answers(r)
    BY Zenon DEF RunnersInv
  <2> HIDE DEF T
  <2>3. outputs[r] \in T
    BY <2>1
  <2>4. QED
    BY <2>2, <2>3 DEF Answers, T
<1>3. ASSUME NEW d \in Dialogues
      PROVE  LET q == requests[d] IN
             /\ q.ids \in Seq(Seq(S)) /\ q.logprobs \in Seq(Seq(S))
             /\ q.mask \in Seq(Seq(BOOLEAN))
             /\ \A k \in DOMAIN q.messages :
                  q.messages[k].content = None =>
                    k = Len(q.messages) /\ results[d] = NoResult
  <2> DEFINE q == requests[d]
  <2>1. q \in Requests(S) /\ DummyLast(q.messages, results[d])
    BY DEF DialoguesInv
  <2> HIDE DEF q, S
  <2>2. /\ q.ids \in Seq(Seq(S)) /\ q.logprobs \in Seq(Seq(S))
        /\ q.mask \in Seq(Seq(BOOLEAN))
    BY <2>1 DEF Requests
  <2>3. QED
    BY <2>1, <2>2, Zenon DEF DummyLast, q
<1>4. Tokens = S
  BY TokensAreThose
<1> HIDE DEF S
<1>5. QED
  BY <1>1, <1>2, <1>3, <1>4, Zenon DEF TypeOK

\* Every state of the loop is well-typed: a runner that takes its turn has an
\* answer to each of its dialogues, and a dummy message is the last of a dialogue
\* that awaits an answer.
THEOREM TypeCorrect ==
    Spec => []TypeOK
BY TurnsAlways, TypesFollow, PTL

\* The answers to a dialogue are all in its messages, turn after turn, and nothing
\* of another dialogue is, however many ranks generate together (_rollout and
\* _colocate_multi_turn_infer, MultiTurnScheduler.run).
THEOREM OwnTurnsAlways ==
    Spec => []OwnTurns
<1>1. TurnsInv => OwnTurns
  <2>1. SUFFICES ASSUME ResultsInv PROVE OwnTurns
    BY DEF TurnsInv
  <2>2. ASSUME NEW d \in Finished
        PROVE  LET out == results[d]
                   said == FlattenSeq([k \in DOMAIN out.messages |-> out.messages[k].content])
               IN  /\ out.turns <= setup.maxTurns
                   /\ \A j \in DOMAIN said : said[j].of = d
                   /\ \A t \in 1..out.turns :
                       \E j \in DOMAIN said : said[j].turn = t /\ said[j].place = 1
                   /\ \A j \in DOMAIN said : said[j].turn <= out.turns
                   /\ \A i, j \in DOMAIN said : i < j => said[i].turn <= said[j].turn
    <3> DEFINE out == results[d]
               said == FlattenSeq([k \in DOMAIN out.messages |-> out.messages[k].content])
    <3>1. OwnResult(out, d)
      BY <2>1, Zenon DEF ResultsInv
    <3>2. Said(out) = said
      BY Zenon DEF Said
    <3> HIDE DEF out
    <3>3. out.turns <= setup.maxTurns /\ OwnText(said, d, out.turns)
      BY <3>1, <3>2, Zenon DEF OwnResult
    <3> HIDE DEF said
    <3>4. /\ out.turns <= setup.maxTurns
          /\ \A j \in DOMAIN said : said[j].of = d
          /\ \A t \in 1..out.turns :
              \E j \in DOMAIN said : said[j].turn = t /\ said[j].place = 1
          /\ \A j \in DOMAIN said : said[j].turn <= out.turns
          /\ \A i, j \in DOMAIN said : i < j => said[i].turn <= said[j].turn
      BY <3>3, Zenon DEF OwnText
    <3>5. QED
      BY <3>4, Zenon DEF out, said
  <2>3. QED
    BY <2>2, Zenon DEF OwnTurns
<1>2. QED
  BY <1>1, TurnsAlways, PTL

\* The ids of a Regular scheduler stand for the text of the messages that they are
\* put into (replace_assistant_response_with_ids), and masks fit them, whatever
\* the turns did to the answers; except in the dialogues on a server whose last
\* turn answers a user after ids were kept (LosesLastTurn), of which it is false.
THEOREM TrainsWhatWasSaidAlways ==
    Spec => []TrainsWhatWasSaid
<1>1. TurnsInv => TrainsWhatWasSaid
  BY Zenon DEF TurnsInv, ResultsInv, TrainsResult, TrainsWhatWasSaid
<1>2. QED
  BY <1>1, TurnsAlways, PTL

\* Log-probabilities of the rollout are laid over the tokens they are of, or not
\* at all (rollout_per_token_logps of the trainer), where steps return ids with
\* masks or not at all; the dialogues of LosesLastTurn are left out here too.
THEOREM LogprobsOfTheirTokensAlways ==
    Spec => []LogprobsOfTheirTokens
<1>1. TurnsInv => LogprobsOfTheirTokens
  BY Zenon DEF TurnsInv, ResultsInv, LogprobsResult, LogprobsOfTheirTokens
<1>2. QED
  BY <1>1, TurnsAlways, PTL

=============================================================================
