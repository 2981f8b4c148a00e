--------------------------- MODULE SequenceLemmas ---------------------------
(***************************************************************************)
(* What the proofs need to know of the natural numbers and of the          *)
(* community modules' operators on sequences.                              *)
(*                                                                         *)
(* The library states induction for an operator P(_), which the provers    *)
(* cannot instantiate.  Its theorem that a well-founded relation has       *)
(* minimal elements is about a set, and gives induction over a set.        *)
(***************************************************************************)
EXTENDS Integers, SequencesExt, SequenceTheorems, WellFoundedInduction, TLAPS

-----------------------------------------------------------------------------
(* Induction.                                                               *)

Less == {ss \in Nat \X Nat : ss[1] < ss[2]}

LEMMA LessPair ==
    ASSUME NEW m \in Nat, NEW n \in Nat
    PROVE  <<m, n>> \in Less <=> m < n
BY Zenon DEF Less

\* Every set of natural numbers has a least element.
LEMMA LeastElement ==
    ASSUME NEW T \in SUBSET Nat, T # {}
    PROVE  \E n \in T : \A m \in T : n <= m
<1>1. OpToRel(<, Nat) = Less
  BY Zenon DEF OpToRel, Less
<1>2. IsWellFoundedOn(Less, Nat)
  BY <1>1, NatLessThanWellFounded, Zenon
<1>3. PICK n \in T : \A m \in T : ~ (<<m, n>> \in Less)
  BY <1>2, WFMin
<1>4. \A m \in T : ~(m < n)
  BY <1>3, LessPair
<1>5. QED
  BY <1>4

\* A set with 0 and with the successor of each of its elements below `last`
\* has all numbers up to `last`.
LEMMA Induction ==
    ASSUME NEW last \in Nat, NEW T \in SUBSET Nat, 0 \in T,
           \A n \in T : n < last => n + 1 \in T
    PROVE  \A n \in 0..last : n \in T
<1> SUFFICES ASSUME ~ \A n \in 0..last : n \in T
             PROVE  FALSE
  OBVIOUS
<1> DEFINE Rest == {n \in 0..last : n \notin T}
<1>1. Rest \in SUBSET Nat /\ Rest # {}
  OBVIOUS
<1>2. PICK n \in Rest : \A m \in Rest : n <= m
  <2> HIDE DEF Rest
  <2>1. QED
    BY <1>1, LeastElement
<1>3. n \in 0..last /\ n \notin T /\ n # 0 /\ n - 1 \notin Rest
  BY <1>2
<1>4. n - 1 \in T /\ n - 1 < last
  BY <1>3
<1>5. QED
  BY <1>3, <1>4

-----------------------------------------------------------------------------
(* Integer division.                                                        *)

LEMMA DivMod ==
    ASSUME NEW x \in Nat, NEW w \in Nat \ {0}
    PROVE  /\ x \div w \in Nat
           /\ x % w \in 0..w - 1
           /\ x = (x \div w) * w + (x % w)
BY SMTT(30)

LEMMA DivUnique ==
    ASSUME NEW q \in Nat, NEW r \in Nat, NEW w \in Nat \ {0}, r < w
    PROVE  /\ (q * w + r) \div w = q
           /\ (q * w + r) % w = r
BY SMTT(30)

LEMMA DivMonotone ==
    ASSUME NEW a \in Nat, NEW b \in Nat, NEW w \in Nat \ {0}, a <= b
    PROVE  a \div w <= b \div w
BY SMTT(30)

LEMMA TimesMonotone ==
    ASSUME NEW a \in Nat, NEW b \in Nat, NEW w \in Nat, a <= b
    PROVE  a * w <= b * w
BY SMTT(30)

\* A quotient is at least q exactly when the number is at least q * w.
LEMMA DivAtLeast ==
    ASSUME NEW x \in Nat, NEW q \in Nat, NEW w \in Nat \ {0}
    PROVE  q <= x \div w <=> q * w <= x
<1>1. /\ x \div w \in Nat /\ x % w \in 0..w - 1
      /\ x = (x \div w) * w + (x % w)
  BY DivMod
<1>2. ASSUME q <= x \div w PROVE q * w <= x
  <2>1. q * w <= (x \div w) * w  BY <1>1, <1>2, TimesMonotone
  <2>. QED  BY <1>1, <2>1
<1>3. ASSUME q * w <= x PROVE q <= x \div w
  <2>1. q * w \in Nat  OBVIOUS
  <2>2. (q * w) \div w = q  BY DivUnique
  <2>3. (q * w) \div w <= x \div w  BY <1>3, <2>1, DivMonotone
  <2>. QED  BY <2>2, <2>3
<1>. QED  BY <1>2, <1>3

-----------------------------------------------------------------------------
(* FlattenSeq.                                                              *)

\* The concatenations of the first 1, 2, ..., n parts; FlattenSeq chooses them.
Concats(parts, n, f) ==
    f = [i \in 1..n |-> IF i = 1 THEN parts[i] ELSE f[i - 1] \o parts[i]]

LEMMA ConcatsAt ==
    ASSUME NEW parts, NEW n \in Nat, NEW f, Concats(parts, n, f), NEW i \in 1..n
    PROVE  f[i] = IF i = 1 THEN parts[i] ELSE f[i - 1] \o parts[i]
<1> DEFINE g == [k \in 1..n |-> IF k = 1 THEN parts[k] ELSE f[k - 1] \o parts[k]]
<1>1. f = g
  BY DEF Concats
<1>2. g[i] = IF i = 1 THEN parts[i] ELSE f[i - 1] \o parts[i]
  OBVIOUS
<1> HIDE DEF g
<1>3. QED
  BY <1>1, <1>2

LEMMA ConcatsStep ==
    ASSUME NEW parts, NEW n \in Nat, NEW f, Concats(parts, n, f),
           NEW m \in 1..n, m < n
    PROVE  f[m + 1] = f[m] \o parts[m + 1]
<1> DEFINE g == [k \in 1..n |-> IF k = 1 THEN parts[k] ELSE f[k - 1] \o parts[k]]
<1>1. f = g
  BY DEF Concats
<1>2. m + 1 \in 1..n /\ m + 1 # 1 /\ (m + 1) - 1 = m
  OBVIOUS
<1>3. g[m + 1] = f[(m + 1) - 1] \o parts[m + 1]
  BY <1>2
<1> HIDE DEF g
<1>4. QED
  BY <1>1, <1>2, <1>3, Zenon

LEMMA ConcatsNext ==
    ASSUME NEW parts, NEW n \in Nat, NEW f, Concats(parts, n, f)
    PROVE  \E g : Concats(parts, n + 1, g)
<1> DEFINE last == IF n = 0 THEN parts[1] ELSE f[n] \o parts[n + 1]
           g == [i \in 1..n + 1 |-> IF i = n + 1 THEN last ELSE f[i]]
           h == [i \in 1..n + 1 |->
                   IF i = 1 THEN parts[i] ELSE g[i - 1] \o parts[i]]
<1>1. ASSUME NEW i \in 1..n + 1
      PROVE  g[i] = h[i]
  <2>1. CASE i = n + 1
    <3>1. g[i] = last /\ (n # 0 => g[i - 1] = f[n])
      BY <2>1
    <3>2. QED
      BY <2>1, <3>1
  <2>2. CASE i # n + 1
    <3>1. i \in 1..n /\ g[i] = f[i] /\ (i # 1 => g[i - 1] = f[i - 1])
      BY <2>2
    <3>2. f[i] = IF i = 1 THEN parts[i] ELSE f[i - 1] \o parts[i]
      BY <3>1, ConcatsAt
    <3>3. QED
      BY <3>1, <3>2
  <2>3. QED
    BY <2>1, <2>2
<1>2. g = h
  BY <1>1
<1>3. Concats(parts, n + 1, g)
  BY <1>2 DEF Concats
<1>4. QED
  BY <1>3

LEMMA ConcatsExist ==
    ASSUME NEW parts, NEW n \in Nat
    PROVE  \E f : Concats(parts, n, f)
<1> DEFINE T == {k \in Nat : \E f : Concats(parts, k, f)}
<1>1. 0 \in T
  <2>1. Concats(parts, 0, [i \in 1..0 |-> 0])
    BY DEF Concats
  <2>2. QED
    BY <2>1
<1>2. \A k \in T : k + 1 \in T
  BY ConcatsNext
<1>3. T \in SUBSET Nat
  OBVIOUS
<1>4. n \in T
  <2> HIDE DEF T
  <2>1. QED
    BY <1>1, <1>2, <1>3, Induction
<1>5. QED
  BY <1>4

LEMMA FlattenConcats ==
    ASSUME NEW parts, Len(parts) \in Nat \ {0}
    PROVE  \E f : /\ Concats(parts, Len(parts), f)
                  /\ FlattenSeq(parts) = f[Len(parts)]
<1> DEFINE n == Len(parts)
           f == CHOOSE f : Concats(parts, n, f)
<1>1. Concats(parts, n, f)
  <2>1. \E g : Concats(parts, n, g)
    BY ConcatsExist
  <2>2. QED
    BY <2>1, Zenon
<1>2. FlattenSeq(parts) = f[n]
  BY Zenon DEF FlattenSeq, Concats
<1>3. QED
  BY <1>1, <1>2

\* What holds of two sequences, by the place their elements get, holds of their
\* concatenation.
LEMMA ConcatPlaces ==
    ASSUME NEW S, NEW s \in Seq(S), NEW t \in Seq(S), NEW n \in Nat, Len(s) = n,
           NEW Allowed,
           \A k \in 1..n : s[k] \in Allowed[k],
           \A k \in 1..Len(t) : t[k] \in Allowed[n + k]
    PROVE  /\ s \o t \in Seq(S)
           /\ Len(s \o t) = n + Len(t)
           /\ \A k \in 1..n + Len(t) : (s \o t)[k] \in Allowed[k]
<1>1. /\ s \o t \in Seq(S) /\ Len(s \o t) = n + Len(t) /\ Len(t) \in Nat
      /\ \A k \in 1..n + Len(t) : (s \o t)[k] = IF k <= n THEN s[k] ELSE t[k - n]
  BY ConcatProperties, LenProperties
<1>2. ASSUME NEW k \in 1..n + Len(t)
      PROVE  (s \o t)[k] \in Allowed[k]
  <2>1. CASE k <= n
    BY <1>1, <2>1
  <2>2. CASE k > n
    <3>1. k - n \in 1..Len(t) /\ n + (k - n) = k
      BY <1>1, <2>2
    <3>2. t[k - n] \in Allowed[n + (k - n)]
      BY <3>1
    <3>3. QED
      BY <1>1, <2>2, <3>1, <3>2
  <2>3. QED
    BY <1>1, <2>1, <2>2
<1>3. QED
  BY <1>1, <1>2

\* What holds of every part, by the place its elements get, holds of the whole.
LEMMA FlattenPlaces ==
    ASSUME NEW S, NEW n \in Nat \ {0}, NEW parts \in [1..n -> Seq(S)],
           NEW start \in [0..n -> Nat], start[0] = 0,
           \A i \in 1..n : start[i] = start[i - 1] + Len(parts[i]),
           NEW Allowed,
           \A i \in 1..n : \A k \in 1..Len(parts[i]) :
                parts[i][k] \in Allowed[start[i - 1] + k]
    PROVE  /\ FlattenSeq(parts) \in Seq(S)
           /\ Len(FlattenSeq(parts)) = start[n]
           /\ \A k \in 1..start[n] : FlattenSeq(parts)[k] \in Allowed[k]
<1>1. Len(parts) = n
  OBVIOUS
<1>2. PICK f : Concats(parts, n, f) /\ FlattenSeq(parts) = f[n]
  BY <1>1, FlattenConcats
<1> DEFINE Good(i) == /\ f[i] \in Seq(S)
                      /\ Len(f[i]) = start[i]
                      /\ \A k \in 1..start[i] : f[i][k] \in Allowed[k]
           T == {m \in 0..n : m # 0 => Good(m)}
<1>3. Good(1)
  <2>1. f[1] = parts[1] /\ start[1] = Len(parts[1]) /\ parts[1] \in Seq(S)
    <3>1. PICK i \in 1..n : i = 1
      OBVIOUS
    <3>2. f[i] = parts[i]
      BY <1>2, <3>1, ConcatsAt
    <3>3. start[i] = start[i - 1] + Len(parts[i]) /\ parts[i] \in Seq(S)
      OBVIOUS
    <3>4. i - 1 = 0 /\ Len(parts[i]) \in Nat
      BY <3>1, <3>3, LenProperties
    <3>5. QED
      BY <3>1, <3>2, <3>3, <3>4
  <2>2. \A k \in 1..Len(parts[1]) : parts[1][k] \in Allowed[k]
    OBVIOUS
  <2>3. QED
    BY <2>1, <2>2
<1>4. ASSUME NEW m \in 1..n, m < n, Good(m)
      PROVE  Good(m + 1)
  <2>1. f[m + 1] = f[m] \o parts[m + 1]
    BY <1>2, <1>4, ConcatsStep, ZenonT(60)
  <2>2. /\ parts[m + 1] \in Seq(S) /\ Len(parts[m + 1]) \in Nat
        /\ start[m] \in Nat /\ start[m + 1] = start[m] + Len(parts[m + 1])
    <3>1. m + 1 \in 1..n /\ m \in 0..n
      BY <1>4
    <3>2. parts[m + 1] \in Seq(S) /\ start[m] \in Nat
      BY <3>1
    <3>3. start[m + 1] = start[m + 1 - 1] + Len(parts[m + 1])
      BY <3>1
    <3>4. m + 1 - 1 = m
      OBVIOUS
    <3>5. QED
      BY <3>2, <3>3, <3>4, LenProperties
  <2>3. /\ f[m] \in Seq(S) /\ Len(f[m]) = start[m]
        /\ \A k \in 1..start[m] : f[m][k] \in Allowed[k]
    BY <1>4
  <2>4. \A k \in 1..Len(parts[m + 1]) : parts[m + 1][k] \in Allowed[start[m] + k]
    <3>1. PICK i \in 1..n : i = m + 1 /\ i - 1 = m
      BY <1>4
    <3>2. \A k \in 1..Len(parts[i]) : parts[i][k] \in Allowed[start[i - 1] + k]
      OBVIOUS
    <3>3. QED
      BY <3>1, <3>2
  <2> HIDE <1>4
  <2>5. /\ f[m] \o parts[m + 1] \in Seq(S)
        /\ Len(f[m] \o parts[m + 1]) = start[m] + Len(parts[m + 1])
        /\ \A k \in 1..start[m] + Len(parts[m + 1]) :
                (f[m] \o parts[m + 1])[k] \in Allowed[k]
    BY <2>2, <2>3, <2>4, ConcatPlaces
  <2>6. QED
    BY <2>1, <2>2, <2>5
<1>5. n \in T
  <2> HIDE DEF Good
  <2>1. 0 \in T /\ T \in SUBSET Nat
    OBVIOUS
  <2>2. ASSUME NEW m \in T, m < n
        PROVE  m + 1 \in T
    BY <1>3, <1>4, <2>2
  <2> HIDE DEF T
  <2>3. n \in Nat
    OBVIOUS
  <2>4. \A k \in 0..n : k \in T
    BY <2>1, <2>2, <2>3, Induction
  <2>5. QED
    BY <2>3, <2>4
<1>6. QED
  BY <1>2, <1>5

LEMMA FlattenType ==
    ASSUME NEW S, NEW n \in Nat \ {0}, NEW parts \in [1..n -> Seq(S)]
    PROVE  FlattenSeq(parts) \in Seq(S)
<1>1. Len(parts) = n
  OBVIOUS
<1>2. PICK f : Concats(parts, n, f) /\ FlattenSeq(parts) = f[n]
  BY <1>1, FlattenConcats
<1> DEFINE T == {m \in 0..n : m # 0 => f[m] \in Seq(S)}
<1>3. 0 \in T /\ T \in SUBSET Nat
  OBVIOUS
<1>4. f[1] \in Seq(S)
  BY <1>2, ConcatsAt
<1>5. ASSUME NEW m \in T, m < n
      PROVE  m + 1 \in T
  <2>1. CASE m = 0
    BY <1>4, <2>1
  <2>2. CASE m # 0
    <3>1. m \in 1..n /\ f[m] \in Seq(S) /\ parts[m + 1] \in Seq(S)
      BY <1>5, <2>2
    <3>2. f[m + 1] = f[m] \o parts[m + 1]
      BY <1>2, <1>5, <3>1, ConcatsStep, ZenonT(60)
    <3>3. f[m + 1] \in Seq(S)
      BY <3>1, <3>2, ConcatProperties
    <3>4. QED
      BY <1>5, <3>1, <3>3
  <2>3. QED
    BY <2>1, <2>2
<1>6. n \in T
  <2> HIDE DEF T
  <2>1. n \in Nat
    OBVIOUS
  <2>2. \A k \in 0..n : k \in T
    BY <1>3, <1>5, <2>1, Induction
  <2>3. QED
    BY <2>1, <2>2
<1>7. QED
  BY <1>2, <1>6

-----------------------------------------------------------------------------
(* InsertAt, and prefixes.                                                  *)

\* u is s followed by t.
EndToEnd(s, t, u) ==
    /\ Len(u) = Len(s) + Len(t)
    /\ \A i \in 1..Len(s) : u[i] = s[i]
    /\ \A i \in 1..Len(t) : u[Len(s) + i] = t[i]

LEMMA ConcatAt ==
    ASSUME NEW S, NEW s \in Seq(S), NEW t \in Seq(S)
    PROVE  s \o t \in Seq(S) /\ EndToEnd(s, t, s \o t)
<1> DEFINE m == Len(s)
           n == Len(t)
<1>1. /\ s \o t \in Seq(S) /\ Len(s \o t) = m + n
      /\ \A i \in 1..m + n : (s \o t)[i] = IF i <= m THEN s[i] ELSE t[i - m]
  BY ConcatProperties
<1>2. m \in Nat /\ n \in Nat
  BY LenProperties
<1> HIDE DEF m, n
<1>3. \A i \in 1..m : (s \o t)[i] = s[i]
  BY <1>1, <1>2
<1>4. ASSUME NEW i \in 1..n
      PROVE  (s \o t)[m + i] = t[i]
  <2>1. m + i \in 1..m + n /\ ~(m + i <= m) /\ (m + i) - m = i
    BY <1>2
  <2>2. (s \o t)[m + i] = t[(m + i) - m]
    BY <1>1, <2>1
  <2>3. QED
    BY <2>1, <2>2
<1>5. QED
  BY <1>1, <1>3, <1>4 DEF m, n, EndToEnd

\* u is s with e inserted at place p.
IsInserted(s, p, e, u) ==
    /\ Len(u) = Len(s) + 1
    /\ \A i \in 1..p - 1 : u[i] = s[i]
    /\ u[p] = e
    /\ \A i \in p + 1..Len(s) + 1 : u[i] = s[i - 1]

LEMMA InsertAtProperties ==
    ASSUME NEW S, NEW s \in Seq(S), NEW e \in S, NEW p \in 1..Len(s) + 1
    PROVE  /\ InsertAt(s, p, e) \in Seq(S)
           /\ IsInserted(s, p, e, InsertAt(s, p, e))
<1> DEFINE n == Len(s)
           a == SubSeq(s, 1, p - 1)
           m == <<e>>
           b == SubSeq(s, p, n)
<1>1. n \in Nat /\ p \in Nat /\ p >= 1 /\ p <= n + 1
  BY LenProperties
<1>2. a \in Seq(S) /\ Len(a) = p - 1 /\ \A i \in 1..p - 1 : a[i] = s[i]
  <2>1. \A i \in 1..p - 1 : s[i] \in S
    BY <1>1, ElementOfSeq
  <2>2. QED
    BY <1>1, <2>1, SubSeqProperties
<1>3. b \in Seq(S) /\ Len(b) = n - p + 1 /\ \A i \in 1..n - p + 1 : b[i] = s[p + i - 1]
  <2>1. \A i \in p..n : s[i] \in S
    BY <1>1, ElementOfSeq
  <2>2. QED
    BY <1>1, <2>1, SubSeqProperties
<1>4. m \in Seq(S) /\ Len(m) = 1 /\ m[1] = e
  OBVIOUS
<1> HIDE DEF n, a, m, b
<1> DEFINE am == a \o m
<1>5. am \in Seq(S) /\ EndToEnd(a, m, am)
  BY <1>2, <1>4, ConcatAt
<1>6. Len(am) = p /\ am[p] = e /\ \A i \in 1..p - 1 : am[i] = s[i]
  <2>1. 1 \in 1..Len(m) /\ Len(a) + 1 = p
    BY <1>1, <1>2, <1>4
  <2>2. am[Len(a) + 1] = m[1]
    BY <1>5, <2>1 DEF EndToEnd
  <2>3. QED
    BY <1>1, <1>2, <1>4, <1>5, <2>1, <2>2 DEF EndToEnd
<1> HIDE DEF am
<1>7. am \o b \in Seq(S) /\ EndToEnd(am, b, am \o b)
  BY <1>3, <1>5, ConcatAt
<1>8. /\ am \o b \in Seq(S) /\ Len(am \o b) = p + (n - p + 1)
      /\ \A i \in 1..p : (am \o b)[i] = am[i]
      /\ \A i \in 1..n - p + 1 : (am \o b)[p + i] = b[i]
  BY <1>3, <1>6, <1>7 DEF EndToEnd
<1>9. p + (n - p + 1) = n + 1
  BY <1>1
<1>10. \A i \in p + 1..n + 1 : (am \o b)[i] = s[i - 1]
  <2>1. SUFFICES ASSUME NEW i \in p + 1..n + 1
                 PROVE  (am \o b)[i] = s[i - 1]
    OBVIOUS
  <2>2. PICK k \in 1..n - p + 1 : p + k = i /\ p + k - 1 = i - 1
    <3>1. i - p \in 1..n - p + 1 /\ p + (i - p) = i /\ p + (i - p) - 1 = i - 1
      BY <1>1
    <3>2. QED
      BY <3>1
  <2>3. (am \o b)[p + k] = b[k] /\ b[k] = s[p + k - 1]
    BY <1>3, <1>8
  <2>4. QED
    BY <2>2, <2>3
<1>11. InsertAt(s, p, e) = am \o b
  BY Zenon DEF InsertAt, am, a, m, b, n
<1>12. /\ \A i \in 1..p - 1 : (am \o b)[i] = s[i]
       /\ (am \o b)[p] = e
  BY <1>1, <1>6, <1>8
<1>13. Len(am \o b) = Len(s) + 1 /\ n = Len(s)
  BY <1>8, <1>9 DEF n
<1>14. QED
  BY <1>8, <1>10, <1>11, <1>12, <1>13 DEF IsInserted

Prefix(s, t) == /\ Len(s) <= Len(t)
                /\ \A i \in 1..Len(s) : t[i] = s[i]

LEMMA PrefixAppend ==
    ASSUME NEW S, NEW s \in Seq(S), NEW t \in Seq(S), NEW e \in S, Prefix(s, t)
    PROVE  Prefix(s, Append(t, e))
<1>1. Len(s) \in Nat /\ Len(t) \in Nat
  BY LenProperties
<1>2. /\ Len(Append(t, e)) = Len(t) + 1
      /\ \A i \in 1..Len(t) : Append(t, e)[i] = t[i]
  BY AppendProperties
<1>3. QED
  BY <1>1, <1>2 DEF Prefix

-----------------------------------------------------------------------------
(* FoldLeft.                                                                *)

LEMMA MaxProperties ==
    ASSUME NEW n \in Nat, NEW s \in SUBSET (1..n), s # {}
    PROVE  Max(s) \in s /\ \A y \in s : y <= Max(s)
<1> DEFINE T == {m \in 0..n : \A y \in s : y <= m}
<1>1. T \in SUBSET Nat /\ n \in T
  OBVIOUS
<1>2. PICK m \in T : \A k \in T : m <= k
  <2> HIDE DEF T
  <2>1. QED
    BY <1>1, LeastElement
<1>3. m \in s
  <2>1. SUFFICES ASSUME m \notin s PROVE FALSE
    OBVIOUS
  <2>2. m # 0 /\ m - 1 \in 0..n
    <3>1. PICK x \in s : x \in 1..n
      OBVIOUS
    <3>2. x <= m /\ m \in 0..n
      BY <1>2
    <3>3. QED
      BY <3>1, <3>2
  <2>3. \A y \in s : y <= m - 1
    <3>1. \A y \in s : y \in Nat /\ y <= m /\ y # m
      BY <1>2, <2>1
    <3>2. QED
      BY <2>2, <3>1
  <2>4. m - 1 \in T
    BY <2>2, <2>3
  <2>5. QED
    BY <1>2, <2>4
<1>4. \E x \in s : \A y \in s : x >= y
  BY <1>2, <1>3
<1>5. Max(s) \in s /\ \A y \in s : Max(s) >= y
  BY <1>4, Zenon DEF Max
<1>6. QED
  BY <1>5

LEMMA MaxOfInterval ==
    ASSUME NEW n \in Nat, NEW k \in 1..n
    PROVE  /\ Max(1..k) = k /\ (1..k) \ {Max(1..k)} = 1..(k - 1)
           /\ 1..k # {} /\ 1..k \in SUBSET (1..n) /\ 1..(k - 1) \in SUBSET (1..n)
<1>1. 1..k # {} /\ 1..k \in SUBSET (1..n) /\ k \in 1..k
  OBVIOUS
<1>2. Max(1..k) \in 1..k /\ \A y \in 1..k : y <= Max(1..k)
  BY <1>1, MaxProperties
<1>3. Max(1..k) = k
  BY <1>1, <1>2
<1>4. QED
  BY <1>1, <1>3

\* FoldLeft chooses a function of the sets of positions; there is one, if
\* folding stays within a set A.
FoldsBy(fold, base, A, n, f) ==
    /\ f \in [SUBSET (1..n) -> A]
    /\ \A s \in SUBSET (1..n) :
          f[s] = IF s = {} THEN base ELSE fold[<<f[s \ {Max(s)}], Max(s)>>]

LEMMA FoldExists ==
    ASSUME NEW A, NEW base \in A, NEW n \in Nat, NEW fold \in [A \X (1..n) -> A]
    PROVE  \E f : FoldsBy(fold, base, A, n, f)
<1> USE DEF FoldsBy
<1> DEFINE Fold(k, f) == FoldsBy(fold, base, A, k, f)
           T == {k \in 0..n : \E f : Fold(k, f)}
<1>1. 0 \in T /\ T \in SUBSET Nat
  <2> DEFINE f == [s \in SUBSET (1..0) |-> base]
  <2>3. \A s \in SUBSET (1..0) : s = {} /\ f[s] = base
    OBVIOUS
  <2>4. f \in [SUBSET (1..0) -> A]
    OBVIOUS
  <2>1. Fold(0, f)
    <3> HIDE DEF f
    <3>1. QED
      BY <2>3, <2>4
  <2> HIDE DEF f, FoldsBy
  <2>2. QED
    BY <2>1
<1>2. ASSUME NEW k \in T, k < n PROVE k + 1 \in T
  <2>1. PICK f : Fold(k, f)
    OBVIOUS
  <2> DEFINE g == [s \in SUBSET (1..(k + 1)) |->
                     IF k + 1 \in s THEN fold[<<f[s \ {k + 1}], k + 1>>] ELSE f[s]]
  <2>2. k \in Nat /\ k + 1 \in 1..n /\ k + 1 \in 0..n
    BY <1>2
  <2>3. ASSUME NEW s \in SUBSET (1..(k + 1))
        PROVE  /\ g[s] \in A
               /\ g[s] = IF s = {} THEN base
                         ELSE fold[<<g[s \ {Max(s)}], Max(s)>>]
    <3>1. CASE k + 1 \in s
      <4>1. s \ {k + 1} \in SUBSET (1..k)
        BY <2>2
      <4>2. f[s \ {k + 1}] \in A /\ g[s \ {k + 1}] = f[s \ {k + 1}]
        BY <2>1, <4>1
      <4>3. Max(s) = k + 1
        <5>1. Max(s) \in s /\ \A y \in s : y <= Max(s)
          <6>1. k + 1 \in Nat /\ s # {}
            BY <2>2, <3>1
          <6>2. QED
            BY <6>1, MaxProperties
        <5>2. Max(s) \in 1..(k + 1) /\ k + 1 <= Max(s)
          BY <3>1, <5>1
        <5>3. QED
          BY <2>2, <5>2
      <4>4. g[s] = fold[<<f[s \ {k + 1}], k + 1>>]
        BY <3>1
      <4>5. fold[<<f[s \ {k + 1}], k + 1>>] \in A
        BY <2>2, <4>2
      <4> HIDE DEF g
      <4>6. QED
        BY <3>1, <4>2, <4>3, <4>4, <4>5
    <3>2. CASE k + 1 \notin s
      <4>1. s \in SUBSET (1..k)
        BY <2>2, <3>2
      <4>2. g[s] = f[s] /\ f[s] \in A
        BY <2>1, <3>2, <4>1
      <4>3. CASE s = {}
        <5>1. f[s] = base
          BY <2>1, <4>1, <4>3
        <5> HIDE DEF g
        <5>2. QED
          BY <4>2, <4>3, <5>1
      <4>4. CASE s # {}
        <5>1. s \ {Max(s)} \in SUBSET (1..k)
          BY <4>1
        <5>2. g[s \ {Max(s)}] = f[s \ {Max(s)}]
          BY <3>2, <4>1, <5>1
        <5>3. f[s] = fold[<<f[s \ {Max(s)}], Max(s)>>]
          BY <2>1, <4>1, <4>4
        <5> HIDE DEF g
        <5>4. QED
          BY <4>2, <4>4, <5>2, <5>3
      <4>5. QED
        BY <4>3, <4>4
    <3>3. QED
      BY <3>1, <3>2
  <2>4. Fold(k + 1, g)
    <3>1. g \in [SUBSET (1..(k + 1)) -> A]
      BY <2>3
    <3>2. QED
      BY <2>3, <3>1
  <2> HIDE DEF g, FoldsBy
  <2>5. QED
    BY <2>2, <2>4
<1>3. n \in T
  <2> HIDE DEF T, FoldsBy
  <2>1. \A k \in 0..n : k \in T
    BY <1>1, <1>2, Induction
  <2>2. QED
    BY <2>1
<1> HIDE DEF FoldsBy
<1>4. QED
  BY <1>3

-----------------------------------------------------------------------------
(* Flattened sequences, part by part.                                       *)

\* The chain of a longer list of parts goes on where that of a shorter one ends.
ConcatsFurther(parts, n, f, longer, m, g) ==
    /\ n \in Nat /\ m \in Nat /\ n <= m
    /\ Concats(parts, n, f) /\ Concats(longer, m, g)
    /\ \A i \in 1..n : longer[i] = parts[i]

\* They agree on the parts that both have.
LEMMA ConcatsAgree ==
    ASSUME NEW parts, NEW n, NEW f, NEW longer, NEW m, NEW g,
           ConcatsFurther(parts, n, f, longer, m, g)
    PROVE  \A i \in 1..n : g[i] = f[i]
<1> USE DEF ConcatsFurther
<1> DEFINE T == {k \in 0..n : k # 0 => g[k] = f[k]}
<1>1. 0 \in T /\ T \in SUBSET Nat
  OBVIOUS
<1>2. ASSUME NEW k \in T, k < n
      PROVE  k + 1 \in T
  <2>1. k + 1 \in 1..n /\ k + 1 \in 1..m /\ k \in 0..n
    BY <1>2
  <2>2. CASE k = 0
    <3>1. 1 \in 1..n /\ 1 \in 1..m
      BY <2>1, <2>2
    <3>2. f[1] = parts[1]
      BY <3>1, ConcatsAt
    <3>3. g[1] = longer[1]
      BY <3>1, ConcatsAt
    <3>4. QED
      BY <2>2, <3>1, <3>2, <3>3
  <2>3. CASE k # 0
    <3>1. k \in 1..n /\ k \in 1..m /\ k < m /\ g[k] = f[k]
      BY <1>2, <2>1, <2>3
    <3>2. f[k + 1] = f[k] \o parts[k + 1]
      BY <1>2, <3>1, ConcatsStep, ZenonT(60)
    <3>3. g[k + 1] = g[k] \o longer[k + 1]
      BY <3>1, ConcatsStep, ZenonT(60)
    <3>4. g[k + 1] = f[k + 1]
      BY <2>1, <3>1, <3>2, <3>3, Zenon
    <3>5. k + 1 \in 0..n
      BY <2>1
    <3>6. QED
      BY <3>4, <3>5
  <2>4. QED
    BY <2>2, <2>3
<1> HIDE DEF T
<1>3. \A k \in 0..n : k \in T
  BY <1>1, <1>2, Induction
<1>4. QED
  BY <1>3 DEF T

\* No parts, and one part more.
LEMMA FlattenNone ==
    ASSUME NEW S, NEW parts \in Seq(S), Len(parts) = 0
    PROVE  parts = <<>> /\ FlattenSeq(parts) = <<>>
<1>1. parts = <<>>
  BY EmptySeq
<1>2. QED
  BY <1>1 DEF FlattenSeq

LEMMA FlattenAppend ==
    ASSUME NEW S, NEW parts \in Seq(Seq(S)), NEW new \in Seq(S)
    PROVE  /\ FlattenSeq(parts) \in Seq(S)
           /\ FlattenSeq(Append(parts, new)) = FlattenSeq(parts) \o new
<1> DEFINE n == Len(parts)
           u == Append(parts, new)
<1>1. /\ n \in Nat /\ u \in Seq(Seq(S)) /\ Len(u) = n + 1
      /\ \A i \in 1..n : u[i] = parts[i]
      /\ u[n + 1] = new
  BY AppendProperties, LenProperties
<1> HIDE DEF u
<1>2. PICK g : Concats(u, n + 1, g) /\ FlattenSeq(u) = g[n + 1]
  <2>1. Len(u) \in Nat \ {0}
    BY <1>1
  <2>2. QED
    BY <1>1, <2>1, FlattenConcats
<1>3. CASE n = 0
  <2>1. FlattenSeq(parts) = <<>>
    BY <1>3, FlattenNone
  <2>2. g[1] = u[1] /\ u[1] = new
    BY <1>1, <1>2, <1>3, ConcatsAt
  <2>3. <<>> \o new = new /\ <<>> \in Seq(S)
    BY ConcatEmptySeq, EmptySeq
  <2>4. QED
    BY <1>2, <1>3, <2>1, <2>2, <2>3 DEF u
<1>4. CASE n # 0
  <2>1. PICK f : Concats(parts, n, f) /\ FlattenSeq(parts) = f[n]
    <3>1. n \in Nat \ {0}
      BY <1>1, <1>4
    <3>2. QED
      BY <3>1, FlattenConcats
  <2>2. g[n] = f[n]
    <3>1. \A i \in 1..n : g[i] = f[i]
      <4> DEFINE m == n + 1
      <4>1. n \in Nat /\ m \in Nat /\ n <= m /\ Concats(u, m, g)
        BY <1>1, <1>2
      <4> HIDE DEF n, m
      <4>2. Concats(parts, n, f) /\ \A i \in 1..n : u[i] = parts[i]
        BY <1>1, <2>1
      <4>3. ConcatsFurther(parts, n, f, u, m, g)
        BY <4>1, <4>2 DEF ConcatsFurther
      <4>4. QED
        BY <4>3, ConcatsAgree
    <3>2. n \in 1..n
      BY <1>1, <1>4
    <3>3. QED
      BY <3>1, <3>2
  <2>3. g[n + 1] = g[n] \o u[n + 1]
    <3> HIDE DEF n
    <3>1. n + 1 \in Nat /\ n \in 1..n + 1 /\ n < n + 1
      BY <1>1, <1>4
    <3>2. QED
      BY <1>2, <3>1, ConcatsStep, ZenonT(60)
  <2>4. FlattenSeq(parts) \in Seq(S)
    <3>1. n \in Nat \ {0} /\ parts \in [1..n -> Seq(S)]
      BY <1>1, <1>4, LenProperties
    <3>2. QED
      BY <3>1, FlattenType
  <2>5. QED
    BY <1>1, <1>2, <2>1, <2>2, <2>3, <2>4 DEF u
<1>5. QED
  BY <1>3, <1>4

\* A set with the empty sequence, and with a sequence whenever it has the
\* sequence without its last element, has all sequences.
LEMMA SeqInduction ==
    ASSUME NEW S, NEW T, <<>> \in T,
           \A s \in Seq(S) : \A e \in S : s \in T => Append(s, e) \in T
    PROVE  \A s \in Seq(S) : s \in T
<1> DEFINE Lengths == {n \in Nat : \A s \in Seq(S) : Len(s) = n => s \in T}
<1>1. 0 \in Lengths
  <2>1. ASSUME NEW s \in Seq(S), Len(s) = 0 PROVE s \in T
    BY <2>1, EmptySeq
  <2>2. QED
    BY <2>1
<1>2. ASSUME NEW n \in Lengths PROVE n + 1 \in Lengths
  <2>1. ASSUME NEW s \in Seq(S), Len(s) = n + 1 PROVE s \in T
    <3>1. n \in Nat /\ \A u \in Seq(S) : Len(u) = n => u \in T
      BY <1>2
    <3>2. s # <<>>
      BY <2>1, <3>1, EmptySeq
    <3>3. PICK u \in Seq(S), e \in S : s = Append(u, e)
      BY <3>2, SequenceEmptyOrAppend
    <3>4. Len(u) \in Nat /\ Len(s) = Len(u) + 1
      BY <3>3, AppendProperties, LenProperties
    <3>5. Len(u) = n
      BY <2>1, <3>1, <3>4
    <3>6. QED
      BY <3>1, <3>3, <3>5
  <2>2. QED
    BY <1>2, <2>1
<1>3. ASSUME NEW s \in Seq(S) PROVE s \in T
  <2> DEFINE n == Len(s)
  <2>1. n \in Nat /\ Lengths \in SUBSET Nat
    BY LenProperties
  <2> HIDE DEF n, Lengths
  <2>2. \A k \in 0..n : k \in Lengths
    BY <1>1, <1>2, <2>1, Induction
  <2>3. n \in Lengths
    BY <2>1, <2>2
  <2>4. QED
    BY <2>3 DEF Lengths, n
<1>4. QED
  BY <1>3

\* An element at the end of the second part is one at the end of both.
LEMMA AppendConcat ==
    ASSUME NEW S, NEW a \in Seq(S), NEW b \in Seq(S), NEW e \in S
    PROVE  a \o Append(b, e) = Append(a \o b, e)
<1> DEFINE one == <<e>>
<1>1. Append(b, e) = b \o one /\ one \in Seq(S)
  BY AppendIsConcat
<1>2. a \o b \in Seq(S)
  BY ConcatProperties
<1>3. Append(a \o b, e) = (a \o b) \o one
  BY <1>2, AppendIsConcat
<1> HIDE DEF one
<1>4. (a \o b) \o one = a \o (b \o one)
  BY <1>1, ConcatAssociative
<1>5. QED
  BY <1>1, <1>3, <1>4

\* Two lists of parts, one after the other.
LEMMA FlattenConcat ==
    ASSUME NEW S, NEW a \in Seq(Seq(S)), NEW b \in Seq(Seq(S))
    PROVE  FlattenSeq(a \o b) = FlattenSeq(a) \o FlattenSeq(b)
<1> DEFINE T == {c \in Seq(Seq(S)) : FlattenSeq(a \o c) = FlattenSeq(a) \o FlattenSeq(c)}
<1>1. FlattenSeq(a) \in Seq(S)
  <2>1. <<>> \in Seq(S)
    BY EmptySeq
  <2>2. QED
    BY <2>1, FlattenAppend
<1>2. <<>> \in T
  <2>1. <<>> \in Seq(Seq(S)) /\ Len(<<>>) = 0
    BY EmptySeq
  <2> DEFINE none == <<>>
  <2> HIDE DEF none
  <2>2. none \in Seq(Seq(S)) /\ FlattenSeq(none) = none
    BY <2>1, FlattenNone DEF none
  <2>3. a \o none = a /\ FlattenSeq(a) \o none = FlattenSeq(a)
    BY <1>1, ConcatEmptySeq DEF none
  <2>4. FlattenSeq(a \o none) = FlattenSeq(a) \o FlattenSeq(none)
    BY <2>2, <2>3
  <2>5. none \in T
    BY <2>2, <2>4
  <2>6. QED
    BY <2>5 DEF none
<1>3. ASSUME NEW c \in Seq(Seq(S)), NEW x \in Seq(S), c \in T
      PROVE  Append(c, x) \in T
  <2>1. FlattenSeq(a \o c) = FlattenSeq(a) \o FlattenSeq(c)
    BY <1>3
  <2>2. a \o Append(c, x) = Append(a \o c, x)
    <3> HIDE DEF T
    <3>1. QED
      BY AppendConcat
  <2>3. a \o c \in Seq(Seq(S)) /\ Append(c, x) \in Seq(Seq(S))
    BY ConcatProperties, AppendProperties
  <2> HIDE DEF T
  <2>4. FlattenSeq(Append(a \o c, x)) = FlattenSeq(a \o c) \o x
    BY <2>3, FlattenAppend
  <2>5. FlattenSeq(Append(c, x)) = FlattenSeq(c) \o x /\ FlattenSeq(c) \in Seq(S)
    BY FlattenAppend
  <2>6. (FlattenSeq(a) \o FlattenSeq(c)) \o x = FlattenSeq(a) \o (FlattenSeq(c) \o x)
    BY <1>1, <2>5, ConcatAssociative, SMTT(40)
  <2>7. FlattenSeq(a \o Append(c, x)) = FlattenSeq(a) \o FlattenSeq(Append(c, x))
    BY <2>1, <2>2, <2>4, <2>5, <2>6, Zenon
  <2>8. QED
    BY <2>3, <2>7 DEF T
<1> HIDE DEF T
<1>4. \A c \in Seq(Seq(S)) : c \in T
  BY <1>2, <1>3, SeqInduction
<1>5. QED
  BY <1>4 DEF T

\* A single part is what its list is flattened to.
LEMMA FlattenOne ==
    ASSUME NEW S, NEW x \in Seq(S)
    PROVE  FlattenSeq(<<x>>) = x
<1> DEFINE none == <<>>
<1>1. none \in Seq(Seq(S)) /\ FlattenSeq(none) = <<>>
  BY EmptySeq, FlattenNone
<1>2. Append(none, x) = <<x>>
  OBVIOUS
<1> HIDE DEF none
<1>3. FlattenSeq(Append(none, x)) = FlattenSeq(none) \o x
  BY <1>1, FlattenAppend
<1>4. <<>> \o x = x
  BY ConcatEmptySeq
<1>5. QED
  BY <1>1, <1>2, <1>3, <1>4

\* Where the middle of three parts is.
LEMMA MiddlePart ==
    ASSUME NEW S, NEW a \in Seq(S), NEW x \in Seq(S), NEW b \in Seq(S)
    PROVE  /\ a \o (x \o b) \in Seq(S) /\ Len(a) \in Nat
           /\ Len(a) + Len(x) <= Len(a \o (x \o b))
           /\ \A k \in 1..Len(x) : (a \o (x \o b))[Len(a) + k] = x[k]
<1> DEFINE w == x \o b
           z == a \o w
<1>1. w \in Seq(S) /\ EndToEnd(x, b, w)
  BY ConcatAt
<1> HIDE DEF w
<1>2. z \in Seq(S) /\ EndToEnd(a, w, z)
  BY <1>1, ConcatAt
<1> HIDE DEF z
<1>3. Len(a) \in Nat /\ Len(x) \in Nat /\ Len(b) \in Nat
  BY LenProperties
<1>4. ASSUME NEW k \in 1..Len(x) PROVE z[Len(a) + k] = x[k]
  <2>1. w[k] = x[k] /\ k \in 1..Len(w)
    BY <1>1, <1>3 DEF EndToEnd
  <2>2. z[Len(a) + k] = w[k]
    BY <1>2, <2>1 DEF EndToEnd
  <2>3. QED
    BY <2>1, <2>2
<1>5. Len(a) + Len(x) <= Len(z)
  BY <1>1, <1>2, <1>3 DEF EndToEnd
<1>6. QED
  BY <1>2, <1>3, <1>4, <1>5 DEF z, w

\* When parts are joined, the i-th begins after the first `start` elements.
PartBegins(S, parts, i, start) ==
    /\ start \in Nat /\ FlattenSeq(parts) \in Seq(S)
    /\ start + Len(parts[i]) <= Len(FlattenSeq(parts))
    /\ \A k \in 1..Len(parts[i]) : FlattenSeq(parts)[start + k] = parts[i][k]

LEMMA FlattenSlice ==
    ASSUME NEW S, NEW parts \in Seq(Seq(S)), NEW i \in 1..Len(parts)
    PROVE  PartBegins(S, parts, i, Len(FlattenSeq(SubSeq(parts, 1, i - 1))))
<1> DEFINE n == Len(parts)
           a == SubSeq(parts, 1, i - 1)
           b == SubSeq(parts, i + 1, n)
           x == parts[i]
           start == Len(FlattenSeq(SubSeq(parts, 1, i - 1)))
<1>1. n \in Nat /\ i \in 1..n /\ x \in Seq(S) /\ \A k \in 1..n : parts[k] \in Seq(S)
  BY LenProperties, ElementOfSeq
<1>2. a \in Seq(Seq(S)) /\ b \in Seq(Seq(S))
  <2>1. /\ 1 \in Int /\ i - 1 \in Int /\ i + 1 \in Int /\ n \in Int
        /\ \A k \in 1..i - 1 : parts[k] \in Seq(S)
        /\ \A k \in i + 1..n : parts[k] \in Seq(S)
    BY <1>1
  <2> HIDE DEF n
  <2>2. QED
    BY <2>1, SubSeqProperties
<1>3. parts = a \o (<<x>> \o b)
  <2>1. SubSeq(parts, i, n) = <<x>> \o b
    BY <1>1, SubSeqRecursiveFirst
  <2>2. SubSeq(parts, 1, i - 1) \o SubSeq(parts, (i - 1) + 1, n) = SubSeq(parts, 1, n)
    <3>1. 1 \in 1..n + 1 /\ i - 1 \in 1 - 1 .. n /\ n \in i - 1..n
      BY <1>1
    <3>2. QED
      BY <3>1, ConcatAdjacentSubSeq
  <2>3. (i - 1) + 1 = i
    BY <1>1
  <2>4. SubSeq(parts, 1, n) = parts
    BY SubSeqFull
  <2>5. QED
    BY <2>1, <2>2, <2>3, <2>4
<1> DEFINE one == <<x>>
<1>4. one \in Seq(Seq(S)) /\ FlattenSeq(one) = x
  BY <1>1, FlattenOne
<1>5. parts = a \o (one \o b) /\ start = Len(FlattenSeq(a))
  BY <1>3
<1> HIDE DEF a, b, x, one, n, start
<1>6. one \o b \in Seq(Seq(S))
  BY <1>2, <1>4, ConcatProperties
<1>7. FlattenSeq(parts) = FlattenSeq(a) \o (x \o FlattenSeq(b))
  <2>1. FlattenSeq(a \o (one \o b)) = FlattenSeq(a) \o FlattenSeq(one \o b)
    BY <1>2, <1>6, FlattenConcat
  <2>2. FlattenSeq(one \o b) = FlattenSeq(one) \o FlattenSeq(b)
    BY <1>2, <1>4, FlattenConcat
  <2>3. QED
    BY <1>4, <1>5, <2>1, <2>2
<1>8. FlattenSeq(a) \in Seq(S) /\ FlattenSeq(b) \in Seq(S)
  BY <1>1, <1>2, FlattenAppend
<1> DEFINE u == FlattenSeq(a)
           v == FlattenSeq(b)
<1>9. u \in Seq(S) /\ v \in Seq(S) /\ start = Len(u) /\ FlattenSeq(parts) = u \o (x \o v)
  BY <1>5, <1>7, <1>8
<1> HIDE DEF u, v
<1>10. /\ u \o (x \o v) \in Seq(S) /\ Len(u) \in Nat
       /\ Len(u) + Len(x) <= Len(u \o (x \o v))
       /\ \A k \in 1..Len(x) : (u \o (x \o v))[Len(u) + k] = x[k]
  <2>1. u \in Seq(S) /\ x \in Seq(S) /\ v \in Seq(S)
    BY <1>1, <1>9
  <2>2. QED
    BY <2>1, MiddlePart, ZenonT(40)
<1>11. /\ start \in Nat /\ FlattenSeq(parts) \in Seq(S)
       /\ start + Len(parts[i]) <= Len(FlattenSeq(parts))
       /\ \A k \in 1..Len(parts[i]) : FlattenSeq(parts)[start + k] = parts[i][k]
  BY <1>1, <1>9, <1>10 DEF x
<1>12. PartBegins(S, parts, i, start)
  BY <1>11, Zenon DEF PartBegins
<1>13. QED
  BY <1>12, Zenon DEF start

\* The first parts of a list, as a function and as a subsequence.
LEMMA FirstParts ==
    ASSUME NEW S, NEW n \in Nat, NEW parts, parts \in [1..n -> S], NEW i \in 1..n,
           NEW front, front = [k \in 1..i - 1 |-> parts[k]]
    PROVE  parts \in Seq(S) /\ Len(parts) = n /\ front = SubSeq(parts, 1, i - 1)
<1>1. parts \in Seq(S) /\ Len(parts) = n
  <2>1. parts \in Seq(S)
    BY SeqDef
  <2>2. DOMAIN parts = 1..n
    OBVIOUS
  <2>3. QED
    BY <2>1, <2>2, LenProperties
<1>2. front \in Seq(S) /\ Len(front) = i - 1 /\ \A k \in 1..i - 1 : front[k] = parts[k]
  <2>1. front \in [1..i - 1 -> S] /\ DOMAIN front = 1..i - 1 /\ i - 1 \in Nat
    OBVIOUS
  <2>2. \A k \in 1..i - 1 : front[k] = parts[k]
    OBVIOUS
  <2>3. front \in Seq(S)
    BY <2>1, SeqDef
  <2>4. Len(front) = i - 1
    BY <2>1, <2>3, LenProperties
  <2>5. QED
    BY <2>2, <2>3, <2>4
<1> DEFINE sub == SubSeq(parts, 1, i - 1)
<1>3. sub \in Seq(S) /\ Len(sub) = i - 1 /\ \A k \in 1..i - 1 : sub[k] = parts[k]
  <2>1. \A k \in 1..i - 1 : parts[k] \in S
    OBVIOUS
  <2>2. /\ sub \in Seq(S)
        /\ Len(sub) = IF 1 <= i - 1 THEN (i - 1) - 1 + 1 ELSE 0
        /\ \A k \in 1..(i - 1) - 1 + 1 : sub[k] = parts[1 + k - 1]
    BY <2>1, SubSeqProperties
  <2> HIDE DEF sub
  <2>3. (i - 1) - 1 + 1 = i - 1 /\ (1 <= i - 1 \/ i - 1 = 0)
    OBVIOUS
  <2>4. \A k \in 1..i - 1 : 1 + k - 1 = k
    OBVIOUS
  <2>5. QED
    BY <2>2, <2>3, <2>4
<1> HIDE DEF sub
<1>4. front = sub
  BY <1>2, <1>3, SeqEqual
<1>5. QED
  BY <1>1, <1>4 DEF sub

\* The elements of a subsequence, counted from the one before it.
LEMMA SliceAt ==
    ASSUME NEW s, NEW start \in Nat, NEW len \in Nat
    PROVE  LET part == SubSeq(s, start + 1, start + len)
           IN  /\ Len(part) = len
               /\ \A k \in 1..len : part[k] = s[start + k]
<1> DEFINE S == {s[k] : k \in start + 1..start + len}
           part == SubSeq(s, start + 1, start + len)
           m == start + 1
           n == start + len
<1>1. \A k \in m..n : s[k] \in S
  OBVIOUS
<1>2. m \in Int /\ n \in Int /\ n - m + 1 = len
  OBVIOUS
<1> HIDE DEF S
<1>3. /\ part \in Seq(S)
      /\ Len(part) = IF m <= n THEN n - m + 1 ELSE 0
      /\ \A k \in 1..n - m + 1 : part[k] = s[m + k - 1]
  BY <1>1, <1>2, SubSeqProperties
<1> HIDE DEF part
<1>4. m <= n \/ len = 0
  OBVIOUS
<1>5. Len(part) = len
  BY <1>2, <1>3, <1>4
<1>6. \A k \in 1..len : m + k - 1 = start + k
  OBVIOUS
<1>7. \A k \in 1..len : part[k] = s[start + k]
  BY <1>2, <1>3, <1>6
<1>8. QED
  BY <1>5, <1>7 DEF part

\* The elements of a sequence are all that it has to be over.
LEMMA SeqOverItsSet ==
    ASSUME NEW S, NEW s \in Seq(S), NEW T, ToSet(s) \subseteq T
    PROVE  s \in Seq(T)
<1>1. Len(s) \in Nat /\ DOMAIN s = 1..Len(s) /\ s \in [1..Len(s) -> S]
  BY LenProperties
<1>2. \A k \in 1..Len(s) : s[k] \in T
  BY <1>1 DEF ToSet
<1>3. s \in [1..Len(s) -> T]
  BY <1>1, <1>2
<1>4. QED
  BY <1>1, <1>3, SeqDef

=============================================================================
