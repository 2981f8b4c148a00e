------------------------ MODULE BatchingEngineProofs ------------------------
(***************************************************************************)
(* The batching engine keeps its promises for any number of requests,      *)
(* configurations and adapters, and any limit of a batch.                  *)
(*                                                                         *)
(* First what the two loops over a batch compute, by induction over a set  *)
(* of indices: every row of a batch is answered at its own place.  Then    *)
(* the invariant: requests are numbered in order of arrival, and every     *)
(* sequence of them is increasing, so that being first is being least.     *)
(* Then one lemma per action, and the properties.                          *)
(***************************************************************************)
EXTENDS BatchingEngine, SequenceLemmas, FiniteSetTheorems

-----------------------------------------------------------------------------
(* The loop of _batch_encode.                                               *)

Failure(r) == [kind |-> "error", of |-> r]

\* What the loop has collected after so many rows.
EncodeStep(before, rows, i) ==
    IF kwargs[rows[i]].encodable
      THEN [before EXCEPT !.inputs = Append(@, rows[i])]
      ELSE [before EXCEPT !.errors =
              Append(@, [place |-> i, error |-> Failure(rows[i])])]

Encodes(rows, n, f) ==
    f = [i \in 0..n |-> IF i = 0 THEN [inputs |-> <<>>, errors |-> <<>>]
                        ELSE EncodeStep(f[i - 1], rows, i)]

LEMMA EncodesAt ==
    ASSUME NEW rows, NEW n \in Nat, NEW f, Encodes(rows, n, f)
    PROVE  /\ f[0] = [inputs |-> <<>>, errors |-> <<>>]
           /\ \A i \in 1..n : f[i] = EncodeStep(f[i - 1], rows, i)
<1> DEFINE g == [i \in 0..n |-> IF i = 0 THEN [inputs |-> <<>>, errors |-> <<>>]
                                ELSE EncodeStep(f[i - 1], rows, i)]
<1>1. f = g
  BY DEF Encodes
<1>2. g[0] = [inputs |-> <<>>, errors |-> <<>>]
  OBVIOUS
<1>3. \A i \in 1..n : g[i] = EncodeStep(f[i - 1], rows, i)
  OBVIOUS
<1> HIDE DEF g
<1>4. QED
  BY <1>1, <1>2, <1>3

LEMMA EncodesNext ==
    ASSUME NEW rows, NEW n \in Nat, NEW f, Encodes(rows, n, f)
    PROVE  \E g : Encodes(rows, n + 1, g)
<1> DEFINE none == [inputs |-> <<>>, errors |-> <<>>]
           last == EncodeStep(f[n], rows, n + 1)
           g == [i \in 0..n + 1 |-> IF i = n + 1 THEN last ELSE f[i]]
           h == [i \in 0..n + 1 |-> IF i = 0 THEN none
                                    ELSE EncodeStep(g[i - 1], rows, i)]
<1>1. ASSUME NEW i \in 0..n + 1
      PROVE  g[i] = h[i]
  <2>1. CASE i = n + 1
    <3>1. g[i] = last /\ g[i - 1] = f[n] /\ i # 0
      BY <2>1
    <3>2. h[i] = EncodeStep(g[i - 1], rows, i)
      BY <3>1
    <3>3. QED
      BY <2>1, <3>1, <3>2
  <2>2. CASE i = 0
    <3>1. f[0] = none
      BY EncodesAt
    <3>2. g[i] = f[0] /\ h[i] = none
      BY <2>2
    <3>3. QED
      BY <3>1, <3>2
  <2>3. CASE i \in 1..n
    <3>1. f[i] = EncodeStep(f[i - 1], rows, i)
      BY <2>3, EncodesAt
    <3>2. g[i] = f[i] /\ g[i - 1] = f[i - 1]
      BY <2>3
    <3>3. h[i] = EncodeStep(g[i - 1], rows, i)
      BY <2>3
    <3>4. QED
      BY <3>1, <3>2, <3>3
  <2>4. QED
    BY <2>1, <2>2, <2>3
<1>2. g = h
  BY <1>1
<1>3. Encodes(rows, n + 1, g)
  BY <1>2, Zenon DEF Encodes
<1>4. QED
  BY <1>3

LEMMA EncodesExist ==
    ASSUME NEW rows, NEW n \in Nat
    PROVE  \E f : Encodes(rows, n, f)
<1> DEFINE T == {k \in Nat : \E f : Encodes(rows, k, f)}
<1>1. 0 \in T
  <2> DEFINE g == [i \in 0..0 |-> [inputs |-> <<>>, errors |-> <<>>]]
  <2>1. Encodes(rows, 0, g)
    BY DEF Encodes
  <2>2. QED
    BY <2>1
<1>2. \A k \in T : k + 1 \in T
  BY EncodesNext
<1>3. T \in SUBSET Nat
  OBVIOUS
<1>4. n \in T
  <2> HIDE DEF T
  <2>1. QED
    BY <1>1, <1>2, <1>3, Induction
<1>5. QED
  BY <1>4

LEMMA BatchEncodeLoop ==
    ASSUME NEW rows, Len(rows) \in Nat
    PROVE  \E f : /\ Encodes(rows, Len(rows), f)
                  /\ BatchEncode(rows) = f[Len(rows)]
<1> DEFINE n == Len(rows)
           f == CHOOSE f : Encodes(rows, n, f)
<1>1. Encodes(rows, n, f)
  <2>1. \E g : Encodes(rows, n, g)
    BY EncodesExist
  <2>2. QED
    BY <2>1, Zenon
<1>2. BatchEncode(rows) = f[n]
  BY Zenon DEF BatchEncode, Encodes, EncodeStep, Failure
<1>3. QED
  BY <1>1, <1>2

(* The loop of _add_error_list.                                             *)
InsertStep(before, errorList, k) ==
    InsertAt(before, errorList[k].place, errorList[k].error)

Inserts(outputs, errorList, n, f) ==
    f = [k \in 0..n |-> IF k = 0 THEN outputs
                        ELSE InsertStep(f[k - 1], errorList, k)]

LEMMA InsertsAt ==
    ASSUME NEW outputs, NEW errorList, NEW n \in Nat, NEW f,
           Inserts(outputs, errorList, n, f)
    PROVE  /\ f[0] = outputs
           /\ \A k \in 1..n : f[k] = InsertStep(f[k - 1], errorList, k)
<1> DEFINE g == [k \in 0..n |-> IF k = 0 THEN outputs
                                ELSE InsertStep(f[k - 1], errorList, k)]
<1>1. f = g
  BY DEF Inserts
<1>2. g[0] = outputs
  OBVIOUS
<1>3. \A k \in 1..n : g[k] = InsertStep(f[k - 1], errorList, k)
  OBVIOUS
<1> HIDE DEF g
<1>4. QED
  BY <1>1, <1>2, <1>3

LEMMA InsertsNext ==
    ASSUME NEW outputs, NEW errorList, NEW n \in Nat, NEW f,
           Inserts(outputs, errorList, n, f)
    PROVE  \E g : Inserts(outputs, errorList, n + 1, g)
<1> DEFINE last == InsertStep(f[n], errorList, n + 1)
           g == [k \in 0..n + 1 |-> IF k = n + 1 THEN last ELSE f[k]]
           h == [k \in 0..n + 1 |-> IF k = 0 THEN outputs
                                    ELSE InsertStep(g[k - 1], errorList, k)]
<1>1. ASSUME NEW k \in 0..n + 1
      PROVE  g[k] = h[k]
  <2>1. CASE k = n + 1
    <3>1. g[k] = last /\ g[k - 1] = f[n] /\ k # 0
      BY <2>1
    <3>2. h[k] = InsertStep(g[k - 1], errorList, k)
      BY <3>1
    <3>3. QED
      BY <2>1, <3>1, <3>2
  <2>2. CASE k = 0
    <3>1. f[0] = outputs
      BY InsertsAt
    <3>2. g[k] = f[0] /\ h[k] = outputs
      BY <2>2
    <3>3. QED
      BY <3>1, <3>2
  <2>3. CASE k \in 1..n
    <3>1. f[k] = InsertStep(f[k - 1], errorList, k)
      BY <2>3, InsertsAt
    <3>2. g[k] = f[k] /\ g[k - 1] = f[k - 1]
      BY <2>3
    <3>3. h[k] = InsertStep(g[k - 1], errorList, k)
      BY <2>3
    <3>4. QED
      BY <3>1, <3>2, <3>3
  <2>4. QED
    BY <2>1, <2>2, <2>3
<1>2. g = h
  BY <1>1
<1>3. Inserts(outputs, errorList, n + 1, g)
  BY <1>2, Zenon DEF Inserts
<1>4. QED
  BY <1>3

LEMMA InsertsExist ==
    ASSUME NEW outputs, NEW errorList, NEW n \in Nat
    PROVE  \E f : Inserts(outputs, errorList, n, f)
<1> DEFINE T == {k \in Nat : \E f : Inserts(outputs, errorList, k, f)}
<1>1. 0 \in T
  <2> DEFINE g == [k \in 0..0 |-> outputs]
  <2>1. Inserts(outputs, errorList, 0, g)
    BY DEF Inserts
  <2>2. QED
    BY <2>1
<1>2. \A k \in T : k + 1 \in T
  BY InsertsNext
<1>3. T \in SUBSET Nat
  OBVIOUS
<1>4. n \in T
  <2> HIDE DEF T
  <2>1. QED
    BY <1>1, <1>2, <1>3, Induction
<1>5. QED
  BY <1>4

\* The same, place by place.
Inserting(outputs, errorList, f) ==
    /\ f[0] = outputs
    /\ \A k \in 1..Len(errorList) : f[k] = InsertStep(f[k - 1], errorList, k)

LEMMA AddErrorListLoop ==
    ASSUME NEW outputs, NEW errorList, Len(errorList) \in Nat
    PROVE  \E f : /\ Inserting(outputs, errorList, f)
                  /\ AddErrorList(outputs, errorList) = f[Len(errorList)]
<1> DEFINE n == Len(errorList)
           f == CHOOSE f : Inserts(outputs, errorList, n, f)
<1>1. Inserts(outputs, errorList, n, f)
  <2>1. \E g : Inserts(outputs, errorList, n, g)
    BY InsertsExist
  <2>2. QED
    BY <2>1, Zenon
<1>2. AddErrorList(outputs, errorList) = f[n]
  BY Zenon DEF AddErrorList, Inserts, InsertStep
<1>3. n \in Nat
  OBVIOUS
<1> HIDE DEF f, n
<1>4. /\ f[0] = outputs
      /\ \A k \in 1..n : f[k] = InsertStep(f[k - 1], errorList, k)
  BY <1>1, <1>3, InsertsAt
<1>5. Inserting(outputs, errorList, f)
  BY <1>4, Zenon DEF Inserting, n
<1>6. QED
  BY <1>2, <1>5 DEF n

-----------------------------------------------------------------------------
(* What the two loops do together.                                          *)

Items == [place : Nat, error : Errors]
Collected == [inputs : Seq(Requests), errors : Seq(Items)]

LEMMA EncodeStepType ==
    ASSUME NEW rows \in Seq(Requests), NEW i \in 1..Len(rows),
           NEW before \in Collected
    PROVE  /\ kwargs[rows[i]].encodable =>
                /\ EncodeStep(before, rows, i).inputs
                     = Append(before.inputs, rows[i])
                /\ EncodeStep(before, rows, i).errors = before.errors
           /\ ~kwargs[rows[i]].encodable =>
                /\ EncodeStep(before, rows, i).inputs = before.inputs
                /\ EncodeStep(before, rows, i).errors
                     = Append(before.errors,
                              [place |-> i, error |-> Failure(rows[i])])
           /\ EncodeStep(before, rows, i) \in Collected
           /\ rows[i] \in Requests
           /\ [place |-> i, error |-> Failure(rows[i])] \in Items
<1>1. rows[i] \in Requests
  BY ElementOfSeq
<1>2. [place |-> i, error |-> Failure(rows[i])] \in Items
  BY <1>1 DEF Items, Errors, Failure
<1>3. /\ Append(before.inputs, rows[i]) \in Seq(Requests)
      /\ Append(before.errors, [place |-> i, error |-> Failure(rows[i])])
            \in Seq(Items)
  BY <1>1, <1>2, AppendProperties DEF Collected
<1> DEFINE in == Append(before.inputs, rows[i])
           er == Append(before.errors, [place |-> i, error |-> Failure(rows[i])])
<1>4. kwargs[rows[i]].encodable =>
        EncodeStep(before, rows, i) = [before EXCEPT !.inputs = in]
  BY DEF EncodeStep
<1>5. ~kwargs[rows[i]].encodable =>
        EncodeStep(before, rows, i) = [before EXCEPT !.errors = er]
  BY DEF EncodeStep
<1>6. in \in Seq(Requests) /\ er \in Seq(Items)
  BY <1>3
<1> HIDE DEF in, er
<1>7. /\ [before EXCEPT !.inputs = in] \in Collected
      /\ [before EXCEPT !.inputs = in].inputs = in
      /\ [before EXCEPT !.inputs = in].errors = before.errors
      /\ [before EXCEPT !.errors = er] \in Collected
      /\ [before EXCEPT !.errors = er].errors = er
      /\ [before EXCEPT !.errors = er].inputs = before.inputs
  BY <1>6 DEF Collected
<1>8. QED
  BY <1>1, <1>2, <1>4, <1>5, <1>7 DEF in, er

\* After i rows the loop has put each of them into one of the two lists, and
\* it never takes anything out of them.
Collecting(rows, f, i) ==
    /\ f[i] \in Collected
    /\ Len(f[i].inputs) + Len(f[i].errors) = i
    /\ \A j \in 0..i : /\ f[j] \in Collected
                       /\ Prefix(f[j].inputs, f[i].inputs)
                       /\ Prefix(f[j].errors, f[i].errors)

LEMMA CollectingStart ==
    ASSUME NEW rows, NEW n \in Nat, NEW f, Encodes(rows, n, f)
    PROVE  Collecting(rows, f, 0)
<1>1. f[0] = [inputs |-> <<>>, errors |-> <<>>]
  BY EncodesAt
<1>2. <<>> \in Seq(Requests) /\ <<>> \in Seq(Items) /\ Len(<<>>) = 0
  OBVIOUS
<1>3. f[0] \in Collected /\ f[0].inputs = <<>> /\ f[0].errors = <<>>
  BY <1>1, <1>2 DEF Collected
<1>4. Prefix(<<>>, <<>>)
  BY <1>2 DEF Prefix
<1>5. QED
  BY <1>2, <1>3, <1>4 DEF Collecting

LEMMA OneMore ==
    ASSUME NEW i \in Nat, NEW x \in Nat, NEW y \in Nat, x + y = i - 1
    PROVE  (x + 1) + y = i /\ x + (y + 1) = i
OBVIOUS

LEMMA CollectingNext ==
    ASSUME NEW rows \in Seq(Requests), NEW f, Encodes(rows, Len(rows), f),
           NEW i \in 1..Len(rows), Collecting(rows, f, i - 1)
    PROVE  Collecting(rows, f, i)
<1> DEFINE b == f[i - 1]
           a == f[i]
           item == [place |-> i, error |-> Failure(rows[i])]
<1>1. Len(rows) \in Nat /\ i \in Nat /\ i - 1 \in Nat
  BY LenProperties
<1>2. a = EncodeStep(b, rows, i)
  BY <1>1, EncodesAt
<1>3. /\ b \in Collected
      /\ Len(b.inputs) + Len(b.errors) = i - 1
      /\ \A j \in 0..i - 1 : /\ f[j] \in Collected
                             /\ Prefix(f[j].inputs, b.inputs)
                             /\ Prefix(f[j].errors, b.errors)
  BY DEF Collecting
<1>4. /\ b.inputs \in Seq(Requests) /\ b.errors \in Seq(Items)
      /\ Len(b.inputs) \in Nat /\ Len(b.errors) \in Nat
  BY <1>3, LenProperties DEF Collected
<1> HIDE DEF a, b, item
<1>5. /\ kwargs[rows[i]].encodable =>
            a.inputs = Append(b.inputs, rows[i]) /\ a.errors = b.errors
      /\ ~kwargs[rows[i]].encodable =>
            a.inputs = b.inputs /\ a.errors = Append(b.errors, item)
      /\ a \in Collected /\ rows[i] \in Requests /\ item \in Items
  BY <1>2, <1>3, EncodeStepType DEF item
<1>6. /\ Len(Append(b.inputs, rows[i])) = Len(b.inputs) + 1
      /\ Len(Append(b.errors, item)) = Len(b.errors) + 1
  BY <1>4, <1>5, AppendProperties
<1>7. Len(a.inputs) + Len(a.errors) = i
  <2>1. /\ (Len(b.inputs) + 1) + Len(b.errors) = i
        /\ Len(b.inputs) + (Len(b.errors) + 1) = i
    BY <1>1, <1>3, <1>4, OneMore
  <2>2. CASE kwargs[rows[i]].encodable
    <3>1. a.inputs = Append(b.inputs, rows[i]) /\ a.errors = b.errors
      BY <1>5, <2>2
    <3>2. QED
      BY <1>6, <2>1, <3>1, Zenon
  <2>3. CASE ~kwargs[rows[i]].encodable
    <3>1. a.inputs = b.inputs /\ a.errors = Append(b.errors, item)
      BY <1>5, <2>3
    <3>2. QED
      BY <1>6, <2>1, <3>1, Zenon
  <2>4. QED
    BY <2>2, <2>3
<1>8. ASSUME NEW j \in 0..i - 1
      PROVE  Prefix(f[j].inputs, a.inputs) /\ Prefix(f[j].errors, a.errors)
  <2>1. /\ f[j].inputs \in Seq(Requests) /\ f[j].errors \in Seq(Items)
        /\ Prefix(f[j].inputs, b.inputs) /\ Prefix(f[j].errors, b.errors)
    BY <1>3 DEF Collected
  <2>2. /\ Prefix(f[j].inputs, Append(b.inputs, rows[i]))
        /\ Prefix(f[j].errors, Append(b.errors, item))
    BY <1>4, <1>5, <2>1, PrefixAppend
  <2>3. CASE kwargs[rows[i]].encodable
    BY <1>5, <2>1, <2>2, <2>3
  <2>4. CASE ~kwargs[rows[i]].encodable
    BY <1>5, <2>1, <2>2, <2>4
  <2>5. QED
    BY <2>3, <2>4
<1>9. Prefix(a.inputs, a.inputs) /\ Prefix(a.errors, a.errors)
  BY <1>5, LenProperties DEF Prefix, Collected
<1>10. \A j \in 0..i : /\ f[j] \in Collected
                       /\ Prefix(f[j].inputs, a.inputs)
                       /\ Prefix(f[j].errors, a.errors)
  <2>1. ASSUME NEW j \in 0..i
        PROVE  /\ f[j] \in Collected
               /\ Prefix(f[j].inputs, a.inputs)
               /\ Prefix(f[j].errors, a.errors)
    <3>1. j \in 0..i - 1 \/ j = i
      BY <1>1
    <3>2. QED
      BY <1>3, <1>5, <1>8, <1>9, <3>1 DEF a
  <2>2. QED
    BY <2>1
<1>11. QED
  BY <1>5, <1>7, <1>10 DEF a, Collecting

LEMMA CollectingAll ==
    ASSUME NEW rows \in Seq(Requests), NEW f, Encodes(rows, Len(rows), f)
    PROVE  \A i \in 0..Len(rows) : Collecting(rows, f, i)
<1> DEFINE n == Len(rows)
           T == {i \in 0..n : Collecting(rows, f, i)}
<1>1. n \in Nat
  BY LenProperties
<1>2. 0 \in T
  BY <1>1, CollectingStart
<1>3. ASSUME NEW i \in T, i < n
      PROVE  i + 1 \in T
  <2>1. PICK j \in 1..n : j = i + 1 /\ j - 1 = i
    BY <1>1, <1>3
  <2>2. Collecting(rows, f, j - 1)
    BY <2>1
  <2>3. Collecting(rows, f, j)
    BY <2>2, CollectingNext
  <2>4. QED
    BY <1>1, <2>1, <2>3
<1>4. T \in SUBSET Nat
  BY <1>1
<1>5. \A i \in 0..n : i \in T
  <2> HIDE DEF T
  <2>1. QED
    BY <1>1, <1>2, <1>3, <1>4, Induction
<1>6. QED
  BY <1>5

\* Where row i is in the lists: behind what the rows before it gave.
RowAt(rows, f, i) ==
    LET n == Len(rows)
        g == Len(f[i - 1].inputs)
        k == Len(f[i - 1].errors)
    IN  /\ g \in Nat /\ k \in Nat /\ g + k = i - 1
        /\ g <= Len(f[n].inputs)
        /\ kwargs[rows[i]].encodable =>
             /\ Len(f[i].inputs) = g + 1 /\ Len(f[i].errors) = k
             /\ g + 1 <= Len(f[n].inputs)
             /\ f[n].inputs[g + 1] = rows[i]
        /\ ~kwargs[rows[i]].encodable =>
             /\ Len(f[i].inputs) = g /\ Len(f[i].errors) = k + 1
             /\ k + 1 <= Len(f[n].errors)
             /\ f[n].errors[k + 1] = [place |-> i, error |-> Failure(rows[i])]

LEMMA RowCollected ==
    ASSUME NEW rows \in Seq(Requests), NEW f, Encodes(rows, Len(rows), f),
           NEW i \in 1..Len(rows)
    PROVE  RowAt(rows, f, i)
<1> DEFINE n == Len(rows)
           b == f[i - 1]
           a == f[i]
           z == f[n]
           g == Len(b.inputs)
           k == Len(b.errors)
           item == [place |-> i, error |-> Failure(rows[i])]
<1>1. n \in Nat /\ i \in Nat /\ i - 1 \in 0..n /\ i \in 0..n /\ n \in 0..n
  BY LenProperties
<1>2. Collecting(rows, f, i - 1) /\ Collecting(rows, f, n)
  BY <1>1, CollectingAll
<1>3. a = EncodeStep(b, rows, i)
  BY <1>1, EncodesAt
<1>4. /\ b \in Collected /\ g + k = i - 1
      /\ a \in Collected /\ z \in Collected
      /\ Prefix(a.inputs, z.inputs) /\ Prefix(a.errors, z.errors)
      /\ g <= Len(z.inputs)
  BY <1>1, <1>2 DEF Collecting, Prefix
<1> HIDE DEF a, b, z, item
<1>5. /\ b.inputs \in Seq(Requests) /\ b.errors \in Seq(Items)
      /\ g \in Nat /\ k \in Nat
  BY <1>4, LenProperties DEF Collected
<1>6. /\ kwargs[rows[i]].encodable =>
            a.inputs = Append(b.inputs, rows[i]) /\ a.errors = b.errors
      /\ ~kwargs[rows[i]].encodable =>
            a.inputs = b.inputs /\ a.errors = Append(b.errors, item)
      /\ rows[i] \in Requests /\ item \in Items
  BY <1>3, <1>4, EncodeStepType DEF item
<1>7. /\ Len(Append(b.inputs, rows[i])) = g + 1
      /\ Append(b.inputs, rows[i])[g + 1] = rows[i]
      /\ Len(Append(b.errors, item)) = k + 1
      /\ Append(b.errors, item)[k + 1] = item
  BY <1>5, <1>6, AppendProperties
<1>8. kwargs[rows[i]].encodable =>
        /\ Len(a.inputs) = g + 1 /\ Len(a.errors) = k
        /\ g + 1 <= Len(z.inputs)
        /\ z.inputs[g + 1] = rows[i]
  <2>1. SUFFICES ASSUME a.inputs = Append(b.inputs, rows[i]), a.errors = b.errors
                 PROVE  /\ Len(a.inputs) = g + 1 /\ Len(a.errors) = k
                        /\ g + 1 <= Len(z.inputs)
                        /\ z.inputs[g + 1] = rows[i]
    BY <1>6
  <2>2. /\ Len(a.inputs) = g + 1 /\ Len(a.errors) = k
        /\ a.inputs[g + 1] = rows[i]
    BY <1>7, <2>1, Zenon
  <2>3. g + 1 \in 1..Len(a.inputs)
    BY <1>5, <2>2
  <2>4. Len(a.inputs) <= Len(z.inputs) /\ z.inputs[g + 1] = a.inputs[g + 1]
    BY <1>4, <2>3 DEF Prefix
  <2>5. QED
    BY <2>2, <2>4
<1>9. ~kwargs[rows[i]].encodable =>
        /\ Len(a.inputs) = g /\ Len(a.errors) = k + 1
        /\ k + 1 <= Len(z.errors)
        /\ z.errors[k + 1] = item
  <2>1. SUFFICES ASSUME a.inputs = b.inputs, a.errors = Append(b.errors, item)
                 PROVE  /\ Len(a.inputs) = g /\ Len(a.errors) = k + 1
                        /\ k + 1 <= Len(z.errors)
                        /\ z.errors[k + 1] = item
    BY <1>6
  <2>2. /\ Len(a.inputs) = g /\ Len(a.errors) = k + 1
        /\ a.errors[k + 1] = item
    BY <1>7, <2>1, Zenon
  <2>3. k + 1 \in 1..Len(a.errors)
    BY <1>5, <2>2
  <2>4. Len(a.errors) <= Len(z.errors) /\ z.errors[k + 1] = a.errors[k + 1]
    BY <1>4, <2>3 DEF Prefix
  <2>5. QED
    BY <2>2, <2>4
<1>10. QED
  BY <1>4, <1>5, <1>8, <1>9, Zenon DEF RowAt, a, b, z, item

\* The right answer at place t of a batch: what was generated for its row, or
\* the row's exception.
Right(rows, outputs, res, t) ==
    /\ kwargs[rows[t]].encodable =>
            \E g \in 1..Len(Good(rows)) : /\ Good(rows)[g] = rows[t]
                                          /\ res[t] = outputs[g]
    /\ ~kwargs[rows[t]].encodable => res[t] = Failure(rows[t])

\* When the exceptions of the first i rows are inserted: these rows have their
\* answers, and the outputs of the others follow.
Inserted(rows, outputs, f, h, X, i) ==
    LET g == Len(f[i].inputs)
        k == Len(f[i].errors)
    IN  /\ h[k] \in Seq(X)
        /\ Len(h[k]) = Len(outputs) + k
        /\ \A t \in 1..i : Right(rows, outputs, h[k], t)
        /\ \A j \in 1..Len(outputs) : j > g => h[k][k + j] = outputs[j]

LEMMA InsertedStart ==
    ASSUME NEW rows \in Seq(Requests), NEW X, NEW outputs \in Seq(X),
           NEW f, Encodes(rows, Len(rows), f),
           NEW h, NEW e, Inserting(outputs, e, h)
    PROVE  Inserted(rows, outputs, f, h, X, 0)
<1>1. Len(rows) \in Nat /\ Len(outputs) \in Nat
  BY LenProperties
<1>2. f[0] = [inputs |-> <<>>, errors |-> <<>>]
  BY <1>1, EncodesAt
<1>3. Len(f[0].inputs) = 0 /\ Len(f[0].errors) = 0
  BY <1>2
<1>4. h[0] = outputs
  BY DEF Inserting
<1>5. \A j \in 1..Len(outputs) : h[0][0 + j] = outputs[j]
  BY <1>1, <1>4
<1>6. h[0] \in Seq(X) /\ Len(h[0]) = Len(outputs) + 0
  BY <1>1, <1>4
<1>7. QED
  BY <1>3, <1>5, <1>6 DEF Inserted

\* The arithmetic of the places.
LEMMA Places ==
    ASSUME NEW i \in Nat \ {0}, NEW g \in Nat, NEW k \in Nat, g + k = i - 1,
           NEW l \in Nat, g <= l
    PROVE  /\ i \in 1..l + k + 1
           /\ k + (g + 1) = i
           /\ l + (k + 1) = l + k + 1
           /\ \A t \in 1..i : t \in 1..i - 1 \/ t = i
           /\ \A t \in 1..i - 1 : t \in 1..i
           /\ \A j \in 1..l : j > g =>
                /\ k + 1 + j \in i + 1..l + k + 1
                /\ k + 1 + j - 1 = k + j
OBVIOUS

LEMMA InsertedNext ==
    ASSUME NEW rows \in Seq(Requests), NEW X, NEW outputs \in Seq(X),
           Errors \subseteq X,
           NEW f, Encodes(rows, Len(rows), f),
           Good(rows) = f[Len(rows)].inputs,
           Len(outputs) = Len(Good(rows)),
           NEW e, e = f[Len(rows)].errors, Len(e) \in Nat,
           NEW h, Inserting(outputs, e, h),
           NEW i \in 1..Len(rows), Inserted(rows, outputs, f, h, X, i - 1)
    PROVE  Inserted(rows, outputs, f, h, X, i)
<1> DEFINE n == Len(rows)
           l == Len(outputs)
           g == Len(f[i - 1].inputs)
           k == Len(f[i - 1].errors)
           r == rows[i]
           J == h[k]
<1>1. n \in Nat /\ l \in Nat /\ i \in Nat \ {0}
  BY LenProperties
<1>2. /\ g \in Nat /\ k \in Nat /\ g + k = i - 1 /\ g <= l
      /\ kwargs[r].encodable =>
            /\ Len(f[i].inputs) = g + 1 /\ Len(f[i].errors) = k
            /\ g + 1 <= l
            /\ Good(rows)[g + 1] = r
      /\ ~kwargs[r].encodable =>
            /\ Len(f[i].inputs) = g /\ Len(f[i].errors) = k + 1
            /\ k + 1 <= Len(e)
            /\ e[k + 1] = [place |-> i, error |-> Failure(r)]
  <2>1. RowAt(rows, f, i)
    BY RowCollected
  <2>2. l = Len(f[n].inputs) /\ Good(rows) = f[n].inputs /\ e = f[n].errors
    OBVIOUS
  <2>3. QED
    BY <2>1, <2>2, Zenon DEF RowAt
<1>3. /\ J \in Seq(X) /\ Len(J) = l + k
      /\ \A t \in 1..i - 1 : Right(rows, outputs, J, t)
      /\ \A j \in 1..l : j > g => J[k + j] = outputs[j]
  BY Zenon DEF Inserted
<1>4. r \in Requests
  BY ElementOfSeq
<1> HIDE DEF n, l, g, k, r, J
<1>5. /\ i \in 1..l + k + 1
      /\ k + (g + 1) = i
      /\ l + (k + 1) = l + k + 1
      /\ \A t \in 1..i : t \in 1..i - 1 \/ t = i
      /\ \A t \in 1..i - 1 : t \in 1..i
      /\ \A j \in 1..l : j > g =>
           /\ k + 1 + j \in i + 1..l + k + 1
           /\ k + 1 + j - 1 = k + j
  BY <1>1, <1>2, Places
<1>6. CASE kwargs[r].encodable
  <2>1. /\ Len(f[i].inputs) = g + 1 /\ Len(f[i].errors) = k
        /\ g + 1 <= l
        /\ Good(rows)[g + 1] = r
    BY <1>2, <1>6
  <2>2. J[i] = outputs[g + 1]
    <3>1. g + 1 \in 1..l /\ g + 1 > g
      BY <1>1, <1>2, <2>1
    <3>2. QED
      BY <1>3, <1>5, <3>1
  <2>3. Right(rows, outputs, J, i)
    <3>1. g + 1 \in 1..Len(Good(rows))
      BY <1>1, <1>2, <2>1 DEF l
    <3>2. QED
      BY <1>6, <2>1, <2>2, <3>1 DEF Right, r
  <2>4. \A t \in 1..i : Right(rows, outputs, J, t)
    BY <1>3, <1>5, <2>3
  <2>5. ASSUME NEW j \in 1..l, j > g + 1
        PROVE  J[k + j] = outputs[j]
    <3>1. g \in Nat /\ l \in Nat
      BY <1>1, <1>2
    <3>2. j > g
      BY <2>5, <3>1
    <3>3. QED
      BY <1>3, <3>2, Zenon
  <2>6. QED
    BY <1>3, <2>1, <2>4, <2>5, Zenon DEF Inserted, J, l
<1>7. CASE ~kwargs[r].encodable
  <2>1. /\ Len(f[i].inputs) = g /\ Len(f[i].errors) = k + 1
        /\ k + 1 <= Len(e)
        /\ e[k + 1] = [place |-> i, error |-> Failure(r)]
    BY <1>2, <1>7
  <2> DEFINE I == h[k + 1]
  <2>2. I = InsertAt(J, i, Failure(r))
    <3>1. PICK m \in 1..Len(e) : m = k + 1 /\ m - 1 = k
      BY <1>2, <2>1
    <3>2. h[m] = InsertStep(h[m - 1], e, m)
      BY DEF Inserting
    <3>3. e[m].place = i /\ e[m].error = Failure(r)
      BY <2>1, <3>1
    <3>4. QED
      BY <3>1, <3>2, <3>3 DEF InsertStep, J
  <2>3. Failure(r) \in X
    BY <1>4 DEF Failure, Errors
  <2> HIDE DEF I
  <2>4. /\ I \in Seq(X) /\ Len(I) = l + k + 1
        /\ \A t \in 1..i - 1 : I[t] = J[t]
        /\ I[i] = Failure(r)
        /\ \A t \in i + 1..l + k + 1 : I[t] = J[t - 1]
    <3>1. i \in 1..Len(J) + 1 /\ J \in Seq(X)
      BY <1>3, <1>5
    <3>2. I \in Seq(X) /\ IsInserted(J, i, Failure(r), I)
      BY <2>2, <2>3, <3>1, InsertAtProperties
    <3>3. QED
      BY <1>3, <3>2 DEF IsInserted
  <2>5. ASSUME NEW t \in 1..i
        PROVE  Right(rows, outputs, I, t)
    <3>1. CASE t \in 1..i - 1
      BY <1>3, <2>4, <3>1 DEF Right
    <3>2. CASE t = i
      BY <1>7, <2>4, <3>2 DEF Right, r
    <3>3. QED
      BY <1>5, <3>1, <3>2
  <2>6. ASSUME NEW j \in 1..l, j > g
        PROVE  I[k + 1 + j] = outputs[j]
    <3>1. k + 1 + j \in i + 1..l + k + 1 /\ k + 1 + j - 1 = k + j
      BY <1>5, <2>6
    <3> DEFINE t == k + 1 + j
    <3>2. t \in i + 1..l + k + 1 /\ t - 1 = k + j
      BY <1>1, <1>2, <3>1
    <3> HIDE DEF t
    <3>3. I[t] = J[t - 1]
      BY <2>4, <3>2
    <3>4. I[t] = outputs[j]
      BY <1>3, <2>6, <3>2, <3>3
    <3>5. QED
      BY <3>4 DEF t
  <2>7. Len(I) = l + (k + 1)
    BY <1>5, <2>4
  <2>8. QED
    BY <2>1, <2>4, <2>5, <2>6, <2>7, Zenon DEF Inserted, I, l
<1>8. QED
  BY <1>6, <1>7

LEMMA GoodType ==
    ASSUME NEW rows \in Seq(Requests)
    PROVE  /\ Good(rows) \in Seq(Requests) /\ ErrorList(rows) \in Seq(Items)
           /\ Len(Good(rows)) \in Nat /\ Len(Good(rows)) <= Len(rows)
           /\ Len(ErrorList(rows)) \in Nat
           /\ Len(Good(rows)) + Len(ErrorList(rows)) = Len(rows)
<1>1. Len(rows) \in Nat /\ Len(rows) \in 0..Len(rows)
  BY LenProperties
<1>2. PICK f : /\ Encodes(rows, Len(rows), f)
               /\ BatchEncode(rows) = f[Len(rows)]
  BY <1>1, BatchEncodeLoop
<1>3. Collecting(rows, f, Len(rows))
  BY <1>1, <1>2, CollectingAll
<1>4. BatchEncode(rows) \in Collected
      /\ Len(Good(rows)) + Len(ErrorList(rows)) = Len(rows)
  BY <1>2, <1>3 DEF Collecting, Good, ErrorList
<1>5. Good(rows) \in Seq(Requests) /\ ErrorList(rows) \in Seq(Items)
  BY <1>4 DEF Collected, Good, ErrorList
<1>6. Len(Good(rows)) \in Nat /\ Len(ErrorList(rows)) \in Nat
  BY <1>5, LenProperties
<1>7. QED
  BY <1>1, <1>4, <1>5, <1>6

\* Every row of a batch is answered at its place: with the output generated for
\* it, or with its exception.
LEMMA Answers ==
    ASSUME NEW rows \in Seq(Requests), NEW X, NEW outputs \in Seq(X),
           Errors \subseteq X,
           Len(outputs) = Len(Good(rows)),
           NEW res, res = AddErrorList(outputs, ErrorList(rows))
    PROVE  /\ res \in Seq(X)
           /\ Len(res) = Len(rows)
           /\ \A t \in 1..Len(rows) : Right(rows, outputs, res, t)
<1> DEFINE n == Len(rows)
           e == ErrorList(rows)
<1>1. n \in Nat /\ Len(e) \in Nat /\ Len(Good(rows)) + Len(e) = n
  BY LenProperties, GoodType
<1>2. PICK f : /\ Encodes(rows, n, f)
               /\ BatchEncode(rows) = f[n]
  BY <1>1, BatchEncodeLoop
<1>3. Good(rows) = f[n].inputs /\ e = f[n].errors
  BY <1>2 DEF Good, ErrorList
<1> HIDE DEF e
<1>4. PICK h : /\ Inserting(outputs, e, h)
               /\ AddErrorList(outputs, e) = h[Len(e)]
  BY <1>1, AddErrorListLoop
<1> DEFINE T == {i \in 0..n : Inserted(rows, outputs, f, h, X, i)}
<1>5. 0 \in T
  BY <1>1, <1>2, <1>4, InsertedStart
<1>6. ASSUME NEW i \in T, i < n
      PROVE  i + 1 \in T
  <2>1. PICK j \in 1..n : j = i + 1 /\ j - 1 = i
    BY <1>1, <1>6
  <2>2. Inserted(rows, outputs, f, h, X, j - 1)
    BY <2>1
  <2>3. Inserted(rows, outputs, f, h, X, j)
    BY <1>1, <1>2, <1>3, <1>4, <2>2, InsertedNext
  <2>4. QED
    BY <1>1, <2>1, <2>3
<1>7. T \in SUBSET Nat
  BY <1>1
<1>8. n \in T
  <2> HIDE DEF T
  <2>1. n \in 0..n
    BY <1>1
  <2>2. QED
    BY <1>1, <1>5, <1>6, <1>7, <2>1, Induction
<1>9. /\ h[Len(e)] \in Seq(X)
      /\ Len(h[Len(e)]) = Len(outputs) + Len(e)
      /\ \A t \in 1..n : Right(rows, outputs, h[Len(e)], t)
  BY <1>3, <1>8, Zenon DEF Inserted
<1>10. QED
  BY <1>1, <1>4, <1>9 DEF e

-----------------------------------------------------------------------------
(***************************************************************************)
(* The invariant.                                                          *)
(***************************************************************************)
Arrived(r) == handler[r] # "new"

Increasing(s) == \A i, j \in DOMAIN s : i < j => s[i] < s[j]

\* kwargs is filled in when a request arrives.
TypeInv == TypeOK /\ kwargs \in [Requests -> Kwargs \cup {<<>>}]

\* Requests arrive in the order of their numbers.
ArrivalInv == \A r, q \in Requests : q < r /\ Arrived(r) => Arrived(q)

\* The queue is in order of arrival, and behind everything taken from it.
QueueInv ==
    /\ Increasing(queue)
    /\ \A r \in Requests : Queued(r) => Arrived(r)
    /\ \A r, q \in Requests : Arrived(r) /\ ~Queued(r) /\ Queued(q) => r < q

\* Requests rs are of one configuration c, and none came before k, which is one
\* of that configuration.
OfOneKind(rs, c, k) ==
    /\ Arrived(k) /\ kwargs[k].config = c
    /\ \A r \in rs : Arrived(r) /\ kwargs[r].config = c /\ k <= r

\* The requests of an entry are in order of arrival, and its kwargs are those
\* of the first of its configuration that came while it existed.
EntryInv(e) == /\ e.data # <<>> /\ Increasing(e.data)
               /\ OfOneKind(ToSet(e.data), e.config, e.kwargs)

PoolInv ==
    /\ \A i \in DOMAIN taskPool : EntryInv(taskPool[i])
    /\ \A i, j \in DOMAIN taskPool :
            i # j => taskPool[i].config # taskPool[j].config

BatchInv ==
    /\ batch.state = "idle" => batch = NoBatch
    /\ batch.state # "idle" =>
        /\ batch.rows # <<>> /\ Increasing(batch.rows)
        /\ OfOneKind(ToSet(batch.rows), kwargs[batch.kwargs].config, batch.kwargs)
    /\ engine.max_batch_size > 0 => Len(batch.rows) <= engine.max_batch_size
    /\ batch.state \in {"stream", "last"} => Streams(batch.kwargs)

\* Queue, pool and batch share no request, nobody is answered before being in
\* a batch, and whoever left the batch is answered.
PlaceInv == \A r \in Requests :
    /\ ~(Queued(r) /\ Pooled(r))
    /\ ~(Queued(r) /\ Batched(r))
    /\ ~(Pooled(r) /\ Batched(r))
    /\ Queued(r) \/ Pooled(r) \/ ~Arrived(r) => inbox[r] = <<>>
    /\ Batched(r) /\ batch.state = "encode" => inbox[r] = <<>>
    /\ Arrived(r) => Queued(r) \/ Pooled(r) \/ Batched(r) \/ inbox[r] # <<>>

\* What a handler was sent is about its request, and under the adapter of one
\* that came no later.
Sensible(r, x) ==
    /\ x = Nothing \/ x.of = r
    /\ x \in Replies => \E q \in Requests :
            /\ q <= r /\ Arrived(q) /\ kwargs[q].config = kwargs[r].config
            /\ x.adapter = kwargs[q].adapter

AllSensible(r) == \A k \in DOMAIN inbox[r] : Sensible(r, inbox[r][k])

InboxInv == \A r \in Requests :
    /\ AllSensible(r)
    /\ Arrived(r) /\ ~Streams(r) => Len(inbox[r]) <= 1

\* Streams that run alone.
Alone(r) == engine.max_batch_size = 1 \/ Peers(r) = {}

Unended(s) == \A k \in DOMAIN s : s[k] # Nothing

\* The last piece is at place k.
LastAt(s, k) == k \in DOMAIN s /\ s[k].kind \in {"last", "error"}

WholeAt(r) ==
    /\ Batched(r) /\ batch.state = "stream" => Unended(inbox[r])
    /\ Batched(r) /\ batch.state = "last" =>
            Unended(inbox[r]) /\ LastAt(inbox[r], Len(inbox[r]))
    /\ Answered(r) =>
            /\ LastAt(inbox[r], Len(inbox[r]) - 1)
            /\ \A k \in DOMAIN inbox[r] :
                    inbox[r][k] = Nothing <=> k = Len(inbox[r])

WholeInv == \A r \in Requests :
    Arrived(r) /\ Streams(r) /\ Alone(r) => WholeAt(r)

IInv == /\ TypeInv /\ ArrivalInv /\ QueueInv /\ PoolInv /\ BatchInv
        /\ PlaceInv /\ NoOvertaking /\ InboxInv /\ WholeInv

-----------------------------------------------------------------------------
(* Increasing sequences.                                                    *)

LEMMA InSeq ==
    ASSUME NEW S, NEW s \in Seq(S)
    PROVE  /\ Len(s) \in Nat /\ DOMAIN s = 1..Len(s)
           /\ \A r : r \in ToSet(s) <=> \E i \in 1..Len(s) : s[i] = r
           /\ ToSet(s) \subseteq S
           /\ \A i \in 1..Len(s) : s[i] \in ToSet(s) /\ s[i] \in S
<1>1. Len(s) \in Nat /\ DOMAIN s = 1..Len(s)
  BY LenProperties
<1>2. \A i \in 1..Len(s) : s[i] \in S
  BY ElementOfSeq
<1>3. QED
  BY <1>1, <1>2 DEF ToSet

\* s has n elements.
Members(s, n) ==
    /\ n \in Nat /\ DOMAIN s = 1..n
    /\ \A r : r \in ToSet(s) <=> \E i \in 1..n : s[i] = r

LEMMA SeqMembers ==
    ASSUME NEW S, NEW s \in Seq(S)
    PROVE  Members(s, Len(s))
BY InSeq DEF Members

LEMMA AppendOne ==
    ASSUME NEW S \in SUBSET Int, NEW s \in Seq(S), NEW e \in S, Increasing(s),
           \A r \in ToSet(s) : r < e
    PROVE  /\ Append(s, e) \in Seq(S) /\ Append(s, e) # <<>>
           /\ ToSet(Append(s, e)) = ToSet(s) \cup {e}
           /\ Increasing(Append(s, e))
<1> DEFINE a == Append(s, e)
           n == Len(s)
<1>1. /\ a \in Seq(S) /\ a # <<>> /\ Len(a) = n + 1
      /\ \A i \in 1..n : a[i] = s[i]
      /\ a[n + 1] = e
  BY AppendProperties
<1>2. /\ n \in Nat /\ DOMAIN s = 1..n
      /\ \A r : r \in ToSet(s) <=> \E i \in 1..n : s[i] = r
      /\ \A i \in 1..n : s[i] \in ToSet(s) /\ s[i] \in S
  BY InSeq
<1>3. DOMAIN a = 1..n + 1 /\ \A r : r \in ToSet(a) <=> \E i \in 1..n + 1 : a[i] = r
  <2> HIDE DEF a, n
  <2>1. Members(a, n + 1)
    BY <1>1, SeqMembers, Zenon
  <2>2. QED
    BY <2>1 DEF Members
<1> HIDE DEF a, n
<1>4. ToSet(a) = ToSet(s) \cup {e}
  <2>1. ASSUME NEW r
        PROVE  r \in ToSet(a) <=> r \in ToSet(s) \/ r = e
    <3>1. ASSUME NEW i \in 1..n + 1, a[i] = r
          PROVE  r \in ToSet(s) \/ r = e
      <4>1. i \in 1..n \/ i = n + 1
        BY <1>2
      <4>2. QED
        BY <1>1, <1>2, <3>1, <4>1
    <3>2. ASSUME NEW i \in 1..n, s[i] = r
          PROVE  r \in ToSet(a)
      <4>1. i \in 1..n + 1 /\ a[i] = r
        BY <1>1, <1>2, <3>2
      <4>2. QED
        BY <1>3, <4>1
    <3>3. e \in ToSet(a)
      <4>1. n + 1 \in 1..n + 1
        BY <1>2
      <4>2. QED
        BY <1>1, <1>3, <4>1
    <3>4. QED
      BY <1>2, <1>3, <3>1, <3>2, <3>3
  <2>2. QED
    BY <2>1
<1>5. Increasing(a)
  <2>1. ASSUME NEW i \in 1..n + 1, NEW j \in 1..n + 1, i < j
        PROVE  a[i] < a[j]
    <3>1. i \in 1..n /\ (j \in 1..n \/ j = n + 1)
      BY <1>2, <2>1
    <3>2. a[i] = s[i] /\ s[i] < e
      BY <1>1, <1>2, <3>1
    <3>3. CASE j = n + 1
      BY <1>1, <3>2, <3>3
    <3>4. CASE j \in 1..n
      <4>1. s[i] < s[j] /\ a[j] = s[j]
        BY <1>1, <1>2, <2>1, <3>1, <3>4 DEF Increasing
      <4>2. QED
        BY <3>2, <4>1
    <3>5. QED
      BY <3>1, <3>3, <3>4
  <2>2. QED
    BY <1>3, <2>1 DEF Increasing
<1>6. QED
  BY <1>1, <1>4, <1>5 DEF a

\* A sequence without its first n elements.
Split(S, s, n, a, b) ==
    /\ a \in Seq(S) /\ b \in Seq(S)
    /\ Len(a) = n /\ Len(b) = Len(s) - n
    /\ Increasing(a) /\ Increasing(b)
    /\ ToSet(s) = ToSet(a) \cup ToSet(b)
    /\ \A q \in ToSet(a), r \in ToSet(b) : q < r

LEMMA Splits ==
    ASSUME NEW S \in SUBSET Int, NEW s \in Seq(S), Increasing(s),
           NEW n \in 0..Len(s),
           NEW a, a = SubSeq(s, 1, n), NEW b, b = SubSeq(s, n + 1, Len(s))
    PROVE  Split(S, s, n, a, b)
<1> DEFINE l == Len(s)
<1>1. /\ l \in Nat /\ DOMAIN s = 1..l /\ n \in Nat /\ n <= l
      /\ \A r : r \in ToSet(s) <=> \E i \in 1..l : s[i] = r
      /\ \A i \in 1..l : s[i] \in ToSet(s) /\ s[i] \in S
  BY InSeq
<1> HIDE DEF l
<1>2. /\ a \in Seq(S) /\ Len(a) = n /\ \A i \in 1..n : a[i] = s[i]
  <2>1. \A i \in 1..n : s[i] \in S
    BY <1>1
  <2>2. /\ SubSeq(s, 1, n) \in Seq(S)
        /\ Len(SubSeq(s, 1, n)) = IF 1 <= n THEN n - 1 + 1 ELSE 0
        /\ \A i \in 1..n - 1 + 1 : SubSeq(s, 1, n)[i] = s[1 + i - 1]
    BY <1>1, <2>1, SubSeqProperties
  <2>3. QED
    BY <1>1, <2>2
<1>3. /\ b \in Seq(S) /\ Len(b) = l - n
      /\ \A i \in 1..l - n : b[i] = s[n + i]
  <2>1. \A i \in n + 1..l : s[i] \in S
    BY <1>1
  <2>2. /\ SubSeq(s, n + 1, l) \in Seq(S)
        /\ Len(SubSeq(s, n + 1, l)) = IF n + 1 <= l THEN l - (n + 1) + 1 ELSE 0
        /\ \A i \in 1..l - (n + 1) + 1 : SubSeq(s, n + 1, l)[i] = s[n + 1 + i - 1]
    BY <1>1, <2>1, SubSeqProperties
  <2>3. l - n \in Nat /\ l - (n + 1) + 1 = l - n
    BY <1>1
  <2>4. Len(b) = l - n
    <3>1. CASE n + 1 <= l
      BY <1>1, <2>2, <2>3, <3>1 DEF l
    <3>2. CASE ~(n + 1 <= l)
      <4>1. l = n
        BY <1>1, <3>2
      <4>2. Len(b) = 0
        BY <2>2, <3>2 DEF l
      <4>3. QED
        BY <1>1, <4>1, <4>2
    <3>3. QED
      BY <3>1, <3>2
  <2>5. ASSUME NEW i \in 1..l - n
        PROVE  b[i] = s[n + i]
    <3>1. n + 1 + i - 1 = n + i
      BY <1>1, <2>3
    <3>2. b[i] = s[n + 1 + i - 1]
      BY <2>2, <2>3 DEF l
    <3>3. QED
      BY <3>1, <3>2
  <2>6. QED
    BY <2>2, <2>4, <2>5 DEF l
<1>4. /\ DOMAIN a = 1..n /\ DOMAIN b = 1..l - n
      /\ \A r : r \in ToSet(a) <=> \E i \in 1..n : a[i] = r
      /\ \A r : r \in ToSet(b) <=> \E i \in 1..l - n : b[i] = r
  <2>1. Members(a, n)
    BY <1>2, SeqMembers, Zenon
  <2>2. Members(b, l - n)
    BY <1>3, SeqMembers, Zenon
  <2>3. QED
    BY <2>1, <2>2, Zenon DEF Members
<1>5. \A i, j \in 1..l : i < j => s[i] < s[j]
  BY <1>1 DEF Increasing
<1>6. Increasing(a) /\ Increasing(b)
  <2>1. \A i, j \in 1..n : i < j => a[i] < a[j]
    BY <1>1, <1>2, <1>5
  <2>2. ASSUME NEW i \in 1..l - n, NEW j \in 1..l - n, i < j
        PROVE  b[i] < b[j]
    <3>1. n + i \in 1..l /\ n + j \in 1..l /\ n + i < n + j
      BY <1>1, <2>2
    <3>2. QED
      BY <1>3, <1>5, <3>1
  <2>3. QED
    BY <1>4, <2>1, <2>2 DEF Increasing
<1>7. ASSUME NEW r
      PROVE  r \in ToSet(s) <=> r \in ToSet(a) \/ r \in ToSet(b)
  <2>1. ASSUME NEW i \in 1..l, s[i] = r
        PROVE  r \in ToSet(a) \/ r \in ToSet(b)
    <3>1. CASE i <= n
      BY <1>1, <1>2, <1>4, <2>1, <3>1
    <3>2. CASE i > n
      <4>1. PICK k \in 1..l - n : n + k = i
        <5>1. i - n \in 1..l - n /\ n + (i - n) = i
          BY <1>1, <3>2
        <5>2. QED
          BY <5>1
      <4>2. QED
        BY <1>3, <1>4, <2>1, <4>1
    <3>3. QED
      BY <1>1, <3>1, <3>2
  <2>2. ASSUME NEW i \in 1..n, a[i] = r
        PROVE  r \in ToSet(s)
    <3>1. i \in 1..l /\ s[i] = r
      BY <1>1, <1>2, <2>2
    <3>2. QED
      BY <1>1, <3>1
  <2>3. ASSUME NEW i \in 1..l - n, b[i] = r
        PROVE  r \in ToSet(s)
    <3>1. n + i \in 1..l /\ s[n + i] = r
      BY <1>1, <1>3, <2>3
    <3>2. QED
      BY <1>1, <3>1
  <2>4. QED
    BY <1>1, <1>4, <2>1, <2>2, <2>3
<1>8. ASSUME NEW q \in ToSet(a), NEW r \in ToSet(b)
      PROVE  q < r
  <2>1. PICK i \in 1..n : a[i] = q
    BY <1>4
  <2>2. PICK j \in 1..l - n : b[j] = r
    BY <1>4
  <2>3. i \in 1..l /\ n + j \in 1..l /\ i < n + j
    BY <1>1
  <2>4. QED
    BY <1>2, <1>3, <1>5, <2>1, <2>2, <2>3
<1>9. QED
  BY <1>2, <1>3, <1>6, <1>7, <1>8 DEF l, Split

LEMMA HeadFirst ==
    ASSUME NEW S \in SUBSET Int, NEW s \in Seq(S), s # <<>>, Increasing(s)
    PROVE  /\ Head(s) \in ToSet(s) /\ Head(s) \in S /\ Tail(s) \in Seq(S)
           /\ Increasing(Tail(s))
           /\ ToSet(s) = ToSet(Tail(s)) \cup {Head(s)}
           /\ \A r \in ToSet(Tail(s)) : Head(s) < r
<1> DEFINE l == Len(s)
           b == Tail(s)
<1>1. /\ l \in Nat /\ DOMAIN s = 1..l
      /\ \A r : r \in ToSet(s) <=> \E i \in 1..l : s[i] = r
      /\ \A i \in 1..l : s[i] \in ToSet(s) /\ s[i] \in S
  BY InSeq
<1>2. l # 0 /\ Head(s) = s[1] /\ 1 \in 1..l
  BY <1>1, EmptySeq
<1>3. /\ b \in Seq(S) /\ Len(b) = l - 1
      /\ \A i \in 1..l - 1 : b[i] = s[i + 1]
  BY HeadTailProperties
<1>4. /\ DOMAIN b = 1..l - 1
      /\ \A r : r \in ToSet(b) <=> \E i \in 1..l - 1 : b[i] = r
  BY <1>3, InSeq
<1>5. \A i, j \in 1..l : i < j => s[i] < s[j]
  BY <1>1 DEF Increasing
<1> HIDE DEF l, b
<1>6. Increasing(b)
  <2>1. ASSUME NEW i \in 1..l - 1, NEW j \in 1..l - 1, i < j
        PROVE  b[i] < b[j]
    <3>1. i + 1 \in 1..l /\ j + 1 \in 1..l /\ i + 1 < j + 1
      BY <1>1, <2>1
    <3>2. QED
      BY <1>3, <1>5, <3>1
  <2>2. QED
    BY <1>4, <2>1 DEF Increasing
<1>7. ASSUME NEW r
      PROVE  r \in ToSet(s) <=> r \in ToSet(b) \/ r = Head(s)
  <2>1. ASSUME NEW i \in 1..l, s[i] = r, i # 1
        PROVE  r \in ToSet(b)
    <3>1. PICK k \in 1..l - 1 : k + 1 = i
      <4>1. i - 1 \in 1..l - 1 /\ (i - 1) + 1 = i
        BY <1>1, <2>1
      <4>2. QED
        BY <4>1
    <3>2. QED
      BY <1>3, <1>4, <2>1, <3>1
  <2>2. \A i \in 1..l - 1 : i + 1 \in 1..l
    BY <1>1
  <2>3. QED
    BY <1>1, <1>2, <1>3, <1>4, <2>1, <2>2
<1>8. ASSUME NEW r \in ToSet(b)
      PROVE  Head(s) < r
  <2>1. PICK i \in 1..l - 1 : b[i] = r
    BY <1>4
  <2>2. i + 1 \in 1..l /\ 1 < i + 1
    BY <1>1
  <2>3. QED
    BY <1>2, <1>3, <1>5, <2>1, <2>2
<1>9. QED
  BY <1>1, <1>2, <1>3, <1>6, <1>7, <1>8 DEF b

LEMMA IncreasingInjective ==
    ASSUME NEW S \in SUBSET Int, NEW s \in Seq(S), Increasing(s)
    PROVE  IsInjective(s)
<1>1. /\ Len(s) \in Nat /\ DOMAIN s = 1..Len(s)
      /\ \A i \in 1..Len(s) : s[i] \in S
  BY InSeq
<1>2. ASSUME NEW i \in 1..Len(s), NEW j \in 1..Len(s), s[i] = s[j]
      PROVE  i = j
  <2>1. i < j => s[i] < s[j]
    BY <1>1 DEF Increasing
  <2>2. j < i => s[j] < s[i]
    BY <1>1 DEF Increasing
  <2>3. s[i] \in Int
    BY <1>1
  <2>4. QED
    BY <1>1, <1>2, <2>1, <2>2, <2>3
<1>3. QED
  BY <1>1, <1>2 DEF IsInjective

LEMMA RequestsType == Requests \in SUBSET Int /\ 1 \in Requests /\ NumRequests \in Nat
  BY BatchingAssumption DEF Requests

-----------------------------------------------------------------------------
(* Types.                                                                   *)

Answer == Replies \cup Errors \cup {Nothing}

LEMMA TypeFacts ==
    ASSUME TypeInv
    PROVE  /\ engine \in [strict : BOOLEAN, max_batch_size : Limits]
           /\ engine.max_batch_size \in Int
           /\ kwargs \in [Requests -> Kwargs \cup {<<>>}]
           /\ \A r \in Requests : Arrived(r) => kwargs[r] \in Kwargs
           /\ handler \in [Requests -> {"new", "submitted", "waiting"}]
           /\ queue \in Seq(Requests)
           /\ taskPool \in Seq(Entries)
           /\ taskThread \in {"none", "alive", "hung", "dead"}
           /\ adaptersPool \subseteq Adapters
           /\ batch \in Batches
           /\ batch.rows \in Seq(Requests) /\ batch.kwargs \in Requests
           /\ batch.chunks \in Nat
           /\ batch.state \in {"idle", "encode", "stream", "last"}
           /\ inbox \in [Requests -> Seq(Answer)]
<1>1. TypeOK /\ kwargs \in [Requests -> Kwargs \cup {<<>>}]
  BY DEF TypeInv
<1>2. engine.max_batch_size \in Int
  BY <1>1, BatchingAssumption DEF TypeOK
<1>3. batch \in Batches
  BY <1>1 DEF TypeOK
<1>4. /\ batch.rows \in Seq(Requests) /\ batch.kwargs \in Requests
      /\ batch.chunks \in Nat
      /\ batch.state \in {"idle", "encode", "stream", "last"}
  BY <1>3 DEF Batches
<1>5. inbox \in [Requests -> Seq(Answer)]
  BY <1>1 DEF TypeOK, Answer
<1>6. QED
  BY <1>1, <1>2, <1>3, <1>4, <1>5, Zenon DEF TypeOK, Arrived

\* What the pool holds.
LEMMA EntryTypes ==
    ASSUME TypeInv, NEW i \in DOMAIN taskPool
    PROVE  /\ taskPool[i] \in Entries
           /\ taskPool[i].data \in Seq(Requests)
           /\ taskPool[i].kwargs \in Requests
           /\ taskPool[i].config \in Configs
           /\ DOMAIN taskPool = 1..Len(taskPool) /\ Len(taskPool) \in Nat
<1>1. taskPool \in Seq(Entries)
  BY TypeFacts
<1>2. taskPool[i] \in Entries
  BY <1>1, InSeq
<1>3. DOMAIN taskPool = 1..Len(taskPool) /\ Len(taskPool) \in Nat
  BY <1>1, LenProperties
<1>4. QED
  BY <1>2, <1>3 DEF Entries

LEMMA Kinds ==
    ASSUME NEW x \in Answer
    PROVE  /\ x = Nothing <=> x.kind = "none"
           /\ x \in Replies => x.kind \in {"full", "delta", "last"}
           /\ x.kind = "error" => x.of \in Requests
  BY DEF Answer, Nothing, Replies, Errors

LEMMA NoBatchType == NoBatch \in Batches /\ NoBatch.rows = <<>> /\ NoBatch.state = "idle"
  BY RequestsType DEF NoBatch, Batches

\* The type of the next state, from the types of its variables.
LEMMA TypeNext ==
    ASSUME engine' \in [strict : BOOLEAN, max_batch_size : Limits],
           kwargs' \in [Requests -> Kwargs \cup {<<>>}],
           \A r \in Requests : handler'[r] = "new" \/ kwargs'[r] \in Kwargs,
           handler' \in [Requests -> {"new", "submitted", "waiting"}],
           queue' \in Seq(Requests),
           taskPool' \in Seq(Entries),
           taskThread' \in {"none", "alive", "hung", "dead"},
           batch' \in Batches,
           adaptersPool' \subseteq Adapters,
           inbox' \in [Requests -> Seq(Answer)]
    PROVE  TypeInv'
<1>1. TypeOK'
  BY Zenon DEF TypeOK, Answer, Requests, Replies, Errors, Nothing, Batches, Entries, Kwargs
<1>2. QED
  BY <1>1, Zenon DEF TypeInv, Requests, Kwargs

-----------------------------------------------------------------------------
(* Answering a batch.                                                       *)

LEMMA Named ==
    ASSUME NEW a, NEW b \in AdapterNames(a)
    PROVE  b = a
  BY DEF AdapterNames, Unnamed

\* The i-th row is sent the i-th output, and nobody else anything.
LEMMA PutEach ==
    ASSUME TypeInv, Increasing(batch.rows),
           NEW res \in Seq(Answer), Len(res) = Len(batch.rows), Put(res)
    PROVE  /\ inbox' \in [Requests -> Seq(Answer)]
           /\ \A r \in Requests : ~Batched(r) => inbox'[r] = inbox[r]
           /\ \A i \in 1..Len(batch.rows) :
                 inbox'[batch.rows[i]] = Append(inbox[batch.rows[i]], res[i])
<1> DEFINE rows == batch.rows
           n == Len(rows)
<1>1. /\ rows \in Seq(Requests) /\ Len(rows) \in Nat /\ DOMAIN rows = 1..n
      /\ inbox \in [Requests -> Seq(Answer)]
      /\ \A i \in 1..n : rows[i] \in Requests /\ rows[i] \in ToSet(rows)
  BY TypeFacts, InSeq
<1>2. DOMAIN res = 1..n /\ \A i \in 1..n : res[i] \in Answer
  <2>1. DOMAIN res = 1..Len(res) /\ \A i \in 1..Len(res) : res[i] \in Answer
    BY InSeq
  <2>2. QED
    BY <2>1
<1>3. \A i, j \in 1..n : rows[i] = rows[j] => i = j
  BY <1>1, RequestsType, IncreasingInjective DEF IsInjective
<1>4. inbox' = [r \in Requests |->
                 IF r \in ToSet(rows) /\ RowOf(r) \in DOMAIN res
                   THEN Append(inbox[r], res[RowOf(r)])
                   ELSE inbox[r]]
  BY DEF Put
<1>5. \A i \in 1..n : RowOf(rows[i]) = i
  <2>1. SUFFICES ASSUME NEW i \in 1..n
                 PROVE  RowOf(rows[i]) = i
    OBVIOUS
  <2>2. \E j \in 1..n : rows[j] = rows[i]
    OBVIOUS
  <2>3. RowOf(rows[i]) \in 1..n /\ rows[RowOf(rows[i])] = rows[i]
    BY <1>1, <2>2 DEF RowOf
  <2>4. QED
    BY <1>3, <2>3
<1> HIDE DEF n, rows
<1>6. \A i \in 1..n : inbox'[rows[i]] = Append(inbox[rows[i]], res[i])
  <2>1. SUFFICES ASSUME NEW i \in 1..n
                 PROVE  inbox'[rows[i]] = Append(inbox[rows[i]], res[i])
    OBVIOUS
  <2> DEFINE r == rows[i]
  <2>2. r \in Requests /\ r \in ToSet(rows) /\ RowOf(r) = i /\ i \in DOMAIN res
    BY <1>1, <1>2, <1>5
  <2> HIDE DEF r
  <2>3. inbox'[r] = Append(inbox[r], res[i])
    BY <1>4, <2>2
  <2>4. QED
    BY <2>3 DEF r
<1>7. \A r \in Requests : r \notin ToSet(rows) => inbox'[r] = inbox[r]
  BY <1>4
<1>8. ASSUME NEW r \in Requests
      PROVE  inbox'[r] \in Seq(Answer)
  <2>1. CASE r \in ToSet(rows)
    <3>1. PICK i \in 1..n : rows[i] = r
      BY <1>1, <2>1, InSeq DEF n
    <3>2. inbox'[r] = Append(inbox[r], res[i])
      BY <1>6, <3>1
    <3>3. QED
      BY <1>1, <1>2, <3>2, AppendProperties
  <2>2. CASE r \notin ToSet(rows)
    BY <1>1, <1>7, <2>2
  <2>3. QED
    BY <2>1, <2>2
<1>9. inbox' \in [Requests -> Seq(Answer)]
  BY <1>4, <1>8
<1>10. QED
  BY <1>6, <1>7, <1>9 DEF n, rows, Batched

\* Every handler of the batch is sent one item, of one of these kinds: about its
\* own request, and under the adapter of the batch.
Item(r, x, kinds) ==
    /\ x \in Answer /\ x.kind \in kinds
    /\ x # Nothing => x.of = r
    /\ x \in Replies => x.adapter = BatchAdapter

Serves(kinds) ==
    /\ inbox' \in [Requests -> Seq(Answer)]
    /\ \A r \in Requests : ~Batched(r) => inbox'[r] = inbox[r]
    /\ \A r \in Requests : Batched(r) =>
            \E x : Item(r, x, kinds) /\ inbox'[r] = Append(inbox[r], x)

\* So it is when an output for every row that could be encoded is put, with the
\* exceptions of the others between them.
LEMMA ServesRows ==
    ASSUME TypeInv, Increasing(batch.rows),
           NEW outputs \in Seq(Answer), Len(outputs) = Len(Good(batch.rows)),
           NEW kinds, "error" \in kinds,
           \A g \in 1..Len(Good(batch.rows)) :
                Item(Good(batch.rows)[g], outputs[g], kinds),
           Put(AddErrorList(outputs, ErrorList(batch.rows)))
    PROVE  Serves(kinds)
<1> DEFINE rows == batch.rows
           n == Len(rows)
           res == AddErrorList(outputs, ErrorList(rows))
<1>1. rows \in Seq(Requests)
  BY TypeFacts
<1>2. Errors \subseteq Answer
  BY DEF Answer
<1>3. /\ res \in Seq(Answer) /\ Len(res) = n
      /\ \A t \in 1..n : Right(rows, outputs, res, t)
  BY <1>1, <1>2, Answers
<1> HIDE DEF res
<1>4. /\ inbox' \in [Requests -> Seq(Answer)]
      /\ \A r \in Requests : ~Batched(r) => inbox'[r] = inbox[r]
      /\ \A i \in 1..n : inbox'[rows[i]] = Append(inbox[rows[i]], res[i])
  <2>1. Put(res)
    BY DEF res
  <2>2. QED
    BY <1>3, <2>1, PutEach
<1>5. ASSUME NEW r \in Requests, Batched(r)
      PROVE  \E x : Item(r, x, kinds) /\ inbox'[r] = Append(inbox[r], x)
  <2>1. PICK i \in 1..n : rows[i] = r
    BY <1>1, <1>5, InSeq DEF Batched
  <2>2. inbox'[r] = Append(inbox[r], res[i])
    BY <1>4, <2>1
  <2>3. Item(r, res[i], kinds)
    <3>1. Right(rows, outputs, res, i)
      BY <1>3
    <3>2. CASE kwargs[rows[i]].encodable
      <4>1. PICK g \in 1..Len(Good(rows)) :
                Good(rows)[g] = rows[i] /\ res[i] = outputs[g]
        BY <3>1, <3>2 DEF Right
      <4>2. Item(Good(rows)[g], outputs[g], kinds)
        OBVIOUS
      <4>3. QED
        BY <2>1, <4>1, <4>2
    <3>3. CASE ~kwargs[rows[i]].encodable
      <4>1. res[i] = Failure(r)
        BY <2>1, <3>1, <3>3 DEF Right
      <4>2. Failure(r) \in Answer /\ Failure(r) \notin Replies
        BY DEF Failure, Answer, Errors, Replies
      <4>3. Failure(r).kind = "error" /\ Failure(r).of = r
        BY DEF Failure
      <4>4. QED
        BY <4>1, <4>2, <4>3 DEF Item
    <3>4. QED
      BY <3>2, <3>3
  <2>4. QED
    BY <2>2, <2>3
<1>6. QED
  BY <1>4, <1>5 DEF Serves

-----------------------------------------------------------------------------
(***************************************************************************)
(* The initial states.                                                     *)
(***************************************************************************)
LEMMA InitInv == Init => IInv
<1> SUFFICES ASSUME Init PROVE IInv
  OBVIOUS
<1>1. /\ kwargs = [r \in Requests |-> <<>>]
      /\ handler = [r \in Requests |-> "new"]
      /\ queue = <<>> /\ taskPool = <<>> /\ taskThread = "none"
      /\ batch = NoBatch /\ adaptersPool = {}
      /\ inbox = [r \in Requests |-> <<>>]
      /\ engine \in [strict : BOOLEAN, max_batch_size : Limits]
  BY DEF Init
<1>2. <<>> \in Seq(Requests) /\ <<>> \in Seq(Entries) /\ <<>> \in Seq(Answer)
  OBVIOUS
<1>3. NoBatch \in Batches /\ batch.rows = <<>> /\ batch.state = "idle"
  BY <1>1, NoBatchType
<1>4. TypeInv
  <2>1. TypeOK
    BY <1>1, <1>2, <1>3 DEF TypeOK, Answer
  <2>2. QED
    BY <1>1, <2>1 DEF TypeInv
<1>5. /\ \A r \in Requests : ~Arrived(r) /\ inbox[r] = <<>>
      /\ \A r : ~Queued(r) /\ ~Pooled(r) /\ ~Batched(r)
  BY <1>1, <1>3 DEF Arrived, Queued, Pooled, Batched, ToSet
<1>6. ArrivalInv /\ QueueInv /\ PoolInv
  BY <1>1, <1>5 DEF ArrivalInv, QueueInv, PoolInv, Increasing
<1>7. BatchInv
  <2>1. Len(batch.rows) = 0
    BY <1>3
  <2>2. engine.max_batch_size \in Int
    BY <1>4, TypeFacts
  <2>3. QED
    BY <1>1, <1>3, <2>1, <2>2 DEF BatchInv
<1>8. PlaceInv /\ NoOvertaking /\ InboxInv /\ WholeInv
  BY <1>5 DEF PlaceInv, NoOvertaking, InboxInv, AllSensible, WholeInv, Arrived
<1>9. QED
  BY <1>4, <1>6, <1>7, <1>8 DEF IInv

-----------------------------------------------------------------------------
(***************************************************************************)
(* Answering, and the steps of a batch.                                    *)
(***************************************************************************)
Served == UNCHANGED <<engine, handlerVars, poolVars, taskThread>>

LEMMA SameWaiting ==
    ASSUME IInv, UNCHANGED <<kwargs, handler, queue, taskPool>>
    PROVE  ArrivalInv' /\ QueueInv' /\ PoolInv' /\ NoOvertaking'
<1>1. ArrivalInv /\ QueueInv /\ PoolInv /\ NoOvertaking
  BY DEF IInv
<1>2. ArrivalInv'
  BY <1>1 DEF ArrivalInv, Arrived
<1>3. QueueInv'
  BY <1>1 DEF QueueInv, Arrived, Queued
<1>4. PoolInv'
  BY <1>1 DEF PoolInv, EntryInv, OfOneKind, Arrived
<1>5. NoOvertaking'
  BY <1>1 DEF NoOvertaking, Waiting, Queued, Pooled
<1>6. QED
  BY <1>2, <1>3, <1>4, <1>5

\* A batch that runs.
LEMMA Running ==
    ASSUME IInv, batch.state # "idle"
    PROVE  /\ Increasing(batch.rows) /\ batch.rows # <<>>
           /\ batch.rows \in Seq(Requests) /\ batch.kwargs \in Requests
           /\ Arrived(batch.kwargs) /\ kwargs[batch.kwargs] \in Kwargs
           /\ \A r \in Requests : Batched(r) =>
                /\ Arrived(r) /\ batch.kwargs <= r
                /\ kwargs[r].config = kwargs[batch.kwargs].config
                /\ Streams(r) <=> Streams(batch.kwargs)
<1>1. BatchInv /\ TypeInv
  BY DEF IInv
<1>2. /\ Increasing(batch.rows) /\ batch.rows # <<>>
      /\ OfOneKind(ToSet(batch.rows), kwargs[batch.kwargs].config, batch.kwargs)
  BY <1>1 DEF BatchInv
<1>3. batch.rows \in Seq(Requests) /\ batch.kwargs \in Requests
  BY <1>1, TypeFacts
<1>4. /\ Arrived(batch.kwargs)
      /\ \A r \in Requests : Batched(r) =>
            /\ Arrived(r) /\ batch.kwargs <= r
            /\ kwargs[r].config = kwargs[batch.kwargs].config
  BY <1>2 DEF OfOneKind, Batched
<1>5. kwargs[batch.kwargs] \in Kwargs
  BY <1>1, <1>3, <1>4, TypeFacts
<1>6. \A r \in Requests : Batched(r) => (Streams(r) <=> Streams(batch.kwargs))
  BY <1>4 DEF Streams
<1>7. QED
  BY <1>2, <1>3, <1>4, <1>5, <1>6

\* What a batch sends is sensible.
LEMMA ItemSensible ==
    ASSUME IInv, batch.state # "idle", NEW r \in Requests, Batched(r),
           NEW kinds, NEW x, Item(r, x, kinds)
    PROVE  Sensible(r, x)
<1>1. /\ batch.kwargs \in Requests /\ batch.kwargs <= r /\ Arrived(batch.kwargs)
      /\ kwargs[batch.kwargs].config = kwargs[r].config
  BY Running
<1>2. /\ x # Nothing => x.of = r
      /\ x \in Replies => x.adapter = kwargs[batch.kwargs].adapter
  BY DEF Item, BatchAdapter
<1>3. QED
  BY <1>1, <1>2 DEF Sensible

LEMMA AppendAt ==
    ASSUME NEW S, NEW s \in Seq(S), NEW x \in S
    PROVE  /\ Append(s, x) \in Seq(S) /\ Append(s, x) # <<>>
           /\ Len(s) \in Nat /\ Len(Append(s, x)) = Len(s) + 1
           /\ DOMAIN s = 1..Len(s) /\ DOMAIN Append(s, x) = 1..Len(s) + 1
           /\ \A k \in 1..Len(s) : Append(s, x)[k] = s[k]
           /\ Append(s, x)[Len(s) + 1] = x
           /\ \A k \in 1..Len(s) + 1 : k \in 1..Len(s) \/ k = Len(s) + 1
<1>1. /\ Append(s, x) \in Seq(S) /\ Append(s, x) # <<>>
      /\ Len(Append(s, x)) = Len(s) + 1
      /\ \A k \in 1..Len(s) : Append(s, x)[k] = s[k]
      /\ Append(s, x)[Len(s) + 1] = x
  BY AppendProperties
<1>2. Len(s) \in Nat /\ DOMAIN s = 1..Len(s)
  BY LenProperties
<1>3. Members(Append(s, x), Len(s) + 1)
  BY <1>1, SeqMembers, Zenon
<1>4. DOMAIN Append(s, x) = 1..Len(s) + 1
  BY <1>3, Zenon DEF Members
<1>5. \A k \in 1..Len(s) + 1 : k \in 1..Len(s) \/ k = Len(s) + 1
  BY <1>2
<1>6. QED
  BY <1>1, <1>2, <1>4, <1>5, Zenon

LEMMA ServedInbox ==
    ASSUME IInv, batch.state # "idle", UNCHANGED <<kwargs, handler>>,
           NEW kinds, Serves(kinds), NEW r \in Requests
    PROVE  AllSensible(r)'
<1>1. /\ inbox[r] \in Seq(Answer)
      /\ \A j \in DOMAIN inbox[r] : Sensible(r, inbox[r][j])
  BY TypeFacts DEF IInv, InboxInv, AllSensible
<1>2. ASSUME NEW k \in DOMAIN inbox'[r]
      PROVE  Sensible(r, inbox'[r][k])
  <2>1. CASE ~Batched(r)
    <3>1. inbox'[r] = inbox[r]
      BY <2>1 DEF Serves
    <3>2. QED
      BY <1>1, <3>1
  <2>2. CASE Batched(r)
    <3>1. PICK x : Item(r, x, kinds) /\ inbox'[r] = Append(inbox[r], x)
      BY <2>2 DEF Serves
    <3>2. Sensible(r, x) /\ x \in Answer
      BY <2>2, <3>1, ItemSensible DEF Item
    <3>3. CASE k \in DOMAIN inbox[r]
      <4>1. inbox'[r][k] = inbox[r][k]
        BY <1>1, <3>1, <3>2, <3>3, AppendAt
      <4>2. QED
        BY <1>1, <3>3, <4>1
    <3>4. CASE k \notin DOMAIN inbox[r]
      <4>1. inbox'[r][k] = x
        BY <1>1, <3>1, <3>2, <3>4, AppendAt
      <4>2. QED
        BY <3>2, <4>1
    <3>5. QED
      BY <3>3, <3>4
  <2>3. QED
    BY <2>1, <2>2
<1>3. handler' = handler /\ kwargs' = kwargs
  OBVIOUS
<1>4. QED
  BY <1>2, <1>3 DEF AllSensible, Sensible, Arrived

\* Where a batch may be after it answered.
Moves ==
    \/ batch' = NoBatch
    \/ /\ batch' \in Batches /\ batch'.rows = batch.rows
       /\ batch'.kwargs = batch.kwargs /\ batch'.state \in {"stream", "last"}
       /\ Streams(batch.kwargs)

LEMMA MovesBatch ==
    ASSUME IInv, batch.state # "idle", Served, Moves
    PROVE  /\ BatchInv' /\ batch' \in Batches
           /\ \A r \in Requests : Batched(r)' => Batched(r)
           /\ batch'.state # "encode"
<1>1. BatchInv /\ TypeInv
  BY DEF IInv
<1>2. CASE batch' = NoBatch
  <2>1. batch'.rows = <<>> /\ batch'.state = "idle" /\ batch' \in Batches
    BY <1>2, NoBatchType
  <2>2. engine' = engine /\ engine.max_batch_size \in Int
    BY <1>1, TypeFacts DEF Served
  <2>3. NoBatch' = NoBatch
    BY DEF NoBatch
  <2>4. Len(batch'.rows) = 0
    BY <2>1
  <2>5. BatchInv'
    BY <1>2, <2>1, <2>2, <2>3, <2>4 DEF BatchInv
  <2>6. \A r : ~Batched(r)'
    BY <2>1 DEF Batched, ToSet
  <2>7. QED
    BY <2>1, <2>5, <2>6
<1>3. CASE /\ batch' \in Batches /\ batch'.rows = batch.rows
           /\ batch'.kwargs = batch.kwargs /\ batch'.state \in {"stream", "last"}
           /\ Streams(batch.kwargs)
  <2>1. /\ batch.rows # <<>> /\ Increasing(batch.rows)
        /\ OfOneKind(ToSet(batch.rows), kwargs[batch.kwargs].config, batch.kwargs)
        /\ engine.max_batch_size > 0 => Len(batch.rows) <= engine.max_batch_size
    BY <1>1 DEF BatchInv
  <2>2. engine' = engine /\ kwargs' = kwargs /\ handler' = handler
    BY DEF Served, handlerVars
  <2>3. Increasing(batch'.rows)
    BY <1>3, <2>1, Zenon
  <2>4. OfOneKind(ToSet(batch.rows), kwargs[batch.kwargs].config, batch.kwargs)'
    BY <1>3, <2>1, <2>2 DEF OfOneKind, Arrived
  <2>5. BatchInv'
    BY <1>3, <2>1, <2>2, <2>3, <2>4 DEF BatchInv, Streams
  <2>6. QED
    BY <1>3, <2>5 DEF Batched
<1>4. QED
  BY <1>2, <1>3 DEF Moves

LEMMA SamePlaces ==
    ASSUME Served
    PROVE  \A r : /\ Queued(r)' <=> Queued(r)
                  /\ Pooled(r)' <=> Pooled(r)
                  /\ Arrived(r)' <=> Arrived(r)
                  /\ Streams(r)' <=> Streams(r)
                  /\ Alone(r)' <=> Alone(r)
<1>1. UNCHANGED <<engine, kwargs, handler, queue, taskPool>>
  BY DEF Served, handlerVars, poolVars
<1>2. \A r : /\ Queued(r)' <=> Queued(r)
             /\ Pooled(r)' <=> Pooled(r)
             /\ Arrived(r)' <=> Arrived(r)
             /\ Streams(r)' <=> Streams(r)
  BY <1>1 DEF Queued, Pooled, Arrived, Streams
<1>3. \A r : Peers(r)' = Peers(r)
  BY <1>1 DEF Peers
<1>4. QED
  BY <1>1, <1>2, <1>3 DEF Alone

\* What every answer keeps.
LEMMA ServedKeeps ==
    ASSUME IInv, batch.state # "idle", Served, Moves, adaptersPool' \subseteq Adapters,
           NEW kinds, Serves(kinds)
    PROVE  /\ TypeInv' /\ ArrivalInv' /\ QueueInv' /\ PoolInv' /\ BatchInv'
           /\ PlaceInv' /\ NoOvertaking' /\ InboxInv'
<1>1. UNCHANGED <<engine, kwargs, handler, queue, taskPool, taskThread>>
  BY DEF Served, handlerVars, poolVars
<1>2. /\ BatchInv' /\ batch' \in Batches
      /\ \A r \in Requests : Batched(r)' => Batched(r)
      /\ batch'.state # "encode"
  BY MovesBatch
<1>3. TypeInv'
  <2>1. inbox' \in [Requests -> Seq(Answer)]
    BY DEF Serves
  <2>2. \A r \in Requests : handler[r] = "new" \/ kwargs[r] \in Kwargs
    BY TypeFacts DEF IInv, Arrived
  <2>3. QED
    BY <1>1, <1>2, <2>1, <2>2, TypeFacts, TypeNext DEF IInv
<1>4. ArrivalInv' /\ QueueInv' /\ PoolInv' /\ NoOvertaking'
  BY <1>1, SameWaiting
<1>5. \A r \in Requests : inbox[r] \in Seq(Answer)
  BY TypeFacts DEF IInv
<1>6. ASSUME NEW r \in Requests
      PROVE  /\ ~Batched(r) => inbox'[r] = inbox[r]
             /\ Batched(r) => /\ inbox'[r] # <<>> /\ Arrived(r)
                              /\ Len(inbox[r]) \in Nat
                              /\ Len(inbox'[r]) = Len(inbox[r]) + 1
  <2>1. ~Batched(r) => inbox'[r] = inbox[r]
    BY DEF Serves
  <2>2. ASSUME Batched(r)
        PROVE  /\ inbox'[r] # <<>> /\ Arrived(r)
               /\ Len(inbox[r]) \in Nat /\ Len(inbox'[r]) = Len(inbox[r]) + 1
    <3>1. PICK x : Item(r, x, kinds) /\ inbox'[r] = Append(inbox[r], x)
      BY <2>2 DEF Serves
    <3>2. x \in Answer
      BY <3>1 DEF Item
    <3>3. QED
      BY <1>5, <2>2, <3>1, <3>2, AppendAt, Running
  <2>3. QED
    BY <2>1, <2>2
<1>7. PlaceInv'
  <2>1. SUFFICES ASSUME NEW r \in Requests
        PROVE  /\ ~(Queued(r)' /\ Pooled(r)')
               /\ ~(Queued(r)' /\ Batched(r)')
               /\ ~(Pooled(r)' /\ Batched(r)')
               /\ Queued(r)' \/ Pooled(r)' \/ ~Arrived(r)' => inbox'[r] = <<>>
               /\ Batched(r)' /\ batch'.state = "encode" => inbox'[r] = <<>>
               /\ Arrived(r)' => \/ Queued(r)' \/ Pooled(r)' \/ Batched(r)'
                                 \/ inbox'[r] # <<>>
    BY Zenon DEF PlaceInv, Requests
  <2>2. /\ ~(Queued(r) /\ Pooled(r))
        /\ ~(Queued(r) /\ Batched(r))
        /\ ~(Pooled(r) /\ Batched(r))
        /\ Queued(r) \/ Pooled(r) \/ ~Arrived(r) => inbox[r] = <<>>
        /\ Arrived(r) => Queued(r) \/ Pooled(r) \/ Batched(r) \/ inbox[r] # <<>>
    BY DEF IInv, PlaceInv
  <2>3. /\ Queued(r)' <=> Queued(r)
        /\ Pooled(r)' <=> Pooled(r)
        /\ Arrived(r)' <=> Arrived(r)
        /\ Batched(r)' => Batched(r)
    BY <1>2, SamePlaces
  <2>4. QED
    BY <1>2, <1>6, <2>2, <2>3, Zenon
<1>8. InboxInv'
  <2>1. \A r \in Requests : AllSensible(r)'
    BY <1>1, ServedInbox
  <2>2. ASSUME NEW r \in Requests, Arrived(r)', ~Streams(r)'
        PROVE  Len(inbox'[r]) <= 1
    <3>1. Arrived(r) /\ ~Streams(r)
      BY <2>2, SamePlaces
    <3>2. Len(inbox[r]) <= 1
      BY <3>1 DEF IInv, InboxInv
    <3>3. ASSUME Batched(r)
          PROVE  Len(inbox[r]) = 0
      <4>1. ~Streams(batch.kwargs)
        BY <3>1, <3>3, Running
      <4>2. batch.state = "encode"
        BY <4>1, TypeFacts DEF IInv, BatchInv
      <4>3. inbox[r] = <<>>
        BY <3>3, <4>2 DEF IInv, PlaceInv
      <4>4. QED
        BY <4>3
    <3>4. QED
      BY <1>6, <3>2, <3>3
  <2>3. QED
    BY <2>1, <2>2, Zenon DEF InboxInv, Requests
<1>9. QED
  BY <1>2, <1>3, <1>4, <1>7, <1>8

\* Streams that were not in the batch stay as they are.
LEMMA ServedWhole ==
    ASSUME IInv, batch.state # "idle", Served, Moves,
           NEW kinds, Serves(kinds),
           \A r \in Requests : Streams(r) /\ Alone(r) /\ Batched(r) => WholeAt(r)'
    PROVE  WholeInv'
<1>1. SUFFICES ASSUME NEW r \in Requests, Arrived(r)', Streams(r)', Alone(r)'
               PROVE  WholeAt(r)'
  BY Zenon DEF WholeInv, Requests
<1>2. Arrived(r) /\ Streams(r) /\ Alone(r)
  BY <1>1, SamePlaces
<1>3. CASE Batched(r)
  BY <1>2, <1>3
<1>4. CASE ~Batched(r)
  <2>1. ~Batched(r)' /\ inbox'[r] = inbox[r]
    BY <1>4, MovesBatch DEF Serves
  <2>2. WholeAt(r)
    BY <1>2 DEF IInv, WholeInv
  <2>3. Answered(r)' <=> Answered(r)
    BY <1>4, <2>1 DEF Answered
  <2>4. QED
    BY <2>1, <2>2, <2>3 DEF WholeAt
<1>5. QED
  BY <1>3, <1>4

LEMMA FunctionSeq ==
    ASSUME NEW n \in Nat, NEW S, NEW f \in [1..n -> S]
    PROVE  f \in Seq(S) /\ Len(f) = n
<1>1. f \in Seq(S)
  BY SeqDef
<1>2. Len(f) \in Nat /\ DOMAIN f = 1..Len(f) /\ DOMAIN f = 1..n
  BY <1>1, LenProperties
<1>3. QED
  BY <1>1, <1>2

LEMMA AppendWhole ==
    ASSUME NEW s \in Seq(Answer), NEW x \in Answer, NEW t, t = Append(s, x)
    PROVE  /\ Unended(s) /\ x # Nothing => Unended(t)
           /\ x.kind \in {"last", "error"} => LastAt(t, Len(t))
           /\ x = Nothing /\ Unended(s) /\ LastAt(s, Len(s)) =>
                /\ LastAt(t, Len(t) - 1)
                /\ \A k \in DOMAIN t : t[k] = Nothing <=> k = Len(t)
<1> DEFINE n == Len(s)
<1>1. /\ n \in Nat /\ Len(t) = n + 1
      /\ DOMAIN s = 1..n /\ DOMAIN t = 1..n + 1
      /\ \A k \in 1..n : t[k] = s[k]
      /\ t[n + 1] = x
      /\ \A k \in 1..n + 1 : k \in 1..n \/ k = n + 1
  BY AppendAt
<1> HIDE DEF n
<1>2. Unended(s) /\ x # Nothing => Unended(t)
  BY <1>1 DEF Unended
<1>3. n + 1 \in DOMAIN t /\ \A k \in 1..n : k # n + 1 /\ k \in 1..n + 1
  BY <1>1
<1>4. x.kind \in {"last", "error"} => LastAt(t, Len(t))
  BY <1>1, <1>3 DEF LastAt
<1>5. ASSUME x = Nothing, Unended(s), LastAt(s, n)
      PROVE  /\ LastAt(t, Len(t) - 1)
             /\ \A k \in DOMAIN t : t[k] = Nothing <=> k = Len(t)
  <2>1. n \in 1..n /\ Len(t) - 1 = n
    BY <1>1, <1>5 DEF LastAt
  <2>2. LastAt(t, n)
    BY <1>1, <1>3, <1>5, <2>1 DEF LastAt
  <2>3. \A k \in 1..n : s[k] # Nothing
    BY <1>1, <1>5 DEF Unended
  <2>4. \A k \in DOMAIN t : t[k] = Nothing <=> k = Len(t)
    BY <1>1, <1>3, <1>5, <2>3
  <2>5. QED
    BY <2>1, <2>2, <2>4
<1>6. QED
  BY <1>2, <1>4, <1>5 DEF n

\* A stream that runs alone is the only row of its batch.
LEMMA AloneInBatch ==
    ASSUME IInv, batch.state # "idle", NEW r \in Requests, Batched(r), Alone(r)
    PROVE  Len(batch.rows) = 1
<1> DEFINE rows == batch.rows
<1>1. /\ rows \in Seq(Requests) /\ rows # <<>> /\ Increasing(rows)
      /\ \A q \in Requests : Batched(q) =>
            Arrived(q) /\ kwargs[q].config = kwargs[r].config
  BY Running
<1>2. /\ Len(rows) \in Nat /\ DOMAIN rows = 1..Len(rows)
      /\ \A i \in 1..Len(rows) : rows[i] \in Requests /\ Batched(rows[i])
  BY <1>1, InSeq DEF Batched
<1>3. Len(rows) # 0
  BY <1>1, EmptySeq
<1> DEFINE l == Len(rows)
<1> HIDE DEF l, rows
<1>4. l \in Nat /\ l # 0
  BY <1>2, <1>3 DEF l
<1>5. ASSUME engine.max_batch_size = 1
      PROVE  l = 1
  <2>1. engine.max_batch_size > 0 => Len(rows) <= engine.max_batch_size
    BY DEF IInv, BatchInv, rows
  <2>2. l <= 1
    BY <1>5, <2>1 DEF l
  <2>3. QED
    BY <1>4, <2>2
<1>6. ASSUME Peers(r) = {}
      PROVE  l = 1
  <2>1. \A q \in Requests : Batched(q) => q = r
    BY <1>1, <1>6 DEF Peers, Arrived
  <2>2. ASSUME l > 1
        PROVE  FALSE
    <3>1. 1 \in 1..l /\ 2 \in 1..l
      BY <1>4, <2>2
    <3>2. rows[1] = r /\ rows[2] = r
      BY <1>2, <2>1, <3>1 DEF l
    <3>3. rows[1] < rows[2]
      BY <1>1, <1>2, <3>1 DEF Increasing, l
    <3>4. r < r /\ r \in Int
      BY <3>2, <3>3, RequestsType
    <3>5. QED
      BY <3>4
  <2>3. QED
    BY <1>4, <2>2
<1>7. QED
  BY <1>5, <1>6 DEF Alone, l, rows

\* The batch has an adapter.
LEMMA BatchAdapterType ==
    ASSUME IInv, batch.state # "idle"
    PROVE  /\ BatchAdapter \in Adapters \cup {Base}
           /\ AddAdapter(BatchAdapter) => adaptersPool' \subseteq Adapters
<1>1. BatchAdapter \in Adapters \cup {Base}
  BY Running DEF BatchAdapter, Kwargs
<1>2. adaptersPool \subseteq Adapters
  BY TypeFacts DEF IInv
<1>3. QED
  BY <1>1, <1>2 DEF AddAdapter

\* An answer generated under the adapter of the batch.
LEMMA ReplyItem ==
    ASSUME IInv, batch.state # "idle", NEW g \in 1..Len(Good(batch.rows)),
           NEW kind \in {"full", "delta", "last"}, NEW kinds, kind \in kinds,
           NEW x, x = Reply(kind, Good(batch.rows)[g], BatchAdapter)
    PROVE  Item(Good(batch.rows)[g], x, kinds)
<1>1. Good(batch.rows)[g] \in Requests
  BY Running, GoodType, ElementOfSeq
<1>2. BatchAdapter \in Adapters \cup {Base}
  BY BatchAdapterType
<1>3. QED
  BY <1>1, <1>2 DEF Item, Reply, Answer, Replies

LEMMA NothingItem ==
    ASSUME NEW r, NEW kinds, "none" \in kinds
    PROVE  Item(r, Nothing, kinds)
  BY DEF Item, Nothing, Answer, Replies

\* One kind of answer for every row that could be encoded.
LEMMA ServesAll ==
    ASSUME IInv, batch.state # "idle",
           NEW kind \in {"full", "delta", "last"},
           NEW a \in AdapterNames(BatchAdapter),
           NEW good, good = Good(batch.rows),
           Put(AddErrorList([i \in DOMAIN good |-> Reply(kind, good[i], a)],
                            ErrorList(batch.rows)))
    PROVE  Serves({kind, "error"})
<1> DEFINE outputs == [i \in DOMAIN good |-> Reply(kind, good[i], a)]
           n == Len(good)
<1>1. a = BatchAdapter
  BY Named
<1>2. good \in Seq(Requests) /\ n \in Nat /\ DOMAIN good = 1..n
  <2>1. good \in Seq(Requests)
    BY Running, GoodType
  <2>2. QED
    BY <2>1, LenProperties
<1>3. \A g \in 1..n : Item(good[g], outputs[g], {kind, "error"})
  BY <1>1, <1>2, ReplyItem
<1>4. outputs \in Seq(Answer) /\ Len(outputs) = n
  <2>1. outputs \in [1..n -> Answer]
    BY <1>2, <1>3 DEF Item
  <2> HIDE DEF outputs
  <2>2. QED
    BY <1>2, <2>1, FunctionSeq
<1> HIDE DEF outputs, n
<1>5. Put(AddErrorList(outputs, ErrorList(batch.rows)))
  BY DEF outputs
<1>6. QED
  BY <1>3, <1>4, <1>5, Running, ServesRows DEF IInv, n

\* A piece for some of the rows: for the only row, if there is only one.
LEMMA ServesSome ==
    ASSUME IInv, batch.state # "idle",
           NEW a \in AdapterNames(BatchAdapter),
           NEW good, good = Good(batch.rows),
           NEW printable \in SUBSET (DOMAIN good), printable # {},
           Put(AddErrorList([i \in DOMAIN good |->
                               IF i \in printable
                                 THEN Reply("delta", good[i], a)
                                 ELSE Nothing],
                            ErrorList(batch.rows)))
    PROVE  /\ Serves({"delta", "error", "none"})
           /\ Len(batch.rows) = 1 => Serves({"delta", "error"})
<1> DEFINE outputs == [i \in DOMAIN good |-> IF i \in printable
                                              THEN Reply("delta", good[i], a)
                                              ELSE Nothing]
           n == Len(good)
<1>1. a = BatchAdapter
  BY Named
<1>2. /\ good \in Seq(Requests) /\ n \in Nat /\ DOMAIN good = 1..n
      /\ n <= Len(batch.rows)
  <2>1. good \in Seq(Requests) /\ n <= Len(batch.rows)
    BY Running, GoodType
  <2>2. QED
    BY <2>1, LenProperties
<1>3. ASSUME NEW g \in 1..n
      PROVE  /\ Item(good[g], outputs[g], {"delta", "error", "none"})
             /\ g \in printable => Item(good[g], outputs[g], {"delta", "error"})
  <2>1. CASE g \in printable
    <3>1. outputs[g] = Reply("delta", good[g], BatchAdapter)
      BY <1>1, <1>2, <2>1
    <3> HIDE DEF outputs
    <3>2. QED
      BY <3>1, ReplyItem
  <2>2. CASE g \notin printable
    <3>1. outputs[g] = Nothing
      BY <1>2, <2>2
    <3> HIDE DEF outputs
    <3>2. QED
      BY <2>2, <3>1, NothingItem
  <2>3. QED
    BY <2>1, <2>2
<1>4. outputs \in Seq(Answer) /\ Len(outputs) = n
  <2>1. \A g \in 1..n : outputs[g] \in Answer
    BY <1>3 DEF Item
  <2>2. outputs \in [1..n -> Answer]
    BY <1>2, <2>1
  <2> HIDE DEF outputs
  <2>3. QED
    BY <1>2, <2>2, FunctionSeq
<1>5. Len(batch.rows) = 1 => \A g \in 1..n : g \in printable
  BY <1>2
<1> HIDE DEF outputs, n
<1>6. Put(AddErrorList(outputs, ErrorList(batch.rows)))
  BY DEF outputs
<1>7. Serves({"delta", "error", "none"})
  BY <1>3, <1>4, <1>6, Running, ServesRows DEF IInv, n
<1>8. ASSUME Len(batch.rows) = 1
      PROVE  Serves({"delta", "error"})
  <2>1. \A g \in 1..n : Item(good[g], outputs[g], {"delta", "error"})
    BY <1>3, <1>5, <1>8
  <2>2. QED
    BY <1>4, <1>6, <2>1, Running, ServesRows DEF IInv, n
<1>9. QED
  BY <1>7, <1>8

LEMMA InferFullKeeps == ASSUME IInv, InferFull PROVE IInv'
<1>1. /\ batch.state # "idle" /\ Served /\ Moves
      /\ ~Streams(batch.kwargs)
  BY DEF InferFull, Alive, Served, Moves
<1>2. Serves({"full", "error"})
  <2>1. PICK a \in AdapterNames(BatchAdapter) :
          Put(AddErrorList([i \in DOMAIN Good(batch.rows) |->
                              Reply("full", Good(batch.rows)[i], a)],
                           ErrorList(batch.rows)))
    BY DEF InferFull
  <2>2. QED
    BY <1>1, <2>1, ServesAll
<1>3. adaptersPool' \subseteq Adapters
  BY <1>1, BatchAdapterType, TypeFacts DEF InferFull, IInv
<1>4. WholeInv'
  <2>1. \A r \in Requests : Batched(r) => ~Streams(r)
    BY <1>1, Running
  <2>2. QED
    BY <1>1, <1>2, <2>1, ServedWhole
<1>5. QED
  BY <1>1, <1>2, <1>3, <1>4, ServedKeeps DEF IInv

LEMMA StreamChunkKeeps == ASSUME IInv, StreamChunk PROVE IInv'
<1>1. /\ batch.state = "stream" /\ Served /\ adaptersPool' = adaptersPool
      /\ batch' = [batch EXCEPT !.chunks = @ + 1]
  BY DEF StreamChunk, Alive, Served
<1>2. batch' \in Batches /\ batch'.state = "stream" /\ Moves
  <2>1. batch \in Batches /\ Streams(batch.kwargs)
    BY <1>1, TypeFacts DEF IInv, BatchInv
  <2>2. batch' \in Batches /\ batch'.state = "stream"
        /\ batch'.rows = batch.rows /\ batch'.kwargs = batch.kwargs
    BY <1>1, <2>1 DEF Batches
  <2>3. QED
    BY <2>1, <2>2 DEF Moves
<1>3. /\ Serves({"delta", "error", "none"})
      /\ Len(batch.rows) = 1 => Serves({"delta", "error"})
  <2>1. PICK printable \in SUBSET (DOMAIN Good(batch.rows)),
             a \in AdapterNames(BatchAdapter) :
          /\ printable # {}
          /\ Put(AddErrorList([i \in DOMAIN Good(batch.rows) |->
                                 IF i \in printable
                                   THEN Reply("delta", Good(batch.rows)[i], a)
                                   ELSE Nothing],
                              ErrorList(batch.rows)))
    BY DEF StreamChunk
  <2>2. QED
    BY <1>1, <2>1, ServesSome
<1>4. adaptersPool' \subseteq Adapters
  BY <1>1, TypeFacts DEF IInv
<1>5. ASSUME NEW r \in Requests, Streams(r), Alone(r), Batched(r)
      PROVE  WholeAt(r)'
  <2>1. Serves({"delta", "error"}) /\ Arrived(r)
    BY <1>1, <1>3, <1>5, AloneInBatch, Running
  <2>2. PICK x : Item(r, x, {"delta", "error"}) /\ inbox'[r] = Append(inbox[r], x)
    BY <1>5, <2>1 DEF Serves
  <2>3. x \in Answer /\ x # Nothing
    BY <2>2, Kinds DEF Item
  <2>4. Unended(inbox[r])
    BY <1>1, <1>5, <2>1 DEF IInv, WholeInv, WholeAt
  <2>5. Unended(inbox'[r])
    BY <2>2, <2>3, <2>4, TypeFacts, AppendWhole DEF IInv
  <2>6. Batched(r)' /\ batch'.state = "stream"
    BY <1>1, <1>2, <1>5 DEF Batched
  <2>7. QED
    BY <2>5, <2>6 DEF WholeAt, Answered, Unended
<1>6. WholeInv'
  BY <1>1, <1>2, <1>3, <1>5, ServedWhole
<1>7. QED
  BY <1>1, <1>2, <1>3, <1>4, <1>6, ServedKeeps DEF IInv

LEMMA LastChunkKeeps == ASSUME IInv, LastChunk PROVE IInv'
<1>1. /\ batch.state = "stream" /\ Served /\ adaptersPool' = adaptersPool
      /\ batch' = [batch EXCEPT !.state = "last"]
  BY DEF LastChunk, Alive, Served
<1>2. batch' \in Batches /\ batch'.state = "last" /\ Moves
  <2>1. batch \in Batches /\ Streams(batch.kwargs)
    BY <1>1, TypeFacts DEF IInv, BatchInv
  <2>2. batch' \in Batches /\ batch'.state = "last"
        /\ batch'.rows = batch.rows /\ batch'.kwargs = batch.kwargs
    BY <1>1, <2>1 DEF Batches
  <2>3. QED
    BY <2>1, <2>2 DEF Moves
<1>3. Serves({"last", "error"})
  <2>1. PICK a \in AdapterNames(BatchAdapter) :
          Put(AddErrorList([i \in DOMAIN Good(batch.rows) |->
                              Reply("last", Good(batch.rows)[i], a)],
                           ErrorList(batch.rows)))
    BY DEF LastChunk
  <2>2. QED
    BY <1>1, <2>1, ServesAll
<1>4. adaptersPool' \subseteq Adapters
  BY <1>1, TypeFacts DEF IInv
<1>5. ASSUME NEW r \in Requests, Streams(r), Alone(r), Batched(r)
      PROVE  WholeAt(r)'
  <2>1. Arrived(r)
    BY <1>1, <1>5, Running
  <2>2. PICK x : Item(r, x, {"last", "error"}) /\ inbox'[r] = Append(inbox[r], x)
    BY <1>3, <1>5 DEF Serves
  <2>3. x \in Answer /\ x # Nothing /\ x.kind \in {"last", "error"}
    BY <2>2, Kinds DEF Item
  <2>4. Unended(inbox[r])
    BY <1>1, <1>5, <2>1 DEF IInv, WholeInv, WholeAt
  <2>5. Unended(inbox'[r]) /\ LastAt(inbox'[r], Len(inbox'[r]))
    BY <2>2, <2>3, <2>4, TypeFacts, AppendWhole DEF IInv
  <2>6. Batched(r)' /\ batch'.state = "last"
    BY <1>1, <1>2, <1>5 DEF Batched
  <2>7. QED
    BY <2>5, <2>6 DEF WholeAt, Answered, Unended, LastAt
<1>6. WholeInv'
  BY <1>1, <1>2, <1>3, <1>5, ServedWhole
<1>7. QED
  BY <1>1, <1>2, <1>3, <1>4, <1>6, ServedKeeps DEF IInv

LEMMA EndStreamKeeps == ASSUME IInv, EndStream PROVE IInv'
<1>1. /\ batch.state = "last" /\ Served /\ adaptersPool' = adaptersPool
      /\ batch' = NoBatch /\ Moves
      /\ Put([i \in DOMAIN batch.rows |-> Nothing])
  BY DEF EndStream, Alive, Served, Moves
<1>2. Serves({"none"})
  <2> DEFINE rows == batch.rows
             n == Len(rows)
             nothings == [i \in DOMAIN rows |-> Nothing]
  <2>1. n \in Nat /\ DOMAIN rows = 1..n /\ rows \in Seq(Requests)
        /\ Increasing(rows)
    BY <1>1, Running, LenProperties
  <2>2. nothings \in Seq(Answer) /\ Len(nothings) = n
    <3>1. nothings \in [1..n -> Answer]
      BY <2>1 DEF Answer
    <3> HIDE DEF nothings
    <3>2. QED
      BY <2>1, <3>1, FunctionSeq
  <2>3. \A i \in 1..n : nothings[i] = Nothing
    BY <2>1
  <2> HIDE DEF nothings
  <2>4. /\ inbox' \in [Requests -> Seq(Answer)]
        /\ \A r \in Requests : ~Batched(r) => inbox'[r] = inbox[r]
        /\ \A i \in 1..n : inbox'[rows[i]] = Append(inbox[rows[i]], nothings[i])
    <3>1. Put(nothings)
      BY <1>1 DEF nothings
    <3>2. QED
      BY <2>1, <2>2, <3>1, PutEach DEF IInv
  <2>5. ASSUME NEW r \in Requests, Batched(r)
        PROVE  \E x : Item(r, x, {"none"}) /\ inbox'[r] = Append(inbox[r], x)
    <3>1. PICK i \in 1..n : rows[i] = r
      BY <2>1, <2>5, InSeq DEF Batched
    <3>2. inbox'[r] = Append(inbox[r], Nothing)
      BY <2>3, <2>4, <3>1
    <3>3. Item(r, Nothing, {"none"})
      BY NothingItem
    <3>4. QED
      BY <3>2, <3>3
  <2>6. QED
    BY <2>4, <2>5 DEF Serves
<1>3. adaptersPool' \subseteq Adapters
  BY <1>1, TypeFacts DEF IInv
<1>4. ASSUME NEW r \in Requests, Streams(r), Alone(r), Batched(r)
      PROVE  WholeAt(r)'
  <2>1. Arrived(r)
    BY <1>1, <1>4, Running
  <2>2. PICK x : Item(r, x, {"none"}) /\ inbox'[r] = Append(inbox[r], x)
    BY <1>2, <1>4 DEF Serves
  <2>3. x \in Answer /\ x = Nothing
    BY <2>2, Kinds DEF Item
  <2>4. Unended(inbox[r]) /\ LastAt(inbox[r], Len(inbox[r]))
    BY <1>1, <1>4, <2>1 DEF IInv, WholeInv, WholeAt
  <2>5. /\ LastAt(inbox'[r], Len(inbox'[r]) - 1)
        /\ \A k \in DOMAIN inbox'[r] :
                inbox'[r][k] = Nothing <=> k = Len(inbox'[r])
    BY <2>2, <2>3, <2>4, TypeFacts, AppendWhole DEF IInv
  <2>6. ~Batched(r)'
    BY <1>1, NoBatchType DEF Batched, ToSet
  <2>7. Nothing' = Nothing
    BY DEF Nothing
  <2>8. QED
    BY <2>5, <2>6, <2>7 DEF WholeAt, LastAt
<1>5. WholeInv'
  BY <1>1, <1>2, <1>4, ServedWhole
<1>6. QED
  BY <1>1, <1>2, <1>3, <1>5, ServedKeeps DEF IInv

LEMMA StartStreamKeeps == ASSUME IInv, StartStream PROVE IInv'
<1>1. /\ batch.state = "encode" /\ Served /\ inbox' = inbox
      /\ batch' = [batch EXCEPT !.state = "stream"] /\ Streams(batch.kwargs)
  BY DEF StartStream, Alive, Served
<1>2. /\ UNCHANGED <<engine, kwargs, handler, queue, taskPool, taskThread>>
      /\ \A r \in Requests : handler[r] = "new" \/ kwargs[r] \in Kwargs
      /\ TypeInv
  BY <1>1, TypeFacts DEF Served, handlerVars, poolVars, IInv, Arrived
<1>3. /\ batch' \in Batches /\ batch'.state = "stream"
      /\ batch'.rows = batch.rows /\ Moves
  <2>1. batch \in Batches
    BY <1>2, TypeFacts
  <2>2. batch' \in Batches /\ batch'.state = "stream"
        /\ batch'.rows = batch.rows /\ batch'.kwargs = batch.kwargs
    BY <1>1, <2>1 DEF Batches
  <2>3. QED
    BY <1>1, <2>2 DEF Moves
<1>4. BatchInv' /\ \A r : Batched(r)' <=> Batched(r)
  BY <1>1, <1>3, MovesBatch DEF Batched
<1>5. TypeInv'
  <2>1. adaptersPool' \subseteq Adapters
    BY <1>1, <1>2, BatchAdapterType, TypeFacts DEF StartStream
  <2>2. QED
    BY <1>1, <1>2, <1>3, <2>1, TypeFacts, TypeNext
<1>6. ArrivalInv' /\ QueueInv' /\ PoolInv' /\ NoOvertaking'
  BY <1>2, SameWaiting
<1>7. \A r : /\ Queued(r)' <=> Queued(r)
             /\ Pooled(r)' <=> Pooled(r)
             /\ Arrived(r)' <=> Arrived(r)
             /\ Streams(r)' <=> Streams(r)
             /\ Alone(r)' <=> Alone(r)
  BY <1>1, SamePlaces
<1>8. PlaceInv'
  BY <1>1, <1>3, <1>4, <1>7, Zenon DEF PlaceInv, IInv, Requests
<1>9. InboxInv'
  <2>1. ASSUME NEW r \in Requests
        PROVE  AllSensible(r)'
    BY <1>1, <1>2 DEF IInv, InboxInv, AllSensible, Sensible, Arrived
  <2>2. QED
    BY <1>1, <1>7, <2>1 DEF IInv, InboxInv
<1>10. WholeInv'
  <2>1. SUFFICES ASSUME NEW r \in Requests, Arrived(r), Streams(r), Alone(r)
                 PROVE  WholeAt(r)'
    BY <1>7, Zenon DEF WholeInv, Requests
  <2>2. WholeAt(r)
    BY <2>1 DEF IInv, WholeInv
  <2>3. Batched(r) => Unended(inbox[r])
    <3>1. Batched(r) => inbox[r] = <<>>
      BY <1>1 DEF IInv, PlaceInv
    <3>2. QED
      BY <3>1 DEF Unended
  <2>4. QED
    BY <1>1, <1>3, <1>4, <2>2, <2>3 DEF WholeAt, Answered, Unended, LastAt
<1>11. QED
  BY <1>4, <1>5, <1>6, <1>8, <1>9, <1>10 DEF IInv

\* Of a handler the invariant only reads whether it arrived.
LEMMA UnreadKeeps ==
    ASSUME IInv, UNCHANGED <<engine, kwargs, queue, taskPool, batch, inbox>>,
           adaptersPool' \subseteq Adapters,
           handler' \in [Requests -> {"new", "submitted", "waiting"}],
           taskThread' \in {"none", "alive", "hung", "dead"},
           \A r \in Requests : Arrived(r)' <=> Arrived(r)
    PROVE  IInv'
<1>1. /\ engine' = engine /\ kwargs' = kwargs /\ queue' = queue
      /\ taskPool' = taskPool /\ batch' = batch
      /\ inbox' = inbox
      /\ TypeInv
  BY DEF IInv
<1>2. TypeInv'
  <2>1. \A r \in Requests : handler'[r] = "new" \/ kwargs[r] \in Kwargs
    BY TypeFacts DEF IInv, Arrived
  <2>2. QED
    BY <1>1, <2>1, TypeFacts, TypeNext
<1>3. \A r : /\ Queued(r)' <=> Queued(r)
             /\ Pooled(r)' <=> Pooled(r)
             /\ Batched(r)' <=> Batched(r)
             /\ Streams(r)' <=> Streams(r)
  BY <1>1 DEF Queued, Pooled, Batched, Streams
<1>4. \A r \in Requests : Alone(r)' <=> Alone(r)
  <2>1. ASSUME NEW r \in Requests
        PROVE  Peers(r)' = Peers(r)
    BY <1>1 DEF Peers, Arrived
  <2>2. QED
    BY <1>1, <2>1 DEF Alone
<1>5. ArrivalInv' /\ QueueInv'
  BY <1>1, <1>3 DEF IInv, ArrivalInv, QueueInv
<1>6. ASSUME NEW rs \in SUBSET Requests, NEW c, NEW k \in Requests,
             OfOneKind(rs, c, k)
      PROVE  /\ Arrived(k)' /\ kwargs[k].config = c
             /\ \A r \in rs : Arrived(r)' /\ kwargs[r].config = c /\ k <= r
  BY <1>6 DEF OfOneKind
<1>7. PoolInv'
  <2>1. ASSUME NEW i \in DOMAIN taskPool
        PROVE  EntryInv(taskPool[i])'
    <3>1. taskPool[i].kwargs \in Requests
          /\ ToSet(taskPool[i].data) \in SUBSET Requests
      BY <1>1, EntryTypes, InSeq
    <3>2. EntryInv(taskPool[i])
      BY DEF IInv, PoolInv
    <3>3. OfOneKind(ToSet(taskPool[i].data), taskPool[i].config,
                    taskPool[i].kwargs)'
      BY <1>1, <1>6, <3>1, <3>2 DEF EntryInv, OfOneKind
    <3>4. QED
      BY <1>1, <3>2, <3>3 DEF EntryInv, Increasing
  <2>2. QED
    BY <1>1, <2>1 DEF IInv, PoolInv
<1>8. BatchInv'
  <2>1. batch.kwargs \in Requests /\ ToSet(batch.rows) \in SUBSET Requests
    BY <1>1, TypeFacts, InSeq
  <2>2. ASSUME batch.state # "idle"
        PROVE  OfOneKind(ToSet(batch.rows), kwargs[batch.kwargs].config,
                         batch.kwargs)'
    BY <1>1, <1>6, <2>1, <2>2 DEF IInv, BatchInv, OfOneKind
  <2>3. QED
    BY <1>1, <1>3, <2>2 DEF IInv, BatchInv, Increasing, NoBatch
<1>9. PlaceInv' /\ NoOvertaking'
  BY <1>1, <1>3 DEF IInv, PlaceInv, NoOvertaking, Waiting, Arrived
<1>10. InboxInv'
  <2>1. ASSUME NEW r \in Requests
        PROVE  AllSensible(r)'
    BY <1>1 DEF IInv, InboxInv, AllSensible, Sensible
  <2>2. QED
    BY <1>1, <1>3, <2>1 DEF IInv, InboxInv
<1>11. WholeInv'
  BY <1>1, <1>3, <1>4 DEF IInv, WholeInv, WholeAt, Answered, Unended, LastAt
<1>12. QED
  BY <1>2, <1>5, <1>7, <1>8, <1>9, <1>10, <1>11 DEF IInv

\* The worker stops: its batch stays as it is.
Stops == /\ UNCHANGED <<engine, kwargs, handler, queue, taskPool, batch, inbox>>
         /\ taskThread' \in {"hung", "dead"}

LEMMA StoppingKeeps ==
    ASSUME IInv, Stops, adaptersPool' \subseteq Adapters PROVE IInv'
<1>1. UNCHANGED <<engine, kwargs, queue, taskPool, batch, inbox>>
  BY DEF Stops
<1>2. /\ handler' \in [Requests -> {"new", "submitted", "waiting"}]
      /\ taskThread' \in {"none", "alive", "hung", "dead"}
  BY TypeFacts DEF IInv, Stops
<1>3. \A r \in Requests : Arrived(r)' <=> Arrived(r)
  BY DEF Stops, Arrived
<1>4. QED
  BY <1>1, <1>2, <1>3, UnreadKeeps

LEMMA StopsWithItsAdapters ==
    ASSUME IInv, Stops, adaptersPool' = adaptersPool PROVE IInv'
<1>1. adaptersPool' \subseteq Adapters
  BY TypeFacts DEF IInv
<1>2. QED
  BY <1>1, StoppingKeeps

LEMMA DieOfEncodeKeeps == ASSUME IInv, DieOfEncode PROVE IInv'
<1>1. Stops /\ adaptersPool' = adaptersPool
  BY DEF DieOfEncode, Stops, handlerVars, poolVars
<1>2. QED
  BY <1>1, StopsWithItsAdapters

LEMMA DieOfBeamsKeeps == ASSUME IInv, DieOfBeams PROVE IInv'
<1>1. Stops /\ adaptersPool' = adaptersPool
  BY DEF DieOfBeams, Stops, handlerVars, poolVars
<1>2. QED
  BY <1>1, StopsWithItsAdapters

\* The model may have been given the adapter of the batch before.
LEMMA DieOfGenerateKeeps == ASSUME IInv, DieOfGenerate PROVE IInv'
<1>1. Stops
  BY DEF DieOfGenerate, Stops, handlerVars, poolVars
<1>2. CASE adaptersPool' = adaptersPool
  BY <1>1, <1>2, StopsWithItsAdapters
<1>3. CASE batch.state = "encode" /\ AddAdapter(BatchAdapter)
  <2>1. adaptersPool' \subseteq Adapters
    BY <1>3, BatchAdapterType
  <2>2. QED
    BY <1>1, <2>1, StoppingKeeps
<1>4. QED
  BY <1>2, <1>3 DEF DieOfGenerate, Alive

LEMMA HangOnGenerateKeeps == ASSUME IInv, HangOnGenerate PROVE IInv'
<1>1. Stops /\ adaptersPool' = adaptersPool
  BY DEF HangOnGenerate, Stops, handlerVars, poolVars
<1>2. QED
  BY <1>1, StopsWithItsAdapters

LEMMA StartInferWorkerKeeps ==
    ASSUME IInv, NEW r \in Requests, StartInferWorker(r) PROVE IInv'
<1>1. /\ UNCHANGED <<engine, kwargs, queue, taskPool, batch, adaptersPool, inbox>>
      /\ handler[r] = "submitted"
      /\ handler' = [handler EXCEPT ![r] = "waiting"]
      /\ taskThread' = IF taskThread = "none" THEN "alive" ELSE taskThread
  BY DEF StartInferWorker, poolVars
<1>2. handler' \in [Requests -> {"new", "submitted", "waiting"}]
      /\ taskThread' \in {"none", "alive", "hung", "dead"}
      /\ adaptersPool' \subseteq Adapters
  BY <1>1, TypeFacts DEF IInv
<1>3. \A q \in Requests : Arrived(q)' <=> Arrived(q)
  BY <1>1, TypeFacts DEF IInv, Arrived
<1>4. QED
  BY <1>1, <1>2, <1>3, UnreadKeeps

-----------------------------------------------------------------------------
(***************************************************************************)
(* The step of a handler that sends a request.                             *)
(***************************************************************************)
LEMMA PooledBatched ==
    ASSUME IInv, NEW r \in Requests, Pooled(r) \/ Batched(r)
    PROVE  Arrived(r)
<1>1. TypeInv /\ PoolInv /\ BatchInv
  BY DEF IInv
<1>2. CASE Pooled(r)
  <2>1. PICK i \in DOMAIN taskPool : r \in ToSet(taskPool[i].data)
    BY <1>2 DEF Pooled
  <2>2. EntryInv(taskPool[i])
    BY <1>1 DEF PoolInv
  <2>3. QED
    BY <2>1, <2>2 DEF EntryInv, OfOneKind
<1>3. CASE Batched(r)
  <2>1. batch.state # "idle"
    BY <1>1, <1>3, NoBatchType DEF BatchInv, Batched, ToSet
  <2>2. QED
    BY <1>3, <2>1, Running
<1>4. QED
  BY <1>2, <1>3

LEMMA SubmitKeeps ==
    ASSUME IInv, NEW r \in Requests, Submit(r) PROVE IInv'
<1>1. /\ UNCHANGED <<engine, taskPool, taskThread, batch, adaptersPool, inbox>>
      /\ queue' = Append(queue, r)
      /\ handler' = [handler EXCEPT ![r] = "submitted"]
      /\ handler[r] = "new" /\ \A q \in 1..(r - 1) : handler[q] # "new"
  BY DEF Submit
<1>2. PICK k \in Asked : kwargs' = [kwargs EXCEPT ![r] = k]
  BY DEF Submit
<1>3. TypeInv /\ k \in Kwargs
  BY BatchingAssumption DEF IInv
<1>4. /\ \A q \in Requests : Arrived(q)' <=> Arrived(q) \/ q = r
      /\ \A q \in Requests : Arrived(q) => q < r
      /\ \A q \in Requests : q < r => Arrived(q)
      /\ ~Arrived(r)
  <2>1. \A q \in Requests : Arrived(q)' <=> Arrived(q) \/ q = r
    BY <1>1, <1>3, TypeFacts DEF Arrived
  <2>2. ~Arrived(r) /\ \A q \in Requests : q < r => Arrived(q)
    BY <1>1 DEF Arrived, Requests
  <2>3. \A q \in Requests : Arrived(q) => q < r
    BY <2>2, RequestsType DEF IInv, ArrivalInv
  <2>4. QED
    BY <2>1, <2>2, <2>3
<1>5. /\ kwargs'[r] \in Kwargs
      /\ \A q \in Requests : q # r => kwargs'[q] = kwargs[q]
      /\ kwargs' \in [Requests -> Kwargs \cup {<<>>}]
  BY <1>2, <1>3, TypeFacts
<1>6. /\ queue' \in Seq(Requests) /\ Increasing(queue')
      /\ \A q \in Requests : Queued(q)' <=> Queued(q) \/ q = r
  <2>1. queue \in Seq(Requests) /\ Increasing(queue) /\ ToSet(queue) \subseteq Requests
    BY <1>3, TypeFacts, InSeq DEF IInv, QueueInv
  <2>2. \A q \in ToSet(queue) : q < r
    BY <1>4, <2>1 DEF IInv, QueueInv, Queued
  <2>3. /\ Append(queue, r) \in Seq(Requests) /\ Increasing(Append(queue, r))
        /\ ToSet(Append(queue, r)) = ToSet(queue) \cup {r}
    BY <2>1, <2>2, RequestsType, AppendOne
  <2>4. ToSet(queue') = ToSet(queue) \cup {r}
    BY <1>1, <2>3
  <2>5. QED
    BY <1>1, <2>3, <2>4 DEF Queued
<1>7. \A q : /\ Pooled(q)' <=> Pooled(q)
             /\ Batched(q)' <=> Batched(q)
  BY <1>1 DEF Pooled, Batched
<1>8. ~Pooled(r) /\ ~Batched(r) /\ ~Queued(r) /\ inbox[r] = <<>>
  BY <1>4, PooledBatched DEF IInv, PlaceInv, QueueInv
<1>9. TypeInv'
  <2>1. handler' \in [Requests -> {"new", "submitted", "waiting"}]
    BY <1>1, <1>3, TypeFacts
  <2>2. \A q \in Requests : handler'[q] = "new" \/ kwargs'[q] \in Kwargs
    BY <1>3, <1>4, <1>5, TypeFacts DEF Arrived
  <2>3. QED
    BY <1>1, <1>3, <1>5, <1>6, <2>1, <2>2, TypeFacts, TypeNext
<1>10. ArrivalInv'
  BY <1>4, Zenon DEF IInv, ArrivalInv, Requests
<1>11. QueueInv'
  <2>1. \A q \in Requests : Queued(q)' => Arrived(q)'
    BY <1>4, <1>6 DEF IInv, QueueInv
  <2>2. ASSUME NEW p \in Requests, NEW q \in Requests,
               Arrived(p)', ~Queued(p)', Queued(q)'
        PROVE  p < q
    <3>1. p # r /\ Arrived(p) /\ ~Queued(p)
      BY <1>4, <1>6, <2>2
    <3>2. CASE q = r
      BY <1>4, <3>1, <3>2
    <3>3. CASE Queued(q)
      BY <3>1, <3>3 DEF IInv, QueueInv
    <3>4. QED
      BY <1>6, <2>2, <3>2, <3>3
  <2>3. QED
    BY <1>6, <2>1, <2>2, Zenon DEF QueueInv, Requests
<1>12. ASSUME NEW rs \in SUBSET Requests, NEW c, NEW q \in Requests,
              OfOneKind(rs, c, q)
       PROVE  OfOneKind(rs, c, q)'
  <2>1. Arrived(q)' /\ kwargs'[q].config = c
    BY <1>4, <1>5, <1>12 DEF OfOneKind
  <2>2. \A p \in rs : Arrived(p)' /\ kwargs'[p].config = c /\ q <= p
    BY <1>4, <1>5, <1>12 DEF OfOneKind
  <2>3. QED
    BY <2>1, <2>2 DEF OfOneKind
<1>13. PoolInv'
  <2>1. ASSUME NEW i \in DOMAIN taskPool
        PROVE  EntryInv(taskPool[i])'
    <3>1. taskPool[i].kwargs \in Requests
          /\ ToSet(taskPool[i].data) \in SUBSET Requests
      BY <1>3, EntryTypes, InSeq
    <3>2. EntryInv(taskPool[i])
      BY DEF IInv, PoolInv
    <3>3. OfOneKind(ToSet(taskPool[i].data), taskPool[i].config,
                    taskPool[i].kwargs)'
      <4>1. OfOneKind(ToSet(taskPool[i].data), taskPool[i].config,
                      taskPool[i].kwargs)
        BY <3>2 DEF EntryInv
      <4>2. /\ handler'[taskPool[i].kwargs] # "new"
            /\ kwargs'[taskPool[i].kwargs].config = taskPool[i].config
        BY <1>4, <1>5, <3>1, <4>1 DEF OfOneKind, Arrived
      <4>3. ASSUME NEW q \in ToSet(taskPool[i].data)
            PROVE  /\ handler'[q] # "new" /\ kwargs'[q].config = taskPool[i].config
                   /\ taskPool[i].kwargs <= q
        BY <1>4, <1>5, <3>1, <4>1 DEF OfOneKind, Arrived
      <4>4. taskPool' = taskPool
        BY <1>1
      <4>5. QED
        BY <4>2, <4>3, <4>4 DEF OfOneKind, Arrived
    <3>4. QED
      BY <1>1, <3>2, <3>3 DEF EntryInv, Increasing
  <2>2. QED
    BY <1>1, <2>1 DEF IInv, PoolInv
<1>14. BatchInv'
  <2>1. batch.kwargs \in Requests /\ ToSet(batch.rows) \in SUBSET Requests
    BY <1>3, TypeFacts, InSeq
  <2>2. ASSUME batch.state # "idle"
        PROVE  /\ kwargs'[batch.kwargs] = kwargs[batch.kwargs]
               /\ OfOneKind(ToSet(batch.rows), kwargs[batch.kwargs].config,
                            batch.kwargs)'
    <3>1. OfOneKind(ToSet(batch.rows), kwargs[batch.kwargs].config, batch.kwargs)
      BY <2>2 DEF IInv, BatchInv
    <3>2. kwargs'[batch.kwargs] = kwargs[batch.kwargs]
      BY <1>4, <1>5, <2>1, <3>1 DEF OfOneKind
    <3>3. QED
      BY <1>1, <1>12, <2>1, <3>1, <3>2 DEF OfOneKind
  <2>3. QED
    BY <1>1, <2>2 DEF IInv, BatchInv, Increasing, NoBatch, Streams
<1>15. PlaceInv'
  BY <1>1, <1>4, <1>6, <1>7, <1>8 DEF IInv, PlaceInv
<1>16. NoOvertaking'
  <2>1. ASSUME NEW p \in Requests, NEW q \in Requests, q < p, Arrived(p)',
               ~Waiting(p)', kwargs'[q].config = kwargs'[p].config
        PROVE  ~Waiting(q)'
    <3>1. \A o \in Requests : o # r => (Waiting(o)' <=> Waiting(o))
      BY <1>4, <1>6, <1>7 DEF Waiting, Arrived
    <3>2. Waiting(r)'
      BY <1>4, <1>6 DEF Waiting, Arrived
    <3>3. p # r /\ Arrived(p) /\ ~Waiting(p)
      BY <1>4, <2>1, <3>1, <3>2
    <3>4. q # r
      BY <1>4, <2>1, <3>3, RequestsType
    <3>5. ~Waiting(q)
      BY <1>5, <2>1, <3>3, <3>4 DEF IInv, NoOvertaking, Arrived
    <3>6. QED
      BY <3>1, <3>4, <3>5
  <2>2. QED
    BY <2>1, Zenon DEF NoOvertaking, Arrived, Requests
<1>17. InboxInv'
  <2>1. ASSUME NEW q \in Requests, q # r
        PROVE  AllSensible(q)'
    <3>1. ASSUME NEW j \in DOMAIN inbox[q]
          PROVE  /\ inbox[q][j] = Nothing \/ inbox[q][j].of = q
                 /\ inbox[q][j] \in Replies => \E p \in Requests :
                      /\ p <= q /\ Arrived(p)' /\ kwargs'[p].config = kwargs'[q].config
                      /\ inbox[q][j].adapter = kwargs'[p].adapter
      <4>1. Sensible(q, inbox[q][j])
        BY DEF IInv, InboxInv, AllSensible
      <4>2. QED
        BY <1>4, <1>5, <2>1, <4>1 DEF Sensible
    <3>2. QED
      BY <1>1, <3>1 DEF AllSensible, Sensible
  <2>2. AllSensible(r)'
    BY <1>1, <1>8 DEF AllSensible
  <2>3. ASSUME NEW q \in Requests, Arrived(q)', ~Streams(q)'
        PROVE  Len(inbox[q]) <= 1
    <3>1. CASE q = r
      <4>1. Len(inbox[r]) = 0
        BY <1>8
      <4>2. QED
        BY <3>1, <4>1
    <3>2. CASE q # r
      BY <1>4, <1>5, <2>3, <3>2 DEF IInv, InboxInv, Streams
    <3>3. QED
      BY <3>1, <3>2
  <2>4. QED
    BY <1>1, <2>1, <2>2, <2>3 DEF InboxInv
<1>18. WholeInv'
  <2>1. SUFFICES ASSUME NEW q \in Requests, Arrived(q)', Streams(q)', Alone(q)'
                 PROVE  WholeAt(q)'
    BY Zenon DEF WholeInv, Requests
  <2>2. CASE q = r
    BY <1>1, <1>7, <1>8, <2>2 DEF WholeAt, Answered
  <2>3. CASE q # r
    <3>1. Arrived(q) /\ Streams(q)
      BY <1>4, <1>5, <2>1, <2>3 DEF Streams
    <3>2. Peers(q) \subseteq Peers(q)'
      BY <1>4, <1>5, <2>3 DEF Peers, Arrived
    <3>3. Alone(q)
      BY <1>1, <2>1, <3>2 DEF Alone
    <3>4. WholeAt(q)
      BY <3>1, <3>3 DEF IInv, WholeInv
    <3>5. QED
      BY <1>1, <1>7, <3>4 DEF WholeAt, Answered, Unended, LastAt
  <2>4. QED
    BY <2>2, <2>3
<1>19. QED
  BY <1>9, <1>10, <1>11, <1>13, <1>14, <1>15, <1>16, <1>17, <1>18 DEF IInv

-----------------------------------------------------------------------------
(***************************************************************************)
(* The steps of the worker that sort and batch.                            *)
(***************************************************************************)
LEMMA IdleBatch ==
    ASSUME IInv, batch.state = "idle"
    PROVE  batch = NoBatch /\ batch.rows = <<>> /\ \A r : ~Batched(r)
BY NoBatchType DEF IInv, BatchInv, Batched, ToSet

\* Between batches requests only move from the queue to the pool and from there
\* into a batch.
LEMMA SortingKeeps ==
    ASSUME IInv, batch.state = "idle",
           UNCHANGED <<engine, handlerVars, taskThread, adaptersPool, inbox>>,
           queue' \in Seq(Requests), taskPool' \in Seq(Entries), batch' \in Batches,
           batch'.state \in {"idle", "encode"},
           QueueInv', PoolInv', BatchInv', NoOvertaking',
           \A r \in Requests :
                /\ ~(Queued(r)' /\ Pooled(r)')
                /\ ~(Queued(r)' /\ Batched(r)')
                /\ ~(Pooled(r)' /\ Batched(r)')
                /\ Queued(r)' \/ Pooled(r)' \/ Batched(r)' <=> Queued(r) \/ Pooled(r)
    PROVE  IInv'
<1>1. UNCHANGED <<engine, kwargs, handler, taskThread, adaptersPool, inbox>> /\ TypeInv
  BY DEF handlerVars, IInv
<1>2. TypeInv'
  <2>1. \A r \in Requests : handler[r] = "new" \/ kwargs[r] \in Kwargs
    BY <1>1, TypeFacts DEF Arrived
  <2>2. QED
    BY <1>1, <2>1, TypeFacts, TypeNext
<1>3. \A r : ~Batched(r)
  BY IdleBatch
<1>4. \A r \in Requests : Arrived(r)' <=> Arrived(r)
  BY <1>1 DEF Arrived
<1>5. ArrivalInv'
  BY <1>1 DEF IInv, ArrivalInv, Arrived
<1>6. PlaceInv'
  <2>1. SUFFICES ASSUME NEW r \in Requests
        PROVE  /\ ~(Queued(r)' /\ Pooled(r)')
               /\ ~(Queued(r)' /\ Batched(r)')
               /\ ~(Pooled(r)' /\ Batched(r)')
               /\ Queued(r)' \/ Pooled(r)' \/ ~Arrived(r)' => inbox'[r] = <<>>
               /\ Batched(r)' /\ batch'.state = "encode" => inbox'[r] = <<>>
               /\ Arrived(r)' => \/ Queued(r)' \/ Pooled(r)' \/ Batched(r)'
                                 \/ inbox'[r] # <<>>
    BY Zenon DEF PlaceInv, Requests
  <2>2. /\ Queued(r) \/ Pooled(r) \/ ~Arrived(r) => inbox[r] = <<>>
        /\ Arrived(r) => Queued(r) \/ Pooled(r) \/ Batched(r) \/ inbox[r] # <<>>
    BY DEF IInv, PlaceInv
  <2>3. inbox' = inbox
    BY <1>1
  <2>4. QED
    BY <1>3, <1>4, <2>2, <2>3, Zenon
<1>7. InboxInv'
  <2>1. ASSUME NEW r \in Requests
        PROVE  AllSensible(r)'
    BY <1>1 DEF IInv, InboxInv, AllSensible, Sensible, Arrived
  <2>2. QED
    BY <1>1, <2>1 DEF IInv, InboxInv, Arrived, Streams
<1>8. WholeInv'
  <2>1. SUFFICES ASSUME NEW r \in Requests, Arrived(r)', Streams(r)', Alone(r)'
                 PROVE  WholeAt(r)'
    BY Zenon DEF WholeInv, Requests
  <2>2. Arrived(r) /\ Streams(r) /\ Alone(r)
    BY <1>1, <2>1 DEF Arrived, Streams, Alone, Peers
  <2>3. WholeAt(r)
    BY <2>2 DEF IInv, WholeInv
  <2>4. Answered(r)' => Answered(r)
    BY <1>1, <1>3 DEF Answered
  <2>5. QED
    BY <1>1, <2>3, <2>4 DEF WholeAt, LastAt
<1>9. QED
  BY <1>2, <1>5, <1>6, <1>7, <1>8 DEF IInv

\* The entries whose requests are those of configuration c.
LEMMA EntryFacts ==
    ASSUME IInv, NEW i \in DOMAIN taskPool
    PROVE  /\ taskPool[i] \in Entries /\ taskPool[i].data \in Seq(Requests)
           /\ taskPool[i].kwargs \in Requests /\ taskPool[i].config \in Configs
           /\ taskPool[i].data # <<>> /\ Increasing(taskPool[i].data)
           /\ Arrived(taskPool[i].kwargs)
           /\ kwargs[taskPool[i].kwargs].config = taskPool[i].config
           /\ ToSet(taskPool[i].data) \subseteq Requests
           /\ \A r \in ToSet(taskPool[i].data) :
                /\ Arrived(r) /\ kwargs[r].config = taskPool[i].config
                /\ taskPool[i].kwargs <= r
                /\ Pooled(r) /\ ~Queued(r)
           /\ \E r \in Requests : r \in ToSet(taskPool[i].data)
<1>1. /\ taskPool[i] \in Entries /\ taskPool[i].data \in Seq(Requests)
      /\ taskPool[i].kwargs \in Requests /\ taskPool[i].config \in Configs
  BY EntryTypes DEF IInv
<1>2. EntryInv(taskPool[i])
  BY DEF IInv, PoolInv
<1>3. ToSet(taskPool[i].data) \subseteq Requests
  BY <1>1, InSeq
<1>4. \A r \in ToSet(taskPool[i].data) : Pooled(r)
  BY DEF Pooled
<1>5. \A r \in ToSet(taskPool[i].data) : ~Queued(r)
  BY <1>3, <1>4 DEF IInv, PlaceInv
<1>6. Head(taskPool[i].data) \in ToSet(taskPool[i].data)
  BY <1>1, <1>2, RequestsType, HeadFirst DEF EntryInv
<1>7. QED
  BY <1>1, <1>2, <1>3, <1>4, <1>5, <1>6 DEF EntryInv, OfOneKind

\* The pool with r at the end of the entry of its configuration c.
Gained(r, c) ==
    IF EntryOf(c) = {}
      THEN Append(taskPool, [config |-> c, kwargs |-> r, data |-> <<r>>])
      ELSE [i \in DOMAIN taskPool |->
              IF i \in EntryOf(c)
                THEN [taskPool[i] EXCEPT !.data = Append(@, r)]
                ELSE taskPool[i]]

GoodPool(pool) ==
    /\ pool \in Seq(Entries)
    /\ \A i \in DOMAIN pool : EntryInv(pool[i])
    /\ \A i, j \in DOMAIN pool : i # j => pool[i].config # pool[j].config

Holds(pool, q) == \E i \in DOMAIN pool : q \in ToSet(pool[i].data)

LEMMA PoolGains ==
    ASSUME IInv, NEW r \in Requests, Arrived(r),
           \A q \in Requests : Pooled(q) => q < r,
           NEW c, c = kwargs[r].config,
           NEW pool, pool = Gained(r, c)
    PROVE  /\ GoodPool(pool)
           /\ \A q \in Requests : Holds(pool, q) <=> Pooled(q) \/ q = r
<1> DEFINE n == Len(taskPool)
<1>1. /\ n \in Nat /\ DOMAIN taskPool = 1..n /\ taskPool \in Seq(Entries)
      /\ TypeInv /\ PoolInv
  BY TypeFacts, LenProperties DEF IInv
<1>2. kwargs[r] \in Kwargs /\ c \in Configs
  <2>1. kwargs[r] \in Kwargs
    BY <1>1, TypeFacts
  <2>2. QED
    BY <2>1 DEF Kwargs
<1>3. /\ \A i \in 1..n : taskPool[i] \in Entries
      /\ \A i, j \in 1..n : i # j => taskPool[i].config # taskPool[j].config
  BY <1>1, EntryFacts DEF PoolInv
<1> HIDE DEF n
<1>4. CASE EntryOf(c) = {}
  <2> DEFINE e == [config |-> c, kwargs |-> r, data |-> <<r>>]
  <2>1. e \in Entries /\ e.data = <<r>> /\ e.config = c /\ e.kwargs = r
    <3>1. <<r>> \in Seq(Requests)
      OBVIOUS
    <3>2. QED
      BY <1>2, <3>1 DEF Entries
  <2> HIDE DEF e
  <2>2. ToSet(e.data) = {r} /\ Increasing(e.data) /\ e.data # <<>>
    <3>1. ToSet(<<r>>) = {r} /\ <<r>> # <<>> /\ DOMAIN <<r>> = {1}
      BY DEF ToSet
    <3>2. Increasing(<<r>>)
      BY <3>1 DEF Increasing
    <3>3. QED
      BY <2>1, <3>1, <3>2
  <2>3. EntryInv(e)
    BY <2>1, <2>2, RequestsType DEF EntryInv, OfOneKind
  <2>4. pool = Append(taskPool, e)
    BY <1>4 DEF e, Gained
  <2>5. /\ pool \in Seq(Entries) /\ DOMAIN pool = 1..n + 1
        /\ \A i \in 1..n : pool[i] = taskPool[i]
        /\ pool[n + 1] = e
        /\ \A i \in 1..n + 1 : i \in 1..n \/ i = n + 1
    <3>1. /\ Append(taskPool, e) \in Seq(Entries)
          /\ DOMAIN Append(taskPool, e) = 1..Len(taskPool) + 1
          /\ \A i \in 1..Len(taskPool) : Append(taskPool, e)[i] = taskPool[i]
          /\ Append(taskPool, e)[Len(taskPool) + 1] = e
          /\ \A i \in 1..Len(taskPool) + 1 :
                i \in 1..Len(taskPool) \/ i = Len(taskPool) + 1
      BY <1>1, <2>1, AppendAt
    <3>2. QED
      BY <2>4, <3>1, Zenon DEF n
  <2>6. \A i \in 1..n : i \in 1..n + 1 /\ i # n + 1
    BY <1>1
  <2>7. n + 1 \in 1..n + 1
    BY <1>1
  <2>8. \A i \in 1..n : taskPool[i].config # c
    BY <1>1, <1>4 DEF EntryOf
  <2>9. \A i \in DOMAIN pool : EntryInv(pool[i])
    BY <1>1, <2>3, <2>5 DEF PoolInv
  <2>10. ASSUME NEW i \in DOMAIN pool, NEW j \in DOMAIN pool, i # j
         PROVE  pool[i].config # pool[j].config
    <3>1. CASE i \in 1..n /\ j \in 1..n
      BY <1>3, <2>5, <2>10, <3>1
    <3>2. CASE i = n + 1
      <4>1. j \in 1..n
        BY <2>5, <2>10, <3>2
      <4>2. QED
        BY <2>1, <2>5, <2>8, <3>2, <4>1
    <3>3. CASE j = n + 1
      <4>1. i \in 1..n
        BY <2>5, <2>10, <3>3
      <4>2. QED
        BY <2>1, <2>5, <2>8, <3>3, <4>1
    <3>4. QED
      BY <2>5, <3>1, <3>2, <3>3
  <2>11. ASSUME NEW q \in Requests
         PROVE  Holds(pool, q)
                    <=> Pooled(q) \/ q = r
    BY <1>1, <2>2, <2>5, <2>6, <2>7 DEF Pooled, Holds
  <2>12. QED
    BY <2>5, <2>9, <2>10, <2>11 DEF GoodPool
<1>5. CASE EntryOf(c) # {}
  <2>1. PICK k \in 1..n : taskPool[k].config = c
    BY <1>1, <1>5 DEF EntryOf
  <2>2. \A i \in 1..n : i \in EntryOf(c) <=> i = k
    BY <1>1, <1>3, <2>1 DEF EntryOf
  <2> DEFINE d == taskPool[k].data
             e == [taskPool[k] EXCEPT !.data = Append(@, r)]
  <2>3. /\ d \in Seq(Requests) /\ Increasing(d)
        /\ taskPool[k] \in Entries /\ ToSet(d) \subseteq Requests
        /\ Arrived(taskPool[k].kwargs)
        /\ kwargs[taskPool[k].kwargs].config = c
        /\ taskPool[k].kwargs \in Requests
        /\ \A q \in ToSet(d) : /\ Arrived(q) /\ kwargs[q].config = c
                               /\ taskPool[k].kwargs <= q /\ Pooled(q)
        /\ \E q \in Requests : q \in ToSet(d)
    BY <1>1, <2>1, EntryFacts
  <2>4. \A q \in ToSet(d) : q < r
    BY <2>3
  <2>5. /\ Append(d, r) \in Seq(Requests) /\ Append(d, r) # <<>>
        /\ ToSet(Append(d, r)) = ToSet(d) \cup {r} /\ Increasing(Append(d, r))
    BY <2>3, <2>4, RequestsType, AppendOne
  <2>6. /\ e \in Entries /\ e.data = Append(d, r) /\ e.config = c
        /\ e.kwargs = taskPool[k].kwargs
    BY <2>1, <2>3, <2>5 DEF Entries
  <2>7. taskPool[k].kwargs <= r
    <3>1. PICK q \in Requests : q \in ToSet(d)
      BY <2>3
    <3>2. taskPool[k].kwargs <= q /\ q < r
      BY <2>3, <2>4, <3>1
    <3>3. taskPool[k].kwargs \in Int /\ q \in Int /\ r \in Int
      BY <2>3, RequestsType
    <3>4. QED
      BY <3>2, <3>3
  <2> HIDE DEF e, d
  <2>8. EntryInv(e)
    BY <2>3, <2>5, <2>6, <2>7 DEF EntryInv, OfOneKind
  <2>9. /\ DOMAIN pool = 1..n /\ pool[k] = e
        /\ \A i \in 1..n : i # k => pool[i] = taskPool[i]
        /\ pool \in [1..n -> Entries]
    <3>1. pool = [i \in 1..n |-> IF i = k THEN e ELSE taskPool[i]]
      <4>1. \A i \in 1..n : i \in EntryOf(c) => [taskPool[i] EXCEPT !.data = Append(@, r)] = e
        BY <2>2 DEF e
      <4>2. QED
        BY <1>1, <1>5, <2>2, <4>1 DEF Gained
    <3>2. QED
      BY <1>3, <2>6, <3>1
  <2>10. pool \in Seq(Entries)
    BY <1>1, <2>9, FunctionSeq
  <2>11. \A i \in DOMAIN pool : EntryInv(pool[i])
    BY <1>1, <2>8, <2>9 DEF PoolInv
  <2>12. \A i \in 1..n : pool[i].config = taskPool[i].config
    BY <2>1, <2>6, <2>9
  <2>13. \A i, j \in DOMAIN pool : i # j => pool[i].config # pool[j].config
    <3>1. SUFFICES ASSUME NEW i \in 1..n, NEW j \in 1..n, i # j
                   PROVE  pool[i].config # pool[j].config
      BY <2>9
    <3>2. taskPool[i].config # taskPool[j].config
      BY <1>3, <3>1, Zenon
    <3>3. QED
      BY <2>12, <3>2, Zenon
  <2>14. ASSUME NEW q \in Requests
         PROVE  Holds(pool, q)
                    <=> Pooled(q) \/ q = r
    <3>1. q \in ToSet(pool[k].data) <=> q \in ToSet(taskPool[k].data) \/ q = r
      <4>1. pool[k].data = Append(d, r)
        BY <2>6, <2>9, Zenon
      <4>2. QED
        BY <2>5, <4>1, Zenon DEF d
    <3>2. \A i \in 1..n : i # k => pool[i].data = taskPool[i].data
      BY <2>9
    <3>3. k \in DOMAIN pool
      BY <2>9
    <3>4. QED
      BY <1>1, <2>9, <3>1, <3>2, <3>3, Zenon DEF Pooled, Holds
  <2>15. QED
    BY <2>10, <2>11, <2>13, <2>14 DEF GoodPool
<1>6. QED
  BY <1>4, <1>5

LEMMA TakeRequestKeeps == ASSUME IInv, TakeRequest PROVE IInv'
<1> DEFINE r == Head(queue)
           c == kwargs[r].config
<1>1. /\ batch.state = "idle" /\ queue # <<>> /\ queue' = Tail(queue)
      /\ UNCHANGED <<engine, handlerVars, taskThread, batch, adaptersPool, inbox>>
      /\ taskPool' = Gained(r, c)
  BY DEF TakeRequest, Alive, Gained
<1>2. /\ TypeInv /\ batch \in Batches
      /\ queue \in Seq(Requests) /\ Increasing(queue)
      /\ UNCHANGED <<kwargs, handler>>
  BY <1>1, TypeFacts DEF IInv, QueueInv, handlerVars
<1>3. /\ r \in Requests /\ Queued(r) /\ Tail(queue) \in Seq(Requests)
      /\ Increasing(Tail(queue))
      /\ ToSet(queue) = ToSet(Tail(queue)) \cup {r}
      /\ \A q \in ToSet(Tail(queue)) : r < q
  BY <1>1, <1>2, RequestsType, HeadFirst DEF Queued
<1> HIDE DEF r
<1>4. \A q \in Requests : Queued(q)' <=> Queued(q) /\ q # r
  <2>1. r \notin ToSet(Tail(queue))
    BY <1>3, RequestsType
  <2>2. \A q : Queued(q)' <=> q \in ToSet(Tail(queue))
    BY <1>1 DEF Queued
  <2>3. QED
    BY <1>3, <2>1, <2>2 DEF Queued
<1>5. /\ Arrived(r) /\ ~Pooled(r)
      /\ \A q \in Requests : Queued(q) => Arrived(q)
      /\ \A q \in Requests : Pooled(q) => q < r
  <2>1. Arrived(r) /\ \A q \in Requests : Queued(q) => Arrived(q)
    BY <1>3 DEF IInv, QueueInv
  <2>2. \A q \in Requests : Pooled(q) => Arrived(q) /\ ~Queued(q)
    BY PooledBatched DEF IInv, PlaceInv
  <2>3. QED
    BY <1>3, <2>1, <2>2 DEF IInv, QueueInv
<1>6. /\ taskPool' \in Seq(Entries)
      /\ \A i \in DOMAIN taskPool' : EntryInv(taskPool'[i])
      /\ \A i, j \in DOMAIN taskPool' : i # j =>
                taskPool'[i].config # taskPool'[j].config
      /\ \A q \in Requests : Pooled(q)' <=> Pooled(q) \/ q = r
  <2>1. /\ GoodPool(taskPool')
        /\ \A q \in Requests : Holds(taskPool', q) <=> Pooled(q) \/ q = r
    BY <1>1, <1>3, <1>5, PoolGains
  <2>2. \A q : Holds(taskPool', q) <=> Pooled(q)'
    BY DEF Holds, Pooled
  <2>3. QED
    BY <2>1, <2>2 DEF GoodPool
<1> HIDE DEF c
<1>7. PoolInv'
  <2>1. \A i \in DOMAIN taskPool' : EntryInv(taskPool[i])'
    BY <1>2, <1>6 DEF EntryInv, OfOneKind, Arrived, Increasing
  <2>2. QED
    BY <1>6, <2>1 DEF PoolInv
<1>8. QueueInv'
  <2>1. Increasing(queue')
    BY <1>1, <1>3, Zenon
  <2>2. \A q \in Requests : Queued(q)' => Arrived(q)'
    BY <1>2, <1>4, <1>5 DEF Arrived
  <2>3. ASSUME NEW p \in Requests, NEW q \in Requests,
               Arrived(p)', ~Queued(p)', Queued(q)'
        PROVE  p < q
    <3>1. CASE p = r
      BY <1>1, <1>3, <2>3, <3>1 DEF Queued
    <3>2. CASE p # r
      <4>1. Arrived(p) /\ ~Queued(p) /\ Queued(q)
        BY <1>2, <1>4, <2>3, <3>2 DEF Arrived
      <4>2. QED
        BY <4>1 DEF IInv, QueueInv
    <3>3. QED
      BY <3>1, <3>2
  <2>4. QED
    BY <2>1, <2>2, <2>3, Zenon DEF QueueInv, Requests
<1>9. BatchInv'
  BY <1>1, <1>2 DEF IInv, BatchInv, NoBatch
<1>10. NoOvertaking'
  <2>1. \A q \in Requests : Waiting(q)' <=> Waiting(q)
    BY <1>2, <1>3, <1>4, <1>6 DEF Waiting
  <2>2. QED
    BY <1>2, <2>1 DEF IInv, NoOvertaking
<1>11. ASSUME NEW q \in Requests
       PROVE  /\ ~(Queued(q)' /\ Pooled(q)')
              /\ ~(Queued(q)' /\ Batched(q)')
              /\ ~(Pooled(q)' /\ Batched(q)')
              /\ Queued(q)' \/ Pooled(q)' \/ Batched(q)' <=> Queued(q) \/ Pooled(q)
  <2>1. ~Batched(q) /\ ~Batched(q)'
    <3>1. ~Batched(q)
      BY <1>1, IdleBatch
    <3>2. QED
      BY <1>1, <3>1 DEF Batched
  <2>2. ~(Queued(q) /\ Pooled(q))
    BY DEF IInv, PlaceInv
  <2>3. QED
    BY <1>3, <1>4, <1>5, <1>6, <2>1, <2>2, Zenon
<1>12. queue' \in Seq(Requests) /\ batch' \in Batches /\ batch'.state = "idle"
  BY <1>1, <1>2, <1>3
<1>13. QED
  BY <1>1, <1>6, <1>7, <1>8, <1>9, <1>10, <1>11, <1>12, SortingKeeps

\* The next batch fits, and there is one.
LEMMA BatchSizeFits ==
    ASSUME TypeInv, NEW n \in Nat \ {0}
    PROVE  /\ BatchSize(n) \in 1..n
           /\ engine.max_batch_size > 0 => BatchSize(n) <= engine.max_batch_size
BY TypeFacts DEF BatchSize

\* The pool without the first requests of its first entry: what remains of the
\* entry keeps its place.
Remains(remain) ==
    IF remain = <<>> THEN Tail(taskPool)
    ELSE [taskPool EXCEPT ![1].data = remain]

LEMMA PoolLoses ==
    ASSUME IInv, taskPool # <<>>,
           NEW remain \in Seq(Requests), Increasing(remain),
           ToSet(remain) \subseteq ToSet(taskPool[1].data),
           NEW pool, pool = Remains(remain)
    PROVE  /\ GoodPool(pool)
           /\ \A q \in Requests : Holds(pool, q) <=>
                    \/ q \in ToSet(remain)
                    \/ \E i \in DOMAIN taskPool : /\ i # 1
                                                  /\ q \in ToSet(taskPool[i].data)
<1> DEFINE n == Len(taskPool)
           first == taskPool[1]
<1>1. /\ n \in Nat /\ DOMAIN taskPool = 1..n /\ taskPool \in Seq(Entries)
      /\ n # 0 /\ 1 \in 1..n
      /\ TypeInv /\ PoolInv
  BY TypeFacts, LenProperties, EmptySeq DEF IInv
<1>2. /\ \A i \in 1..n : taskPool[i] \in Entries
      /\ \A i \in 1..n : EntryInv(taskPool[i])
      /\ \A i, j \in 1..n : i # j => taskPool[i].config # taskPool[j].config
  BY <1>1, EntryFacts DEF PoolInv
<1> HIDE DEF n
<1>3. CASE remain = <<>>
  <2>1. pool = Tail(taskPool)
    BY <1>3 DEF Remains
  <2>2. /\ pool \in Seq(Entries) /\ Len(pool) = n - 1
        /\ \A i \in 1..n - 1 : pool[i] = taskPool[i + 1]
    BY <1>1, <2>1, HeadTailProperties DEF n
  <2>3. DOMAIN pool = 1..n - 1
    <3>1. DOMAIN pool = 1..Len(pool)
      BY <2>2, LenProperties
    <3>2. QED
      BY <2>2, <3>1, Zenon
  <2>4. \A i \in 1..n - 1 : i + 1 \in 1..n /\ i + 1 # 1
    BY <1>1
  <2>5. \A i \in 1..n : i # 1 => \E k \in 1..n - 1 : k + 1 = i
    <3>1. SUFFICES ASSUME NEW i \in 1..n, i # 1
                   PROVE  i - 1 \in 1..n - 1 /\ (i - 1) + 1 = i
      BY Zenon
    <3>2. QED
      BY <1>1, <3>1
  <2>6. \A i \in DOMAIN pool : EntryInv(pool[i])
    BY <1>2, <2>2, <2>3, <2>4
  <2>7. ASSUME NEW i \in DOMAIN pool, NEW j \in DOMAIN pool, i # j
        PROVE  pool[i].config # pool[j].config
    <3>1. /\ pool[i] = taskPool[i + 1] /\ pool[j] = taskPool[j + 1]
          /\ i + 1 \in 1..n /\ j + 1 \in 1..n
      BY <2>2, <2>3, <2>4
    <3>2. i + 1 # j + 1
      BY <1>1, <2>3, <2>7
    <3>3. taskPool[i + 1].config # taskPool[j + 1].config
      BY <1>2, <3>1, <3>2, Zenon
    <3>4. QED
      BY <3>1, <3>3, Zenon
  <2>8. ASSUME NEW q \in Requests
        PROVE  Holds(pool, q) <=>
                    \/ q \in ToSet(remain)
                    \/ \E i \in DOMAIN taskPool : /\ i # 1
                                                  /\ q \in ToSet(taskPool[i].data)
    <3>1. q \notin ToSet(remain)
      BY <1>3 DEF ToSet
    <3>2. ASSUME NEW i \in 1..n, i # 1, q \in ToSet(taskPool[i].data)
          PROVE  Holds(pool, q)
      <4>1. PICK k \in 1..n - 1 : k + 1 = i
        BY <2>5, <3>2
      <4>2. QED
        BY <2>2, <2>3, <3>2, <4>1 DEF Holds
    <3>3. QED
      BY <1>1, <2>2, <2>3, <2>4, <3>1, <3>2, Zenon DEF Holds
  <2>9. QED
    BY <2>2, <2>6, <2>7, <2>8 DEF GoodPool
<1>4. CASE remain # <<>>
  <2> DEFINE e == [first EXCEPT !.data = remain]
  <2>1. /\ first \in Entries /\ EntryInv(first)
    BY <1>1, <1>2
  <2>2. /\ e \in Entries /\ e.data = remain /\ e.config = first.config
        /\ e.kwargs = first.kwargs
    BY <2>1 DEF Entries
  <2>3. pool = [i \in 1..n |-> IF i = 1 THEN e ELSE taskPool[i]]
    BY <1>1, <1>4 DEF Remains
  <2> HIDE DEF e, first
  <2>4. EntryInv(e)
    BY <1>4, <2>1, <2>2 DEF EntryInv, OfOneKind, first
  <2>5. /\ DOMAIN pool = 1..n /\ pool[1] = e /\ pool \in [1..n -> Entries]
        /\ \A i \in 1..n : i # 1 => pool[i] = taskPool[i]
    BY <1>1, <1>2, <2>2, <2>3
  <2>6. pool \in Seq(Entries)
    BY <1>1, <2>5, FunctionSeq
  <2>7. \A i \in DOMAIN pool : EntryInv(pool[i])
    BY <1>2, <2>4, <2>5
  <2>8. \A i \in 1..n : pool[i].config = taskPool[i].config
    BY <2>2, <2>5 DEF first
  <2>9. \A i, j \in DOMAIN pool : i # j => pool[i].config # pool[j].config
    <3>1. SUFFICES ASSUME NEW i \in 1..n, NEW j \in 1..n, i # j
                   PROVE  pool[i].config # pool[j].config
      BY <2>5
    <3>2. taskPool[i].config # taskPool[j].config
      BY <1>2, <3>1, Zenon
    <3>3. QED
      BY <2>8, <3>2, Zenon
  <2>10. ASSUME NEW q \in Requests
         PROVE  Holds(pool, q) <=>
                    \/ q \in ToSet(remain)
                    \/ \E i \in DOMAIN taskPool : /\ i # 1
                                                  /\ q \in ToSet(taskPool[i].data)
    <3>1. pool[1].data = remain /\ 1 \in DOMAIN pool
      BY <1>1, <2>2, <2>5
    <3>2. QED
      BY <1>1, <2>5, <3>1, Zenon DEF Holds
  <2>11. QED
    BY <2>6, <2>7, <2>9, <2>10 DEF GoodPool
<1>5. QED
  BY <1>3, <1>4

LEMMA FetchInferRequestsKeeps == ASSUME IInv, FetchInferRequests PROVE IInv'
<1> DEFINE first == taskPool[1]
           n == BatchSize(Len(first.data))
           rows == SubSeq(first.data, 1, n)
           remain == SubSeq(first.data, n + 1, Len(first.data))
<1>1. /\ batch.state = "idle" /\ queue = <<>> /\ taskPool # <<>>
      /\ UNCHANGED <<engine, handlerVars, queue, taskThread, adaptersPool, inbox>>
      /\ batch' = [kwargs |-> first.kwargs, rows |-> rows,
                   chunks |-> 0, state |-> "encode"]
      /\ taskPool' = Remains(remain)
  <2>1. taskPool \in Seq(Entries) /\ taskPool # <<>> => Head(taskPool) = first
    BY HeadTailProperties
  <2>2. Head(taskPool) = first
    BY <2>1, TypeFacts DEF IInv, FetchInferRequests
  <2>3. QED
    BY <2>2 DEF FetchInferRequests, Alive, Remains
<1>2. /\ TypeInv /\ UNCHANGED <<kwargs, handler, engine, inbox, queue>>
      /\ \A r \in Requests : Arrived(r)' <=> Arrived(r)
  BY <1>1 DEF IInv, handlerVars, Arrived
<1>3. 1 \in DOMAIN taskPool
  <2>1. taskPool \in Seq(Entries)
    BY <1>2, TypeFacts
  <2>2. QED
    BY <1>1, <2>1, LenProperties, EmptySeq
<1>4. /\ first.data \in Seq(Requests)
      /\ first.kwargs \in Requests
      /\ first.data # <<>> /\ Increasing(first.data)
      /\ Arrived(first.kwargs)
      /\ kwargs[first.kwargs].config = first.config
      /\ \A r \in ToSet(first.data) :
            /\ Arrived(r) /\ kwargs[r].config = first.config
            /\ first.kwargs <= r /\ Pooled(r)
      /\ ToSet(first.data) \subseteq Requests
  BY <1>3, EntryFacts
<1> HIDE DEF first
<1>5. /\ n \in 1..Len(first.data) /\ n \in 0..Len(first.data)
      /\ engine.max_batch_size > 0 => n <= engine.max_batch_size
      /\ Len(first.data) \in Nat /\ n \in Nat \ {0}
  <2>1. Len(first.data) \in Nat \ {0}
    BY <1>4, LenProperties, EmptySeq
  <2>2. /\ n \in 1..Len(first.data)
        /\ engine.max_batch_size > 0 => n <= engine.max_batch_size
    BY <1>2, <2>1, BatchSizeFits
  <2>3. QED
    BY <2>1, <2>2
<1> HIDE DEF n
<1>6. /\ rows \in Seq(Requests) /\ remain \in Seq(Requests) /\ Len(rows) = n
      /\ Increasing(rows) /\ Increasing(remain)
      /\ ToSet(first.data) = ToSet(rows) \cup ToSet(remain)
      /\ \A q \in ToSet(rows), r \in ToSet(remain) : q < r
  <2> DEFINE d == first.data
  <2>1. /\ d \in Seq(Requests) /\ Increasing(d) /\ n \in 0..Len(d)
        /\ rows = SubSeq(d, 1, n) /\ remain = SubSeq(d, n + 1, Len(d))
    BY <1>4, <1>5
  <2> HIDE DEF d, rows, remain
  <2>2. Split(Requests, d, n, rows, remain)
    BY <2>1, RequestsType, Splits
  <2>3. QED
    BY <2>2, Zenon DEF Split, d
<1> HIDE DEF rows, remain
<1>7. rows # <<>> /\ ToSet(rows) \subseteq ToSet(first.data)
      /\ ToSet(remain) \subseteq ToSet(first.data)
  <2>1. Len(rows) # 0
    BY <1>5, <1>6
  <2>2. QED
    BY <1>6, <2>1
<1>8. /\ GoodPool(taskPool')
      /\ \A q \in Requests : Holds(taskPool', q) <=>
            \/ q \in ToSet(remain)
            \/ \E i \in DOMAIN taskPool : i # 1 /\ q \in ToSet(taskPool[i].data)
  <2>1. ToSet(remain) \subseteq ToSet(taskPool[1].data)
    BY <1>7 DEF first
  <2>2. QED
    BY <1>1, <1>6, <2>1, PoolLoses
<1>9. PoolInv'
  <2>1. /\ taskPool' \in Seq(Entries)
        /\ \A i \in DOMAIN taskPool' : EntryInv(taskPool'[i])
        /\ \A i, j \in DOMAIN taskPool' : i # j =>
                taskPool'[i].config # taskPool'[j].config
    BY <1>8 DEF GoodPool
  <2>2. \A i \in DOMAIN taskPool' : EntryInv(taskPool[i])'
    BY <1>2, <2>1 DEF EntryInv, OfOneKind, Arrived, Increasing
  <2>3. QED
    BY <2>1, <2>2 DEF PoolInv
<1>10. /\ batch'.kwargs = first.kwargs /\ batch'.rows = rows
       /\ batch'.chunks = 0 /\ batch'.state = "encode"
       /\ batch' \in Batches
  BY <1>1, <1>4, <1>6 DEF Batches
<1>11. BatchInv'
  <2>1. OfOneKind(ToSet(batch.rows), kwargs[batch.kwargs].config, batch.kwargs)'
    BY <1>2, <1>4, <1>7, <1>10 DEF OfOneKind, Arrived
  <2>2. Increasing(batch'.rows) /\ batch'.rows # <<>>
    BY <1>6, <1>7, <1>10, Zenon
  <2>3. engine'.max_batch_size > 0 => Len(batch'.rows) <= engine'.max_batch_size
    BY <1>2, <1>5, <1>6, <1>10
  <2>4. QED
    BY <1>10, <2>1, <2>2, <2>3 DEF BatchInv
<1>12. QueueInv'
  BY <1>2 DEF IInv, QueueInv, Queued, Arrived
<1>13. \A q : ~Queued(q) /\ ~Queued(q)' /\ ~Batched(q)
  BY <1>1, <1>2, IdleBatch DEF Queued, ToSet
\* An entry's requests are in no other entry.
<1>14. ASSUME NEW q \in Requests
       PROVE  /\ Batched(q)' <=> q \in ToSet(rows)
              /\ Pooled(q)' \/ Batched(q)' <=> Pooled(q)
              /\ ~(Pooled(q)' /\ Batched(q)')
              /\ Pooled(q)' /\ kwargs[q].config = first.config => q \in ToSet(remain)
  <2> DEFINE other == \E i \in DOMAIN taskPool : /\ i # 1
                                                 /\ q \in ToSet(taskPool[i].data)
  <2>1. Batched(q)' <=> q \in ToSet(rows)
    BY <1>10, Zenon DEF Batched
  <2>2. Pooled(q)' <=> q \in ToSet(remain) \/ other
    <3>1. Pooled(q)' <=> Holds(taskPool', q)
      BY DEF Holds, Pooled
    <3>2. QED
      BY <1>8, <3>1
  <2>3. Pooled(q) <=> q \in ToSet(first.data) \/ other
    BY <1>3 DEF Pooled, first
  <2>4. ASSUME other
        PROVE  kwargs[q].config # first.config
    <3>1. PICK i \in DOMAIN taskPool : i # 1 /\ q \in ToSet(taskPool[i].data)
      BY <2>4
    <3>2. kwargs[q].config = taskPool[i].config
      BY <3>1, EntryFacts
    <3>3. taskPool[i].config # taskPool[1].config
      BY <1>3, <3>1 DEF IInv, PoolInv
    <3>4. QED
      BY <3>2, <3>3, Zenon DEF first
  <2>5. q \in ToSet(first.data) => kwargs[q].config = first.config
    BY <1>4
  <2> HIDE DEF other
  <2>6. ~(q \in ToSet(rows) /\ q \in ToSet(remain))
    BY <1>6, RequestsType
  <2>7. q \in ToSet(first.data) <=> q \in ToSet(rows) \/ q \in ToSet(remain)
    BY <1>6
  <2>8. QED
    BY <2>1, <2>2, <2>3, <2>4, <2>5, <2>6, <2>7, Zenon
<1>15. NoOvertaking'
  <2>1. \A q \in Requests : /\ Waiting(q)' => Waiting(q)
                            /\ Waiting(q)' <=> Arrived(q) /\ Pooled(q)'
                            /\ Waiting(q) <=> Arrived(q) /\ Pooled(q)
    BY <1>2, <1>13, <1>14 DEF Waiting, Arrived
  <2>2. ASSUME NEW r \in Requests, NEW q \in Requests, q < r, Arrived(r),
               ~Waiting(r)', kwargs[q].config = kwargs[r].config, Waiting(q)'
        PROVE  FALSE
    <3>1. CASE ~Waiting(r)
      BY <2>1, <2>2, <3>1 DEF IInv, NoOvertaking, Arrived
    <3>2. CASE Waiting(r)
      <4>1. r \in ToSet(rows)
        BY <1>14, <2>1, <2>2, <3>2
      <4>2. kwargs[r].config = first.config
        BY <1>4, <1>7, <4>1
      <4>3. q \in ToSet(remain)
        BY <1>14, <2>1, <2>2, <4>2
      <4>4. r < q
        BY <1>6, <4>1, <4>3
      <4>5. QED
        BY <2>2, <4>4, RequestsType
    <3>3. QED
      BY <3>1, <3>2
  <2>3. QED
    BY <1>2, <2>2, Zenon DEF NoOvertaking, Arrived, Requests
<1>16. \A r \in Requests :
            /\ ~(Queued(r)' /\ Pooled(r)')
            /\ ~(Queued(r)' /\ Batched(r)')
            /\ ~(Pooled(r)' /\ Batched(r)')
            /\ Queued(r)' \/ Pooled(r)' \/ Batched(r)' <=> Queued(r) \/ Pooled(r)
  BY <1>13, <1>14
<1>17. queue' \in Seq(Requests) /\ taskPool' \in Seq(Entries)
  BY <1>2, <1>8, TypeFacts DEF GoodPool
<1>18. QED
  BY <1>1, <1>9, <1>10, <1>11, <1>12, <1>15, <1>16, <1>17, SortingKeeps

-----------------------------------------------------------------------------
(***************************************************************************)
(* The invariant holds, and with it the safety properties.                 *)
(***************************************************************************)
LEMMA NextInv == IInv /\ [Next]_vars => IInv'
<1> SUFFICES ASSUME IInv, [Next]_vars PROVE IInv'
  OBVIOUS
<1>1. ASSUME NEW r \in Requests, Submit(r) PROVE IInv'
  BY <1>1, SubmitKeeps
<1>2. ASSUME NEW r \in Requests, StartInferWorker(r) PROVE IInv'
  BY <1>2, StartInferWorkerKeeps
<1>3. CASE TakeRequest
  BY <1>3, TakeRequestKeeps
<1>4. CASE FetchInferRequests
  BY <1>4, FetchInferRequestsKeeps
<1>5. CASE DieOfEncode
  BY <1>5, DieOfEncodeKeeps
<1>6. CASE InferFull
  BY <1>6, InferFullKeeps
<1>7. CASE StartStream
  BY <1>7, StartStreamKeeps
<1>8. CASE StreamChunk
  BY <1>8, StreamChunkKeeps
<1>9. CASE LastChunk
  BY <1>9, LastChunkKeeps
<1>10. CASE EndStream
  BY <1>10, EndStreamKeeps
<1>11. CASE DieOfBeams
  BY <1>11, DieOfBeamsKeeps
<1>12. CASE DieOfGenerate
  BY <1>12, DieOfGenerateKeeps
<1>13. CASE HangOnGenerate
  BY <1>13, HangOnGenerateKeeps
<1>14. CASE UNCHANGED vars
  <2>1. /\ UNCHANGED <<engine, kwargs, queue, taskPool, batch, adaptersPool, inbox>>
        /\ handler' = handler /\ taskThread' = taskThread
    BY <1>14 DEF vars, handlerVars, poolVars
  <2>2. /\ handler' \in [Requests -> {"new", "submitted", "waiting"}]
        /\ taskThread' \in {"none", "alive", "hung", "dead"}
        /\ adaptersPool' \subseteq Adapters
    BY <2>1, TypeFacts DEF IInv
  <2>3. \A r \in Requests : Arrived(r)' <=> Arrived(r)
    BY <2>1 DEF Arrived
  <2>4. QED
    BY <2>1, <2>2, <2>3, UnreadKeeps
<1>15. QED
  BY <1>1, <1>2, <1>3, <1>4, <1>5, <1>6, <1>7, <1>8, <1>9, <1>10, <1>11, <1>12,
     <1>13, <1>14
  DEF Next, InferWorker

LEMMA Invariance == Spec => []IInv
<1>1. Init => IInv
  BY InitInv
<1>2. IInv /\ [Next]_vars => IInv'
  BY NextInv
<1>3. QED
  BY <1>1, <1>2, PTL DEF Spec

(* Whatever the configurations, the adapters, the limit of a batch and the *)
(* requests that arrive, every variable of the engine keeps its type.      *)
THEOREM TypeCorrect == Spec => []TypeOK
<1>1. IInv => TypeOK
  BY DEF IInv, TypeInv
<1>2. QED
  BY <1>1, Invariance, PTL

(* Whatever was inserted into the outputs of a batch for rows that could   *)
(* not be encoded, a handler is only sent what belongs to its request, and *)
(* one that does not stream a single item. *)
THEOREM OwnAnswerAlways == Spec => []OwnAnswer
<1>1. IInv => OwnAnswer
  <2> SUFFICES ASSUME IInv, NEW r \in Requests
               PROVE  /\ \A k \in DOMAIN inbox[r] :
                            inbox[r][k] = Nothing \/ inbox[r][k].of = r
                      /\ inbox[r] # <<>> /\ ~Streams(r) => Len(inbox[r]) = 1
    BY DEF OwnAnswer
  <2>1. \A k \in DOMAIN inbox[r] : inbox[r][k] = Nothing \/ inbox[r][k].of = r
    BY DEF IInv, InboxInv, AllSensible, Sensible
  <2>2. ASSUME inbox[r] # <<>>, ~Streams(r)
        PROVE  Len(inbox[r]) = 1
    <3>1. Arrived(r)
      BY <2>2 DEF IInv, PlaceInv
    <3>2. Len(inbox[r]) <= 1
      BY <2>2, <3>1 DEF IInv, InboxInv
    <3>3. Len(inbox[r]) \in Nat /\ Len(inbox[r]) # 0
      BY <2>2, TypeFacts, LenProperties, EmptySeq DEF IInv
    <3> DEFINE l == Len(inbox[r])
    <3> HIDE DEF l
    <3>4. l <= 1 /\ l \in Nat /\ l # 0
      BY <3>2, <3>3 DEF l
    <3>5. l = 1
      BY <3>4
    <3>6. QED
      BY <3>5 DEF l
  <2>3. QED
    BY <2>1, <2>2
<1>2. QED
  BY <1>1, Invariance, PTL

(* A request that arrived is, once, in exactly one of the queue, the pool, *)
(* the running batch and the answered ones, and shares a batch only with   *)
(* requests of its configuration, never more than max_batch_size of them.  *)
THEOREM OnePlaceAlways == Spec => []OnePlace
<1>1. IInv => OnePlace
  <2> SUFFICES ASSUME IInv PROVE OnePlace
    OBVIOUS
  <2> DEFINE In(r, p) == \/ p = "queue" /\ Queued(r)
                         \/ p = "pool" /\ Pooled(r)
                         \/ p = "batch" /\ Batched(r)
                         \/ p = "answered" /\ Answered(r)
             Places4(r) == {p \in {"queue", "pool", "batch", "answered"} : In(r, p)}
  <2>1. ASSUME NEW r \in Requests, Arrived(r)
        PROVE  Cardinality(Places4(r)) = 1
    <3>1. /\ ~(Queued(r) /\ Pooled(r))
          /\ ~(Queued(r) /\ Batched(r))
          /\ ~(Pooled(r) /\ Batched(r))
          /\ Answered(r) <=> ~Queued(r) /\ ~Pooled(r) /\ ~Batched(r)
      BY <2>1 DEF IInv, PlaceInv, Answered
    <3>2. \E p : Places4(r) = {p}
      <4>1. CASE Queued(r)
        <5>1. Places4(r) = {"queue"}
          BY <3>1, <4>1
        <5>2. QED
          BY <5>1
      <4>2. CASE Pooled(r)
        <5>1. Places4(r) = {"pool"}
          BY <3>1, <4>2
        <5>2. QED
          BY <5>1
      <4>3. CASE Batched(r)
        <5>1. Places4(r) = {"batch"}
          BY <3>1, <4>3
        <5>2. QED
          BY <5>1
      <4>4. CASE Answered(r)
        <5>1. Places4(r) = {"answered"}
          BY <3>1, <4>4
        <5>2. QED
          BY <5>1
      <4>5. QED
        BY <3>1, <4>1, <4>2, <4>3, <4>4
    <3> HIDE DEF Places4
    <3>3. QED
      BY <3>2, FS_Singleton
  <2>2. IsInjective(queue) /\ IsInjective(batch.rows)
    <3>1. Increasing(queue) /\ queue \in Seq(Requests) /\ batch.rows \in Seq(Requests)
      BY TypeFacts DEF IInv, QueueInv
    <3>2. Increasing(batch.rows)
      BY NoBatchType DEF IInv, BatchInv, Increasing
    <3>3. QED
      BY <3>1, <3>2, RequestsType, IncreasingInjective
  <2>3. \A i, j \in DOMAIN taskPool : i # j => taskPool[i].config # taskPool[j].config
    BY DEF IInv, PoolInv
  <2>4. ASSUME NEW i \in DOMAIN taskPool
        PROVE  /\ taskPool[i].data # <<>> /\ IsInjective(taskPool[i].data)
               /\ \A r \in ToSet(taskPool[i].data) :
                    kwargs[r].config = taskPool[i].config
    BY EntryFacts, RequestsType, IncreasingInjective
  <2>5. \A r, q \in ToSet(batch.rows) : kwargs[r].config = kwargs[q].config
    <3>1. CASE batch.state = "idle"
      BY <3>1, IdleBatch DEF Batched
    <3>2. CASE batch.state # "idle"
      BY <3>2 DEF IInv, BatchInv, OfOneKind
    <3>3. QED
      BY <3>1, <3>2
  <2>6. engine.max_batch_size > 0 => Len(batch.rows) <= engine.max_batch_size
    BY DEF IInv, BatchInv
  <2>7. QED
    BY <2>1, <2>2, <2>3, <2>4, <2>5, <2>6 DEF OnePlace, Arrived
<1>2. QED
  BY <1>1, Invariance, PTL

(* A request is never put into a batch while an earlier one of its         *)
(* configuration still waits, whatever else is sorted in between.          *)
THEOREM NoOvertakingAlways == Spec => []NoOvertaking
<1>1. IInv => NoOvertaking
  BY DEF IInv
<1>2. QED
  BY <1>1, Invariance, PTL

(* Every answer was generated under the adapter of the request itself or   *)
(* of an earlier one of its configuration, never under one that was only   *)
(* loaded before.                                                          *)
THEOREM AdapterOfEntryAlways == Spec => []AdapterOfEntry
<1>1. IInv => AdapterOfEntry
  <2> SUFFICES ASSUME IInv, NEW r \in Requests, NEW k \in DOMAIN inbox[r],
                      inbox[r][k] \in Replies
               PROVE  \E q \in Peers(r) \cup {r} :
                        q <= r /\ inbox[r][k].adapter = kwargs[q].adapter
    BY DEF AdapterOfEntry
  <2>1. Sensible(r, inbox[r][k])
    BY DEF IInv, InboxInv, AllSensible
  <2>2. PICK q \in Requests :
            /\ q <= r /\ Arrived(q) /\ kwargs[q].config = kwargs[r].config
            /\ inbox[r][k].adapter = kwargs[q].adapter
    BY <2>1 DEF Sensible
  <2>3. q \in Peers(r) \cup {r}
    BY <2>2 DEF Peers, Arrived
  <2>4. QED
    BY <2>2, <2>3
<1>2. QED
  BY <1>1, Invariance, PTL

(* A stream that never shared its batch is whole when its handler gets the *)
(* None that ends it: the item before is its last piece, or the exception  *)
(* of its encoding.                                                        *)
THEOREM WholeUnlessSharedAlways == Spec => []WholeUnlessShared
<1>1. IInv => WholeUnlessShared
  <2> SUFFICES ASSUME IInv, NEW r \in Requests, Arrived(r), Streams(r), Done(r),
                      Alone(r)
               PROVE  /\ LastGot(r) > 0
                      /\ inbox[r][LastGot(r)].kind \in {"last", "error"}
    BY DEF WholeUnlessShared, Arrived, Alone
  <2> DEFINE n == Len(inbox[r])
  <2>1. n \in Nat /\ DOMAIN inbox[r] = 1..n
    BY TypeFacts, LenProperties DEF IInv
  <2>2. PICK end \in DOMAIN inbox[r] : inbox[r][end] = Nothing
    BY DEF Done, Ends
  <2>3. inbox[r] # <<>> /\ ~Unended(inbox[r])
    BY <2>2 DEF Unended
  <2>4. WholeAt(r)
    BY DEF IInv, WholeInv
  <2>5. ~Batched(r)
    <3>1. ASSUME Batched(r)
          PROVE  FALSE
      <4>1. batch.state # "idle"
        BY <3>1, IdleBatch
      <4>2. batch.state # "encode"
        BY <2>3, <3>1 DEF IInv, PlaceInv
      <4>3. batch.state \in {"stream", "last"}
        BY <4>1, <4>2, TypeFacts DEF IInv
      <4>4. QED
        BY <2>3, <2>4, <3>1, <4>3 DEF WholeAt
    <3>2. QED
      BY <3>1
  <2>6. /\ LastAt(inbox[r], n - 1)
        /\ \A k \in DOMAIN inbox[r] : inbox[r][k] = Nothing <=> k = n
    BY <2>3, <2>4, <2>5 DEF WholeAt, Answered
  <2>7. n \in DOMAIN inbox[r] /\ Ends(r) = {n}
    BY <2>2, <2>6 DEF Ends
  <2> HIDE DEF n
  <2>8. Min({n}) = n
    <3>1. \E x \in {n} : \A y \in {n} : x <= y
      BY <2>1
    <3>2. QED
      BY <3>1 DEF Min
  <2>9. LastGot(r) = n - 1
    BY <2>7, <2>8 DEF LastGot
  <2>10. QED
    BY <2>1, <2>6, <2>9 DEF LastAt
<1>2. QED
  BY <1>1, Invariance, PTL

=============================================================================
