--------------------------- MODULE MCDataFeeding ---------------------------
(***************************************************************************)
(* Streams of which the last round is short, empty, or all there is; with  *)
(* samples that cannot be encoded, strictly and not; datasets of known     *)
(* length that do not divide into ranks and batches, packed, shuffled and  *)
(* grouped by length.                                                      *)
(***************************************************************************)
EXTENDS DataFeeding

S(n) == [length |-> n, error |-> "none"]
TooLong == [length |-> 0, error |-> "too long"]
Broken == [length |-> 0, error |-> "other"]

Stream(samples, batchSize, isStrict) ==
    [streaming |-> TRUE, packing |-> TRUE, shuffle |-> FALSE,
     groupByLength |-> FALSE, dropLast |-> FALSE, strict |-> isStrict,
     batchSize |-> batchSize, dataset |-> samples]

Dealt(samples, batchSize, shuffle, byLength, dropLast) ==
    [streaming |-> FALSE, packing |-> FALSE, shuffle |-> shuffle,
     groupByLength |-> byLength, dropLast |-> dropLast, strict |-> FALSE,
     batchSize |-> batchSize, dataset |-> samples]

Packed(samples, batchSize, shuffle) ==
    [Dealt(samples, batchSize, shuffle, FALSE, FALSE) EXCEPT !.packing = TRUE]

MCSetups ==
    {Stream(<<S(2), S(3), Broken, S(2), S(1), S(3), S(2)>>, 1, FALSE),
     Stream(<<S(3), S(2), TooLong, S(2), S(3)>>, 1, TRUE),
     Stream(<<S(3), Broken, S(3)>>, 1, TRUE),
     Stream(<<S(3), S(3), S(2), S(2), S(3), S(3)>>, 2, FALSE),
     Stream(<<>>, 1, FALSE)}
    \cup {Dealt([k \in 1..7 |-> S(1 + (k % 3))], 2, shuffle, byLength, dropLast) :
            shuffle \in {TRUE}, byLength \in BOOLEAN, dropLast \in BOOLEAN}
    \cup {Dealt([k \in 1..5 |-> S(1)], 1, FALSE, FALSE, FALSE),
          Packed(<<S(2), S(3), S(1), S(2), S(3)>>, 1, FALSE),
          Packed(<<S(3), S(3), S(2), S(2), S(1), S(3)>>, 1, TRUE)}

\* Permutations that differ from seed to seed.
MCShuffled(s, n) ==
    LET times == IF n % 2 = 0 THEN n - 1 ELSE 2
    IN  [k \in 1..n |-> 1 + ((k * times + 2 * s) % n)]

=============================================================================
