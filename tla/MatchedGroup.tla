---------------------------- MODULE MatchedGroup ----------------------------
(***************************************************************************)
(* calculate_matched_group of swift/dataset/packing.py.  Samples are       *)
(* positions of a dataset, of which the lengths are known; a pack is a     *)
(* sequence of samples.                                                    *)
(***************************************************************************)
EXTENDS Naturals, Sequences, FiniteSets, SequencesExt

CONSTANT PackingLength

ASSUME PackingLengthAssumption == PackingLength \in Nat \ {0}

Volume(pack, length) == FoldLeft(LAMBDA sum, s : sum + length[s], 0, pack)

-----------------------------------------------------------------------------
(***************************************************************************)
(* binpacking.to_constant_volume: the longest first, of equal ones the     *)
(* later, each into the fullest bin that has room for it, else into a bin  *)
(* of its own.                                                             *)
(***************************************************************************)
LongestFirst(samples, length) ==
    LET before(a, b) == \/ length[samples[a]] > length[samples[b]]
                        \/ length[samples[a]] = length[samples[b]] /\ a > b
        place(k) == Cardinality({j \in DOMAIN samples : before(j, k)}) + 1
    IN  [i \in DOMAIN samples |->
            samples[CHOOSE k \in DOMAIN samples : place(k) = i]]

IntoBin(bins, s, length) ==
    LET room == {b \in DOMAIN bins :
                    Volume(bins[b], length) + length[s] <= PackingLength}
        fullest == CHOOSE b \in room : \A c \in room :
                        \/ Volume(bins[c], length) < Volume(bins[b], length)
                        \/ Volume(bins[c], length) = Volume(bins[b], length)
                           /\ b <= c
    IN  IF room = {} THEN Append(bins, <<s>>)
        ELSE [bins EXCEPT ![fullest] = Append(@, s)]

ToConstantVolume(samples, length) ==
    FoldLeft(LAMBDA bins, s : IntoBin(bins, s, length), <<>>,
             LongestFirst(samples, length))

\* The packs, and the last one held back while there are samples to come.
CalculateMatchedGroup(samples, length, isFinished) ==
    LET bins == ToConstantVolume(samples, length)
    IN  IF samples = <<>> \/ isFinished
        THEN [packs |-> bins, rest |-> <<>>]
        ELSE [packs |-> Front(bins), rest |-> Last(bins)]

-----------------------------------------------------------------------------
(***************************************************************************)
(* What packing a sequence of samples round by round, `size` at a time,    *)
(* comes to when nothing runs at the same time.                            *)
(***************************************************************************)
PackInRounds(rounds, length) ==
    LET Round(state, k) ==
            LET matched == CalculateMatchedGroup(state.rest \o rounds[k],
                               length, k = Len(rounds))
            IN  [packs |-> state.packs \o matched.packs,
                 rest |-> matched.rest]
    IN  FoldLeft(Round, [packs |-> <<>>, rest |-> <<>>],
                 [k \in 1..Len(rounds) |-> k]).packs

-----------------------------------------------------------------------------
SamplesOf(packs) == UNION {ToSet(packs[k]) : k \in DOMAIN packs}

\* The packs have the samples, each at one place, and nothing else.
EachOnce(packs, samples) ==
    /\ SamplesOf(packs) = samples
    /\ \A k, l \in DOMAIN packs : \A i \in DOMAIN packs[k], j \in DOMAIN packs[l] :
            packs[k][i] = packs[l][j] => k = l /\ i = j

=============================================================================
