---------------------------- MODULE TokenWeights ----------------------------
(***************************************************************************)
(* The weights of the tokens of a response in the distillation loss.  A    *)
(* digit counts the more the higher its place in its number: the last one  *)
(* 1, the one before it 2, and so on up to a limit.  compute_loss finds    *)
(* the numbers by scanning the tokens for runs of digits; what the weights *)
(* are is said below without a scan, from each digit's right neighbour.    *)
(*                                                                         *)
(* Source: swift/rlhf_trainers/opsd_trainer.py, compute_loss               *)
(***************************************************************************)
EXTENDS Integers

CONSTANTS
    Tokens,         \* the number of tokens
    MaxDigitLen,    \* args.opsd_max_digit_len; 0 is no limit
    OtherWeight     \* args.opsd_non_digit_weight

VARIABLES
    digit,          \* which tokens are digits
    i, j,           \* where the scan is, and the end of the run it is in
    scanning,       \* it is in the inner loop
    weight          \* the weights so far

scanVars == <<digit, i, j, scanning, weight>>

Least(a, b) == IF a < b THEN a ELSE b

ScanInit ==
    /\ digit \in [1..Tokens -> BOOLEAN]
    /\ i = 1
    /\ j = 1
    /\ scanning = FALSE
    /\ weight = [p \in 1..Tokens |-> OtherWeight]

IsDigit(p) == p <= Tokens /\ digit[p]

Skip ==
    /\ ~scanning /\ i <= Tokens /\ ~IsDigit(i)
    /\ i' = i + 1
    /\ UNCHANGED <<digit, j, scanning, weight>>

EnterRun ==
    /\ ~scanning /\ i <= Tokens /\ IsDigit(i)
    /\ j' = i
    /\ scanning' = TRUE
    /\ UNCHANGED <<digit, i, weight>>

Extend ==
    /\ scanning /\ IsDigit(j)
    /\ j' = j + 1
    /\ UNCHANGED <<digit, i, scanning, weight>>

(* The run is i .. j - 1. *)
WeighRun ==
    LET N == j - i
        effective == IF MaxDigitLen > 0 THEN Least(N, MaxDigitLen) ELSE N
    IN  /\ scanning /\ ~IsDigit(j)
        /\ weight' = [p \in 1..Tokens |->
                        IF p \in i..j - 1 THEN Least(j - p, effective)
                                          ELSE weight[p]]
        /\ i' = j
        /\ scanning' = FALSE
        /\ UNCHANGED <<digit, j>>

ScanNext == Skip \/ EnterRun \/ Extend \/ WeighRun

ScanSpec == ScanInit /\ [][ScanNext]_scanVars

-----------------------------------------------------------------------------
Capped(w) == IF MaxDigitLen > 0 THEN Least(w, MaxDigitLen) ELSE w

(* What a token's weight is, given its right neighbour's. *)
Weighed(p) ==
    weight[p] = IF ~digit[p] THEN OtherWeight
                ELSE IF IsDigit(p + 1) THEN Capped(weight[p + 1] + 1)
                ELSE 1

ScanDone == ~scanning /\ i > Tokens

(* When the scan has ended every token has its weight: the units digit of  *)
(* every number 1, each digit before it one more than its right neighbour  *)
(* up to the limit, and what is no digit the weight of other tokens. *)
AllWeighed == ScanDone => \A p \in 1..Tokens : Weighed(p)

=============================================================================
