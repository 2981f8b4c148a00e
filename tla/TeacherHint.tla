---------------------------- MODULE TeacherHint ----------------------------
(***************************************************************************)
(* What the teacher is shown of a target, and told of it: the image that   *)
(* mask_processor makes of a screenshot, and the answer that is put into   *)
(* its prompt.  Horizontally and vertically it is the same arithmetic,     *)
(* so that the definitions are about one axis: an image of `size' pixels,  *)
(* and a target from pixel lo up to hi, without hi.                        *)
(*                                                                         *)
(* Source: swift/rlhf_trainers/opsd_trainer.py.                            *)
(***************************************************************************)
EXTENDS Integers

IsTarget(lo, hi, size) == 0 <= lo /\ lo < hi /\ hi <= size

AtLeast(a, b) == IF a < b THEN b ELSE a
AtMost(a, b) == IF a > b THEN b ELSE a

Centre(lo, hi) == (lo + hi) \div 2

-----------------------------------------------------------------------------
(* The region that is not black reaches `pad' pixels from the centre, as   *)
(* far as the image goes.                                                  *)

\* Mode zoom_in.
ZoomPad(size) == size \div 4

\* Mode adaptive: opsd_zoom_ratio (a fraction, num / den) times the target,
\* and no less than minHalf, which opsd_min_area_frac gives.
AdaptivePad(lo, hi, num, den, minHalf) ==
    AtLeast(((hi - lo) * num) \div den, minHalf)

From(lo, hi, pad) == AtLeast(0, Centre(lo, hi) - pad)
To(lo, hi, size, pad) == AtMost(size, Centre(lo, hi) + pad)

Shown(p, lo, hi, size, pad) == From(lo, hi, pad) <= p /\ p < To(lo, hi, size, pad)

-----------------------------------------------------------------------------
(* The green frame: a rectangle drawn LineWidth pixels outside the target, *)
(* whose lines are LineWidth thick, towards its inside.                    *)

LineWidth == 5

InFrame(p, lo, hi) ==
    \/ p \in (lo - LineWidth) .. (lo - 1)
    \/ p \in (hi + 1) .. (hi + LineWidth)

\* Of a pixel at column x and row y.
Framed(x, y, left, right, top, bottom) ==
    /\ x \in (left - LineWidth) .. (right + LineWidth)
    /\ y \in (top - LineWidth) .. (bottom + LineWidth)
    /\ InFrame(x, left, right) \/ InFrame(y, top, bottom)

-----------------------------------------------------------------------------
(* The answer of hint mode gt, in thousandths of the image: of floating    *)
(* point numbers, so that what is a whole number of thousandths may come   *)
(* out as the one below it.                                                *)

IsThousandth(t, x, size) ==
    /\ t \in Nat
    /\ t * size <= x * 1000
    /\ x * 1000 <= (t + 1) * size

Answer(first, last) == (first + last) \div 2

=============================================================================
