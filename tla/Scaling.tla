------------------------------- MODULE Scaling -------------------------------
(***************************************************************************)
(* event_replicator.py, scale_quantity: the size of a follower's order.    *)
(* The ratio is the fraction Num / Den; products of floats that fall on    *)
(* the other side of a half are left out.                                  *)
(***************************************************************************)
EXTENDS Integers

\* round half up, at least one contract
Scale(q, ratio) ==
    LET rounded == (2 * q * ratio[1] + ratio[2]) \div (2 * ratio[2])
    IN  IF q <= 0 THEN q ELSE IF rounded >= 1 THEN rounded ELSE 1

\* a trade of the source as the follower trades it; q < 0 sells
Scaled(q, ratio) == IF q < 0 THEN -Scale(-q, ratio) ELSE Scale(q, ratio)

=============================================================================
