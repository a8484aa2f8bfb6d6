----------------------------- MODULE MCUpstream ------------------------------
(***************************************************************************)
(* Values for the constants of Upstream.                                    *)
(***************************************************************************)
EXTENDS Upstream

CONSTANTS w1, w2, i1, i2, q1, q2

HomeAndAway == {{1}, {0, 1}}
=============================================================================
