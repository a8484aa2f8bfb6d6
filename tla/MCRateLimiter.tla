---------------------------- MODULE MCRateLimiter ----------------------------
(***************************************************************************)
(* Values for the constants of RateLimiter: three addresses, the third      *)
(* alone in its slot, or two that share one.                                *)
(***************************************************************************)
EXTENDS RateLimiter, TLC

CONSTANTS w1, w2, s1, s2, s3

TwoShare == (s1 :> 0) @@ (s2 :> 0) @@ (s3 :> 1)
Pair     == (s1 :> 0) @@ (s2 :> 0)

\* Workers, and the addresses that share a slot, are alike.
Symmetry == Permutations(Thread) \cup Permutations({s1, s2})
=============================================================================
