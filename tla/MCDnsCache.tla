----------------------------- MODULE MCDnsCache ------------------------------
(***************************************************************************)
(* Values for the constants of DnsCache: three names for two slots, so that *)
(* the table fills up, and a clock that passes its wrap.                    *)
(***************************************************************************)
EXTENDS DnsCache, TLC

CONSTANTS n1, n2, n3, block, allow, r1, r2

Symmetry == Permutations(Reader) \cup Permutations(Verdict)
=============================================================================
