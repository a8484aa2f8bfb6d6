------------------------------- MODULE MCProxy -------------------------------
(***************************************************************************)
(* Values for the constants of Proxy: a domain, its subdomain, and the      *)
(* contents blocklist.tsv may have.                                         *)
(***************************************************************************)
EXTENDS Proxy, TLC

CONSTANTS parent, child, w1, w2, g1, g2

JustOne   == parent :> {parent}
Family    == (parent :> {parent}) @@ (child :> {parent, child})

Unlisted == [d \in Domain |-> "none"]
Listed(d, s) == [Unlisted EXCEPT ![d] = s]

\* One name: unlisted, blocked or allowed.
OneNameLists == {Unlisted, Listed(parent, "B"), Listed(parent, "A")}

\* A name and its subdomain, with an allow that makes an exception to a block.
FamilyLists == {Unlisted, Listed(parent, "B"),
                [Listed(parent, "B") EXCEPT ![child] = "A"]}

BlockedOrNot == {Unlisted, Listed(parent, "B")}

Symmetry == Permutations(Worker) \cup Permutations(Thread)
=============================================================================
