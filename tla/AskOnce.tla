------------------------------- MODULE AskOnce -------------------------------
(***************************************************************************)
(* What the gravity lookups promise, whatever threads carry them out: each  *)
(* domain is unasked, pending or done; at most Cap checks run at a time, at *)
(* most one per domain and only of a pending one; a settled answer is kept  *)
(* for the life of the process ("ask once, cache indefinitely").            *)
(***************************************************************************)
EXTENDS Integers, FiniteSets

CONSTANTS Domain, Cap

VARIABLES
    state,      \* "none", "PENDING" or "DONE" for each domain
    running     \* the domains with a check under way

avars == <<state, running>>

Init ==
    /\ state = [d \in Domain |-> "none"]
    /\ running = {}

Claim(d) ==
    /\ state[d] = "none"
    /\ state' = [state EXCEPT ![d] = "PENDING"]
    /\ running' = running

Start(d) ==
    /\ state[d] = "PENDING" /\ d \notin running
    /\ Cardinality(running) < Cap
    /\ running' = running \cup {d}
    /\ state' = state

\* A claim no check was started for is dropped.
GiveUp(d) ==
    /\ state[d] = "PENDING" /\ d \notin running
    /\ state' = [state EXCEPT ![d] = "none"]
    /\ running' = running

\* A check ends, with an answer or without.
Settle(d) ==
    /\ d \in running
    /\ state[d] = "PENDING"
    /\ \E s \in {"none", "DONE"} : state' = [state EXCEPT ![d] = s]
    /\ running' = running \ {d}

Next == \E d \in Domain : Claim(d) \/ Start(d) \/ GiveUp(d) \/ Settle(d)

Spec == Init /\ [][Next]_avars
=============================================================================
