----------------------------- MODULE VerdictMap ------------------------------
(***************************************************************************)
(* What check_domain may rely on in its verdict cache: a map from names to  *)
(* verdicts that never makes one up and may forget any of them at any time. *)
(* It is how Proxy uses query_cache, and what DnsCache implements.          *)
(***************************************************************************)
CONSTANTS
    Domain,     \* names
    Verdict,    \* what is cached for a name
    None,       \* no verdict
    Caller      \* threads that look names up

VARIABLES
    map,        \* the verdict stored for each name, or None
    newest,     \* the verdict that was last stored for each name
    answer      \* what each caller's lookup under way has been told, as a pair
                \* of a name and a verdict; None if it has been told nothing

mvars == <<map, newest, answer>>

NothingStored == [d \in Domain |-> None]

MInit ==
    /\ map = NothingStored /\ newest = NothingStored
    /\ answer = [c \in Caller |-> None]

\* A lookup is told what is stored, and later returns it.  (One that is told
\* nothing, whatever is stored, changes nothing.)
Tell(c, d) ==
    /\ answer[c] = None /\ map[d] # None
    /\ answer' = [answer EXCEPT ![c] = <<d, map[d]>>]
    /\ UNCHANGED <<map, newest>>

Return(c) ==
    /\ answer[c] # None
    /\ answer' = [answer EXCEPT ![c] = None]
    /\ UNCHANGED <<map, newest>>

\* A verdict is stored, and any others may be forgotten.
Put(d, v) ==
    /\ map' \in [Domain -> Verdict \cup {None}]
    /\ map'[d] = v /\ newest' = [newest EXCEPT ![d] = v]
    /\ \A x \in Domain \ {d} : map'[x] \in {map[x], None}
    /\ UNCHANGED answer

\* Any verdicts are forgotten.
Forget ==
    /\ map' \in [Domain -> Verdict \cup {None}]
    /\ \A x \in Domain : map'[x] \in {map[x], None}
    /\ UNCHANGED <<newest, answer>>

MNext ==
    \/ \E c \in Caller : Return(c) \/ \E d \in Domain : Tell(c, d)
    \/ \E d \in Domain, v \in Verdict : Put(d, v)
    \/ Forget

MSpec == MInit /\ [][MNext]_mvars
=============================================================================
