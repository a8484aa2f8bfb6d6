----------------------------- MODULE RateLimiter -----------------------------
(***************************************************************************)
(* rate_limit_allow of nyet.c: a token bucket for each source address, kept *)
(* in a table indexed by a hash of the address, under one bucket for all    *)
(* traffic.  A call reads the clock first and then takes g_rl_lock for the   *)
(* rest, so it is two steps: between them other workers may come in with a  *)
(* later time, and leave the buckets dated ahead of the one in hand.        *)
(*                                                                          *)
(* The clock is time(NULL), which the user or NTP may set back.  A refill   *)
(* is (int)(now - last_refill) * rate, negative when now is the earlier; it *)
(* is taken to fit an int, which it does unless the limiter rests for       *)
(* longer than 2^31 / GlobalRefillPerSec seconds (124 days).                *)
(***************************************************************************)
EXTENDS Integers

CONSTANTS
    Thread,             \* the worker threads that call
    Source,             \* client addresses
    Nobody,             \* the address of an entry never used
    Slot,               \* indices of g_rl_table
    SlotOf,             \* Source -> Slot: src_ip % RL_BUCKETS
    MaxTokens,          \* RL_MAX_TOKENS
    RefillPerSec,       \* RL_REFILL_PER_SEC
    GlobalMaxTokens,    \* RL_GLOBAL_MAX_TOKENS
    GlobalRefillPerSec, \* RL_GLOBAL_REFILL_PER_SEC
    MaxTime,            \* bound: seconds the clock may show
    MaxSetBack          \* bound: times the clock may be set back

ASSUME RateAssumption ==
    /\ Nobody \notin Source
    /\ SlotOf \in [Source -> Slot]
    /\ MaxTokens \in Nat \ {0} /\ RefillPerSec \in Nat
    /\ GlobalMaxTokens \in Nat \ {0} /\ GlobalRefillPerSec \in Nat
    /\ MaxTime \in Nat /\ MaxSetBack \in Nat

VARIABLES
    now,        \* the clock
    latest,     \* the latest time it has shown (history)
    setbacks,   \* how often it was set back (bound)
    call,       \* call[w]: the call worker w is in, with the time it has read
    table,      \* g_rl_table
    tokens,     \* g_rl_global_tokens
    last,       \* g_rl_global_last_refill
    admitted,   \* queries let through for each source (history)
    passed      \* queries let through (history)

clock     == <<now, latest, setbacks>>
rate_vars == <<clock, call, table, tokens, last, admitted, passed>>

\* A bucket never holds more than its burst.
AtMost(n) == {k \in Int : k <= n}

Entry  == [ip : Source \cup {Nobody}, tokens : AtMost(MaxTokens),
           last_refill : Int]

\* A call of rate_limit_allow; at: its local variable now.
Call   == [src : Source \cup {Nobody}, at : Nat]
NoCall == [src |-> Nobody, at |-> 0]

RateInit ==
    /\ now = 0 /\ latest = 0 /\ setbacks = 0
    /\ call = [w \in Thread |-> NoCall]
    /\ table = [i \in Slot |-> [ip |-> Nobody, tokens |-> 0, last_refill |-> 0]]
    /\ tokens = GlobalMaxTokens /\ last = now
    /\ admitted = [s \in Source |-> 0] /\ passed = 0

-----------------------------------------------------------------------------
\* A bucket of t tokens last refilled at time l, topped up at time at but never
\* beyond max.
Refilled(t, l, at, rate, max) ==
    LET sum == t + (at - l) * rate
    IN  IF at = l THEN t ELSE IF sum > max THEN max ELSE sum

GlobalTokens(at) == Refilled(tokens, last, at, GlobalRefillPerSec, GlobalMaxTokens)

\* The lock is taken: the call of w goes on for source s with time at, and ends.
Locked(w, s, at) ==
    /\ call[w] = [src |-> s, at |-> at]
    /\ call' = [call EXCEPT ![w] = NoCall]

-----------------------------------------------------------------------------
(***************************************************************************)
(* Slips that an edit could make.  They are not part of the specification:  *)
(* each takes the place of a definition below when a property is tested for *)
(* being able to fail.                                                      *)
(***************************************************************************)
\* A source that finds its slot taken starts over; one that finds its own entry
\* is refilled but the entry is not dated.
EntryUndated(s, at) ==
    LET e == table[SlotOf[s]]
        sum == e.tokens + (at - e.last_refill) * RefillPerSec
    IN  IF e.ip # s THEN [ip |-> s, last_refill |-> at, tokens |-> MaxTokens]
        ELSE [e EXCEPT !.tokens = IF sum > MaxTokens THEN MaxTokens ELSE sum]

\* Only the source's own bucket pays.
AdmitForFree(w, s, at) ==
    /\ Locked(w, s, at)
    /\ tokens > 0
    /\ table[SlotOf[s]].ip = s => table[SlotOf[s]].tokens > 0
    /\ table' = [table EXCEPT ![SlotOf[s]] =
                   [ip |-> s, last_refill |-> at,
                    tokens |-> IF @.ip = s THEN @.tokens - 1 ELSE MaxTokens - 1]]
    /\ admitted' = [admitted EXCEPT ![s] = @ + 1]
    /\ passed' = passed + 1
    /\ UNCHANGED <<clock, tokens, last>>

\* The source's own bucket is charged also for what it drops.
DropCharged(w, s, at) ==
    LET e == table[SlotOf[s]]
    IN  /\ Locked(w, s, at)
        /\ GlobalTokens(at) > 0 /\ e.ip = s
        /\ Refilled(e.tokens, e.last_refill, at, RefillPerSec, MaxTokens) <= 0
        /\ tokens' = GlobalTokens(at) /\ last' = at
        /\ table' = [table EXCEPT ![SlotOf[s]].last_refill = at,
                                  ![SlotOf[s]].tokens =
               Refilled(@, e.last_refill, at, RefillPerSec, MaxTokens) - 1]
        /\ UNCHANGED <<clock, admitted, passed>>

-----------------------------------------------------------------------------
\* The entry that answers for source s: its own, refilled, or a fresh one that
\* takes the slot over.
EntryFor(s, at) ==
    LET e == table[SlotOf[s]]
    IN  [ip |-> s, last_refill |-> at,
         tokens |-> IF e.ip = s
                    THEN Refilled(e.tokens, e.last_refill, at, RefillPerSec, MaxTokens)
                    ELSE MaxTokens]

\* time(NULL) is read before the lock is taken.
ReadClock(w, s) ==
    /\ call[w] = NoCall
    /\ call' = [call EXCEPT ![w] = [src |-> s, at |-> now]]
    /\ UNCHANGED <<clock, table, tokens, last, admitted, passed>>

\* The aggregate budget is spent: dropped before the table is touched.
DropGlobally(w, s, at) ==
    /\ Locked(w, s, at)
    /\ GlobalTokens(at) <= 0
    /\ tokens' = GlobalTokens(at) /\ last' = at
    /\ UNCHANGED <<clock, table, admitted, passed>>

\* The source's own budget is spent.
DropSource(w, s, at) ==
    /\ Locked(w, s, at)
    /\ GlobalTokens(at) > 0 /\ EntryFor(s, at).tokens <= 0
    /\ tokens' = GlobalTokens(at) /\ last' = at
    /\ table' = [table EXCEPT ![SlotOf[s]] = EntryFor(s, at)]
    /\ UNCHANGED <<clock, admitted, passed>>

\* A token is taken from both.
Admit(w, s, at) ==
    /\ Locked(w, s, at)
    /\ GlobalTokens(at) > 0 /\ EntryFor(s, at).tokens > 0
    /\ tokens' = GlobalTokens(at) - 1 /\ last' = at
    /\ table' = [table EXCEPT ![SlotOf[s]] =
                   [EntryFor(s, at) EXCEPT !.tokens = @ - 1]]
    /\ admitted' = [admitted EXCEPT ![s] = @ + 1]
    /\ passed' = passed + 1
    /\ UNCHANGED clock

Tick ==
    /\ now < MaxTime
    /\ now' = now + 1
    /\ latest' = IF now' > latest THEN now' ELSE latest
    /\ UNCHANGED <<setbacks, call, table, tokens, last, admitted, passed>>

SetBack ==
    /\ setbacks < MaxSetBack
    /\ setbacks' = setbacks + 1
    /\ now' \in 0 .. now - 1
    /\ UNCHANGED <<latest, call, table, tokens, last, admitted, passed>>

RateNext ==
    \/ \E w \in Thread, s \in Source :
         \/ ReadClock(w, s)
         \/ \E at \in 0 .. latest :
              DropGlobally(w, s, at) \/ DropSource(w, s, at) \/ Admit(w, s, at)
    \/ Tick \/ SetBack

RateSpec == RateInit /\ [][RateNext]_rate_vars

-----------------------------------------------------------------------------
(***************************************************************************)
(* Properties.                                                              *)
(***************************************************************************)
\* Every variable has its type.
RateTypeOK ==
    /\ now \in Nat /\ latest \in Nat /\ now <= latest
    /\ setbacks \in Nat
    /\ call \in [Thread -> Call] /\ \A w \in Thread : call[w].at <= latest
    /\ table \in [Slot -> Entry]
    /\ tokens \in AtMost(GlobalMaxTokens) /\ last \in Int
    /\ admitted \in [Source -> Nat] /\ passed \in Nat

\* However its queries are timed and the clock is set back and forth, a source
\* that shares its slot with no other gets no more through than its burst and
\* its rate over the time the clock has covered (RL_MAX_TOKENS, "burst
\* allowance", and RL_REFILL_PER_SEC, "steady-state queries/sec per source IP").
Alone(s) == \A r \in Source : SlotOf[r] = SlotOf[s] => r = s

SourceBound(s) == admitted[s] <= MaxTokens + RefillPerSec * latest

SourceRate == \A s \in Source : Alone(s) => SourceBound(s)

\* The same for all sources together, whatever slots they share: the flood
\* "spread across many distinct source IPs" is capped.
GlobalRate == passed <= GlobalMaxTokens + GlobalRefillPerSec * latest

\* Workers that race over a second's boundary, and a clock that is set back, put
\* buckets in debt, where they would drop the queries of a quiet source.  No debt
\* outlives the race: a call that gets its turn with the latest time the clock has
\* shown finds no bucket below zero (RL_REFILL_PER_SEC, "steady-state").
Healed(t, l, rate, max) == Refilled(t, l, latest, rate, max) \in 0 .. max

DebtsHeal ==
    /\ Healed(tokens, last, GlobalRefillPerSec, GlobalMaxTokens)
    /\ \A i \in Slot :
         table[i].ip # Nobody =>
             Healed(table[i].tokens, table[i].last_refill, RefillPerSec, MaxTokens)
=============================================================================
