------------------------------- MODULE Upstream ------------------------------
(***************************************************************************)
(* Forwarding in process_request: each worker sends the client's query from *)
(* a socket of its own to the preferred resolver, waits, tries the other    *)
(* one, and makes that one preferred if it answers.                         *)
(*                                                                          *)
(* A worker's socket lives as long as the worker, so replies that come after *)
(* it has stopped waiting are there when it next waits.  The network may    *)
(* lose, duplicate, delay and reorder replies.  A reply that is too long for *)
(* the buffer makes recvfrom fail and is as good as lost.                   *)
(***************************************************************************)
EXTENDS Integers, Sequences, FiniteSets

CONSTANTS
    Worker,         \* the IOCP worker threads
    Id,             \* DNS transaction IDs, chosen by the clients
    Question,       \* what is asked
    None,           \* nothing
    Networks,       \* the sets of resolvers that can be reached at once
    RecvBuffer,     \* replies a socket holds; the next one is lost
    MaxQueries,     \* bound: queries forwarded
    MaxMoves        \* bound: changes of network

Resolver == {0, 1}      \* UPSTREAM_WG, UPSTREAM_HOME

ASSUME UpstreamAssumption ==
    /\ None \notin Id \cup Question
    /\ Networks # {} /\ Networks \subseteq SUBSET Resolver
    /\ RecvBuffer \in Nat \ {0}
    /\ MaxQueries \in Nat /\ MaxMoves \in Nat

VARIABLES
    preferred,      \* preferred_upstream
    reachable,      \* the resolvers that can be reached from here
    moves, queries, \* how many changes and queries there were (bounds)
    wire,           \* replies on their way
    buffer,         \* replies in each worker's socket
    pc, query,      \* where each worker is, and its query
    asked           \* the <<id, question>> pairs each worker has sent (history)

network == <<reachable, moves, wire>>
vars == <<preferred, network, queries, buffer, pc, query, asked>>

\* question: the one it answers.
Reply == [to : Worker, from : Resolver, id : Id, question : Question]

\* primary: the resolver tried first; late: the deadline of the present wait has
\* passed; from, about: who answered, and what.
Query == [id : Id \cup {None}, question : Question \cup {None},
          primary : Resolver, late : BOOLEAN,
          from : Resolver, about : Question \cup {None}]
NoQuery == [id |-> None, question |-> None, primary |-> 0, late |-> FALSE,
            from |-> 0, about |-> None]

WorkerPc == {"idle", "send_primary", "wait_primary", "send_fallback",
             "wait_fallback", "adopt", "relay"}

Init ==
    /\ preferred = 0
    /\ reachable \in Networks
    /\ moves = 0 /\ queries = 0
    /\ wire = {} /\ buffer = [w \in Worker |-> <<>>]
    /\ pc = [w \in Worker |-> "idle"] /\ query = [w \in Worker |-> NoQuery]
    /\ asked = [w \in Worker |-> {}]

-----------------------------------------------------------------------------
Goto(w, p) == pc' = [pc EXCEPT ![w] = p]

Finish(w) == Goto(w, "idle") /\ query' = [query EXCEPT ![w] = NoQuery]

Waiting(w) == pc[w] \in {"wait_primary", "wait_fallback"}

\* The resolver whose reply w waits for.
Expected(w) == IF pc[w] = "wait_primary" THEN query[w].primary ELSE 1 - query[w].primary

\* A slip: a reply is taken by its source alone.
MatchSource(w, m) == m.from = Expected(w)
\* recv_matching_reply's two checks.
Match(w, m) == m.from = Expected(w) /\ m.id = query[w].id

\* sendto resolver r: what can be reached may answer.
Send(w, r) ==
    wire' \in {wire} \cup
        IF r \in reachable
        THEN {wire \cup {[to |-> w, from |-> r, id |-> query[w].id,
                          question |-> query[w].question]}}
        ELSE {}

\* The wait ends without a reply: the fallback is tried, or the client gets none.
GiveUp(w) ==
    IF pc[w] = "wait_primary" THEN Goto(w, "send_fallback") /\ query' = query
                              ELSE Finish(w)

-----------------------------------------------------------------------------
(***************************************************************************)
(* Slips that an edit could make: each takes the place of a definition below *)
(* when a property is tested for being able to fail.                        *)
(***************************************************************************)
\* The preference is flipped instead of set.
AdoptFlipped(w) ==
    /\ pc[w] = "adopt"
    /\ preferred' = 1 - preferred
    /\ Goto(w, "relay")
    /\ UNCHANGED <<network, queries, buffer, query, asked>>

\* The deadline is only looked at when there is nothing to read.
DiscardAlways(w) ==
    /\ Waiting(w) /\ buffer[w] # <<>> /\ ~Match(w, Head(buffer[w]))
    /\ buffer' = [buffer EXCEPT ![w] = Tail(@)]
    /\ UNCHANGED <<preferred, network, queries, pc, query, asked>>

-----------------------------------------------------------------------------
(***************************************************************************)
(* Workers: process_request from the upstream socket on.                    *)
(***************************************************************************)
\* A query that was not blocked and not in the answer cache, and a socket to
\* send it from (without one the client gets no reply).
Forward(w) ==
    /\ pc[w] = "idle" /\ queries < MaxQueries
    /\ queries' = queries + 1
    /\ \E i \in Id, q \in Question :
         /\ query' = [query EXCEPT ![w] = [NoQuery EXCEPT !.id = i, !.question = q]]
         /\ asked' = [asked EXCEPT ![w] = @ \cup {<<i, q>>}]
    /\ Goto(w, "send_primary")
    /\ UNCHANGED <<preferred, network, buffer>>

SendPrimary(w) ==
    /\ pc[w] = "send_primary"
    /\ query' = [query EXCEPT ![w].primary = preferred]
    /\ Send(w, preferred)
    /\ Goto(w, "wait_primary")
    /\ UNCHANGED <<preferred, reachable, moves, queries, buffer, asked>>

SendFallback(w) ==
    /\ pc[w] = "send_fallback"
    /\ query' = [query EXCEPT ![w].late = FALSE]
    /\ Send(w, 1 - query[w].primary)
    /\ Goto(w, "wait_fallback")
    /\ UNCHANGED <<preferred, reachable, moves, queries, buffer, asked>>

\* recv_matching_reply: a reply to this query, however late.
Accept(w) ==
    /\ Waiting(w) /\ buffer[w] # <<>> /\ Match(w, Head(buffer[w]))
    /\ buffer' = [buffer EXCEPT ![w] = Tail(@)]
    /\ query' = [query EXCEPT ![w].from = Head(buffer[w]).from,
                              ![w].about = Head(buffer[w]).question,
                              ![w].late = FALSE]
    /\ Goto(w, IF pc[w] = "wait_primary" THEN "relay" ELSE "adopt")
    /\ UNCHANGED <<preferred, network, queries, asked>>

\* recv_matching_reply: another one is thrown away, and the deadline checked.
Discard(w) ==
    /\ Waiting(w) /\ buffer[w] # <<>> /\ ~Match(w, Head(buffer[w]))
    /\ buffer' = [buffer EXCEPT ![w] = Tail(@)]
    /\ IF query[w].late THEN GiveUp(w) ELSE UNCHANGED <<pc, query>>
    /\ UNCHANGED <<preferred, network, queries, asked>>

\* recv_matching_reply: a poll interval without a reply, after the deadline.
TimeOut(w) ==
    /\ Waiting(w) /\ buffer[w] = <<>> /\ query[w].late
    /\ GiveUp(w)
    /\ UNCHANGED <<preferred, network, queries, buffer, asked>>

\* "sticky: skip the timeout next time".
Adopt(w) ==
    /\ pc[w] = "adopt"
    /\ preferred' = 1 - query[w].primary
    /\ Goto(w, "relay")
    /\ UNCHANGED <<network, queries, buffer, query, asked>>

\* The reply goes to the client and, if it is one with address records, into the
\* answer cache under the name that was asked about.
Relay(w) ==
    /\ pc[w] = "relay"
    /\ Finish(w)
    /\ UNCHANGED <<preferred, network, queries, buffer, asked>>

WorkerStep(w) ==
    \/ SendPrimary(w) \/ SendFallback(w) \/ Accept(w) \/ Discard(w) \/ TimeOut(w)
    \/ Adopt(w) \/ Relay(w)

-----------------------------------------------------------------------------
(***************************************************************************)
(* The network and the clock.                                               *)
(***************************************************************************)
\* A reply arrives, and may arrive again.
Arrive ==
    \E m \in wire :
        /\ wire' \in {wire, wire \ {m}}
        /\ buffer' = IF Len(buffer[m.to]) < RecvBuffer
                     THEN [buffer EXCEPT ![m.to] = Append(@, m)] ELSE buffer
        /\ UNCHANGED <<preferred, reachable, moves, queries, pc, query, asked>>

\* The machine changes networks, between home and away.
Move ==
    /\ moves < MaxMoves
    /\ moves' = moves + 1
    /\ reachable' \in Networks \ {reachable}
    /\ UNCHANGED <<preferred, wire, queries, buffer, pc, query, asked>>

\* GetTickCount64 reaches the deadline.
Deadline(w) ==
    /\ Waiting(w) /\ ~query[w].late
    /\ query' = [query EXCEPT ![w].late = TRUE]
    /\ UNCHANGED <<preferred, network, queries, buffer, pc, asked>>

Next ==
    \/ \E w \in Worker : Forward(w) \/ WorkerStep(w) \/ Deadline(w)
    \/ Arrive \/ Move

Spec == Init /\ [][Next]_vars

\* Workers run and time passes; what the network does is left open.
Fairness == \A w \in Worker : WF_vars(WorkerStep(w)) /\ WF_vars(Deadline(w))

LiveSpec == Spec /\ Fairness

-----------------------------------------------------------------------------
(***************************************************************************)
(* Properties.                                                              *)
(***************************************************************************)
\* Every variable has its type.
TypeOK ==
    /\ preferred \in Resolver /\ reachable \in Networks
    /\ moves \in 0 .. MaxMoves /\ queries \in 0 .. MaxQueries
    /\ wire \subseteq Reply
    /\ buffer \in [Worker -> Seq(Reply)]
    /\ \A w \in Worker : Len(buffer[w]) <= RecvBuffer
    /\ pc \in [Worker -> WorkerPc] /\ query \in [Worker -> Query]
    /\ asked \in [Worker -> SUBSET (Id \X Question)]

\* Worker w has used transaction ID i for one question only.
OneUse(w, i) == \A a, b \in asked[w] : a[1] = i /\ b[1] = i => a = b

\* A reply that is relayed, and cached, answers the question of this client,
\* whatever is left in the socket from earlier ones, as long as the worker has not
\* sent two different questions under the same ID ("rather than relaying an
\* answer that isn't actually for this question").
RightAnswer ==
    \A w \in Worker :
        pc[w] \in {"adopt", "relay"} /\ OneUse(w, query[w].id)
            => query[w].about = query[w].question

\* The preference only goes to a resolver that has just answered: not to one
\* that was tried while a late reply of the other came in.
PreferenceEarned ==
    [][preferred' # preferred =>
         \E w \in Worker : pc[w] = "adopt" /\ query[w].from = preferred']_vars

\* Once the only resolver that can be reached is preferred, and nothing of the
\* other is left in the network or in a worker's hands, it stays preferred:
\* workers that fall back at the same time, without a lock, do not undo each
\* other's choice ("Never a correctness bug, just an occasional wasted retry").
Settled(r) ==
    /\ reachable = {r} /\ preferred = r
    /\ \A m \in wire : m.from = r
    /\ \A w \in Worker :
         /\ \A k \in 1 .. Len(buffer[w]) : buffer[w][k].from = r
         /\ pc[w] = "adopt" => query[w].from = r

PreferenceSettles ==
    [][\A r \in Resolver : Settled(r) => preferred' = r]_vars

\* Every forwarded query is done with, however many stale replies keep coming.
ForwardEnds == \A w \in Worker : pc[w] # "idle" ~> pc[w] = "idle"
=============================================================================
