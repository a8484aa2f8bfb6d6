---------------------------- MODULE Upstream_proofs ---------------------------
(***************************************************************************)
(* Upstream, for any number of workers, IDs, questions and replies: the      *)
(* types; that a reply relayed answers the question asked; and the two       *)
(* promises of the preferred resolver.                                      *)
(*                                                                          *)
(* The strengthening says where replies come from: whatever is in the        *)
(* network, in a socket or in a worker's hands answers a question that the   *)
(* worker has asked under the ID the reply bears.  A reply with the ID of    *)
(* this query may then be about an earlier one only if the ID was used       *)
(* twice, which is the proviso of RightAnswer.                               *)
(***************************************************************************)
EXTENDS Upstream, TLAPS

Pair(m) == <<m.id, m.question>>

\* Every reply answers what its worker has asked.
Answered ==
    /\ \A m \in wire : Pair(m) \in asked[m.to]
    /\ \A w \in Worker : \A k \in 1 .. Len(buffer[w]) : Pair(buffer[w][k]) \in asked[w]

\* So does the reply in a worker's hands, which is from the resolver it waited
\* for, and the worker's query is one of those it has asked.
InHand ==
    \A w \in Worker :
        /\ pc[w] # "idle" => Pair(query[w]) \in asked[w]
        /\ pc[w] \in {"adopt", "relay"} => <<query[w].id, query[w].about>> \in asked[w]
        /\ pc[w] = "adopt" => query[w].from = 1 - query[w].primary

IInv == TypeOK /\ Answered /\ InHand

-----------------------------------------------------------------------------
(***************************************************************************)
(* Types.                                                                   *)
(***************************************************************************)
LEMMA InitType == Init => TypeOK
<1> SUFFICES ASSUME Init PROVE TypeOK
    OBVIOUS
<1>1. reachable \in Networks /\ preferred \in Resolver
    BY DEF Init, Resolver
<1>2. buffer \in [Worker -> Seq(Reply)] /\ \A w \in Worker : Len(buffer[w]) <= RecvBuffer
    BY UpstreamAssumption DEF Init
<1>3. NoQuery \in Query
    BY DEF NoQuery, Query, Resolver
<1> QED
    BY <1>1, <1>2, <1>3, UpstreamAssumption DEF Init, TypeOK, WorkerPc

\* Taking the first reply out of a socket, and putting one in behind.
LEMMA TailType ==
    ASSUME NEW s \in Seq(Reply), s # <<>>
    PROVE  /\ Tail(s) \in Seq(Reply) /\ Head(s) \in Reply
           /\ Len(Tail(s)) = Len(s) - 1 /\ Head(s) = s[1]
           /\ 1 \in 1 .. Len(s)
           /\ \A k \in 1 .. Len(Tail(s)) : Tail(s)[k] = s[k + 1] /\ k + 1 \in 1 .. Len(s)
    OBVIOUS

LEMMA AppendType ==
    ASSUME NEW s \in Seq(Reply), NEW m \in Reply
    PROVE  /\ Append(s, m) \in Seq(Reply) /\ Len(Append(s, m)) = Len(s) + 1
           /\ \A k \in 1 .. Len(Append(s, m)) :
                \/ Append(s, m)[k] = m
                \/ k \in 1 .. Len(s) /\ Append(s, m)[k] = s[k]
    OBVIOUS

\* A query sent puts a reply to it on the wire, or nothing.
LEMMA Sent ==
    ASSUME TypeOK, InHand, NEW w \in Worker, NEW r \in Resolver, pc[w] # "idle", Send(w, r)
    PROVE  /\ wire' \subseteq Reply
           /\ \A m \in wire' : m \in wire \/ (m.to = w /\ Pair(m) = Pair(query[w]))
<1>1. Pair(query[w]) \in Id \X Question
    BY DEF InHand, TypeOK
<1>2. query[w].id \in Id /\ query[w].question \in Question
    BY <1>1 DEF Pair
<1> DEFINE m == [to |-> w, from |-> r, id |-> query[w].id, question |-> query[w].question]
<1>3. m \in Reply /\ m.to = w /\ Pair(m) = Pair(query[w])
    BY <1>2 DEF Reply, Pair
<1>4. wire' \subseteq wire \cup {m}
    BY DEF Send
<1> QED
    BY <1>3, <1>4 DEF TypeOK

\* Fields of a query that are set.
LEMMA QueryLate ==
    ASSUME NEW q \in Query
    PROVE  [q EXCEPT !.late = TRUE] \in Query /\ [q EXCEPT !.late = FALSE] \in Query
<1>1. [q EXCEPT !.late = TRUE] \in Query
    BY DEF Query
<1>2. [q EXCEPT !.late = FALSE] \in Query
    BY DEF Query
<1> QED
    BY <1>1, <1>2

LEMMA QueryPrimary ==
    ASSUME NEW q \in Query, NEW r \in Resolver
    PROVE  [q EXCEPT !.primary = r] \in Query
    BY DEF Query

LEMMA QueryReplied ==
    ASSUME NEW q \in Query, NEW r \in Resolver, NEW a \in Question
    PROVE  [[[q EXCEPT !.from = r] EXCEPT !.about = a] EXCEPT !.late = FALSE] \in Query
    BY DEF Query

LEMMA QueryAsked ==
    ASSUME NEW q \in Query, NEW i \in Id, NEW a \in Question
    PROVE  [[q EXCEPT !.id = i] EXCEPT !.question = a] \in Query
    BY DEF Query

LEMMA NoQueryType == NoQuery \in Query
    BY DEF NoQuery, Query, Resolver

LEMMA SetQuery ==
    ASSUME NEW f \in [Worker -> Query], NEW w \in Worker, NEW q \in Query
    PROVE  [f EXCEPT ![w] = q] \in [Worker -> Query]
    OBVIOUS

LEMMA StepType == TypeOK /\ InHand /\ [Next]_vars => TypeOK'
<1> SUFFICES ASSUME TypeOK, InHand, [Next]_vars PROVE TypeOK'
    OBVIOUS
<1> USE UpstreamAssumption DEF TypeOK, WorkerPc
<1>q. \A v \in Worker : query[v] \in Query
    OBVIOUS
<1>1. ASSUME NEW w \in Worker, Forward(w) PROVE TypeOK'
  <2> PICK i \in Id, q \in Question :
        query' = [query EXCEPT ![w] = [NoQuery EXCEPT !.id = i, !.question = q]]
      BY <1>1 DEF Forward
  <2>1. query' \in [Worker -> Query]
      BY NoQueryType, QueryAsked, SetQuery
  <2>2. asked' \in [Worker -> SUBSET (Id \X Question)]
      BY <1>1 DEF Forward
  <2>3. queries' \in 0 .. MaxQueries
      BY <1>1 DEF Forward
  <2> QED
      BY <1>1, <2>1, <2>2, <2>3 DEF Forward, Goto, network
<1>2. ASSUME NEW w \in Worker, SendPrimary(w) PROVE TypeOK'
  <2>1. wire' \subseteq Reply
      BY <1>2, Sent DEF SendPrimary
  <2>2. query' \in [Worker -> Query]
      BY <1>2, <1>q, QueryPrimary, SetQuery DEF SendPrimary
  <2> QED
      BY <1>2, <2>1, <2>2 DEF SendPrimary, Goto
<1>3. ASSUME NEW w \in Worker, SendFallback(w) PROVE TypeOK'
  <2>1. 1 - query[w].primary \in Resolver
      BY DEF Query, Resolver
  <2>2. wire' \subseteq Reply
      BY <1>3, <2>1, Sent DEF SendFallback
  <2>3. query' \in [Worker -> Query]
      BY <1>3, <1>q, QueryLate, SetQuery DEF SendFallback
  <2> QED
      BY <1>3, <2>2, <2>3 DEF SendFallback, Goto
<1>4. ASSUME NEW w \in Worker, Accept(w) PROVE TypeOK'
  <2>1. /\ Tail(buffer[w]) \in Seq(Reply) /\ Len(Tail(buffer[w])) <= RecvBuffer
        /\ Head(buffer[w]) \in Reply
      BY <1>4, TailType DEF Accept
  <2> DEFINE m == Head(buffer[w])
             q == [[[query[w] EXCEPT !.from = m.from] EXCEPT !.about = m.question]
                      EXCEPT !.late = FALSE]
  <2>a. m.from \in Resolver /\ m.question \in Question
      BY <2>1 DEF Reply
  <2>b. q \in Query
      BY <2>a, <1>q, QueryReplied
  <2>c. query' = [query EXCEPT ![w] = q]
      BY <1>4 DEF Accept
  <2>2. query' \in [Worker -> Query]
      BY <2>b, <2>c
  <2>3. /\ buffer' \in [Worker -> Seq(Reply)]
        /\ \A v \in Worker : Len(buffer'[v]) <= RecvBuffer
      BY <1>4, <2>1 DEF Accept
  <2> QED
      BY <1>4, <2>2, <2>3 DEF Accept, Goto, network
<1>5. ASSUME NEW w \in Worker, GiveUp(w)
      PROVE  query' \in [Worker -> Query] /\ pc' \in [Worker -> WorkerPc]
  <2>1. NoQuery \in Query
      BY NoQueryType
  <2>2. CASE pc[w] = "wait_primary"
      BY <1>5, <2>2 DEF GiveUp, Goto
  <2>3. CASE pc[w] # "wait_primary"
      BY <1>5, <2>1, <2>3 DEF GiveUp, Finish, Goto
  <2> QED
      BY <2>2, <2>3
<1>6. ASSUME NEW w \in Worker, Discard(w) PROVE TypeOK'
  <2>1. Tail(buffer[w]) \in Seq(Reply) /\ Len(Tail(buffer[w])) <= RecvBuffer
      BY <1>6, TailType DEF Discard
  <2>2. query' \in [Worker -> Query] /\ pc' \in [Worker -> WorkerPc]
      BY <1>5, <1>6 DEF Discard
  <2>3. /\ buffer' \in [Worker -> Seq(Reply)]
        /\ \A v \in Worker : Len(buffer'[v]) <= RecvBuffer
      BY <1>6, <2>1 DEF Discard
  <2> QED
      BY <1>6, <2>2, <2>3 DEF Discard, network
<1>7. ASSUME NEW w \in Worker, TimeOut(w) PROVE TypeOK'
    BY <1>5, <1>7 DEF TimeOut, network
<1>8. ASSUME NEW w \in Worker, Adopt(w) PROVE TypeOK'
  <2>1. 1 - query[w].primary \in Resolver
      BY DEF Query, Resolver
  <2> QED
      BY <1>8, <2>1 DEF Adopt, Goto, network
<1>9. ASSUME NEW w \in Worker, Relay(w) PROVE TypeOK'
  <2>1. query' \in [Worker -> Query] /\ pc' \in [Worker -> WorkerPc]
      BY <1>9, NoQueryType DEF Relay, Finish, Goto
  <2> QED
      BY <1>9, <2>1 DEF Relay, network
<1>10. ASSUME NEW w \in Worker, Deadline(w) PROVE TypeOK'
  <2>a. query' = [query EXCEPT ![w] = [@ EXCEPT !.late = TRUE]]
      BY <1>10 DEF Deadline
  <2>1. query' \in [Worker -> Query]
      BY <2>a, <1>q, QueryLate, SetQuery
  <2> QED
      BY <1>10, <2>1 DEF Deadline, network
<1>11. ASSUME Arrive PROVE TypeOK'
  <2> PICK m \in wire :
        /\ wire' \in {wire, wire \ {m}}
        /\ buffer' = IF Len(buffer[m.to]) < RecvBuffer
                     THEN [buffer EXCEPT ![m.to] = Append(@, m)] ELSE buffer
        /\ UNCHANGED <<preferred, reachable, moves, queries, pc, query, asked>>
      BY <1>11 DEF Arrive
  <2>1. m \in Reply /\ m.to \in Worker
      BY DEF Reply
  <2>2. CASE Len(buffer[m.to]) < RecvBuffer
    <3>1. Append(buffer[m.to], m) \in Seq(Reply) /\ Len(Append(buffer[m.to], m)) <= RecvBuffer
        BY <2>1, <2>2, AppendType
    <3>2. /\ buffer' \in [Worker -> Seq(Reply)]
          /\ \A v \in Worker : Len(buffer'[v]) <= RecvBuffer
        BY <2>1, <2>2, <3>1
    <3> QED
        BY <3>2
  <2>3. CASE ~(Len(buffer[m.to]) < RecvBuffer)
      BY <2>3
  <2> QED
      BY <2>2, <2>3
<1>12. ASSUME Move PROVE TypeOK'
    BY <1>12 DEF Move
<1>13. CASE UNCHANGED vars
    BY <1>13 DEF vars, network
<1> QED
    BY <1>1, <1>2, <1>3, <1>4, <1>6, <1>7, <1>8, <1>9, <1>10, <1>11, <1>12, <1>13
    DEF Next, WorkerStep

-----------------------------------------------------------------------------
(***************************************************************************)
(* Where replies come from.                                                 *)
(***************************************************************************)
\* Nothing that has been asked is forgotten.
LEMMA AskedGrows ==
    TypeOK /\ [Next]_vars => \A w \in Worker : asked[w] \subseteq asked'[w]
<1> SUFFICES ASSUME TypeOK, [Next]_vars, NEW w \in Worker
             PROVE  asked[w] \subseteq asked'[w]
    OBVIOUS
<1>1. ASSUME NEW v \in Worker, Forward(v) PROVE asked[w] \subseteq asked'[w]
    BY <1>1 DEF Forward, TypeOK
<1>2. ASSUME NEW v \in Worker, WorkerStep(v) \/ Deadline(v) PROVE asked' = asked
    BY <1>2 DEF WorkerStep, SendPrimary, SendFallback, Accept, Discard, TimeOut, Adopt,
                Relay, Deadline
<1>3. ASSUME Arrive \/ Move PROVE asked' = asked
    BY <1>3 DEF Arrive, Move
<1> QED
    BY <1>1, <1>2, <1>3 DEF Next, vars

LEMMA StepAnswered == TypeOK /\ Answered /\ InHand /\ [Next]_vars => Answered'
<1> SUFFICES ASSUME TypeOK, Answered, InHand, [Next]_vars PROVE Answered'
    OBVIOUS
<1>a. \A w \in Worker : asked[w] \subseteq asked'[w]
    BY AskedGrows
<1>w. \A m \in wire : m.to \in Worker /\ m \in Reply
    BY DEF TypeOK, Reply
<1>b. \A w \in Worker : buffer[w] \in Seq(Reply)
    BY DEF TypeOK
<1>1. ASSUME wire' \subseteq wire, buffer' = buffer PROVE Answered'
    BY <1>1, <1>a, <1>w DEF Answered, Pair
<1>2. ASSUME NEW w \in Worker, NEW r \in Resolver, Send(w, r), pc[w] # "idle", buffer' = buffer
      PROVE  Answered'
  <2>1. \A m \in wire' : m \in wire \/ (m.to = w /\ Pair(m) = Pair(query[w]))
      BY <1>2, Sent
  <2>2. Pair(query[w]) \in asked[w]
      BY <1>2 DEF InHand
  <2> QED
      BY <1>2, <1>a, <1>w, <2>1, <2>2 DEF Answered, Pair
<1>3. ASSUME NEW w \in Worker, buffer[w] # <<>>, wire' = wire,
             buffer' = [buffer EXCEPT ![w] = Tail(@)]
      PROVE  Answered'
  <2>1. \A k \in 1 .. Len(Tail(buffer[w])) :
            Tail(buffer[w])[k] = buffer[w][k + 1] /\ k + 1 \in 1 .. Len(buffer[w])
      BY <1>3, <1>b, TailType
  <2>2. \A k \in 1 .. Len(buffer'[w]) : Pair(buffer'[w][k]) \in asked'[w]
      BY <1>3, <1>a, <2>1 DEF Answered, Pair, TypeOK
  <2>3. \A v \in Worker \ {w} : buffer'[v] = buffer[v]
      BY <1>3 DEF TypeOK
  <2> QED
      BY <1>3, <1>a, <1>w, <2>2, <2>3 DEF Answered, Pair
<1>4. ASSUME Arrive PROVE Answered'
  <2> PICK m \in wire :
        /\ wire' \in {wire, wire \ {m}}
        /\ buffer' = IF Len(buffer[m.to]) < RecvBuffer
                     THEN [buffer EXCEPT ![m.to] = Append(@, m)] ELSE buffer
      BY <1>4 DEF Arrive
  <2>1. m \in Reply /\ m.to \in Worker /\ Pair(m) \in asked[m.to]
      BY <1>w DEF Answered
  <2>2. CASE Len(buffer[m.to]) < RecvBuffer
    <3>1. \A k \in 1 .. Len(Append(buffer[m.to], m)) :
            \/ Append(buffer[m.to], m)[k] = m
            \/ k \in 1 .. Len(buffer[m.to]) /\ Append(buffer[m.to], m)[k] = buffer[m.to][k]
        BY <1>b, <2>1, AppendType
    <3>2. buffer'[m.to] = Append(buffer[m.to], m)
        BY <2>1, <2>2 DEF TypeOK
    <3>3. \A k \in 1 .. Len(buffer'[m.to]) : Pair(buffer'[m.to][k]) \in asked'[m.to]
        BY <1>a, <2>1, <3>1, <3>2 DEF Answered
    <3>4. \A v \in Worker \ {m.to} : buffer'[v] = buffer[v]
        BY <2>1, <2>2 DEF TypeOK
    <3> QED
        BY <1>a, <1>w, <3>3, <3>4 DEF Answered, Pair
  <2>3. CASE ~(Len(buffer[m.to]) < RecvBuffer)
      BY <1>1, <2>3
  <2> QED
      BY <2>2, <2>3
<1>5. ASSUME NEW w \in Worker, Forward(w) PROVE Answered'
    BY <1>1, <1>5 DEF Forward, network
<1>6. ASSUME NEW w \in Worker, WorkerStep(w) PROVE Answered'
  <2>1. ASSUME SendPrimary(w) PROVE Answered'
      BY <1>2, <2>1 DEF SendPrimary, TypeOK
  <2>2. ASSUME SendFallback(w) PROVE Answered'
    <3>0. query[w] \in Query
        BY DEF TypeOK
    <3>1. 1 - query[w].primary \in Resolver
        BY <3>0 DEF Query, Resolver
    <3> QED
        BY <1>2, <2>2, <3>1 DEF SendFallback
  <2>3. ASSUME Accept(w) \/ Discard(w) PROVE Answered'
      BY <1>3, <2>3 DEF Accept, Discard, network
  <2>4. ASSUME TimeOut(w) \/ Adopt(w) \/ Relay(w) PROVE Answered'
      BY <1>1, <2>4 DEF TimeOut, Adopt, Relay, network
  <2> QED
      BY <1>6, <2>1, <2>2, <2>3, <2>4 DEF WorkerStep
<1>7. ASSUME NEW w \in Worker, Deadline(w) PROVE Answered'
    BY <1>1, <1>7 DEF Deadline, network
<1>8. ASSUME Move \/ UNCHANGED vars PROVE Answered'
    BY <1>1, <1>8 DEF Move, vars, network
<1> QED
    BY <1>4, <1>5, <1>6, <1>7, <1>8 DEF Next

\* What InHand says of one worker.
Hands(w) ==
    /\ pc[w] # "idle" => Pair(query[w]) \in asked[w]
    /\ pc[w] \in {"adopt", "relay"} => <<query[w].id, query[w].about>> \in asked[w]
    /\ pc[w] = "adopt" => query[w].from = 1 - query[w].primary

LEMMA StepInHand == TypeOK /\ Answered /\ InHand /\ [Next]_vars => InHand'
<1> SUFFICES ASSUME TypeOK, Answered, InHand, [Next]_vars, NEW v \in Worker PROVE Hands(v)'
    BY DEF InHand, Hands
<1>h. Hands(v)
    BY DEF InHand, Hands
<1>a. asked[v] \subseteq asked'[v]
    BY AskedGrows
<1>t. pc \in [Worker -> WorkerPc] /\ query \in [Worker -> Query]
    BY DEF TypeOK
<1>s. ASSUME pc'[v] = pc[v], query'[v] = query[v] PROVE Hands(v)'
    BY <1>s, <1>h, <1>a DEF Hands, Pair
<1>1. ASSUME NEW w \in Worker, Forward(w) PROVE Hands(v)'
  <2> PICK i \in Id, q \in Question :
        /\ query' = [query EXCEPT ![w] = [NoQuery EXCEPT !.id = i, !.question = q]]
        /\ asked' = [asked EXCEPT ![w] = @ \cup {<<i, q>>}]
      BY <1>1 DEF Forward
  <2>1. CASE v = w
    <3>1. pc'[w] = "send_primary"
        BY <1>1, <1>t DEF Forward, Goto
    <3>2. Pair(query'[w]) = <<i, q>>
        BY <1>t DEF NoQuery, Pair
    <3>3. <<i, q>> \in asked'[w]
        BY DEF TypeOK
    <3> QED
        BY <2>1, <3>1, <3>2, <3>3 DEF Hands, Pair
  <2>2. CASE v # w
      BY <1>1, <1>t, <1>s, <2>2 DEF Forward, Goto
  <2> QED
      BY <2>1, <2>2
<1>2. ASSUME NEW w \in Worker, SendPrimary(w) \/ SendFallback(w) PROVE Hands(v)'
  <2>1. CASE v = w
    <3>1. pc[w] # "idle" /\ pc'[w] \in {"wait_primary", "wait_fallback"}
        BY <1>2, <1>t DEF SendPrimary, SendFallback, Goto
    <3>2. query'[w].id = query[w].id /\ query'[w].question = query[w].question
        BY <1>2, <1>t DEF SendPrimary, SendFallback, Query
    <3> QED
        BY <1>h, <1>a, <2>1, <3>1, <3>2 DEF Hands, Pair
  <2>2. CASE v # w
      BY <1>2, <1>t, <1>s, <2>2 DEF SendPrimary, SendFallback, Goto
  <2> QED
      BY <2>1, <2>2
<1>3. ASSUME NEW w \in Worker, Accept(w) PROVE Hands(v)'
  <2>1. CASE v = w
    <3> DEFINE m == Head(buffer[w])
    <3>1. m \in Reply /\ m = buffer[w][1] /\ 1 \in 1 .. Len(buffer[w])
        BY <1>3, TailType DEF Accept, TypeOK
    <3>2. Pair(m) \in asked[w]
        BY <3>1 DEF Answered
    <3>3. m.id = query[w].id /\ m.from = Expected(w)
        BY <1>3 DEF Accept, Match
    <3>4. /\ query'[w].id = query[w].id /\ query'[w].question = query[w].question
          /\ query'[w].primary = query[w].primary
          /\ query'[w].from = m.from /\ query'[w].about = m.question
        BY <1>3, <1>t DEF Accept, Query
    <3>5. /\ pc[w] # "idle"
          /\ pc'[w] = IF pc[w] = "wait_primary" THEN "relay" ELSE "adopt"
        BY <1>3, <1>t DEF Accept, Goto, Waiting
    <3>6. pc'[w] = "adopt" => query'[w].from = 1 - query'[w].primary
        BY <3>3, <3>4, <3>5 DEF Expected
    <3>7. Pair(query'[w]) \in asked'[w]
        BY <1>h, <1>a, <2>1, <3>4, <3>5 DEF Hands, Pair
    <3>8. <<query'[w].id, query'[w].about>> \in asked'[w]
        BY <1>a, <2>1, <3>2, <3>3, <3>4 DEF Pair
    <3> QED
        BY <2>1, <3>6, <3>7, <3>8 DEF Hands, Pair
  <2>2. CASE v # w
      BY <1>3, <1>t, <1>s, <2>2 DEF Accept, Goto
  <2> QED
      BY <2>1, <2>2
<1>4. ASSUME NEW w \in Worker, Finish(w) PROVE Hands(v)'
  <2>1. CASE v = w
      BY <1>4, <1>t, <2>1 DEF Finish, Goto, Hands
  <2>2. CASE v # w
      BY <1>4, <1>t, <1>s, <2>2 DEF Finish, Goto
  <2> QED
      BY <2>1, <2>2
<1>5. ASSUME NEW w \in Worker, pc[w] # "idle", Goto(w, "send_fallback"), query' = query
      PROVE  Hands(v)'
    BY <1>5, <1>t, <1>h, <1>a DEF Goto, Hands, Pair
<1>6. ASSUME NEW w \in Worker, Waiting(w), GiveUp(w) PROVE Hands(v)'
    BY <1>4, <1>5, <1>6 DEF GiveUp, Waiting
<1>7. ASSUME NEW w \in Worker, Discard(w) PROVE Hands(v)'
    BY <1>6, <1>7, <1>s DEF Discard
<1>8. ASSUME NEW w \in Worker, TimeOut(w) PROVE Hands(v)'
    BY <1>6, <1>8 DEF TimeOut
<1>9. ASSUME NEW w \in Worker, Adopt(w) PROVE Hands(v)'
  <2>1. CASE v = w
      BY <1>9, <1>t, <1>h, <1>a, <2>1 DEF Adopt, Goto, Hands, Pair
  <2>2. CASE v # w
      BY <1>9, <1>t, <1>s, <2>2 DEF Adopt, Goto
  <2> QED
      BY <2>1, <2>2
<1>10. ASSUME NEW w \in Worker, Relay(w) PROVE Hands(v)'
    BY <1>4, <1>10 DEF Relay
<1>11. ASSUME NEW w \in Worker, Deadline(w) PROVE Hands(v)'
  <2>1. CASE v = w
    <3>1. /\ query'[w].id = query[w].id /\ query'[w].question = query[w].question
          /\ pc'[w] = pc[w] /\ pc[w] \notin {"adopt", "relay", "idle"}
        BY <1>11, <1>t DEF Deadline, Query, Waiting
    <3> QED
        BY <1>h, <1>a, <2>1, <3>1 DEF Hands, Pair
  <2>2. CASE v # w
      BY <1>11, <1>t, <1>s, <2>2 DEF Deadline
  <2> QED
      BY <2>1, <2>2
<1>12. ASSUME Arrive \/ Move \/ UNCHANGED vars PROVE Hands(v)'
    BY <1>12, <1>s DEF Arrive, Move, vars
<1> QED
    BY <1>1, <1>2, <1>3, <1>7, <1>8, <1>9, <1>10, <1>11, <1>12 DEF Next, WorkerStep

-----------------------------------------------------------------------------
LEMMA InitInv == Init => IInv
<1> SUFFICES ASSUME Init PROVE IInv
    OBVIOUS
<1>1. Answered
    BY DEF Init, Answered
<1>2. InHand
    BY DEF Init, InHand
<1> QED
    BY <1>1, <1>2, InitType DEF IInv

LEMMA StepInv == IInv /\ [Next]_vars => IInv'
    BY StepType, StepAnswered, StepInHand DEF IInv

\* The types, and where replies come from, hold always.
THEOREM Invariance == Spec => []IInv
    BY InitInv, StepInv, PTL DEF Spec

\* Every variable has its type, for any number of workers and replies.
THEOREM TypeCorrect == Spec => []TypeOK
<1>1. IInv => TypeOK
    BY DEF IInv
<1> QED
    BY <1>1, Invariance, PTL

\* A reply that is relayed and cached answers the question of this client, unless
\* the worker has sent two questions under one ID (recv_matching_reply).
THEOREM AnswersAreRight == Spec => []RightAnswer
<1>1. IInv => RightAnswer
  <2> SUFFICES ASSUME IInv, NEW w \in Worker, pc[w] \in {"adopt", "relay"},
                      OneUse(w, query[w].id)
               PROVE  query[w].about = query[w].question
      BY DEF RightAnswer
  <2>1. <<query[w].id, query[w].about>> \in asked[w]
      BY DEF IInv, InHand
  <2>2. <<query[w].id, query[w].question>> \in asked[w]
      BY DEF IInv, InHand, Pair
  <2>3. <<query[w].id, query[w].about>> = <<query[w].id, query[w].question>>
      BY <2>1, <2>2 DEF OneUse
  <2> QED
      BY <2>3
<1> QED
    BY <1>1, Invariance, PTL

\* Only Adopt writes preferred_upstream, with the resolver that has answered.
LEMMA StepPreferred ==
    ASSUME IInv, Next, preferred' # preferred
    PROVE  \E w \in Worker : pc[w] = "adopt" /\ query[w].from = preferred'
<1>1. ASSUME NEW w \in Worker, Adopt(w)
      PROVE  pc[w] = "adopt" /\ query[w].from = preferred'
    BY <1>1 DEF Adopt, IInv, InHand
<1>2. ASSUME NEW w \in Worker, Forward(w) \/ SendPrimary(w) \/ SendFallback(w) \/ Accept(w)
             \/ Discard(w) \/ TimeOut(w) \/ Relay(w) \/ Deadline(w)
      PROVE  FALSE
    BY <1>2 DEF Forward, SendPrimary, SendFallback, Accept, Discard, TimeOut, Relay, Deadline
<1>3. ~Arrive /\ ~Move
    BY DEF Arrive, Move
<1> QED
    BY <1>1, <1>2, <1>3 DEF Next, WorkerStep

\* The preference only goes to a resolver that has just answered.
THEOREM PreferenceIsEarned == Spec => PreferenceEarned
<1>1. IInv /\ [Next]_vars =>
        [preferred' # preferred =>
           \E w \in Worker : pc[w] = "adopt" /\ query[w].from = preferred']_vars
    BY StepPreferred
<1> QED
    BY <1>1, Invariance, PTL DEF Spec, PreferenceEarned

\* Once the one resolver that can be reached is preferred, and nothing of the other
\* is left over, no worker takes the preference away from it.
THEOREM PreferenceDoesSettle == Spec => PreferenceSettles
<1>1. IInv /\ [Next]_vars => [\A r \in Resolver : Settled(r) => preferred' = r]_vars
  <2> SUFFICES ASSUME IInv, Next, NEW r \in Resolver, Settled(r) PROVE preferred' = r
      OBVIOUS
  <2>1. preferred = r /\ \A w \in Worker : pc[w] = "adopt" => query[w].from = r
      BY DEF Settled
  <2> QED
      BY <2>1, StepPreferred
<1> QED
    BY <1>1, Invariance, PTL DEF Spec, PreferenceSettles
=============================================================================
