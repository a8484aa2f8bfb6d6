-------------------------------- MODULE Wire ---------------------------------
(***************************************************************************)
(* The DNS wire format of nyet.c: the name and type of a query are read from *)
(* the packet (parse_query), the address records of an upstream's reply are  *)
(* collected for the answer cache (parse_answer_records), and replies are    *)
(* built in place of an upstream's (create_blocked_response,                 *)
(* create_cached_answer_response).                                          *)
(*                                                                          *)
(* A query is its bytes after the header, and is read a label at a time.  A  *)
(* reply is what the walk finds in it: records that are, or are not, of the  *)
(* type and class asked for and of the right length.  A packet shorter than  *)
(* a header is refused, and is not among the inputs here.                    *)
(***************************************************************************)
EXTENDS Integers, Sequences, SequencesExt

CONSTANTS
    Byte,           \* the byte values of queries
    Lower,          \* LOWER
    Valid,          \* the bytes a label may have in lower case
    Dot,            \* the character between labels
    MaxLen,         \* MAX_DOMAIN_LEN
    MaxBytes,       \* bound: bytes of a query
    Data,           \* addresses
    Sink,           \* 0.0.0.0
    Forever,        \* UINT32_MAX
    TTLs,           \* TTLs of records
    BlockTTL,       \* TTL of a blocked response
    MaxKept,        \* ANSWER_CACHE_MAX_RECORDS
    MaxRecords,     \* bound: records in a reply
    Capacity        \* records that fit behind a request in a response

ASSUME WireAssumption ==
    /\ Byte \subseteq Nat /\ Lower \in [Byte -> Nat]
    /\ Dot \notin Valid
    /\ MaxLen \in Nat \ {0} /\ MaxBytes \in Nat
    /\ Forever \in Nat /\ TTLs \subseteq 0 .. Forever /\ BlockTTL \in 1 .. Forever - 1
    /\ Sink \in Data
    /\ MaxKept \in Nat \ {0} /\ MaxRecords \in Nat /\ Capacity \in Nat

VARIABLES
    packet,     \* the query
    p,          \* how many bytes of the query, or of the records of a reply,
                \* have been passed
    name,       \* out_domain, up to where it is written
    qtype,      \* out_qtype
    reply,      \* a reply under the walk
    i,          \* how many of its records have been passed
    kept,       \* those that are kept
    min_ttl,    \* min_ttl
    cached,     \* what was found in an upstream's reply, or is sent of our own
    pc

query  == <<packet, name, qtype>>
answer == <<reply, i, kept, min_ttl>>
vars == <<query, p, answer, cached, pc>>

\* matches: of the type and class asked for, with rdata of the right length;
\* size: what the record claims to take.
Record == [matches : BOOLEAN, data : Data, ttl : Nat, size : Nat \ {0}]

\* ancount: what the header claims; limit: the bytes behind the question that
\* have arrived.
Reply == [ok : BOOLEAN, ancount : Nat, records : Seq(Record), limit : Nat]
NoReply == [ok |-> FALSE, ancount |-> 0, records |-> <<>>, limit |-> 0]

\* What the answer cache gets.
Answer == [data : Seq(Data), ttl : Nat]
Nothing == [data |-> <<>>, ttl |-> 0]

Pc == {"label", "refused", "parsed", "sent", "records", "found", "none", "again", "end"}

Init ==
    /\ packet \in BoundedSeq(Byte, MaxBytes)
    /\ p = 0 /\ name = <<>> /\ qtype = <<>>
    /\ reply = NoReply /\ i = 0 /\ kept = <<>> /\ min_ttl = Forever
    /\ cached = Nothing
    /\ pc = "label"

-----------------------------------------------------------------------------
\* The byte at offset n of the query.
At(n) == packet[n + 1]

Left(n) == Len(packet) - n          \* limit - p
Room    == MaxLen - 1 - Len(name)   \* end - dst

\* The length of a label against what is left of packet and buffer, a dot
\* included, and its bytes.  (Slips: the dot is forgotten; a dot is allowed.)
FitsWithoutDot(len) == len < Left(p + 1) /\ len <= Room
AllowsDots(c) == c \in Valid \cup {Dot}
Fits(len) == len < Left(p + 1) /\ len < Room
Allowed(c) == c \in Valid

Label(len) == [k \in 1 .. len |-> Lower[At(p + k)]]

\* Dots are written between labels.
Joined(label) == IF name = <<>> THEN label ELSE name \o <<Dot>> \o label

-----------------------------------------------------------------------------
(***************************************************************************)
(* parse_query.                                                             *)
(***************************************************************************)
InName == pc = "label" /\ p < Len(packet) /\ At(p) # 0
AtEnd  == pc = "label" /\ ~(p < Len(packet) /\ At(p) # 0)

ReadLabel ==
    /\ InName /\ Fits(At(p))
    /\ \A k \in 1 .. At(p) : Allowed(Lower[At(p + k)])
    /\ name' = Joined(Label(At(p)))
    /\ p' = p + 1 + At(p)
    /\ UNCHANGED <<packet, qtype, answer, cached, pc>>

\* A label that does not fit, in the packet or in the buffer, or has a byte that
\* is not allowed.
Refuse ==
    /\ InName
    /\ Fits(At(p)) => \E k \in 1 .. At(p) : ~Allowed(Lower[At(p + k)])
    /\ pc' = "refused"
    /\ UNCHANGED <<query, p, answer, cached>>

\* The zero after the name is passed, or the end of the packet is.
ReadType ==
    /\ AtEnd /\ p + 3 <= Len(packet)
    /\ qtype' = <<At(p + 1), At(p + 2)>>
    /\ pc' = "parsed"
    /\ UNCHANGED <<packet, p, name, answer, cached>>

RefuseShort ==
    /\ AtEnd /\ p + 3 > Len(packet)
    /\ pc' = "refused"
    /\ UNCHANGED <<query, p, answer, cached>>

-----------------------------------------------------------------------------
(***************************************************************************)
(* Replies.                                                                 *)
(***************************************************************************)
Size(records) ==
    LET upto[n \in 0 .. Len(records)] ==
          IF n = 0 THEN 0 ELSE upto[n - 1] + records[n].size
    IN  upto[Len(records)]

\* DNS_TYPE_A, as the bytes of a query's type
TypeA == <<0, 1>>

\* The records that answer a, of the type asked for if m.
AsRecords(a, m) ==
    [k \in 1 .. Len(a.data) |->
        [matches |-> m, data |-> a.data[k], ttl |-> a.ttl, size |-> 1]]

\* A response of our own: the whole request, with the records it may have behind
\* its question, then the answers, which alone are counted as such.
\* (A slip: the fixed count of the blocked response is used for all.)
CraftedOne(extra, answers) ==
    [ok |-> TRUE, ancount |-> 1, records |-> extra \o answers,
     limit |-> Size(extra \o answers)]
Crafted(extra, answers) ==
    [ok |-> TRUE, ancount |-> Len(answers), records |-> extra \o answers,
     limit |-> Size(extra \o answers)]

\* What may come behind the question of a request: nothing, or EDNS's record.
Extra == BoundedSeq({[matches |-> FALSE, data |-> Sink, ttl |-> 0, size |-> 1]}, 1)

\* The walk starts at the first record of r.
Walk(r) == reply' = r /\ p' = 0 /\ i' = 0 /\ kept' = <<>> /\ min_ttl' = Forever

\* The query is forgotten.
Forget == packet' = <<>> /\ name' = <<>> /\ qtype' = <<>>

\* Replies of at most MaxRecords records of size 1, cut off anywhere.  (One without a
\* whole header and question, with an error or with no answers counts as not ok.)
Records == BoundedSeq({[matches |-> m, data |-> d, ttl |-> t, size |-> 1] :
                         m \in BOOLEAN, d \in Data, t \in TTLs}, MaxRecords)
Replies == UNION {[ok : BOOLEAN, ancount : 0 .. MaxRecords, records : {rs},
                   limit : 0 .. Size(rs)] : rs \in Records}

\* The query is sent upstream, and answered.
Forward ==
    /\ pc = "parsed"
    /\ Forget /\ p' = 0 /\ pc' = "sent"
    /\ UNCHANGED <<answer, cached>>

Receive ==
    /\ pc = "sent"
    /\ \E r \in Replies : Walk(r) /\ pc' = IF r.ok /\ r.ancount > 0 THEN "records"
                                           ELSE "none"
    /\ UNCHANGED <<query, cached>>

\* create_blocked_response: BLOCKED_ANSWER is of type A, whatever is asked.
Block ==
    /\ pc = "parsed"
    /\ cached' = [data |-> <<Sink>>, ttl |-> BlockTTL]
    /\ \E extra \in Extra : Walk(Crafted(extra, AsRecords(cached', qtype = TypeA)))
    /\ packet' = <<>> /\ name' = <<>> /\ qtype' = qtype
    /\ pc' = "again"

\* A record of the answer section, as far as it has arrived, and as long as there
\* is room for more.  (A slip: one more than the header counts.)
UpToCount == i <= reply.ancount
Counted == i < reply.ancount

Another ==
    /\ Counted /\ Len(kept) < MaxKept
    /\ i < Len(reply.records) /\ p + reply.records[i + 1].size <= reply.limit

Walking == pc \in {"records", "again"}

TakeRecord ==
    /\ Walking /\ Another
    /\ LET r == reply.records[i + 1]
       IN  /\ p' = p + r.size
           /\ IF r.matches
              THEN /\ kept' = Append(kept, r.data)
                   /\ min_ttl' = IF r.ttl < min_ttl THEN r.ttl ELSE min_ttl
              ELSE UNCHANGED <<kept, min_ttl>>
    /\ i' = i + 1
    /\ UNCHANGED <<query, reply, cached, pc>>

\* parse_answer_records returns, to answer_cache_insert, or to a client that has
\* walked a response of ours.
EndWalk ==
    /\ Walking /\ ~Another
    /\ IF pc = "again" THEN pc' = "end" /\ cached' = cached
       ELSE IF kept = <<>> \/ min_ttl \in {0, Forever}
       THEN pc' = "none" /\ cached' = cached
       ELSE pc' = "found" /\ cached' = [data |-> kept, ttl |-> min_ttl]
    /\ UNCHANGED <<query, p, answer>>

\* create_cached_answer_response, for a later query of the same name and type:
\* unless it does not fit.
Serve ==
    /\ pc = "found"
    /\ \E extra \in Extra :
         /\ Len(extra) + Len(cached.data) <= Capacity
         /\ Walk(Crafted(extra, AsRecords(cached, TRUE)))
    /\ pc' = "again"
    /\ UNCHANGED <<query, cached>>

Next ==
    \/ ReadLabel \/ Refuse \/ ReadType \/ RefuseShort
    \/ Forward \/ Receive \/ Block
    \/ TakeRecord \/ EndWalk \/ Serve

Spec == Init /\ [][Next]_vars

-----------------------------------------------------------------------------
(***************************************************************************)
(* Properties.                                                              *)
(***************************************************************************)
\* Every variable has its type.
TypeOK ==
    /\ packet \in Seq(Byte) /\ name \in Seq(Valid \cup {Dot}) /\ qtype \in Seq(Byte)
    /\ reply \in Reply /\ kept \in Seq(Data) /\ Len(kept) <= MaxKept
    /\ p \in Nat /\ i \in Nat /\ min_ttl \in 0 .. Forever
    /\ cached \in Answer /\ pc \in Pc

\* Nothing is read behind the packet or written behind the buffer, where the zero
\* at the end must fit too, whatever lengths the labels claim.
InBounds ==
    pc \in {"label", "parsed", "refused"} =>
        p <= Len(packet) /\ Len(name) <= MaxLen - 1

\* The parser in every state.
ParserSound == TypeOK /\ InBounds

\* The questions there could be, by their labels, and their two forms: what n labels
\* look like in a packet, and in lower case with dots between them.
Labels == {l \in BoundedSeq({c \in Byte : Lower[c] \in Valid}, MaxBytes) :
             l # <<>> /\ Len(l) \in Byte}
Questions == BoundedSeq(Labels, MaxBytes \div 2)

Codes(ls) ==
    LET upto[n \in 0 .. Len(ls)] ==
          IF n = 0 THEN <<>> ELSE upto[n - 1] \o <<Len(ls[n])>> \o ls[n]
    IN  upto
Encoded(ls) == Codes(ls)[Len(ls)] \o <<0>>

LowerCase(l) == [k \in 1 .. Len(l) |-> Lower[l[k]]]
Names(ls) ==
    LET upto[n \in 0 .. Len(ls)] ==
          IF n = 0 THEN <<>>
          ELSE IF n = 1 THEN LowerCase(ls[1])
          ELSE upto[n - 1] \o <<Dot>> \o LowerCase(ls[n])
    IN  upto
Dotted(ls) == Names(ls)[Len(ls)]

\* A name is taken if and only if the packet has it, followed by a type, and it
\* fits; and it is taken as it is, in lower case, with dots between the labels and
\* nowhere else, so that two questions never look alike.
ParsedExactly ==
    /\ pc = "parsed" =>
         \E ls \in Questions : /\ IsPrefix(Encoded(ls) \o qtype, packet)
                               /\ name = Dotted(ls)
    /\ pc = "refused" =>
         \A ls \in Questions : IsPrefix(Encoded(ls), packet)
             => Len(Encoded(ls)) + 2 > Len(packet) \/ Len(Dotted(ls)) > MaxLen - 2

\* What goes into the answer cache are the first matching records of the answer
\* section, none of the sections behind it, with the least of their TTLs ("minimum
\* TTL across the real answer's RRs", of those that match).
Section     == Min({reply.ancount, Len(reply.records), reply.limit})
Matching(n) == {k \in 1 .. n : reply.records[k].matches}
Place(k)    == Cardinality(Matching(k))

KeptIsAnswer ==
    pc = "found" =>
        LET first == {k \in Matching(Section) : Place(k) <= MaxKept}
        IN  /\ Len(cached.data) = Cardinality(first)
            /\ \A k \in first : cached.data[Place(k)] = reply.records[k].data
            /\ cached.ttl = Min({reply.records[k].ttl : k \in first})

\* Who walks a response of ours by the counts of its header finds the answers that
\* are meant, as long as the request had nothing behind its question; but nothing
\* at all in that to a blocked query of another type than A.  (With EDNS the first
\* record of the "answer section" is the client's own.  A response from the cache
\* is of its query's type, which is forgotten here.)
Fitting == qtype \in {<<>>, TypeA}

ServedAsMeant ==
    pc = "end" /\ Len(reply.records) = Len(cached.data) =>
        IF Fitting
        THEN kept = cached.data /\ min_ttl = cached.ttl
        ELSE kept = <<>>
=============================================================================
