----------------------------- MODULE Wire_proofs ------------------------------
(***************************************************************************)
(* Wire, for any bytes, sizes, records and TTLs: the parser stays inside    *)
(* packet and buffer and takes the names that are in the packet as they are, *)
(* the walk over a reply keeps the first matching records of the answer      *)
(* section and the least of their TTLs, and who walks a response of ours the *)
(* same way finds what was meant.                                            *)
(***************************************************************************)
EXTENDS Wire, TLAPS, FiniteSetTheorems, SequenceTheorems, WellFoundedInduction

-----------------------------------------------------------------------------
(***************************************************************************)
(* Sequences and sizes.                                                     *)
(***************************************************************************)
LEMMA SeqOfIsSeq ==
    ASSUME NEW S, NEW n \in Nat, NEW s \in BoundedSeq(S, n)
    PROVE  s \in Seq(S) /\ Len(s) \in 0 .. n
<1>1. PICK m \in 0 .. n : s \in [1 .. m -> S]
  BY DEF BoundedSeq, SeqOf
<1> QED
  BY <1>1, SeqDef

LEMMA LeastOf ==
    ASSUME NEW S, S \subseteq Nat, S # {}
    PROVE  \E m \in S : \A n \in S : m <= n
<1> DEFINE R == OpToRel(<, Nat)
<1>1. IsWellFoundedOn(R, Nat)
  BY NatLessThanWellFounded
<1>2. \A x, y \in Nat : x < y => <<x, y>> \in R
  BY DEF OpToRel
<1> HIDE DEF R
<1>3. PICK m \in S : \A n \in S : ~(<<n, m>> \in R)
  BY <1>1, WFMin
<1>4. \A n \in S : m <= n
  <2>1. \A n \in S : n \in Nat /\ m \in Nat /\ ~(n < m)
    BY <1>2, <1>3
  <2> QED
    BY <2>1
<1> QED
  BY <1>4

Ones(records) == \A k \in 1 .. Len(records) : records[k].size = 1

LEMMA SizeOfOnes ==
    ASSUME NEW rs \in Seq(Record), Ones(rs)
    PROVE  Size(rs) = Len(rs)
<1> DEFINE N == Len(rs)
           Rec(f) == f = [n \in 0 .. N |-> IF n = 0 THEN 0 ELSE f[n - 1] + rs[n].size]
           U == CHOOSE f : Rec(f)
<1>1. N \in Nat /\ \A n \in 1 .. N : rs[n].size = 1
  BY DEF Ones
<1>2. Rec([n \in 0 .. N |-> n])
  BY <1>1
<1>3. Size(rs) = U[N]
  BY Zenon DEF Size
<1>4. Rec(U)
  BY <1>2, Zenon
<1> HIDE DEF U
<1>5. U[0] = 0 /\ \A n \in 1 .. N : U[n] = U[n - 1] + 1
  BY <1>1, <1>4
<1> DEFINE Off == {n \in 0 .. N : U[n] # n}
<1>6. SUFFICES ASSUME Off # {} PROVE FALSE
  <2>1. U[N] = N
    BY <1>1, <1>6
  <2> QED
    BY <1>3, <2>1
<1>7. Off \subseteq Nat
  BY <1>1
<1> HIDE DEF Off
<1>8. PICK m \in Off : \A n \in Off : m <= n
  BY <1>6, <1>7, LeastOf
<1>9. m \in 1 .. N /\ m - 1 \in 0 .. N /\ m - 1 \notin Off
  BY <1>1, <1>5, <1>7, <1>8 DEF Off
<1>10. U[m - 1] = m - 1
  BY <1>9 DEF Off
<1>11. U[m] = m
  BY <1>5, <1>9, <1>10
<1> QED
  BY <1>8, <1>11 DEF Off

-----------------------------------------------------------------------------
(***************************************************************************)
(* The replies there are.                                                   *)
(***************************************************************************)
LEMMA RepliesAre ==
    ASSUME NEW r \in Replies
    PROVE  r \in Reply /\ Ones(r.records)
<1> DEFINE M == {[matches |-> m, data |-> d, ttl |-> t, size |-> 1] :
                    m \in BOOLEAN, d \in Data, t \in TTLs}
<1>1. PICK rs \in Records : r \in [ok : BOOLEAN, ancount : 0 .. MaxRecords,
                                    records : {rs}, limit : 0 .. Size(rs)]
  BY DEF Replies
<1>2. rs \in Seq(M)
  BY WireAssumption, SeqOfIsSeq DEF Records
<1>3. ASSUME NEW x \in M PROVE x \in Record /\ x.size = 1
  <2>1. PICK m \in BOOLEAN, d \in Data, t \in TTLs :
               x = [matches |-> m, data |-> d, ttl |-> t, size |-> 1]
    OBVIOUS
  <2>2. t \in Nat
    BY WireAssumption
  <2> QED
    BY <2>1, <2>2 DEF Record
<1> HIDE DEF M
<1>4. rs \in Seq(Record) /\ Ones(rs)
  <2>1. rs \in Seq(Record)
    BY <1>2, <1>3, SeqMonotonic
  <2>2. \A k \in 1 .. Len(rs) : rs[k] \in M
    BY <1>2
  <2> QED
    BY <1>3, <2>1, <2>2 DEF Ones
<1>5. Size(rs) \in Nat
  BY <1>4, SizeOfOnes
<1>6. r.records = rs
  BY <1>1
<1>7. r \in Reply
  BY <1>1, <1>4, <1>5, WireAssumption DEF Reply
<1> QED
  BY <1>4, <1>6, <1>7

LEMMA JoinedOnes ==
    ASSUME NEW e \in Seq(Record), NEW o \in Seq(Record), Ones(e), Ones(o)
    PROVE  /\ e \o o \in Seq(Record) /\ Ones(e \o o)
           /\ Len(e \o o) = Len(e) + Len(o) /\ Size(e \o o) = Len(e) + Len(o)
           /\ Len(e) = 0 => \A k \in 1 .. Len(o) : (e \o o)[k] = o[k]
<1>1. Len(e) \in Nat /\ Len(o) \in Nat
  BY LenProperties
<1>2. /\ e \o o \in Seq(Record) /\ Len(e \o o) = Len(e) + Len(o)
      /\ \A k \in 1 .. Len(e) + Len(o) :
           (e \o o)[k] = IF k <= Len(e) THEN e[k] ELSE o[k - Len(e)]
  BY ConcatProperties
<1>3. ASSUME NEW k \in 1 .. Len(e \o o) PROVE (e \o o)[k].size = 1
  <2>1. CASE k <= Len(e)
    <3>1. k \in 1 .. Len(e) /\ k \in 1 .. Len(e) + Len(o)
      BY <1>1, <1>2, <2>1
    <3>2. (e \o o)[k] = e[k]
      BY <1>2, <2>1, <3>1
    <3> QED
      BY <3>1, <3>2 DEF Ones
  <2>2. CASE ~(k <= Len(e))
    <3>1. k - Len(e) \in 1 .. Len(o) /\ k \in 1 .. Len(e) + Len(o)
      BY <1>1, <1>2, <2>2
    <3>2. (e \o o)[k] = o[k - Len(e)]
      BY <1>2, <2>2, <3>1
    <3> QED
      BY <3>1, <3>2 DEF Ones
  <2> QED
    BY <2>1, <2>2
<1>4. Ones(e \o o)
  BY <1>3 DEF Ones
<1>5. Size(e \o o) = Len(e \o o)
  BY <1>2, <1>4, SizeOfOnes
<1>6. ASSUME Len(e) = 0, NEW k \in 1 .. Len(o) PROVE (e \o o)[k] = o[k]
  <2>1. k \in 1 .. Len(e) + Len(o) /\ ~(k <= Len(e)) /\ k - Len(e) = k
    BY <1>1, <1>6
  <2> QED
    BY <1>2, <2>1
<1> QED
  BY <1>2, <1>4, <1>5, <1>6

\* The records of an answer of ours, and what comes before them.
LEMMA OwnRecords ==
    ASSUME NEW a \in Answer, NEW m \in BOOLEAN
    PROVE  /\ AsRecords(a, m) \in Seq(Record) /\ Ones(AsRecords(a, m))
           /\ Len(AsRecords(a, m)) = Len(a.data)
           /\ \A k \in 1 .. Len(a.data) : /\ AsRecords(a, m)[k].matches = m
                                          /\ AsRecords(a, m)[k].data = a.data[k]
                                          /\ AsRecords(a, m)[k].ttl = a.ttl
<1> DEFINE N == Len(a.data)
           Own(k) == [matches |-> m, data |-> a.data[k], ttl |-> a.ttl, size |-> 1]
<1>1. N \in Nat /\ a.ttl \in Nat /\ \A k \in 1 .. N : a.data[k] \in Data
  BY DEF Answer
<1>2. \A k \in 1 .. N : Own(k) \in Record
  BY <1>1 DEF Record
<1>3. \A k \in 1 .. N : /\ Own(k).matches = m /\ Own(k).data = a.data[k]
                        /\ Own(k).ttl = a.ttl /\ Own(k).size = 1
  OBVIOUS
<1>4. AsRecords(a, m) = [k \in 1 .. N |-> Own(k)]
  BY DEF AsRecords
<1> HIDE DEF Own
<1>5. AsRecords(a, m) \in [1 .. N -> Record]
  BY <1>2, <1>4
<1>6. AsRecords(a, m) \in Seq(Record) /\ Len(AsRecords(a, m)) = N
  BY <1>1, <1>5, SeqDef
<1>7. \A k \in 1 .. N : AsRecords(a, m)[k] = Own(k)
  BY <1>4
<1> QED
  BY <1>3, <1>6, <1>7 DEF Ones

LEMMA ExtraRecords ==
    ASSUME NEW extra \in Extra
    PROVE  extra \in Seq(Record) /\ Ones(extra)
<1> DEFINE R == [matches |-> FALSE, data |-> Sink, ttl |-> 0, size |-> 1]
<1>1. R \in Record /\ R.size = 1
  BY WireAssumption DEF Record
<1>2. extra \in Seq({R})
  BY SeqOfIsSeq DEF Extra
<1> HIDE DEF R
<1>3. \A k \in 1 .. Len(extra) : extra[k] = R
  BY <1>2
<1>4. {R} \subseteq Record
  BY <1>1
<1>5. extra \in Seq(Record)
  BY <1>2, <1>4, SeqMonotonic
<1> QED
  BY <1>1, <1>3, <1>5 DEF Ones

LEMMA CraftedAre ==
    ASSUME NEW extra \in Extra, NEW a \in Answer, NEW m \in BOOLEAN
    PROVE  LET r == Crafted(extra, AsRecords(a, m)) IN
           /\ r \in Reply /\ Ones(r.records)
           /\ r.ancount = Len(a.data) /\ r.limit = Len(r.records)
           /\ Len(r.records) = Len(extra) + Len(a.data)
           /\ Len(r.records) = Len(a.data) =>
                \A k \in 1 .. Len(a.data) : /\ r.records[k].matches = m
                                            /\ r.records[k].data = a.data[k]
                                            /\ r.records[k].ttl = a.ttl
<1> DEFINE own == AsRecords(a, m)
           r == Crafted(extra, own)
<1>1. /\ own \in Seq(Record) /\ Ones(own) /\ Len(own) = Len(a.data)
      /\ \A k \in 1 .. Len(a.data) : /\ own[k].matches = m /\ own[k].data = a.data[k]
                                     /\ own[k].ttl = a.ttl
  BY OwnRecords
<1>2. extra \in Seq(Record) /\ Ones(extra)
  BY ExtraRecords
<1> HIDE DEF own
<1>3. /\ extra \o own \in Seq(Record) /\ Ones(extra \o own)
      /\ Len(extra \o own) = Len(extra) + Len(own)
      /\ Size(extra \o own) = Len(extra) + Len(own)
      /\ Len(extra) = 0 => \A k \in 1 .. Len(own) : (extra \o own)[k] = own[k]
  BY <1>1, <1>2, JoinedOnes
<1>4. /\ r.records = extra \o own /\ r.ancount = Len(own)
      /\ r.limit = Size(extra \o own)
  BY DEF Crafted
<1>5. Len(extra) \in Nat /\ Len(own) \in Nat
  BY <1>1, <1>2, LenProperties
<1>6. r \in Reply
  BY <1>3, <1>5 DEF Crafted, Reply
<1> HIDE DEF r
<1>7. ASSUME Len(r.records) = Len(a.data), NEW k \in 1 .. Len(a.data)
      PROVE  /\ r.records[k].matches = m /\ r.records[k].data = a.data[k]
             /\ r.records[k].ttl = a.ttl
  <2>1. Len(extra) = 0
    BY <1>1, <1>3, <1>4, <1>5, <1>7
  <2>2. r.records[k] = own[k]
    BY <1>1, <1>3, <1>4, <2>1
  <2> QED
    BY <1>1, <2>2
<1>8. /\ Ones(r.records) /\ r.ancount = Len(a.data) /\ r.limit = Len(r.records)
      /\ Len(r.records) = Len(extra) + Len(a.data)
  BY <1>1, <1>3, <1>4, <1>5
<1> QED
  BY <1>6, <1>7, <1>8 DEF r, own

-----------------------------------------------------------------------------
(***************************************************************************)
(* Types and bounds.                                                        *)
(***************************************************************************)
LEMMA NoReplyType == NoReply \in Reply /\ Ones(NoReply.records) /\ Nothing \in Answer
<1>1. <<>> \in Seq(Record) /\ Len(<<>>) = 0 /\ <<>> \in Seq(Data)
  BY EmptySeq
<1> QED
  BY <1>1 DEF NoReply, Reply, Ones, Nothing, Answer

LEMMA ByteAt ==
    ASSUME packet \in Seq(Byte), NEW n \in Nat, n < Len(packet)
    PROVE  At(n) \in Byte /\ At(n) \in Nat /\ Lower[At(n)] \in Nat
<1>1. n + 1 \in 1 .. Len(packet)
  OBVIOUS
<1>2. At(n) \in Byte
  BY <1>1 DEF At
<1> QED
  BY <1>2, WireAssumption

LEMMA ConcatLengths ==
    ASSUME NEW S, NEW s \in Seq(S), NEW t \in Seq(S)
    PROVE  s \o t \in Seq(S) /\ Len(s \o t) = Len(s) + Len(t) /\ Len(s) \in Nat
BY ConcatProperties, LenProperties

\* One more label: what is read is in the packet, what is written in the buffer.
LEMMA ReadLabelSound ==
    ASSUME ParserSound, ReadLabel
    PROVE  ParserSound'
<1> DEFINE len == At(p)
           label == Label(len)
           V == Valid \cup {Dot}
<1>0. /\ packet \in Seq(Byte) /\ name \in Seq(V) /\ p \in Nat /\ p < Len(packet)
      /\ Len(packet) \in Nat /\ Len(name) \in Nat /\ Len(name) <= MaxLen - 1
      /\ MaxLen \in Nat /\ pc = "label" /\ len # 0
  BY WireAssumption DEF ParserSound, TypeOK, InBounds, ReadLabel, InName
<1>1. len \in Nat /\ len < Len(packet) - (p + 1) /\ len < MaxLen - 1 - Len(name)
  BY <1>0, ByteAt DEF ReadLabel, Fits, Left, Room
<1>2. label = [k \in 1 .. len |-> Lower[At(p + k)]] /\ \A k \in 1 .. len : Lower[At(p + k)] \in V
  BY DEF ReadLabel, Allowed, Label
<1>3. /\ name' = Joined(label) /\ p' = p + 1 + len
      /\ UNCHANGED <<packet, qtype, answer, cached, pc>>
  BY DEF ReadLabel
<1> HIDE DEF len, label
<1>4. label \in Seq(V) /\ Len(label) = len
  <2>1. label \in [1 .. len -> V]
    BY <1>2
  <2> QED
    BY <1>1, <2>1, SeqDef
<1>5. name' \in Seq(V) /\ Len(name') <= MaxLen - 1
  <2>1. CASE name = <<>>
    <3>1. name' = label
      BY <1>3, <2>1 DEF Joined
    <3> QED
      BY <1>0, <1>1, <1>4, <3>1
  <2>2. CASE name # <<>>
    <3> HIDE DEF V
    <3>1. <<Dot>> \in Seq(V) /\ Len(<<Dot>>) = 1
      <4>1. Dot \in V
        BY DEF V
      <4> QED
        BY <4>1
    <3>2. PICK d : d = <<Dot>>
      OBVIOUS
    <3>3. d \in Seq(V) /\ Len(d) = 1
      BY <3>1, <3>2
    <3>4. name' = name \o d \o label
      BY <1>3, <2>2, <3>2 DEF Joined
    <3>5. name \o d \in Seq(V) /\ Len(name \o d) = Len(name) + 1
      BY <1>0, <3>3, ConcatLengths
    <3>6. name \o d \o label \in Seq(V) /\ Len(name \o d \o label) = Len(name \o d) + len
      BY <1>4, <3>5, ConcatLengths
    <3> QED
      BY <1>0, <1>1, <3>4, <3>5, <3>6 DEF V
  <2> QED
    BY <2>1, <2>2
<1>6. p' \in Nat /\ p' <= Len(packet)
  BY <1>0, <1>1, <1>3
<1> QED
  BY <1>0, <1>3, <1>5, <1>6 DEF ParserSound, TypeOK, InBounds, answer

LEMMA ReadTypeSound ==
    ASSUME ParserSound, ReadType
    PROVE  ParserSound'
<1>1. packet \in Seq(Byte) /\ p \in Nat /\ p + 3 <= Len(packet) /\ Len(packet) \in Nat
  BY DEF ParserSound, TypeOK, ReadType
<1>2. At(p + 1) \in Byte /\ At(p + 2) \in Byte
  BY <1>1, ByteAt
<1>3. qtype' \in Seq(Byte)
  BY <1>2 DEF ReadType
<1> QED
  BY <1>3 DEF ReadType, ParserSound, TypeOK, InBounds, AtEnd, answer, Pc

LEMMA ForgetTypes == Forget => packet' \in Seq(Byte) /\ name' \in Seq(Valid \cup {Dot})
                               /\ qtype' \in Seq(Byte) /\ Len(packet') = 0 /\ Len(name') = 0
BY EmptySeq DEF Forget

LEMMA WalkTypes ==
    ASSUME NEW r \in Reply, Walk(r)
    PROVE  /\ reply' \in Reply /\ kept' \in Seq(Data) /\ Len(kept') = 0 /\ Len(kept') <= MaxKept
           /\ p' = 0 /\ i' = 0 /\ min_ttl' = Forever /\ min_ttl' \in 0 .. Forever
BY EmptySeq, WireAssumption DEF Walk

LEMMA BlockedAnswer == [data |-> <<Sink>>, ttl |-> BlockTTL] \in Answer
BY WireAssumption DEF Answer

LEMMA SoundStep == ParserSound /\ [Next]_vars => ParserSound'
<1> SUFFICES ASSUME ParserSound, [Next]_vars PROVE ParserSound'
  OBVIOUS
<1>0. MaxLen \in Nat \ {0} /\ MaxKept \in Nat
  BY WireAssumption
<1>1. CASE ReadLabel
  BY <1>1, ReadLabelSound
<1>2. CASE ReadType
  BY <1>2, ReadTypeSound
<1>3. CASE Refuse \/ RefuseShort
  BY <1>3 DEF Refuse, RefuseShort, InName, AtEnd, ParserSound, TypeOK, InBounds, query,
     answer, Pc
<1>4. CASE Forward
  BY <1>4, ForgetTypes DEF Forward, ParserSound, TypeOK, InBounds, answer, Pc
<1>5. CASE Receive
  <2>1. PICK r \in Replies : Walk(r) /\ pc' = IF r.ok /\ r.ancount > 0 THEN "records"
                                              ELSE "none"
    BY <1>5 DEF Receive
  <2>2. r \in Reply
    BY RepliesAre
  <2> QED
    BY <1>5, <2>1, <2>2, WalkTypes DEF Receive, ParserSound, TypeOK, InBounds, query, Pc
<1>6. CASE Block
  <2>1. cached' \in Answer
    BY <1>6, BlockedAnswer DEF Block
  <2>2. PICK extra \in Extra : Walk(Crafted(extra, AsRecords(cached', qtype = TypeA)))
    BY <1>6 DEF Block
  <2>3. Crafted(extra, AsRecords(cached', qtype = TypeA)) \in Reply
    BY <2>1, CraftedAre
  <2> QED
    BY <1>6, <2>1, <2>2, <2>3, WalkTypes, ForgetTypes
       DEF Block, ParserSound, TypeOK, InBounds, Pc
<1>7. CASE TakeRecord
  <2> DEFINE r == reply.records[i + 1]
  <2>1. /\ reply \in Reply /\ i \in Nat /\ i < Len(reply.records) /\ p \in Nat
        /\ kept \in Seq(Data) /\ Len(kept) < MaxKept /\ min_ttl \in 0 .. Forever
        /\ Forever \in Nat
    BY <1>7, WireAssumption DEF ParserSound, TypeOK, TakeRecord, Another
  <2>2. r \in Record
    <3>1. reply.records \in Seq(Record) /\ i + 1 \in 1 .. Len(reply.records)
      BY <2>1 DEF Reply
    <3> QED
      BY <3>1
  <2>3. r.data \in Data /\ r.ttl \in Nat /\ r.size \in Nat
    BY <2>2 DEF Record
  <2>4. /\ p' = p + r.size /\ i' = i + 1
        /\ kept' = kept \/ kept' = Append(kept, r.data)
        /\ min_ttl' = min_ttl \/ (min_ttl' = r.ttl /\ r.ttl < min_ttl)
        /\ UNCHANGED <<query, reply, cached, pc>> /\ pc \in {"records", "again"}
    BY <1>7 DEF TakeRecord, Walking
  <2> HIDE DEF r
  <2>5. kept' \in Seq(Data) /\ Len(kept') <= MaxKept
    <3>1. Len(kept) \in Nat /\ Append(kept, r.data) \in Seq(Data)
          /\ Len(Append(kept, r.data)) = Len(kept) + 1
      BY <2>1, <2>3, AppendProperties, LenProperties
    <3> QED
      BY <1>0, <2>1, <2>4, <3>1
  <2>6. p' \in Nat /\ i' \in Nat /\ min_ttl' \in 0 .. Forever
    BY <2>1, <2>3, <2>4
  <2> QED
    BY <2>4, <2>5, <2>6 DEF ParserSound, TypeOK, InBounds, query
<1>8. CASE EndWalk
  <2>1. [data |-> kept, ttl |-> min_ttl] \in Answer
    BY WireAssumption DEF ParserSound, TypeOK, Answer
  <2>2. cached' \in Answer /\ pc' \in {"end", "none", "found"}
        /\ UNCHANGED <<query, p, answer>>
    BY <1>8, <2>1 DEF EndWalk, ParserSound, TypeOK
  <2> QED
    BY <2>2 DEF ParserSound, TypeOK, InBounds, query, answer, Pc
<1>9. CASE Serve
  <2>1. PICK extra \in Extra : Walk(Crafted(extra, AsRecords(cached, TRUE)))
    BY <1>9 DEF Serve
  <2>2. Crafted(extra, AsRecords(cached, TRUE)) \in Reply
    BY CraftedAre DEF ParserSound, TypeOK
  <2>3. PICK r \in Reply : Walk(r)
    BY <2>1, <2>2, Zenon
  <2> QED
    BY <1>9, <2>3, WalkTypes DEF Serve, ParserSound, TypeOK, InBounds, query, Pc
<1>10. CASE UNCHANGED vars
  BY <1>10 DEF vars, query, answer, ParserSound, TypeOK, InBounds
<1> QED
  BY <1>1, <1>2, <1>3, <1>4, <1>5, <1>6, <1>7, <1>8, <1>9, <1>10 DEF Next

\* Whatever the packet claims of its labels, parse_query reads inside it and writes
\* inside the buffer, terminator included; and the walk keeps no more than there is
\* room for.
THEOREM ParserSoundHolds == Spec => []ParserSound
<1>1. Init => ParserSound
  <2> SUFFICES ASSUME Init PROVE ParserSound
    OBVIOUS
  <2>1. packet \in Seq(Byte) /\ Len(packet) \in Nat
    BY WireAssumption, SeqOfIsSeq DEF Init
  <2>2. /\ <<>> \in Seq(Byte) /\ <<>> \in Seq(Data) /\ <<>> \in Seq(Valid \cup {Dot})
        /\ Len(<<>>) = 0
    BY EmptySeq
  <2>3. Forever \in 0 .. Forever /\ 0 <= MaxKept /\ 0 <= MaxLen - 1
    BY WireAssumption
  <2> QED
    BY <2>1, <2>2, <2>3, NoReplyType DEF Init, ParserSound, TypeOK, InBounds, Pc
<1> QED
  BY <1>1, SoundStep, PTL DEF Spec

-----------------------------------------------------------------------------
(***************************************************************************)
(* The places of the matching records.                                      *)
(***************************************************************************)
LEMMA PlaceIs ==
    ASSUME NEW n \in Nat
    PROVE  /\ IsFiniteSet(Matching(n)) /\ Place(n) \in Nat /\ Matching(n) \subseteq 1 .. n
           /\ n = 0 => Matching(n) = {} /\ Place(n) = 0
<1>1. IsFiniteSet(1 .. n) /\ Matching(n) \subseteq 1 .. n
  BY FS_Interval DEF Matching
<1>2. IsFiniteSet(Matching(n)) /\ Place(n) \in Nat
  BY <1>1, FS_Subset, FS_CardinalityType DEF Place
<1>3. n = 0 => Matching(n) = {} /\ Place(n) = 0
  BY <1>1, FS_EmptySet DEF Place
<1> QED
  BY <1>1, <1>2, <1>3

LEMMA NextPlace ==
    ASSUME NEW n \in Nat
    PROVE  IF reply.records[n + 1].matches
           THEN Matching(n + 1) = Matching(n) \cup {n + 1} /\ Place(n + 1) = Place(n) + 1
           ELSE Matching(n + 1) = Matching(n) /\ Place(n + 1) = Place(n)
<1>1. \A k \in 1 .. n + 1 : k \in 1 .. n \/ k = n + 1
  OBVIOUS
<1>2. n + 1 \in 1 .. n + 1 /\ n + 1 \notin 1 .. n /\ 1 .. n \subseteq 1 .. n + 1
  OBVIOUS
<1>3. CASE reply.records[n + 1].matches
  <2>1. Matching(n + 1) = Matching(n) \cup {n + 1} /\ n + 1 \notin Matching(n)
    BY <1>1, <1>2, <1>3 DEF Matching
  <2>2. Place(n + 1) = Place(n) + 1
    BY <2>1, PlaceIs, FS_AddElement DEF Place
  <2> QED
    BY <1>3, <2>1, <2>2
<1>4. CASE ~reply.records[n + 1].matches
  <2>1. Matching(n + 1) = Matching(n)
    BY <1>1, <1>2, <1>4 DEF Matching
  <2> QED
    BY <1>4, <2>1 DEF Place
<1> QED
  BY <1>3, <1>4

LEMMA PlaceWithin ==
    ASSUME NEW n \in Nat, NEW k \in Matching(n)
    PROVE  k \in Nat /\ Place(k) \in 1 .. Place(n)
<1>1. k \in 1 .. n /\ k \in Nat
  BY DEF Matching
<1>2. Matching(k) \subseteq Matching(n) /\ k \in Matching(k)
  BY <1>1 DEF Matching
<1>3. IsFiniteSet(Matching(n)) /\ IsFiniteSet(Matching(k)) /\ Place(k) \in Nat /\ Place(n) \in Nat
  BY <1>1, PlaceIs
<1>4. Place(k) <= Place(n)
  BY <1>2, <1>3, FS_Subset DEF Place
<1>5. Place(k) # 0
  BY <1>2, <1>3, FS_EmptySet DEF Place
<1> QED
  BY <1>1, <1>3, <1>4, <1>5

LEMMA PlaceBeyond ==
    ASSUME NEW m \in Nat, NEW n \in Nat, NEW k \in Matching(m), k > n
    PROVE  Place(k) > Place(n)
<1>1. k \in 1 .. m /\ k \in Nat
  BY DEF Matching
<1>2. Matching(n) \cup {k} \subseteq Matching(k) /\ k \notin Matching(n)
  BY <1>1 DEF Matching
<1>3. IsFiniteSet(Matching(n)) /\ IsFiniteSet(Matching(k)) /\ Place(k) \in Nat /\ Place(n) \in Nat
  BY <1>1, PlaceIs
<1>4. Cardinality(Matching(n) \cup {k}) = Place(n) + 1
  BY <1>2, <1>3, FS_AddElement DEF Place
<1>5. Cardinality(Matching(n) \cup {k}) <= Place(k)
  BY <1>2, <1>3, FS_Subset DEF Place
<1> QED
  BY <1>3, <1>4, <1>5

LEMMA LeastOfThree ==
    ASSUME NEW a \in Nat, NEW b \in Nat, NEW c \in Nat
    PROVE  LET m == Min({a, b, c})
           IN  m \in {a, b, c} /\ m <= a /\ m <= b /\ m <= c
<1>1. PICK m \in {a, b, c} : \A x \in {a, b, c} : m <= x
  OBVIOUS
<1> QED
  BY <1>1 DEF Min

-----------------------------------------------------------------------------
(***************************************************************************)
(* The invariant of the walk.  What has been kept are the matching records  *)
(* of those passed, in their places, and the least of their TTLs.           *)
(***************************************************************************)
Kept ==
    /\ p = i /\ i <= reply.ancount /\ i <= Len(reply.records) /\ i <= reply.limit
    /\ Len(kept) = Place(i)
    /\ \A k \in Matching(i) : /\ kept[Place(k)] = reply.records[k].data
                              /\ min_ttl <= reply.records[k].ttl
    /\ min_ttl = Forever \/ \E k \in Matching(i) : reply.records[k].ttl = min_ttl

\* An answer that was taken, or made up, can be taken again.
Proper == Len(cached.data) \in 1 .. MaxKept /\ cached.ttl \in 1 .. Forever - 1

\* A response of ours, with nothing behind its question, is the answer.
Ours ==
    /\ reply.ancount = Len(cached.data) /\ reply.limit = Len(reply.records)
    /\ Len(reply.records) = Len(cached.data) =>
         \A k \in 1 .. Len(cached.data) : /\ reply.records[k].matches = Fitting
                                          /\ reply.records[k].data = cached.data[k]
                                          /\ reply.records[k].ttl = cached.ttl

WalkInv ==
    /\ Ones(reply.records)
    /\ pc \in {"records", "again"} => Kept
    /\ pc \in {"found", "again"} => Proper
    /\ pc = "again" => Ours
    /\ pc = "parsed" => qtype # <<>>
    /\ pc \in {"sent", "records", "found"} => qtype = <<>>
    /\ KeptIsAnswer /\ ServedAsMeant

LEMMA StartsKept ==
    ASSUME NEW r \in Reply, Walk(r)
    PROVE  Kept'
<1>1. reply' = r /\ p' = 0 /\ i' = 0 /\ Len(kept') = 0 /\ min_ttl' = Forever
  BY WalkTypes DEF Walk
<1>2. 0 <= r.ancount /\ 0 <= Len(r.records) /\ 0 <= r.limit
  BY LenProperties DEF Reply
<1>3. Matching(0)' = {} /\ Place(0)' = 0
  <2>1. Matching(0)' = {}
    BY DEF Matching
  <2> QED
    BY <2>1, FS_EmptySet DEF Place
<1> QED
  BY <1>1, <1>2, <1>3 DEF Kept

LEMMA OneMoreKept ==
    ASSUME ParserSound, Ones(reply.records), Kept, TakeRecord
    PROVE  Kept'
<1> DEFINE r == reply.records[i + 1]
<1>1. /\ reply \in Reply /\ i \in Nat /\ i < Len(reply.records) /\ i < reply.ancount
      /\ Len(reply.records) \in Nat /\ reply.ancount \in Nat /\ reply.limit \in Nat
      /\ p + r.size <= reply.limit /\ p = i
      /\ kept \in Seq(Data) /\ min_ttl \in 0 .. Forever /\ Forever \in Nat
  BY WireAssumption DEF ParserSound, TypeOK, TakeRecord, Another, Counted, Kept, Reply
<1>2. r \in Record /\ r.size = 1
  <2>1. reply.records \in Seq(Record) /\ i + 1 \in 1 .. Len(reply.records)
    BY <1>1 DEF Reply
  <2> QED
    BY <2>1 DEF Ones
<1>3. r.data \in Data /\ r.ttl \in Nat
  BY <1>2 DEF Record
<1>4. p' = p + r.size /\ i' = i + 1 /\ reply' = reply
  BY DEF TakeRecord
<1>5. \A n : Matching(n)' = Matching(n) /\ Place(n)' = Place(n)
  BY <1>4 DEF Matching, Place
<1>6. /\ p' = i' /\ i' <= reply'.ancount /\ i' <= Len(reply'.records) /\ i' <= reply'.limit
      /\ Matching(i)' = Matching(i + 1) /\ Place(i)' = Place(i + 1)
  <2>1. Matching(i)' = Matching(i + 1)
    BY <1>4 DEF Matching
  <2>2. Place(i)' = Place(i + 1)
    BY <2>1 DEF Place
  <2> QED
    BY <1>1, <1>2, <1>4, <2>1, <2>2
<1>7. \A k \in Matching(i) : Place(k) \in 1 .. Len(kept) /\ reply.records[k].ttl \in Nat
  <2>1. ASSUME NEW k \in Matching(i) PROVE Place(k) \in 1 .. Len(kept)
    BY <1>1, PlaceWithin DEF Kept
  <2>2. ASSUME NEW k \in Matching(i) PROVE reply.records[k].ttl \in Nat
    <3>1. k \in 1 .. Len(reply.records) /\ reply.records \in Seq(Record)
      BY <1>1, PlaceIs DEF Reply
    <3>2. reply.records[k] \in Record
      BY <3>1
    <3> QED
      BY <3>2 DEF Record
  <2> QED
    BY <2>1, <2>2
<1> HIDE DEF r
<1>8. CASE ~r.matches
  <2>1. kept' = kept /\ min_ttl' = min_ttl
    BY <1>8 DEF TakeRecord, r
  <2>2. Matching(i + 1) = Matching(i) /\ Place(i + 1) = Place(i)
    BY <1>1, <1>8, NextPlace DEF r
  <2> QED
    BY <1>4, <1>5, <1>6, <2>1, <2>2 DEF Kept
<1>9. CASE r.matches
  <2>1. kept' = Append(kept, r.data)
        /\ min_ttl' = IF r.ttl < min_ttl THEN r.ttl ELSE min_ttl
    BY <1>9 DEF TakeRecord, r
  <2>2. Matching(i + 1) = Matching(i) \cup {i + 1} /\ Place(i + 1) = Place(i) + 1
    BY <1>1, <1>9, NextPlace DEF r
  <2>3. /\ Len(kept) \in Nat /\ Len(kept') = Len(kept) + 1 /\ kept'[Len(kept) + 1] = r.data
        /\ \A j \in 1 .. Len(kept) : kept'[j] = kept[j]
    BY <1>1, <1>3, <2>1, AppendProperties, LenProperties
  <2>4. Len(kept') = Place(i + 1)
    BY <2>2, <2>3 DEF Kept
  <2>5. /\ min_ttl' <= min_ttl /\ min_ttl' <= r.ttl /\ min_ttl' \in Nat
        /\ min_ttl' = min_ttl \/ min_ttl' = r.ttl
    BY <1>1, <1>3, <2>1
  <2>6. ASSUME NEW k \in Matching(i + 1)
        PROVE  kept'[Place(k)] = reply.records[k].data /\ min_ttl' <= reply.records[k].ttl
    <3>1. CASE k = i + 1
      <4>1. Place(k) = Len(kept) + 1 /\ reply.records[k] = r
        BY <2>2, <3>1 DEF Kept, r
      <4> QED
        BY <2>3, <2>5, <4>1
    <3>2. CASE k \in Matching(i)
      <4>1. Place(k) \in 1 .. Len(kept) /\ reply.records[k].ttl \in Nat
        BY <1>7, <3>2
      <4>2. kept[Place(k)] = reply.records[k].data /\ min_ttl <= reply.records[k].ttl
        BY <3>2 DEF Kept
      <4>3. min_ttl' <= reply.records[k].ttl
        BY <1>1, <2>5, <4>1, <4>2
      <4> QED
        BY <2>3, <4>1, <4>2, <4>3
    <3> QED
      BY <2>2, <3>1, <3>2
  <2>7. min_ttl' = Forever \/ \E k \in Matching(i + 1) : reply.records[k].ttl = min_ttl'
    BY <2>2, <2>5 DEF Kept, r
  <2> QED
    BY <1>4, <1>5, <1>6, <2>4, <2>6, <2>7 DEF Kept
<1> QED
  BY <1>8, <1>9

\* Where the walk ends, it has kept all there was to keep.
LEMMA EndsComplete ==
    ASSUME ParserSound, Ones(reply.records), Kept, ~Another
    PROVE  {k \in Matching(Section) : Place(k) <= MaxKept} = Matching(i)
<1>1. /\ reply \in Reply /\ i \in Nat /\ p = i /\ MaxKept \in Nat
      /\ Len(reply.records) \in Nat /\ reply.ancount \in Nat /\ reply.limit \in Nat
      /\ i <= reply.ancount /\ i <= Len(reply.records) /\ i <= reply.limit
      /\ Len(kept) = Place(i) /\ Len(kept) <= MaxKept /\ Len(kept) \in Nat
  BY WireAssumption DEF ParserSound, TypeOK, Kept, Reply
<1>2. /\ Section \in {reply.ancount, Len(reply.records), reply.limit}
      /\ Section <= reply.ancount /\ Section <= Len(reply.records) /\ Section <= reply.limit
  BY <1>1, LeastOfThree DEF Section
<1>3. Section \in Nat /\ i <= Section
  BY <1>1, <1>2
<1>4. i = Section \/ Len(kept) = MaxKept
  <2>1. \/ ~(i < reply.ancount) \/ ~(Len(kept) < MaxKept) \/ ~(i < Len(reply.records))
        \/ ~(p + reply.records[i + 1].size <= reply.limit)
    BY DEF Another, Counted
  <2>2. i < Len(reply.records) => reply.records[i + 1].size = 1
    BY <1>1 DEF Ones
  <2> QED
    BY <1>1, <1>2, <1>3, <2>1, <2>2
<1>5. ASSUME NEW k \in Matching(i) PROVE k \in Matching(Section) /\ Place(k) <= MaxKept
  <2>1. Place(k) <= Place(i) /\ Place(k) \in Nat
    BY <1>1, PlaceWithin, PlaceIs
  <2>2. k \in Matching(Section)
    BY <1>1, <1>3 DEF Matching
  <2> QED
    BY <1>1, <2>1, <2>2
<1>6. ASSUME NEW k \in Matching(Section), Place(k) <= MaxKept PROVE k \in Matching(i)
  <2>1. k \in Nat /\ Place(k) \in Nat
    BY <1>3, PlaceWithin, PlaceIs
  <2>2. CASE k > i
    <3>1. Place(k) > Len(kept)
      BY <1>1, <1>3, <2>2, PlaceBeyond
    <3>2. i # Section
      BY <1>3, <2>2 DEF Matching
    <3> QED
      BY <1>1, <1>4, <1>6, <2>1, <3>1, <3>2
  <2>3. CASE ~(k > i)
    BY <1>1, <1>3, <2>1, <2>3 DEF Matching
  <2> QED
    BY <2>2, <2>3
<1> QED
  BY <1>5, <1>6

LEMMA LeastIs ==
    ASSUME NEW S, S \subseteq Nat, NEW m \in S, \A n \in S : m <= n
    PROVE  Min(S) = m
<1>1. \A n \in S : (\A x \in S : n <= x) => n = m
  <2> SUFFICES ASSUME NEW n \in S, \A x \in S : n <= x PROVE n = m
    OBVIOUS
  <2>1. n <= m /\ m <= n /\ n \in Nat /\ m \in Nat
    OBVIOUS
  <2> QED
    BY <2>1
<1> QED
  BY <1>1 DEF Min

\* What the walk is to keep depends on the reply alone.
ToKeep == {k \in Matching(Section) : Place(k) <= MaxKept}

LEMMA SameReply ==
    ASSUME reply' = reply
    PROVE  ToKeep' = ToKeep /\ \A k : Place(k)' = Place(k)
<1>1. Section' = Section
  BY DEF Section
<1>2. \A k : Place(k)' = Place(k)
  BY DEF Place, Matching
<1>3. Matching(Section)' = Matching(Section)
  BY <1>1 DEF Matching
<1> QED
  BY <1>2, <1>3 DEF ToKeep

\* Where the walk over an upstream's reply ends, the first matching records are kept,
\* and min_ttl is the least of their TTLs.
LEMMA FoundIsAnswer ==
    ASSUME ParserSound, WalkInv, EndWalk, pc = "records"
    PROVE  WalkInv'
<1>1. /\ reply \in Reply /\ kept \in Seq(Data) /\ Len(kept) \in Nat /\ Len(kept) <= MaxKept
      /\ min_ttl \in 0 .. Forever /\ Forever \in Nat /\ MaxKept \in Nat /\ i \in Nat
      /\ Len(reply.records) \in Nat /\ reply.records \in Seq(Record)
  BY WireAssumption DEF ParserSound, TypeOK, Reply
<1>2. /\ ~Another /\ Ones(reply.records) /\ Kept
      /\ UNCHANGED <<query, p, reply, i, kept, min_ttl>> /\ pc' \in {"none", "found"}
  BY DEF EndWalk, answer, WalkInv
<1>a. qtype' = <<>>
  BY <1>2 DEF WalkInv, query
<1>3. CASE pc' = "none"
  BY <1>2, <1>3 DEF WalkInv, Ones, KeptIsAnswer, ServedAsMeant
<1>4. CASE pc' = "found"
  <2>1. cached' = [data |-> kept, ttl |-> min_ttl] /\ kept # <<>> /\ min_ttl \notin {0, Forever}
    BY <1>4 DEF EndWalk
  <2>2. cached'.data = kept /\ cached'.ttl = min_ttl
    BY <2>1
  <2>3. Len(kept) # 0
    BY <1>1, <2>1, EmptySeq
  <2>4. Proper'
    BY <1>1, <2>1, <2>2, <2>3 DEF Proper
  <2>5. ToKeep = Matching(i)
    BY <1>2, EndsComplete DEF ToKeep
  <2>6. /\ Len(kept) = Cardinality(ToKeep)
        /\ \A k \in ToKeep : kept[Place(k)] = reply.records[k].data
    BY <1>2, <2>5 DEF Kept, Place
  <2>7. min_ttl = Min({reply.records[k].ttl : k \in ToKeep})
    <3> DEFINE T == {reply.records[k].ttl : k \in ToKeep}
    <3>1. ASSUME NEW k \in ToKeep PROVE reply.records[k].ttl \in Nat
      <4>1. k \in 1 .. i /\ i <= Len(reply.records)
        BY <1>1, <1>2, <2>5 DEF Kept, Matching
      <4>2. k \in 1 .. Len(reply.records)
        BY <1>1, <4>1
      <4>3. reply.records[k] \in Record
        BY <1>1, <4>2
      <4> QED
        BY <4>3 DEF Record
    <3>2. T \subseteq Nat
      BY <3>1
    <3>3. min_ttl \in T
      BY <1>2, <2>1, <2>5 DEF Kept
    <3>4. \A t \in T : min_ttl <= t
      BY <1>2, <2>5 DEF Kept
    <3> HIDE DEF T
    <3>5. min_ttl = Min(T)
      BY <3>2, <3>3, <3>4, LeastIs
    <3> QED
      BY <3>5 DEF T
  <2>8. KeptIsAnswer'
    <3>1. ToKeep' = ToKeep /\ \A k : Place(k)' = Place(k)
      BY <1>2, SameReply
    <3>2. /\ Len(cached'.data) = Cardinality(ToKeep')
          /\ \A k \in ToKeep' : cached'.data[Place(k)'] = reply'.records[k].data
          /\ cached'.ttl = Min({reply'.records[k].ttl : k \in ToKeep'})
      BY <1>2, <2>2, <2>6, <2>7, <3>1
    <3> QED
      BY <3>2 DEF KeptIsAnswer, ToKeep
  <2> QED
    BY <1>2, <1>4, <1>a, <2>4, <2>8 DEF WalkInv, Ones, ServedAsMeant
<1> QED
  BY <1>2, <1>3, <1>4

\* Where the walk over a response of ours ends, what was meant has been found.
LEMMA EndIsAsMeant ==
    ASSUME ParserSound, WalkInv, EndWalk, pc = "again"
    PROVE  WalkInv'
<1>1. /\ ~Another /\ Ones(reply.records) /\ Kept /\ Proper /\ Ours
      /\ UNCHANGED <<query, p, reply, i, kept, min_ttl>> /\ pc' = "end" /\ cached' = cached
  BY DEF EndWalk, answer, WalkInv
<1>2. /\ reply \in Reply /\ kept \in Seq(Data) /\ Len(kept) \in Nat /\ Len(kept) <= MaxKept
      /\ min_ttl \in 0 .. Forever /\ Forever \in Nat /\ MaxKept \in Nat /\ i \in Nat
      /\ Len(reply.records) \in Nat /\ cached \in Answer
      /\ cached.data \in Seq(Data) /\ Len(cached.data) \in Nat /\ cached.ttl \in Nat
  BY WireAssumption DEF ParserSound, TypeOK, Reply, Answer
<1>3. ASSUME Len(reply.records) = Len(cached.data), Fitting
      PROVE  kept = cached.data /\ min_ttl = cached.ttl
  <2> DEFINE N == Len(cached.data)
  <2>1. /\ N \in 1 .. MaxKept /\ reply.ancount = N /\ reply.limit = N /\ i <= N
        /\ \A k \in 1 .. N : /\ reply.records[k].matches
                             /\ reply.records[k].data = cached.data[k]
                             /\ reply.records[k].ttl = cached.ttl
    BY <1>1, <1>3 DEF Ours, Proper, Kept
  <2>2. ASSUME NEW n \in 0 .. N PROVE Matching(n) = 1 .. n /\ Place(n) = n
    <3>1. \A k \in 1 .. n : k \in 1 .. N
      BY <1>2
    <3>2. Matching(n) = 1 .. n
      BY <2>1, <3>1 DEF Matching
    <3>3. Place(n) = n
      BY <3>2, FS_Interval DEF Place
    <3> QED
      BY <3>2, <3>3
  <2>3. Section = N
    <3>1. reply.ancount \in Nat /\ Len(reply.records) \in Nat /\ reply.limit \in Nat
      BY <1>2, <1>3, <2>1
    <3>2. Section \in {reply.ancount, Len(reply.records), reply.limit}
      BY <3>1, LeastOfThree DEF Section
    <3> QED
      BY <1>3, <2>1, <3>2
  <2>4. {k \in 1 .. N : Place(k) <= MaxKept} = 1 .. N
    <3>1. \A k \in 1 .. N : k \in 0 .. N /\ k <= MaxKept
      BY <1>2, <2>1
    <3> QED
      BY <2>2, <3>1
  <2>5. N \in 0 .. N /\ i \in 0 .. N
    BY <1>2, <2>1
  <2>6. 1 .. N = 1 .. i
    BY <1>1, <2>2, <2>3, <2>4, <2>5, EndsComplete
  <2>7. i = N
    <3>1. N \in 1 .. i
      BY <1>2, <2>1, <2>6
    <3> QED
      BY <1>2, <2>1, <3>1
  <2>8. Len(kept) = N /\ \A k \in 1 .. N : kept[k] = cached.data[k]
    <3>1. Len(kept) = N
      BY <1>1, <2>2, <2>5, <2>7 DEF Kept
    <3>2. ASSUME NEW k \in 1 .. N PROVE kept[k] = cached.data[k]
      <4>1. k \in Matching(i) /\ Place(k) = k
        BY <1>2, <2>2, <2>5, <2>7
      <4> QED
        BY <1>1, <2>1, <4>1 DEF Kept
    <3> QED
      BY <3>1, <3>2
  <2>9. kept = cached.data
    BY <1>2, <2>8, SeqEqual
  <2>10. min_ttl = cached.ttl
    <3>1. N \in Matching(i) /\ Matching(i) = 1 .. N
      BY <2>1, <2>2, <2>5, <2>7
    <3>2. min_ttl <= cached.ttl
      BY <1>1, <2>1, <3>1 DEF Kept
    <3>3. cached.ttl < Forever
      BY <1>1, <1>2 DEF Proper
    <3>4. min_ttl # Forever
      BY <1>2, <3>2, <3>3
    <3> QED
      BY <1>1, <2>1, <3>1, <3>4 DEF Kept
  <2> QED
    BY <2>9, <2>10
<1>4. ASSUME Len(reply.records) = Len(cached.data), ~Fitting
      PROVE  kept = <<>>
  <2>1. ASSUME NEW k \in 1 .. i PROVE ~reply.records[k].matches
    <3>1. k \in 1 .. Len(cached.data)
      BY <1>1, <1>2, <1>4 DEF Kept
    <3> QED
      BY <1>1, <1>4, <3>1 DEF Ours
  <2>2. Matching(i) = {}
    BY <2>1 DEF Matching
  <2>3. Len(kept) = 0
    BY <1>1, <2>2, FS_EmptySet DEF Kept, Place
  <2> QED
    BY <1>2, <2>3, EmptySeq
<1>5. ServedAsMeant'
  <2>1. Fitting' = Fitting
    BY <1>1 DEF Fitting, query
  <2> QED
    BY <1>1, <1>3, <1>4, <2>1 DEF ServedAsMeant
<1> QED
  BY <1>1, <1>5 DEF WalkInv, Ones, KeptIsAnswer

\* A response of ours is walked from its first record.
LEMMA OursIsWalked ==
    ASSUME NEW extra \in Extra, cached' \in Answer, Proper',
           NEW m \in BOOLEAN, m = Fitting',
           Walk(Crafted(extra, AsRecords(cached', m))), pc' = "again"
    PROVE  WalkInv'
<1> DEFINE r == Crafted(extra, AsRecords(cached', m))
<1>1. /\ r \in Reply /\ Ones(r.records)
      /\ r.ancount = Len(cached'.data) /\ r.limit = Len(r.records)
      /\ Len(r.records) = Len(cached'.data) =>
           \A k \in 1 .. Len(cached'.data) : /\ r.records[k].matches = m
                                             /\ r.records[k].data = cached'.data[k]
                                             /\ r.records[k].ttl = cached'.ttl
  BY CraftedAre
<1>2. Walk(r)
  OBVIOUS
<1> HIDE DEF r
<1>3. reply' = r /\ Kept'
  BY <1>1, <1>2, StartsKept DEF Walk
<1>4. Ours' /\ Ones(reply.records)'
  BY <1>1, <1>3 DEF Ours, Ones
<1> QED
  BY <1>3, <1>4 DEF WalkInv, KeptIsAnswer, ServedAsMeant

LEMMA WalkStep == ParserSound /\ ParserSound' /\ WalkInv /\ [Next]_vars => WalkInv'
<1> SUFFICES ASSUME ParserSound, ParserSound', WalkInv, [Next]_vars PROVE WalkInv'
  OBVIOUS
<1>1. ASSUME reply' = reply, pc' \in {"label", "refused", "parsed", "sent"},
             pc' = "parsed" => qtype' # <<>>, pc' = "sent" => qtype' = <<>>
      PROVE  WalkInv'
  BY <1>1 DEF WalkInv, Ones, KeptIsAnswer, ServedAsMeant
<1>2. CASE ReadLabel \/ Refuse \/ ReadType \/ RefuseShort \/ Forward
  <2>1. reply' = reply /\ pc' \in {"label", "refused", "parsed", "sent"}
    BY <1>2 DEF ReadLabel, Refuse, ReadType, RefuseShort, Forward, InName, AtEnd, answer
  <2>2. pc' = "parsed" => qtype' # <<>>
    <3>1. ASSUME ReadType PROVE qtype' # <<>>
      <4>1. qtype' = <<At(p + 1), At(p + 2)>>
        BY <3>1 DEF ReadType
      <4> QED
        BY <4>1
    <3> QED
      BY <1>2, <3>1 DEF ReadLabel, Refuse, RefuseShort, Forward, InName
  <2>3. pc' = "sent" => qtype' = <<>>
    BY <1>2 DEF ReadLabel, Refuse, ReadType, RefuseShort, Forward, InName, Forget
  <2> QED
    BY <1>1, <2>1, <2>2, <2>3
<1>3. CASE Receive
  <2>1. PICK r \in Replies : Walk(r) /\ pc' = IF r.ok /\ r.ancount > 0 THEN "records"
                                              ELSE "none"
    BY <1>3 DEF Receive
  <2>2. r \in Reply /\ Ones(r.records)
    BY RepliesAre
  <2>3. reply' = r /\ Kept' /\ pc' \in {"records", "none"}
    BY <2>1, <2>2, StartsKept DEF Walk
  <2>4. pc = "sent" /\ qtype' = qtype
    BY <1>3 DEF Receive, query
  <2> QED
    BY <2>2, <2>3, <2>4 DEF WalkInv, Ones, KeptIsAnswer, ServedAsMeant
<1>4. CASE Block
  <2>1. cached' = [data |-> <<Sink>>, ttl |-> BlockTTL] /\ pc' = "again"
    BY <1>4 DEF Block
  <2>2. PICK extra \in Extra : Walk(Crafted(extra, AsRecords(cached', qtype = TypeA)))
    BY <1>4 DEF Block
  <2>3. cached' \in Answer /\ Proper'
    BY <2>1, BlockedAnswer, WireAssumption DEF Proper
  <2>4. (qtype = TypeA) = Fitting' /\ (qtype = TypeA) \in BOOLEAN
    BY <1>4 DEF Block, WalkInv, Fitting
  <2> QED
    BY <2>1, <2>2, <2>3, <2>4, OursIsWalked
<1>5. CASE TakeRecord
  <2>1. /\ pc \in {"records", "again"} /\ pc' = pc /\ reply' = reply /\ cached' = cached
        /\ Ones(reply.records)
    BY <1>5 DEF TakeRecord, Walking, WalkInv
  <2>2. Kept'
    BY <1>5, <2>1, OneMoreKept DEF WalkInv
  <2>3. qtype' = qtype
    BY <1>5 DEF TakeRecord, query
  <2> QED
    BY <2>1, <2>2, <2>3 DEF WalkInv, Ones, Proper, Ours, KeptIsAnswer, ServedAsMeant, Fitting
<1>6. CASE EndWalk
  BY <1>6, FoundIsAnswer, EndIsAsMeant DEF EndWalk, Walking
<1>7. CASE Serve
  <2>1. PICK extra \in Extra : Walk(Crafted(extra, AsRecords(cached, TRUE)))
    BY <1>7 DEF Serve
  <2>2. cached' = cached /\ pc' = "again" /\ cached \in Answer /\ Proper
    BY <1>7 DEF Serve, WalkInv, ParserSound, TypeOK
  <2>3. Walk(Crafted(extra, AsRecords(cached', TRUE))) /\ cached' \in Answer /\ Proper'
    BY <2>1, <2>2 DEF Proper
  <2>4. Fitting' = TRUE
    BY <1>7 DEF Serve, WalkInv, Fitting, query
  <2> QED
    BY <2>2, <2>3, <2>4, OursIsWalked
<1>8. CASE UNCHANGED vars
  <2>1. /\ reply' = reply /\ cached' = cached /\ pc' = pc /\ kept' = kept
        /\ min_ttl' = min_ttl /\ i' = i /\ p' = p /\ qtype' = qtype
    BY <1>8 DEF vars, answer, query
  <2>2. ToKeep' = ToKeep /\ \A k : Place(k)' = Place(k)
    BY <2>1, SameReply
  <2>3. Matching(i)' = Matching(i) /\ Place(i)' = Place(i)
    BY <2>1 DEF Matching, Place
  <2>4. pc \in {"records", "again"} => Kept'
    BY <2>1, <2>2, <2>3 DEF WalkInv, Kept
  <2>5. KeptIsAnswer'
    BY <2>1, <2>2 DEF WalkInv, KeptIsAnswer, ToKeep
  <2> QED
    BY <2>1, <2>4, <2>5 DEF WalkInv, Ones, Proper, Ours, ServedAsMeant, Fitting
<1> QED
  BY <1>2, <1>3, <1>4, <1>5, <1>6, <1>7, <1>8 DEF Next

\* Along a walk, what is kept are the matching records of those passed.
THEOREM WalkInvariance == Spec => []WalkInv
<1>1. Init => WalkInv
  BY NoReplyType DEF Init, WalkInv, KeptIsAnswer, ServedAsMeant
<1> QED
  BY <1>1, WalkStep, ParserSoundHolds, PTL DEF Spec

\* However many records a reply has, wherever it is cut off and whatever its header
\* counts, parse_answer_records hands the answer cache the first matching records of
\* the answer section, in order, with the least of their TTLs.
THEOREM KeptIsAnswerHolds == Spec => []KeptIsAnswer
<1>1. WalkInv => KeptIsAnswer
  BY DEF WalkInv
<1> QED
  BY <1>1, WalkInvariance, PTL

\* Who walks a blocked or a cached response, made for a request with nothing behind
\* its question, finds all of its answers with the TTL that was meant; and none in
\* a blocked response to a query of another type than A.
THEOREM ServedAsMeantHolds == Spec => []ServedAsMeant
<1>1. WalkInv => ServedAsMeant
  BY DEF WalkInv
<1> QED
  BY <1>1, WalkInvariance, PTL

-----------------------------------------------------------------------------
(***************************************************************************)
(* The two forms of a question.                                             *)
(***************************************************************************)
LEMMA Induction ==
    ASSUME NEW S, 0 \in S, \A n \in Nat : n \in S => n + 1 \in S
    PROVE  \A n \in Nat : n \in S
<1> DEFINE T == Nat \ S
<1>1. SUFFICES ASSUME T # {} PROVE FALSE
  OBVIOUS
<1>2. PICK n \in T : \A m \in T : n <= m
  BY <1>1, LeastOf
<1>3. n - 1 \in Nat /\ n - 1 \notin T
  BY <1>2
<1> QED
  BY <1>2, <1>3

\* A function on 0 .. N may be defined by its first value and by each from the one
\* before.
Iterates(f, a, N, G) == f[0] = a /\ \A n \in 1 .. N : f[n] = G[n][f[n - 1]]

LEMMA Recursion ==
    ASSUME NEW X, NEW a \in X, NEW N \in Nat, NEW G \in [1 .. N -> [X -> X]]
    PROVE  \E f \in [0 .. N -> X] : Iterates(f, a, N, G)
<1> USE DEF Iterates
<1> DEFINE Is(f, k) == Iterates(f, a, k, G)
           S == {k \in Nat : k <= N => \E f \in [0 .. k -> X] : Is(f, k)}
<1>1. 0 \in S
  <2>1. Is([n \in 0 .. 0 |-> a], 0)
    OBVIOUS
  <2> QED
    BY <2>1
<1>2. ASSUME NEW k \in Nat, k \in S PROVE k + 1 \in S
  <2> SUFFICES ASSUME k + 1 <= N PROVE \E f \in [0 .. k + 1 -> X] : Is(f, k + 1)
    OBVIOUS
  <2>1. PICK f \in [0 .. k -> X] : Is(f, k)
    BY <1>2
  <2> DEFINE y == G[k + 1][f[k]]
             g == [n \in 0 .. k + 1 |-> IF n = k + 1 THEN y ELSE f[n]]
  <2>2. y \in X
    BY <2>1
  <2>3. g \in [0 .. k + 1 -> X] /\ g[k + 1] = y /\ \A n \in 0 .. k : g[n] = f[n]
    BY <2>2
  <2> HIDE DEF g
  <2>4. Is(g, k + 1)
    <3>1. g[0] = a
      BY <2>1, <2>3
    <3>2. ASSUME NEW n \in 1 .. k PROVE g[n] = G[n][g[n - 1]]
      BY <2>1, <2>3, <3>2
    <3>3. g[k + 1] = G[k + 1][g[k]]
      BY <2>3
    <3> QED
      BY <3>1, <3>2, <3>3
  <2> QED
    BY <2>3, <2>4
<1> HIDE DEF S
<1>3. N \in S
  BY <1>1, <1>2, Induction
<1> QED
  BY <1>3 DEF S

LEMMA LabelIs ==
    ASSUME NEW l \in Labels
    PROVE  /\ l \in Seq(Byte) /\ l \in Seq(Nat) /\ Len(l) \in Nat \ {0} /\ Len(l) \in Byte
           /\ \A k \in 1 .. Len(l) : l[k] \in Byte /\ Lower[l[k]] \in Valid
           /\ LowerCase(l) \in Seq(Valid \cup {Dot}) /\ Len(LowerCase(l)) = Len(l)
           /\ \A k \in 1 .. Len(l) : LowerCase(l)[k] = Lower[l[k]]
<1> DEFINE B == {c \in Byte : Lower[c] \in Valid}
<1>1. l \in Seq(B) /\ l # <<>> /\ Len(l) \in Byte
  BY WireAssumption, SeqOfIsSeq DEF Labels
<1>2. \A b \in B : b \in Byte /\ b \in Nat /\ Lower[b] \in Valid
  BY WireAssumption
<1> HIDE DEF B
<1>3. Len(l) \in Nat \ {0} /\ \A k \in 1 .. Len(l) : l[k] \in B
  BY <1>1, EmptySeq
<1>4. l \in Seq(Byte) /\ l \in Seq(Nat)
  <2>1. B \subseteq Byte /\ B \subseteq Nat
    BY <1>2
  <2> QED
    BY <1>1, <2>1, SeqMonotonic
<1>5. LowerCase(l) = [k \in 1 .. Len(l) |-> Lower[l[k]]]
  BY DEF LowerCase
<1>6. LowerCase(l) \in [1 .. Len(l) -> Valid \cup {Dot}]
  BY <1>2, <1>3, <1>5
<1>7. LowerCase(l) \in Seq(Valid \cup {Dot}) /\ Len(LowerCase(l)) = Len(l)
  BY <1>3, <1>6, SeqDef
<1> QED
  BY <1>1, <1>2, <1>3, <1>4, <1>5, <1>7

LEMMA QuestionIs ==
    ASSUME NEW ls \in Questions
    PROVE  /\ ls \in Seq(Labels) /\ Len(ls) \in Nat
           /\ \A n \in 1 .. Len(ls) : ls[n] \in Labels
<1>1. MaxBytes \div 2 \in Nat
  BY WireAssumption
<1>2. ls \in Seq(Labels)
  BY <1>1, SeqOfIsSeq DEF Questions
<1> QED
  BY <1>2

LEMMA ConcatIs ==
    ASSUME NEW S, NEW s \in Seq(S), NEW t \in Seq(S), NEW c, c = s \o t
    PROVE  /\ c \in Seq(S) /\ Len(c) = Len(s) + Len(t)
           /\ \A k \in 1 .. Len(s) : c[k] = s[k]
           /\ \A k \in 1 .. Len(t) : c[Len(s) + k] = t[k]
<1>1. /\ c \in Seq(S) /\ Len(c) = Len(s) + Len(t)
      /\ \A k \in 1 .. Len(s) + Len(t) : c[k] = IF k <= Len(s) THEN s[k] ELSE t[k - Len(s)]
  BY ConcatProperties, Zenon
<1>2. Len(s) \in Nat /\ Len(t) \in Nat
  BY LenProperties
<1>3. ASSUME NEW k \in 1 .. Len(s) PROVE c[k] = s[k]
  BY <1>1, <1>2
<1>4. ASSUME NEW j \in 1 .. Len(t) PROVE c[Len(s) + j] = t[j]
  <2>1. PICK k : k = Len(s) + j
    OBVIOUS
  <2>2. ~(k <= Len(s)) /\ k - Len(s) = j /\ k \in 1 .. Len(s) + Len(t)
    BY <1>2, <2>1
  <2> QED
    BY <1>1, <2>1, <2>2
<1> QED
  BY <1>1, <1>3, <1>4

\* What a sequence becomes with one element and another sequence behind it.
LEMMA Chunk ==
    ASSUME NEW S, NEW s \in Seq(S), NEW m \in S, NEW l \in Seq(S), NEW c,
           c = s \o <<m>> \o l
    PROVE  /\ c \in Seq(S) /\ Len(c) = Len(s) + 1 + Len(l)
           /\ \A k \in 1 .. Len(s) : c[k] = s[k]
           /\ c[Len(s) + 1] = m
           /\ \A k \in 1 .. Len(l) : c[Len(s) + 1 + k] = l[k]
<1>1. PICK d : d = <<m>>
  OBVIOUS
<1>2. d \in Seq(S)
  BY <1>1
<1>3. Len(d) = 1 /\ d[1] = m
  BY <1>1
<1>4. PICK h : h = s \o d
  OBVIOUS
<1>5. c = h \o l
  BY <1>1, <1>4
<1>6. /\ h \in Seq(S) /\ Len(h) = Len(s) + Len(d)
      /\ \A k \in 1 .. Len(s) : h[k] = s[k]
      /\ \A k \in 1 .. Len(d) : h[Len(s) + k] = d[k]
  BY <1>2, <1>4, ConcatIs, SMT
<1>7. h \in Seq(S)
  BY <1>6
<1>8. /\ c \in Seq(S) /\ Len(c) = Len(h) + Len(l)
      /\ \A k \in 1 .. Len(h) : c[k] = h[k]
      /\ \A k \in 1 .. Len(l) : c[Len(h) + k] = l[k]
  BY ONLY l \in Seq(S), <1>5, <1>7, ConcatIs, SMT
<1>9. Len(s) \in Nat /\ Len(l) \in Nat /\ Len(h) = Len(s) + 1
  BY <1>3, <1>6, LenProperties
<1>10. h[Len(s) + 1] = m
  BY <1>3, <1>6
<1>11. 1 .. Len(s) \subseteq 1 .. Len(h) /\ Len(s) + 1 \in 1 .. Len(h)
  BY <1>9
<1> QED
  BY <1>6, <1>8, <1>9, <1>10, <1>11

LEMMA CodesAre ==
    ASSUME NEW ls \in Seq(Labels)
    PROVE  /\ Codes(ls) \in [0 .. Len(ls) -> Seq(Nat)] /\ Codes(ls)[0] = <<>>
           /\ \A n \in 1 .. Len(ls) : Codes(ls)[n] = Codes(ls)[n - 1] \o <<Len(ls[n])>> \o ls[n]
<1> DEFINE N == Len(ls)
           X == Seq(Nat)
           G == [n \in 1 .. N |-> [s \in X |-> s \o <<Len(ls[n])>> \o ls[n]]]
           Rec(f) == f = [n \in 0 .. N |-> IF n = 0 THEN <<>>
                                           ELSE f[n - 1] \o <<Len(ls[n])>> \o ls[n]]
           C == CHOOSE f : Rec(f)
<1>1. N \in Nat /\ <<>> \in X
  BY EmptySeq
<1>2. ASSUME NEW n \in 1 .. N, NEW s \in X PROVE s \o <<Len(ls[n])>> \o ls[n] \in X
  <2>1. ls[n] \in Labels
    OBVIOUS
  <2>2. ls[n] \in Seq(Nat) /\ Len(ls[n]) \in Nat
    BY <2>1, LabelIs
  <2>3. PICK l, m : l = ls[n] /\ m = Len(ls[n])
    OBVIOUS
  <2>4. l \in Seq(Nat) /\ m \in Nat
    BY <2>2, <2>3
  <2>5. PICK c : c = s \o <<m>> \o l
    OBVIOUS
  <2>6. c \in X
    BY <2>4, <2>5, Chunk
  <2> QED
    BY <2>3, <2>5, <2>6, Zenon
<1>3. G \in [1 .. N -> [X -> X]]
  BY <1>2
<1>4. \A n \in 1 .. N, s \in X : G[n][s] = s \o <<Len(ls[n])>> \o ls[n]
  BY Zenon
<1> HIDE DEF G, X
<1>5. PICK f \in [0 .. N -> X] : Iterates(f, <<>>, N, G)
  BY <1>1, <1>3, Recursion
<1>6. f[0] = <<>> /\ \A n \in 1 .. N : f[n] = f[n - 1] \o <<Len(ls[n])>> \o ls[n]
  <2>1. ASSUME NEW n \in 1 .. N PROVE f[n] = f[n - 1] \o <<Len(ls[n])>> \o ls[n]
    <3>1. n - 1 \in 0 .. N
      BY <1>1
    <3>2. f[n - 1] \in X /\ f[n] = G[n][f[n - 1]]
      BY <1>5, <3>1 DEF Iterates
    <3> QED
      BY <1>4, <3>2, Zenon
  <2> QED
    BY <1>5, <2>1 DEF Iterates
<1>7. Rec(f)
  <2>1. \A n \in 0 .. N : n = 0 \/ n \in 1 .. N
    BY <1>1
  <2>2. \A n \in 0 .. N : f[n] = IF n = 0 THEN <<>>
                                 ELSE f[n - 1] \o <<Len(ls[n])>> \o ls[n]
    BY <1>6, <2>1, Zenon
  <2>3. f = [n \in 0 .. N |-> f[n]]
    BY <1>5
  <2> QED
    BY <2>2, <2>3, Zenon
<1>8. Codes(ls) = C /\ Rec(C)
  BY <1>7, Zenon DEF Codes
<1> HIDE DEF C
<1>9. C[0] = <<>> /\ \A n \in 1 .. N : C[n] = C[n - 1] \o <<Len(ls[n])>> \o ls[n]
  <2>1. 0 \in 0 .. N /\ \A n \in 1 .. N : n \in 0 .. N /\ n # 0
    BY <1>1
  <2> QED
    BY <1>8, <2>1, Zenon
<1>10. \A n \in Nat : n <= N => C[n] \in X
  <2> DEFINE S == {n \in Nat : n <= N => C[n] \in X}
  <2>1. 0 \in S
    BY <1>1, <1>9
  <2>2. ASSUME NEW n \in Nat, n \in S PROVE n + 1 \in S
    <3> SUFFICES ASSUME n + 1 <= N PROVE C[n + 1] \in X
      OBVIOUS
    <3>1. PICK m \in 1 .. N : m = n + 1
      BY <1>1
    <3>2. m - 1 = n /\ C[m - 1] \in X
      BY <1>1, <2>2, <3>1
    <3>3. C[m] = C[m - 1] \o <<Len(ls[m])>> \o ls[m]
      BY <1>9, Zenon
    <3>4. C[m] \in X
      BY <1>2, <3>2, <3>3, Zenon
    <3> QED
      BY <3>1, <3>4
  <2> HIDE DEF S
  <2>3. \A n \in Nat : n \in S
    BY <2>1, <2>2, Induction
  <2> QED
    BY <2>3 DEF S
<1>11. C \in [0 .. N -> X]
  <2>1. DOMAIN C = 0 .. N /\ C = [n \in 0 .. N |-> C[n]]
    BY <1>8
  <2>2. \A n \in 0 .. N : C[n] \in X
    BY <1>1, <1>10
  <2> QED
    BY <2>1, <2>2
<1> QED
  BY <1>8, <1>9, <1>11 DEF X

LEMMA NamesAre ==
    ASSUME NEW ls \in Seq(Labels)
    PROVE  /\ Names(ls) \in [0 .. Len(ls) -> Seq(Valid \cup {Dot})] /\ Names(ls)[0] = <<>>
           /\ \A n \in 1 .. Len(ls) :
                Names(ls)[n] = IF n = 1 THEN LowerCase(ls[1])
                               ELSE Names(ls)[n - 1] \o <<Dot>> \o LowerCase(ls[n])
<1> DEFINE N == Len(ls)
           X == Seq(Valid \cup {Dot})
           Step(n, s) == IF n = 1 THEN LowerCase(ls[1]) ELSE s \o <<Dot>> \o LowerCase(ls[n])
           G == [n \in 1 .. N |-> [s \in X |-> Step(n, s)]]
           Rec(f) == f = [n \in 0 .. N |->
                            IF n = 0 THEN <<>>
                            ELSE IF n = 1 THEN LowerCase(ls[1])
                            ELSE f[n - 1] \o <<Dot>> \o LowerCase(ls[n])]
           C == CHOOSE f : Rec(f)
<1>1. N \in Nat /\ <<>> \in X
  BY EmptySeq
<1>2. ASSUME NEW n \in 1 .. N, NEW s \in X PROVE Step(n, s) \in X
  <2>1. ls[n] \in Labels
    OBVIOUS
  <2>2. LowerCase(ls[n]) \in X /\ Dot \in Valid \cup {Dot}
    BY <2>1, LabelIs
  <2>3. PICK c : c = s \o <<Dot>> \o LowerCase(ls[n])
    OBVIOUS
  <2>4. c \in X
    BY <2>2, <2>3, Chunk, Zenon
  <2> QED
    BY <2>2, <2>3, <2>4
<1>3. G \in [1 .. N -> [X -> X]]
  <2> HIDE DEF Step
  <2> QED
    BY <1>2
<1>4. \A n \in 1 .. N, s \in X : G[n][s] = Step(n, s)
  BY Zenon
<1> HIDE DEF G, X
<1>5. PICK f \in [0 .. N -> X] : Iterates(f, <<>>, N, G)
  BY <1>1, <1>3, Recursion
<1>6. f[0] = <<>> /\ \A n \in 1 .. N : f[n] = Step(n, f[n - 1])
  <2>1. ASSUME NEW n \in 1 .. N PROVE f[n] = Step(n, f[n - 1])
    <3>1. n - 1 \in 0 .. N
      BY <1>1
    <3>2. f[n - 1] \in X /\ f[n] = G[n][f[n - 1]]
      BY <1>5, <3>1 DEF Iterates
    <3> QED
      BY <1>4, <3>2, Zenon
  <2> QED
    BY <1>5, <2>1 DEF Iterates
<1>7. Rec(f)
  <2>1. \A n \in 0 .. N : n = 0 \/ n \in 1 .. N
    BY <1>1
  <2>2. \A n \in 0 .. N : f[n] = IF n = 0 THEN <<>>
                                 ELSE IF n = 1 THEN LowerCase(ls[1])
                                 ELSE f[n - 1] \o <<Dot>> \o LowerCase(ls[n])
    BY <1>6, <2>1, Zenon
  <2>3. f = [n \in 0 .. N |-> f[n]]
    BY <1>5
  <2> QED
    BY <2>2, <2>3, Zenon
<1>8. Names(ls) = C /\ Rec(C)
  BY <1>7, Zenon DEF Names
<1> HIDE DEF C
<1>9. C[0] = <<>> /\ \A n \in 1 .. N : C[n] = Step(n, C[n - 1])
  <2>1. 0 \in 0 .. N /\ \A n \in 1 .. N : n \in 0 .. N /\ n # 0
    BY <1>1
  <2> QED
    BY <1>8, <2>1, Zenon
<1>10. \A n \in Nat : n <= N => C[n] \in X
  <2> DEFINE S == {n \in Nat : n <= N => C[n] \in X}
  <2>1. 0 \in S
    BY <1>1, <1>9
  <2>2. ASSUME NEW n \in Nat, n \in S PROVE n + 1 \in S
    <3> SUFFICES ASSUME n + 1 <= N PROVE C[n + 1] \in X
      OBVIOUS
    <3>1. PICK m \in 1 .. N : m = n + 1
      BY <1>1
    <3>2. m - 1 = n /\ C[m - 1] \in X
      BY <1>1, <2>2, <3>1
    <3> HIDE DEF Step
    <3>3. C[m] \in X
      BY <1>2, <1>9, <3>2, Zenon
    <3> QED
      BY <3>1, <3>3
  <2> HIDE DEF S
  <2>3. \A n \in Nat : n \in S
    BY <2>1, <2>2, Induction
  <2> QED
    BY <2>3 DEF S
<1>11. C \in [0 .. N -> X]
  <2>1. DOMAIN C = 0 .. N /\ C = [n \in 0 .. N |-> C[n]]
    BY <1>8
  <2>2. \A n \in 0 .. N : C[n] \in X
    BY <1>1, <1>10
  <2> QED
    BY <2>1, <2>2
<1> QED
  BY <1>8, <1>9, <1>11 DEF X

\* One label more of a packet.
LEMMA CodeNext ==
    ASSUME NEW ls \in Seq(Labels), NEW n \in 0 .. Len(ls) - 1
    PROVE  LET b == Codes(ls)[n]
               c == Codes(ls)[n + 1]
               l == ls[n + 1]
           IN  /\ b \in Seq(Nat) /\ c \in Seq(Nat) /\ l \in Labels
               /\ Len(b) \in Nat /\ Len(c) = Len(b) + 1 + Len(l)
               /\ \A k \in 1 .. Len(b) : c[k] = b[k]
               /\ c[Len(b) + 1] = Len(l)
               /\ \A k \in 1 .. Len(l) : c[Len(b) + 1 + k] = l[k]
<1>1. PICK m \in 1 .. Len(ls) : m = n + 1
  BY LenProperties
<1>2. m - 1 = n /\ n \in 0 .. Len(ls) /\ m \in 0 .. Len(ls)
  BY <1>1, LenProperties
<1>3. PICK b : b = Codes(ls)[n]
  OBVIOUS
<1>4. PICK c : c = Codes(ls)[m]
  OBVIOUS
<1>5. PICK l : l = ls[m]
  OBVIOUS
<1>6. b \in Seq(Nat) /\ c = b \o <<Len(l)>> \o l
  BY <1>2, <1>3, <1>4, <1>5, CodesAre
<1>7. l \in Labels /\ l \in Seq(Nat) /\ Len(l) \in Nat
  BY <1>5, LabelIs
<1>8. /\ c \in Seq(Nat) /\ Len(c) = Len(b) + 1 + Len(l)
      /\ \A k \in 1 .. Len(b) : c[k] = b[k]
      /\ c[Len(b) + 1] = Len(l)
      /\ \A k \in 1 .. Len(l) : c[Len(b) + 1 + k] = l[k]
  BY <1>6, <1>7, Chunk
<1>9. Len(b) \in Nat
  BY <1>6, LenProperties
<1> QED
  BY <1>1, <1>3, <1>4, <1>5, <1>6, <1>7, <1>8, <1>9

\* What n labels look like is the beginning of what more of them do.
LEMMA CodeGrows ==
    ASSUME NEW ls \in Seq(Labels), NEW m \in 0 .. Len(ls), NEW n \in 0 .. m
    PROVE  LET b == Codes(ls)[n]
               c == Codes(ls)[m]
           IN  /\ Len(b) \in Nat /\ Len(c) \in Nat /\ Len(b) <= Len(c) /\ 2 * m <= Len(c)
               /\ \A k \in 1 .. Len(b) : c[k] = b[k]
<1> DEFINE N == Len(ls)
           L(x) == Len(Codes(ls)[x])
           Begins(x) == /\ L(x) \in Nat /\ L(n) <= L(x)
                        /\ \A k \in 1 .. L(n) : Codes(ls)[x][k] = Codes(ls)[n][k]
           S == {x \in Nat : /\ n + x <= N => Begins(n + x)
                             /\ x <= N => L(x) \in Nat /\ 2 * x <= L(x)}
<1>1. N \in Nat /\ n \in 0 .. N /\ m - n \in Nat /\ n + (m - n) = m
  BY LenProperties
<1>2. L(n) \in Nat
  BY <1>1, CodesAre, LenProperties
<1>3. L(0) = 0
  BY CodesAre, EmptySeq
<1>4. ASSUME NEW x \in 0 .. N - 1
      PROVE  /\ L(x) \in Nat /\ L(x + 1) \in Nat /\ L(x + 1) >= L(x) + 2
             /\ \A k \in 1 .. L(x) : Codes(ls)[x + 1][k] = Codes(ls)[x][k]
  <2>1. PICK b, c, l : b = Codes(ls)[x] /\ c = Codes(ls)[x + 1] /\ l = ls[x + 1]
    OBVIOUS
  <2>2. /\ l \in Labels /\ Len(b) \in Nat /\ Len(c) = Len(b) + 1 + Len(l)
        /\ \A k \in 1 .. Len(b) : c[k] = b[k]
    BY <2>1, CodeNext, Zenon
  <2>3. Len(l) \in Nat \ {0}
    BY <2>2, LabelIs
  <2>4. Len(c) \in Nat /\ Len(c) >= Len(b) + 2
    BY <2>2, <2>3
  <2> QED
    BY <2>1, <2>2, <2>4
<1> HIDE DEF L
<1>5. 0 \in S
  <2>1. n + 0 = n
    BY <1>1
  <2> QED
    BY <1>2, <1>3, <2>1
<1>6. ASSUME NEW x \in Nat, x \in S PROVE x + 1 \in S
  <2>1. ASSUME n + (x + 1) <= N PROVE Begins(n + (x + 1))
    <3>1. PICK y \in 0 .. N - 1 : y = n + x
      BY <1>1, <2>1
    <3>2. n + (x + 1) = y + 1 /\ y <= N
      BY <1>1, <3>1
    <3>3. Begins(y)
      BY <1>1, <1>6, <3>1, <3>2
    <3>4. /\ L(y) \in Nat /\ L(y + 1) \in Nat /\ L(y + 1) >= L(y) + 2
          /\ \A k \in 1 .. L(y) : Codes(ls)[y + 1][k] = Codes(ls)[y][k]
      BY <1>4
    <3>5. Begins(y + 1)
      <4>1. L(n) <= L(y + 1)
        BY <1>2, <3>3, <3>4
      <4>2. ASSUME NEW k \in 1 .. L(n) PROVE Codes(ls)[y + 1][k] = Codes(ls)[n][k]
        <5>1. k \in 1 .. L(y)
          BY <1>2, <3>3
        <5> QED
          BY <3>3, <3>4, <5>1
      <4> QED
        BY <3>4, <4>1, <4>2
    <3> HIDE DEF Begins
    <3> QED
      BY <3>2, <3>5
  <2>2. ASSUME x + 1 <= N PROVE L(x + 1) \in Nat /\ 2 * (x + 1) <= L(x + 1)
    <3>1. x \in 0 .. N - 1 /\ 2 * x <= L(x)
      BY <1>1, <1>6, <2>2
    <3> QED
      BY <1>4, <3>1
  <2> QED
    BY <2>1, <2>2
<1> HIDE DEF S
<1>7. m - n \in S /\ m \in S
  BY <1>1, <1>5, <1>6, Induction
<1>8. Begins(m) /\ 2 * m <= L(m)
  BY <1>1, <1>7 DEF S
<1> QED
  BY <1>2, <1>8 DEF L

LEMMA PrefixMeans ==
    ASSUME NEW s \in Seq(Nat), NEW t \in Seq(Nat)
    PROVE  IsPrefix(s, t) <=> Len(s) <= Len(t) /\ \A k \in 1 .. Len(s) : s[k] = t[k]
<1> DEFINE n == Len(s)
           a == SubSeq(s, 1, n)
           b == SubSeq(t, 1, n)
<1>1. n \in Nat /\ Len(t) \in Nat
  BY LenProperties
<1>2. a = s
  BY SubSeqFull
<1>3. ASSUME n <= Len(t)
      PROVE  b \in Seq(Nat) /\ Len(b) = n /\ \A k \in 1 .. n : b[k] = t[k]
  <2>1. ASSUME NEW k \in 1 .. n PROVE t[k] \in Nat
    <3>1. k \in 1 .. Len(t)
      BY <1>1, <1>3
    <3> QED
      BY <3>1, ElementOfSeq
  <2>2. /\ b \in Seq(Nat) /\ Len(b) = IF 1 <= n THEN n - 1 + 1 ELSE 0
        /\ \A k \in 1 .. n - 1 + 1 : b[k] = t[1 + k - 1]
    <3>1. 1 \in Int /\ n \in Int /\ \A k \in 1 .. n : t[k] \in Nat
      BY <1>1, <2>1
    <3> QED
      BY <3>1, SubSeqProperties, SMTT(20)
  <2>3. n - 1 + 1 = n /\ \A k \in 1 .. n : 1 + k - 1 = k
    BY <1>1
  <2> QED
    BY <1>1, <2>2, <2>3
<1> HIDE DEF b
<1>4. ASSUME n <= Len(t), s = b PROVE \A k \in 1 .. n : s[k] = t[k]
  BY <1>3, <1>4
<1>5. ASSUME n <= Len(t), \A k \in 1 .. n : s[k] = t[k] PROVE s = b
  BY <1>3, <1>5, SeqEqual
<1> QED
  BY <1>2, <1>4, <1>5 DEF IsPrefix, b

LEMMA EncodedIs ==
    ASSUME NEW ls \in Seq(Labels)
    PROVE  LET c == Codes(ls)[Len(ls)]
               e == Encoded(ls)
           IN  /\ e \in Seq(Nat) /\ Len(e) = Len(c) + 1
               /\ \A k \in 1 .. Len(c) : e[k] = c[k]
               /\ e[Len(c) + 1] = 0
<1>1. Len(ls) \in 0 .. Len(ls)
  BY LenProperties
<1>2. PICK c : c = Codes(ls)[Len(ls)]
  OBVIOUS
<1>3. c \in Seq(Nat)
  BY <1>1, <1>2, CodesAre
<1>4. PICK z : z = <<0>>
  OBVIOUS
<1>5. z \in Seq(Nat)
  BY <1>4
<1>6. Len(z) = 1 /\ z[1] = 0
  BY <1>4
<1>7. PICK e : e = c \o z
  OBVIOUS
<1>8. /\ e \in Seq(Nat) /\ Len(e) = Len(c) + Len(z)
      /\ \A k \in 1 .. Len(c) : e[k] = c[k]
      /\ \A k \in 1 .. Len(z) : e[Len(c) + k] = z[k]
  BY <1>3, <1>5, <1>7, ConcatIs, SMT
<1>9. e = Encoded(ls)
  BY <1>2, <1>4, <1>7 DEF Encoded
<1> QED
  BY <1>2, <1>6, <1>8, <1>9

\* A packet that begins with a question, read as far as n of its labels.
LEMMA InPacket ==
    ASSUME packet \in Seq(Byte), NEW ls \in Seq(Labels), IsPrefix(Encoded(ls), packet),
           NEW n \in 0 .. Len(ls), p = Len(Codes(ls)[n])
    PROVE  /\ p \in Nat /\ p < Len(packet)
           /\ n = Len(ls) => At(p) = 0 /\ Len(Encoded(ls)) = p + 1
           /\ n < Len(ls) => LET l == ls[n + 1] IN
                /\ l \in Labels /\ At(p) = Len(l) /\ At(p) # 0
                /\ p + 1 + At(p) = Len(Codes(ls)[n + 1])
                /\ p + 1 + At(p) < Len(packet)
                /\ \A k \in 1 .. At(p) : At(p + k) = l[k]
<1> DEFINE N == Len(ls)
           e == Encoded(ls)
           c == Codes(ls)[N]
           b == Codes(ls)[n]
<1>1. N \in Nat /\ N \in 0 .. N /\ n \in 0 .. N /\ n \in Nat /\ Len(packet) \in Nat
  BY LenProperties
<1>2. /\ e \in Seq(Nat) /\ Len(e) = Len(c) + 1 /\ e[Len(c) + 1] = 0
      /\ \A k \in 1 .. Len(c) : e[k] = c[k]
  BY EncodedIs
<1>3. packet \in Seq(Nat)
  BY WireAssumption, SeqMonotonic
<1>4. Len(e) <= Len(packet) /\ \A k \in 1 .. Len(e) : packet[k] = e[k]
  BY <1>2, <1>3, PrefixMeans
<1>5. /\ Len(b) \in Nat /\ Len(c) \in Nat /\ Len(b) <= Len(c)
  BY <1>1, CodeGrows
<1> HIDE DEF e, c, b
<1>6. p = Len(b) /\ At(p) = packet[p + 1]
  BY DEF At, b
<1>7. CASE n = N
  <2>1. b = c
    BY <1>7 DEF b, c
  <2>2. p + 1 \in 1 .. Len(e) /\ p + 1 = Len(c) + 1 /\ Len(e) = p + 1
    BY <1>2, <1>5, <1>6, <2>1
  <2>3. At(p) = 0
    BY <1>2, <1>4, <1>6, <2>2
  <2> QED
    BY <1>1, <1>4, <1>5, <1>6, <1>7, <2>2, <2>3 DEF e
<1>8. CASE n < N
  <2>1. n \in 0 .. N - 1 /\ n + 1 \in 0 .. N
    BY <1>1, <1>8
  <2>2. PICK l, d : l = ls[n + 1] /\ d = Codes(ls)[n + 1]
    OBVIOUS
  <2>3. /\ l \in Labels /\ Len(d) = Len(b) + 1 + Len(l) /\ d[Len(b) + 1] = Len(l)
        /\ \A k \in 1 .. Len(l) : d[Len(b) + 1 + k] = l[k]
    BY <2>1, <2>2, CodeNext, Zenon DEF b
  <2>4. Len(l) \in Nat \ {0}
    BY <2>3, LabelIs
  <2>5. Len(d) \in Nat /\ Len(d) <= Len(c) /\ \A k \in 1 .. Len(d) : c[k] = d[k]
    BY <1>1, <2>1, <2>2, CodeGrows DEF c
  <2>6. ASSUME NEW k \in 1 .. Len(d) PROVE packet[k] = d[k]
    <3>1. Len(d) \in Nat /\ Len(c) \in Nat /\ Len(d) <= Len(c) /\ Len(e) = Len(c) + 1
      BY <1>2, <1>5, <2>5
    <3>2. k \in 1 .. Len(c) /\ k \in 1 .. Len(e)
      BY <3>1
    <3> QED
      BY <1>2, <1>4, <2>5, <3>2
  <2>7. At(p) = Len(l)
    <3>1. p + 1 \in 1 .. Len(d)
      BY <1>5, <1>6, <2>3, <2>4
    <3> QED
      BY <1>6, <2>3, <2>6, <3>1
  <2>8. p + 1 + At(p) = Len(d) /\ Len(d) < Len(packet)
    BY <1>1, <1>2, <1>4, <1>5, <1>6, <2>3, <2>5, <2>7
  <2>9. ASSUME NEW k \in 1 .. Len(l) PROVE At(p + k) = l[k]
    <3>1. PICK j : j = Len(b) + 1 + k
      OBVIOUS
    <3>2. Len(b) \in Nat /\ Len(l) \in Nat /\ Len(d) = Len(b) + 1 + Len(l) /\ p = Len(b)
      BY <1>5, <1>6, <2>3, <2>4
    <3>3. j \in 1 .. Len(d) /\ p + k + 1 = j
      BY <3>1, <3>2
    <3>4. packet[j] = d[j] /\ d[j] = l[k]
      BY <2>3, <2>6, <3>1, <3>3
    <3> QED
      BY <3>3, <3>4 DEF At
  <2>10. p \in Nat /\ p < Len(packet) /\ n # N
    BY <1>1, <1>5, <1>6, <1>8, <2>3, <2>4, <2>8
  <2>11. At(p) # 0
    BY <2>4, <2>7
  <2>12. p + 1 + At(p) < Len(packet) /\ \A k \in 1 .. At(p) : At(p + k) = l[k]
    BY <2>7, <2>8, <2>9
  <2> QED
    BY <1>8, <2>2, <2>3, <2>7, <2>8, <2>10, <2>11, <2>12, Zenon
<1> QED
  BY <1>1, <1>7, <1>8

\* One label more of a name.
LEMMA NameNext ==
    ASSUME NEW ls \in Seq(Labels), NEW n \in 0 .. Len(ls) - 1
    PROVE  LET b == Names(ls)[n]
               c == Names(ls)[n + 1]
               l == LowerCase(ls[n + 1])
           IN  /\ b \in Seq(Valid \cup {Dot}) /\ c \in Seq(Valid \cup {Dot})
               /\ Len(b) \in Nat /\ Len(c) \in Nat /\ Len(l) \in Nat \ {0}
               /\ Len(b) + Len(l) <= Len(c)
               /\ b = <<>> <=> n = 0
               /\ c = IF n = 0 THEN l ELSE b \o <<Dot>> \o l
<1> DEFINE N == Len(ls)
           D == Names(ls)
           V == Valid \cup {Dot}
           S == {x \in Nat : x <= N /\ x # 0 => Len(D[x]) # 0}
<1>1. N \in Nat
  BY LenProperties
<1>2. D \in [0 .. N -> Seq(V)] /\ D[0] = <<>>
  BY NamesAre
<1>3. ASSUME NEW x \in 0 .. N - 1
      PROVE  LET l == LowerCase(ls[x + 1]) IN
             /\ D[x] \in Seq(V) /\ D[x + 1] \in Seq(V) /\ Len(D[x]) \in Nat
             /\ Len(D[x + 1]) \in Nat /\ Len(l) \in Nat \ {0}
             /\ D[x + 1] = IF x = 0 THEN l ELSE D[x] \o <<Dot>> \o l
             /\ Len(D[x]) + Len(l) <= Len(D[x + 1])
  <2>1. PICK m \in 1 .. N : m = x + 1
    BY <1>1
  <2>2. m - 1 = x /\ x \in 0 .. N /\ m \in 0 .. N /\ (m = 1 <=> x = 0)
    BY <1>1, <2>1
  <2>3. ls[m] \in Labels
    OBVIOUS
  <2>4. PICK l : l = LowerCase(ls[m])
    OBVIOUS
  <2>5. l \in Seq(V) /\ Len(l) \in Nat \ {0}
    BY <2>3, <2>4, LabelIs
  <2>6. PICK b, c : b = D[x] /\ c = D[m]
    OBVIOUS
  <2>7. b \in Seq(V) /\ c \in Seq(V) /\ Len(b) \in Nat /\ Len(c) \in Nat
    BY <1>2, <2>2, <2>6, LenProperties
  <2>8. c = IF m = 1 THEN l ELSE b \o <<Dot>> \o l
    BY <2>2, <2>4, <2>6, NamesAre
  <2>9. Len(b) + Len(l) <= Len(c)
    <3>1. CASE x = 0
      <4>1. Len(b) = 0
        BY <1>2, <2>6, <3>1, EmptySeq
      <4> QED
        BY <2>2, <2>5, <2>8, <3>1, <4>1
    <3>2. CASE x # 0
      <4>1. c = b \o <<Dot>> \o l
        BY <2>2, <2>8, <3>2
      <4>2. Dot \in V
        OBVIOUS
      <4> HIDE DEF V
      <4>3. Len(c) = Len(b) + 1 + Len(l)
        BY <2>5, <2>7, <4>1, <4>2, Chunk
      <4> QED
        BY <2>5, <2>7, <4>3
    <3> QED
      BY <3>1, <3>2
  <2> HIDE DEF D, V
  <2> QED
    BY <2>1, <2>2, <2>4, <2>5, <2>6, <2>7, <2>8, <2>9
<1> HIDE DEF D
<1>4. 0 \in S
  OBVIOUS
<1>5. ASSUME NEW x \in Nat, x \in S PROVE x + 1 \in S
  <2> SUFFICES ASSUME x + 1 <= N PROVE Len(D[x + 1]) # 0
    OBVIOUS
  <2>1. x \in 0 .. N - 1
    BY <1>1
  <2>2. PICK l : l = LowerCase(ls[x + 1])
    OBVIOUS
  <2>3. Len(D[x]) \in Nat /\ Len(D[x + 1]) \in Nat /\ Len(l) \in Nat \ {0}
        /\ Len(D[x]) + Len(l) <= Len(D[x + 1])
    BY <1>3, <2>1, <2>2
  <2> QED
    BY <2>3
<1> HIDE DEF S
<1>6. n \in Nat /\ n <= N /\ n \in S
  BY <1>1, <1>4, <1>5, Induction
<1>7. D[n] = <<>> <=> n = 0
  <2>1. n # 0 => Len(D[n]) # 0
    BY <1>6 DEF S
  <2> QED
    BY <1>2, <2>1, EmptySeq
<1> QED
  BY <1>3, <1>7 DEF D

LEMMA NameGrows ==
    ASSUME NEW ls \in Seq(Labels), NEW n \in 0 .. Len(ls)
    PROVE  /\ Len(Names(ls)[n]) \in Nat /\ Len(Dotted(ls)) \in Nat
           /\ Len(Names(ls)[n]) <= Len(Dotted(ls))
<1> DEFINE N == Len(ls)
           L(x) == Len(Names(ls)[x])
           S == {x \in Nat : n + x <= N => L(n + x) \in Nat /\ L(n) <= L(n + x)}
<1>1. N \in Nat /\ n \in 0 .. N /\ N - n \in Nat /\ n + (N - n) = N
  BY LenProperties
<1>2. L(n) \in Nat
  BY <1>1, NamesAre, LenProperties
<1>3. ASSUME NEW x \in 0 .. N - 1
      PROVE  L(x) \in Nat /\ L(x + 1) \in Nat /\ L(x) <= L(x + 1)
  <2>1. PICK b, c, l : b = Names(ls)[x] /\ c = Names(ls)[x + 1] /\ l = LowerCase(ls[x + 1])
    OBVIOUS
  <2>2. Len(b) \in Nat /\ Len(c) \in Nat /\ Len(l) \in Nat \ {0} /\ Len(b) + Len(l) <= Len(c)
    BY <2>1, NameNext, Zenon
  <2>3. Len(b) <= Len(c)
    BY <2>2
  <2> QED
    BY <2>1, <2>2, <2>3
<1> HIDE DEF L
<1>4. 0 \in S
  <2>1. n + 0 = n
    BY <1>1
  <2> QED
    BY <1>2, <2>1
<1>5. ASSUME NEW x \in Nat, x \in S PROVE x + 1 \in S
  <2> SUFFICES ASSUME n + (x + 1) <= N
               PROVE  L(n + (x + 1)) \in Nat /\ L(n) <= L(n + (x + 1))
    OBVIOUS
  <2>1. PICK y \in 0 .. N - 1 : y = n + x
    BY <1>1
  <2>2. n + (x + 1) = y + 1 /\ y <= N
    BY <1>1, <2>1
  <2>3. L(n) <= L(y)
    BY <1>5, <2>1, <2>2
  <2>4. L(y) \in Nat /\ L(y + 1) \in Nat /\ L(y) <= L(y + 1)
    BY <1>3
  <2>5. L(y + 1) \in Nat /\ L(n) <= L(y + 1)
    BY <1>2, <2>3, <2>4
  <2> QED
    BY <2>2, <2>5
<1> HIDE DEF S
<1>6. N - n \in S
  BY <1>1, <1>4, <1>5, Induction
<1>7. L(N) \in Nat /\ L(n) <= L(N)
  BY <1>1, <1>6 DEF S
<1> QED
  BY <1>2, <1>7 DEF L, Dotted

\* What a question with one label more looks like, up to there.
LEMMA Extends ==
    ASSUME NEW ls \in Seq(Labels), NEW l \in Labels
    PROVE  \A ms : ms = Append(ls, l) =>
             /\ ms \in Seq(Labels) /\ Len(ms) = Len(ls) + 1 /\ ms[Len(ls) + 1] = l
             /\ \A n \in 0 .. Len(ls) : /\ Codes(ms)[n] = Codes(ls)[n]
                                        /\ Names(ms)[n] = Names(ls)[n]
<1> TAKE ms
<1> HAVE ms = Append(ls, l)
<1> DEFINE N == Len(ls)
           Same(n) == Codes(ms)[n] = Codes(ls)[n] /\ Names(ms)[n] = Names(ls)[n]
           S == {n \in Nat : n <= N => Same(n)}
<1>1. /\ N \in Nat /\ ms \in Seq(Labels) /\ Len(ms) = N + 1 /\ ms[N + 1] = l
      /\ \A k \in 1 .. N : ms[k] = ls[k]
  BY AppendProperties, LenProperties
<1>2. 0 \in S
  BY <1>1, CodesAre, NamesAre
<1>3. ASSUME NEW n \in Nat, n \in S PROVE n + 1 \in S
  <2> SUFFICES ASSUME n + 1 <= N PROVE Same(n + 1)
    OBVIOUS
  <2>1. PICK m \in 1 .. N : m = n + 1
    BY <1>1
  <2>2. m - 1 = n /\ m \in 1 .. Len(ms) /\ 1 \in 1 .. N /\ Same(n)
    BY <1>1, <1>3, <2>1
  <2>3. ms[m] = ls[m] /\ ms[1] = ls[1]
    BY <1>1, <2>2
  <2>4. Codes(ms)[m] = Codes(ls)[m]
    <3>1. /\ Codes(ms)[m] = Codes(ms)[m - 1] \o <<Len(ms[m])>> \o ms[m]
          /\ Codes(ls)[m] = Codes(ls)[m - 1] \o <<Len(ls[m])>> \o ls[m]
      BY <1>1, <2>2, CodesAre, Zenon
    <3> QED
      BY <2>2, <2>3, <3>1, Zenon
  <2>5. Names(ms)[m] = Names(ls)[m]
    <3>1. /\ Names(ms)[m] = IF m = 1 THEN LowerCase(ms[1])
                            ELSE Names(ms)[m - 1] \o <<Dot>> \o LowerCase(ms[m])
          /\ Names(ls)[m] = IF m = 1 THEN LowerCase(ls[1])
                            ELSE Names(ls)[m - 1] \o <<Dot>> \o LowerCase(ls[m])
      BY <1>1, <2>2, NamesAre, Zenon
    <3> QED
      BY <2>2, <2>3, <3>1, Zenon
  <2> QED
    BY <2>1, <2>4, <2>5
<1> HIDE DEF S
<1>4. \A n \in 0 .. N : n \in S
  BY <1>1, <1>2, <1>3, Induction
<1>5. ASSUME NEW n \in 0 .. N PROVE Same(n)
  BY <1>1, <1>4 DEF S
<1> QED
  BY <1>1, <1>5

LEMMA BoundedIs ==
    ASSUME NEW S, NEW n \in Nat, NEW s \in Seq(S), Len(s) <= n
    PROVE  s \in BoundedSeq(S, n)
<1>1. PICK m \in 0 .. n : s \in [1 .. m -> S]
  BY LenProperties
<1>2. [1 .. m -> S] \in {[1 .. k -> S] : k \in 0 .. n}
  OBVIOUS
<1>3. s \in UNION {[1 .. k -> S] : k \in 0 .. n}
  BY <1>1, <1>2, Zenon
<1> QED
  BY <1>3, Zenon DEF BoundedSeq, SeqOf

-----------------------------------------------------------------------------
(***************************************************************************)
(* The invariant of parse_query.  What has been read are whole labels, and  *)
(* whatever question the packet begins with, they are the first of its own. *)
(***************************************************************************)
HasRead ==
    \E ls \in Questions :
        /\ p = Len(Codes(ls)[Len(ls)]) /\ name = Dotted(ls)
        /\ \A k \in 1 .. p : packet[k] = Codes(ls)[Len(ls)][k]

\* The question, if the packet begins with it, has been read as far as one of its labels.
OnTheWay(ls) ==
    IsPrefix(Encoded(ls), packet) =>
        \E n \in 0 .. Len(ls) : p = Len(Codes(ls)[n]) /\ name = Names(ls)[n]

NameInv ==
    /\ pc = "label" => /\ Len(packet) <= MaxBytes /\ HasRead
                       /\ \A ls \in Questions : OnTheWay(ls)
    /\ ParsedExactly

LEMMA NameInit == Init => NameInv
<1> SUFFICES ASSUME Init PROVE NameInv
  OBVIOUS
<1>1. /\ packet \in Seq(Byte) /\ Len(packet) <= MaxBytes /\ p = 0 /\ name = <<>>
      /\ pc = "label"
  BY WireAssumption, SeqOfIsSeq DEF Init
<1>2. Len(<<>>) = 0
  BY EmptySeq
<1>3. ASSUME NEW ls \in Questions PROVE OnTheWay(ls)
  <2>1. ls \in Seq(Labels) /\ 0 \in 0 .. Len(ls)
    BY QuestionIs
  <2>2. Codes(ls)[0] = <<>> /\ Names(ls)[0] = <<>>
    BY <2>1, CodesAre, NamesAre
  <2> QED
    BY <1>1, <1>2, <2>1, <2>2 DEF OnTheWay
<1>4. HasRead
  <2>1. PICK ls : ls = <<>>
    OBVIOUS
  <2>2. PICK b : b = MaxBytes \div 2
    OBVIOUS
  <2>3. ls \in Seq(Labels) /\ Len(ls) = 0 /\ b \in Nat /\ Len(ls) <= b
    BY <2>1, <2>2, WireAssumption
  <2>4. ls \in BoundedSeq(Labels, b)
    BY <2>3, BoundedIs, Zenon
  <2>5. ls \in Questions
    BY <2>2, <2>4, Zenon DEF Questions
  <2>6. Codes(ls)[Len(ls)] = <<>> /\ Dotted(ls) = <<>>
    BY <2>3, CodesAre, NamesAre DEF Dotted
  <2>7. p = Len(Codes(ls)[Len(ls)]) /\ name = Dotted(ls) /\ 1 .. p = {}
    BY <1>1, <1>2, <2>6
  <2> QED
    BY <2>5, <2>7 DEF HasRead
<1> QED
  BY <1>1, <1>3, <1>4 DEF NameInv, ParsedExactly

\* The label that is read is the next of any question the packet begins with.
LEMMA StaysOnTheWay ==
    ASSUME ParserSound, ReadLabel, NEW ls \in Questions, OnTheWay(ls)
    PROVE  OnTheWay(ls)'
<1>1. packet \in Seq(Byte) /\ At(p) # 0 /\ packet' = packet
      /\ p' = p + 1 + At(p) /\ name' = Joined(Label(At(p)))
  BY DEF ParserSound, TypeOK, ReadLabel, InName
<1>2. ls \in Seq(Labels) /\ Len(ls) \in Nat
  BY QuestionIs
<1>3. SUFFICES ASSUME IsPrefix(Encoded(ls), packet)
               PROVE  \E m \in 0 .. Len(ls) : p' = Len(Codes(ls)[m]) /\ name' = Names(ls)[m]
  BY <1>1 DEF OnTheWay
<1>4. PICK n \in 0 .. Len(ls) : p = Len(Codes(ls)[n]) /\ name = Names(ls)[n]
  BY <1>3 DEF OnTheWay
<1>5. n # Len(ls)
  BY <1>1, <1>2, <1>3, <1>4, InPacket
<1>6. n \in 0 .. Len(ls) - 1 /\ n < Len(ls) /\ n + 1 \in 0 .. Len(ls)
  BY <1>2, <1>5
<1>7. PICK l : l = ls[n + 1]
  OBVIOUS
<1>8. /\ At(p) = Len(l) /\ p + 1 + At(p) = Len(Codes(ls)[n + 1])
      /\ \A k \in 1 .. At(p) : At(p + k) = l[k]
  BY <1>1, <1>2, <1>3, <1>4, <1>6, <1>7, InPacket
<1>9. Label(At(p)) = LowerCase(l)
  BY <1>8 DEF Label, LowerCase
<1>10. Joined(LowerCase(l)) = Names(ls)[n + 1]
  <2>1. /\ Names(ls)[n] = <<>> <=> n = 0
        /\ Names(ls)[n + 1] = IF n = 0 THEN LowerCase(l)
                              ELSE Names(ls)[n] \o <<Dot>> \o LowerCase(l)
    BY <1>2, <1>6, <1>7, NameNext, Zenon
  <2> QED
    BY <1>4, <2>1, Zenon DEF Joined
<1> QED
  BY <1>1, <1>6, <1>8, <1>9, <1>10

\* A question that the packet begins with is only refused when it does not fit.
LEMMA RefusedDoesNotFit ==
    ASSUME ParserSound, Refuse \/ RefuseShort, NEW ls \in Questions, OnTheWay(ls),
           IsPrefix(Encoded(ls), packet)
    PROVE  Len(Encoded(ls)) + 2 > Len(packet) \/ Len(Dotted(ls)) > MaxLen - 2
<1>1. packet \in Seq(Byte) /\ p \in Nat /\ Len(packet) \in Nat /\ MaxLen \in Nat
  BY WireAssumption DEF ParserSound, TypeOK
<1>2. ls \in Seq(Labels) /\ Len(ls) \in Nat
  BY QuestionIs
<1>3. PICK n \in 0 .. Len(ls) : p = Len(Codes(ls)[n]) /\ name = Names(ls)[n]
  BY DEF OnTheWay
<1>4. CASE n = Len(ls)
  <2>1. At(p) = 0 /\ Len(Encoded(ls)) = p + 1
    BY <1>1, <1>2, <1>3, <1>4, InPacket
  <2>2. p + 3 > Len(packet)
    BY <2>1 DEF Refuse, RefuseShort, InName
  <2> QED
    BY <1>1, <2>1, <2>2
<1>5. CASE n # Len(ls)
  <2>1. n \in 0 .. Len(ls) - 1 /\ n < Len(ls) /\ n + 1 \in 0 .. Len(ls)
    BY <1>2, <1>5
  <2>2. PICK l : l = ls[n + 1]
    OBVIOUS
  <2>3. /\ l \in Labels /\ At(p) = Len(l) /\ At(p) # 0 /\ p < Len(packet)
        /\ p + 1 + At(p) < Len(packet)
        /\ \A k \in 1 .. At(p) : At(p + k) = l[k]
    BY <1>1, <1>2, <1>3, <2>1, <2>2, InPacket
  <2>4. Refuse
    BY <2>3 DEF RefuseShort, AtEnd
  <2>5. /\ Len(l) \in Nat /\ Len(LowerCase(l)) = Len(l)
        /\ \A k \in 1 .. Len(l) : Lower[l[k]] \in Valid
    BY <2>3, LabelIs
  <2>6. ~Fits(At(p))
    BY <2>3, <2>4, <2>5 DEF Refuse, Allowed
  <2>7. Len(l) >= MaxLen - 1 - Len(name)
    BY <1>1, <2>3, <2>5, <2>6 DEF Fits, Left, Room
  <2>8. /\ Len(name) \in Nat /\ Len(Names(ls)[n + 1]) \in Nat
        /\ Len(name) + Len(l) <= Len(Names(ls)[n + 1])
    <3>1. PICK b, c : b = Names(ls)[n] /\ c = Names(ls)[n + 1]
      OBVIOUS
    <3>2. Len(b) \in Nat /\ Len(c) \in Nat /\ Len(b) + Len(LowerCase(l)) <= Len(c)
      BY <1>2, <2>1, <2>2, <3>1, NameNext, Zenon
    <3> QED
      BY <1>3, <2>5, <3>1, <3>2, Zenon
  <2>9. Len(Dotted(ls)) \in Nat /\ Len(Names(ls)[n + 1]) <= Len(Dotted(ls))
    BY <1>2, <2>1, NameGrows
  <2>10. PICK x, y, z : x = Len(name) /\ y = Len(l) /\ z = Len(Dotted(ls))
    OBVIOUS
  <2>11. x \in Nat /\ y \in Nat /\ z \in Nat /\ x + y <= z
    <3>1. PICK w : w = Len(Names(ls)[n + 1])
      OBVIOUS
    <3>2. w \in Nat /\ x + y <= w
      BY <2>8, <2>10, <3>1, Zenon
    <3>3. x \in Nat /\ y \in Nat /\ z \in Nat /\ w <= z
      BY <2>5, <2>8, <2>9, <2>10, <3>1, Zenon
    <3> QED
      BY <3>2, <3>3
  <2>12. y >= MaxLen - 1 - x
    BY <2>7, <2>10
  <2>13. z > MaxLen - 2
    BY <1>1, <2>11, <2>12
  <2> QED
    BY <2>10, <2>13
<1> QED
  BY <1>4, <1>5

\* What has been read and the label behind it are whole labels again.
LEMMA ReadsOnHasRead ==
    ASSUME ParserSound, ReadLabel, HasRead, Len(packet) <= MaxBytes
    PROVE  HasRead'
<1>1. PICK read \in Questions :
        /\ p = Len(Codes(read)[Len(read)]) /\ name = Dotted(read)
        /\ \A k \in 1 .. p : packet[k] = Codes(read)[Len(read)][k]
  BY DEF HasRead
<1>2. read \in Seq(Labels) /\ Len(read) \in Nat
  BY QuestionIs
<1>3. /\ packet \in Seq(Byte) /\ Len(packet) \in Nat /\ p \in Nat /\ MaxBytes \in Nat
      /\ packet' = packet /\ p' = p + 1 + At(p) /\ name' = Joined(Label(At(p)))
      /\ p < Len(packet) /\ At(p) # 0 /\ Fits(At(p))
      /\ \A k \in 1 .. At(p) : Lower[At(p + k)] \in Valid
  BY WireAssumption DEF ParserSound, TypeOK, ReadLabel, InName, Allowed
<1>4. At(p) \in Byte /\ At(p) \in Nat
  BY <1>3, ByteAt
<1>5. p + 1 + At(p) < Len(packet)
  BY <1>3, <1>4 DEF Fits, Left
<1>6. \A k \in 1 .. At(p) : At(p + k) \in Byte
  BY <1>3, <1>4, <1>5, ByteAt
<1>7. PICK label : label = [k \in 1 .. At(p) |-> At(p + k)]
  OBVIOUS
<1>8. Len(label) = At(p) /\ \A k \in 1 .. Len(label) : label[k] = At(p + k)
  BY <1>4, <1>7
<1>9. label \in Labels
  <2> DEFINE B == {c \in Byte : Lower[c] \in Valid}
  <2>1. \A k \in 1 .. At(p) : At(p + k) \in B
    BY <1>3, <1>6
  <2> HIDE DEF B
  <2>2. label \in [1 .. At(p) -> B]
    BY <1>7, <2>1
  <2>3. label \in Seq(B) /\ Len(label) <= MaxBytes
    BY <1>3, <1>4, <1>5, <1>8, <2>2, SeqDef
  <2>4. label \in BoundedSeq(B, MaxBytes)
    BY <1>3, <2>3, BoundedIs
  <2>5. label # <<>>
    BY <1>3, <1>8, EmptySeq
  <2> QED
    BY <1>4, <1>8, <2>4, <2>5 DEF Labels, B
<1>10. PICK more, N : more = Append(read, label) /\ N = Len(read)
  OBVIOUS
<1>11. /\ more \in Seq(Labels) /\ Len(more) = N + 1 /\ more[N + 1] = label
       /\ Codes(more)[N] = Codes(read)[N] /\ Names(more)[N] = Names(read)[N]
  <2>1. N \in 0 .. Len(read) /\ N = Len(read)
    BY <1>2, <1>10
  <2>2. \A ms : ms = Append(read, label) =>
          /\ ms \in Seq(Labels) /\ Len(ms) = Len(read) + 1 /\ ms[Len(read) + 1] = label
          /\ \A n \in 0 .. Len(read) : /\ Codes(ms)[n] = Codes(read)[n]
                                       /\ Names(ms)[n] = Names(read)[n]
    BY <1>2, <1>9, Extends, Zenon
  <2> QED
    BY <1>10, <2>1, <2>2, Zenon
<1>12. N \in 0 .. Len(more) - 1 /\ N + 1 \in 0 .. Len(more) /\ N \in Nat
  BY <1>2, <1>10, <1>11
<1>13. PICK b, c : b = Codes(more)[N] /\ c = Codes(more)[N + 1]
  OBVIOUS
<1>14. /\ Len(b) \in Nat /\ Len(c) = Len(b) + 1 + Len(label) /\ c[Len(b) + 1] = Len(label)
       /\ \A k \in 1 .. Len(b) : c[k] = b[k]
       /\ \A k \in 1 .. Len(label) : c[Len(b) + 1 + k] = label[k]
  BY <1>11, <1>12, <1>13, CodeNext, Zenon
<1>15. p = Len(b) /\ p' = Len(c) /\ \A k \in 1 .. p : packet[k] = b[k]
  BY <1>1, <1>3, <1>8, <1>10, <1>11, <1>13, <1>14
<1>16. more \in Questions
  <2>1. 2 * (N + 1) <= Len(c)
    <3>1. N + 1 \in 0 .. N + 1 /\ N + 1 = Len(more)
      BY <1>11, <1>12
    <3>2. PICK m : m = N + 1
      OBVIOUS
    <3>3. 2 * m <= Len(Codes(more)[m])
      BY <1>11, <1>12, <3>1, <3>2, CodeGrows
    <3> QED
      BY <1>13, <3>2, <3>3
  <2>2. 2 * (N + 1) <= MaxBytes
    BY <1>3, <1>4, <1>5, <1>8, <1>12, <1>14, <1>15, <2>1
  <2>3. PICK half : half = MaxBytes \div 2
    OBVIOUS
  <2>4. half \in Nat /\ Len(more) <= half
    BY <1>3, <1>11, <1>12, <2>2, <2>3
  <2>5. more \in BoundedSeq(Labels, half)
    BY <1>11, <2>4, BoundedIs, Zenon
  <2> QED
    BY <2>3, <2>5, Zenon DEF Questions
<1>17. name' = Dotted(more)
  <2>1. Label(At(p)) = LowerCase(label)
    BY <1>8 DEF Label, LowerCase
  <2>2. /\ Names(more)[N] = <<>> <=> N = 0
        /\ Names(more)[N + 1] = IF N = 0 THEN LowerCase(label)
                              ELSE Names(more)[N] \o <<Dot>> \o LowerCase(label)
    BY <1>11, <1>12, NameNext, Zenon
  <2>3. name = Names(more)[N]
    BY <1>1, <1>10, <1>11 DEF Dotted
  <2>4. Joined(LowerCase(label)) = Names(more)[N + 1]
    BY <2>2, <2>3, Zenon DEF Joined
  <2> QED
    BY <1>3, <1>11, <2>1, <2>4 DEF Dotted
<1>18. ASSUME NEW k \in 1 .. Len(c) PROVE packet[k] = c[k]
  <2>1. Len(label) \in Nat
    BY <1>4, <1>8
  <2>2. CASE k \in 1 .. Len(b)
    BY <1>14, <1>15, <2>2
  <2>3. CASE k = Len(b) + 1
    BY <1>8, <1>14, <1>15, <2>3 DEF At
  <2>4. CASE k > Len(b) + 1
    <3>1. PICK j : j = k - (Len(b) + 1)
      OBVIOUS
    <3>2. j \in 1 .. Len(label) /\ k = Len(b) + 1 + j /\ k = p + j + 1
      BY <1>14, <1>15, <2>1, <2>4, <3>1
    <3>3. c[k] = label[j] /\ label[j] = At(p + j)
      BY <1>8, <1>14, <3>2
    <3> QED
      BY <3>2, <3>3 DEF At
  <2> QED
    BY <1>14, <2>1, <2>2, <2>3, <2>4
<1> QED
  BY <1>3, <1>11, <1>13, <1>15, <1>16, <1>17, <1>18 DEF HasRead

\* A question and the two bytes behind it.
LEMMA WithType ==
    ASSUME NEW ls \in Seq(Labels), NEW a \in Nat, NEW b \in Nat
    PROVE  LET c == Codes(ls)[Len(ls)]
               s == Encoded(ls) \o <<a, b>>
           IN  /\ s \in Seq(Nat) /\ Len(s) = Len(c) + 3 /\ Len(c) \in Nat
               /\ \A k \in 1 .. Len(c) : s[k] = c[k]
               /\ s[Len(c) + 1] = 0 /\ s[Len(c) + 2] = a /\ s[Len(c) + 3] = b
<1>1. PICK c, e : c = Codes(ls)[Len(ls)] /\ e = Encoded(ls)
  OBVIOUS
<1>2. Len(c) \in Nat
  <2>1. Len(ls) \in 0 .. Len(ls)
    BY LenProperties
  <2> QED
    BY <1>1, <2>1, CodesAre, LenProperties
<1>3. /\ e \in Seq(Nat) /\ Len(e) = Len(c) + 1 /\ e[Len(c) + 1] = 0
      /\ \A k \in 1 .. Len(c) : e[k] = c[k]
  BY <1>1, EncodedIs
<1>4. PICK tail : tail = <<a, b>>
  OBVIOUS
<1>5. tail \in Seq(Nat) /\ Len(tail) = 2 /\ tail[1] = a /\ tail[2] = b
  BY <1>4
<1>6. PICK s : s = e \o tail
  OBVIOUS
<1>7. /\ s \in Seq(Nat) /\ Len(s) = Len(e) + Len(tail)
      /\ \A k \in 1 .. Len(e) : s[k] = e[k]
      /\ \A k \in 1 .. Len(tail) : s[Len(e) + k] = tail[k]
  <2>1. /\ e \o tail \in Seq(Nat) /\ Len(e \o tail) = Len(e) + Len(tail)
        /\ \A k \in 1 .. Len(e) + Len(tail) :
              (e \o tail)[k] = IF k <= Len(e) THEN e[k] ELSE tail[k - Len(e)]
    BY <1>3, <1>5, ConcatProperties, Zenon
  <2>2. Len(e) \in Nat
    BY <1>2, <1>3
  <2> QED
    BY <1>5, <1>6, <2>1, <2>2
<1>8. Len(s) = Len(c) + 3
  BY <1>2, <1>3, <1>5, <1>7
<1>9. s[Len(c) + 1] = 0 /\ \A k \in 1 .. Len(c) : s[k] = c[k]
  BY <1>2, <1>3, <1>7
<1>10. s[Len(e) + 1] = a /\ s[Len(e) + 2] = b
  BY <1>5, <1>7
<1>11. Len(e) + 1 = Len(c) + 2 /\ Len(e) + 2 = Len(c) + 3
  BY <1>2, <1>3
<1> QED
  BY <1>1, <1>2, <1>4, <1>6, <1>7, <1>8, <1>9, <1>10, <1>11

\* A name that is taken is in the packet, and a type is behind it.
LEMMA TypeAfterName ==
    ASSUME ParserSound, ReadType, HasRead
    PROVE  \E ls \in Questions : /\ IsPrefix(Encoded(ls) \o qtype', packet)
                                 /\ name = Dotted(ls)
<1>1. PICK ls \in Questions :
        /\ p = Len(Codes(ls)[Len(ls)]) /\ name = Dotted(ls)
        /\ \A k \in 1 .. p : packet[k] = Codes(ls)[Len(ls)][k]
  BY DEF HasRead
<1>2. ls \in Seq(Labels)
  BY QuestionIs
<1>3. /\ packet \in Seq(Byte) /\ Len(packet) \in Nat /\ p \in Nat
      /\ p + 3 <= Len(packet) /\ qtype' = <<At(p + 1), At(p + 2)>>
      /\ pc = "label" /\ ~(p < Len(packet) /\ At(p) # 0)
  BY DEF ParserSound, TypeOK, ReadType, AtEnd
<1>4. p < Len(packet) /\ p + 1 < Len(packet) /\ p + 2 < Len(packet)
  BY <1>3
<1>5. PICK a, b : a = At(p + 1) /\ b = At(p + 2)
  OBVIOUS
<1>6. At(p) = 0 /\ a \in Nat /\ b \in Nat
  BY <1>3, <1>4, <1>5, ByteAt
<1>7. packet[p + 1] = 0 /\ packet[p + 2] = a /\ packet[p + 3] = b
  <2>1. p + 1 + 1 = p + 2 /\ p + 2 + 1 = p + 3
    BY <1>3
  <2> QED
    BY <1>5, <1>6, <2>1 DEF At
<1> DEFINE s == Encoded(ls) \o <<a, b>>
           c == Codes(ls)[Len(ls)]
<1>10. /\ s \in Seq(Nat) /\ Len(s) = Len(c) + 3 /\ Len(c) \in Nat
       /\ \A k \in 1 .. Len(c) : s[k] = c[k]
       /\ s[Len(c) + 1] = 0 /\ s[Len(c) + 2] = a /\ s[Len(c) + 3] = b
  BY <1>2, <1>6, WithType, ZenonT(40)
<1> HIDE DEF s, c
<1>11. p = Len(c) /\ \A k \in 1 .. p : packet[k] = c[k]
  BY <1>1 DEF c
<1>12. ASSUME NEW k \in 1 .. Len(s) PROVE s[k] = packet[k]
  <2>1. k \in 1 .. p \/ k = p + 1 \/ k = p + 2 \/ k = p + 3
    <3>1. Len(s) = p + 3
      BY <1>10, <1>11
    <3> QED
      BY <1>3, <3>1
  <2>2. s[p + 1] = 0 /\ s[p + 2] = a /\ s[p + 3] = b
    BY <1>10, <1>11
  <2> QED
    BY <1>7, <1>10, <1>11, <2>1, <2>2
<1>13. packet \in Seq(Nat)
  BY <1>3, WireAssumption, SeqMonotonic
<1>14. IsPrefix(s, packet)
  BY <1>3, <1>10, <1>11, <1>12, <1>13, PrefixMeans
<1>15. s = Encoded(ls) \o qtype'
  BY <1>3, <1>5 DEF s
<1> QED
  BY <1>1, <1>14, <1>15

LEMMA NameStep == ParserSound /\ NameInv /\ [Next]_vars => NameInv'
<1> SUFFICES ASSUME ParserSound, NameInv, [Next]_vars PROVE NameInv'
  OBVIOUS
<1>1. CASE ReadLabel
  <2>1. /\ pc = "label" /\ pc' = "label" /\ packet' = packet
        /\ Len(packet) <= MaxBytes /\ HasRead
        /\ \A ls \in Questions : OnTheWay(ls)
    BY <1>1 DEF ReadLabel, InName, NameInv
  <2>2. HasRead'
    BY <1>1, <2>1, ReadsOnHasRead
  <2>3. ASSUME NEW ls \in Questions PROVE OnTheWay(ls)'
    BY <1>1, <2>1, StaysOnTheWay
  <2>4. (\A ls \in Questions : OnTheWay(ls))'
    BY <2>3
  <2>5. ParsedExactly'
    BY <2>1 DEF ParsedExactly
  <2> QED
    BY <2>1, <2>2, <2>4, <2>5 DEF NameInv
<1>2. CASE Refuse \/ RefuseShort
  <2>1. /\ pc = "label" /\ pc' = "refused" /\ packet' = packet
        /\ \A ls \in Questions : OnTheWay(ls)
    BY <1>2 DEF Refuse, RefuseShort, InName, AtEnd, query, NameInv
  <2>2. ASSUME NEW ls \in Questions, IsPrefix(Encoded(ls), packet)
        PROVE  Len(Encoded(ls)) + 2 > Len(packet) \/ Len(Dotted(ls)) > MaxLen - 2
    BY <1>2, <2>1, <2>2, RefusedDoesNotFit
  <2>3. ParsedExactly'
    BY <2>1, <2>2 DEF ParsedExactly
  <2> QED
    BY <2>1, <2>3 DEF NameInv
<1>3. CASE ReadType
  <2>1. pc = "label" /\ pc' = "parsed" /\ packet' = packet /\ name' = name /\ HasRead
    BY <1>3 DEF ReadType, AtEnd, NameInv
  <2>2. \E ls \in Questions : IsPrefix(Encoded(ls) \o qtype', packet) /\ name = Dotted(ls)
    BY <1>3, <2>1, TypeAfterName
  <2>3. ParsedExactly'
    BY <2>1, <2>2 DEF ParsedExactly
  <2> QED
    BY <2>1, <2>3 DEF NameInv
<1>4. CASE Forward \/ Receive \/ Block \/ TakeRecord \/ EndWalk \/ Serve
  <2>1. pc' \in {"sent", "records", "found", "none", "again", "end"}
    BY <1>4 DEF Forward, Receive, Block, TakeRecord, EndWalk, Serve, Walking
  <2> QED
    BY <2>1 DEF NameInv, ParsedExactly
<1>5. CASE UNCHANGED vars
  <2>1. UNCHANGED <<packet, p, name, qtype, pc>>
    BY <1>5 DEF vars, query
  <2>2. HasRead' <=> HasRead
    BY <2>1 DEF HasRead
  <2>3. ASSUME NEW ls \in Questions PROVE OnTheWay(ls)' <=> OnTheWay(ls)
    BY <2>1 DEF OnTheWay
  <2>4. ParsedExactly' <=> ParsedExactly
    BY <2>1 DEF ParsedExactly
  <2>5. (\A ls \in Questions : OnTheWay(ls))' <=> \A ls \in Questions : OnTheWay(ls)
    BY <2>3
  <2> QED
    BY <2>1, <2>2, <2>4, <2>5 DEF NameInv
<1> QED
  BY <1>1, <1>2, <1>3, <1>4, <1>5 DEF Next

\* A query's name is taken if and only if the packet has it, whole labels of the
\* allowed bytes up to the zero, with a type behind it, and it fits; and what
\* parse_query then writes is that name, in lower case and with dots between its
\* labels: every packet, however its lengths lie.
THEOREM ParsedExactlyHolds == Spec => []ParsedExactly
<1>1. NameInv => ParsedExactly
  BY DEF NameInv
<1> QED
  BY <1>1, NameInit, NameStep, ParserSoundHolds, PTL DEF Spec
=============================================================================
