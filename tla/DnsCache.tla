------------------------------ MODULE DnsCache -------------------------------
(***************************************************************************)
(* dns_cache.c: the verdict cache, a table of slots that is always scanned  *)
(* from its first slot.                                                     *)
(*                                                                          *)
(* insert, invalidate, clear and prune hold the SRW lock exclusively, so    *)
(* each is one step, taken when no reader is inside.  A lookup holds it     *)
(* shared, a step at a time; all it writes is the timestamp of a hit.       *)
(*                                                                          *)
(* The time is get_timestamp_ns, the performance counter times 10^9, taken  *)
(* modulo 2^64 and then divided by the counter's frequency: it starts again *)
(* from 0 every Wrap units (half an hour at 10 MHz).  Arithmetic on such    *)
(* times is in 64 bits and does not wrap.                                   *)
(*                                                                          *)
(* Over-long names and a TTL of 0 are refused before the lock is taken, and *)
(* are not among the inputs here.                                           *)
(***************************************************************************)
EXTENDS Integers, FiniteSets

CONSTANTS
    Domain,         \* names
    Verdict,        \* DNS_ACTION_BLOCK, DNS_ACTION_ALLOW
    None,           \* no verdict
    Capacity,       \* slots
    Ttl,            \* TTLs of verdicts, in clock units
    Wrap,           \* the period of get_timestamp_ns
    Reader,         \* threads inside dns_cache_lookup
    MaxTime         \* bound: the clock

Slot == 0 .. Capacity - 1

ASSUME DnsCacheAssumption ==
    /\ Domain # {} /\ Verdict # {}
    /\ None \notin Verdict /\ None \notin Domain \X Verdict
    /\ Capacity \in Nat \ {0}
    /\ Ttl \subseteq Nat \ {0}
    /\ Wrap \in Nat \ {0}
    /\ MaxTime \in Nat

VARIABLES
    entries,    \* the slots
    count,      \* the slots in use, for the statistics
    now,        \* the performance counter
    reading,    \* where each reader is
    newest      \* the verdict last inserted for each name (history)

vars == <<entries, count, now, reading, newest>>

\* A zeroed slot.
SomeDomain == CHOOSE d \in Domain : TRUE
Empty == [valid |-> FALSE, domain |-> SomeDomain, action |-> None,
          ttl |-> 0, timestamp |-> 0, used |-> 0]

\* used: what the counter showed when the timestamp was taken (history).
EntryType == [valid : BOOLEAN, domain : Domain, action : Verdict \cup {None},
              ttl : Nat, timestamp : Nat, used : Nat]

\* at: the slot found; now: what the counter showed on entry; ts: the timestamp
\* read; action: the verdict copied out.
NotReading == [pc |-> "out", domain |-> SomeDomain, at |-> 0, now |-> 0,
               ts |-> 0, action |-> None]
ReaderType == [pc : {"out", "scan", "hit"}, domain : Domain, at : Slot,
               now : Nat, ts : Nat, action : Verdict \cup {None}]

Init ==
    /\ entries = [i \in Slot |-> Empty]
    /\ count = 0 /\ now = 0
    /\ reading = [r \in Reader |-> NotReading]
    /\ newest = [d \in Domain |-> None]

-----------------------------------------------------------------------------
\* get_timestamp_ns when the counter shows t.
Stamp(t) == t % Wrap

Expired(e, t) == e.timestamp + e.ttl < Stamp(t)

Valid     == {i \in Slot : entries[i].valid}
Stale     == {i \in Valid : Expired(entries[i], now)}
Live      == Valid \ Stale
Vacant    == Slot \ Live
Matches(d) == {i \in Valid : entries[i].domain = d}

\* The slot of S that a scan comes to first.
First(S) == CHOOSE i \in S : \A j \in S : i <= j

\* (A slip: the most recently used slot is taken for the oldest.)
NewestSlot == First({i \in Live : \A j \in Live :
                       entries[i].timestamp >= entries[j].timestamp})
\* insert's lru_idx.
OldestSlot == First({i \in Live : \A j \in Live :
                       entries[i].timestamp <= entries[j].timestamp})

NoReader == \A r \in Reader : reading[r].pc = "out"

Holding(d, v, ttl) ==
    [valid |-> TRUE, domain |-> d, action |-> v, ttl |-> ttl,
     timestamp |-> Stamp(now), used |-> now]

\* The slots of S are zeroed.
Swept(S) == [i \in Slot |-> IF i \in S THEN Empty ELSE entries[i]]

-----------------------------------------------------------------------------
(***************************************************************************)
(* Slips that an edit could make: each takes the place of a definition below *)
(* when a property is tested for being able to fail.                        *)
(***************************************************************************)
\* A lookup leaves expired entries to the sweeps of insert and prune.
ScanTrusting(r) ==
    /\ reading[r].pc = "scan"
    /\ LET i == First(Matches(reading[r].domain))
       IN  reading' = [reading EXCEPT ![r] =
             IF Matches(@.domain) = {} THEN NotReading
             ELSE [@ EXCEPT !.pc = "hit", !.at = i, !.ts = entries[i].timestamp,
                     !.action = entries[i].action]]
    /\ UNCHANGED <<entries, count, now, newest>>

\* insert takes the first vacant slot without looking at the rest of the table.
InsertEager(d, v, ttl) ==
    /\ NoReader /\ Vacant # {}
    /\ LET i == First(Vacant)
       IN  /\ entries' = [entries EXCEPT ![i] = Holding(d, v, ttl)]
           /\ count' = IF entries[i].valid THEN count ELSE count + 1
    /\ newest' = [newest EXCEPT ![d] = v]
    /\ UNCHANGED <<now, reading>>

\* A verdict that is there already only gets a new lease.
RefreshLease(d, v, ttl) ==
    /\ NoReader
    /\ \E i \in Matches(d) \cap Live :
         LET stale == {j \in Stale : j < i}
         IN  /\ entries' = [Swept(stale) EXCEPT ![i].timestamp = Stamp(now),
                                                ![i].used = now]
             /\ count' = count - Cardinality(stale)
    /\ newest' = [newest EXCEPT ![d] = v]
    /\ UNCHANGED <<now, reading>>

-----------------------------------------------------------------------------
(***************************************************************************)
(* dns_cache_lookup.                                                        *)
(***************************************************************************)
\* The lock is taken, and the time inside it.
Enter(r, d) ==
    /\ reading[r].pc = "out"
    /\ reading' = [reading EXCEPT ![r] = [NotReading EXCEPT !.pc = "scan",
                                            !.domain = d, !.now = now]]
    /\ UNCHANGED <<entries, count, now, newest>>

\* The scan: the first match, unless it has expired, is copied out.
Scan(r) ==
    /\ reading[r].pc = "scan"
    /\ LET found == Matches(reading[r].domain)
           i     == First(found)
       IN  reading' = [reading EXCEPT ![r] =
             IF found = {} \/ Expired(entries[i], @.now) THEN NotReading
             ELSE [@ EXCEPT !.pc = "hit", !.at = i, !.ts = entries[i].timestamp,
                     !.action = entries[i].action]]
    /\ UNCHANGED <<entries, count, now, newest>>

\* The touch, a compare-and-swap that only moves forward, and the return.
Touch(r) ==
    /\ reading[r].pc = "hit"
    /\ LET me == reading[r]
       IN  entries' = [entries EXCEPT ![me.at] =
             IF me.ts < Stamp(me.now) /\ @.timestamp = me.ts
             THEN [@ EXCEPT !.timestamp = Stamp(me.now), !.used = me.now]
             ELSE @]
    /\ reading' = [reading EXCEPT ![r] = NotReading]
    /\ UNCHANGED <<count, now, newest>>

-----------------------------------------------------------------------------
(***************************************************************************)
(* dns_cache_insert, by what its scan finds.                                *)
(***************************************************************************)
\* A live entry of the name is overwritten in place.  The scan stops there: only
\* the expired slots before it are zeroed.
Refresh(d, v, ttl) ==
    /\ NoReader
    /\ \E i \in Matches(d) \cap Live :
         LET stale == {j \in Stale : j < i}
         IN  /\ i = First(Matches(d) \cap Live)
             /\ entries' = [Swept(stale) EXCEPT ![i] = Holding(d, v, ttl)]
             /\ count' = count - Cardinality(stale)
    /\ newest' = [newest EXCEPT ![d] = v]
    /\ UNCHANGED <<now, reading>>

\* The name is new: it takes the first slot that is empty or has expired.
Insert(d, v, ttl) ==
    /\ NoReader /\ Matches(d) \cap Live = {} /\ Vacant # {}
    /\ entries' = [Swept(Stale) EXCEPT ![First(Vacant)] = Holding(d, v, ttl)]
    /\ count' = count - Cardinality(Stale) + 1
    /\ newest' = [newest EXCEPT ![d] = v]
    /\ UNCHANGED <<now, reading>>

\* The table is full of live entries: the least recently used one goes.
Evict(d, v, ttl) ==
    /\ NoReader /\ Live = Slot /\ Matches(d) = {}
    /\ entries' = [entries EXCEPT ![OldestSlot] = Holding(d, v, ttl)]
    /\ newest' = [newest EXCEPT ![d] = v]
    /\ UNCHANGED <<count, now, reading>>

\* dns_cache_invalidate.
Invalidate(d) ==
    /\ NoReader /\ Matches(d) # {}
    /\ entries' = Swept({First(Matches(d))})
    /\ count' = count - 1
    /\ UNCHANGED <<now, reading, newest>>

\* dns_cache_clear.
Clear ==
    /\ NoReader
    /\ entries' = [i \in Slot |-> Empty] /\ count' = 0
    /\ UNCHANGED <<now, reading, newest>>

\* dns_cache_prune_expired, with the present time.
Prune ==
    /\ NoReader
    /\ entries' = Swept(Stale)
    /\ count' = count - Cardinality(Stale)
    /\ UNCHANGED <<now, reading, newest>>

Tick ==
    /\ now < MaxTime
    /\ now' = now + 1
    /\ UNCHANGED <<entries, count, reading, newest>>

Store(d, v, ttl) == Refresh(d, v, ttl) \/ Insert(d, v, ttl) \/ Evict(d, v, ttl)

Next ==
    \/ \E r \in Reader : Scan(r) \/ Touch(r) \/ \E d \in Domain : Enter(r, d)
    \/ \E d \in Domain, v \in Verdict, ttl \in Ttl : Store(d, v, ttl)
    \/ \E d \in Domain : Invalidate(d)
    \/ Clear \/ Prune
    \/ Tick

Spec == Init /\ [][Next]_vars

-----------------------------------------------------------------------------
(***************************************************************************)
(* Properties.                                                              *)
(***************************************************************************)
\* Every variable has its type.
TypeOK ==
    /\ entries \in [Slot -> EntryType]
    /\ count \in Int /\ now \in Nat
    /\ reading \in [Reader -> ReaderType]
    /\ newest \in [Domain -> Verdict \cup {None}]

\* A name is in at most one slot, however expiry and evictions move the
\* vacancies; so that a lookup, which stops at the first, finds the newest.
OneSlotPerDomain ==
    \A i, j \in Valid : entries[i].domain = entries[j].domain => i = j

\* The statistics count exactly the slots in use: unlike in answer_cache.c no
\* reader counts, so no two can count the same slot out.
CountExact == count = Cardinality(Valid)

\* The table in every state: nothing but entries and zeroed slots, one slot for a
\* name, and an exact count.
TableSound == TypeOK /\ OneSlotPerDomain /\ CountExact

\* A verdict is not used when nobody has asked for it for longer than its TTL
\* (QUERY_CACHE_TTL_SECONDS, "How long a cached ALLOWED verdict is trusted for"),
\* as long as the clock has not wrapped since.
SamePeriod(t, u) == t \div Wrap = u \div Wrap

TrustedForTtl ==
    \A r \in Reader :
        LET e == entries[reading[r].at] IN
        reading[r].pc = "hit" /\ SamePeriod(e.used, reading[r].now)
            => reading[r].now <= e.used + e.ttl

\* A verdict only makes room for another name's when its time has run out,
\* wrapped or not, or when the table is full of live ones and none of those that
\* were stamped in the same period of the clock was stamped before it ("LRU
\* touch").  Of stamps from different periods the order is lost: after a wrap the
\* entry used last has the least stamp and goes first.  And a stamp is older than
\* the last use when that met a stamp of an earlier period that was not less, or
\* lost the compare-and-swap to another lookup.
Displaced(i) ==
    entries[i].valid /\ entries'[i].valid /\ entries[i].domain # entries'[i].domain

InTurn(i) ==
    \A j \in Slot :
        /\ entries[j].valid /\ ~Expired(entries[j], now)
        /\ SamePeriod(entries[i].used, entries[j].used)
             => entries[i].used <= entries[j].used

DisplacedInTurn ==
    [][\A i \in Slot : Displaced(i) =>
         entries[i].used + entries[i].ttl < now \/ InTurn(i)]_vars

\* The cache is a map that forgets: a lookup is told the verdict last stored for
\* its name, or nothing, and no slot left behind brings an earlier one back.
Stored(d) ==
    IF Matches(d) = {} THEN None ELSE entries[First(Matches(d))].action

Map == INSTANCE VerdictMap WITH
    Caller <- Reader,
    map    <- [d \in Domain |-> Stored(d)],
    answer <- [r \in Reader |-> IF reading[r].pc = "hit"
                                THEN <<reading[r].domain, reading[r].action>>
                                ELSE None]

ImplementsMap == Map!MSpec
=============================================================================
