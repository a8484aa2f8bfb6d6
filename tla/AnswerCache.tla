----------------------------- MODULE AnswerCache -----------------------------
(***************************************************************************)
(* answer_cache.c: a table of slots in which an answer for a (domain, qtype)*)
(* key lives somewhere in the probe window that starts at the key's hash.   *)
(*                                                                          *)
(* insert, invalidate and clear hold the SRW lock exclusively, so each is   *)
(* one step, taken when no reader is inside.  A lookup holds it shared: any *)
(* number of readers are inside at once, each a step at a time, and they    *)
(* write too (the lazy drop of an expired slot, the touch of a hit).        *)
(*                                                                          *)
(* The time is that of dns_cache.c (see DnsCache): it starts again from 0    *)
(* every Wrap units.                                                        *)
(*                                                                          *)
(* Names over 95 characters, answers with no records and a TTL of 0 are     *)
(* refused before the lock is taken, and are not among the inputs here.     *)
(***************************************************************************)
EXTENDS Integers, FiniteSets

CONSTANTS
    Key,            \* what is looked up: pairs of a domain and a record type,
                    \* A or AAAA (INVALIDATE_QTYPES)
    Capacity,       \* slots
    ProbeWindow,    \* PROBE_WINDOW
    Start,          \* key -> hash_key(key) & (capacity - 1)
    Answer,         \* what may be cached
    Ttl,            \* TTLs of answers, in clock units
    Wrap,           \* the period of get_timestamp_ns
    Reader,         \* threads inside answer_cache_lookup
    MaxTime         \* bound: the clock

Name == {k[1] : k \in Key}
Slot == 0 .. Capacity - 1

ASSUME CacheAssumption ==
    /\ Key # {}
    /\ Capacity \in Nat \ {0} /\ ProbeWindow \in Nat \ {0}
    /\ Start \in [Key -> Slot]
    /\ Ttl \subseteq Nat \ {0}
    /\ Wrap \in Nat \ {0}
    /\ IsFiniteSet(Reader)
    /\ MaxTime \in Nat

VARIABLES
    entries,    \* the slots
    count,      \* the slots in use, for the statistics
    now,        \* the performance counter
    reading,    \* where each reader is
    newest      \* the answer last inserted for a key and not invalidated or
                \* cleared since, "none" if there is none (history)

vars == <<entries, count, now, reading, newest>>

Empty == [valid |-> FALSE, key |-> CHOOSE k \in Key : TRUE,
          answer |-> "none", ttl |-> 0, timestamp |-> 0]

EntryType == [valid : BOOLEAN, key : Key, answer : Answer \cup {"none"},
              ttl : Nat, timestamp : Nat]

\* at: the slot found; now: the time taken on entry; ts: the timestamp read.
NotReading == [pc |-> "out", key |-> CHOOSE k \in Key : TRUE,
               at |-> 0, now |-> 0, ts |-> 0]
ReaderType == [pc : {"out", "probe", "hit", "touch", "drop", "uncount"},
               key : Key, at : Slot, now : Nat, ts : Nat]

Init ==
    /\ entries = [i \in Slot |-> Empty]
    /\ count = 0 /\ now = 0
    /\ reading = [r \in Reader |-> NotReading]
    /\ newest = [k \in Key |-> "none"]

-----------------------------------------------------------------------------
\* The slots of k's probe window, and the place of a slot in it.
Step(k, i) == (i - Start[k]) % Capacity
Window(k)  == {i \in Slot : Step(k, i) < ProbeWindow}

\* The slot of S that comes first in the window of k.
FirstOf(k, S) == CHOOSE i \in S : \A j \in S : Step(k, i) <= Step(k, j)

\* get_timestamp_ns at present.
Stamp == now % Wrap

Expired(e, t) == e.timestamp + e.ttl < t

Matches(k)   == {i \in Window(k) : entries[i].valid /\ entries[i].key = k}
LiveIn(k)    == {i \in Window(k) : entries[i].valid /\ ~Expired(entries[i], Stamp)}
StaleIn(k)   == {i \in Window(k) : entries[i].valid /\ Expired(entries[i], Stamp)}
VacantIn(k)  == Window(k) \ LiveIn(k)
Oldest(k)    == FirstOf(k, {i \in LiveIn(k) : \A j \in LiveIn(k) :
                              entries[i].timestamp <= entries[j].timestamp})

NoReader == \A r \in Reader : reading[r].pc = "out"

Holding(k, a, ttl) ==
    [valid |-> TRUE, key |-> k, answer |-> a, ttl |-> ttl, timestamp |-> Stamp]

\* Every stale slot that insert's scan of the window passes is zeroed.
Swept(S) == [i \in Slot |-> IF i \in S THEN Empty ELSE entries[i]]

-----------------------------------------------------------------------------
(***************************************************************************)
(* Slips that an edit could make: each takes the place of a definition below *)
(* when a property is tested for being able to fail.                        *)
(***************************************************************************)
\* insert takes the first vacant slot without looking at the rest of the window.
InsertEager(k, a, ttl) ==
    /\ NoReader /\ VacantIn(k) # {}
    /\ LET i == FirstOf(k, VacantIn(k))
       IN  /\ entries' = [entries EXCEPT ![i] = Holding(k, a, ttl)]
           /\ count' = IF entries[i].valid THEN count ELSE count + 1
    /\ newest' = [newest EXCEPT ![k] = a]
    /\ UNCHANGED <<now, reading>>

\* The touch is a plain store.
TouchPlain(r) ==
    /\ reading[r].pc = "touch"
    /\ entries' = [entries EXCEPT ![reading[r].at].timestamp = reading[r].now]
    /\ reading' = [reading EXCEPT ![r] = NotReading]
    /\ UNCHANGED <<count, now, newest>>

\* invalidate stops at the first record type it finds.
InvalidateFirst(n) ==
    /\ NoReader
    /\ LET found == {k \in Key : k[1] = n /\ Matches(k) # {}}
           gone  == IF found = {} THEN {} ELSE Matches(CHOOSE k \in found : TRUE)
       IN  /\ entries' = Swept(gone)
           /\ count' = count - Cardinality(gone)
    /\ newest' = [k \in Key |-> IF k[1] = n THEN "none" ELSE newest[k]]
    /\ UNCHANGED <<now, reading>>

-----------------------------------------------------------------------------
(***************************************************************************)
(* answer_cache_lookup.                                                     *)
(***************************************************************************)
Enter(r, k) ==
    /\ reading[r].pc = "out"
    /\ reading' = [reading EXCEPT ![r] = [NotReading EXCEPT !.pc = "probe",
                                            !.key = k, !.now = Stamp]]
    /\ UNCHANGED <<entries, count, now, newest>>

\* The scan: the first matching slot, if it has not expired, is copied out.
Probe(r) ==
    /\ reading[r].pc = "probe"
    /\ LET k == reading[r].key
           i == FirstOf(k, Matches(k))
       IN  reading' = [reading EXCEPT ![r] =
             IF Matches(k) = {} THEN NotReading
             ELSE [@ EXCEPT !.at = i,
                     !.pc = IF Expired(entries[i], reading[r].now) THEN "drop"
                            ELSE "hit"]]
    /\ UNCHANGED <<entries, count, now, newest>>

\* The touch reads the timestamp, and moves it forward if no one else has.
ReadTimestamp(r) ==
    /\ reading[r].pc = "hit"
    /\ LET ts == entries[reading[r].at].timestamp
       IN  reading' = [reading EXCEPT ![r] =
             IF ts < @.now THEN [@ EXCEPT !.pc = "touch", !.ts = ts]
             ELSE NotReading]
    /\ UNCHANGED <<entries, count, now, newest>>

Touch(r) ==
    /\ reading[r].pc = "touch"
    /\ entries' = [entries EXCEPT ![reading[r].at].timestamp =
                     IF @ = reading[r].ts THEN reading[r].now ELSE @]
    /\ reading' = [reading EXCEPT ![r] = NotReading]
    /\ UNCHANGED <<count, now, newest>>

\* The lazy drop of an expired slot: two interlocked writes.
Drop(r) ==
    /\ reading[r].pc = "drop"
    /\ entries' = [entries EXCEPT ![reading[r].at].valid = FALSE]
    /\ reading' = [reading EXCEPT ![r].pc = "uncount"]
    /\ UNCHANGED <<count, now, newest>>

Uncount(r) ==
    /\ reading[r].pc = "uncount"
    /\ count' = count - 1
    /\ reading' = [reading EXCEPT ![r] = NotReading]
    /\ UNCHANGED <<entries, now, newest>>

-----------------------------------------------------------------------------
(***************************************************************************)
(* answer_cache_insert, by what the scan of the window finds.               *)
(***************************************************************************)
\* A live entry of the key is overwritten in place.  The scan stops there: only
\* the stale slots before it are zeroed.
Refresh(k, a, ttl) ==
    /\ NoReader
    /\ \E i \in Matches(k) \cap LiveIn(k) :
         LET stale == {j \in StaleIn(k) : Step(k, j) < Step(k, i)}
         IN  /\ i = FirstOf(k, Matches(k) \cap LiveIn(k))
             /\ entries' = [Swept(stale) EXCEPT ![i] = Holding(k, a, ttl)]
             /\ count' = count - Cardinality(stale)
    /\ newest' = [newest EXCEPT ![k] = a]
    /\ UNCHANGED <<now, reading>>

\* The key is new: it takes the first slot that is empty or stale.
Insert(k, a, ttl) ==
    /\ NoReader /\ Matches(k) \cap LiveIn(k) = {} /\ VacantIn(k) # {}
    /\ entries' = [Swept(StaleIn(k)) EXCEPT ![FirstOf(k, VacantIn(k))] =
                     Holding(k, a, ttl)]
    /\ count' = count - Cardinality(StaleIn(k)) + 1
    /\ newest' = [newest EXCEPT ![k] = a]
    /\ UNCHANGED <<now, reading>>

\* The window is full of live entries: the least recently touched one goes.
Evict(k, a, ttl) ==
    /\ NoReader /\ LiveIn(k) = Window(k) /\ Matches(k) = {}
    /\ entries' = [entries EXCEPT ![Oldest(k)] = Holding(k, a, ttl)]
    /\ count' = count
    /\ newest' = [newest EXCEPT ![k] = a]
    /\ UNCHANGED <<now, reading>>

(***************************************************************************)
(* answer_cache_invalidate, both record types of a name, and                *)
(* answer_cache_clear.                                                      *)
(***************************************************************************)
Invalidate(n) ==
    /\ NoReader
    /\ LET gone == {FirstOf(k, Matches(k)) : k \in {x \in Key : x[1] = n /\ Matches(x) # {}}}
       IN  /\ entries' = Swept(gone)
           /\ count' = count - Cardinality(gone)
    /\ newest' = [k \in Key |-> IF k[1] = n THEN "none" ELSE newest[k]]
    /\ UNCHANGED <<now, reading>>

\* answer_cache_prune_expired.
Prune ==
    /\ NoReader
    /\ LET stale == {i \in Slot : entries[i].valid /\ Expired(entries[i], Stamp)}
       IN  /\ entries' = Swept(stale)
           /\ count' = count - Cardinality(stale)
    /\ UNCHANGED <<now, reading, newest>>

Clear ==
    /\ NoReader
    /\ entries' = [i \in Slot |-> Empty] /\ count' = 0
    /\ newest' = [k \in Key |-> "none"]
    /\ UNCHANGED <<now, reading>>

Tick ==
    /\ now < MaxTime
    /\ now' = now + 1
    /\ UNCHANGED <<entries, count, reading, newest>>

Next ==
    \/ \E r \in Reader :
         \/ \E k \in Key : Enter(r, k)
         \/ Probe(r) \/ ReadTimestamp(r) \/ Touch(r) \/ Drop(r) \/ Uncount(r)
    \/ \E k \in Key, a \in Answer, ttl \in Ttl :
         Refresh(k, a, ttl) \/ Insert(k, a, ttl) \/ Evict(k, a, ttl)
    \/ \E n \in Name : Invalidate(n)
    \/ Clear \/ Prune
    \/ Tick

Spec == Init /\ [][Next]_vars

-----------------------------------------------------------------------------
(***************************************************************************)
(* Properties.                                                              *)
(***************************************************************************)
\* Every variable has its type.
TypeOK ==
    /\ entries \in [Slot -> EntryType]
    /\ count \in Int /\ now \in Nat
    /\ reading \in [Reader -> ReaderType]
    /\ newest \in [Key -> Answer \cup {"none"}]

\* A key is in at most one slot of the table, and where a lookup looks for it
\* ("only one slot can hold this exact (domain,qtype)"), however expiry, lazy
\* drops and evictions move the vacancies in its window.
OneSlotPerKey ==
    \A i, j \in Slot :
        /\ entries[i].valid => i \in Window(entries[i].key)
        /\ entries[i].valid /\ entries[j].valid /\ entries[i].key = entries[j].key
             => i = j

\* What is stored for a key is what was last inserted for it: no slot that was
\* left behind brings an older answer, or one that was invalidated, back ("an
\* in-flight promotion to BLOCKED" must not be "silently ignored").
NothingComesBack ==
    \A i \in Slot : entries[i].valid => entries[i].answer = newest[entries[i].key]

\* The count of used slots is never above what is there: a reader that has
\* dropped a slot is about to count it out.  (It can be below: two readers that
\* find the same expired slot both count it out.)
CountBounded ==
    count <= Cardinality({i \in Slot : entries[i].valid})
             + Cardinality({r \in Reader : reading[r].pc = "uncount"})

\* The table in every state: nothing but entries and zeroed slots, one slot for a
\* key, and a count that claims no more than there is.
TableSound == TypeOK /\ OneSlotPerKey /\ CountBounded

\* A reader that was held up with an earlier time in hand does not take the
\* touch of a later one back ("monotonic-CAS pattern").
TouchMonotone ==
    [][reading' # reading =>
         \A i \in Slot : entries[i].timestamp <= entries'[i].timestamp]_vars
=============================================================================
