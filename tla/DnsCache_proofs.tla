---------------------------- MODULE DnsCache_proofs ----------------------------
(***************************************************************************)
(* DnsCache, for any names, verdicts, capacity, TTLs, readers and period of *)
(* the clock: a name is in one slot at most, the count is exact, a verdict  *)
(* is displaced in its turn only, the table implements VerdictMap, and no   *)
(* verdict is trusted for longer than its TTL after it was last asked for.  *)
(*                                                                          *)
(* The slots change in three ways only (Sweep, Place, Mark); what each does *)
(* to the slots in use is proved once.                                      *)
(***************************************************************************)
EXTENDS DnsCache, TLAPS, FiniteSetTheorems, WellFoundedInduction

-----------------------------------------------------------------------------
(***************************************************************************)
(* The first slot of a set, and the oldest.                                 *)
(***************************************************************************)
LEMMA Least ==
    ASSUME NEW S, S \subseteq Nat, S # {}
    PROVE  \E i \in S : \A j \in S : i <= j
<1> DEFINE R == OpToRel(<, Nat)
<1>1. IsWellFoundedOn(R, Nat)
    BY NatLessThanWellFounded
<1>2. PICK i \in S : \A j \in S : ~(<<j, i>> \in R)
    BY <1>1, WFMin
<1>3. ASSUME NEW j \in S PROVE i <= j
  <2>1. <<j, i>> \in Nat \X Nat
      BY <1>3
  <2>2. ~(j < i)
      BY <1>2, <2>1 DEF OpToRel
  <2> QED
      BY <2>2
<1> QED
    BY <1>3

LEMMA SlotNat == Slot \subseteq Nat
    BY DnsCacheAssumption DEF Slot

LEMMA FirstIn ==
    ASSUME NEW S, S \subseteq Slot, S # {}
    PROVE  First(S) \in S
    BY Least, SlotNat DEF First

LEMMA OldestIn ==
    ASSUME TypeOK, Live # {}
    PROVE  /\ OldestSlot \in Live
           /\ \A j \in Live : entries[OldestSlot].timestamp <= entries[j].timestamp
<1> DEFINE T == {entries[i].timestamp : i \in Live}
           S == {i \in Live : \A j \in Live : entries[i].timestamp <= entries[j].timestamp}
<1>1. Live \subseteq Slot
    BY DEF Live, Valid
<1>2. T \subseteq Nat /\ T # {}
    BY <1>1 DEF TypeOK, EntryType
<1>3. PICK t \in T : \A u \in T : t <= u
    BY <1>2, Least
<1>4. S # {}
    BY <1>3
<1>5. First(S) \in S
    BY <1>1, <1>4, FirstIn
<1> QED
    BY <1>5 DEF OldestSlot

-----------------------------------------------------------------------------
(***************************************************************************)
(* How slots change.                                                        *)
(***************************************************************************)
LEMMA StampType ==
    ASSUME NEW t \in Nat
    PROVE  Stamp(t) \in Nat
    BY DnsCacheAssumption DEF Stamp

LEMMA EmptyType == Empty \in EntryType /\ ~Empty.valid
<1>1. SomeDomain \in Domain
    BY DnsCacheAssumption DEF SomeDomain
<1> QED
    BY <1>1 DEF Empty, EntryType

LEMMA HoldingType ==
    ASSUME TypeOK, NEW d \in Domain, NEW v \in Verdict, NEW ttl \in Ttl
    PROVE  /\ Holding(d, v, ttl) \in EntryType /\ Holding(d, v, ttl).valid
           /\ Holding(d, v, ttl).domain = d /\ Holding(d, v, ttl).action = v
           /\ Holding(d, v, ttl).used = now /\ Holding(d, v, ttl).timestamp = Stamp(now)
<1>1. now \in Nat /\ Stamp(now) \in Nat /\ ttl \in Nat
    BY StampType, DnsCacheAssumption DEF TypeOK
<1> QED
    BY <1>1 DEF Holding, EntryType

\* Slots are zeroed.
LEMMA SweepSlots ==
    ASSUME TypeOK, NEW S, S \subseteq Slot, entries' = Swept(S)
    PROVE  /\ entries' \in [Slot -> EntryType]
           /\ Valid' = Valid \ S
           /\ \A i \in Valid' : entries'[i] = entries[i]
<1>1. \A i \in Slot : entries'[i] = IF i \in S THEN Empty ELSE entries[i]
    BY DEF Swept
<1>2. entries' \in [Slot -> EntryType]
    BY EmptyType DEF Swept, TypeOK
<1>3. \A i \in Slot : entries'[i].valid <=> i \notin S /\ entries[i].valid
    BY <1>1, EmptyType
<1> QED
    BY <1>1, <1>2, <1>3 DEF Valid

\* Slots are zeroed, and one is written.
LEMMA PlaceSlots ==
    ASSUME TypeOK, NEW S, S \subseteq Slot, NEW i \in Slot,
           NEW d \in Domain, NEW v \in Verdict, NEW ttl \in Ttl,
           entries' = [Swept(S) EXCEPT ![i] = Holding(d, v, ttl)]
    PROVE  /\ entries' \in [Slot -> EntryType]
           /\ Valid' = (Valid \ S) \cup {i}
           /\ entries'[i] = Holding(d, v, ttl)
           /\ \A j \in Valid' \ {i} : entries'[j] = entries[j]
<1>1. \A j \in Slot : entries'[j] = IF j = i THEN Holding(d, v, ttl)
                                     ELSE IF j \in S THEN Empty ELSE entries[j]
    BY DEF Swept
<1>2. entries' \in [Slot -> EntryType]
    BY EmptyType, HoldingType DEF Swept, TypeOK
<1>3. \A j \in Slot : entries'[j].valid <=> j = i \/ (j \notin S /\ entries[j].valid)
    BY <1>1, EmptyType, HoldingType
<1> QED
    BY <1>1, <1>2, <1>3 DEF Valid

\* A touch moves the time of one slot.
LEMMA TouchSlots ==
    ASSUME TypeOK, NEW r \in Reader, Touch(r)
    PROVE  /\ entries' \in [Slot -> EntryType]
           /\ Valid' = Valid
           /\ \A i \in Slot :
                /\ entries'[i].domain = entries[i].domain
                /\ entries'[i].action = entries[i].action
                /\ entries'[i].ttl = entries[i].ttl
                /\ \/ entries'[i] = entries[i]
                   \/ /\ entries'[i].used = reading[r].now
                      /\ entries'[i].timestamp = Stamp(reading[r].now)
<1> DEFINE me == reading[r]
<1>1. me.at \in Slot /\ me.now \in Nat /\ Stamp(me.now) \in Nat
    BY StampType DEF TypeOK, ReaderType
<1> DEFINE e == [[entries[me.at] EXCEPT !.timestamp = Stamp(me.now)] EXCEPT !.used = me.now]
<1>2. entries[me.at] \in EntryType
    BY <1>1 DEF TypeOK
<1>3. /\ e \in EntryType /\ e.valid = entries[me.at].valid
      /\ e.domain = entries[me.at].domain /\ e.action = entries[me.at].action
      /\ e.ttl = entries[me.at].ttl
      /\ e.used = me.now /\ e.timestamp = Stamp(me.now)
    BY <1>1, <1>2 DEF EntryType
<1>4. \/ entries' = entries
      \/ entries' = [entries EXCEPT ![me.at] = e]
    BY <1>1 DEF Touch, TypeOK
<1>5. CASE entries' = entries
    BY <1>5 DEF Valid, TypeOK
<1>6. CASE entries' = [entries EXCEPT ![me.at] = e]
  <2>1. entries' \in [Slot -> EntryType]
      BY <1>1, <1>3, <1>6 DEF TypeOK
  <2>2. \A i \in Slot : entries'[i] = IF i = me.at THEN e ELSE entries[i]
      BY <1>6 DEF TypeOK
  <2>3. \A i \in Slot : entries'[i].valid = entries[i].valid
      BY <1>3, <2>2
  <2> HIDE DEF e
  <2> QED
      BY <1>3, <2>1, <2>2, <2>3 DEF Valid
<1> QED
    BY <1>4, <1>5, <1>6

-----------------------------------------------------------------------------
(***************************************************************************)
(* The invariant: also, what a slot in use holds was stored in the past.    *)
(***************************************************************************)
Kept ==
    \A i \in Valid : /\ entries[i].action \in Verdict
                     /\ entries[i].used <= now /\ entries[i].timestamp = Stamp(entries[i].used)

Readers ==
    \A r \in Reader : /\ reading[r].now <= now
                      /\ reading[r].pc = "hit" => reading[r].action \in Verdict

IInv == TypeOK /\ OneSlotPerDomain /\ CountExact /\ Kept /\ Readers

LEMMA FiniteSlots == \A S : S \subseteq Slot => IsFiniteSet(S)
<1>1. IsFiniteSet(Slot)
    BY FS_Interval, DnsCacheAssumption DEF Slot
<1> QED
    BY <1>1, FS_Subset

LEMMA Sets ==
    /\ Valid \subseteq Slot /\ Stale \subseteq Valid /\ Live \subseteq Valid
    /\ Vacant \subseteq Slot /\ \A d : Matches(d) \subseteq Valid
    BY DEF Valid, Stale, Live, Vacant, Matches

\* What an insert does, whichever way it goes: slots in use are zeroed, and one
\* slot is written, after which no other holds the name.
LEMMA StoreForm ==
    ASSUME IInv, NEW d \in Domain, NEW v \in Verdict, NEW ttl \in Ttl, Store(d, v, ttl)
    PROVE  \E S \in SUBSET Valid, i \in Slot :
             /\ entries' = [Swept(S) EXCEPT ![i] = Holding(d, v, ttl)]
             /\ Matches(d) \ S \subseteq {i}
             /\ count' = count - Cardinality(S) + (IF i \in Valid \ S THEN 0 ELSE 1)
             /\ newest' = [newest EXCEPT ![d] = v]
             /\ UNCHANGED <<now, reading>>
<1> USE Sets
<1>1. CASE Refresh(d, v, ttl)
  <2> PICK i \in Matches(d) \cap Live :
        LET stale == {j \in Stale : j < i}
        IN  /\ entries' = [Swept(stale) EXCEPT ![i] = Holding(d, v, ttl)]
            /\ count' = count - Cardinality(stale)
      BY <1>1 DEF Refresh
  <2> DEFINE S == {j \in Stale : j < i}
  <2>1. S \in SUBSET Valid /\ i \in Slot /\ i \in Valid \ S
      BY DEF Live
  <2>2. Matches(d) \subseteq {i}
      BY DEF IInv, OneSlotPerDomain, Matches
  <2>3. Cardinality(S) \in Nat /\ count \in Int
      BY <2>1, FiniteSlots, FS_CardinalityType DEF IInv, TypeOK
  <2>4. count' = count - Cardinality(S) + 0
      BY <2>3
  <2> QED
      BY <1>1, <2>1, <2>2, <2>4 DEF Refresh
<1>2. CASE Insert(d, v, ttl)
  <2>1. First(Vacant) \in Vacant
      BY <1>2, FirstIn DEF Insert
  <2>2. First(Vacant) \notin Valid \ Stale
      BY <2>1 DEF Vacant, Live
  <2>3. Matches(d) \ Stale \subseteq {First(Vacant)}
      BY <1>2 DEF Insert, Live
  <2> QED
      BY <1>2, <2>1, <2>2, <2>3 DEF Insert
<1>3. CASE Evict(d, v, ttl)
  <2>1. Live # {}
      BY <1>3, DnsCacheAssumption DEF Evict, Slot
  <2>2. OldestSlot \in Live
      BY <2>1, OldestIn DEF IInv
  <2>3. Swept({}) = entries
      BY DEF Swept, IInv, TypeOK
  <2>4. Cardinality({}) = 0 /\ count \in Int
      BY FS_EmptySet DEF IInv, TypeOK
  <2>5. count' = count - Cardinality({}) + 0
      BY <1>3, <2>4 DEF Evict
  <2>6. OldestSlot \in Slot /\ OldestSlot \in Valid \ {} /\ {} \in SUBSET Valid
      BY <2>2
  <2>7. entries' = [Swept({}) EXCEPT ![OldestSlot] = Holding(d, v, ttl)]
      BY <1>3, <2>3 DEF Evict
  <2>8. Matches(d) \ {} \subseteq {OldestSlot}
      BY <1>3 DEF Evict
  <2> QED
      BY <1>3, <2>5, <2>6, <2>7, <2>8 DEF Evict
<1> QED
    BY <1>1, <1>2, <1>3 DEF Store

\* Writing one slot, after zeroing others, keeps the invariant.
LEMMA PlaceInv ==
    ASSUME IInv, NEW S \in SUBSET Valid, NEW i \in Slot,
           NEW d \in Domain, NEW v \in Verdict, NEW ttl \in Ttl,
           entries' = [Swept(S) EXCEPT ![i] = Holding(d, v, ttl)],
           Matches(d) \ S \subseteq {i},
           count' = count - Cardinality(S) + (IF i \in Valid \ S THEN 0 ELSE 1),
           newest' = [newest EXCEPT ![d] = v],
           UNCHANGED <<now, reading>>
    PROVE  IInv'
<1> USE Sets
<1>1. /\ entries' \in [Slot -> EntryType]
      /\ Valid' = (Valid \ S) \cup {i}
      /\ entries'[i] = Holding(d, v, ttl)
      /\ \A j \in Valid' \ {i} : entries'[j] = entries[j]
    BY PlaceSlots DEF IInv
<1>f. IsFiniteSet(Valid) /\ IsFiniteSet(S) /\ IsFiniteSet(Valid \ S)
    BY FiniteSlots
<1>c. /\ Cardinality(S) \in Nat /\ Cardinality(Valid) \in Nat
      /\ Cardinality(Valid \ S) = Cardinality(Valid) - Cardinality(S)
  <2>1. Valid \cap S = S
      OBVIOUS
  <2>2. Cardinality(Valid \ S) = Cardinality(Valid) - Cardinality(Valid \cap S)
      BY <1>f, FS_Difference
  <2> QED
      BY <1>f, <2>1, <2>2, FS_CardinalityType
<1>2. TypeOK'
  <2>1. newest' \in [Domain -> Verdict \cup {None}]
      BY DEF IInv, TypeOK
  <2>2. count' \in Int
      BY <1>c DEF IInv, TypeOK
  <2> QED
      BY <1>1, <2>1, <2>2 DEF IInv, TypeOK
<1>3. OneSlotPerDomain'
  <2>1. \A j \in Valid' \ {i} : j \in Valid /\ entries[j].domain # d
      BY <1>1 DEF Matches
  <2>2. entries'[i].domain = d
      BY <1>1, HoldingType DEF IInv
  <2>3. \A j, k \in Valid' \ {i} : entries'[j].domain = entries'[k].domain => j = k
      BY <1>1, <2>1 DEF IInv, OneSlotPerDomain
  <2>4. \A j \in Valid' \ {i} : entries'[j].domain # d
      BY <1>1, <2>1
  <2> QED
      BY <2>2, <2>3, <2>4 DEF OneSlotPerDomain
<1>4. CountExact'
  <2>1. CASE i \in Valid \ S
    <3>1. Valid' = Valid \ S
        BY <1>1, <2>1
    <3> QED
        BY <1>c, <2>1, <3>1 DEF CountExact, IInv
  <2>2. CASE i \notin Valid \ S
    <3>1. Cardinality(Valid') = Cardinality(Valid \ S) + 1
        BY <1>1, <1>f, <2>2, FS_AddElement
    <3> QED
        BY <1>c, <2>2, <3>1 DEF CountExact, IInv
  <2> QED
      BY <2>1, <2>2
<1>5. Kept'
  <2>1. /\ entries'[i].action \in Verdict /\ entries'[i].used <= now
        /\ entries'[i].timestamp = Stamp(entries'[i].used)
      BY <1>1, HoldingType DEF IInv, TypeOK
  <2>2. \A j \in Valid' \ {i} : j \in Valid /\ entries'[j] = entries[j]
      BY <1>1
  <2> QED
      BY <2>1, <2>2 DEF IInv, Kept, Stamp
<1>6. Readers'
    BY DEF IInv, Readers
<1> QED
    BY <1>2, <1>3, <1>4, <1>5, <1>6 DEF IInv

\* So does zeroing slots that are in use.
LEMMA SweepInv ==
    ASSUME IInv, NEW S \in SUBSET Valid, entries' = Swept(S),
           count' = count - Cardinality(S), UNCHANGED <<now, reading, newest>>
    PROVE  IInv'
<1> USE Sets
<1>1. /\ entries' \in [Slot -> EntryType] /\ Valid' = Valid \ S
      /\ \A i \in Valid' : entries'[i] = entries[i]
    BY SweepSlots DEF IInv
<1>2. /\ Cardinality(S) \in Nat
      /\ Cardinality(Valid \ S) = Cardinality(Valid) - Cardinality(S)
  <2>1. IsFiniteSet(Valid) /\ IsFiniteSet(S) /\ Valid \cap S = S
      BY FiniteSlots
  <2> QED
      BY <2>1, FS_Difference, FS_CardinalityType
<1>3. TypeOK'
    BY <1>1, <1>2 DEF IInv, TypeOK
<1>4. OneSlotPerDomain'
    BY <1>1 DEF IInv, OneSlotPerDomain
<1>5. CountExact'
    BY <1>1, <1>2 DEF IInv, CountExact
<1>6. Kept'
    BY <1>1 DEF IInv, Kept, Stamp
<1>7. Readers'
    BY DEF IInv, Readers
<1> QED
    BY <1>3, <1>4, <1>5, <1>6, <1>7 DEF IInv

LEMMA InitInv == Init => IInv
<1> SUFFICES ASSUME Init PROVE IInv
    OBVIOUS
<1>1. Valid = {}
    BY EmptyType DEF Init, Valid
<1>2. TypeOK
  <2>1. SomeDomain \in Domain /\ 0 \in Slot
      BY DnsCacheAssumption DEF SomeDomain, Slot
  <2>2. NotReading \in ReaderType
      BY <2>1 DEF NotReading, ReaderType
  <2> QED
      BY <2>2, EmptyType DEF Init, TypeOK
<1>3. CountExact
    BY <1>1, FS_EmptySet DEF Init, CountExact
<1>4. Readers
    BY DEF Init, Readers, NotReading
<1> QED
    BY <1>1, <1>2, <1>3, <1>4 DEF IInv, OneSlotPerDomain, Kept

\* The three steps of a lookup.
LEMMA EnterInv ==
    ASSUME IInv, NEW r \in Reader, NEW d \in Domain, Enter(r, d)
    PROVE  IInv'
<1> DEFINE q == [NotReading EXCEPT !.pc = "scan", !.domain = d, !.now = now]
<1>1. q \in ReaderType /\ q.pc = "scan" /\ q.now = now
  <2>1. NotReading \in ReaderType
    <3>1. SomeDomain \in Domain /\ 0 \in Slot
        BY DnsCacheAssumption DEF SomeDomain, Slot
    <3> QED
        BY <3>1 DEF NotReading, ReaderType
  <2> QED
      BY <2>1 DEF ReaderType, IInv, TypeOK
<1>2. reading' = [reading EXCEPT ![r] = q]
    BY DEF Enter
<1> HIDE DEF q
<1>3. reading' \in [Reader -> ReaderType]
    BY <1>1, <1>2 DEF IInv, TypeOK
<1>4. TypeOK'
    BY <1>3 DEF IInv, TypeOK, Enter
<1>5. Readers'
  <2>1. \A c \in Reader : reading'[c] = IF c = r THEN q ELSE reading[c]
      BY <1>2 DEF IInv, TypeOK
  <2> QED
      BY <1>1, <2>1 DEF IInv, Readers, Enter, TypeOK
<1>6. OneSlotPerDomain' /\ CountExact' /\ Kept'
    BY DEF IInv, Enter, OneSlotPerDomain, CountExact, Kept, Valid, Stamp
<1> QED
    BY <1>4, <1>5, <1>6 DEF IInv

\* What a scan does to its reader: it is told what the first match holds, or
\* nothing.
LEMMA ScanForm ==
    ASSUME IInv, NEW r \in Reader, Scan(r)
    PROVE  \/ reading' = [reading EXCEPT ![r] = NotReading]
           \/ \E i \in Matches(reading[r].domain), q \in ReaderType :
                /\ i = First(Matches(reading[r].domain))
                /\ q.pc = "hit" /\ q.domain = reading[r].domain
                /\ q.now = reading[r].now /\ q.action = entries[i].action
                /\ q.action \in Verdict
                /\ reading' = [reading EXCEPT ![r] = q]
<1> USE Sets
<1> DEFINE me == reading[r]
           i  == First(Matches(me.domain))
           q  == [me EXCEPT !.pc = "hit", !.at = i, !.ts = entries[i].timestamp,
                            !.action = entries[i].action]
<1>1. me \in ReaderType
    BY DEF IInv, TypeOK
<1>2. \/ reading' = [reading EXCEPT ![r] = NotReading]
      \/ Matches(me.domain) # {} /\ reading' = [reading EXCEPT ![r] = q]
    BY DEF Scan
<1>3. CASE Matches(me.domain) # {} /\ reading' = [reading EXCEPT ![r] = q]
  <2>1. i \in Matches(me.domain) /\ i \in Valid /\ i \in Slot
      BY <1>3, FirstIn
  <2>2. /\ entries[i].timestamp \in Nat /\ entries[i].action \in Verdict
      BY <2>1 DEF IInv, TypeOK, EntryType, Kept
  <2> HIDE DEF i
  <2>3. /\ q \in ReaderType /\ q.pc = "hit" /\ q.domain = me.domain
        /\ q.now = me.now /\ q.action = entries[i].action
      BY <1>1, <2>1, <2>2 DEF ReaderType
  <2> QED
      BY <1>3, <2>1, <2>2, <2>3 DEF i
<1> QED
    BY <1>2, <1>3

LEMMA ScanInv ==
    ASSUME IInv, NEW r \in Reader, Scan(r)
    PROVE  IInv'
<1>1. PICK q \in ReaderType : /\ reading' = [reading EXCEPT ![r] = q]
                              /\ q.pc = "hit" => q.action \in Verdict
                              /\ q.now <= now
  <2>1. NotReading \in ReaderType
    <3>1. SomeDomain \in Domain /\ 0 \in Slot
        BY DnsCacheAssumption DEF SomeDomain, Slot
    <3> QED
        BY <3>1 DEF NotReading, ReaderType
  <2>2. NotReading.pc # "hit" /\ NotReading.now <= now
      BY DEF NotReading, IInv, TypeOK
  <2>3. reading[r].now <= now
      BY DEF IInv, Readers
  <2> QED
      BY <2>1, <2>2, <2>3, ScanForm
<1>2. TypeOK'
    BY <1>1 DEF IInv, TypeOK, Scan
<1>3. Readers'
  <2>1. \A c \in Reader : reading'[c] = IF c = r THEN q ELSE reading[c]
      BY <1>1 DEF IInv, TypeOK
  <2> QED
      BY <1>1, <2>1 DEF IInv, Readers, Scan
<1>4. OneSlotPerDomain' /\ CountExact' /\ Kept'
    BY DEF IInv, Scan, OneSlotPerDomain, CountExact, Kept, Valid, Stamp
<1> QED
    BY <1>2, <1>3, <1>4 DEF IInv

LEMMA TouchInv ==
    ASSUME IInv, NEW r \in Reader, Touch(r)
    PROVE  IInv'
<1>1. /\ entries' \in [Slot -> EntryType] /\ Valid' = Valid
      /\ \A i \in Slot :
           /\ entries'[i].domain = entries[i].domain
           /\ entries'[i].action = entries[i].action
           /\ \/ entries'[i] = entries[i]
              \/ /\ entries'[i].used = reading[r].now
                 /\ entries'[i].timestamp = Stamp(reading[r].now)
    BY TouchSlots DEF IInv
<1>2. reading' = [reading EXCEPT ![r] = NotReading] /\ UNCHANGED <<count, now, newest>>
    BY DEF Touch
<1>3. NotReading \in ReaderType /\ NotReading.pc # "hit" /\ NotReading.now = 0
  <2>1. SomeDomain \in Domain /\ 0 \in Slot
      BY DnsCacheAssumption DEF SomeDomain, Slot
  <2> QED
      BY <2>1 DEF NotReading, ReaderType
<1>4. TypeOK'
    BY <1>1, <1>2, <1>3 DEF IInv, TypeOK
<1>5. OneSlotPerDomain'
    BY <1>1, Sets DEF IInv, OneSlotPerDomain
<1>6. CountExact'
    BY <1>1, <1>2 DEF IInv, CountExact
<1>7. Kept'
  <2>1. reading[r].now <= now
      BY DEF IInv, Readers
  <2> QED
      BY <1>1, <1>2, <2>1, Sets DEF IInv, Kept, Stamp
<1>8. Readers'
  <2>1. \A c \in Reader : reading'[c] = IF c = r THEN NotReading ELSE reading[c]
      BY <1>2 DEF IInv, TypeOK
  <2> QED
      BY <1>2, <1>3, <2>1 DEF IInv, Readers, TypeOK
<1> QED
    BY <1>4, <1>5, <1>6, <1>7, <1>8 DEF IInv

LEMMA StepInv == IInv /\ [Next]_vars => IInv'
<1> SUFFICES ASSUME IInv, [Next]_vars PROVE IInv'
    OBVIOUS
<1> USE Sets
<1>1. ASSUME NEW r \in Reader, Scan(r) PROVE IInv'
    BY <1>1, ScanInv
<1>2. ASSUME NEW r \in Reader, Touch(r) PROVE IInv'
    BY <1>2, TouchInv
<1>3. ASSUME NEW r \in Reader, NEW d \in Domain, Enter(r, d) PROVE IInv'
    BY <1>3, EnterInv
<1>4. ASSUME NEW d \in Domain, NEW v \in Verdict, NEW ttl \in Ttl, Store(d, v, ttl)
      PROVE  IInv'
    BY <1>4, StoreForm, PlaceInv
<1>5. ASSUME NEW d \in Domain, Invalidate(d) PROVE IInv'
  <2>1. First(Matches(d)) \in Valid
      BY <1>5, FirstIn DEF Invalidate
  <2>2. Cardinality({First(Matches(d))}) = 1
      BY FS_Singleton
  <2> QED
      BY <1>5, <2>1, <2>2, SweepInv DEF Invalidate
<1>6. CASE Clear
  <2>1. Valid' = {} /\ entries' \in [Slot -> EntryType]
      BY <1>6, EmptyType DEF Clear, Valid
  <2>2. count' = 0 /\ UNCHANGED <<now, reading, newest>>
      BY <1>6 DEF Clear
  <2> QED
      BY <2>1, <2>2, FS_EmptySet
      DEF IInv, TypeOK, OneSlotPerDomain, CountExact, Kept, Readers
<1>7. CASE Prune
    BY <1>7, SweepInv DEF Prune
<1>8. CASE Tick
  <2>1. /\ now' = now + 1 /\ UNCHANGED <<entries, count, reading, newest>>
        /\ now \in Nat
      BY <1>8 DEF Tick, IInv, TypeOK
  <2>2. TypeOK'
      BY <2>1 DEF IInv, TypeOK
  <2>3. OneSlotPerDomain' /\ CountExact'
      BY <2>1 DEF IInv, OneSlotPerDomain, CountExact, Valid
  <2>4. Kept'
    <3>1. \A i \in Valid : entries[i].used \in Nat
        BY DEF IInv, TypeOK, EntryType
    <3> QED
        BY <2>1, <3>1 DEF IInv, Kept, Valid, Stamp
  <2>5. Readers'
    <3>1. \A r \in Reader : reading[r].now \in Nat
        BY DEF IInv, TypeOK, ReaderType
    <3> QED
        BY <2>1, <3>1 DEF IInv, Readers
  <2> QED
      BY <2>2, <2>3, <2>4, <2>5 DEF IInv
<1>9. CASE UNCHANGED vars
    BY <1>9 DEF vars, IInv, TypeOK, OneSlotPerDomain, CountExact, Kept, Readers, Valid, Stamp
<1> QED
    BY <1>1, <1>2, <1>3, <1>4, <1>5, <1>6, <1>7, <1>8, <1>9 DEF Next

\* The invariant holds in every state, for any names, capacity, readers and clock.
THEOREM Invariance == Spec => []IInv
    BY InitInv, StepInv, PTL DEF Spec

\* The table is sound in every state: types, one slot for a name, and a count
\* that is the number of slots in use.
THEOREM TableSoundHolds == Spec => []TableSound
<1>1. IInv => TableSound
    BY DEF IInv, TableSound
<1> QED
    BY <1>1, Invariance, PTL

-----------------------------------------------------------------------------
(***************************************************************************)
(* What an insert puts out.                                                 *)
(***************************************************************************)
\* An entry that looks expired is, wrapped or not: the stamps of two times are
\* never further apart than the times.
LEMMA ExpiredIsOver ==
    ASSUME NEW u \in Nat, NEW n \in Nat, NEW t \in Nat, u <= n,
           Stamp(u) + t < Stamp(n)
    PROVE  u + t < n
<1> DEFINE a == u \div Wrap
           b == n \div Wrap
<1>1. Wrap \in Nat /\ Wrap > 0
    BY DnsCacheAssumption
<1>2. /\ a \in Int /\ u = Wrap * a + Stamp(u) /\ 0 <= Stamp(u) /\ Stamp(u) < Wrap
      /\ b \in Int /\ n = Wrap * b + Stamp(n) /\ 0 <= Stamp(n) /\ Stamp(n) < Wrap
      /\ Stamp(u) \in Int /\ Stamp(n) \in Int
    BY <1>1 DEF Stamp
<1> HIDE DEF a, b
<1>3. a <= b
  <2>1. SUFFICES ASSUME b + 1 <= a PROVE FALSE
      BY <1>2
  <2>2. Wrap * (b + 1) <= Wrap * a
      BY <1>1, <1>2, <2>1
  <2>3. Wrap * (b + 1) = Wrap * b + Wrap
      BY <1>1, <1>2
  <2>4. Wrap * a \in Int /\ Wrap * b \in Int
      BY <1>1, <1>2
  <2> QED
      BY <1>1, <1>2, <2>2, <2>3, <2>4
<1>4. Wrap * a <= Wrap * b /\ Wrap * a \in Int /\ Wrap * b \in Int
    BY <1>1, <1>2, <1>3
<1> QED
    BY <1>2, <1>4

\* Within a period of the clock stamps are as far apart as the times they are of.
LEMMA PeriodStamps ==
    ASSUME NEW u \in Nat, NEW n \in Nat, SamePeriod(u, n)
    PROVE  n - u = Stamp(n) - Stamp(u)
<1>1. Wrap \in Nat /\ Wrap > 0
    BY DnsCacheAssumption
<1> DEFINE a == u \div Wrap
<1>2. /\ a \in Int /\ u = Wrap * a + Stamp(u) /\ n = Wrap * (n \div Wrap) + Stamp(n)
      /\ Stamp(u) \in Int /\ Stamp(n) \in Int
    BY <1>1 DEF Stamp
<1>3. n \div Wrap = a
    BY DEF SamePeriod
<1> HIDE DEF a
<1> DEFINE b == Wrap * a
<1>4. b \in Int /\ u = b + Stamp(u) /\ n = b + Stamp(n)
    BY <1>1, <1>2, <1>3
<1> DEFINE s == Stamp(u)
           t == Stamp(n)
<1>5. s \in Int /\ t \in Int /\ b \in Int /\ u = b + s /\ n = b + t
    BY <1>2, <1>4
<1> HIDE DEF b, s, t
<1>6. n - u = t - s
    BY <1>5
<1> QED
    BY <1>6 DEF s, t

\* The promise of DisplacedInTurn, for one slot.
OverOrInTurn(i) == entries[i].used + entries[i].ttl < now \/ InTurn(i)

LEMMA StoreInTurn ==
    ASSUME IInv, NEW d \in Domain, NEW v \in Verdict, NEW ttl \in Ttl,
           Store(d, v, ttl), NEW i \in Slot, Displaced(i)
    PROVE  OverOrInTurn(i)
<1> USE Sets
<1>1. CASE Refresh(d, v, ttl)
  <2> PICK k \in Matches(d) \cap Live :
        LET stale == {j \in Stale : j < k}
        IN  entries' = [Swept(stale) EXCEPT ![k] = Holding(d, v, ttl)]
      BY <1>1 DEF Refresh
  <2> DEFINE S == {j \in Stale : j < k}
  <2>1. k \in Slot /\ S \subseteq Slot /\ entries[k].domain = d
      BY DEF Matches
  <2>2. /\ entries'[k] = Holding(d, v, ttl)
        /\ \A j \in Valid' \ {k} : entries'[j] = entries[j]
      BY <2>1, PlaceSlots DEF IInv
  <2>3. Holding(d, v, ttl).domain = d
      BY HoldingType DEF IInv
  <2> QED
      BY <2>1, <2>2, <2>3 DEF Displaced, Valid
<1>2. CASE Insert(d, v, ttl)
  <2> DEFINE k == First(Vacant)
  <2>1. k \in Vacant /\ k \in Slot /\ Stale \subseteq Slot
      BY <1>2, FirstIn DEF Insert
  <2>2. \A j \in Valid' \ {k} : entries'[j] = entries[j]
      BY <1>2, <2>1, PlaceSlots DEF IInv, Insert
  <2> HIDE DEF k
  <2>3. i = k
      BY <2>2 DEF Displaced, Valid
  <2>4. i \in Valid /\ i \in Stale
      BY <2>1, <2>3 DEF Displaced, Valid, Vacant, Live
  <2>5. Stamp(entries[i].used) + entries[i].ttl < Stamp(now) /\ entries[i].used <= now
      BY <2>4 DEF Stale, Expired, IInv, Kept
  <2>6. entries[i].used \in Nat /\ entries[i].ttl \in Nat /\ now \in Nat
      BY DEF IInv, TypeOK, EntryType
  <2> QED
      BY <2>5, <2>6, ExpiredIsOver DEF OverOrInTurn
<1>3. CASE Evict(d, v, ttl)
  <2>1. Live # {}
      BY <1>3, DnsCacheAssumption DEF Evict, Slot
  <2>2. /\ OldestSlot \in Live
        /\ \A j \in Live : entries[OldestSlot].timestamp <= entries[j].timestamp
      BY <2>1, OldestIn DEF IInv
  <2>3. \A j \in Slot : j # OldestSlot => entries'[j] = entries[j]
      BY <1>3 DEF Evict, IInv, TypeOK
  <2>4. i = OldestSlot
      BY <2>3 DEF Displaced
  <2>5. \A j \in Slot : entries[j].valid /\ ~Expired(entries[j], now) /\ j \in Live
      BY <1>3 DEF Evict, Live, Stale, Valid
  <2>6. ASSUME NEW j \in Slot, SamePeriod(entries[i].used, entries[j].used)
        PROVE  entries[i].used <= entries[j].used
    <3> DEFINE u == entries[i].used
               w == entries[j].used
    <3>1. /\ u \in Nat /\ w \in Nat
          /\ entries[i].timestamp = Stamp(u) /\ entries[j].timestamp = Stamp(w)
        BY <2>5 DEF IInv, TypeOK, EntryType, Kept, Valid
    <3>2. Stamp(u) <= Stamp(w)
        BY <2>2, <2>4, <2>5, <3>1
    <3>3. w - u = Stamp(w) - Stamp(u) /\ Stamp(u) \in Nat /\ Stamp(w) \in Nat
        BY <2>6, <3>1, PeriodStamps, StampType
    <3> HIDE DEF u, w
    <3>4. u <= w
        BY <3>1, <3>2, <3>3
    <3> QED
        BY <3>4 DEF u, w
  <2> QED
      BY <2>5, <2>6 DEF InTurn, OverOrInTurn
<1> QED
    BY <1>1, <1>2, <1>3 DEF Store

\* dns_cache_insert only gives a slot to another name when its verdict's time is
\* over, wrapped or not, or when the table is full of live ones and none of them
\* was stamped before it in the same period of the clock.
THEOREM DisplacedInTurnHolds == Spec => DisplacedInTurn
<1>1. ASSUME IInv, [Next]_vars, NEW i \in Slot, Displaced(i) PROVE OverOrInTurn(i)
  <2> USE Sets
  <2>1. ASSUME NEW S \in SUBSET Slot, entries' = Swept(S) PROVE FALSE
    <3>1. \A j \in Valid' : entries'[j] = entries[j]
        BY <1>1, <2>1, SweepSlots DEF IInv
    <3> QED
        BY <1>1, <3>1 DEF Displaced, Valid
  <2>2. ASSUME NEW r \in Reader, Touch(r) PROVE FALSE
    <3>1. entries'[i].domain = entries[i].domain
        BY <1>1, <2>2, TouchSlots DEF IInv
    <3> QED
        BY <1>1, <3>1 DEF Displaced
  <2>3. ASSUME NEW d \in Domain, Invalidate(d) PROVE FALSE
    <3>1. First(Matches(d)) \in Slot
        BY <2>3, FirstIn DEF Invalidate
    <3> QED
        BY <2>1, <2>3, <3>1 DEF Invalidate
  <2>4. ASSUME Clear PROVE FALSE
      BY <1>1, <2>4, EmptyType DEF Clear, Displaced
  <2>5. ASSUME Prune PROVE FALSE
      BY <2>1, <2>5 DEF Prune
  <2>6. entries' # entries
      BY <1>1 DEF Displaced
  <2>7. \E d \in Domain, v \in Verdict, ttl \in Ttl : Store(d, v, ttl)
      BY <1>1, <2>2, <2>3, <2>4, <2>5, <2>6 DEF Next, Scan, Enter, Tick, vars
  <2> QED
      BY <1>1, <2>7, StoreInTurn
<1>2. IInv /\ [Next]_vars =>
        [\A i \in Slot : Displaced(i) =>
           entries[i].used + entries[i].ttl < now \/ InTurn(i)]_vars
    BY <1>1 DEF OverOrInTurn
<1> QED
    BY <1>2, Invariance, PTL DEF Spec, DisplacedInTurn

-----------------------------------------------------------------------------
(***************************************************************************)
(* The table is a map that forgets.                                         *)
(***************************************************************************)
\* What the map holds, and what each reader has been told.
MapNow == [d \in Domain |-> Stored(d)]
ToldNow == [r \in Reader |-> IF reading[r].pc = "hit"
                             THEN <<reading[r].domain, reading[r].action>> ELSE None]

\* With a name in one slot at most, the first match is the only one.
StoredAlone ==
    /\ \A i \in Valid : Stored(entries[i].domain) = entries[i].action
    /\ \A d \in Domain : Matches(d) = {} => Stored(d) = None
    /\ \A d \in Domain : Stored(d) \in Verdict \cup {None}

LEMMA StoredThere == IInv => StoredAlone
<1> SUFFICES ASSUME IInv PROVE StoredAlone
    OBVIOUS
<1> USE Sets
<1>1. ASSUME NEW d \in Domain, NEW i \in Matches(d) PROVE First(Matches(d)) = i
    BY <1>1, FirstIn DEF Matches, IInv, OneSlotPerDomain
<1>2. \A i \in Valid : entries[i].domain \in Domain /\ i \in Matches(entries[i].domain)
    BY DEF Matches, IInv, TypeOK, EntryType
<1>3. \A i \in Valid : Stored(entries[i].domain) = entries[i].action
    BY <1>1, <1>2 DEF Stored
<1>4. ASSUME NEW d \in Domain PROVE Stored(d) \in Verdict \cup {None}
    BY <1>1 DEF Stored, IInv, TypeOK, EntryType
<1> QED
    BY <1>3, <1>4 DEF Stored, StoredAlone

\* Slots of S are zeroed: their names are forgotten, and no other.
LEMMA Forgotten ==
    ASSUME IInv, IInv', NEW d \in Domain,
           \A i \in Valid' : i \in Valid /\ entries'[i] = entries[i]
    PROVE  Stored(d)' \in {Stored(d), None}
<1>1. CASE Matches(d)' = {}
    BY <1>1 DEF Stored
<1>2. CASE Matches(d)' # {}
  <2>1. PICK i \in Matches(d)' : TRUE
      BY <1>2
  <2>2. i \in Valid' /\ entries'[i].domain = d
      BY <2>1 DEF Matches
  <2>3. Stored(d)' = entries'[i].action
    <3>1. StoredAlone'
        BY StoredThere, PTL
    <3> QED
        BY <2>2, <3>1 DEF StoredAlone
  <2>4. Stored(d) = entries[i].action
      BY <2>2, StoredThere DEF StoredAlone
  <2> QED
      BY <2>2, <2>3, <2>4
<1> QED
    BY <1>1, <1>2

\* A store.
LEMMA StoredOnly ==
    ASSUME IInv, IInv', NEW d \in Domain, NEW v \in Verdict, NEW ttl \in Ttl,
           Store(d, v, ttl)
    PROVE  /\ Stored(d)' = v
           /\ \A x \in Domain \ {d} : Stored(x)' \in {Stored(x), None}
<1> USE Sets
<1> PICK S \in SUBSET Valid, i \in Slot :
      entries' = [Swept(S) EXCEPT ![i] = Holding(d, v, ttl)]
    BY StoreForm
<1>1. /\ Valid' = (Valid \ S) \cup {i} /\ entries'[i] = Holding(d, v, ttl)
      /\ \A j \in Valid' \ {i} : entries'[j] = entries[j]
    BY PlaceSlots DEF IInv
<1>2. entries'[i].domain = d /\ entries'[i].action = v
    BY <1>1, HoldingType DEF IInv
<1>3. StoredAlone'
    BY StoredThere, PTL
<1>4. Stored(d)' = v
    BY <1>1, <1>2, <1>3 DEF StoredAlone
<1>5. ASSUME NEW x \in Domain \ {d} PROVE Stored(x)' \in {Stored(x), None}
  <2>1. CASE Matches(x)' = {}
      BY <1>3, <2>1 DEF StoredAlone
  <2>2. CASE Matches(x)' # {}
    <3>1. PICK j \in Matches(x)' : TRUE
        BY <2>2
    <3>2. j \in Valid' /\ entries'[j].domain = x
        BY <3>1 DEF Matches
    <3>3. j \in Valid /\ entries'[j] = entries[j]
        BY <1>1, <1>2, <3>2
    <3>4. Stored(x)' = entries'[j].action
        BY <1>3, <3>2 DEF StoredAlone
    <3>5. Stored(x) = entries[j].action
        BY <3>2, <3>3, StoredThere DEF StoredAlone
    <3> QED
        BY <3>3, <3>4, <3>5
  <2> QED
      BY <2>1, <2>2
<1> QED
    BY <1>4, <1>5

LEMMA MapInit == Init => Map!MInit
<1> SUFFICES ASSUME Init PROVE Map!MInit
    OBVIOUS
<1>1. Valid = {}
    BY EmptyType DEF Init, Valid
<1>2. \A d \in Domain : Stored(d) = None
    BY <1>1 DEF Stored, Matches
<1>3. \A r \in Reader : reading[r].pc # "hit"
    BY DEF Init, NotReading
<1> QED
    BY <1>2, <1>3 DEF Init, Map!MInit, Map!NothingStored

LEMMA MapStep == IInv /\ IInv' /\ [Next]_vars => [Map!MNext]_(Map!mvars)
<1> SUFFICES ASSUME IInv, IInv', [Next]_vars PROVE [Map!MNext]_(Map!mvars)
    OBVIOUS
<1> USE Sets
<1>t. /\ MapNow' \in [Domain -> Verdict \cup {None}]
      /\ \A d \in Domain : MapNow[d] = Stored(d) /\ MapNow'[d] = Stored(d)'
      /\ \A r \in Reader : None # <<reading[r].domain, reading[r].action>>
                             \/ reading[r].pc # "hit"
  <2>1. StoredAlone'
      BY StoredThere, PTL
  <2>2. ASSUME NEW r \in Reader, reading[r].pc = "hit"
        PROVE  <<reading[r].domain, reading[r].action>> \in Domain \X Verdict
      BY <2>2 DEF IInv, TypeOK, ReaderType, Readers
  <2> QED
      BY <2>1, <2>2, DnsCacheAssumption DEF MapNow, StoredAlone
\* Steps that change neither the slots nor what readers have been told.
<1>s. ASSUME entries' = entries PROVE MapNow' = MapNow
    BY <1>s DEF MapNow, Stored, Matches, Valid
\* Steps that only forget.
<1>f. ASSUME \A i \in Valid' : i \in Valid /\ entries'[i] = entries[i],
             UNCHANGED <<reading, newest>>
      PROVE  Map!Forget
  <2>1. \A d \in Domain : MapNow'[d] \in {MapNow[d], None}
      BY <1>f, <1>t, Forgotten
  <2>2. ToldNow' = ToldNow
      BY <1>f DEF ToldNow
  <2> QED
      BY <1>f, <1>t, <2>1, <2>2 DEF Map!Forget, MapNow, ToldNow
<1>1. ASSUME NEW r \in Reader, Scan(r) PROVE Map!MNext \/ UNCHANGED Map!mvars
  <2>1. /\ reading[r].pc = "scan" /\ reading[r].domain \in Domain
        /\ UNCHANGED <<entries, newest>>
      BY <1>1 DEF Scan, IInv, TypeOK, ReaderType
  <2>2. CASE reading' = [reading EXCEPT ![r] = NotReading]
    <3>1. ToldNow' = ToldNow
        BY <2>1, <2>2 DEF ToldNow, NotReading, IInv, TypeOK
    <3> QED
        BY <1>s, <2>1, <3>1 DEF Map!mvars, MapNow, ToldNow
  <2>3. CASE \E i \in Matches(reading[r].domain), q \in ReaderType :
               /\ q.pc = "hit" /\ q.domain = reading[r].domain
               /\ q.action = entries[i].action /\ q.action \in Verdict
               /\ reading' = [reading EXCEPT ![r] = q]
    <3> PICK i \in Matches(reading[r].domain), q \in ReaderType :
               /\ q.pc = "hit" /\ q.domain = reading[r].domain
               /\ q.action = entries[i].action /\ q.action \in Verdict
               /\ reading' = [reading EXCEPT ![r] = q]
        BY <2>3
    <3> PICK d \in Domain : d = reading[r].domain
        BY <2>1
    <3>1. MapNow[d] = q.action
        BY <1>t, StoredThere DEF Matches, StoredAlone
    <3>2. MapNow[d] # None
        BY <3>1, DnsCacheAssumption
    <3>3. ToldNow[r] = None
        BY <2>1 DEF ToldNow
    <3>4. ToldNow' = [ToldNow EXCEPT ![r] = <<d, MapNow[d]>>]
        BY <3>1 DEF ToldNow, IInv, TypeOK
    <3>5. Map!Tell(r, d)
        BY <1>s, <2>1, <3>2, <3>3, <3>4 DEF Map!Tell, MapNow, ToldNow
    <3> QED
        BY <2>1, <3>5 DEF Map!MNext
  <2> QED
      BY <1>1, <2>2, <2>3, ScanForm
<1>2. ASSUME NEW r \in Reader, Touch(r) PROVE Map!Return(r)
  <2>1. /\ Valid' = Valid
        /\ \A i \in Slot : entries'[i].domain = entries[i].domain
                        /\ entries'[i].action = entries[i].action
      BY <1>2, TouchSlots DEF IInv
  <2>2. \A d \in Domain : Matches(d)' = Matches(d)
      BY <2>1 DEF Matches
  <2>3. \A d \in Domain : Stored(d)' = Stored(d)
      BY <2>1, <2>2, FirstIn DEF Stored
  <2>4. MapNow' = MapNow
      BY <2>3 DEF MapNow
  <2>5. ToldNow[r] # None
      BY <1>2, <1>t DEF ToldNow, Touch
  <2>6. ToldNow' = [ToldNow EXCEPT ![r] = None]
      BY <1>2 DEF ToldNow, Touch, NotReading, IInv, TypeOK
  <2> QED
      BY <1>2, <2>4, <2>5, <2>6 DEF Map!Return, MapNow, ToldNow, Touch
<1>3. ASSUME NEW r \in Reader, NEW d \in Domain, Enter(r, d) PROVE UNCHANGED Map!mvars
  <2>1. \A c \in Reader : reading[c].pc = "hit" <=> reading'[c].pc = "hit"
      BY <1>3 DEF Enter, NotReading, IInv, TypeOK
  <2>2. \A c \in Reader : reading[c].pc = "hit" => reading'[c] = reading[c]
      BY <1>3 DEF Enter, IInv, TypeOK
  <2>3. ToldNow' = ToldNow
      BY <2>1, <2>2 DEF ToldNow
  <2> QED
      BY <1>3, <1>s, <2>3 DEF Enter, Map!mvars, MapNow, ToldNow
<1>4. ASSUME NEW d \in Domain, NEW v \in Verdict, NEW ttl \in Ttl, Store(d, v, ttl)
      PROVE  Map!Put(d, v)
  <2>1. newest' = [newest EXCEPT ![d] = v] /\ reading' = reading
      BY <1>4, StoreForm
  <2>2. /\ MapNow'[d] = v
        /\ \A x \in Domain \ {d} : MapNow'[x] \in {MapNow[x], None}
      BY <1>4, <1>t, StoredOnly
  <2>3. ToldNow' = ToldNow
      BY <2>1 DEF ToldNow
  <2> QED
      BY <1>t, <2>1, <2>2, <2>3 DEF Map!Put, MapNow, ToldNow
<1>5. ASSUME NEW d \in Domain, Invalidate(d) PROVE Map!Forget
  <2>1. {First(Matches(d))} \subseteq Slot
      BY <1>5, FirstIn DEF Invalidate
  <2> QED
      BY <1>5, <1>f, <2>1, SweepSlots DEF Invalidate, IInv
<1>6. CASE Clear
  <2>1. Valid' = {}
      BY <1>6, EmptyType DEF Clear, Valid
  <2> QED
      BY <1>6, <1>f, <2>1 DEF Clear, Map!MNext
<1>7. CASE Prune
  <2>1. Stale \subseteq Slot
      OBVIOUS
  <2> QED
      BY <1>7, <1>f, <2>1, SweepSlots DEF Prune, IInv, Map!MNext
<1>8. CASE Tick \/ UNCHANGED vars
  <2>1. UNCHANGED <<entries, reading, newest>>
      BY <1>8 DEF Tick, vars
  <2>2. ToldNow' = ToldNow
      BY <2>1 DEF ToldNow
  <2> QED
      BY <1>s, <2>1, <2>2 DEF Map!mvars, MapNow, ToldNow
<1> QED
    BY <1>1, <1>2, <1>3, <1>4, <1>5, <1>6, <1>7, <1>8 DEF Next, Map!MNext

\* The table of dns_cache.c, with its lookups of several steps, its expiry and
\* its evictions, implements a map that forgets but never answers for a name what
\* is not stored for it.
THEOREM MapImplemented == Spec => ImplementsMap
    BY MapInit, MapStep, Invariance, PTL DEF Spec, ImplementsMap, Map!MSpec

-----------------------------------------------------------------------------
(***************************************************************************)
(* Trust.  What a reader has found is in use and has not expired at the     *)
(* reader's time, and stays so: no writer comes in before the reader is out, *)
(* and the touches of others only move the entry's time forward.            *)
(***************************************************************************)
HitFresh ==
    \A r \in Reader : reading[r].pc = "hit" =>
        reading[r].at \in Valid /\ ~Expired(entries[reading[r].at], reading[r].now)

LEMMA TouchForward ==
    ASSUME TypeOK, NEW r \in Reader, Touch(r), NEW i \in Slot
    PROVE  entries'[i].timestamp >= entries[i].timestamp
<1> DEFINE me == reading[r]
           s  == Stamp(me.now)
           e  == [[entries[me.at] EXCEPT !.timestamp = s] EXCEPT !.used = me.now]
<1>1. me.at \in Slot /\ me.now \in Nat /\ s \in Nat
    BY StampType DEF TypeOK, ReaderType
<1>2. entries[me.at] \in EntryType /\ entries[i] \in EntryType /\ entries[i].timestamp \in Nat
    BY <1>1 DEF TypeOK, EntryType
<1>3. e.timestamp = s
    BY <1>2 DEF EntryType
<1> HIDE DEF e
<1>4. \/ entries' = entries
      \/ me.ts < s /\ entries[me.at].timestamp = me.ts /\ entries' = [entries EXCEPT ![me.at] = e]
    BY <1>1 DEF Touch, TypeOK, e
<1>5. CASE entries' = entries
    BY <1>2, <1>5
<1>6. CASE me.ts < s /\ entries[me.at].timestamp = me.ts /\ entries' = [entries EXCEPT ![me.at] = e]
  <2>1. entries'[i] = IF i = me.at THEN e ELSE entries[i]
      BY <1>6 DEF TypeOK
  <2> QED
      BY <1>1, <1>2, <1>3, <1>6, <2>1
<1> QED
    BY <1>4, <1>5, <1>6

LEMMA HitFreshStep ==
    ASSUME IInv, HitFresh, [Next]_vars
    PROVE  HitFresh'
<1> USE Sets
\* Writers.
<1>1. ASSUME NoReader, reading' = reading PROVE HitFresh'
    BY <1>1 DEF NoReader, HitFresh
\* The end of a lookup, or its start.
<1>2. ASSUME NEW r \in Reader, NEW q, q.pc # "hit", entries' = entries,
             reading' = [reading EXCEPT ![r] = q]
      PROVE  HitFresh'
  <2>1. \A c \in Reader : reading'[c] = IF c = r THEN q ELSE reading[c]
      BY <1>2 DEF IInv, TypeOK
  <2> QED
      BY <1>2, <2>1 DEF HitFresh, Valid, Expired, Stamp
<1>3. NotReading.pc # "hit"
    BY DEF NotReading
<1>4. ASSUME NEW r \in Reader, Scan(r) PROVE HitFresh'
  <2> DEFINE me == reading[r]
             i  == First(Matches(me.domain))
             q  == [me EXCEPT !.pc = "hit", !.at = i, !.ts = entries[i].timestamp,
                              !.action = entries[i].action]
  <2>1. me \in ReaderType /\ entries' = entries
      BY <1>4 DEF Scan, IInv, TypeOK
  <2>2. \/ reading' = [reading EXCEPT ![r] = NotReading]
        \/ /\ Matches(me.domain) # {} /\ ~Expired(entries[i], me.now)
           /\ reading' = [reading EXCEPT ![r] = q]
      BY <1>4 DEF Scan
  <2>3. CASE /\ Matches(me.domain) # {} /\ ~Expired(entries[i], me.now)
             /\ reading' = [reading EXCEPT ![r] = q]
    <3>1. i \in Valid
        BY <2>3, FirstIn
    <3> HIDE DEF i
    <3>2. q.at = i /\ q.now = me.now
        BY <2>1 DEF ReaderType
    <3> HIDE DEF q
    <3>3. \A c \in Reader : reading'[c] = IF c = r THEN q ELSE reading[c]
        BY <2>3 DEF IInv, TypeOK
    <3> QED
        BY <2>1, <2>3, <3>1, <3>2, <3>3 DEF HitFresh, Valid, Expired, Stamp
  <2> QED
      BY <1>2, <1>3, <2>1, <2>2, <2>3
<1>5. ASSUME NEW r \in Reader, NEW d \in Domain, Enter(r, d) PROVE HitFresh'
  <2>1. [NotReading EXCEPT !.pc = "scan", !.domain = d, !.now = now].pc # "hit"
      BY DEF NotReading
  <2> QED
      BY <1>2, <1>5, <2>1 DEF Enter
<1>6. ASSUME NEW r \in Reader, Touch(r) PROVE HitFresh'
  <2>1. /\ Valid' = Valid
        /\ \A i \in Slot : entries'[i].ttl = entries[i].ttl
      BY <1>6, TouchSlots DEF IInv
  <2>2. \A i \in Slot : entries'[i].timestamp >= entries[i].timestamp
      BY <1>6, TouchForward DEF IInv
  <2>3. \A c \in Reader : reading'[c] = IF c = r THEN NotReading ELSE reading[c]
      BY <1>6 DEF Touch, IInv, TypeOK
  <2>4. /\ \A i \in Slot : /\ entries[i].timestamp \in Nat /\ entries[i].ttl \in Nat
                           /\ entries'[i].timestamp \in Nat
        /\ \A c \in Reader : Stamp(reading[c].now) \in Nat
    <3>1. entries' \in [Slot -> EntryType]
        BY <1>6, TouchSlots DEF IInv
    <3> QED
        BY <3>1, StampType DEF IInv, TypeOK, EntryType, ReaderType
  <2>5. ASSUME NEW c \in Reader, reading'[c].pc = "hit"
        PROVE  reading'[c].at \in Valid' /\ ~Expired(entries[reading[c].at], reading[c].now)'
    <3>1. c # r /\ reading'[c] = reading[c]
        BY <1>3, <2>3, <2>5
    <3>2. reading[c].at \in Valid /\ ~Expired(entries[reading[c].at], reading[c].now)
        BY <2>5, <3>1 DEF HitFresh
    <3> QED
        BY <2>1, <2>2, <2>4, <3>1, <3>2 DEF Expired, Stamp
  <2> QED
      BY <2>5 DEF HitFresh
<1>7. ASSUME NEW d \in Domain, NEW v \in Verdict, NEW ttl \in Ttl, Store(d, v, ttl)
      PROVE  HitFresh'
    BY <1>1, <1>7 DEF Store, Refresh, Insert, Evict
<1>8. CASE Clear \/ Prune \/ \E d \in Domain : Invalidate(d)
    BY <1>1, <1>8 DEF Clear, Prune, Invalidate
<1>9. CASE Tick \/ UNCHANGED vars
    BY <1>9 DEF Tick, vars, HitFresh, Valid, Expired, Stamp
<1> QED
    BY <1>4, <1>5, <1>6, <1>7, <1>8, <1>9 DEF Next

LEMMA FreshIsTrusted == IInv /\ HitFresh => TrustedForTtl
<1> SUFFICES ASSUME IInv, HitFresh, NEW r \in Reader, reading[r].pc = "hit",
                    SamePeriod(entries[reading[r].at].used, reading[r].now)
             PROVE  reading[r].now <= entries[reading[r].at].used + entries[reading[r].at].ttl
    BY DEF TrustedForTtl
<1> DEFINE e == entries[reading[r].at]
           n == reading[r].now
<1>1. reading[r].at \in Valid /\ ~(e.timestamp + e.ttl < Stamp(n))
    BY DEF HitFresh, Expired
<1>2. e.used \in Nat /\ e.ttl \in Nat /\ n \in Nat /\ e.timestamp = Stamp(e.used)
    BY <1>1, Sets DEF IInv, TypeOK, EntryType, ReaderType, Kept
<1>3. n - e.used = Stamp(n) - Stamp(e.used) /\ Stamp(n) \in Nat /\ Stamp(e.used) \in Nat
    BY <1>2, PeriodStamps, StampType
<1> HIDE DEF e, n
<1> QED
    BY <1>1, <1>2, <1>3 DEF e, n

\* dns_cache_lookup uses a verdict only while somebody has asked for it within its TTL,
\* for any readers touching it at once, unless the clock has wrapped since.
THEOREM TrustedForTtlHolds == Spec => []TrustedForTtl
<1>1. Init => HitFresh
    BY DEF Init, NotReading, HitFresh
<1>2. IInv /\ HitFresh /\ [Next]_vars => HitFresh'
    BY HitFreshStep
<1> QED
    BY <1>1, <1>2, Invariance, FreshIsTrusted, PTL DEF Spec
=============================================================================
