--------------------------- MODULE AnswerCache_proofs ---------------------------
(***************************************************************************)
(* AnswerCache, for any keys, capacity, probe window, hash, TTLs, readers   *)
(* and period of the clock: a key is in one slot at most and where a lookup *)
(* looks for it, no answer that was replaced or invalidated comes back, the *)
(* count never claims more slots than there are, and no reader takes a      *)
(* touch back.                                                              *)
(*                                                                          *)
(* As in DnsCache_proofs, writers change the slots in two ways only (Sweep, *)
(* Place); readers write too, but only the time and the validity of a slot. *)
(***************************************************************************)
EXTENDS AnswerCache, TLAPS, FiniteSetTheorems, WellFoundedInduction

-----------------------------------------------------------------------------
(***************************************************************************)
(* The first slot of a set, in the order of a key's probes.                 *)
(***************************************************************************)
LEMMA Least ==
    ASSUME NEW S, S \subseteq Nat, S # {}
    PROVE  \E i \in S : \A j \in S : i <= j
<1> DEFINE R == OpToRel(<, Nat)
<1>1. IsWellFoundedOn(R, Nat)
  BY NatLessThanWellFounded
<1>2. PICK i \in S : \A j \in S : ~(<<j, i>> \in R)
  BY <1>1, WFMin
<1>3. ASSUME NEW j \in S PROVE i <= j
  <2>1. <<j, i>> \in Nat \X Nat
    BY <1>3
  <2>2. ~(j < i)
    BY <1>2, <2>1 DEF OpToRel
  <2> QED
    BY <2>2
<1> QED
  BY <1>3

\* A set on whose elements f is a number has one where it is least.
LEMMA LeastBy ==
    ASSUME NEW S, NEW f, \A i \in S : f[i] \in Nat, S # {}
    PROVE  \E i \in S : \A j \in S : f[i] <= f[j]
<1> DEFINE T == {f[i] : i \in S}
<1>1. T \subseteq Nat /\ T # {}
  OBVIOUS
<1>2. PICK t \in T : \A u \in T : t <= u
  BY <1>1, Least
<1> QED
  BY <1>2

LEMMA StepType ==
    ASSUME NEW k \in Key, NEW i \in Slot
    PROVE  Step(k, i) \in Nat
<1>1. Capacity \in Nat /\ Capacity > 0 /\ i \in Int /\ Start[k] \in Int
  BY CacheAssumption DEF Slot
<1>2. i - Start[k] \in Int
  BY <1>1
<1>3. \A n \in Int : n % Capacity \in Nat
  BY <1>1
<1> QED
  BY <1>2, <1>3 DEF Step

LEMMA FirstOfIn ==
    ASSUME NEW k \in Key, NEW S, S \subseteq Slot, S # {}
    PROVE  FirstOf(k, S) \in S
<1> DEFINE f == [i \in S |-> Step(k, i)]
<1>1. \A i \in S : f[i] \in Nat
  BY StepType
<1>2. PICK i \in S : \A j \in S : f[i] <= f[j]
  BY <1>1, LeastBy
<1>3. \A j \in S : Step(k, i) <= Step(k, j)
  BY <1>2
<1> QED
  BY <1>3 DEF FirstOf

-----------------------------------------------------------------------------
(***************************************************************************)
(* Slots and their types.                                                   *)
(***************************************************************************)
Valid      == {i \in Slot : entries[i].valid}
Uncounting == {r \in Reader : reading[r].pc = "uncount"}

LEMMA StampType ==
    ASSUME TypeOK
    PROVE  Stamp \in Nat
BY CacheAssumption DEF TypeOK, Stamp

LEMMA EmptyType == Empty \in EntryType /\ ~Empty.valid
BY CacheAssumption DEF Empty, EntryType

LEMMA NotReadingType == NotReading \in ReaderType /\ NotReading.pc = "out"
<1>1. 0 \in Slot
  BY CacheAssumption DEF Slot
<1> QED
  BY <1>1, CacheAssumption DEF NotReading, ReaderType

LEMMA HoldingType ==
    ASSUME TypeOK, NEW k \in Key, NEW a \in Answer, NEW ttl \in Ttl
    PROVE  /\ Holding(k, a, ttl) \in EntryType /\ Holding(k, a, ttl).valid
           /\ Holding(k, a, ttl).key = k /\ Holding(k, a, ttl).answer = a
<1>1. Stamp \in Nat /\ ttl \in Nat
  BY StampType, CacheAssumption
<1> QED
  BY <1>1 DEF Holding, EntryType

LEMMA Sets ==
    /\ Valid \subseteq Slot
    /\ \A k : /\ Window(k) \subseteq Slot /\ LiveIn(k) \subseteq Valid /\ StaleIn(k) \subseteq Valid
              /\ LiveIn(k) \subseteq Window(k) /\ StaleIn(k) \subseteq Window(k)
              /\ VacantIn(k) \subseteq Window(k) /\ Matches(k) \subseteq Window(k)
              /\ Matches(k) \subseteq Valid
              /\ VacantIn(k) \cap Valid \subseteq StaleIn(k)
              /\ Matches(k) \subseteq LiveIn(k) \cup StaleIn(k)
BY DEF Valid, Window, LiveIn, StaleIn, VacantIn, Matches

\* A window is never empty: it starts at the key's hash.
LEMMA WindowStarts ==
    ASSUME NEW k \in Key
    PROVE  Start[k] \in Window(k)
<1>1. Start[k] \in Slot /\ Capacity \in Nat /\ Capacity > 0 /\ ProbeWindow > 0
  BY CacheAssumption
<1>2. Start[k] \in Int
  BY <1>1 DEF Slot
<1>3. Start[k] - Start[k] = 0
  BY <1>2
<1>4. 0 % Capacity = 0
  BY <1>1
<1> QED
  BY <1>1, <1>3, <1>4 DEF Window, Step

LEMMA OldestIn ==
    ASSUME TypeOK, NEW k \in Key, LiveIn(k) # {}
    PROVE  Oldest(k) \in LiveIn(k)
<1> DEFINE f == [i \in LiveIn(k) |-> entries[i].timestamp]
           S == {i \in LiveIn(k) : \A j \in LiveIn(k) :
                   entries[i].timestamp <= entries[j].timestamp}
<1>1. \A i \in LiveIn(k) : f[i] \in Nat
  BY Sets DEF TypeOK, EntryType
<1>2. \E i \in LiveIn(k) : \A j \in LiveIn(k) : f[i] <= f[j]
  BY <1>1, LeastBy
<1>3. S # {} /\ S \subseteq Slot
  BY <1>2, Sets
<1> QED
  BY <1>3, FirstOfIn DEF Oldest

LEMMA FiniteSlots == \A S : S \subseteq Slot => IsFiniteSet(S) /\ Cardinality(S) \in Nat
<1>1. IsFiniteSet(Slot)
  BY FS_Interval, CacheAssumption DEF Slot
<1> QED
  BY <1>1, FS_Subset, FS_CardinalityType

-----------------------------------------------------------------------------
(***************************************************************************)
(* The invariant.  TableSound and NothingComesBack are inductive together,  *)
(* once it is known that a writer finds nobody counting.                    *)
(***************************************************************************)
IInv == TypeOK /\ OneSlotPerKey /\ CountBounded /\ NothingComesBack

LEMMA InvParts ==
    IInv <=>
      /\ TypeOK
      /\ \A i \in Valid : i \in Window(entries[i].key)
      /\ \A i, j \in Valid : entries[i].key = entries[j].key => i = j
      /\ \A i \in Valid : entries[i].answer = newest[entries[i].key]
      /\ count <= Cardinality(Valid) + Cardinality(Uncounting)
BY DEF IInv, OneSlotPerKey, CountBounded, NothingComesBack, Valid, Uncounting

LEMMA InvPartsNext ==
    IInv' <=>
      /\ TypeOK'
      /\ \A i \in Valid' : i \in Window(entries'[i].key)
      /\ \A i, j \in Valid' : entries'[i].key = entries'[j].key => i = j
      /\ \A i \in Valid' : entries'[i].answer = newest'[entries'[i].key]
      /\ count' <= Cardinality(Valid') + Cardinality(Uncounting')
BY DEF IInv, OneSlotPerKey, CountBounded, NothingComesBack, Valid, Uncounting, Window, Step

LEMMA Counted == IInv =>
    /\ IsFiniteSet(Valid) /\ Cardinality(Valid) \in Nat
    /\ IsFiniteSet(Uncounting) /\ Cardinality(Uncounting) \in Nat
    /\ count \in Int
    /\ NoReader => Cardinality(Uncounting) = 0
<1>1. IsFiniteSet(Uncounting)
  BY CacheAssumption, FS_Subset DEF Uncounting
<1>2. NoReader => Uncounting = {}
  BY DEF NoReader, Uncounting
<1> QED
  BY <1>1, <1>2, Sets, FiniteSlots, FS_CardinalityType, FS_EmptySet DEF IInv, TypeOK

\* Zeroing slots that are in use, and then writing one.
LEMMA CardinalityLeft ==
    ASSUME IInv, NEW S \in SUBSET Valid
    PROVE  /\ Cardinality(S) \in Nat /\ IsFiniteSet(Valid \ S)
           /\ Cardinality(Valid \ S) = Cardinality(Valid) - Cardinality(S)
<1>1. IsFiniteSet(Valid) /\ IsFiniteSet(S) /\ Valid \cap S = S
  BY Sets, FiniteSlots
<1> QED
  BY <1>1, FS_Difference, FS_CardinalityType

LEMMA SweepInv ==
    ASSUME IInv, NoReader, NEW S \in SUBSET Valid, entries' = Swept(S),
           count' = count - Cardinality(S), UNCHANGED <<now, reading>>,
           newest' \in [Key -> Answer \cup {"none"}],
           \A i \in Valid \ S : newest'[entries[i].key] = newest[entries[i].key]
    PROVE  IInv'
<1>1. \A i \in Slot : entries'[i] = IF i \in S THEN Empty ELSE entries[i]
  BY DEF Swept
<1>2. Valid' = Valid \ S /\ \A i \in Valid' : entries'[i] = entries[i]
  BY <1>1, EmptyType DEF Valid
<1>3. TypeOK'
  <2>1. entries' \in [Slot -> EntryType]
    BY EmptyType DEF Swept, IInv, TypeOK
  <2> QED
    BY <2>1, CardinalityLeft DEF IInv, TypeOK
<1>4. count' <= Cardinality(Valid') + Cardinality(Uncounting')
  <2>1. Uncounting' = Uncounting
    BY DEF Uncounting
  <2>2. /\ count \in Int /\ Cardinality(Valid) \in Nat /\ Cardinality(Uncounting) \in Nat
        /\ count <= Cardinality(Valid) + Cardinality(Uncounting)
    BY Counted, InvParts
  <2>3. /\ Cardinality(S) \in Nat
        /\ Cardinality(Valid') = Cardinality(Valid) - Cardinality(S)
    BY <1>2, CardinalityLeft
  <2> QED
    BY <2>1, <2>2, <2>3
<1> QED
  BY <1>2, <1>3, <1>4, InvParts, InvPartsNext

LEMMA PlaceInv ==
    ASSUME IInv, NoReader, NEW S \in SUBSET Valid,
           NEW k \in Key, NEW a \in Answer, NEW ttl \in Ttl, NEW i \in Window(k),
           entries' = [Swept(S) EXCEPT ![i] = Holding(k, a, ttl)],
           Matches(k) \ S \subseteq {i},
           count' = count - Cardinality(S) + (IF i \in Valid \ S THEN 0 ELSE 1),
           newest' = [newest EXCEPT ![k] = a],
           UNCHANGED <<now, reading>>
    PROVE  IInv'
<1> DEFINE h == Holding(k, a, ttl)
<1>0. i \in Slot /\ h \in EntryType /\ h.valid /\ h.key = k /\ h.answer = a
  BY Sets, HoldingType DEF IInv
<1> HIDE DEF h
<1>1. \A j \in Slot : entries'[j] = IF j = i THEN h ELSE IF j \in S THEN Empty ELSE entries[j]
  BY DEF Swept, h
<1>2. /\ Valid' = (Valid \ S) \cup {i} /\ entries'[i] = h
      /\ \A j \in Valid' \ {i} : entries'[j] = entries[j]
  BY <1>0, <1>1, EmptyType DEF Valid
<1>3. TypeOK'
  <2>1. entries' \in [Slot -> EntryType]
    BY <1>0, EmptyType DEF Swept, IInv, TypeOK, h
  <2>2. newest' \in [Key -> Answer \cup {"none"}]
    BY DEF IInv, TypeOK
  <2> QED
    BY <2>1, <2>2, CardinalityLeft DEF IInv, TypeOK
<1>4. \A j \in Valid' \ {i} : j \in Valid /\ entries'[j].key # k /\ entries'[j].key \in Key
  BY <1>2, InvParts DEF Matches, Valid, TypeOK, EntryType
<1>5. \A j \in Valid' : j \in Window(entries'[j].key)
  BY <1>0, <1>2, <1>4, InvParts
<1>6. \A j, l \in Valid' : entries'[j].key = entries'[l].key => j = l
  BY <1>0, <1>2, <1>4, InvParts
<1>7. \A j \in Valid' : entries'[j].answer = newest'[entries'[j].key]
  BY <1>0, <1>2, <1>4, InvParts DEF TypeOK
<1>8. count' <= Cardinality(Valid') + Cardinality(Uncounting')
  <2>1. Uncounting' = Uncounting
    BY DEF Uncounting
  <2>2. Cardinality(Valid') = Cardinality(Valid \ S) + (IF i \in Valid \ S THEN 0 ELSE 1)
    <3>1. CASE i \in Valid \ S
      <4>1. Valid' = Valid \ S
        BY <1>2, <3>1
      <4> QED
        BY <3>1, <4>1, Counted, CardinalityLeft
    <3>2. CASE i \notin Valid \ S
      BY <1>2, <3>2, CardinalityLeft, FS_AddElement
    <3> QED
      BY <3>1, <3>2
  <2>3. /\ count \in Int /\ Cardinality(Valid) \in Nat /\ Cardinality(Uncounting) \in Nat
        /\ count <= Cardinality(Valid) + Cardinality(Uncounting)
    BY Counted, InvParts
  <2>4. /\ Cardinality(S) \in Nat
        /\ Cardinality(Valid \ S) = Cardinality(Valid) - Cardinality(S)
    BY CardinalityLeft
  <2> QED
    BY <2>1, <2>2, <2>3, <2>4
<1> QED
  BY <1>3, <1>5, <1>6, <1>7, <1>8, InvPartsNext

-----------------------------------------------------------------------------
(***************************************************************************)
(* The writers.                                                             *)
(***************************************************************************)
LEMMA StoreInv ==
    ASSUME IInv, NEW k \in Key, NEW a \in Answer, NEW ttl \in Ttl,
           Refresh(k, a, ttl) \/ Insert(k, a, ttl) \/ Evict(k, a, ttl)
    PROVE  IInv'
<1> USE Sets
<1>1. CASE Refresh(k, a, ttl)
  <2> PICK i \in Matches(k) \cap LiveIn(k) :
        LET stale == {j \in StaleIn(k) : Step(k, j) < Step(k, i)}
        IN  /\ entries' = [Swept(stale) EXCEPT ![i] = Holding(k, a, ttl)]
            /\ count' = count - Cardinality(stale)
    BY <1>1 DEF Refresh
  <2> DEFINE S == {j \in StaleIn(k) : Step(k, j) < Step(k, i)}
  <2>1. S \in SUBSET Valid /\ i \in Window(k) /\ i \in Valid \ S
    BY DEF LiveIn, StaleIn
  <2>2. Matches(k) \ S \subseteq {i}
    BY InvParts DEF Matches
  <2>3. count' = count - Cardinality(S) + 0
    BY <2>1, Counted, CardinalityLeft
  <2>4. NoReader /\ newest' = [newest EXCEPT ![k] = a] /\ UNCHANGED <<now, reading>>
    BY <1>1 DEF Refresh
  <2> HIDE DEF S
  <2>5. count' = count - Cardinality(S) + (IF i \in Valid \ S THEN 0 ELSE 1)
    BY <2>1, <2>3
  <2>6. entries' = [Swept(S) EXCEPT ![i] = Holding(k, a, ttl)]
    BY DEF S
  <2> QED
    BY <2>1, <2>2, <2>4, <2>5, <2>6, PlaceInv
<1>2. CASE Insert(k, a, ttl)
  <2> DEFINE i == FirstOf(k, VacantIn(k))
  <2>1. i \in VacantIn(k)
    BY <1>2, FirstOfIn DEF Insert
  <2>2. i \in Window(k) /\ i \notin Valid \ StaleIn(k) /\ StaleIn(k) \in SUBSET Valid
    BY <2>1
  <2>3. Matches(k) \ StaleIn(k) \subseteq {i}
    BY <1>2 DEF Insert
  <2> HIDE DEF i
  <2>4. count' = count - Cardinality(StaleIn(k)) + (IF i \in Valid \ StaleIn(k) THEN 0 ELSE 1)
    BY <1>2, <2>2 DEF Insert
  <2>5. entries' = [Swept(StaleIn(k)) EXCEPT ![i] = Holding(k, a, ttl)]
    BY <1>2 DEF Insert, i
  <2>6. NoReader /\ newest' = [newest EXCEPT ![k] = a] /\ UNCHANGED <<now, reading>>
    BY <1>2 DEF Insert
  <2> QED
    BY <2>2, <2>3, <2>4, <2>5, <2>6, PlaceInv
<1>3. CASE Evict(k, a, ttl)
  <2>1. LiveIn(k) # {}
    BY <1>3, WindowStarts DEF Evict
  <2>2. Oldest(k) \in LiveIn(k)
    BY <2>1, OldestIn DEF IInv
  <2>3. Swept({}) = entries
    BY DEF Swept, IInv, TypeOK
  <2>4. Cardinality({}) = 0 /\ count \in Int
    BY FS_EmptySet, Counted
  <2>5. {} \in SUBSET Valid /\ Oldest(k) \in Valid \ {} /\ Oldest(k) \in Window(k)
    BY <2>2
  <2>6. count' = count - Cardinality({}) + (IF Oldest(k) \in Valid \ {} THEN 0 ELSE 1)
    BY <1>3, <2>4, <2>5 DEF Evict
  <2>7. entries' = [Swept({}) EXCEPT ![Oldest(k)] = Holding(k, a, ttl)]
    BY <1>3, <2>3 DEF Evict
  <2>8. NoReader /\ newest' = [newest EXCEPT ![k] = a] /\ UNCHANGED <<now, reading>>
    BY <1>3 DEF Evict
  <2>9. Matches(k) \ {} \subseteq {Oldest(k)}
    BY <1>3 DEF Evict
  <2> QED
    BY <2>5, <2>6, <2>7, <2>8, <2>9, PlaceInv
<1> QED
  BY <1>1, <1>2, <1>3

LEMMA InvalidateInv ==
    ASSUME IInv, NEW n \in Name, Invalidate(n)
    PROVE  IInv'
<1> USE Sets
<1> DEFINE found == {x \in Key : x[1] = n /\ Matches(x) # {}}
           gone  == {FirstOf(k, Matches(k)) : k \in found}
<1>1. \A k \in found : FirstOf(k, Matches(k)) \in Matches(k)
  BY FirstOfIn
<1>2. gone \in SUBSET Valid
  BY <1>1
<1>3. /\ NoReader /\ entries' = Swept(gone) /\ count' = count - Cardinality(gone)
      /\ newest' = [k \in Key |-> IF k[1] = n THEN "none" ELSE newest[k]]
      /\ UNCHANGED <<now, reading>>
  BY DEF Invalidate
<1>4. newest' \in [Key -> Answer \cup {"none"}]
  BY <1>3 DEF IInv, TypeOK
<1>5. ASSUME NEW i \in Valid \ gone PROVE newest'[entries[i].key] = newest[entries[i].key]
  <2> DEFINE k == entries[i].key
  <2>1. k \in Key /\ i \in Matches(k)
    BY InvParts DEF TypeOK, EntryType, Matches, Valid
  <2>2. k \in found => FirstOf(k, Matches(k)) = i
    BY <1>1, <2>1, InvParts DEF Matches
  <2>3. k[1] # n
    BY <1>5, <2>1, <2>2
  <2> QED
    BY <1>3, <2>1, <2>3
<1> HIDE DEF gone
<1> QED
  BY <1>2, <1>3, <1>4, <1>5, SweepInv

LEMMA PruneInv ==
    ASSUME IInv, Prune
    PROVE  IInv'
<1> DEFINE stale == {i \in Slot : entries[i].valid /\ Expired(entries[i], Stamp)}
<1>1. stale \in SUBSET Valid
  BY DEF Valid
<1>2. /\ NoReader /\ entries' = Swept(stale) /\ count' = count - Cardinality(stale)
      /\ UNCHANGED <<now, reading, newest>>
  BY DEF Prune
<1>3. newest' \in [Key -> Answer \cup {"none"}]
  BY <1>2 DEF IInv, TypeOK
<1> HIDE DEF stale
<1> QED
  BY <1>1, <1>2, <1>3, SweepInv

LEMMA ClearInv ==
    ASSUME IInv, Clear
    PROVE  IInv'
<1>1. Valid' = {}
  BY EmptyType DEF Clear, Valid
<1>2. TypeOK'
  BY EmptyType DEF Clear, IInv, TypeOK
<1>3. Cardinality(Valid') = 0 /\ Cardinality(Uncounting') = 0
  <2>1. Uncounting' = {}
    BY DEF Clear, NoReader, Uncounting
  <2> QED
    BY <1>1, <2>1, FS_EmptySet
<1> QED
  BY <1>1, <1>2, <1>3, InvPartsNext DEF Clear

-----------------------------------------------------------------------------
(***************************************************************************)
(* The readers.                                                             *)
(***************************************************************************)
\* A step that only moves a reader that is not about to count.
LEMMA MoveInv ==
    ASSUME IInv, NEW r \in Reader, NEW q \in ReaderType,
           reading' = [reading EXCEPT ![r] = q],
           reading[r].pc # "uncount", q.pc # "uncount",
           UNCHANGED <<entries, count, now, newest>>
    PROVE  IInv'
<1>1. Valid' = Valid
  BY DEF Valid
<1>2. Uncounting' = Uncounting
  BY DEF Uncounting, IInv, TypeOK
<1>3. TypeOK'
  BY DEF IInv, TypeOK
<1> QED
  BY <1>1, <1>2, <1>3, InvParts, InvPartsNext

LEMMA LookupInv ==
    ASSUME IInv, NEW r \in Reader,
           (\E k \in Key : Enter(r, k)) \/ Probe(r) \/ ReadTimestamp(r)
    PROVE  IInv'
<1> USE Sets
<1> DEFINE me == reading[r]
<1>0. me \in ReaderType /\ Stamp \in Nat
  BY StampType DEF IInv, TypeOK
<1>1. ASSUME NEW k \in Key, Enter(r, k) PROVE IInv'
  <2> DEFINE q == [NotReading EXCEPT !.pc = "probe", !.key = k, !.now = Stamp]
  <2>1. q \in ReaderType /\ q.pc # "uncount"
    BY <1>0, NotReadingType DEF ReaderType
  <2> HIDE DEF q
  <2>2. reading' = [reading EXCEPT ![r] = q] /\ me.pc # "uncount"
        /\ UNCHANGED <<entries, count, now, newest>>
    BY <1>1 DEF Enter, q
  <2> QED
    BY <2>1, <2>2, MoveInv
<1>2. CASE Probe(r)
  <2> DEFINE i == FirstOf(me.key, Matches(me.key))
             p == IF Expired(entries[i], me.now) THEN "drop" ELSE "hit"
             q == [me EXCEPT !.at = i, !.pc = p]
  <2>1. me.pc # "uncount" /\ UNCHANGED <<entries, count, now, newest>>
    BY <1>2 DEF Probe
  <2>2. \/ reading' = [reading EXCEPT ![r] = NotReading]
        \/ Matches(me.key) # {} /\ reading' = [reading EXCEPT ![r] = q]
    BY <1>2 DEF Probe, IInv, TypeOK
  <2>3. CASE Matches(me.key) # {} /\ reading' = [reading EXCEPT ![r] = q]
    <3>1. i \in Slot
      BY <1>0, <2>3, FirstOfIn DEF ReaderType
    <3>2. p \in {"drop", "hit"}
      OBVIOUS
    <3> HIDE DEF i, p
    <3>3. q \in ReaderType /\ q.pc # "uncount"
      BY <1>0, <3>1, <3>2 DEF ReaderType
    <3> QED
      BY <2>1, <2>3, <3>3, MoveInv
  <2> QED
    BY <2>1, <2>2, <2>3, NotReadingType, MoveInv
<1>3. CASE ReadTimestamp(r)
  <2> DEFINE ts == entries[me.at].timestamp
             q == [me EXCEPT !.pc = "touch", !.ts = ts]
  <2>1. me.pc # "uncount" /\ UNCHANGED <<entries, count, now, newest>>
    BY <1>3 DEF ReadTimestamp
  <2>2. \/ reading' = [reading EXCEPT ![r] = NotReading]
        \/ reading' = [reading EXCEPT ![r] = q]
    BY <1>3 DEF ReadTimestamp, IInv, TypeOK
  <2>3. ts \in Nat
    BY <1>0 DEF IInv, TypeOK, EntryType, ReaderType
  <2> HIDE DEF ts
  <2>4. q \in ReaderType /\ q.pc # "uncount"
    BY <1>0, <2>3 DEF ReaderType
  <2> QED
    BY <2>1, <2>2, <2>4, NotReadingType, MoveInv
<1> QED
  BY <1>1, <1>2, <1>3

\* A touch changes the time of one slot, at most.
LEMMA TouchSlots ==
    ASSUME IInv, NEW r \in Reader, Touch(r)
    PROVE  /\ entries' \in [Slot -> EntryType]
           /\ \A i \in Slot :
                /\ entries'[i].valid = entries[i].valid
                /\ entries'[i].key = entries[i].key /\ entries'[i].answer = entries[i].answer
                /\ \/ entries'[i].timestamp = entries[i].timestamp
                   \/ /\ entries[i].timestamp = reading[r].ts
                      /\ entries'[i].timestamp = reading[r].now
<1> DEFINE me == reading[r]
           t == IF entries[me.at].timestamp = me.ts THEN me.now
                ELSE entries[me.at].timestamp
           e == [entries[me.at] EXCEPT !.timestamp = t]
<1>1. me.at \in Slot /\ me.now \in Nat /\ entries[me.at] \in EntryType
  BY DEF IInv, TypeOK, ReaderType
<1>2. entries' = [entries EXCEPT ![me.at] = e]
  BY <1>1 DEF Touch, IInv, TypeOK
<1>3. t \in Nat
  BY <1>1 DEF EntryType
<1>4. t = entries[me.at].timestamp \/ (entries[me.at].timestamp = me.ts /\ t = me.now)
  OBVIOUS
<1> HIDE DEF t
<1>5. /\ e \in EntryType /\ e.valid = entries[me.at].valid /\ e.key = entries[me.at].key
      /\ e.answer = entries[me.at].answer /\ e.timestamp = t
  BY <1>1, <1>3 DEF EntryType
<1> HIDE DEF e
<1>6. \A i \in Slot : entries'[i] = IF i = me.at THEN e ELSE entries[i]
  BY <1>2 DEF IInv, TypeOK
<1>7. entries' \in [Slot -> EntryType]
  BY <1>1, <1>2, <1>5 DEF IInv, TypeOK
<1> QED
  BY <1>4, <1>5, <1>6, <1>7

\* A drop takes one slot out of use, at most.
LEMMA DropSlots ==
    ASSUME IInv, NEW r \in Reader, Drop(r)
    PROVE  /\ entries' \in [Slot -> EntryType]
           /\ Valid' = Valid \ {reading[r].at}
           /\ \A i \in Slot :
                /\ entries'[i].key = entries[i].key /\ entries'[i].answer = entries[i].answer
                /\ entries'[i].timestamp = entries[i].timestamp
<1> DEFINE me == reading[r]
           e == [entries[me.at] EXCEPT !.valid = FALSE]
<1>1. me.at \in Slot /\ entries[me.at] \in EntryType
  BY DEF IInv, TypeOK, ReaderType
<1>2. entries' = [entries EXCEPT ![me.at] = e]
  BY <1>1 DEF Drop, IInv, TypeOK
<1>3. /\ e \in EntryType /\ ~e.valid /\ e.key = entries[me.at].key
      /\ e.answer = entries[me.at].answer /\ e.timestamp = entries[me.at].timestamp
  BY <1>1 DEF EntryType
<1> HIDE DEF e
<1>4. \A i \in Slot : entries'[i] = IF i = me.at THEN e ELSE entries[i]
  BY <1>2 DEF IInv, TypeOK
<1>5. entries' \in [Slot -> EntryType]
  BY <1>1, <1>2, <1>3 DEF IInv, TypeOK
<1> QED
  BY <1>1, <1>3, <1>4, <1>5 DEF Valid

LEMMA TouchInv ==
    ASSUME IInv, NEW r \in Reader, Touch(r)
    PROVE  IInv'
<1>1. /\ entries' \in [Slot -> EntryType]
      /\ \A i \in Slot : /\ entries'[i].valid = entries[i].valid
                         /\ entries'[i].key = entries[i].key
                         /\ entries'[i].answer = entries[i].answer
  BY TouchSlots
<1>2. reading' = [reading EXCEPT ![r] = NotReading] /\ reading[r].pc = "touch"
      /\ UNCHANGED <<count, now, newest>>
  BY DEF Touch
<1>3. Valid' = Valid
  BY <1>1 DEF Valid
<1>4. Uncounting' = Uncounting
  BY <1>2, NotReadingType DEF Uncounting, IInv, TypeOK
<1>5. TypeOK'
  BY <1>1, <1>2, NotReadingType DEF IInv, TypeOK
<1> QED
  BY <1>1, <1>2, <1>3, <1>4, <1>5, Sets, InvParts, InvPartsNext

LEMMA DropInv ==
    ASSUME IInv, NEW r \in Reader, Drop(r)
    PROVE  IInv'
<1> DEFINE q == [reading[r] EXCEPT !.pc = "uncount"]
<1>1. /\ entries' \in [Slot -> EntryType] /\ Valid' = Valid \ {reading[r].at}
      /\ \A i \in Slot : /\ entries'[i].key = entries[i].key
                         /\ entries'[i].answer = entries[i].answer
  BY DropSlots
<1>2. reading' = [reading EXCEPT ![r] = q] /\ reading[r].pc = "drop"
      /\ UNCHANGED <<count, now, newest>>
  BY DEF Drop, IInv, TypeOK
<1>3. q \in ReaderType /\ q.pc = "uncount"
  BY DEF IInv, TypeOK, ReaderType
<1> HIDE DEF q
<1>4. TypeOK'
  BY <1>1, <1>2, <1>3 DEF IInv, TypeOK
<1>5. Uncounting' = Uncounting \cup {r} /\ r \notin Uncounting
  BY <1>2, <1>3 DEF Uncounting, IInv, TypeOK
<1>6. /\ IsFiniteSet(Valid) /\ Cardinality(Valid) \in Nat
      /\ IsFiniteSet(Uncounting) /\ Cardinality(Uncounting) \in Nat /\ count \in Int
      /\ count <= Cardinality(Valid) + Cardinality(Uncounting)
  BY Counted, InvParts
<1>7. Cardinality(Uncounting') = Cardinality(Uncounting) + 1
  BY <1>5, <1>6, FS_AddElement
<1>8. Cardinality(Valid') \in {Cardinality(Valid), Cardinality(Valid) - 1}
  <2>1. CASE reading[r].at \in Valid
    BY <1>1, <1>6, <2>1, FS_RemoveElement
  <2>2. CASE reading[r].at \notin Valid
    <3>1. Valid' = Valid
      BY <1>1, <2>2
    <3> QED
      BY <3>1
  <2> QED
    BY <2>1, <2>2
<1>9. count' <= Cardinality(Valid') + Cardinality(Uncounting')
  BY <1>2, <1>6, <1>7, <1>8
<1> QED
  BY <1>1, <1>2, <1>4, <1>9, Sets, InvParts, InvPartsNext

LEMMA UncountInv ==
    ASSUME IInv, NEW r \in Reader, Uncount(r)
    PROVE  IInv'
<1>1. reading' = [reading EXCEPT ![r] = NotReading] /\ reading[r].pc = "uncount"
      /\ count' = count - 1 /\ UNCHANGED <<entries, now, newest>>
  BY DEF Uncount
<1>2. Valid' = Valid
  BY <1>1 DEF Valid
<1>3. Uncounting' = Uncounting \ {r} /\ r \in Uncounting
  BY <1>1, NotReadingType DEF Uncounting, IInv, TypeOK
<1>4. /\ IsFiniteSet(Uncounting) /\ Cardinality(Uncounting) \in Nat
      /\ Cardinality(Valid) \in Nat /\ count \in Int
      /\ count <= Cardinality(Valid) + Cardinality(Uncounting)
  BY Counted, InvParts
<1>5. Cardinality(Uncounting') = Cardinality(Uncounting) - 1
  BY <1>3, <1>4, FS_RemoveElement
<1>6. TypeOK'
  BY <1>1, <1>4, NotReadingType DEF IInv, TypeOK
<1>7. count' <= Cardinality(Valid') + Cardinality(Uncounting')
  BY <1>1, <1>2, <1>4, <1>5
<1> QED
  BY <1>1, <1>2, <1>6, <1>7, InvParts, InvPartsNext

-----------------------------------------------------------------------------
(***************************************************************************)
(* The theorems.                                                            *)
(***************************************************************************)
LEMMA InitInv == Init => IInv
<1> SUFFICES ASSUME Init PROVE IInv
  OBVIOUS
<1>1. Valid = {} /\ Uncounting = {}
  BY EmptyType, NotReadingType DEF Init, Valid, Uncounting
<1>2. TypeOK
  BY EmptyType, NotReadingType DEF Init, TypeOK
<1> QED
  BY <1>1, <1>2, FS_EmptySet, InvParts DEF Init

LEMMA StepInv == IInv /\ [Next]_vars => IInv'
<1> SUFFICES ASSUME IInv, [Next]_vars PROVE IInv'
  OBVIOUS
<1>1. CASE Tick \/ UNCHANGED vars
  <2>1. UNCHANGED <<entries, count, reading, newest>> /\ now' \in Nat
    BY <1>1 DEF Tick, vars, IInv, TypeOK
  <2>2. TypeOK' /\ Valid' = Valid /\ Uncounting' = Uncounting
    BY <2>1 DEF IInv, TypeOK, Valid, Uncounting
  <2> QED
    BY <2>1, <2>2, InvParts, InvPartsNext
<1> QED
  BY <1>1, LookupInv, TouchInv, DropInv, UncountInv, StoreInv, InvalidateInv, PruneInv,
     ClearInv DEF Next

\* The invariant holds in every reachable state.
THEOREM Invariance == Spec => []IInv
BY InitInv, StepInv, PTL DEF Spec

\* In answer_cache.c a key is in one slot at most, inside its probe window, and the count
\* never claims more slots than are in use or being counted out, however many readers
\* drop and touch slots at once.
THEOREM TableSoundHolds == Spec => []TableSound
<1>1. IInv => TableSound
  BY DEF IInv, TableSound
<1> QED
  BY <1>1, Invariance, PTL

\* No answer that has been replaced, invalidated or cleared is ever found again.
THEOREM NothingComesBackHolds == Spec => []NothingComesBack
<1>1. IInv => NothingComesBack
  BY DEF IInv
<1> QED
  BY <1>1, Invariance, PTL

\* A reader about to touch has seen a time older than its own.
Behind == \A r \in Reader : reading[r].pc = "touch" => reading[r].ts < reading[r].now

LEMMA BehindStep ==
    ASSUME IInv, Behind, [Next]_vars
    PROVE  Behind'
<1>0. /\ reading \in [Reader -> ReaderType] /\ NotReading.pc # "touch"
  BY NotReadingType DEF IInv, TypeOK
<1>1. ASSUME NEW r \in Reader, NEW q, reading' = [reading EXCEPT ![r] = q],
             q.pc = "touch" => q.ts < q.now
      PROVE  Behind'
  <2>1. \A c \in Reader : reading'[c] = IF c = r THEN q ELSE reading[c]
    BY <1>0, <1>1
  <2> QED
    BY <1>1, <2>1 DEF Behind
<1>2. ASSUME NEW r \in Reader, NEW k \in Key, Enter(r, k) PROVE Behind'
  <2>1. [NotReading EXCEPT !.pc = "probe", !.key = k, !.now = Stamp].pc # "touch"
    BY DEF NotReading
  <2> QED
    BY <1>1, <1>2, <2>1 DEF Enter
<1>3. ASSUME NEW r \in Reader, Probe(r) PROVE Behind'
  <2> DEFINE me == reading[r]
             i == FirstOf(me.key, Matches(me.key))
             p == IF Expired(entries[i], me.now) THEN "drop" ELSE "hit"
             q == [me EXCEPT !.at = i, !.pc = p]
  <2>1. \/ reading' = [reading EXCEPT ![r] = NotReading]
        \/ reading' = [reading EXCEPT ![r] = q]
    BY <1>3 DEF Probe, IInv, TypeOK
  <2>2. p # "touch"
    OBVIOUS
  <2> HIDE DEF p, i
  <2>3. q.pc # "touch"
    BY <1>0, <2>2 DEF ReaderType
  <2> QED
    BY <1>0, <1>1, <2>1, <2>3
<1>4. ASSUME NEW r \in Reader, ReadTimestamp(r) PROVE Behind'
  <2> DEFINE me == reading[r]
             ts == entries[me.at].timestamp
             q == [me EXCEPT !.pc = "touch", !.ts = ts]
  <2>1. \/ reading' = [reading EXCEPT ![r] = NotReading]
        \/ reading' = [reading EXCEPT ![r] = q] /\ ts < me.now
    BY <1>4 DEF ReadTimestamp, IInv, TypeOK
  <2> HIDE DEF ts
  <2>2. q.ts = ts /\ q.now = me.now
    BY <1>0 DEF ReaderType
  <2> QED
    BY <1>0, <1>1, <2>1, <2>2
<1>5. ASSUME NEW r \in Reader, Touch(r) \/ Uncount(r) PROVE Behind'
  BY <1>0, <1>1, <1>5 DEF Touch, Uncount
<1>6. ASSUME NEW r \in Reader, Drop(r) PROVE Behind'
  <2> DEFINE q == [reading[r] EXCEPT !.pc = "uncount"]
  <2>1. q.pc = "touch" => q.ts < q.now
    BY <1>0 DEF ReaderType
  <2>2. reading' = [reading EXCEPT ![r] = q]
    BY <1>0, <1>6 DEF Drop
  <2> HIDE DEF q
  <2>3. \A c \in Reader : reading'[c] = IF c = r THEN q ELSE reading[c]
    BY <1>0, <2>2
  <2> QED
    BY <2>1, <2>3 DEF Behind
<1>7. CASE reading' = reading
  BY <1>7 DEF Behind
<1> QED
  BY <1>2, <1>3, <1>4, <1>5, <1>6, <1>7
     DEF Next, Refresh, Insert, Evict, Invalidate, Clear, Prune, Tick, vars

\* No reader of answer_cache_lookup takes the touch of a later one back: the time of a
\* slot never goes backwards while readers are inside.
THEOREM TouchMonotoneHolds == Spec => TouchMonotone
<1>1. ASSUME IInv, Behind, [Next]_vars, reading' # reading, NEW i \in Slot
      PROVE  entries[i].timestamp <= entries'[i].timestamp
  <2>0. entries[i].timestamp \in Nat
    BY <1>1 DEF IInv, TypeOK, EntryType
  <2>1. ASSUME NEW r \in Reader, Touch(r)
        PROVE  entries[i].timestamp <= entries'[i].timestamp
    <3>1. \/ entries'[i].timestamp = entries[i].timestamp
          \/ /\ entries[i].timestamp = reading[r].ts
             /\ entries'[i].timestamp = reading[r].now
      BY <1>1, <2>1, TouchSlots
    <3>2. reading[r].ts < reading[r].now /\ reading[r].ts \in Nat /\ reading[r].now \in Nat
      BY <1>1, <2>1 DEF Touch, Behind, IInv, TypeOK, ReaderType
    <3> QED
      BY <2>0, <3>1, <3>2
  <2>2. ASSUME NEW r \in Reader, Drop(r)
        PROVE  entries[i].timestamp <= entries'[i].timestamp
    <3>1. entries'[i].timestamp = entries[i].timestamp
      BY <1>1, <2>2, DropSlots
    <3> QED
      BY <2>0, <3>1
  <2>3. CASE entries' = entries
    BY <2>0, <2>3
  <2>4. \A r \in Reader : (\/ \E k \in Key : Enter(r, k)
                           \/ Probe(r) \/ ReadTimestamp(r) \/ Uncount(r))
                           => entries' = entries
    BY DEF Enter, Probe, ReadTimestamp, Uncount
  <2>5. \A k \in Key, a \in Answer, ttl \in Ttl :
          ~Refresh(k, a, ttl) /\ ~Insert(k, a, ttl) /\ ~Evict(k, a, ttl)
    BY <1>1 DEF Refresh, Insert, Evict
  <2>6. ~Clear /\ ~Prune /\ ~Tick /\ ~UNCHANGED vars
    BY <1>1 DEF Clear, Prune, Tick, vars
  <2>7. \A n \in Name : ~Invalidate(n)
    BY <1>1 DEF Invalidate
  <2>8. \E r \in Reader : \/ \E k \in Key : Enter(r, k)
                          \/ Probe(r) \/ ReadTimestamp(r) \/ Touch(r) \/ Drop(r) \/ Uncount(r)
    <3>1. Next
      BY <1>1, <2>6
    <3> QED
      BY Zenon, <2>5, <2>6, <2>7, <3>1 DEF Next
  <2> QED
    BY <2>1, <2>2, <2>3, <2>4, <2>8
<1>2. Init => Behind
  BY NotReadingType DEF Init, Behind
<1>3. IInv /\ Behind /\ [Next]_vars => Behind'
  BY BehindStep
<1>4. IInv /\ Behind /\ [Next]_vars =>
        [reading' # reading =>
           \A i \in Slot : entries[i].timestamp <= entries'[i].timestamp]_vars
  BY <1>1
<1> QED
  BY <1>2, <1>3, <1>4, Invariance, PTL DEF Spec, TouchMonotone
=============================================================================
