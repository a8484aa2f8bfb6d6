--------------------------- MODULE Screening_proofs ---------------------------
(***************************************************************************)
(* What screens a query before it goes upstream: the rate limiter it must   *)
(* pass, and the scorer that judges a name the tree says nothing of.        *)
(*                                                                          *)
(* For any sources, table, rates and clock, RateLimiter keeps its types,    *)
(* bounds what a source alone in its slot and what all sources together get *)
(* through, and leaves no debt that time does not heal.                     *)
(*                                                                          *)
(* For any workers and any names, Scorer keeps its types and counters and   *)
(* rescores a name only by a race or after a reload, flags a name on three   *)
(* signals at least, finds too much entropy only in labels of many different *)
(* characters, and counts every occurrence of the words that it looks for.  *)
(***************************************************************************)
EXTENDS RateLimiter, Scorer, TLAPS, FiniteSetTheorems, SequenceTheorems,
        WellFoundedInduction

(***************************************************************************)
(*                           The rate limiter.                              *)
(***************************************************************************)
\* A bucket that is refilled holds no more than a bucket that is not capped.
LEMMA RefilledBound ==
    ASSUME NEW t \in Int, NEW l \in Int, NEW at \in Nat, NEW rate \in Nat,
           NEW max \in Nat
    PROVE  /\ Refilled(t, l, at, rate, max) \in Int
           /\ Refilled(t, l, at, rate, max) <= t + rate * at - rate * l
<1>1. (at - l) * rate = rate * at - rate * l
  OBVIOUS
<1>2. at = l => rate * at - rate * l = 0
  OBVIOUS
<1>3. (at - l) * rate \in Int
  OBVIOUS
<1> QED
  BY <1>1, <1>2, <1>3 DEF Refilled

\* A refill does not take a bucket beyond its burst.
LEMMA RefilledCap ==
    ASSUME NEW l \in Int, NEW at \in Nat, NEW rate \in Nat, NEW max \in Nat,
           NEW t \in AtMost(max)
    PROVE  Refilled(t, l, at, rate, max) \in AtMost(max)
<1>1. (at - l) * rate \in Int
  OBVIOUS
<1> QED
  BY <1>1 DEF Refilled, AtMost

\* More time means no smaller an allowance.
LEMMA Allowance ==
    ASSUME NEW rate \in Nat
    PROVE  \A a, b \in Nat : a <= b => rate * a \in Nat /\ rate * a <= rate * b
OBVIOUS

\* What answers for a source is an entry.
LEMMA EntryForType ==
    ASSUME RateTypeOK, NEW s \in Source, NEW at \in Nat
    PROVE  EntryFor(s, at) \in Entry
<1>1. SlotOf[s] \in Slot /\ MaxTokens \in Nat /\ RefillPerSec \in Nat
  BY RateAssumption
<1>2. table[SlotOf[s]] \in Entry
  BY <1>1 DEF RateTypeOK
<1>3. Refilled(table[SlotOf[s]].tokens, table[SlotOf[s]].last_refill,
               at, RefillPerSec, MaxTokens) \in AtMost(MaxTokens)
  BY <1>1, <1>2, RefilledCap DEF Entry, RateTypeOK
<1>4. MaxTokens \in AtMost(MaxTokens)
  BY <1>1 DEF AtMost
<1> QED
  BY <1>1, <1>3, <1>4 DEF EntryFor, Entry, RateTypeOK

\* The refilled global bucket is within its burst.
LEMMA GlobalTokensType ==
    ASSUME RateTypeOK, NEW at \in Nat
    PROVE  GlobalTokens(at) \in AtMost(GlobalMaxTokens)
BY RateAssumption, RefilledCap DEF RateTypeOK, GlobalTokens

-----------------------------------------------------------------------------
(***************************************************************************)
(* Type correctness.                                                        *)
(***************************************************************************)
LEMMA RateTypeInit == RateInit => RateTypeOK
BY RateAssumption DEF RateInit, RateTypeOK, Entry, AtMost, Call, NoCall

\* The calls keep their types when one begins or gets its turn.
LEMMA CallsKeep ==
    ASSUME RateTypeOK, NEW w \in Thread, NEW c \in Call, c.at <= latest,
           call' = [call EXCEPT ![w] = c], UNCHANGED clock
    PROVE  call' \in [Thread -> Call] /\ \A v \in Thread : call'[v].at <= latest'
BY DEF RateTypeOK, clock

LEMMA LockedKeeps ==
    ASSUME RateTypeOK, NEW w \in Thread, NEW s \in Source, NEW at,
           Locked(w, s, at), UNCHANGED clock
    PROVE  call' \in [Thread -> Call] /\ \A v \in Thread : call'[v].at <= latest'
<1>1. NoCall \in Call /\ NoCall.at <= latest
  BY DEF NoCall, Call, RateTypeOK
<1> QED
  BY <1>1, CallsKeep DEF Locked

LEMMA RateTypeStep == RateTypeOK /\ [RateNext]_rate_vars => RateTypeOK'
<1> SUFFICES ASSUME RateTypeOK, [RateNext]_rate_vars PROVE RateTypeOK'
  OBVIOUS
<1>0. ASSUME NEW w \in Thread, NEW s \in Source, ReadClock(w, s)
      PROVE  RateTypeOK'
  <2>1. [src |-> s, at |-> now] \in Call /\ now <= latest
    BY DEF RateTypeOK, Call
  <2>2. /\ call' \in [Thread -> Call]
        /\ \A v \in Thread : call'[v].at <= latest'
    BY <1>0, <2>1, CallsKeep DEF ReadClock
  <2> QED
    BY <1>0, <2>2 DEF ReadClock, RateTypeOK, clock
<1>1. ASSUME NEW w \in Thread, NEW s \in Source, NEW at \in 0 .. latest,
             DropGlobally(w, s, at)
      PROVE  RateTypeOK'
  <2>1. /\ call' \in [Thread -> Call]
        /\ \A v \in Thread : call'[v].at <= latest'
    BY <1>1, LockedKeeps DEF DropGlobally
  <2> QED
    BY <1>1, <2>1, GlobalTokensType DEF DropGlobally, RateTypeOK, clock
<1>2. ASSUME NEW w \in Thread, NEW s \in Source, NEW at \in 0 .. latest,
             DropSource(w, s, at)
      PROVE  RateTypeOK'
  <2>1. SlotOf[s] \in Slot
    BY RateAssumption
  <2>2. /\ call' \in [Thread -> Call]
        /\ \A v \in Thread : call'[v].at <= latest'
    BY <1>2, LockedKeeps DEF DropSource
  <2> QED
    BY <1>2, <2>1, <2>2, GlobalTokensType, EntryForType
       DEF DropSource, RateTypeOK, clock
<1>3. ASSUME NEW w \in Thread, NEW s \in Source, NEW at \in 0 .. latest,
             Admit(w, s, at)
      PROVE  RateTypeOK'
  <2>0. at \in Nat /\ SlotOf[s] \in Slot
    BY RateAssumption
  <2>1. /\ call' \in [Thread -> Call]
        /\ \A v \in Thread : call'[v].at <= latest'
    BY <1>3, LockedKeeps DEF Admit
  <2>2. [EntryFor(s, at) EXCEPT !.tokens = @ - 1] \in Entry
    <3>1. EntryFor(s, at).tokens - 1 \in AtMost(MaxTokens)
      BY <2>0, EntryForType, RateAssumption DEF Entry, AtMost
    <3> QED
      BY <2>0, <3>1, EntryForType DEF Entry
  <2>3. tokens' \in AtMost(GlobalMaxTokens) /\ last' \in Int /\ passed' \in Nat
    <3>1. GlobalTokens(at) - 1 \in AtMost(GlobalMaxTokens)
      BY <2>0, GlobalTokensType, RateAssumption DEF AtMost
    <3> QED
      BY <1>3, <2>0, <3>1 DEF Admit, RateTypeOK
  <2>4. admitted' \in [Source -> Nat]
    BY <1>3 DEF Admit, RateTypeOK
  <2>5. table' \in [Slot -> Entry]
    BY <1>3, <2>0, <2>2 DEF Admit, RateTypeOK
  <2> QED
    BY <1>3, <2>1, <2>3, <2>4, <2>5 DEF Admit, RateTypeOK, clock
<1>4. CASE Tick
  <2>1. latest' \in Nat /\ latest <= latest' /\ now' \in Nat /\ now' <= latest'
    BY <1>4 DEF Tick, RateTypeOK
  <2>2. \A v \in Thread : call[v].at <= latest'
    BY <2>1 DEF RateTypeOK, Call
  <2> QED
    BY <1>4, <2>1, <2>2 DEF Tick, RateTypeOK
<1>5. CASE SetBack
  <2>1. now' \in Nat /\ now' <= now
    BY <1>5 DEF SetBack, RateTypeOK
  <2> QED
    BY <1>5, <2>1 DEF SetBack, RateTypeOK
<1>6. CASE UNCHANGED rate_vars
  BY <1>6 DEF RateTypeOK, rate_vars, clock
<1> QED
  BY <1>0, <1>1, <1>2, <1>3, <1>4, <1>5, <1>6 DEF RateNext

\* The limiter keeps its types.
THEOREM RateTypeCorrect == RateSpec => []RateTypeOK
BY RateTypeInit, RateTypeStep, PTL DEF RateSpec

-----------------------------------------------------------------------------
(***************************************************************************)
(* The rates.  What a bucket has let through and what it still holds never  *)
(* exceed its burst and what it has been refilled with; the invariant says  *)
(* so at the time of its last refill, which is one the clock has shown.     *)
(***************************************************************************)
SourcePotential(s) ==
    LET e == table[SlotOf[s]]
    IN  IF e.ip = s
        THEN /\ e.last_refill \in 0 .. latest
             /\ admitted[s] + e.tokens <= MaxTokens + RefillPerSec * e.last_refill
        ELSE admitted[s] = 0

SourceInv ==
    /\ RateTypeOK
    /\ \A s \in Source : Alone(s) => SourcePotential(s) /\ SourceBound(s)

GlobalInv ==
    /\ RateTypeOK
    /\ last \in 0 .. latest
    /\ passed + tokens <= GlobalMaxTokens + GlobalRefillPerSec * last
    /\ GlobalRate

\* What the entry of s holds after its refill, and what has gone through.
LEMMA PotentialAtEntry ==
    ASSUME RateTypeOK, NEW s \in Source, NEW at \in Nat,
           SourcePotential(s)
    PROVE  admitted[s] + EntryFor(s, at).tokens <= MaxTokens + RefillPerSec * at
<1> DEFINE e == table[SlotOf[s]]
<1>1. /\ SlotOf[s] \in Slot /\ MaxTokens \in Nat /\ RefillPerSec \in Nat
      /\ now \in Nat /\ admitted[s] \in Nat
  BY RateAssumption DEF RateTypeOK
<1>2. e \in Entry
  BY <1>1 DEF RateTypeOK
<1>3. CASE e.ip = s
  <2>1. /\ e.tokens \in Int /\ e.last_refill \in Int
        /\ EntryFor(s, at).tokens =
             Refilled(e.tokens, e.last_refill, at, RefillPerSec, MaxTokens)
    BY <1>2, <1>3 DEF EntryFor, Entry, AtMost
  <2>2. /\ EntryFor(s, at).tokens \in Int
        /\ EntryFor(s, at).tokens <=
             e.tokens + RefillPerSec * at - RefillPerSec * e.last_refill
    <3>1. /\ Refilled(e.tokens, e.last_refill, at, RefillPerSec, MaxTokens) \in Int
          /\ Refilled(e.tokens, e.last_refill, at, RefillPerSec, MaxTokens)
               <= e.tokens + RefillPerSec * at - RefillPerSec * e.last_refill
      BY <1>1, <2>1, RefilledBound, Zenon
    <3> QED
      BY <2>1, <3>1, Zenon
  <2>3. admitted[s] + e.tokens <= MaxTokens + RefillPerSec * e.last_refill
    BY <1>3 DEF SourcePotential
  <2>4. RefillPerSec * at \in Int /\ RefillPerSec * e.last_refill \in Int
    BY <1>1, <2>1
  <2> HIDE DEF e
  <2> QED
    BY <1>1, <2>1, <2>2, <2>3, <2>4
<1>4. CASE e.ip # s
  <2>1. admitted[s] = 0 /\ EntryFor(s, at).tokens = MaxTokens
    BY <1>4 DEF SourcePotential, EntryFor
  <2>2. RefillPerSec * at \in Nat
    BY <1>1
  <2> QED
    BY <1>1, <2>1, <2>2
<1> QED
  BY <1>3, <1>4

\* A step about source s leaves every other source alone in its slot as it was.
LEMMA OthersKeep ==
    ASSUME RateTypeOK, NEW s \in Source, NEW r \in Source, r # s, Alone(r),
           SourcePotential(r), SourceBound(r), NEW e,
           table' = [table EXCEPT ![SlotOf[s]] = e],
           admitted'[r] = admitted[r], UNCHANGED clock
    PROVE  SourcePotential(r)' /\ SourceBound(r)'
<1>1. SlotOf[r] # SlotOf[s] /\ SlotOf[r] \in Slot /\ SlotOf[s] \in Slot
  BY RateAssumption DEF Alone
<1>2. table'[SlotOf[r]] = table[SlotOf[r]]
  BY <1>1 DEF RateTypeOK
<1> QED
  BY <1>2 DEF SourcePotential, SourceBound, clock

LEMMA SourceInit == RateInit => SourceInv
<1> SUFFICES ASSUME RateInit, NEW s \in Source, RateTypeOK
             PROVE  SourcePotential(s) /\ SourceBound(s)
  BY RateTypeInit DEF SourceInv
<1>1. SlotOf[s] \in Slot /\ s # Nobody /\ MaxTokens \in Nat
      /\ RefillPerSec \in Nat
  BY RateAssumption
<1>2. admitted[s] = 0 /\ latest = 0 /\ table[SlotOf[s]].ip # s
  BY <1>1 DEF RateInit
<1>3. SourceBound(s)
  BY <1>1, <1>2 DEF SourceBound
<1> QED
  BY <1>2, <1>3 DEF SourcePotential

LEMMA SourceStep == SourceInv /\ [RateNext]_rate_vars => SourceInv'
<1> SUFFICES ASSUME SourceInv, [RateNext]_rate_vars, NEW r \in Source, Alone(r)
             PROVE  SourcePotential(r)' /\ SourceBound(r)'
  BY RateTypeStep DEF SourceInv, Alone
<1>0. /\ RateTypeOK /\ SourcePotential(r) /\ SourceBound(r)
      /\ SlotOf[r] \in Slot /\ RefillPerSec \in Nat /\ MaxTokens \in Nat
  BY RateAssumption DEF SourceInv
<1>1. ASSUME NEW w \in Thread, NEW s \in Source, NEW at \in 0 .. latest,
             DropGlobally(w, s, at)
      PROVE  SourcePotential(r)' /\ SourceBound(r)'
  BY <1>0, <1>1 DEF DropGlobally, SourcePotential, SourceBound, clock
<1>2. ASSUME NEW w \in Thread, NEW s \in Source, NEW at \in 0 .. latest,
             DropSource(w, s, at)
      PROVE  SourcePotential(r)' /\ SourceBound(r)'
  <2>1. CASE s # r
    BY <1>0, <1>2, <2>1, OthersKeep DEF DropSource
  <2>2. CASE s = r
    <3>1. table'[SlotOf[r]] = EntryFor(r, at) /\ UNCHANGED <<admitted, clock>>
      BY <1>0, <1>2, <2>2 DEF DropSource, RateTypeOK
    <3>2. EntryFor(r, at).ip = r /\ EntryFor(r, at).last_refill = at
      BY DEF EntryFor
    <3>3. now \in 0 .. latest
      BY <1>0 DEF RateTypeOK
    <3> QED
      BY <1>0, <3>1, <3>2, <3>3, PotentialAtEntry
         DEF SourcePotential, SourceBound, clock
  <2> QED
    BY <2>1, <2>2
<1>3. ASSUME NEW w \in Thread, NEW s \in Source, NEW at \in 0 .. latest,
             Admit(w, s, at)
      PROVE  SourcePotential(r)' /\ SourceBound(r)'
  <2>1. CASE s # r
    <3>1. admitted'[r] = admitted[r]
      BY <1>0, <1>3, <2>1 DEF Admit, RateTypeOK
    <3> QED
      BY <1>0, <1>3, <2>1, <3>1, OthersKeep DEF Admit
  <2>2. CASE s = r
    <3>1. /\ table'[SlotOf[r]] = [EntryFor(r, at) EXCEPT !.tokens = @ - 1]
          /\ admitted'[r] = admitted[r] + 1 /\ UNCHANGED clock
          /\ EntryFor(r, at).tokens > 0
      BY <1>0, <1>3, <2>2 DEF Admit, RateTypeOK
    <3>2. EntryFor(r, at).ip = r /\ EntryFor(r, at).last_refill = at
          /\ EntryFor(r, at).tokens \in Int
      BY <1>0, EntryForType DEF EntryFor, Entry, AtMost
    <3>3. /\ table'[SlotOf[r]].ip = r
          /\ table'[SlotOf[r]].last_refill = at
          /\ table'[SlotOf[r]].tokens = EntryFor(r, at).tokens - 1
      BY <3>1, <3>2 DEF EntryFor
    <3>4. now \in 0 .. latest /\ latest \in Nat /\ admitted[r] \in Nat
      BY <1>0 DEF RateTypeOK
    <3>5. admitted[r] + EntryFor(r, at).tokens <= MaxTokens + RefillPerSec * at
      BY <1>0, PotentialAtEntry
    <3>6. /\ RefillPerSec * at \in Nat /\ RefillPerSec * latest \in Nat
          /\ RefillPerSec * at <= RefillPerSec * latest
      BY <1>0, <3>4, Allowance
    <3>7. /\ admitted'[r] + table'[SlotOf[r]].tokens
               <= MaxTokens + RefillPerSec * at
          /\ admitted'[r] <= MaxTokens + RefillPerSec * latest
      BY <1>0, <3>1, <3>2, <3>3, <3>4, <3>5, <3>6
    <3> QED
      BY <3>1, <3>3, <3>4, <3>7 DEF SourcePotential, SourceBound, clock
  <2> QED
    BY <2>1, <2>2
<1>4. CASE Tick
  <2>1. /\ latest \in Nat /\ latest' \in Nat /\ latest <= latest'
        /\ admitted[r] \in Nat
        /\ UNCHANGED <<table, admitted>>
    BY <1>0, <1>4 DEF Tick, RateTypeOK
  <2>2. RefillPerSec * latest <= RefillPerSec * latest'
        /\ RefillPerSec * latest \in Nat /\ RefillPerSec * latest' \in Nat
    <3>1. \A a, b \in Nat : a <= b => /\ RefillPerSec * a \in Nat
                                     /\ RefillPerSec * a <= RefillPerSec * b
      BY <1>0, Allowance
    <3>2. latest' <= latest'
      BY <2>1
    <3> QED
      BY <2>1, <3>1, <3>2
  <2>3. SourceBound(r)'
    BY <1>0, <2>1, <2>2 DEF SourceBound
  <2>4. table[SlotOf[r]] \in Entry
    BY <1>0 DEF RateTypeOK
  <2> QED
    BY <1>0, <2>1, <2>3, <2>4 DEF SourcePotential, Entry
<1>5. CASE SetBack
  BY <1>0, <1>5 DEF SetBack, SourcePotential, SourceBound
<1>6. CASE UNCHANGED rate_vars
  BY <1>0, <1>6 DEF rate_vars, clock, SourcePotential, SourceBound
<1>7. CASE \E w \in Thread, s \in Source : ReadClock(w, s)
  BY <1>0, <1>7 DEF ReadClock, clock, SourcePotential, SourceBound
<1> QED
  BY <1>1, <1>2, <1>3, <1>4, <1>5, <1>6, <1>7 DEF RateNext

\* A source alone in its slot is held to its burst and rate, for every table,
\* every rate and every way the clock is set.
THEOREM SourceRateHolds == RateSpec => []SourceRate
<1>1. SourceInv => SourceRate
  BY DEF SourceInv, SourceRate
<1> QED
  BY SourceInit, SourceStep, <1>1, PTL DEF RateSpec

-----------------------------------------------------------------------------
LEMMA GlobalInit == RateInit => GlobalInv
<1> SUFFICES ASSUME RateInit, RateTypeOK
             PROVE  /\ last \in 0 .. latest
                    /\ passed + tokens <= GlobalMaxTokens + GlobalRefillPerSec * last
                    /\ passed <= GlobalMaxTokens + GlobalRefillPerSec * latest
  BY RateTypeInit DEF GlobalInv, GlobalRate
<1>1. GlobalMaxTokens \in Nat /\ GlobalRefillPerSec \in Nat
  BY RateAssumption
<1>2. last = 0 /\ latest = 0 /\ passed = 0 /\ tokens = GlobalMaxTokens
  BY DEF RateInit
<1> QED
  BY <1>1, <1>2

\* What the bucket for all sources holds after its refill, and what has gone
\* through.
LEMMA GlobalPotential ==
    ASSUME GlobalInv, NEW at \in Nat
    PROVE  /\ GlobalTokens(at) \in Int
           /\ passed + GlobalTokens(at) <= GlobalMaxTokens + GlobalRefillPerSec * at
<1>1. /\ GlobalMaxTokens \in Nat /\ GlobalRefillPerSec \in Nat
      /\ now \in Nat /\ tokens \in Int /\ last \in Int /\ passed \in Nat
      /\ passed + tokens <= GlobalMaxTokens + GlobalRefillPerSec * last
  BY RateAssumption DEF GlobalInv, RateTypeOK, AtMost
<1>2. /\ GlobalTokens(at) \in Int
      /\ GlobalTokens(at) <=
           tokens + GlobalRefillPerSec * at - GlobalRefillPerSec * last
  BY <1>1, RefilledBound DEF GlobalTokens
<1>3. GlobalRefillPerSec * at \in Int /\ GlobalRefillPerSec * last \in Int
  BY <1>1
<1> QED
  BY <1>1, <1>2, <1>3

LEMMA GlobalStep == GlobalInv /\ [RateNext]_rate_vars => GlobalInv'
<1> SUFFICES ASSUME GlobalInv, [RateNext]_rate_vars
             PROVE  /\ last' \in 0 .. latest'
                    /\ passed' + tokens'
                         <= GlobalMaxTokens + GlobalRefillPerSec * last'
                    /\ passed' <= GlobalMaxTokens + GlobalRefillPerSec * latest'
  BY RateTypeStep DEF GlobalInv, GlobalRate
<1>0. /\ GlobalMaxTokens \in Nat /\ GlobalRefillPerSec \in Nat
      /\ now \in Nat /\ latest \in Nat /\ now <= latest
      /\ tokens \in Int /\ passed \in Nat /\ last \in 0 .. latest
      /\ passed + tokens <= GlobalMaxTokens + GlobalRefillPerSec * last
      /\ passed <= GlobalMaxTokens + GlobalRefillPerSec * latest
  BY RateAssumption DEF GlobalInv, GlobalRate, RateTypeOK, AtMost
<1>a. \A a, b \in Nat : a <= b => /\ GlobalRefillPerSec * a \in Nat
                                 /\ GlobalRefillPerSec * a <= GlobalRefillPerSec * b
  BY <1>0, Allowance
<1>1. ASSUME NEW w \in Thread, NEW s \in Source, NEW at \in 0 .. latest,
             DropGlobally(w, s, at) \/ DropSource(w, s, at)
      PROVE  /\ last' \in 0 .. latest'
             /\ passed' + tokens' <= GlobalMaxTokens + GlobalRefillPerSec * last'
             /\ passed' <= GlobalMaxTokens + GlobalRefillPerSec * latest'
  <2>1. /\ tokens' = GlobalTokens(at) /\ last' = at
        /\ passed' = passed /\ latest' = latest
    BY <1>1 DEF DropGlobally, DropSource, clock
  <2> QED
    BY <1>0, <2>1, GlobalPotential
<1>2. ASSUME NEW w \in Thread, NEW s \in Source, NEW at \in 0 .. latest,
             Admit(w, s, at)
      PROVE  /\ last' \in 0 .. latest'
             /\ passed' + tokens' <= GlobalMaxTokens + GlobalRefillPerSec * last'
             /\ passed' <= GlobalMaxTokens + GlobalRefillPerSec * latest'
  <2>1. /\ GlobalTokens(at) > 0 /\ tokens' = GlobalTokens(at) - 1 /\ last' = at
        /\ passed' = passed + 1 /\ latest' = latest
    BY <1>2 DEF Admit, clock
  <2>2. GlobalTokens(at) \in Int
        /\ passed + GlobalTokens(at) <= GlobalMaxTokens + GlobalRefillPerSec * at
    BY GlobalPotential
  <2>3. /\ GlobalRefillPerSec * at \in Nat
        /\ GlobalRefillPerSec * at <= GlobalRefillPerSec * latest
        /\ GlobalRefillPerSec * latest \in Int
    BY <1>0, <1>a
  <2> QED
    BY <1>0, <2>1, <2>2, <2>3
<1>3. CASE Tick
  <2>1. /\ latest' \in Nat /\ latest <= latest'
        /\ UNCHANGED <<tokens, last, passed>>
    BY <1>0, <1>3 DEF Tick
  <2>2. latest' <= latest'
    BY <2>1
  <2>3. GlobalRefillPerSec * latest <= GlobalRefillPerSec * latest'
    BY <1>0, <1>a, <2>1
  <2>4. GlobalRefillPerSec * latest \in Nat /\ GlobalRefillPerSec * latest' \in Nat
    BY <1>0, <1>a, <2>1, <2>2
  <2>5. last' \in 0 .. latest'
    BY <1>0, <2>1
  <2>6. passed' <= GlobalMaxTokens + GlobalRefillPerSec * latest'
    <3> DEFINE x == GlobalRefillPerSec * latest
               y == GlobalRefillPerSec * latest'
    <3>1. passed <= GlobalMaxTokens + x /\ x <= y /\ x \in Int /\ y \in Int
      BY <1>0, <2>3, <2>4
    <3> HIDE DEF x, y
    <3>2. passed' <= GlobalMaxTokens + y
      BY <1>0, <2>1, <3>1
    <3> QED
      BY <3>2 DEF y
  <2> QED
    BY <1>0, <2>1, <2>5, <2>6
<1>4. CASE SetBack
  BY <1>0, <1>4 DEF SetBack
<1>5. CASE UNCHANGED rate_vars
  BY <1>0, <1>5 DEF rate_vars, clock
<1>6. CASE \E w \in Thread, s \in Source : ReadClock(w, s)
  BY <1>0, <1>6 DEF ReadClock, clock
<1> QED
  BY <1>1, <1>2, <1>3, <1>4, <1>5, <1>6 DEF RateNext

\* All sources together are held to the aggregate burst and rate.
THEOREM GlobalRateHolds == RateSpec => []GlobalRate
<1>1. GlobalInv => GlobalRate
  BY DEF GlobalInv
<1> QED
  BY GlobalInit, GlobalStep, <1>1, PTL DEF RateSpec

-----------------------------------------------------------------------------
(***************************************************************************)
(* Debts.  What a bucket lacks is never more than what the time between its  *)
(* last refill and the latest the clock has shown is worth.                 *)
(***************************************************************************)
Solvent(t, l, rate, max) ==
    /\ t \in AtMost(max) /\ l \in 0 .. latest
    /\ t + rate * latest - rate * l >= 0

DebtInv ==
    /\ RateTypeOK
    /\ Solvent(tokens, last, GlobalRefillPerSec, GlobalMaxTokens)
    /\ \A i \in Slot :
         table[i].ip # Nobody =>
             Solvent(table[i].tokens, table[i].last_refill, RefillPerSec, MaxTokens)

\* A solvent bucket has no debt left at the latest time.
LEMMA SolventHeals ==
    ASSUME NEW t \in Int, NEW l \in Int, NEW rate \in Nat, NEW max \in Nat,
           latest \in Nat, Solvent(t, l, rate, max)
    PROVE  Healed(t, l, rate, max)
<1>1. (latest - l) * rate = rate * latest - rate * l
  OBVIOUS
<1>2. latest = l => rate * latest - rate * l = 0
  OBVIOUS
<1>3. (latest - l) * rate \in Int
  OBVIOUS
<1> QED
  BY <1>1, <1>2, <1>3 DEF Solvent, Healed, Refilled, AtMost

\* It stays solvent when it is refilled at any time the clock has shown.
LEMMA RefillSolvent ==
    ASSUME NEW t \in Int, NEW l \in Int, NEW at \in 0 .. latest,
           NEW rate \in Nat, NEW max \in Nat, latest \in Nat,
           Solvent(t, l, rate, max)
    PROVE  Solvent(Refilled(t, l, at, rate, max), at, rate, max)
<1>1. (at - l) * rate = rate * at - rate * l
  OBVIOUS
<1>2. /\ rate * at \in Nat /\ rate * latest \in Nat /\ rate * l \in Int
      /\ rate * at <= rate * latest
  BY Allowance
<1>3. at = l => rate * at = rate * l
  OBVIOUS
<1> DEFINE a == rate * at   x == rate * latest   y == rate * l
<1>4. /\ a \in Nat /\ x \in Nat /\ y \in Int /\ a <= x
      /\ (at - l) * rate = a - y /\ (at = l => a = y)
      /\ t + x - y >= 0 /\ t <= max
  BY <1>1, <1>2, <1>3 DEF Solvent, AtMost
<1>5. Refilled(t, l, at, rate, max) =
        IF at = l THEN t ELSE IF t + (a - y) > max THEN max ELSE t + (a - y)
  BY <1>4 DEF Refilled
<1> HIDE DEF a, x, y
<1>6. /\ Refilled(t, l, at, rate, max) \in Int
      /\ Refilled(t, l, at, rate, max) <= max
      /\ Refilled(t, l, at, rate, max) + x - a >= 0
  BY <1>4, <1>5
<1> QED
  BY <1>6 DEF Solvent, AtMost, a, x

\* Nor does a token that it has make it insolvent, nor a full bucket.
LEMMA TokenSolvent ==
    ASSUME NEW t \in Int, NEW at \in 0 .. latest, NEW rate \in Nat,
           NEW max \in Nat, latest \in Nat, t <= max, t >= 0
    PROVE  Solvent(t, at, rate, max)
<1> DEFINE a == rate * at   x == rate * latest
<1>1. a \in Nat /\ x \in Nat /\ a <= x
  BY Allowance
<1> HIDE DEF a, x
<1>2. t + x - a >= 0
  BY <1>1
<1> QED
  BY <1>2 DEF Solvent, AtMost, a, x

\* Nor does more time.
LEMMA TimeSolvent ==
    ASSUME NEW t \in Int, NEW l, NEW rate \in Nat,
           NEW max \in Nat, latest \in Nat, latest' \in Nat, latest <= latest',
           Solvent(t, l, rate, max)
    PROVE  /\ t \in AtMost(max) /\ l \in 0 .. latest'
           /\ t + rate * latest' - rate * l >= 0
<1> DEFINE z == rate * latest'   x == rate * latest   y == rate * l
<1>1. /\ t \in AtMost(max) /\ l \in 0 .. latest /\ t + x - y >= 0
  BY DEF Solvent
<1>2. x \in Nat /\ x <= z /\ z \in Nat /\ y \in Int
  <2>1. latest' <= latest'
    OBVIOUS
  <2>2. x \in Nat /\ x <= z
    BY Allowance
  <2>3. z \in Nat
    BY <2>1, Allowance
  <2>4. y \in Int
    BY <1>1
  <2> QED
    BY <2>2, <2>3, <2>4
<1> HIDE DEF x, y, z
<1>3. t + z - y >= 0
  BY <1>1, <1>2
<1>4. l \in 0 .. latest'
  BY <1>1
<1> QED
  BY <1>1, <1>3, <1>4 DEF z, y

LEMMA DebtInit == RateInit => DebtInv
<1> SUFFICES ASSUME RateInit, RateTypeOK PROVE DebtInv
  BY RateTypeInit
<1>1. /\ GlobalMaxTokens \in Nat /\ GlobalRefillPerSec \in Nat
      /\ latest = 0 /\ last = 0 /\ tokens = GlobalMaxTokens
      /\ \A i \in Slot : table[i].ip = Nobody
  BY RateAssumption DEF RateInit
<1>2. Solvent(tokens, last, GlobalRefillPerSec, GlobalMaxTokens)
  BY <1>1, TokenSolvent
<1> QED
  BY <1>1, <1>2 DEF DebtInv

\* What a call makes of the buckets is solvent at its time.
LEMMA CallSolvent ==
    ASSUME DebtInv, NEW s \in Source, NEW at \in 0 .. latest
    PROVE  /\ Solvent(GlobalTokens(at), at, GlobalRefillPerSec, GlobalMaxTokens)
           /\ Solvent(EntryFor(s, at).tokens, at, RefillPerSec, MaxTokens)
<1>1. /\ GlobalMaxTokens \in Nat /\ GlobalRefillPerSec \in Nat /\ latest \in Nat
      /\ MaxTokens \in Nat /\ RefillPerSec \in Nat /\ SlotOf[s] \in Slot
      /\ tokens \in Int /\ last \in Int /\ s # Nobody
  BY RateAssumption DEF DebtInv, RateTypeOK, AtMost
<1>2. Solvent(GlobalTokens(at), at, GlobalRefillPerSec, GlobalMaxTokens)
  BY <1>1, RefillSolvent DEF GlobalTokens, DebtInv
<1>3. CASE table[SlotOf[s]].ip = s
  <2> DEFINE e == table[SlotOf[s]]
  <2>1. e.tokens \in Int /\ e.last_refill \in Int
    BY <1>1 DEF DebtInv, RateTypeOK, Entry, AtMost
  <2>2. Solvent(e.tokens, e.last_refill, RefillPerSec, MaxTokens)
    BY <1>1, <1>3 DEF DebtInv
  <2>3. EntryFor(s, at).tokens =
          Refilled(e.tokens, e.last_refill, at, RefillPerSec, MaxTokens)
    BY <1>3 DEF EntryFor
  <2> QED
    BY <1>1, <1>2, <2>1, <2>2, <2>3, RefillSolvent
<1>4. CASE table[SlotOf[s]].ip # s
  <2>1. EntryFor(s, at).tokens = MaxTokens
    BY <1>4 DEF EntryFor
  <2> QED
    BY <1>1, <1>2, <2>1, TokenSolvent
<1> QED
  BY <1>3, <1>4

\* A step that leaves the clock alone keeps the debts payable when the buckets it
\* writes are solvent.
LEMMA DebtKept ==
    ASSUME DebtInv, RateTypeOK', UNCHANGED clock, NEW s \in Source,
           Solvent(tokens', last', GlobalRefillPerSec, GlobalMaxTokens),
           NEW e, Solvent(e.tokens, e.last_refill, RefillPerSec, MaxTokens),
           table' = table \/ table' = [table EXCEPT ![SlotOf[s]] = e]
    PROVE  DebtInv'
<1>1. \A i \in Slot : table'[i] = e \/ table'[i] = table[i]
  BY DEF DebtInv, RateTypeOK
<1>2. latest' = latest
  BY DEF clock
<1> QED
  BY <1>1, <1>2 DEF DebtInv, Solvent

LEMMA DebtStep == DebtInv /\ [RateNext]_rate_vars => DebtInv'
<1> SUFFICES ASSUME DebtInv, [RateNext]_rate_vars PROVE DebtInv'
  OBVIOUS
<1>0. /\ RateTypeOK /\ RateTypeOK' /\ latest \in Nat
      /\ GlobalMaxTokens \in Nat /\ GlobalRefillPerSec \in Nat
      /\ MaxTokens \in Nat /\ RefillPerSec \in Nat
  BY RateTypeStep, RateAssumption DEF DebtInv, RateTypeOK
<1>1. ASSUME NEW w \in Thread, NEW s \in Source, NEW at \in 0 .. latest,
             DropGlobally(w, s, at)
      PROVE  DebtInv'
  <2>1. EntryFor(s, at).last_refill = at
    BY DEF EntryFor
  <2> QED
    BY <1>0, <1>1, <2>1, CallSolvent, DebtKept DEF DropGlobally
<1>2. ASSUME NEW w \in Thread, NEW s \in Source, NEW at \in 0 .. latest,
             DropSource(w, s, at)
      PROVE  DebtInv'
  <2>1. EntryFor(s, at).last_refill = at
    BY DEF EntryFor
  <2> QED
    BY <1>0, <1>2, <2>1, CallSolvent, DebtKept DEF DropSource
<1>3. ASSUME NEW w \in Thread, NEW s \in Source, NEW at \in 0 .. latest,
             Admit(w, s, at)
      PROVE  DebtInv'
  <2> DEFINE e == [EntryFor(s, at) EXCEPT !.tokens = @ - 1]
  <2>0. at \in Nat
    BY <1>0
  <2>1. /\ e.last_refill = at /\ e.tokens = EntryFor(s, at).tokens - 1
    BY DEF EntryFor
  <2>2. /\ EntryFor(s, at).tokens \in Int /\ EntryFor(s, at).tokens <= MaxTokens
        /\ GlobalTokens(at) \in Int /\ GlobalTokens(at) <= GlobalMaxTokens
    BY CallSolvent DEF Solvent, AtMost
  <2>3. /\ EntryFor(s, at).tokens > 0 /\ GlobalTokens(at) > 0
        /\ tokens' = GlobalTokens(at) - 1 /\ last' = at /\ UNCHANGED clock
        /\ table' = [table EXCEPT ![SlotOf[s]] = e]
    BY <1>3 DEF Admit
  <2> HIDE DEF e
  <2>4. Solvent(e.tokens, e.last_refill, RefillPerSec, MaxTokens)
    BY <1>0, <2>1, <2>2, <2>3, TokenSolvent
  <2>5. Solvent(tokens', last', GlobalRefillPerSec, GlobalMaxTokens)
    BY <1>0, <2>2, <2>3, TokenSolvent
  <2> QED
    BY <1>0, <2>3, <2>4, <2>5, DebtKept
<1>4. CASE Tick
  <2>1. /\ latest' \in Nat /\ latest <= latest' /\ UNCHANGED <<table, tokens, last>>
    BY <1>0, <1>4 DEF Tick, RateTypeOK
  <2>2. tokens \in Int /\ \A i \in Slot : table[i].tokens \in Int
    BY <1>0 DEF RateTypeOK, Entry, AtMost
  <2>3. Solvent(tokens, last, GlobalRefillPerSec, GlobalMaxTokens)'
    BY <1>0, <2>1, <2>2, TimeSolvent DEF DebtInv, Solvent
  <2>4. ASSUME NEW i \in Slot, table'[i].ip # Nobody
        PROVE  Solvent(table[i].tokens, table[i].last_refill,
                       RefillPerSec, MaxTokens)'
    <3>1. Solvent(table[i].tokens, table[i].last_refill, RefillPerSec, MaxTokens)
      BY <2>1, <2>4 DEF DebtInv
    <3> QED
      BY <1>0, <2>1, <2>2, <3>1, TimeSolvent DEF Solvent
  <2> QED
    BY <1>0, <2>3, <2>4 DEF DebtInv
<1>5. CASE SetBack
  BY <1>0, <1>5 DEF SetBack, DebtInv, Solvent
<1>6. CASE \E w \in Thread, s \in Source : ReadClock(w, s)
  BY <1>0, <1>6 DEF ReadClock, DebtInv, Solvent, clock
<1>7. CASE UNCHANGED rate_vars
  BY <1>0, <1>7 DEF rate_vars, clock, DebtInv, Solvent
<1> QED
  BY <1>1, <1>2, <1>3, <1>4, <1>5, <1>6, <1>7 DEF RateNext

\* No debt that racing workers or a clock set back put a bucket in outlives the
\* latest time the clock has shown.
THEOREM DebtsHealHolds == RateSpec => []DebtsHeal
<1>1. DebtInv => DebtsHeal
  <2> SUFFICES ASSUME DebtInv PROVE DebtsHeal
    OBVIOUS
  <2>1. /\ GlobalMaxTokens \in Nat /\ GlobalRefillPerSec \in Nat /\ latest \in Nat
        /\ MaxTokens \in Nat /\ RefillPerSec \in Nat
        /\ tokens \in Int /\ last \in Int
        /\ \A i \in Slot : table[i].tokens \in Int /\ table[i].last_refill \in Int
    BY RateAssumption DEF DebtInv, RateTypeOK, Entry, AtMost
  <2>2. Healed(tokens, last, GlobalRefillPerSec, GlobalMaxTokens)
    BY <2>1, SolventHeals DEF DebtInv
  <2>3. ASSUME NEW i \in Slot, table[i].ip # Nobody
        PROVE  Healed(table[i].tokens, table[i].last_refill, RefillPerSec, MaxTokens)
    BY <2>1, <2>3, SolventHeals DEF DebtInv
  <2> QED
    BY <2>2, <2>3 DEF DebtsHeal
<1> QED
  BY DebtInit, DebtStep, <1>1, PTL DEF RateSpec

-----------------------------------------------------------------------------
(***************************************************************************)
(*                             The scorer.                                  *)
(***************************************************************************)
(***************************************************************************)
(* Sums over finite sets, and induction on their sizes.                     *)
(***************************************************************************)
LEMMA LeastOf ==
    ASSUME NEW S, S \subseteq Nat, S # {}
    PROVE  \E m \in S : \A n \in S : m <= n
<1> DEFINE R == OpToRel(<, Nat)
<1>1. IsWellFoundedOn(R, Nat)
  BY NatLessThanWellFounded
<1>2. \A x, y \in Nat : x < y => <<x, y>> \in R
  BY DEF OpToRel
<1> HIDE DEF R
<1>3. PICK m \in S : \A n \in S : ~(<<n, m>> \in R)
  BY <1>1, WFMin
<1>4. \A n \in S : m <= n
  <2>1. \A n \in S : n \in Nat /\ m \in Nat /\ ~(n < m)
    BY <1>2, <1>3
  <2> QED
    BY <2>1
<1> QED
  BY <1>4

\* Induction over the natural numbers: no least one is missing.
LEMMA Induction ==
    ASSUME NEW S, 0 \in S, \A n \in Nat : n \in S => n + 1 \in S
    PROVE  \A n \in Nat : n \in S
<1> DEFINE T == Nat \ S
<1>1. SUFFICES ASSUME T # {} PROVE FALSE
  OBVIOUS
<1>2. PICK n \in T : \A m \in T : n <= m
  BY <1>1, LeastOf
<1>3. n - 1 \in Nat /\ n - 1 \notin T
  BY <1>2
<1> QED
  BY <1>2, <1>3

\* A family of sets that holds with T also T and one element more, holds S.
LEMMA SetInduction ==
    ASSUME NEW S, IsFiniteSet(S), NEW F, {} \in F,
           \A T \in SUBSET S : \A x \in S \ T : T \in F => T \cup {x} \in F
    PROVE  \A T \in SUBSET S : T \in F
<1> DEFINE N == {n \in Nat : \A T \in SUBSET S : Cardinality(T) = n => T \in F}
<1>1. \A T \in SUBSET S : IsFiniteSet(T) /\ Cardinality(T) \in Nat
  BY FS_Subset, FS_CardinalityType
<1>2. 0 \in N
  BY <1>1, FS_EmptySet
<1>3. ASSUME NEW n \in Nat, n \in N PROVE n + 1 \in N
  <2> SUFFICES ASSUME NEW T \in SUBSET S, Cardinality(T) = n + 1 PROVE T \in F
    OBVIOUS
  <2>1. T # {}
    BY <1>1, FS_EmptySet
  <2>2. PICK x \in T : TRUE
    BY <2>1
  <2>3. T \ {x} \in SUBSET S /\ Cardinality(T \ {x}) = n
    <3>1. IsFiniteSet(T)
      BY <1>1
    <3>2. Cardinality(T \ {x}) = Cardinality(T) - 1
      BY <2>2, <3>1, FS_RemoveElement
    <3> QED
      BY <3>2
  <2>4. T \ {x} \in F
    BY <1>3, <2>3
  <2>5. x \in S \ (T \ {x}) /\ (T \ {x}) \cup {x} = T
    BY <2>2
  <2> QED
    BY <2>3, <2>4, <2>5
<1> HIDE DEF N
<1>4. \A n \in Nat : n \in N
  BY <1>2, <1>3, Induction
<1> QED
  BY <1>1, <1>4 DEF N

\* A function may be defined by what it is at m and how it goes on.
Iteration(g, A, a, F, m, n) ==
    /\ g \in [m .. n -> A] /\ g[m] = a
    /\ \A k \in m + 1 .. n : g[k] = F[<<g[k - 1], k>>]

\* A function that is defined step by step exists.
LEMMA Iterates ==
    ASSUME NEW A, NEW a \in A, NEW F, \A x \in A : \A k \in Nat : F[<<x, k>>] \in A,
           NEW m \in Nat, NEW n \in Nat, m <= n
    PROVE  \E g : Iteration(g, A, a, F, m, n)
<1> DEFINE Is(g, i) == /\ g \in [m .. i -> A] /\ g[m] = a
                       /\ \A k \in m + 1 .. i : g[k] = F[<<g[k - 1], k>>]
           N == {i \in Nat : \E g : Is(g, m + i)}
<1>1. 0 \in N
  <2>1. Is([k \in m .. m |-> a], m)
    OBVIOUS
  <2> QED
    BY <2>1
<1>2. ASSUME NEW i \in Nat, i \in N PROVE i + 1 \in N
  <2>1. PICK h : Is(h, m + i)
    BY <1>2
  <2>2. PICK e : e = F[<<h[m + i], m + i + 1>>]
    OBVIOUS
  <2>3. e \in A
    BY <2>1, <2>2
  <2> DEFINE g == [k \in m .. m + i + 1 |-> IF k = m + i + 1 THEN e ELSE h[k]]
  <2>4. g \in [m .. m + i + 1 -> A]
    BY <2>1, <2>3
  <2>5. \A k \in m .. m + i : g[k] = h[k]
    OBVIOUS
  <2>6. g[m + i + 1] = F[<<g[m + i], m + i + 1>>]
    <3>1. g[m + i + 1] = e
      OBVIOUS
    <3>2. g[m + i] = h[m + i]
      BY <2>5
    <3> HIDE DEF g
    <3> QED
      BY <2>2, <3>1, <3>2
  <2> HIDE DEF g
  <2>7. \A k \in m + 1 .. m + i : g[k] = F[<<g[k - 1], k>>]
    <3>1. ASSUME NEW k \in m + 1 .. m + i PROVE g[k] = F[<<g[k - 1], k>>]
      <4>1. g[k] = h[k] /\ g[k - 1] = h[k - 1] /\ h[k] = F[<<h[k - 1], k>>]
        BY <2>1, <2>5
      <4> QED
        BY <4>1
    <3> QED
      BY <3>1
  <2>8. \A k \in m + 1 .. m + i + 1 : k \in m + 1 .. m + i \/ (k = m + i + 1 /\ k - 1 = m + i)
    OBVIOUS
  <2>9. \A k \in m + 1 .. m + i + 1 : g[k] = F[<<g[k - 1], k>>]
    BY <2>6, <2>7, <2>8
  <2>10. g[m] = a
    BY <2>1, <2>5
  <2>11. Is(g, m + i + 1)
    BY <2>4, <2>9, <2>10
  <2>12. m + i + 1 = m + (i + 1)
    OBVIOUS
  <2> HIDE DEF Is
  <2>13. \E w : Is(w, m + (i + 1))
    BY <2>11, <2>12
  <2> QED
    BY <2>13
<1> HIDE DEF N
<1>3. n - m \in N
  BY <1>1, <1>2, Induction
<1>4. m + (n - m) = n
  OBVIOUS
<1>5. \E g : Is(g, m + (n - m))
  BY <1>3 DEF N
<1> QED
  BY <1>4, <1>5 DEF Iteration

\* The function by which a sum over S is defined.
Sums(f, S, g) ==
    g = [s \in SUBSET S |-> IF s = {} THEN 0
                            ELSE LET x == CHOOSE x \in s : TRUE IN f[x] + g[s \ {x}]]

\* The definition, by the function that sums each subset.
LEMMA SumIs ==
    ASSUME NEW f, NEW S
    PROVE  SumFunctionOnSet(f, S) = (CHOOSE g : Sums(f, S, g))[S]
BY DEF SumFunctionOnSet, FoldFunctionOnSet, MapThenFoldSet, Sums

\* There is such a function ...
LEMMA SumsExist ==
    ASSUME NEW f, NEW S, IsFiniteSet(S)
    PROVE  \E g : Sums(f, S, g)
<1> DEFINE Upto(n) == {s \in SUBSET S : Cardinality(s) <= n}
           One(s) == CHOOSE x \in s : TRUE
           Is(g, n) == /\ g = [s \in Upto(n) |-> g[s]]
                       /\ \A s \in Upto(n) :
                             g[s] = IF s = {} THEN 0 ELSE f[One(s)] + g[s \ {One(s)}]
           N == {n \in Nat : \E g : Is(g, n)}
<1>1. \A s \in SUBSET S : IsFiniteSet(s) /\ Cardinality(s) \in Nat
  BY FS_Subset, FS_CardinalityType
<1>2. ASSUME NEW s \in SUBSET S, s # {}
      PROVE  /\ One(s) \in s /\ s \ {One(s)} \in SUBSET S
             /\ Cardinality(s) = Cardinality(s \ {One(s)}) + 1
  <2>1. One(s) \in s
    BY <1>2
  <2>2. Cardinality(s \ {One(s)}) = Cardinality(s) - 1
    <3>1. PICK x : x = One(s)
      OBVIOUS
    <3>2. Cardinality(s \ {x}) = Cardinality(s) - 1
      BY <1>1, <2>1, <3>1, FS_RemoveElement
    <3> QED
      BY <3>1, <3>2
  <2> QED
    BY <1>1, <2>1, <2>2
<1>3. 0 \in N
  <2> DEFINE g == [s \in Upto(0) |-> 0]
  <2>1. \A s \in Upto(0) : s = {}
    BY <1>1, FS_EmptySet
  <2>2. Is(g, 0)
    BY <2>1
  <2> QED
    BY <2>2
<1>4. ASSUME NEW n \in Nat, n \in N PROVE n + 1 \in N
  <2>1. PICK h : Is(h, n)
    BY <1>4
  <2> DEFINE body(s) == IF s = {} THEN 0 ELSE f[One(s)] + h[s \ {One(s)}]
             g == [s \in Upto(n + 1) |-> body(s)]
  <2>2. \A s \in Upto(n) : s \in Upto(n + 1) /\ g[s] = h[s]
    <3>1. \A s \in Upto(n) : s \in Upto(n + 1)
      BY <1>1
    <3>2. \A s \in Upto(n) : h[s] = body(s)
      BY <2>1
    <3> QED
      BY <3>1, <3>2
  <2>3. ASSUME NEW s \in Upto(n + 1)
        PROVE  g[s] = IF s = {} THEN 0 ELSE f[One(s)] + g[s \ {One(s)}]
    <3>1. CASE s = {}
      BY <3>1
    <3>2. CASE s # {}
      <4>1. s \ {One(s)} \in Upto(n)
        BY <1>1, <1>2, <3>2, SMTT(30)
      <4>2. g[s] = f[One(s)] + h[s \ {One(s)}]
        BY <3>2
      <4> QED
        BY <2>2, <3>2, <4>1, <4>2
    <3> QED
      BY <3>1, <3>2
  <2>4. g = [s \in Upto(n + 1) |-> g[s]]
    OBVIOUS
  <2> HIDE DEF g
  <2>5. Is(g, n + 1)
    BY <2>3, <2>4, Zenon
  <2> HIDE DEF Is
  <2>6. n + 1 \in Nat /\ \E w : Is(w, n + 1)
    BY <2>5
  <2> QED
    BY <2>6
<1> HIDE DEF N
<1>5. Cardinality(S) \in N
  BY <1>1, <1>3, <1>4, Induction
<1>6. Upto(Cardinality(S)) = SUBSET S
  BY FS_Subset
<1>7. PICK g : Is(g, Cardinality(S))
  BY <1>5 DEF N
<1>8. g = [s \in SUBSET S |-> g[s]]
  BY <1>6, <1>7, Zenon
<1>9. \A s \in SUBSET S : g[s] = IF s = {} THEN 0 ELSE f[One(s)] + g[s \ {One(s)}]
  BY <1>6, <1>7, Zenon
<1>10. Sums(f, S, g)
  BY <1>8, <1>9, Zenon DEF Sums
<1> QED
  BY <1>10

\* What such a function says of one set.
LEMMA SumsAt ==
    ASSUME NEW f, NEW S, NEW g, Sums(f, S, g), NEW T \in SUBSET S
    PROVE  /\ T = {} => g[T] = 0
           /\ T # {} => \E x \in T : x = (CHOOSE y \in T : TRUE) /\ g[T] = f[x] + g[T \ {x}]
<1>1. T = {} => g[T] = 0
  BY Zenon DEF Sums
<1>2. ASSUME T # {}
      PROVE  \E x \in T : x = (CHOOSE y \in T : TRUE) /\ g[T] = f[x] + g[T \ {x}]
  <2>1. PICK x : x = CHOOSE y \in T : TRUE
    OBVIOUS
  <2>2. x \in T
    BY <1>2, <2>1
  <2>3. g[T] = f[x] + g[T \ {x}]
    BY <1>2, <2>1, Zenon DEF Sums
  <2> QED
    BY <2>1, <2>2, <2>3
<1> QED
  BY <1>1, <1>2

\* ... and on common subsets any two of them agree.
LEMMA SumsAgree ==
    ASSUME NEW f, NEW S, IsFiniteSet(S), NEW T \in SUBSET S,
           NEW g, Sums(f, T, g), NEW h, Sums(f, S, h)
    PROVE  \A U \in SUBSET T : g[U] = h[U]
<1> DEFINE N == {n \in Nat : \A U \in SUBSET T : Cardinality(U) = n => g[U] = h[U]}
<1>1. \A U \in SUBSET T : U \in SUBSET S /\ IsFiniteSet(U) /\ Cardinality(U) \in Nat
  BY FS_Subset, FS_CardinalityType
<1>2. 0 \in N
  <2>1. ASSUME NEW U \in SUBSET T, Cardinality(U) = 0 PROVE g[U] = h[U]
    BY <1>1, <2>1, FS_EmptySet, SumsAt
  <2> QED
    BY <2>1
<1>3. ASSUME NEW n \in Nat, n \in N PROVE n + 1 \in N
  <2> SUFFICES ASSUME NEW U \in SUBSET T, Cardinality(U) = n + 1 PROVE g[U] = h[U]
    OBVIOUS
  <2>1. U # {}
    BY FS_EmptySet
  <2>2. PICK x \in U : x = (CHOOSE y \in U : TRUE) /\ g[U] = f[x] + g[U \ {x}]
    BY <2>1, SumsAt
  <2>3. h[U] = f[x] + h[U \ {x}]
    <3>1. PICK y \in U : y = (CHOOSE z \in U : TRUE) /\ h[U] = f[y] + h[U \ {y}]
      BY <1>1, <2>1, SumsAt
    <3> QED
      BY <2>2, <3>1, Zenon
  <2>4. IsFiniteSet(U) /\ Cardinality(U \ {x}) = Cardinality(U) - 1
    BY <1>1, FS_RemoveElement
  <2>5. g[U \ {x}] = h[U \ {x}]
    BY <1>3, <2>4
  <2> QED
    BY <2>2, <2>3, <2>5
<1> HIDE DEF N
<1>4. \A n \in Nat : n \in N
  BY <1>2, <1>3, Induction
<1> QED
  BY <1>1, <1>4 DEF N

\* A sum, and the same with one term taken out, whichever.
LEMMA SumOf ==
    ASSUME NEW f, NEW S, IsFiniteSet(S), \A x \in S : f[x] \in Int
    PROVE  /\ SumFunctionOnSet(f, {}) = 0
           /\ \A T \in SUBSET S : /\ SumFunctionOnSet(f, T) \in Int
                                  /\ \A x \in T : SumFunctionOnSet(f, T)
                                       = f[x] + SumFunctionOnSet(f, T \ {x})
<1>1. PICK h : Sums(f, S, h)
  BY SumsExist
<1>2. ASSUME NEW T \in SUBSET S PROVE SumFunctionOnSet(f, T) = h[T]
  <2>1. IsFiniteSet(T)
    BY FS_Subset
  <2>2. PICK g : g = CHOOSE z : Sums(f, T, z)
    OBVIOUS
  <2>3. Sums(f, T, g)
    BY <2>1, <2>2, SumsExist
  <2>4. g[T] = h[T]
    BY <1>1, <2>3, SumsAgree
  <2> QED
    BY <2>2, <2>4, SumIs
<1>3. h[{}] = 0
  BY <1>1, SumsAt
<1> DEFINE Good(T) == h[T] \in Int /\ \A x \in T : h[T] = f[x] + h[T \ {x}]
           N == {n \in Nat : \A T \in SUBSET S : Cardinality(T) <= n => Good(T)}
<1>4. \A T \in SUBSET S : IsFiniteSet(T) /\ Cardinality(T) \in Nat
  BY FS_Subset, FS_CardinalityType
<1>5. 0 \in N
  BY <1>3, <1>4, FS_EmptySet
<1>6. ASSUME NEW n \in Nat, n \in N PROVE n + 1 \in N
  <2>1. \A U \in SUBSET S : Cardinality(U) <= n => Good(U)
    BY <1>6
  <2>2. ASSUME NEW T \in SUBSET S, Cardinality(T) = n + 1 PROVE Good(T)
    <3>1. ASSUME NEW x \in T PROVE T \ {x} \in SUBSET S /\ Cardinality(T \ {x}) = n
      <4>1. Cardinality(T \ {x}) = Cardinality(T) - 1
        BY <1>4, FS_RemoveElement
      <4> QED
        BY <2>2, <4>1
    <3>2. ASSUME NEW x \in T PROVE Good(T \ {x})
      BY <2>1, <3>1
    <3>3. T # {}
      BY <2>2, FS_EmptySet
    <3>4. PICK y \in T : h[T] = f[y] + h[T \ {y}]
      BY <1>1, <3>3, SumsAt
    <3>5. h[T] \in Int
      BY <3>2, <3>4
    <3>6. ASSUME NEW x \in T, x # y PROVE h[T] = f[x] + h[T \ {x}]
      <4>1. x \in T \ {y} /\ y \in T \ {x} /\ (T \ {y}) \ {x} = (T \ {x}) \ {y}
        BY <3>6
      <4>2. PICK z : z = h[(T \ {x}) \ {y}]
        OBVIOUS
      <4>3. h[T \ {y}] = f[x] + z /\ h[T \ {x}] = f[y] + z
        BY <3>2, <4>1, <4>2
      <4>4. z \in Int
        <5>1. (T \ {x}) \ {y} \in SUBSET S
          OBVIOUS
        <5>2. IsFiniteSet(T \ {x}) /\ Cardinality((T \ {x}) \ {y}) <= Cardinality(T \ {x})
          BY <1>4, <3>1, FS_Subset
        <5>3. Cardinality((T \ {x}) \ {y}) <= n
          BY <1>4, <3>1, <5>1, <5>2
        <5> QED
          BY <2>1, <4>2, <5>1, <5>3
      <4> QED
        BY <3>4, <4>3, <4>4
    <3> QED
      BY <3>4, <3>5, <3>6
  <2>3. \A T \in SUBSET S : Cardinality(T) <= n + 1 => Cardinality(T) <= n \/ Cardinality(T) = n + 1
    BY <1>4
  <2> HIDE DEF Good
  <2> QED
    BY <2>1, <2>2, <2>3
<1> HIDE DEF N
<1> HIDE DEF Good
<1>7. \A n \in Nat : n \in N
  BY <1>5, <1>6, Induction
<1>8. \A T \in SUBSET S : Good(T)
  BY <1>4, <1>7 DEF N
<1>9. \A T \in SUBSET S : \A x \in T : T \ {x} \in SUBSET S
  OBVIOUS
<1>10. {} \in SUBSET S
  OBVIOUS
<1> QED
  BY <1>2, <1>3, <1>8, <1>9, <1>10 DEF Good

-----------------------------------------------------------------------------
\* A sum of natural numbers is one, and no term exceeds it.
LEMMA SumNat ==
    ASSUME NEW f, NEW S, IsFiniteSet(S), \A x \in S : f[x] \in Nat
    PROVE  /\ SumFunctionOnSet(f, S) \in Nat
           /\ \A x \in S : f[x] <= SumFunctionOnSet(f, S)
<1> DEFINE s(T) == SumFunctionOnSet(f, T)
           F == {T \in SUBSET S : s(T) \in Nat}
<1>1. /\ s({}) = 0
      /\ \A T \in SUBSET S : s(T) \in Int /\ \A x \in T : s(T) = f[x] + s(T \ {x})
  <2>1. \A x \in S : f[x] \in Int
    OBVIOUS
  <2> QED
    BY <2>1, SumOf
<1> HIDE DEF s
<1>2. {} \in F
  BY <1>1
<1>3. ASSUME NEW T \in SUBSET S, NEW x \in S \ T, T \in F PROVE T \cup {x} \in F
  <2>1. PICK U : U = T \cup {x}
    OBVIOUS
  <2>2. U \in SUBSET S /\ x \in U /\ U \ {x} = T
    BY <2>1
  <2>3. s(U) = f[x] + s(T)
    BY <1>1, <2>2
  <2> QED
    BY <1>3, <2>1, <2>2, <2>3
<1> HIDE DEF F
<1>4. \A T \in SUBSET S : T \in F
  BY <1>2, <1>3, SetInduction
<1>5. \A x \in S : S \ {x} \in SUBSET S /\ S \in SUBSET S
  OBVIOUS
<1>6. \A x \in S : s(S) = f[x] + s(S \ {x}) /\ s(S \ {x}) \in Nat
  BY <1>1, <1>4, <1>5 DEF F
<1>7. s(S) \in Nat
  BY <1>4 DEF F
<1>8. ASSUME NEW x \in S PROVE f[x] <= s(S)
  <2>1. PICK r \in Nat : s(S) = f[x] + r
    BY <1>6
  <2>2. f[x] \in Nat
    OBVIOUS
  <2> QED
    BY <2>1, <2>2
<1> QED
  BY <1>7, <1>8 DEF s

\* Functions that agree have the same sum.
LEMMA SumSame ==
    ASSUME NEW f, NEW g, NEW S, IsFiniteSet(S), \A x \in S : f[x] \in Int /\ g[x] = f[x]
    PROVE  SumFunctionOnSet(g, S) = SumFunctionOnSet(f, S)
<1> DEFINE s(T) == SumFunctionOnSet(f, T)
           t(T) == SumFunctionOnSet(g, T)
           F == {T \in SUBSET S : t(T) = s(T)}
<1>1. /\ s({}) = 0
      /\ \A T \in SUBSET S : s(T) \in Int /\ \A x \in T : s(T) = f[x] + s(T \ {x})
  BY SumOf
<1>2. /\ t({}) = 0
      /\ \A T \in SUBSET S : t(T) \in Int /\ \A x \in T : t(T) = g[x] + t(T \ {x})
  <2>1. \A x \in S : g[x] \in Int
    OBVIOUS
  <2> QED
    BY <2>1, SumOf
<1> HIDE DEF s, t
<1>3. {} \in F
  BY <1>1, <1>2
<1>4. ASSUME NEW T \in SUBSET S, NEW x \in S \ T, T \in F PROVE T \cup {x} \in F
  <2>1. PICK U : U = T \cup {x}
    OBVIOUS
  <2>2. U \in SUBSET S /\ x \in U /\ U \ {x} = T
    BY <2>1
  <2>3. s(U) = f[x] + s(T) /\ t(U) = g[x] + t(T) /\ g[x] = f[x]
    BY <1>1, <1>2, <2>2
  <2> QED
    BY <1>4, <2>1, <2>2, <2>3
<1> HIDE DEF F
<1>5. S \in F
  BY <1>3, <1>4, SetInduction
<1> QED
  BY <1>5 DEF F, s, t

\* One term more, one sum more.
LEMMA SumOneMore ==
    ASSUME NEW f, NEW g, NEW S, IsFiniteSet(S), \A x \in S : f[x] \in Int,
           NEW y \in S, g[y] = f[y] + 1, \A x \in S \ {y} : g[x] = f[x]
    PROVE  SumFunctionOnSet(g, S) = SumFunctionOnSet(f, S) + 1
<1>1. \A x \in S : g[x] \in Int
  OBVIOUS
<1>2. SumFunctionOnSet(f, S) = f[y] + SumFunctionOnSet(f, S \ {y})
  BY SumOf
<1>3. SumFunctionOnSet(g, S) = g[y] + SumFunctionOnSet(g, S \ {y})
  BY <1>1, SumOf
<1>4. IsFiniteSet(S \ {y})
  BY FS_Subset
<1>5. SumFunctionOnSet(g, S \ {y}) = SumFunctionOnSet(f, S \ {y})
  <2>1. \A x \in S \ {y} : f[x] \in Int /\ g[x] = f[x]
    OBVIOUS
  <2> QED
    BY <1>4, <2>1, SumSame
<1>6. SumFunctionOnSet(f, S \ {y}) \in Int
  <2>1. S \ {y} \in SUBSET S
    OBVIOUS
  <2> QED
    BY <2>1, SumOf
<1> QED
  BY <1>2, <1>3, <1>5, <1>6

-----------------------------------------------------------------------------
(***************************************************************************)
(* The labels of a name are sequences of characters, one at least.          *)
(***************************************************************************)
Labels == Seq(Seq(STRING)) \ {<<>>}

\* A character more keeps labels labels.
LEMMA ExtendIs ==
    ASSUME NEW labels \in Labels, NEW c \in STRING
    PROVE  Extend(labels, c) \in Labels
<1>1. Len(labels) \in Nat \ {0}
  BY EmptySeq, LenProperties DEF Labels
<1>2. CASE c = "."
  <2>1. <<>> \in Seq(STRING)
    BY EmptySeq
  <2>2. Append(labels, <<>>) \in Labels
    BY <2>1, AppendProperties DEF Labels
  <2> QED
    BY <1>2, <2>2 DEF Extend
<1>3. CASE c # "."
  <2>1. Last(labels) \in Seq(STRING)
    BY <1>1, ElementOfSeq DEF Labels, Last
  <2>2. PICK e : e = Append(Last(labels), c)
    OBVIOUS
  <2>3. e \in Seq(STRING)
    BY <2>1, <2>2, AppendProperties
  <2>4. Front(labels) \in Seq(Seq(STRING))
    <3>1. \A i \in 1 .. Len(labels) - 1 : labels[i] \in Seq(STRING)
      BY <1>1, ElementOfSeq DEF Labels
    <3>2. PICK n : n = Len(labels) - 1
      OBVIOUS
    <3>3. n \in Int /\ \A i \in 1 .. n : labels[i] \in Seq(STRING)
      BY <1>1, <3>1, <3>2
    <3>4. SubSeq(labels, 1, n) \in Seq(Seq(STRING))
      BY <3>3, SubSeqProperties, SMTT(30)
    <3> QED
      BY <3>2, <3>4 DEF Front
  <2>5. Append(Front(labels), e) \in Labels
    <3>1. PICK x : x = Front(labels)
      OBVIOUS
    <3>2. Append(x, e) \in Seq(Seq(STRING)) /\ Append(x, e) # <<>>
      BY <2>3, <2>4, <3>1, AppendProperties
    <3> QED
      BY <3>1, <3>2, Zenon DEF Labels
  <2> QED
    BY <1>3, <2>2, <2>5 DEF Extend
<1> QED
  BY <1>2, <1>3

\* split_labels yields at least one label.
LEMMA SplitIs ==
    ASSUME NEW d \in Seq(STRING)
    PROVE  SplitLabels(d) \in Labels
<1> DEFINE Def(g) == g = [n \in 0 .. Len(d) |-> IF n = 0 THEN << <<>> >>
                                                ELSE Extend(g[n - 1], d[n])]
           F == [lk \in Labels \X Nat |-> IF lk[2] \in DOMAIN d THEN Extend(lk[1], d[lk[2]])
                                          ELSE lk[1]]
           one == << <<>> >>
<1>1. Len(d) \in Nat /\ DOMAIN d = 1 .. Len(d) /\ \A k \in DOMAIN d : d[k] \in STRING
  BY LenProperties, ElementOfSeq
<1>2. one \in Labels
  BY DEF Labels
<1>3. F \in [Labels \X Nat -> Labels]
  BY <1>1, ExtendIs
<1>4. PICK h \in [0 .. Len(d) -> Labels] :
           h[0] = one /\ \A k \in 1 .. Len(d) : h[k] = F[<<h[k - 1], k>>]
  <2>1. PICK f, o, len : f = F /\ o = one /\ len = Len(d)
    OBVIOUS
  <2>2. /\ o \in Labels /\ \A x \in Labels : \A k \in Nat : f[<<x, k>>] \in Labels
        /\ 0 \in Nat /\ len \in Nat /\ 0 <= len
    BY <1>1, <1>2, <1>3, <2>1
  <2>3. \E g : Iteration(g, Labels, o, f, 0, len)
    BY <2>2, Iterates
  <2> HIDE DEF F, one
  <2> QED
    BY <2>1, <2>3 DEF Iteration
<1>5. \A k \in 1 .. Len(d) : h[k] = Extend(h[k - 1], d[k])
  <2>1. ASSUME NEW k \in 1 .. Len(d) PROVE h[k] = Extend(h[k - 1], d[k])
    <3>1. k - 1 \in 0 .. Len(d) /\ k \in Nat /\ k \in DOMAIN d
      BY <1>1
    <3>2. F[<<h[k - 1], k>>] = Extend(h[k - 1], d[k])
      BY <3>1
    <3> QED
      BY <1>4, <3>2
  <2> QED
    BY <2>1
<1>6. Def(h)
  <2> DEFINE val(n) == IF n = 0 THEN << <<>> >> ELSE Extend(h[n - 1], d[n])
  <2>1. \A n \in 0 .. Len(d) : h[n] = val(n)
    <3>1. h[0] = val(0)
      BY <1>4
    <3>2. \A n \in 1 .. Len(d) : h[n] = val(n)
      BY <1>5
    <3> HIDE DEF val
    <3>3. \A n \in 0 .. Len(d) : n = 0 \/ n \in 1 .. Len(d)
      BY <1>1
    <3> QED
      BY <3>1, <3>2, <3>3
  <2> HIDE DEF val
  <2>2. h = [n \in 0 .. Len(d) |-> val(n)]
    BY <1>4, <2>1
  <2> QED
    BY <2>2, Zenon DEF val
<1>7. PICK g : g = CHOOSE z : Def(z)
  OBVIOUS
<1>8. Def(g)
  <2> HIDE DEF Def
  <2> QED
    BY <1>6, <1>7
<1>9. \A k \in 0 .. Len(d) : g[k] = IF k = 0 THEN one ELSE Extend(g[k - 1], d[k])
  BY <1>8
<1>10. \A k \in Nat : k \in 0 .. Len(d) => g[k] \in Labels
  <2> DEFINE N == {k \in Nat : k \in 0 .. Len(d) => g[k] \in Labels}
  <2>1. 0 \in N
    BY <1>1, <1>2, <1>9
  <2>2. ASSUME NEW k \in Nat, k \in N PROVE k + 1 \in N
    <3>1. SUFFICES ASSUME k + 1 \in 0 .. Len(d) PROVE g[k + 1] \in Labels
      OBVIOUS
    <3>2. k \in 0 .. Len(d) /\ k + 1 \in DOMAIN d
      BY <1>1, <3>1
    <3>3. g[k + 1] = Extend(g[k], d[k + 1])
      BY <1>9, <3>1
    <3> QED
      BY <1>1, <2>2, <3>2, <3>3, ExtendIs
  <2> HIDE DEF N
  <2>3. \A k \in Nat : k \in N
    BY <2>1, <2>2, Induction
  <2> QED
    BY <2>3 DEF N
<1>11. PICK all : all = g[Len(d)]
  OBVIOUS
<1>12. all \in Labels
  BY <1>1, <1>10, <1>11
<1>13. SplitLabels(d) = SubSeq(all, 1, Min2(Len(all), HeurMaxLabels))
  BY <1>7, <1>11 DEF SplitLabels
<1>14. Len(all) \in Nat \ {0}
  BY <1>12, EmptySeq, LenProperties DEF Labels
<1>15. Min2(Len(all), HeurMaxLabels) \in 1 .. Len(all)
  BY <1>14 DEF Min2, HeurMaxLabels
<1>16. \A i \in 1 .. Min2(Len(all), HeurMaxLabels) : all[i] \in Seq(STRING)
  BY <1>12, <1>14, <1>15, ElementOfSeq DEF Labels
<1>17. SplitLabels(d) \in Seq(Seq(STRING)) /\ Len(SplitLabels(d)) # 0
  <2>1. PICK n : n = Min2(Len(all), HeurMaxLabels)
    OBVIOUS
  <2> QED
    BY <1>13, <1>15, <1>16, <2>1, SubSeqProperties
<1> QED
  BY <1>17, EmptySeq DEF Labels

\* Without the last they are the same labels.
LEMMA NonTldIs ==
    ASSUME NEW labels \in Labels
    PROVE  NonTld(labels) \in Seq(Seq(STRING))
           /\ \A k \in DOMAIN NonTld(labels) : k \in DOMAIN labels /\ NonTld(labels)[k] = labels[k]
<1>1. Len(labels) \in Nat /\ DOMAIN labels = 1 .. Len(labels)
  BY LenProperties DEF Labels
<1>2. CASE Len(labels) > 1
  <2>1. \A i \in 1 .. Len(labels) - 1 : labels[i] \in Seq(STRING)
    BY <1>1, ElementOfSeq DEF Labels
  <2>2. /\ Front(labels) \in Seq(Seq(STRING)) /\ Len(Front(labels)) = Len(labels) - 1
        /\ \A i \in 1 .. Len(labels) - 1 : Front(labels)[i] = labels[i]
    <3>1. PICK n : n = Len(labels) - 1
      OBVIOUS
    <3>2. n \in Int /\ 1 <= n /\ n - 1 + 1 = n
      BY <1>1, <1>2, <3>1
    <3> QED
      BY <2>1, <3>1, <3>2, SubSeqProperties DEF Front
  <2>3. DOMAIN Front(labels) = 1 .. Len(labels) - 1
    BY <2>2, LenProperties
  <2> QED
    BY <1>1, <1>2, <2>2, <2>3 DEF NonTld
<1>3. CASE ~(Len(labels) > 1)
  BY <1>3 DEF NonTld, Labels
<1> QED
  BY <1>2, <1>3

\* What is counted of words is a number.
LEMMA LegitIs ==
    ASSUME NEW l \in Seq(STRING)
    PROVE  LegitSubsequences(l) \in Nat
<1> DEFINE count == [s \in 1 .. Len(l) |->
                        LET at == Walk(l, s)
                        IN  Cardinality({k \in s .. Len(l) : at[k] \in IsEnd})]
<1>1. Len(l) \in Nat /\ IsFiniteSet(1 .. Len(l))
  BY LenProperties, FS_Interval
<1>2. ASSUME NEW s \in 1 .. Len(l) PROVE count[s] \in Nat
  <2>1. PICK T : T = {k \in s .. Len(l) : Walk(l, s)[k] \in IsEnd}
    OBVIOUS
  <2>2. count[s] = Cardinality(T)
    BY <2>1
  <2>3. T \subseteq 1 .. Len(l)
    BY <2>1
  <2> QED
    BY <1>1, <2>2, <2>3, FS_Subset, FS_CardinalityType
<1>3. DOMAIN count = 1 .. Len(l)
  OBVIOUS
<1>4. LegitSubsequences(l) = SumFunctionOnSet(count, 1 .. Len(l))
  BY <1>3 DEF LegitSubsequences, SumFunction
<1> HIDE DEF count
<1> QED
  BY <1>1, <1>2, <1>4, SumNat

\* So is what is counted of the words of a name.
LEMMA WordMatchesIs ==
    ASSUME NEW d \in Domain
    PROVE  WordMatches[d] \in Nat
<1>1. PICK labels : labels = NonTld(SplitLabels(Text[d]))
  OBVIOUS
<1>2. labels \in Seq(Seq(STRING))
  BY <1>1, ScorerAssumption, SplitIs, NonTldIs
<1>3. Len(labels) \in Nat /\ DOMAIN labels = 1 .. Len(labels) /\ IsFiniteSet(DOMAIN labels)
  BY <1>2, LenProperties, FS_Interval
<1> DEFINE f == [k \in DOMAIN labels |-> LegitSubsequences(labels[k])]
<1>4. \A k \in DOMAIN labels : f[k] \in Nat
  BY <1>2, <1>3, ElementOfSeq, LegitIs
<1>5. WordMatches[d] = SumFunctionOnSet(f, DOMAIN labels)
  <2>1. WordMatches[d] = SumFunction(f)
    BY <1>1 DEF WordMatches
  <2>2. DOMAIN f = DOMAIN labels
    OBVIOUS
  <2> QED
    BY <2>1, <2>2 DEF SumFunction
<1> HIDE DEF f
<1> QED
  BY <1>3, <1>4, <1>5, SumNat

-----------------------------------------------------------------------------
(***************************************************************************)
(* Scores.                                                                  *)
(***************************************************************************)
ShapeCheck == {"toomany", "variance", "symbols", "flatten", "hyphens"}

\* The weights are natural numbers ...
LEMMA WeightIs ==
    /\ DOMAIN Weight = LabelCheck \cup ShapeCheck
    /\ \A c \in DOMAIN Weight : Weight[c] \in 10 .. 20
    /\ Weight["entropy"] = 20 /\ Weight["consonant"] = 15
    /\ Weight["vowel"] = 15 /\ Weight["digit"] = 15
BY DEF Weight, LabelCheck, ShapeCheck

\* ... of finitely many checks.
LEMMA ChecksAreFinite ==
    IsFiniteSet(DOMAIN Weight) /\ IsFiniteSet(LabelCheck)
<1>1. ASSUME NEW a, NEW b, NEW c, NEW d PROVE IsFiniteSet({a, b, c, d})
  <2>1. IsFiniteSet({a} \cup {b})
    BY FS_Singleton, FS_Union, Zenon
  <2>2. IsFiniteSet(({a} \cup {b}) \cup {c})
    BY <2>1, FS_Singleton, FS_Union, Zenon
  <2>3. IsFiniteSet((({a} \cup {b}) \cup {c}) \cup {d})
    BY <2>2, FS_Singleton, FS_Union, Zenon
  <2>4. (({a} \cup {b}) \cup {c}) \cup {d} = {a, b, c, d}
    OBVIOUS
  <2> QED
    BY <2>3, <2>4, Zenon
<1>2. IsFiniteSet(LabelCheck)
  BY <1>1 DEF LabelCheck
<1>3. IsFiniteSet(ShapeCheck)
  <2>1. IsFiniteSet({"toomany", "variance", "symbols", "flatten"} \cup {"hyphens"})
    BY <1>1, FS_Singleton, FS_Union, Zenon
  <2>2. ShapeCheck = {"toomany", "variance", "symbols", "flatten"} \cup {"hyphens"}
    BY DEF ShapeCheck
  <2> QED
    BY <2>1, <2>2
<1> QED
  BY <1>2, <1>3, WeightIs, FS_Union

\* Only checks with a weight fire.
LEMMA FiredIs ==
    ASSUME NEW d \in Domain
    PROVE  Fired[d] \in SUBSET DOMAIN Weight
<1>1. \A l : LabelFires(l) \subseteq LabelCheck
  BY DEF LabelFires
<1>2. \A t, labels : ShapeFires(t, labels) \subseteq DOMAIN Weight
  BY DEF ShapeFires
<1>3. LabelCheck \subseteq DOMAIN Weight
  BY WeightIs
<1>4. ASSUME NEW x \in Fired[d]
      PROVE  \/ \E l : x \in LabelFires(l)
             \/ \E t, labels : x \in ShapeFires(t, labels)
  <2>1. PICK labels : labels = SplitLabels(Text[d])
    OBVIOUS
  <2>2. Fired[d] = (UNION {LabelFires(l) : l \in ToSet(NonTld(labels))})
                     \cup ShapeFires(Text[d], labels)
    BY <2>1 DEF Fired
  <2>3. \/ x \in UNION {LabelFires(l) : l \in ToSet(NonTld(labels))}
        \/ x \in ShapeFires(Text[d], labels)
    BY <1>4, <2>2, Zenon
  <2>4. ASSUME x \in UNION {LabelFires(l) : l \in ToSet(NonTld(labels))}
        PROVE  \E l : x \in LabelFires(l)
    BY <2>4, Zenon
  <2> QED
    BY <2>3, <2>4, Zenon
<1> QED
  BY <1>1, <1>2, <1>3, <1>4

\* What signals weigh: at most 20 each.
LEMMA WeightOf ==
    ASSUME NEW T \in SUBSET DOMAIN Weight
    PROVE  /\ SumFunctionOnSet(Weight, T) \in Nat /\ Cardinality(T) \in Nat
           /\ SumFunctionOnSet(Weight, T) <= 20 * Cardinality(T)
<1> DEFINE W == DOMAIN Weight
           S(U) == SumFunctionOnSet(Weight, U)
           F == {U \in SUBSET W : S(U) \in Nat /\ S(U) <= 20 * Cardinality(U)}
<1>1. /\ S({}) = 0
      /\ \A U \in SUBSET W : S(U) \in Int /\ \A x \in U : S(U) = Weight[x] + S(U \ {x})
  <2>1. \A x \in W : Weight[x] \in Int
    BY WeightIs
  <2> QED
    BY <2>1, ChecksAreFinite, SumOf
<1>2. \A U \in SUBSET W : IsFiniteSet(U) /\ Cardinality(U) \in Nat
  BY ChecksAreFinite, FS_Subset, FS_CardinalityType
<1>3. {} \in F
  BY <1>1, FS_EmptySet
<1>4. ASSUME NEW U \in SUBSET W, NEW x \in W \ U, U \in F PROVE U \cup {x} \in F
  <2>1. PICK V : V = U \cup {x}
    OBVIOUS
  <2>2. V \in SUBSET W /\ x \in V /\ V \ {x} = U
    BY <2>1
  <2>3. S(V) = Weight[x] + S(U)
    BY <1>1, <2>2
  <2>4. Cardinality(V) = Cardinality(U) + 1
    BY <1>2, <2>1, FS_AddElement
  <2> QED
    BY <1>2, <1>4, <2>1, <2>2, <2>3, <2>4, WeightIs
<1> HIDE DEF F
<1>5. T \in F
  BY <1>3, <1>4, ChecksAreFinite, SetInduction
<1> QED
  BY <1>2, <1>5 DEF F

\* Without a signal about the shape of the name it takes all four about labels
\* to weigh 65.
LEMMA LabelChecksWeigh ==
    ASSUME NEW T \in SUBSET LabelCheck
    PROVE  /\ SumFunctionOnSet(Weight, T) <= 65
           /\ SumFunctionOnSet(Weight, T) > 60 => T = LabelCheck
<1> DEFINE S(U) == SumFunctionOnSet(Weight, U)
           In(c, n) == IF c \in T THEN n ELSE 0
<1>1. /\ S({}) = 0
      /\ \A U \in SUBSET DOMAIN Weight :
            S(U) \in Int /\ \A x \in U : S(U) = Weight[x] + S(U \ {x})
  <2>1. \A x \in DOMAIN Weight : Weight[x] \in Int
    BY WeightIs
  <2> QED
    BY <2>1, ChecksAreFinite, SumOf
<1>2. PICK T1, T2, T3, T4 : /\ T1 = T \ {"entropy"} /\ T2 = T1 \ {"consonant"}
                            /\ T3 = T2 \ {"vowel"} /\ T4 = T3 \ {"digit"}
  OBVIOUS
<1>3. T4 = {}
  BY <1>2 DEF LabelCheck
<1> HIDE DEF S
<1>4. ASSUME NEW U \in SUBSET LabelCheck, NEW x
      PROVE  S(U) \in Int /\ S(U) = (IF x \in U THEN Weight[x] ELSE 0) + S(U \ {x})
  <2>1. U \in SUBSET DOMAIN Weight
    BY WeightIs
  <2>2. x \notin U => U \ {x} = U
    OBVIOUS
  <2> QED
    BY <1>1, <2>1, <2>2
<1>5. S(T) = In("entropy", 20) + S(T1) /\ S(T1) \in Int
  BY <1>2, <1>4, WeightIs
<1>6. S(T1) = In("consonant", 15) + S(T2) /\ S(T2) \in Int
  <2>1. "consonant" \in T1 <=> "consonant" \in T
    BY <1>2
  <2> QED
    BY <1>2, <1>4, <2>1, WeightIs, SMTT(30)
<1>7. S(T2) = In("vowel", 15) + S(T3) /\ S(T3) \in Int
  <2>1. "vowel" \in T2 <=> "vowel" \in T
    BY <1>2
  <2> QED
    BY <1>2, <1>4, <2>1, WeightIs, SMTT(30)
<1>8. S(T3) = In("digit", 15)
  <2>1. "digit" \in T3 <=> "digit" \in T
    BY <1>2
  <2>2. S(T3) = (IF "digit" \in T3 THEN Weight["digit"] ELSE 0) + S(T4)
    <3>1. T3 \in SUBSET LabelCheck /\ T4 = T3 \ {"digit"}
      BY <1>2
    <3> QED
      BY <1>4, <3>1, Zenon
  <2>3. S(T4) = 0
    BY <1>1, <1>3, Zenon
  <2>4. Weight["digit"] = 15
    BY WeightIs
  <2>5. ("digit" \in T3 => S(T3) = 15 + 0) /\ ("digit" \notin T3 => S(T3) = 0 + 0)
    BY <2>2, <2>3, <2>4, Zenon
  <2> QED
    BY <2>1, <2>5
<1>9. S(T) = In("entropy", 20) + In("consonant", 15) + In("vowel", 15) + In("digit", 15)
  BY <1>5, <1>6, <1>7, <1>8
<1>10. S(T) > 60 => /\ "entropy" \in T /\ "consonant" \in T /\ "vowel" \in T /\ "digit" \in T
  BY <1>9
<1>11. S(T) > 60 => T = LabelCheck
  BY <1>10 DEF LabelCheck
<1> QED
  BY <1>9, <1>11 DEF S

\* What the words take off.
LEMMA TakenOff ==
    ASSUME NEW n \in Nat
    PROVE  Min2(n, 2) \in 0 .. 2 /\ (n > 0 => Min2(n, 2) > 0) /\ (Min2(n, 2) = 1 => n = 1)
BY DEF Min2

\* A score lies in 0 .. 100.
LEMMA ScoreIs ==
    ASSUME NEW d \in Domain, WordMatches[d] \in Nat
    PROVE  /\ Sum(d) \in Int /\ Score[d] \in 0 .. 100
           /\ Score[d] >= 50 => Sum(d) >= 50
<1>1. SumFunctionOnSet(Weight, Fired[d]) \in Nat
  BY FiredIs, WeightOf
<1>2. Sum(d) \in Int
  BY <1>1, TakenOff DEF Sum
<1>3. Score[d] = Max2(0, Min2(100, Sum(d)))
  BY DEF Score, Clamped
<1> QED
  BY <1>2, <1>3 DEF Max2, Min2

\* A name whose score crosses the threshold has three signals, and with a word
\* four, one of them about its shape.
LEMMA CrossedOnEvidence ==
    ASSUME NEW d \in Domain, WordMatches[d] \in Nat, CrossesThreshold(d)
    PROVE  /\ Cardinality(Fired[d]) >= 3
           /\ WordMatches[d] > 0 => Cardinality(Fired[d]) >= 4
           /\ WordMatches[d] > 0 => Fired[d] \ LabelCheck # {}
<1> DEFINE T == Fired[d]
           S == SumFunctionOnSet(Weight, T)
           off == Min2(WordMatches[d], 2)
<1>1. S \in Nat /\ Cardinality(T) \in Nat /\ S <= 20 * Cardinality(T)
  BY FiredIs, WeightOf
<1>2. off \in 0 .. 2 /\ (WordMatches[d] > 0 => off > 0) /\ (off = 1 => WordMatches[d] = 1)
  BY TakenOff
<1>3. S - 15 * off >= 50
  BY ScoreIs DEF CrossesThreshold, Sum
<1>4. ~(T = LabelCheck /\ WordMatches[d] = 1)
  BY DEF CrossesThreshold, FallsShort
<1>5. ASSUME WordMatches[d] > 0, T \in SUBSET LabelCheck PROVE FALSE
  <2>1. S <= 65 /\ (S > 60 => T = LabelCheck)
    BY <1>5, LabelChecksWeigh
  <2> HIDE DEF S, off, T
  <2>2. off = 1 /\ S > 60
    BY <1>1, <1>2, <1>3, <1>5, <2>1
  <2> QED
    BY <1>2, <1>4, <2>1, <2>2
<1> HIDE DEF S, off
<1>6. Cardinality(T) >= 3
  BY <1>1, <1>2, <1>3
<1>7. WordMatches[d] > 0 => Cardinality(T) >= 4
  BY <1>1, <1>2, <1>3
<1>8. WordMatches[d] > 0 => T \ LabelCheck # {}
  BY <1>5
<1> QED
  BY <1>6, <1>7, <1>8

-----------------------------------------------------------------------------
(***************************************************************************)
(* The workers.                                                             *)
(***************************************************************************)
\* Each worker is where the score of its name lets it be.
WorkInv ==
    /\ pc \in [Worker -> {"idle", "count", "bucket", "flag", "review", "learn"}]
    /\ job \in [Worker -> Domain]
    /\ score \in [Worker -> 0 .. 100]
    /\ known \subseteq Domain /\ unlearned \subseteq Domain
    /\ \A w \in Worker : pc[w] \in {"flag", "review"} => CrossesThreshold(job[w])

LEMMA WorkInit == Init => WorkInv
<1> SUFFICES ASSUME Init PROVE WorkInv
  OBVIOUS
<1>1. PICK d \in Domain : d = CHOOSE e \in Domain : TRUE
  BY ScorerAssumption
<1> QED
  BY <1>1 DEF Init, WorkInv

LEMMA WorkStep == WorkInv /\ [Next]_vars => WorkInv'
<1> SUFFICES ASSUME WorkInv, [Next]_vars PROVE WorkInv'
  OBVIOUS
<1> USE DEF WorkInv
<1>1. ASSUME NEW w \in Worker, NEW d \in Domain, Take(w, d) PROVE WorkInv'
  <2>1. Score[d] \in 0 .. 100
    BY WordMatchesIs, ScoreIs
  <2> QED
    BY <1>1, <2>1 DEF Take, Goto
<1>2. ASSUME NEW w \in Worker, CountScored(w) PROVE WorkInv'
  BY <1>2 DEF CountScored, Goto
<1>3. ASSUME NEW w \in Worker, CountBucket(w) PROVE WorkInv'
  BY <1>3 DEF CountBucket, Goto
<1>4. ASSUME NEW w \in Worker, CountFlagged(w) PROVE WorkInv'
  BY <1>4 DEF CountFlagged, Goto
<1>5. ASSUME NEW w \in Worker, Review(w) PROVE WorkInv'
  BY <1>5 DEF Review, Goto
<1>6. ASSUME NEW w \in Worker, Learn(w) PROVE WorkInv'
  BY <1>6 DEF Learn, Goto
<1>7. CASE UNCHANGED vars
  BY <1>7 DEF vars, counters
<1>8. CASE Reload
  BY <1>8 DEF Reload
<1> QED
  BY <1>1, <1>2, <1>3, <1>4, <1>5, <1>6, <1>7, <1>8 DEF Next

\* It takes three signals to flag a name, and four when it matches a word
\* (count_legit_subsequences, compute_heuristic_score): whatever the names and
\* however many the workers.
THEOREM FlaggedOnEvidenceHolds == Spec => []FlaggedOnEvidence
<1>1. WorkInv => FlaggedOnEvidence
  <2> SUFFICES ASSUME WorkInv, NEW w \in Worker, pc[w] \in {"flag", "review"}
               PROVE  /\ Cardinality(Fired[job[w]]) >= 3
                      /\ WordMatches[job[w]] > 0 => Cardinality(Fired[job[w]]) >= 4
                      /\ WordMatches[job[w]] > 0 => Fired[job[w]] \ LabelCheck # {}
    BY DEF FlaggedOnEvidence, Busy
  <2>1. job[w] \in Domain /\ CrossesThreshold(job[w])
    BY DEF WorkInv
  <2> QED
    BY <2>1, WordMatchesIs, CrossedOnEvidence
<1> QED
  BY <1>1, WorkInit, WorkStep, PTL DEF Spec

(***************************************************************************)
(* The counters, in step with the workers that are between two of them.     *)
(***************************************************************************)
At(p) == {w \in Worker : pc[w] = p}
With(d) == {w \in Worker : pc[w] # "idle" /\ job[w] = d}

CountInv ==
    /\ times \in [Domain -> Nat] /\ SumFunctionOnSet(times, Domain) <= MaxScored
    /\ total \in Nat /\ histogram \in Nat /\ flagged \in Nat /\ rows \in Nat
    /\ total + Cardinality(At("count")) = SumFunctionOnSet(times, Domain)
    /\ histogram + Cardinality(At("bucket")) = total
    /\ flagged + Cardinality(At("flag")) <= histogram
    /\ rows + Cardinality(At("review")) <= flagged

\* What the trees before this one account for.
Earlier == Cardinality(Worker) * reloads

\* Until a name has its entry in the tree, those who scored it since the last
\* reload still hold it.
RaceInv ==
    /\ reloads \in 0 .. MaxReloads
    /\ \A d \in Domain \ (Root \cup unlearned) :
         /\ times[d] <= Earlier + Cardinality(Worker)
         /\ d \notin known => times[d] <= Earlier + Cardinality(With(d))

\* A reload opens another account.
LEMMA Accounts ==
    ASSUME NEW n \in Nat, NEW r \in Nat
    PROVE  n * r \in Nat /\ n * (r + 1) = n * r + n /\ n * (1 + r) = n * r + n
OBVIOUS

ScoringInv == WorkInv /\ CountInv /\ RaceInv

\* Workers at a place, or with a name, can be counted.
LEMMA WorkersCount ==
    ASSUME NEW S, S \subseteq Worker
    PROVE  IsFiniteSet(S) /\ Cardinality(S) \in Nat /\ Cardinality(S) <= Cardinality(Worker)
BY ScorerAssumption, FS_Subset, FS_CardinalityType

\* A worker that moves from p to q.
LEMMA Moves ==
    ASSUME pc \in [Worker -> {"idle", "count", "bucket", "flag", "review", "learn"}],
           NEW w \in Worker, NEW p, NEW q, pc[w] = p, p # q, Goto(w, q)
    PROVE  /\ Cardinality(At(p)') = Cardinality(At(p)) - 1
           /\ Cardinality(At(q)') = Cardinality(At(q)) + 1
           /\ \A r : r # p /\ r # q => At(r)' = At(r)
<1>1. \A r : IsFiniteSet(At(r))
  BY WorkersCount DEF At
<1>2. \A v \in Worker : pc'[v] = IF v = w THEN q ELSE pc[v]
  BY DEF Goto
<1>3. At(p)' = At(p) \ {w} /\ w \in At(p)
  BY <1>2 DEF At
<1>4. At(q)' = At(q) \cup {w} /\ w \notin At(q)
  BY <1>2 DEF At
<1>5. \A r : r # p /\ r # q => At(r)' = At(r)
  BY <1>2 DEF At
<1> HIDE DEF At
<1>6. Cardinality(At(p)') = Cardinality(At(p)) - 1
  BY <1>1, <1>3, FS_RemoveElement
<1>7. Cardinality(At(q)') = Cardinality(At(q)) + 1
  BY <1>1, <1>4, FS_AddElement
<1> QED
  BY <1>5, <1>6, <1>7

LEMMA CountInit == Init => CountInv
<1> SUFFICES ASSUME Init PROVE CountInv
  OBVIOUS
<1>1. \A p : p # "idle" => Cardinality(At(p)) = 0
  <2>1. \A p : p # "idle" => At(p) = {}
    BY DEF Init, At
  <2> QED
    BY <2>1, FS_EmptySet
<1>2. SumFunctionOnSet(times, Domain) = 0
  <2> DEFINE F == {T \in SUBSET Domain : SumFunctionOnSet(times, T) = 0}
             s(T) == SumFunctionOnSet(times, T)
  <2>1. \A d \in Domain : times[d] = 0 /\ times[d] \in Int
    BY DEF Init
  <2>2. /\ s({}) = 0
        /\ \A T \in SUBSET Domain : s(T) \in Int /\ \A x \in T : s(T) = times[x] + s(T \ {x})
    <3>1. IsFiniteSet(Domain) /\ \A x \in Domain : times[x] \in Int
      BY <2>1, ScorerAssumption
    <3> QED
      BY <3>1, SumOf, Zenon
  <2>3. ASSUME NEW T \in SUBSET Domain, NEW x \in Domain \ T, T \in F PROVE T \cup {x} \in F
    <3>1. PICK U : U = T \cup {x}
      OBVIOUS
    <3>2. U \in SUBSET Domain /\ x \in U /\ U \ {x} = T
      BY <3>1
    <3>3. s(U) = times[x] + s(T)
      BY <2>2, <3>2
    <3> QED
      BY <2>1, <2>3, <3>1, <3>2, <3>3
  <2>4. {} \in F
    BY <2>2
  <2> HIDE DEF F
  <2>5. Domain \in F
    BY <2>3, <2>4, ScorerAssumption, SetInduction
  <2> QED
    BY <2>5 DEF F
<1>3. times \in [Domain -> Nat] /\ total = 0 /\ histogram = 0 /\ flagged = 0 /\ rows = 0
  BY DEF Init
<1>4. /\ Cardinality(At("count")) = 0 /\ Cardinality(At("bucket")) = 0
      /\ Cardinality(At("flag")) = 0 /\ Cardinality(At("review")) = 0
  BY <1>1
<1>5. /\ total + Cardinality(At("count")) = 0 /\ histogram + Cardinality(At("bucket")) = 0
      /\ flagged + Cardinality(At("flag")) <= 0 /\ rows + Cardinality(At("review")) <= 0
  BY <1>3, <1>4
<1>6. 0 <= MaxScored /\ 0 \in Nat
  BY ScorerAssumption
<1> QED
  BY <1>2, <1>3, <1>5, <1>6, Zenon DEF CountInv

LEMMA CountStep == WorkInv /\ CountInv /\ [Next]_vars => CountInv'
<1> SUFFICES ASSUME WorkInv, CountInv, [Next]_vars PROVE CountInv'
  OBVIOUS
<1> DEFINE n(p) == Cardinality(At(p))
           sum == SumFunctionOnSet(times, Domain)
           Agree == /\ total \in Nat /\ histogram \in Nat /\ flagged \in Nat /\ rows \in Nat
                    /\ total + n("count") = sum /\ histogram + n("bucket") = total
                    /\ flagged + n("flag") <= histogram /\ rows + n("review") <= flagged
<1>1. times \in [Domain -> Nat] /\ sum \in Nat /\ sum <= MaxScored
  <2>1. \A x \in Domain : times[x] \in Nat
    BY DEF CountInv
  <2>2. sum \in Nat
    BY <2>1, ScorerAssumption, SumNat
  <2> QED
    BY <2>2 DEF CountInv
<1>2. Agree
  BY DEF CountInv
<1>3. \A p : n(p) \in Nat /\ n(p)' \in Nat
  <2>1. \A p : n(p) \in Nat
    BY WorkersCount DEF At
  <2>2. ASSUME NEW p PROVE n(p)' \in Nat
    <3>1. PICK T : T = At(p)'
      OBVIOUS
    <3>2. T \subseteq Worker
      BY <3>1 DEF At
    <3> QED
      BY <3>1, <3>2, WorkersCount
  <2> QED
    BY <2>1, <2>2
<1>4. ASSUME NEW w \in Worker, NEW p, NEW q, pc[w] = p, p # q, Goto(w, q)
      PROVE  /\ n(p)' = n(p) - 1 /\ n(q)' = n(q) + 1
             /\ \A r : r # p /\ r # q => n(r)' = n(r)
  BY <1>4, Moves DEF WorkInv
<1>5. times' = times => sum' = sum
  OBVIOUS
<1>6. pc' = pc => \A p : n(p)' = n(p)
  BY DEF At
<1>7. times' \in [Domain -> Nat] /\ sum' <= MaxScored /\ Agree' => CountInv'
  BY DEF CountInv
<1> HIDE DEF n, sum
<1>8. ASSUME NEW w \in Worker, NEW d \in Domain, Take(w, d) PROVE CountInv'
  <2>1. times' = [times EXCEPT ![d] = @ + 1] /\ sum < MaxScored
    <3>1. SumFunction(times) = sum
      BY <1>1 DEF SumFunction, sum
    <3> QED
      BY <1>8, <3>1 DEF Take
  <2>2. times' \in [Domain -> Nat] /\ times'[d] = times[d] + 1
        /\ \A x \in Domain \ {d} : times'[x] = times[x]
    BY <1>1, <2>1
  <2>3. sum' = sum + 1
    <3>1. \A x \in Domain : times[x] \in Int
      BY <1>1
    <3>2. PICK t : t = times'
      OBVIOUS
    <3>3. t[d] = times[d] + 1 /\ \A x \in Domain \ {d} : t[x] = times[x]
      BY <2>2, <3>2
    <3>4. SumFunctionOnSet(t, Domain) = SumFunctionOnSet(times, Domain) + 1
      BY <3>1, <3>3, ScorerAssumption, SumOneMore
    <3> QED
      BY <3>2, <3>4 DEF sum
  <2>4. n("count")' = n("count") + 1 /\ \A r : r # "idle" /\ r # "count" => n(r)' = n(r)
    BY <1>4, <1>8 DEF Take
  <2>5. UNCHANGED counters
    BY <1>8 DEF Take
  <2>6. Agree'
    BY <1>1, <1>2, <1>3, <2>3, <2>4, <2>5 DEF counters
  <2> QED
    BY <1>1, <1>7, <2>1, <2>2, <2>3, <2>6, ScorerAssumption
<1>9. ASSUME NEW w \in Worker, CountScored(w) PROVE CountInv'
  <2>1. /\ n("count")' = n("count") - 1 /\ n("bucket")' = n("bucket") + 1
        /\ n("flag")' = n("flag") /\ n("review")' = n("review")
    BY <1>4, <1>9 DEF CountScored
  <2> QED
    BY <1>1, <1>2, <1>3, <1>5, <1>7, <1>9, <2>1 DEF CountScored
<1>10. ASSUME NEW w \in Worker, CountBucket(w) PROVE CountInv'
  <2>1. CASE CrossesThreshold(job[w])
    <3>1. /\ n("bucket")' = n("bucket") - 1 /\ n("flag")' = n("flag") + 1
          /\ n("count")' = n("count") /\ n("review")' = n("review")
      BY <1>4, <1>10, <2>1 DEF CountBucket
    <3> QED
      BY <1>1, <1>2, <1>3, <1>5, <1>7, <1>10, <3>1 DEF CountBucket
  <2>2. CASE ~CrossesThreshold(job[w])
    <3>1. /\ n("bucket")' = n("bucket") - 1 /\ n("flag")' = n("flag")
          /\ n("count")' = n("count") /\ n("review")' = n("review")
      BY <1>4, <1>10, <2>2 DEF CountBucket
    <3> QED
      BY <1>1, <1>2, <1>3, <1>5, <1>7, <1>10, <3>1 DEF CountBucket
  <2> QED
    BY <2>1, <2>2
<1>11. ASSUME NEW w \in Worker, CountFlagged(w) PROVE CountInv'
  <2>1. /\ n("flag")' = n("flag") - 1 /\ n("review")' = n("review") + 1
        /\ n("count")' = n("count") /\ n("bucket")' = n("bucket")
    BY <1>4, <1>11 DEF CountFlagged
  <2> QED
    BY <1>1, <1>2, <1>3, <1>5, <1>7, <1>11, <2>1 DEF CountFlagged
<1>12. ASSUME NEW w \in Worker, Review(w) PROVE CountInv'
  <2>1. /\ n("review")' = n("review") - 1 /\ n("flag")' = n("flag")
        /\ n("count")' = n("count") /\ n("bucket")' = n("bucket")
    BY <1>4, <1>12 DEF Review
  <2> QED
    BY <1>1, <1>2, <1>3, <1>5, <1>7, <1>12, <2>1 DEF Review
<1>13. ASSUME NEW w \in Worker, Learn(w) PROVE CountInv'
  <2>1. /\ n("review")' = n("review") /\ n("flag")' = n("flag")
        /\ n("count")' = n("count") /\ n("bucket")' = n("bucket")
    BY <1>4, <1>13 DEF Learn
  <2> QED
    BY <1>1, <1>2, <1>3, <1>5, <1>7, <1>13, <2>1 DEF Learn, counters
<1>14. CASE UNCHANGED vars
  BY <1>1, <1>2, <1>5, <1>6, <1>7, <1>14 DEF vars, counters
<1>15. CASE Reload
  BY <1>1, <1>2, <1>5, <1>6, <1>7, <1>15 DEF Reload, counters
<1> QED
  BY <1>8, <1>9, <1>10, <1>11, <1>12, <1>13, <1>14, <1>15 DEF Next

LEMMA RaceInit == Init => RaceInv
<1> SUFFICES ASSUME Init PROVE RaceInv
  OBVIOUS
<1>1. Cardinality(Worker) \in Nat
  BY WorkersCount
<1>2. \A d \in Domain : With(d) = {}
  BY DEF Init, With
<1>3. Cardinality({}) = 0
  BY FS_EmptySet
<1>4. reloads = 0 /\ \A d \in Domain : times[d] = 0
  BY DEF Init
<1>5. Earlier = 0 /\ reloads \in 0 .. MaxReloads
  BY <1>1, <1>4, ScorerAssumption DEF Earlier
<1>6. \A d \in Domain : /\ times[d] <= Earlier + Cardinality(Worker)
                        /\ times[d] <= Earlier + Cardinality(With(d))
  BY <1>1, <1>2, <1>3, <1>4, <1>5
<1> QED
  BY <1>5, <1>6 DEF RaceInv

LEMMA RaceStep == WorkInv /\ CountInv /\ RaceInv /\ [Next]_vars => RaceInv'
<1> SUFFICES ASSUME WorkInv, CountInv, RaceInv, [Next]_vars PROVE RaceInv'
  OBVIOUS
<1>1. \A d : IsFiniteSet(With(d)) /\ Cardinality(With(d)) \in Nat
  BY WorkersCount DEF With
<1>2. /\ pc \in [Worker -> {"idle", "count", "bucket", "flag", "review", "learn"}]
      /\ job \in [Worker -> Domain]
  BY DEF WorkInv
<1>a. /\ Earlier \in Nat /\ reloads \in Nat /\ Cardinality(Worker) \in Nat
      /\ (reloads' = reloads => Earlier' = Earlier)
      /\ (reloads' = reloads + 1 => Earlier' = Earlier + Cardinality(Worker))
  <2>1. reloads \in Nat /\ Cardinality(Worker) \in Nat
    BY WorkersCount DEF RaceInv
  <2> QED
    BY <2>1, Accounts DEF Earlier
\* A worker that moves on but keeps its name changes nothing here.
<1>3. ASSUME NEW w \in Worker, NEW q, q # "idle", pc[w] # "idle", Goto(w, q),
             UNCHANGED <<job, known, unlearned, reloads, times>>
      PROVE  RaceInv'
  <2>1. \A d : With(d)' = With(d)
    BY <1>2, <1>3 DEF With, Goto
  <2> QED
    BY <1>3, <1>a, <2>1 DEF RaceInv
<1>4. ASSUME NEW w \in Worker, NEW d \in Domain, Take(w, d) PROVE RaceInv'
  <2>1. /\ d \notin known /\ pc[w] = "idle" /\ times' = [times EXCEPT ![d] = @ + 1]
        /\ UNCHANGED <<known, unlearned, reloads>>
        /\ pc' = [pc EXCEPT ![w] = "count"] /\ job' = [job EXCEPT ![w] = d]
    <3>1. d \in Above[d]
      BY DEF Above
    <3> QED
      BY <1>4, <3>1 DEF Take, Goto
  <2>2. With(d)' = With(d) \cup {w} /\ w \notin With(d)
    BY <1>2, <2>1 DEF With
  <2>3. \A e \in Domain \ {d} : With(e)' = With(e) /\ times'[e] = times[e]
    BY <1>2, <2>1 DEF With, CountInv
  <2>4. PICK T : T = With(d)'
    OBVIOUS
  <2>5. Cardinality(T) = Cardinality(With(d)) + 1 /\ Cardinality(T) <= Cardinality(Worker)
    <3>1. T \subseteq Worker
      BY <2>4 DEF With
    <3>2. T = With(d) \cup {w}
      BY <2>2, <2>4
    <3> QED
      BY <1>1, <2>2, <3>1, <3>2, FS_AddElement, WorkersCount
  <2>6. times[d] \in Nat /\ times'[d] = times[d] + 1
    BY <2>1 DEF CountInv
  <2>7. Cardinality(Worker) \in Nat
    BY WorkersCount
  <2>8. ASSUME NEW e \in Domain \ (Root \cup unlearned)
        PROVE  /\ times'[e] <= Earlier' + Cardinality(Worker)
               /\ e \notin known => times'[e] <= Earlier' + Cardinality(With(e)')
    <3>1. CASE e = d
      <4>1. times[d] <= Earlier + Cardinality(With(d))
        BY <2>1, <2>8, <3>1 DEF RaceInv
      <4> QED
        BY <1>1, <1>a, <2>1, <2>4, <2>5, <2>6, <2>7, <3>1, <4>1
    <3>2. CASE e # d
      BY <1>a, <2>1, <2>3, <2>8, <3>2 DEF RaceInv
    <3> QED
      BY <3>1, <3>2
  <2> QED
    BY <1>a, <2>1, <2>8 DEF RaceInv
<1>5. ASSUME NEW w \in Worker, CountScored(w) PROVE RaceInv'
  BY <1>3, <1>5 DEF CountScored
<1>6. ASSUME NEW w \in Worker, CountBucket(w) PROVE RaceInv'
  <2>1. PICK q : q # "idle" /\ Goto(w, q)
    BY <1>6 DEF CountBucket
  <2> QED
    BY <1>3, <1>6, <2>1 DEF CountBucket
<1>7. ASSUME NEW w \in Worker, CountFlagged(w) PROVE RaceInv'
  BY <1>3, <1>7 DEF CountFlagged
<1>8. ASSUME NEW w \in Worker, Review(w) PROVE RaceInv'
  BY <1>3, <1>8 DEF Review
<1>9. ASSUME NEW w \in Worker, Learn(w) PROVE RaceInv'
  <2>1. pc' = [pc EXCEPT ![w] = "idle"] /\ UNCHANGED <<job, reloads, times>>
    BY <1>9 DEF Learn, Goto
  <2>2. \A e : e # job[w] => With(e)' = With(e)
    BY <1>2, <2>1 DEF With
  <2>3. known \subseteq known' /\ unlearned \subseteq unlearned'
    BY <1>9 DEF Learn
  <2>4. ASSUME NEW e \in Domain \ (Root \cup unlearned')
        PROVE  /\ times'[e] <= Earlier' + Cardinality(Worker)
               /\ e \notin known' => times'[e] <= Earlier' + Cardinality(With(e)')
    <3>1. CASE e = job[w]
      <4>1. e \in known'
        BY <1>9, <2>4, <3>1 DEF Learn
      <4> QED
        BY <1>a, <2>1, <2>3, <2>4, <4>1 DEF RaceInv
    <3>2. CASE e # job[w]
      BY <1>a, <2>1, <2>2, <2>3, <2>4, <3>2 DEF RaceInv
    <3> QED
      BY <3>1, <3>2
  <2> QED
    BY <1>a, <2>1, <2>4 DEF RaceInv
<1>10. CASE UNCHANGED vars
  <2>1. \A d : With(d)' = With(d)
    BY <1>10 DEF With, vars
  <2> QED
    BY <1>10, <1>a, <2>1 DEF RaceInv, vars
<1>11. CASE Reload
  <2>1. /\ reloads' = reloads + 1 /\ reloads' \in 0 .. MaxReloads
        /\ UNCHANGED <<job, pc, times, unlearned>>
    BY <1>11, <1>a, ScorerAssumption DEF Reload
  <2>2. \A d : With(d)' = With(d)
    BY <2>1 DEF With
  <2>3. \A d \in Domain : times[d] \in Nat
    BY DEF CountInv
  <2> QED
    BY <1>1, <1>a, <2>1, <2>2, <2>3 DEF RaceInv
<1> QED
  BY <1>4, <1>5, <1>6, <1>7, <1>8, <1>9, <1>10, <1>11 DEF Next

LEMMA Scoring == Spec => []ScoringInv
<1>1. Init => ScoringInv
  BY WorkInit, CountInit, RaceInit DEF ScoringInv
<1>2. ScoringInv /\ [Next]_vars => ScoringInv'
  BY WorkStep, CountStep, RaceStep DEF ScoringInv
<1> QED
  BY <1>1, <1>2, PTL DEF Spec

\* The counters that main prints when the workers have stopped agree, and a name
\* whose entry was inserted has been scored once by each worker at most for each
\* tree that a reload has published (run_heuristics, process_request,
\* reload_thread_proc): for any number of workers, names and reloads.
THEOREM ScoringSoundHolds == Spec => []ScoringSound
<1>1. ScoringInv => ScoringSound
  <2> SUFFICES ASSUME ScoringInv PROVE ScoringSound
    OBVIOUS
  <2> DEFINE n(p) == Cardinality(At(p))
             sum == SumFunctionOnSet(times, Domain)
  <2>1. times \in [Domain -> Nat] /\ \A d \in Domain : times[d] <= sum
    <3>1. \A d \in Domain : times[d] \in Nat
      BY DEF ScoringInv, CountInv
    <3> QED
      BY <3>1, ScorerAssumption, SumNat DEF ScoringInv, CountInv
  <2>2. /\ total \in Nat /\ histogram \in Nat /\ flagged \in Nat /\ rows \in Nat
        /\ total + n("count") = sum /\ histogram + n("bucket") = total
        /\ flagged + n("flag") <= histogram /\ rows + n("review") <= flagged
        /\ sum <= MaxScored
    BY DEF ScoringInv, CountInv
  <2>3. n("count") \in Nat /\ n("bucket") \in Nat /\ n("flag") \in Nat /\ n("review") \in Nat
    BY WorkersCount DEF At
  <2>4. SumFunction(times) = sum
    BY <2>1 DEF SumFunction
  <2>5. Busy = {} => n("count") = 0 /\ n("bucket") = 0
    <3>1. Busy = {} => At("count") = {} /\ At("bucket") = {}
      BY DEF Busy, At
    <3> QED
      BY <3>1, FS_EmptySet
  <2> HIDE DEF n, sum
  <2>6. SummaryAgrees
    BY <2>2, <2>3, <2>4, <2>5 DEF SummaryAgrees
  <2>7. TypeOK
    <3>1. \A d \in Domain : times[d] \in 0 .. MaxScored
      <4>1. sum \in Nat /\ MaxScored \in Nat /\ sum <= MaxScored
        <5>1. MaxScored \in Nat
          BY ScorerAssumption
        <5>2. total + n("count") \in Nat
          BY <2>2, <2>3
        <5> QED
          BY <2>2, <5>1, <5>2, Zenon
      <4>2. ASSUME NEW d \in Domain PROVE times[d] \in 0 .. MaxScored
        <5>1. times[d] \in Nat /\ times[d] <= sum
          BY <2>1
        <5> QED
          BY <4>1, <5>1
      <4> QED
        BY <4>2
    <3>2. times \in [Domain -> 0 .. MaxScored]
      BY <2>1, <3>1
    <3>3. {total, histogram, flagged, rows} \subseteq 0 .. MaxScored
      <4>1. total <= sum /\ histogram <= total /\ flagged <= histogram /\ rows <= flagged
        BY <2>2, <2>3
      <4>2. sum <= MaxScored /\ sum \in Nat /\ MaxScored \in Nat
        <5>1. MaxScored \in Nat
          BY ScorerAssumption
        <5>2. total + n("count") \in Nat
          BY <2>2, <2>3
        <5> QED
          BY <2>2, <5>1, <5>2, Zenon
      <4>3. /\ total \in 0 .. MaxScored /\ histogram \in 0 .. MaxScored
            /\ flagged \in 0 .. MaxScored /\ rows \in 0 .. MaxScored
        BY <2>2, <4>1, <4>2
      <4> QED
        BY <4>3
    <3> QED
      BY <3>2, <3>3 DEF TypeOK, ScoringInv, WorkInv, RaceInv
  <2>8. OncePerTree
    <3>1. Earlier + Cardinality(Worker) = Cardinality(Worker) * (1 + reloads)
      <4>1. Cardinality(Worker) \in Nat /\ reloads \in Nat
        BY WorkersCount DEF ScoringInv, RaceInv
      <4> QED
        BY <4>1, Accounts DEF Earlier
    <3> QED
      BY <3>1 DEF OncePerTree, ScoringInv, RaceInv
  <2> QED
    BY <2>6, <2>7, <2>8 DEF ScoringSound
<1> QED
  BY <1>1, Scoring, PTL

-----------------------------------------------------------------------------
(***************************************************************************)
(* What the table of logarithms makes of a label.                           *)
(***************************************************************************)
Limit == 3670016    \* 3.5 bits

\* A line that runs below f * L_LOG2[f + 1] for every count f, ...
Below(A, B) == \A f \in 1 .. 62 : A * f <= f * L_LOG2[f + 1] + B

\* ... and, drawn for eleven different characters, still leaves an entropy of 3.5
\* at most to labels of lo to hi characters.
Chord(A, B, lo, hi) ==
    /\ Below(A, B)
    /\ \A n \in lo .. hi : n * (L_LOG2[n + 1] - Limit) + 11 * B <= A * n

\* The chords used, checked against the whole table.
LEMMA Chords ==
    /\ Chord(2097152, 2097152, 12, 23) /\ Chord(2888707, 3680262, 24, 37)
    /\ Chord(3402749, 5222388, 38, 50) /\ Chord(3784982, 6751320, 51, 62)
<1>1. Chord(2097152, 2097152, 12, 23)
  BY SMT DEF Chord, Below, Limit, L_LOG2
<1>2. Chord(2888707, 3680262, 24, 37)
  BY SMT DEF Chord, Below, Limit, L_LOG2
<1>3. Chord(3402749, 5222388, 38, 50)
  BY SMT DEF Chord, Below, Limit, L_LOG2
<1>4. Chord(3784982, 6751320, 51, 62)
  BY SMT DEF Chord, Below, Limit, L_LOG2
<1> QED
  BY <1>1, <1>2, <1>3, <1>4, SMT

\* The table holds natural numbers.
LEMMA LogarithmIs ==
    \A n \in 1 .. 63 : L_LOG2[n] \in Nat
BY SMT DEF L_LOG2

\* Where a label has the characters of T.
Places(l, T) == {k \in DOMAIN l : l[k] \in T}

\* Places of a label are finitely many.
LEMMA PlacesIs ==
    ASSUME NEW l \in Seq(STRING), NEW T
    PROVE  /\ IsFiniteSet(Places(l, T)) /\ Cardinality(Places(l, T)) \in Nat
           /\ Cardinality(Places(l, T)) <= Len(l)
           /\ ToSet(l) \subseteq T => Cardinality(Places(l, T)) = Len(l)
<1>1. DOMAIN l = 1 .. Len(l) /\ Len(l) \in Nat
  BY LenProperties
<1>2. IsFiniteSet(1 .. Len(l)) /\ Cardinality(1 .. Len(l)) = Len(l)
  <2>1. \A n \in Nat : IsFiniteSet(1 .. n) /\ Cardinality(1 .. n) = n
    BY FS_Interval
  <2> QED
    BY <1>1, <2>1, Zenon
<1>3. Places(l, T) \subseteq 1 .. Len(l)
  BY <1>1 DEF Places
<1>4. ToSet(l) \subseteq T => Places(l, T) = 1 .. Len(l)
  BY <1>1 DEF Places, ToSet
<1> QED
  BY <1>2, <1>3, <1>4, FS_Subset, FS_CardinalityType

\* Count as the number of places.
LEMMA CountIs ==
    ASSUME NEW l \in Seq(STRING), NEW c \in ToSet(l)
    PROVE  Count({c}, l) = Cardinality(Places(l, {c})) /\ Count({c}, l) \in 1 .. Len(l)
<1>1. Count({c}, l) = Cardinality(Places(l, {c}))
  BY DEF Count, Places
<1>2. Places(l, {c}) # {}
  BY DEF Places, ToSet
<1>3. Cardinality(Places(l, {c})) # 0
  BY <1>2, PlacesIs, FS_EmptySet
<1> QED
  BY <1>1, <1>3, PlacesIs, LenProperties

\* A label has finitely many different characters.
LEMMA LettersFinite ==
    ASSUME NEW l \in Seq(STRING)
    PROVE  IsFiniteSet(ToSet(l)) /\ Cardinality(ToSet(l)) \in Nat
<1>1. DOMAIN l = 1 .. Len(l) /\ Len(l) \in Nat /\ IsFiniteSet(DOMAIN l)
  BY LenProperties, FS_Interval
<1>2. l \in Surjection(DOMAIN l, ToSet(l))
  BY <1>1, ElementOfSeq DEF ToSet, Surjection
<1> QED
  BY <1>1, <1>2, FS_Surjection, FS_CardinalityType

LEMMA UpTo62 ==
    ASSUME NEW m \in Nat, m <= 62
    PROVE  1 .. m \subseteq 1 .. 62
OBVIOUS

LEMMA Natural == 1 .. 62 \subseteq Nat /\ Nat \subseteq Int
OBVIOUS

\* A character that occurs 62 times at most adds a natural number.
LEMMA TermIsNat ==
    ASSUME NEW f \in 1 .. 62
    PROVE  f * L_LOG2[f + 1] \in Nat
<1>1. f + 1 \in 1 .. 63
  OBVIOUS
<1>2. PICK x \in Nat : x = L_LOG2[f + 1]
  BY <1>1, LogarithmIs
<1>3. f * x \in Nat
  OBVIOUS
<1> QED
  BY <1>2, <1>3

\* One term more stays above the line.
LEMMA OneTermMore ==
    ASSUME NEW A \in Nat, NEW B \in Nat, NEW p \in Nat, NEW q \in Nat, NEW f \in Nat,
           NEW t \in Int, NEW u \in Nat, A * p <= t + B * q, A * f <= u + B
    PROVE  A * (p + f) <= (u + t) + B * (q + 1)
<1>1. A * (p + f) = A * p + A * f /\ B * (q + 1) = B * q + B
  OBVIOUS
<1>2. A * p \in Nat /\ A * f \in Nat /\ B * q \in Nat
  OBVIOUS
<1> QED
  BY <1>1, <1>2

\* The sum that Entropy takes off.
Spread(l) == SumFunction([c \in ToSet(l) |-> Count({c}, l) * L_LOG2[Count({c}, l) + 1]])

\* is_suspicious_label by the sum that it divides.
LEMMA SuspiciousIs ==
    ASSUME NEW l, SuspiciousLabel(l)
    PROVE  Len(l) >= 63 \/ (Len(l) \in 12 .. 62
                              /\ L_LOG2[Len(l) + 1] - Spread(l) \div Len(l) > Limit)
<1> DEFINE freq == [c \in ToSet(l) |-> Count({c}, l)]
<1>1. [c \in ToSet(l) |-> freq[c] * L_LOG2[freq[c] + 1]]
        = [c \in ToSet(l) |-> Count({c}, l) * L_LOG2[Count({c}, l) + 1]]
  OBVIOUS
<1>2. Entropy(l, freq) = L_LOG2[Len(l) + 1] - Spread(l) \div Len(l)
  BY <1>1 DEF Entropy, Spread
<1>3. Len(l) >= 63 \/ (Len(l) \in 12 .. 62 /\ Entropy(l, freq) > 3670016)
  BY SMT DEF SuspiciousLabel
<1> HIDE DEF freq
<1> QED
  BY <1>2, <1>3, SMT DEF Limit

\* It is above the line.
LEMMA AboveChord ==
    ASSUME NEW l \in Seq(STRING), Len(l) <= 62, NEW A \in Nat, NEW B \in Nat, Below(A, B)
    PROVE  Spread(l) \in Nat /\ A * Len(l) <= Spread(l) + B * Cardinality(ToSet(l))
<1> DEFINE freq == [c \in ToSet(l) |-> Count({c}, l)]
           g == [c \in ToSet(l) |-> Count({c}, l) * L_LOG2[Count({c}, l) + 1]]
           s(T) == SumFunctionOnSet(g, T)
           F == {T \in SUBSET ToSet(l) :
                    A * Cardinality(Places(l, T)) <= s(T) + B * Cardinality(T)}
<1>1. ASSUME NEW c \in ToSet(l)
      PROVE  /\ freq[c] \in 1 .. 62 /\ freq[c] = Cardinality(Places(l, {c}))
             /\ g[c] \in Nat /\ A * freq[c] <= g[c] + B
  <2>1. freq[c] \in 1 .. 62 /\ freq[c] = Cardinality(Places(l, {c}))
    <3>1. freq[c] = Count({c}, l)
      OBVIOUS
    <3>2. Count({c}, l) = Cardinality(Places(l, {c})) /\ Count({c}, l) \in 1 .. Len(l)
      BY CountIs
    <3>3. PICK n : n = Len(l) /\ n \in Nat
      BY LenProperties, Zenon
    <3>4. 1 .. n \subseteq 1 .. 62
      BY <3>3, UpTo62, Zenon
    <3> HIDE DEF freq
    <3> QED
      BY <3>1, <3>2, <3>3, <3>4, Zenon
  <2>2. g[c] = freq[c] * L_LOG2[freq[c] + 1]
    OBVIOUS
  <2> HIDE DEF freq, g
  <2>3. PICK f \in 1 .. 62 : f = freq[c]
    BY <2>1
  <2>4. g[c] \in Nat
    <3>1. f * L_LOG2[f + 1] \in Nat
      BY TermIsNat
    <3> QED
      BY <2>2, <2>3, <3>1, Zenon
  <2>5. A * f <= f * L_LOG2[f + 1] + B
    BY <2>3 DEF Below
  <2> QED
    BY <2>1, <2>2, <2>3, <2>4, <2>5, Zenon
<1>2. DOMAIN g = ToSet(l)
  OBVIOUS
<1> HIDE DEF freq, g
<1>3. /\ s({}) = 0
      /\ \A T \in SUBSET ToSet(l) : s(T) \in Int /\ \A x \in T : s(T) = g[x] + s(T \ {x})
  <2>1. \A c \in ToSet(l) : g[c] \in Int
    BY <1>1, Natural, Zenon
  <2>2. PICK L : L = ToSet(l)
    OBVIOUS
  <2>3. IsFiniteSet(L) /\ \A c \in L : g[c] \in Int
    BY <2>1, <2>2, LettersFinite
  <2>4. /\ s({}) = 0
        /\ \A T \in SUBSET L : s(T) \in Int /\ \A x \in T : s(T) = g[x] + s(T \ {x})
    BY <2>3, SumOf, ZenonT(60)
  <2> QED
    BY <2>2, <2>4
<1>4. s(ToSet(l)) \in Nat
  BY <1>1, LettersFinite, SumNat
<1>5. \A T \in SUBSET ToSet(l) : IsFiniteSet(T) /\ Cardinality(T) \in Nat
  BY LettersFinite, FS_Subset, FS_CardinalityType
<1>6. {} \in F
  <2>1. Places(l, {}) = {}
    BY DEF Places
  <2>2. Cardinality(Places(l, {})) = 0 /\ Cardinality({}) = 0 /\ s({}) = 0
    BY <1>3, <2>1, FS_EmptySet
  <2>3. A * 0 <= 0 + B * 0
    OBVIOUS
  <2>4. {} \in SUBSET ToSet(l)
    OBVIOUS
  <2> HIDE DEF s
  <2> QED
    BY <2>2, <2>3, <2>4, Zenon
<1> HIDE DEF s
<1>7. ASSUME NEW T \in SUBSET ToSet(l), NEW x \in ToSet(l) \ T, T \in F PROVE T \cup {x} \in F
  <2>1. PICK U : U = T \cup {x}
    OBVIOUS
  <2>2. U \in SUBSET ToSet(l) /\ x \in U /\ U \ {x} = T
    BY <2>1
  <2>3. s(U) = g[x] + s(T) /\ s(T) \in Int
    BY <1>3, <2>2
  <2>4. Cardinality(U) = Cardinality(T) + 1
    BY <1>5, <2>1, FS_AddElement
  <2>5. Cardinality(Places(l, U)) = Cardinality(Places(l, T)) + freq[x]
    <3>1. Places(l, U) = Places(l, T) \cup Places(l, {x})
      BY <2>1 DEF Places
    <3>2. Places(l, T) \cap Places(l, {x}) = {}
      BY <2>2 DEF Places
    <3>3. Cardinality(Places(l, U)) = Cardinality(Places(l, T)) + Cardinality(Places(l, {x}))
                                        - Cardinality(Places(l, T) \cap Places(l, {x}))
      BY <3>1, PlacesIs, FS_Union
    <3>4. Cardinality(Places(l, T) \cap Places(l, {x})) = 0
      BY <3>2, FS_EmptySet
    <3>5. PICK p \in Nat, f \in Nat :
               p = Cardinality(Places(l, T)) /\ f = Cardinality(Places(l, {x}))
      BY PlacesIs
    <3>6. Cardinality(Places(l, U)) = p + f - 0
      BY <3>3, <3>4, <3>5, Zenon
    <3>7. freq[x] = f
      BY <1>1, <3>5
    <3> QED
      BY <3>5, <3>6, <3>7
  <2>6. /\ Cardinality(Places(l, T)) \in Nat /\ Cardinality(T) \in Nat /\ freq[x] \in Nat
        /\ g[x] \in Nat /\ A * freq[x] <= g[x] + B
    <3>1. freq[x] \in 1 .. 62 /\ g[x] \in Nat /\ A * freq[x] <= g[x] + B
      BY <1>1, Zenon
    <3>2. freq[x] \in Nat
      BY <3>1, Natural, Zenon
    <3> QED
      BY <1>5, <3>1, <3>2, PlacesIs, Zenon
  <2>7. A * Cardinality(Places(l, T)) <= s(T) + B * Cardinality(T)
    BY <1>7
  <2>8. A * (Cardinality(Places(l, T)) + freq[x])
          <= (g[x] + s(T)) + B * (Cardinality(T) + 1)
    BY <2>3, <2>6, <2>7, OneTermMore, Zenon
  <2> QED
    BY <2>1, <2>2, <2>3, <2>4, <2>5, <2>8, Zenon
<1> HIDE DEF F
<1>8. ToSet(l) \in F
  <2>1. \A T \in SUBSET ToSet(l) : \A x \in ToSet(l) \ T : T \in F => T \cup {x} \in F
    BY <1>7
  <2>2. \A T \in SUBSET ToSet(l) : T \in F
    BY <1>6, <2>1, LettersFinite, SetInduction, Zenon
  <2> QED
    BY <2>2
<1>9. A * Len(l) <= s(ToSet(l)) + B * Cardinality(ToSet(l))
  <2>1. Cardinality(Places(l, ToSet(l))) = Len(l)
    BY PlacesIs
  <2> QED
    BY <1>8, <2>1 DEF F
<1>10. Spread(l) = s(ToSet(l))
  BY <1>2 DEF SumFunction, s, g, Spread
<1> QED
  BY <1>4, <1>9, <1>10, Zenon

\* A sum above the chord of v characters is above what an entropy of 3.5 leaves.
LEMMA OverLine ==
    ASSUME NEW A \in Nat, NEW B \in Nat, NEW n \in Nat, NEW v \in Nat, NEW s \in Nat,
           NEW m \in Int, v <= 11, A * n <= s + B * v, n * m + 11 * B <= A * n
    PROVE  n * m <= s
<1>1. B * v <= 11 * B /\ B * v \in Nat
  OBVIOUS
<1>2. n * m \in Int /\ A * n \in Nat
  OBVIOUS
<1> QED
  BY <1>1, <1>2

\* So is its quotient, although the division rounds down.
LEMMA Quotient ==
    ASSUME NEW s \in Nat, NEW n \in Nat \ {0}, NEW m \in Int, n * m <= s
    PROVE  m <= s \div n
<1>1. PICK q \in Nat, r \in Nat : q = s \div n /\ s = n * q + r /\ r < n
  OBVIOUS
<1>2. SUFFICES ASSUME q + 1 <= m PROVE FALSE
  BY <1>1
<1>3. n * (q + 1) <= n * m
  BY <1>2
<1>4. n * (q + 1) = n * q + n
  OBVIOUS
<1> QED
  BY <1>1, <1>3, <1>4

\* Numbers of is_suspicious_label on a label of 12 to 62 characters.
LEMMA LengthIs ==
    ASSUME NEW n \in 12 .. 62, NEW s \in Nat
    PROVE  n \in Nat \ {0} /\ L_LOG2[n + 1] \in Nat /\ s \div n \in Nat
<1>1. n + 1 \in 1 .. 63 /\ n \in Nat \ {0}
  OBVIOUS
<1>2. L_LOG2[n + 1] \in Nat
  BY <1>1, LogarithmIs
<1>3. s \div n \in Nat
  BY <1>1
<1> QED
  BY <1>1, <1>2, <1>3

LEMMA NotBoth ==
    ASSUME NEW a \in Nat, NEW q \in Nat, NEW b \in Nat, a - q > b, a - b <= q
    PROVE  FALSE
OBVIOUS

\* A label of at most eleven different characters is not suspicious below 63.
LEMMA FewLetters ==
    ASSUME NEW l \in Seq(STRING), Len(l) < 63, SuspiciousLabel(l)
    PROVE  Cardinality(ToSet(l)) >= 12
<1> DEFINE s == Spread(l)
           n == Len(l)
           v == Cardinality(ToSet(l))
<1>1. n \in 12 .. 62 /\ L_LOG2[n + 1] - s \div n > Limit
  <2>1. n \in Nat
    BY LenProperties
  <2> HIDE DEF n
  <2>2. ~(n >= 63)
    BY <2>1 DEF n
  <2> QED
    BY <2>2, SuspiciousIs, Zenon DEF n
<1>2. v \in Nat
  BY LettersFinite
<1>3. n <= 62
  BY <1>1
<1>4. ASSUME NEW A \in Nat, NEW B \in Nat, NEW lo \in Nat, NEW hi \in Nat,
             Chord(A, B, lo, hi), n \in lo .. hi
      PROVE  v >= 12
  <2>1. s \in Nat /\ A * n <= s + B * v
    BY <1>3, <1>4, AboveChord, Zenon DEF Chord
  <2>2. n * (L_LOG2[n + 1] - Limit) + 11 * B <= A * n
    BY <1>4, Zenon DEF Chord
  <2> HIDE DEF s, n, v
  <2>3. n \in Nat \ {0} /\ L_LOG2[n + 1] \in Nat /\ s \div n \in Nat /\ Limit \in Nat
    <3>1. Limit \in Nat
      BY SMT DEF Limit
    <3> QED
      BY <1>1, <2>1, <3>1, LengthIs, Zenon
  <2>4. PICK m : m = L_LOG2[n + 1] - Limit /\ m \in Int
    BY <2>3
  <2>5. SUFFICES ASSUME v <= 11 PROVE FALSE
    BY <1>2
  <2>6. n * m + 11 * B <= A * n
    BY <2>2, <2>4, Zenon
  <2>7. n * m <= s
    BY <1>2, <1>4, <2>1, <2>3, <2>4, <2>5, <2>6, OverLine
  <2>8. m <= s \div n
    BY <2>1, <2>3, <2>4, <2>7, Quotient
  <2> QED
    BY <1>1, <2>3, <2>4, <2>8, NotBoth, Zenon
<1> HIDE DEF v, s, n
<1>5. n \in 12 .. 23 \/ n \in 24 .. 37 \/ n \in 38 .. 50 \/ n \in 51 .. 62
  BY <1>1
<1>6. v >= 12
  <2>1. ASSUME NEW A \in Nat, NEW B \in Nat, NEW lo \in Nat, NEW hi \in Nat,
               Chord(A, B, lo, hi)
        PROVE  n \in lo .. hi => v >= 12
    BY <1>4, <2>1
  <2>2. n \in 12 .. 23 => v >= 12
    BY <2>1, Chords, SMTT(30)
  <2>3. n \in 24 .. 37 => v >= 12
    BY <2>1, Chords, SMTT(30)
  <2>4. n \in 38 .. 50 => v >= 12
    BY <2>1, Chords, SMTT(30)
  <2>5. n \in 51 .. 62 => v >= 12
    BY <2>1, Chords, SMTT(30)
  <2> QED
    BY <1>5, <2>2, <2>3, <2>4, <2>5
<1> QED
  BY <1>6 DEF v

\* A label has more than 3.5 bits per character (is_suspicious_label) only with a
\* dozen different characters, or at 63 characters: for every text.
THEOREM EntropyNeedsVarietyHolds == Spec => []EntropyNeedsVariety
<1>1. ASSUME NEW d \in Domain, "entropy" \in Fired[d]
      PROVE  \E l \in LabelsOf[d] : Len(l) >= 63 \/ Cardinality(ToSet(l)) >= 12
  <2>1. PICK labels : labels = SplitLabels(Text[d])
    OBVIOUS
  <2>2. Fired[d] = (UNION {LabelFires(l) : l \in ToSet(NonTld(labels))})
                     \cup ShapeFires(Text[d], labels)
    BY <2>1 DEF Fired
  <2>3. "entropy" \notin ShapeFires(Text[d], labels)
    BY DEF ShapeFires, LabelCheck
  <2>4. PICK l \in ToSet(NonTld(labels)) : "entropy" \in LabelFires(l)
    BY <1>1, <2>2, <2>3, Zenon
  <2>5. SuspiciousLabel(l)
    BY <2>4 DEF LabelFires
  <2>6. labels \in Labels
    BY <2>1, ScorerAssumption, SplitIs
  <2>7. PICK k \in DOMAIN labels : l = labels[k]
    BY <2>4, <2>6, NonTldIs DEF ToSet
  <2>8. l \in Seq(STRING)
    BY <2>6, <2>7, LenProperties, ElementOfSeq DEF Labels
  <2>9. l \in LabelsOf[d]
    BY <2>1, <2>7 DEF LabelsOf, ToSet
  <2>10. Len(l) \in Nat
    BY <2>8, LenProperties
  <2> QED
    BY <2>5, <2>8, <2>9, <2>10, FewLetters
<1>2. WorkInv => EntropyNeedsVariety
  BY <1>1 DEF WorkInv, EntropyNeedsVariety, Busy
<1> QED
  BY <1>2, WorkInit, WorkStep, PTL DEF Spec

-----------------------------------------------------------------------------
(***************************************************************************)
(* The words that are matched.  What the walk has read when it stands on a  *)
(* node is known of every node the root leads to, and no two of them are    *)
(* reached by the same characters; so the walk stands on the end of a word  *)
(* just when it has read one of the words of Matched.                       *)
(***************************************************************************)
\* The links of FW_TRIE that lead on from the root, and the others: no link
\* leads to 18, where the one word starts that is never matched.
Link ==
    {<<0, "g", 1>>, <<0, "u", 6>>, <<0, "c", 9>>, <<0, "a", 14>>,
     <<0, "s", 19>>, <<0, "m", 25>>, <<1, "o", 2>>, <<2, "o", 3>>,
     <<3, "g", 4>>, <<4, "l", 5>>, <<5, "e", 29>>, <<6, "s", 7>>,
     <<7, "e", 8>>, <<8, "r", 30>>, <<9, "o", 10>>, <<9, "l", 31>>,
     <<10, "n", 11>>, <<11, "t", 12>>, <<12, "e", 13>>, <<13, "n", 33>>,
     <<14, "p", 15>>, <<14, "u", 16>>, <<15, "i", 34>>, <<16, "t", 17>>,
     <<17, "h", 35>>, <<19, "r", 21>>, <<19, "a", 22>>, <<21, "a", 24>>,
     <<22, "m", 36>>, <<24, "a", 26>>, <<25, "i", 27>>, <<26, "l", 38>>,
     <<31, "o", 32>>, <<32, "u", 39>>, <<33, "t", 40>>, <<39, "d", 42>>}

Stray ==
    {<<18, "t", 20>>, <<20, "e", 23>>, <<23, "t", 37>>, <<37, "i", 41>>,
     <<41, "c", 43>>}

\* The nodes the root leads to.
Reached ==
    {0, 1, 2, 3, 4, 5, 6, 7, 8, 9, 10, 11, 12, 13, 14, 15, 16, 17, 19, 21, 22,
     24, 25, 26, 27, 29, 30, 31, 32, 33, 34, 35, 36, 38, 39, 40, 42}

\* What has been read at node n is Prefix[n + 1].
Prefix ==
    << <<>>, <<"g">>, <<"g", "o">>, <<"g", "o", "o">>, <<"g", "o", "o", "g">>,
       <<"g", "o", "o", "g", "l">>, <<"u">>, <<"u", "s">>, <<"u", "s", "e">>,
       <<"c">>, <<"c", "o">>, <<"c", "o", "n">>, <<"c", "o", "n", "t">>,
       <<"c", "o", "n", "t", "e">>, <<"a">>, <<"a", "p">>, <<"a", "u">>,
       <<"a", "u", "t">>, <<>>, <<"s">>, <<>>, <<"s", "r">>, <<"s", "a">>,
       <<>>, <<"s", "r", "a">>, <<"m">>, <<"s", "r", "a", "a">>, <<"m", "i">>,
       <<>>, <<"g", "o", "o", "g", "l", "e">>, <<"u", "s", "e", "r">>,
       <<"c", "l">>, <<"c", "l", "o">>, <<"c", "o", "n", "t", "e", "n">>,
       <<"a", "p", "i">>, <<"a", "u", "t", "h">>, <<"s", "a", "m">>, <<>>,
       <<"s", "r", "a", "a", "l">>, <<"c", "l", "o", "u">>,
       <<"c", "o", "n", "t", "e", "n", "t">>, <<>>,
       <<"c", "l", "o", "u", "d">>, <<>> >>

\* The characters of names, and those of the words.
Glyph ==
    STRING \cup {"a", "c", "d", "e", "g", "h", "i", "l", "m", "n", "o", "p", "r",
                 "s", "t", "u"}

Lists(n, c, m) == n \in 0 .. 26 /\ <<c, m>> \in Placed[n + 1]

\* A link of the entries without designators is an edge.
LEMMA ListedIsEdge ==
    ASSUME NEW n, NEW c, NEW m, Lists(n, c, m)
    PROVE  <<n, c, m>> \in Edge
<1> DEFINE x == <<c, m>>
           Out(k) == {<<k - 1, e[1], e[2]>> : e \in Placed[k]}
<1>1. x[1] = c /\ x[2] = m /\ x \in Placed[n + 1] /\ n \in Int /\ n + 1 \in 1 .. 27
  BY DEF Lists
<1>2. DOMAIN Placed = 1 .. 27
  BY SMT DEF Placed
<1>3. (n + 1) - 1 = n
  BY <1>1
<1> HIDE DEF x
<1>4. <<n, c, m>> \in Out(n + 1)
  BY <1>1, <1>3
<1>5. Out(n + 1) \in {Out(k) : k \in DOMAIN Placed}
  BY <1>1, <1>2
<1>6. <<n, c, m>> \in UNION {Out(k) : k \in DOMAIN Placed}
  BY <1>4, <1>5, Zenon
<1> QED
  BY <1>6, Zenon DEF Edge

\* The edges of FW_TRIE are the links and the strays, no more.
LEMMA EdgesAre ==
    ASSUME NEW e \in Edge
    PROVE  e \in Link \cup Stray
<1>1. PICK n, c, m : e = <<n, c, m>>
  BY DEF Edge
<1>2. <<n, c, m>> \in Link \/ <<n, c, m>> \in Stray
  BY <1>1, SMTT(60) DEF Edge, Placed, Link, Stray
<1> QED
  BY <1>1, <1>2

\* Every link is an edge.
LEMMA LinksAreEdges ==
    ASSUME NEW n, NEW c, NEW m, <<n, c, m>> \in Link
    PROVE  <<n, c, m>> \in Edge
<1>1. /\ Lists(0, "g", 1) /\ Lists(0, "u", 6) /\ Lists(0, "c", 9)
      /\ Lists(0, "a", 14) /\ Lists(0, "s", 19) /\ Lists(0, "m", 25)
      /\ Lists(1, "o", 2) /\ Lists(2, "o", 3) /\ Lists(3, "g", 4)
      /\ Lists(4, "l", 5) /\ Lists(5, "e", 29) /\ Lists(6, "s", 7)
      /\ Lists(7, "e", 8) /\ Lists(8, "r", 30) /\ Lists(9, "o", 10)
      /\ Lists(9, "l", 31)
  BY SMT DEF Lists, Placed
<1>2. /\ Lists(10, "n", 11) /\ Lists(11, "t", 12) /\ Lists(12, "e", 13)
      /\ Lists(13, "n", 33) /\ Lists(14, "p", 15) /\ Lists(14, "u", 16)
      /\ Lists(15, "i", 34) /\ Lists(16, "t", 17) /\ Lists(17, "h", 35)
      /\ Lists(19, "r", 21) /\ Lists(19, "a", 22) /\ Lists(21, "a", 24)
      /\ Lists(22, "m", 36) /\ Lists(24, "a", 26) /\ Lists(25, "i", 27)
      /\ Lists(26, "l", 38)
  BY SMT DEF Lists, Placed
<1>3. /\ <<31, "o", 32>> \in Edge /\ <<32, "u", 39>> \in Edge
      /\ <<33, "t", 40>> \in Edge /\ <<39, "d", 42>> \in Edge
  BY DEF Edge
<1>4. Lists(n, c, m) \/ <<n, c, m>> \in Edge
  BY <1>1, <1>2, <1>3 DEF Link
<1> QED
  BY <1>4, ListedIsEdge

Follows(n, c, m) == Prefix[m + 1] = Append(Prefix[n + 1], c)

\* A link appends its character to what has been read.
LEMMA LinksFollow ==
    ASSUME NEW n, NEW c, NEW m, <<n, c, m>> \in Link
    PROVE  Follows(n, c, m)
<1>1. /\ Follows(0, "g", 1) /\ Follows(0, "u", 6) /\ Follows(0, "c", 9)
      /\ Follows(0, "a", 14) /\ Follows(0, "s", 19) /\ Follows(0, "m", 25)
  BY SMT DEF Follows, Prefix
<1>2. /\ Follows(1, "o", 2) /\ Follows(2, "o", 3) /\ Follows(3, "g", 4)
      /\ Follows(4, "l", 5) /\ Follows(5, "e", 29) /\ Follows(6, "s", 7)
  BY SMT DEF Follows, Prefix
<1>3. /\ Follows(7, "e", 8) /\ Follows(8, "r", 30) /\ Follows(9, "o", 10)
      /\ Follows(9, "l", 31) /\ Follows(10, "n", 11) /\ Follows(11, "t", 12)
  BY SMT DEF Follows, Prefix
<1>4. /\ Follows(12, "e", 13) /\ Follows(13, "n", 33) /\ Follows(14, "p", 15)
      /\ Follows(14, "u", 16) /\ Follows(15, "i", 34) /\ Follows(16, "t", 17)
  BY SMT DEF Follows, Prefix
<1>5. /\ Follows(17, "h", 35) /\ Follows(19, "r", 21) /\ Follows(19, "a", 22)
      /\ Follows(21, "a", 24) /\ Follows(22, "m", 36) /\ Follows(24, "a", 26)
  BY SMT DEF Follows, Prefix
<1>6. /\ Follows(25, "i", 27) /\ Follows(26, "l", 38) /\ Follows(31, "o", 32)
      /\ Follows(32, "u", 39) /\ Follows(33, "t", 40) /\ Follows(39, "d", 42)
  BY SMT DEF Follows, Prefix
<1> QED
  BY <1>1, <1>2, <1>3, <1>4, <1>5, <1>6 DEF Link

\* The nodes are numbered along the links.
LEMMA LinksRise ==
    ASSUME NEW n, NEW c, NEW m, <<n, c, m>> \in Link
    PROVE  n \in Reached /\ m \in Reached \ {0} /\ n < m
BY SMT DEF Link, Reached

\* Links bear characters.
LEMMA LinksAreGlyphs ==
    ASSUME NEW n, NEW c, NEW m, <<n, c, m>> \in Link
    PROVE  c \in Glyph
<1>1. c \in {"a", "c", "d", "e", "g", "h", "i", "l", "m", "n", "o", "p", "r",
             "s", "t", "u"}
  BY SMT DEF Link
<1> QED
  BY <1>1 DEF Glyph

\* A link leads to every node that is reached, but the root.
LEMMA ReachedByLink ==
    ASSUME NEW m \in Reached \ {0}
    PROVE  \E n, c : <<n, c, m>> \in Link
BY SMT DEF Link, Reached

\* Nothing but links leads on from a node that the root leads to.
LEMMA StraysUnreached ==
    ASSUME NEW n, NEW c, NEW m, <<n, c, m>> \in Stray
    PROVE  n \notin Reached
BY SMT DEF Stray, Reached

\* No two links go from one node by one character.
LEMMA LinksDiffer ==
    ASSUME NEW n, NEW c, NEW m, NEW k, <<n, c, m>> \in Link, <<n, c, k>> \in Link
    PROVE  m = k
BY SMTT(60) DEF Link

LEMMA NodesAre == 0 \in Reached /\ Reached \subseteq Nat /\ Off \notin Reached
BY SMT DEF Reached, Off

\* What has been read is a sequence of characters.
LEMMA PrefixIs ==
    /\ Prefix[1] = <<>>
    /\ \A m \in Reached : Prefix[m + 1] \in Seq(Glyph)
<1> DEFINE Bad == {m \in Reached : Prefix[m + 1] \notin Seq(Glyph)}
<1>1. Prefix[1] = <<>>
  BY SMT DEF Prefix
<1>2. SUFFICES ASSUME Bad # {} PROVE FALSE
  BY <1>1
<1>3. PICK m \in Bad : \A n \in Bad : m <= n
  BY <1>2, NodesAre, LeastOf
<1>4. m \in Reached \ {0}
  <2>1. 0 + 1 = 1
    OBVIOUS
  <2>2. <<>> \in Seq(Glyph)
    BY EmptySeq
  <2>3. m = 0 => Prefix[m + 1] \in Seq(Glyph)
    BY <1>1, <2>1, <2>2
  <2> QED
    BY <1>3, <2>3
<1>5. PICK n, c : <<n, c, m>> \in Link
  BY <1>4, ReachedByLink
<1>6. n \in Reached /\ n < m /\ c \in Glyph /\ Follows(n, c, m)
  BY <1>5, LinksRise, LinksAreGlyphs, LinksFollow
<1>7. n \notin Bad
  BY <1>3, <1>4, <1>6, NodesAre
<1>8. Prefix[n + 1] \in Seq(Glyph)
  BY <1>6, <1>7
<1>9. Append(Prefix[n + 1], c) \in Seq(Glyph)
  BY <1>6, <1>8, AppendProperties
<1> QED
  BY <1>3, <1>6, <1>9 DEF Follows

\* What has been read at each of them.
LEMMA EndsRead ==
    /\ Prefix[29 + 1] = <<"g", "o", "o", "g", "l", "e">>
    /\ Prefix[30 + 1] = <<"u", "s", "e", "r">>
    /\ Prefix[34 + 1] = <<"a", "p", "i">>
    /\ Prefix[35 + 1] = <<"a", "u", "t", "h">>
    /\ Prefix[36 + 1] = <<"s", "a", "m">>
    /\ Prefix[38 + 1] = <<"s", "r", "a", "a", "l">>
    /\ Prefix[40 + 1] = <<"c", "o", "n", "t", "e", "n", "t">>
    /\ Prefix[42 + 1] = <<"c", "l", "o", "u", "d">>
BY SMT DEF Prefix

\* At the end of a word, a word has been read ...
LEMMA EndsAreWords ==
    ASSUME NEW m \in Reached, m \in IsEnd
    PROVE  Prefix[m + 1] \in Matched
<1>1. m \in {29, 30, 34, 35, 36, 38, 40, 42}
  BY SMT DEF Reached, IsEnd
<1>2. Prefix[m + 1] \in
        {Prefix[29 + 1], Prefix[30 + 1], Prefix[34 + 1], Prefix[35 + 1], Prefix[36 + 1],
         Prefix[38 + 1], Prefix[40 + 1], Prefix[42 + 1]}
  BY <1>1
<1> QED
  BY <1>2, EndsRead, Zenon DEF Matched

\* ... and every word has its end.
LEMMA WordsHaveEnds ==
    ASSUME NEW x \in Matched
    PROVE  \E m \in Reached : m \in IsEnd /\ Prefix[m + 1] = x
<1>1. {29, 30, 34, 35, 36, 38, 40, 42} \subseteq Reached \cap IsEnd
  BY SMT DEF Reached, IsEnd
<1>2. \E m \in {29, 30, 34, 35, 36, 38, 40, 42} : Prefix[m + 1] = x
  BY EndsRead, ZenonT(30) DEF Matched
<1> QED
  BY <1>1, <1>2

\* Where the walk goes from node n by character c.
Step(n, c) == IF <<n, c>> \in DOMAIN FW_TRIE THEN FW_TRIE[<<n, c>>] ELSE Off

\* FW_TRIE follows the edges.
LEMMA TrieIs ==
    ASSUME NEW n, NEW c
    PROVE  /\ <<n, c>> \in DOMAIN FW_TRIE => <<n, c, FW_TRIE[<<n, c>>]>> \in Edge
           /\ \A m : <<n, c, m>> \in Edge => <<n, c>> \in DOMAIN FW_TRIE
<1> DEFINE Chosen(nc) == CHOOSE e \in Edge : <<e[1], e[2]>> = nc
<1>1. DOMAIN FW_TRIE = {<<e[1], e[2]>> : e \in Edge}
  BY DEF FW_TRIE
<1>2. ASSUME NEW m, <<n, c, m>> \in Edge PROVE <<n, c>> \in DOMAIN FW_TRIE
  <2>1. PICK e \in Edge : e = <<n, c, m>>
    BY <1>2
  <2>2. <<n, c>> = <<e[1], e[2]>>
    BY <2>1
  <2> QED
    BY <1>1, <2>2
<1>3. ASSUME <<n, c>> \in DOMAIN FW_TRIE PROVE <<n, c, FW_TRIE[<<n, c>>]>> \in Edge
  <2>1. PICK e \in Edge : <<e[1], e[2]>> = <<n, c>>
    BY <1>1, <1>3
  <2>2. PICK x : x = Chosen(<<n, c>>)
    OBVIOUS
  <2>3. x \in Edge /\ <<x[1], x[2]>> = <<n, c>>
    BY <2>1, <2>2, Zenon
  <2>4. FW_TRIE[<<n, c>>] = x[3]
    BY <1>1, <1>3, <2>2, Zenon DEF FW_TRIE
  <2>5. PICK a, b, m : x = <<a, b, m>>
    BY <2>3 DEF Edge
  <2> QED
    BY <2>3, <2>4, <2>5
<1> QED
  BY <1>2, <1>3

\* From a node that has been reached the walk goes along a link or ends.
LEMMA StepIs ==
    ASSUME NEW c
    PROVE  /\ Step(Off, c) = Off
           /\ \A n \in Reached : Step(n, c) = Off \/ <<n, c, Step(n, c)>> \in Link
           /\ \A n, m : <<n, c, m>> \in Link => Step(n, c) = m
<1>1. ASSUME NEW n, Step(n, c) # Off
      PROVE  <<n, c, Step(n, c)>> \in Link \cup Stray
  <2>1. <<n, c>> \in DOMAIN FW_TRIE /\ Step(n, c) = FW_TRIE[<<n, c>>]
    BY <1>1 DEF Step
  <2> QED
    BY <2>1, TrieIs, EdgesAre
<1>2. \A n, m : <<n, c, m>> \in Link \cup Stray => n # Off
  BY SMT DEF Link, Stray, Off
<1>3. ASSUME NEW n \in Reached, Step(n, c) # Off PROVE <<n, c, Step(n, c)>> \in Link
  BY <1>1, <1>3, StraysUnreached
<1>4. ASSUME NEW n, NEW m, <<n, c, m>> \in Link PROVE Step(n, c) = m
  <2>1. n \in Reached /\ <<n, c>> \in DOMAIN FW_TRIE
    BY <1>4, LinksRise, LinksAreEdges, TrieIs
  <2>2. <<n, c, FW_TRIE[<<n, c>>]>> \in Link
    BY <2>1, TrieIs, EdgesAre, StraysUnreached
  <2>3. m = FW_TRIE[<<n, c>>]
    BY <1>4, <2>2, LinksDiffer
  <2> QED
    BY <2>1, <2>3 DEF Step
<1> QED
  BY <1>1, <1>2, <1>3, <1>4

\* The walk starts at the root and goes a step for each character.
LEMMA WalkIs ==
    ASSUME NEW l \in Seq(STRING), NEW s \in 1 .. Len(l)
    PROVE  /\ Walk(l, s)[s - 1] = 0
           /\ \A k \in s .. Len(l) : Walk(l, s)[k] = Step(Walk(l, s)[k - 1], l[k])
<1> DEFINE Def(g) == g = [k \in s - 1 .. Len(l) |->
                            IF k < s THEN 0
                            ELSE IF <<g[k - 1], l[k]>> \in DOMAIN FW_TRIE
                                 THEN FW_TRIE[<<g[k - 1], l[k]>>]
                                 ELSE Off]
           Nodes == Reached \cup {Off}
           F == [nk \in Nodes \X Nat |-> Step(nk[1], l[nk[2]])]
<1>1. Len(l) \in Nat /\ s \in Nat /\ s - 1 \in Nat /\ s - 1 <= Len(l) /\ (s - 1) + 1 = s
  BY LenProperties
<1>2. \A n \in Nodes : \A k \in Nat : F[<<n, k>>] = Step(n, l[k]) /\ F[<<n, k>>] \in Nodes
  BY StepIs, LinksRise
<1>3. 0 \in Nodes
  BY NodesAre
<1>4. PICK h : Iteration(h, Nodes, 0, F, s - 1, Len(l))
  <2>1. PICK A, f, m, n : A = Nodes /\ f = F /\ m = s - 1 /\ n = Len(l)
    OBVIOUS
  <2>2. /\ 0 \in A /\ \A x \in A : \A k \in Nat : f[<<x, k>>] \in A
        /\ m \in Nat /\ n \in Nat /\ m <= n
    BY <1>1, <1>2, <1>3, <2>1
  <2>3. \E g : Iteration(g, A, 0, f, m, n)
    BY <2>2, Iterates
  <2> HIDE DEF Nodes, F
  <2> QED
    BY <2>1, <2>3
<1>5. /\ h \in [s - 1 .. Len(l) -> Nodes] /\ h[s - 1] = 0
      /\ \A k \in s .. Len(l) : h[k] = F[<<h[k - 1], k>>]
  BY <1>1, <1>4 DEF Iteration
<1>6. \A k \in s .. Len(l) : h[k] = Step(h[k - 1], l[k])
  <2> SUFFICES ASSUME NEW k \in s .. Len(l) PROVE h[k] = Step(h[k - 1], l[k])
    OBVIOUS
  <2>1. k - 1 \in s - 1 .. Len(l) /\ k \in Nat
    BY <1>1
  <2>2. h[k - 1] \in Nodes
    BY <1>5, <2>1
  <2> HIDE DEF F, Nodes
  <2> QED
    BY <1>2, <1>5, <2>1, <2>2
<1>7. Def(h)
  <2> DEFINE val(k) == IF k < s THEN 0 ELSE Step(h[k - 1], l[k])
  <2>1. \A k \in s - 1 .. Len(l) : h[k] = val(k)
    <3>1. \A k \in s - 1 .. Len(l) : k = s - 1 \/ k \in s .. Len(l)
      BY <1>1
    <3>2. s - 1 < s /\ \A k \in s .. Len(l) : ~(k < s)
      BY <1>1
    <3> QED
      BY <1>5, <1>6, <3>1, <3>2
  <2> HIDE DEF val
  <2>2. h = [k \in s - 1 .. Len(l) |-> val(k)]
    BY <1>5, <2>1
  <2> QED
    BY <2>2, Zenon DEF val, Step
<1>8. PICK g : g = CHOOSE z : Def(z)
  OBVIOUS
<1>9. Def(g)
  <2> HIDE DEF Def
  <2> QED
    BY <1>7, <1>8
<1>10. Walk(l, s) = g
  BY <1>8, Zenon DEF Walk
<1>11. \A k \in s - 1 .. Len(l) : g[k] = IF k < s THEN 0 ELSE Step(g[k - 1], l[k])
  BY <1>9, Zenon DEF Step
<1>12. s - 1 \in s - 1 .. Len(l) /\ s - 1 < s
       /\ \A k \in s .. Len(l) : k \in s - 1 .. Len(l) /\ ~(k < s)
  BY <1>1
<1> QED
  BY <1>10, <1>11, <1>12, Zenon

LEMMA GlyphSequences == Seq(STRING) \subseteq Seq(Glyph)
<1> SUFFICES ASSUME NEW x \in Seq(STRING) PROVE x \in Seq(Glyph)
  OBVIOUS
<1>1. \A j \in 1 .. Len(x) : x[j] \in Glyph
  BY ElementOfSeq DEF Glyph
<1>2. x \in [1 .. Len(x) -> Glyph] /\ Len(x) \in Nat
  BY <1>1, LenProperties
<1> QED
  BY <1>2, IsASeq

\* Sequences that are equal were equal before their last element was appended.
LEMMA AppendsEqual ==
    ASSUME NEW x \in Seq(Glyph), NEW y \in Seq(Glyph), NEW a \in Glyph, NEW b \in Glyph,
           Append(x, a) = Append(y, b)
    PROVE  x = y /\ a = b
<1> DEFINE n == Len(x)
<1>1. Len(x) = Len(y) /\ n \in Nat
  <2>1. Len(Append(x, a)) = Len(x) + 1 /\ Len(Append(y, b)) = Len(y) + 1
    BY AppendProperties
  <2>2. Len(x) \in Nat /\ Len(y) \in Nat
    BY LenProperties
  <2> QED
    BY <2>1, <2>2
<1>2. a = b
  <2>1. Append(x, a)[n + 1] = a /\ Append(y, b)[n + 1] = b
    BY <1>1, AppendProperties
  <2> QED
    BY <2>1
<1>3. \A i \in 1 .. n : x[i] = y[i]
  BY <1>1, AppendProperties
<1> QED
  BY <1>1, <1>2, <1>3, SeqEqual

\* What lies from s to k is what lies from s to k - 1, and the character at k.
LEMMA OneCharacterMore ==
    ASSUME NEW l \in Seq(STRING), NEW s \in 1 .. Len(l), NEW k \in s .. Len(l)
    PROVE  /\ l[k] \in Glyph
           /\ SubSeq(l, s, k - 1) \in Seq(Glyph)
           /\ SubSeq(l, s, k) = Append(SubSeq(l, s, k - 1), l[k])
<1>1. Len(l) \in Nat /\ s \in Int /\ k \in 1 .. Len(l) /\ k \in Int
  BY LenProperties
<1>2. l[k] \in STRING
  BY <1>1, ElementOfSeq
<1>3. SubSeq(l, s, k - 1) \in Seq(STRING)
  <2>1. PICK n : n = k - 1
    OBVIOUS
  <2>2. n \in Int /\ \A i \in s .. n : i \in 1 .. Len(l)
    BY <1>1, <2>1
  <2>3. \A i \in s .. n : l[i] \in STRING
    BY <2>2, ElementOfSeq
  <2> QED
    BY <1>1, <2>1, <2>2, <2>3, SubSeqProperties
<1>4. SubSeq(l, s, k) = SubSeq(l, s, k - 1) \o <<l[k]>>
  BY <1>1, SubSeqRecursiveSecond
<1>5. SubSeq(l, s, k - 1) \o <<l[k]>> = Append(SubSeq(l, s, k - 1), l[k])
  BY <1>2, <1>3, AppendIsConcat
<1> QED
  BY <1>2, <1>3, <1>4, <1>5, GlyphSequences DEF Glyph

\* The walk is on the node of what it has read, and off the trie only if there
\* is no such node.
Reads(at, l, s, k) ==
    /\ at[k] = Off \/ (at[k] \in Reached /\ Prefix[at[k] + 1] = SubSeq(l, s, k))
    /\ \A m \in Reached : Prefix[m + 1] = SubSeq(l, s, k) => at[k] = m

\* Before the first character it is at the root.
LEMMA ReadsFirst ==
    ASSUME NEW l \in Seq(STRING), NEW s \in 1 .. Len(l), NEW at, at[s - 1] = 0
    PROVE  Reads(at, l, s, s - 1)
<1>1. Len(l) \in Nat /\ s \in Int /\ s - 1 \in Int /\ s - 1 < s
  BY LenProperties
<1>2. SubSeq(l, s, s - 1) = <<>>
  BY <1>1, SubSeqEmpty
<1>3. 0 \in Reached /\ Prefix[0 + 1] = <<>>
  <2>1. 0 + 1 = 1
    OBVIOUS
  <2> QED
    BY <2>1, NodesAre, PrefixIs
<1>4. ASSUME NEW m \in Reached, Prefix[m + 1] = <<>> PROVE m = 0
  <2>1. SUFFICES ASSUME m \in Reached \ {0} PROVE FALSE
    OBVIOUS
  <2>2. PICK n, c : <<n, c, m>> \in Link
    BY <2>1, ReachedByLink
  <2>3. n \in Reached /\ c \in Glyph /\ Follows(n, c, m)
    BY <2>2, LinksRise, LinksAreGlyphs, LinksFollow
  <2>4. Append(Prefix[n + 1], c) # <<>>
    BY <2>3, PrefixIs, AppendProperties
  <2> QED
    BY <1>4, <2>3, <2>4 DEF Follows
<1>5. PICK x : x = SubSeq(l, s, s - 1)
  OBVIOUS
<1>6. x = <<>> /\ Prefix[at[s - 1] + 1] = <<>> /\ at[s - 1] \in Reached
  BY <1>2, <1>3, <1>5
<1> QED
  BY <1>4, <1>5, <1>6 DEF Reads

\* A character more keeps it where it should be.
LEMMA ReadsNext ==
    ASSUME NEW l \in Seq(STRING), NEW s \in 1 .. Len(l), NEW k \in s .. Len(l), NEW at,
           Reads(at, l, s, k - 1), at[k] = Step(at[k - 1], l[k])
    PROVE  Reads(at, l, s, k)
<1>1. PICK x, y, c, p, q : /\ x = SubSeq(l, s, k - 1) /\ y = SubSeq(l, s, k) /\ c = l[k]
                           /\ p = at[k - 1] /\ q = at[k]
  OBVIOUS
<1>2. c \in Glyph /\ x \in Seq(Glyph) /\ y = Append(x, c)
  BY <1>1, OneCharacterMore
<1>3. /\ p = Off \/ (p \in Reached /\ Prefix[p + 1] = x)
      /\ \A m \in Reached : Prefix[m + 1] = x => p = m
      /\ q = Step(p, c)
  BY <1>1 DEF Reads
<1>4. q = Off \/ (q \in Reached /\ Prefix[q + 1] = y)
  <2>1. SUFFICES ASSUME q # Off PROVE q \in Reached /\ Prefix[q + 1] = y
    OBVIOUS
  <2>2. p \in Reached /\ Prefix[p + 1] = x
    BY <1>3, <2>1, StepIs
  <2>3. <<p, c, q>> \in Link
    BY <1>3, <2>1, <2>2, StepIs
  <2>4. q \in Reached /\ Follows(p, c, q)
    BY <2>3, LinksRise, LinksFollow
  <2> QED
    BY <1>2, <2>2, <2>4 DEF Follows
<1>5. ASSUME NEW m \in Reached, Prefix[m + 1] = y PROVE q = m
  <2>1. m # 0
    <3>1. Append(x, c) # <<>>
      BY <1>2, AppendProperties
    <3>2. 0 + 1 = 1
      OBVIOUS
    <3> QED
      BY <1>2, <1>5, <3>1, <3>2, PrefixIs
  <2>2. PICK n, d : <<n, d, m>> \in Link
    BY <2>1, ReachedByLink
  <2>3. n \in Reached /\ d \in Glyph /\ Prefix[m + 1] = Append(Prefix[n + 1], d)
    BY <2>2, LinksRise, LinksAreGlyphs, LinksFollow DEF Follows
  <2>4. Prefix[n + 1] \in Seq(Glyph)
    BY <2>3, PrefixIs
  <2>5. Prefix[n + 1] = x /\ d = c
    <3>1. PICK z : z = Prefix[n + 1]
      OBVIOUS
    <3>2. z \in Seq(Glyph) /\ Append(z, d) = Append(x, c)
      BY <1>2, <1>5, <2>3, <2>4, <3>1
    <3>3. z = x /\ d = c
      BY <1>2, <2>3, <3>2, AppendsEqual
    <3> QED
      BY <3>1, <3>3
  <2>6. p = n
    BY <1>3, <2>3, <2>5
  <2> QED
    BY <1>3, <2>2, <2>5, <2>6, StepIs
<1> QED
  BY <1>1, <1>4, <1>5 DEF Reads

\* So it is at every character.
LEMMA WalkReads ==
    ASSUME NEW l \in Seq(STRING), NEW s \in 1 .. Len(l), NEW k \in s .. Len(l)
    PROVE  Reads(Walk(l, s), l, s, k)
<1> DEFINE at == Walk(l, s)
           N == {j \in Nat : s - 1 + j <= Len(l) => Reads(at, l, s, s - 1 + j)}
<1>1. Len(l) \in Nat /\ s \in Int /\ k \in Int
  BY LenProperties
<1>2. at[s - 1] = 0 /\ \A i \in s .. Len(l) : at[i] = Step(at[i - 1], l[i])
  BY WalkIs
<1> HIDE DEF at
<1>3. 0 \in N
  <2>1. s - 1 + 0 = s - 1
    BY <1>1
  <2> QED
    BY <1>2, <2>1, ReadsFirst
<1>4. ASSUME NEW j \in Nat, j \in N PROVE j + 1 \in N
  <2>1. SUFFICES ASSUME s - 1 + (j + 1) <= Len(l) PROVE Reads(at, l, s, s - 1 + (j + 1))
    OBVIOUS
  <2>2. PICK i : i = s - 1 + (j + 1)
    OBVIOUS
  <2>3. i \in s .. Len(l) /\ i - 1 = s - 1 + j /\ s - 1 + j <= Len(l)
    BY <1>1, <2>1, <2>2
  <2>4. Reads(at, l, s, i - 1)
    BY <1>4, <2>3
  <2> QED
    BY <1>2, <2>2, <2>3, <2>4, ReadsNext
<1> HIDE DEF N
<1>5. \A j \in Nat : j \in N
  BY <1>3, <1>4, Induction
<1>6. k - s + 1 \in Nat /\ s - 1 + (k - s + 1) = k /\ k <= Len(l)
  BY <1>1
<1>7. k - s + 1 \in N
  BY <1>5, <1>6
<1> QED
  BY <1>6, <1>7 DEF N, at

\* The walk is on the end of a word just when it has read one.
LEMMA EndIsWord ==
    ASSUME NEW l \in Seq(STRING), NEW s \in 1 .. Len(l), NEW k \in s .. Len(l)
    PROVE  Walk(l, s)[k] \in IsEnd <=> SubSeq(l, s, k) \in Matched
<1>1. PICK n, x : n = Walk(l, s)[k] /\ x = SubSeq(l, s, k)
  OBVIOUS
<1>2. /\ n = Off \/ (n \in Reached /\ Prefix[n + 1] = x)
      /\ \A m \in Reached : Prefix[m + 1] = x => n = m
  BY <1>1, WalkReads DEF Reads
<1>3. n \in IsEnd => x \in Matched
  <2>1. Off \notin IsEnd
    BY SMT DEF Off, IsEnd
  <2> QED
    BY <1>2, <2>1, EndsAreWords
<1>4. x \in Matched => n \in IsEnd
  BY <1>2, WordsHaveEnds
<1> QED
  BY <1>1, <1>3, <1>4

-----------------------------------------------------------------------------
(***************************************************************************)
(* So each walk counts the words that start where it starts, and the walks  *)
(* together all of them.                                                    *)
(***************************************************************************)
Starting(l, T) == {kx \in Occurrences(l) : kx[1] \in T}

\* No word is empty.
LEMMA WordsAre ==
    ASSUME NEW x \in Matched
    PROVE  Len(x) \in Nat \ {0}
BY SMTT(30) DEF Matched

\* The words that start at s, by where they end.
LEMMA WordsFrom ==
    ASSUME NEW l \in Seq(STRING), NEW s \in 1 .. Len(l)
    PROVE  /\ IsFiniteSet(Starting(l, {s}))
           /\ Cardinality(Starting(l, {s}))
                = Cardinality({k \in s .. Len(l) : Walk(l, s)[k] \in IsEnd})
<1> DEFINE K == {k \in s .. Len(l) : Walk(l, s)[k] \in IsEnd}
           S == Starting(l, {s})
           f == [k \in K |-> <<s, SubSeq(l, s, k)>>]
<1>1. Len(l) \in Nat /\ s \in Int /\ s \in 1 .. Len(l)
  BY LenProperties
<1>2. K = {k \in s .. Len(l) : SubSeq(l, s, k) \in Matched}
  BY EndIsWord
<1>3. ASSUME NEW k \in s .. Len(l)
      PROVE  Len(SubSeq(l, s, k)) = k - s + 1 /\ k \in Int
  <2>1. k \in Int /\ s <= k /\ \A i \in s .. k : i \in 1 .. Len(l)
    BY <1>1
  <2>2. \A i \in s .. k : l[i] \in STRING
    BY <2>1, ElementOfSeq
  <2> QED
    BY <1>1, <2>1, <2>2, SubSeqProperties
<1>4. \A s1, x : <<s1, x>> \in S <=>
          /\ s1 = s /\ x \in Matched
          /\ s + Len(x) - 1 <= Len(l) /\ SubSeq(l, s, s + Len(x) - 1) = x
  BY <1>1 DEF Starting, Occurrences
<1>5. \A e \in S : \E x : e = <<s, x>>
  BY DEF Starting, Occurrences
<1>6. ASSUME NEW k \in K PROVE f[k] \in S
  <2>1. PICK x : x = SubSeq(l, s, k)
    OBVIOUS
  <2>2. k \in s .. Len(l) /\ x \in Matched /\ s + Len(x) - 1 = k
    BY <1>1, <1>2, <1>3, <2>1
  <2>3. /\ x \in Matched
        /\ s + Len(x) - 1 <= Len(l) /\ SubSeq(l, s, s + Len(x) - 1) = x
    BY <1>1, <2>1, <2>2
  <2>4. <<s, x>> \in S
    BY <1>4, <2>3, Zenon
  <2> QED
    BY <2>1, <2>4
<1>7. ASSUME NEW k \in K, NEW j \in K, f[k] = f[j] PROVE k = j
  <2>1. SubSeq(l, s, k) = SubSeq(l, s, j)
    BY <1>7
  <2>2. Len(SubSeq(l, s, k)) = k - s + 1 /\ Len(SubSeq(l, s, j)) = j - s + 1
        /\ k \in Int /\ j \in Int
    BY <1>3
  <2> QED
    BY <1>1, <2>1, <2>2
<1>8. ASSUME NEW e \in S PROVE \E k \in K : f[k] = e
  <2>1. PICK x : e = <<s, x>>
    BY <1>5
  <2>2. /\ x \in Matched
        /\ s + Len(x) - 1 <= Len(l) /\ SubSeq(l, s, s + Len(x) - 1) = x
    BY <1>4, <2>1
  <2>3. PICK k : k = s + Len(x) - 1
    OBVIOUS
  <2>4. k \in s .. Len(l)
    BY <1>1, <2>2, <2>3, WordsAre
  <2>5. k \in K /\ f[k] = e
    BY <1>2, <2>1, <2>2, <2>3, <2>4
  <2> QED
    BY <2>5
<1>9. f \in Bijection(K, S)
  <2> HIDE DEF K, S
  <2>1. f \in [K -> S]
    BY <1>6
  <2>2. IsInjective(f)
    BY <1>7 DEF IsInjective
  <2>3. f \in Surjection(K, S)
    BY <1>8, <2>1 DEF Surjection
  <2> HIDE DEF f
  <2> QED
    BY <1>7, <2>1, <2>2, <2>3 DEF Bijection, Injection
<1>10. IsFiniteSet(K)
  <2>1. IsFiniteSet(s .. Len(l)) /\ K \subseteq s .. Len(l)
    BY <1>1, FS_Interval
  <2> HIDE DEF K
  <2> QED
    BY <2>1, FS_Subset
<1> HIDE DEF K, S, f
<1>11. ExistsBijection(K, S)
  BY <1>9 DEF ExistsBijection
<1>12. IsFiniteSet(S) /\ Cardinality(S) = Cardinality(K)
  BY <1>10, <1>11, FS_Bijection
<1> QED
  BY <1>12 DEF K, S

\* count_legit_subsequences is the number of occurrences.
LEMMA LegitAreOccurrences ==
    ASSUME NEW l \in Seq(STRING)
    PROVE  LegitSubsequences(l) = Cardinality(Occurrences(l))
<1> DEFINE count == [s \in 1 .. Len(l) |->
                        LET at == Walk(l, s)
                        IN  Cardinality({k \in s .. Len(l) : at[k] \in IsEnd})]
           D == 1 .. Len(l)
           C(T) == Cardinality(Starting(l, T))
           sum(T) == SumFunctionOnSet(count, T)
           F == {T \in SUBSET D : IsFiniteSet(Starting(l, T)) /\ C(T) = sum(T)}
<1>1. Len(l) \in Nat /\ IsFiniteSet(D)
  BY LenProperties, FS_Interval
<1>2. ASSUME NEW s \in D
      PROVE  /\ count[s] = C({s}) /\ count[s] \in Nat
             /\ IsFiniteSet(Starting(l, {s}))
  <2>1. count[s] = Cardinality({k \in s .. Len(l) : Walk(l, s)[k] \in IsEnd})
    OBVIOUS
  <2> HIDE DEF count
  <2>2. IsFiniteSet(Starting(l, {s})) /\ count[s] = C({s})
    BY <2>1, WordsFrom
  <2> QED
    BY <2>2, FS_CardinalityType
<1>3. LegitSubsequences(l) = sum(D)
  <2>1. DOMAIN count = D
    OBVIOUS
  <2> QED
    BY <2>1 DEF LegitSubsequences, SumFunction
<1> HIDE DEF count
<1>4. /\ sum({}) = 0
      /\ \A T \in SUBSET D : sum(T) \in Int /\ \A x \in T : sum(T) = count[x] + sum(T \ {x})
  <2> HIDE DEF D
  <2>1. \A x \in D : count[x] \in Int
    <3>1. \A x \in D : count[x] \in Nat
      BY <1>2, Zenon
    <3> QED
      BY <3>1
  <2> QED
    BY <1>1, <2>1, SumOf
<1> HIDE DEF sum
<1>5. {} \in F
  <2>1. Starting(l, {}) = {}
    BY DEF Starting
  <2> QED
    BY <1>4, <2>1, FS_EmptySet
<1>6. ASSUME NEW T \in SUBSET D, NEW s \in D \ T, T \in F PROVE T \cup {s} \in F
  <2>1. PICK U : U = T \cup {s}
    OBVIOUS
  <2>2. U \in SUBSET D /\ s \in U /\ U \ {s} = T
    BY <2>1
  <2>3. sum(U) = count[s] + sum(T)
    BY <1>4, <2>2
  <2>4. /\ Starting(l, U) = Starting(l, T) \cup Starting(l, {s})
        /\ Starting(l, T) \cap Starting(l, {s}) = {}
    BY <2>1 DEF Starting
  <2>5. PICK A, B : A = Starting(l, T) /\ B = Starting(l, {s})
    OBVIOUS
  <2>6. IsFiniteSet(A) /\ IsFiniteSet(B) /\ A \cap B = {} /\ Starting(l, U) = A \cup B
    BY <1>2, <1>6, <2>4, <2>5
  <2>7. IsFiniteSet(A \cup B)
        /\ Cardinality(A \cup B) = Cardinality(A) + Cardinality(B) - Cardinality(A \cap B)
    BY <2>6, FS_Union
  <2>8. Cardinality(A \cap B) = 0 /\ Cardinality(A) \in Nat /\ Cardinality(B) \in Nat
    BY <2>6, FS_EmptySet, FS_CardinalityType
  <2>9. C(U) = C(T) + C({s})
    BY <2>5, <2>6, <2>7, <2>8
  <2>10. C(T) \in Nat /\ count[s] = C({s}) /\ count[s] \in Nat /\ C(T) = sum(T)
    BY <1>2, <1>6, <2>5, <2>8
  <2> HIDE DEF C
  <2>11. C(U) = sum(U)
    BY <2>3, <2>9, <2>10
  <2>12. U \in F
    BY <2>2, <2>6, <2>7, <2>11
  <2> QED
    BY <2>1, <2>12
<1> HIDE DEF F, D
<1>7. \A T \in SUBSET D : T \in F
  BY <1>1, <1>5, <1>6, SetInduction
<1>8. D \in F
  BY <1>7
<1>9. Starting(l, D) = Occurrences(l)
  BY DEF Starting, Occurrences, D
<1> QED
  BY <1>3, <1>8, <1>9 DEF F

\* And so over all labels of a name.
LEMMA WordMatchesAre ==
    ASSUME NEW d \in Domain
    PROVE  WordMatches[d] = OccurrencesIn[d]
<1>1. PICK labels : labels = NonTld(SplitLabels(Text[d]))
  OBVIOUS
<1>2. labels \in Seq(Seq(STRING))
  BY <1>1, ScorerAssumption, SplitIs, NonTldIs
<1>3. Len(labels) \in Nat /\ DOMAIN labels = 1 .. Len(labels) /\ IsFiniteSet(DOMAIN labels)
  BY <1>2, LenProperties, FS_Interval
<1> DEFINE f == [k \in DOMAIN labels |-> LegitSubsequences(labels[k])]
           g == [k \in DOMAIN labels |-> Cardinality(Occurrences(labels[k]))]
<1>4. ASSUME NEW k \in DOMAIN labels
      PROVE  f[k] \in Int /\ g[k] = f[k]
  <2>1. labels[k] \in Seq(STRING)
    BY <1>2, <1>3, ElementOfSeq
  <2> QED
    BY <2>1, LegitIs, LegitAreOccurrences
<1>5. /\ WordMatches[d] = SumFunctionOnSet(f, DOMAIN labels)
      /\ OccurrencesIn[d] = SumFunctionOnSet(g, DOMAIN labels)
  <2>1. WordMatches[d] = SumFunction(f) /\ OccurrencesIn[d] = SumFunction(g)
    BY <1>1 DEF WordMatches, OccurrencesIn
  <2>2. DOMAIN f = DOMAIN labels /\ DOMAIN g = DOMAIN labels
    OBVIOUS
  <2> QED
    BY <2>1, <2>2 DEF SumFunction
<1> HIDE DEF f, g
<1> QED
  BY <1>3, <1>4, <1>5, SumSame

\* Of a name that a worker scores, count_legit_subsequences counts every
\* occurrence of a word that FW_TRIE matches, in whatever label and wherever it
\* starts, for every text.
THEOREM EveryWordCountedHolds == Spec => []EveryWordCounted
<1>1. WorkInv => EveryWordCounted
  <2> SUFFICES ASSUME WorkInv, NEW w \in Busy
               PROVE  WordMatches[job[w]] = OccurrencesIn[job[w]]
    BY DEF EveryWordCounted
  <2>1. job[w] \in Domain
    BY DEF WorkInv, TypeOK, Busy
  <2> QED
    BY <2>1, WordMatchesAre
<1> QED
  BY <1>1, WorkInit, WorkStep, PTL DEF Spec
=============================================================================
