----------------------------- MODULE Proxy_proofs -----------------------------
(***************************************************************************)
(* For any domains, workers, gravity threads, cap and faults: Proxy keeps   *)
(* its types, conserves the units of the gravity semaphore, never has two   *)
(* checks of one domain under way or a claim without an owner, and          *)
(* implements AskOnce; what the published files curate is what queries are  *)
(* decided by.  Under conditions that the theorems name: cached verdicts    *)
(* agree with the tree, a domain is learned once, and what is learned is    *)
(* blocked unless a race that is named has undone it.                       *)
(***************************************************************************)
EXTENDS Proxy, TLAPS, FiniteSetTheorems

-----------------------------------------------------------------------------
(***************************************************************************)
(* The types of what the steps are made of.                                 *)
(***************************************************************************)
LEMMA RequestType == NoRequest \in Request
BY BlockTreeAssumption DEF NoRequest, Request, Entry, Status

LEMMA JobType == NoJob \in Job
BY BlockTreeAssumption DEF NoJob, Job

LEMMA EmptyTreeType == EmptyTree \in [Domain -> Entry]
BY DEF EmptyTree, Entry

LEMMA ListsType == Lists \subseteq [Domain -> Entry]
BY ProxyAssumption

LEMMA LookupType == \A t, d : Lookup(t, d) \in Entry
BY DEF Lookup, Entry, Status

LEMMA LoadType ==
    ASSUME NEW t, NEW rows
    PROVE  t \in [Domain -> Entry] =>
             LoadBlocklist(t, rows) \subseteq [Domain -> Entry]
BY DEF LoadBlocklist

LEMMA InsertLiveType ==
    ASSUME NEW t \in [Domain -> Entry], NEW d \in Domain, NEW s \in Status,
           NEW r \in InsertLive(t, d, s)
    PROVE  r.tree \in [Domain -> Entry] /\ r.ok \in BOOLEAN
<1>1. AfterFailedInsert(t[d]) \subseteq Entry
  BY DEF AfterFailedInsert, Entry
<1>2. s \in Entry
  BY DEF Entry
<1>3. CASE Insertable(d)
  <2>1. CASE r = [tree |-> [t EXCEPT ![d] = s], ok |-> TRUE]
    BY <1>2, <2>1
  <2>2. ASSUME NEW e \in AfterFailedInsert(t[d]),
               r = [tree |-> [t EXCEPT ![d] = e], ok |-> FALSE]
        PROVE  r.tree \in [Domain -> Entry] /\ r.ok \in BOOLEAN
    BY <1>1, <2>2
  <2> QED
    BY <1>3, <2>1, <2>2 DEF InsertLive
<1>4. CASE ~Insertable(d)
  <2>1. r = [tree |-> t, ok |-> FALSE]
    BY <1>4 DEF InsertLive
  <2> QED
    BY <2>1
<1> QED
  BY <1>3, <1>4

-----------------------------------------------------------------------------
(***************************************************************************)
(* Type correctness.  The type invariant in the parts that the steps leave  *)
(* alone together.                                                          *)
(***************************************************************************)
FilesType ==
    /\ blocklist \in Lists
    /\ learned \in [Domain -> 0 .. 2]
    /\ unread \in BOOLEAN
    /\ edits \in 0 .. MaxEdits /\ crashes \in 0 .. MaxCrashes
TreesType ==
    /\ tree \in [Domain -> Entry] /\ loaded \in [Domain -> Entry]
    /\ gen \in Nat /\ late \in BOOLEAN /\ lapsed \subseteq Domain
CachesType ==
    query_cache \in [Domain -> Entry] /\ answer_cache \in SUBSET Domain
GravityType ==
    /\ asked \in [Domain -> {"none", "PENDING", "DONE"}]
    /\ sem \in Nat
    /\ gpc \in [Thread -> ThreadPc] /\ job \in [Thread -> Job]
WorkersType == pc \in [Worker -> WorkerPc] /\ req \in [Worker -> Request]
ReloaderType ==
    rpc \in ReloadPc /\ builder \in [Domain -> Entry] /\ missed \subseteq Domain

LEMMA TypeParts ==
    TypeOK <=> /\ FilesType /\ TreesType /\ CachesType
               /\ GravityType /\ WorkersType /\ ReloaderType
BY DEF TypeOK, FilesType, TreesType, CachesType, GravityType, WorkersType,
       ReloaderType

LEMMA TypePartsNext ==
    FilesType' /\ TreesType' /\ CachesType' /\ GravityType' /\ WorkersType'
        /\ ReloaderType' => TypeOK'
BY DEF TypeOK, FilesType, TreesType, CachesType, GravityType, WorkersType,
       ReloaderType

LEMMA PartsKept ==
    /\ FilesType /\ UNCHANGED files => FilesType'
    /\ TreesType /\ UNCHANGED trees => TreesType'
    /\ CachesType /\ UNCHANGED caches => CachesType'
    /\ GravityType /\ UNCHANGED gravity => GravityType'
    /\ WorkersType /\ UNCHANGED workers => WorkersType'
    /\ ReloaderType /\ UNCHANGED reloader => ReloaderType'
BY DEF FilesType, TreesType, CachesType, GravityType, WorkersType, ReloaderType,
       files, trees, caches, gravity, workers, reloader

LEMMA TypeInit == Init => TypeOK
<1> SUFFICES ASSUME Init PROVE TypeOK
  OBVIOUS
<1>1. FilesType
  <2>1. edits \in 0 .. MaxEdits /\ crashes \in 0 .. MaxCrashes
    BY ProxyAssumption DEF Init
  <2>2. learned \in [Domain -> 0 .. 2]
    BY DEF Init
  <2> QED
    BY <2>1, <2>2 DEF Init, FilesType
<1>2. TreesType
  BY EmptyTreeType, LoadType DEF Init, TreesType
<1>3. CachesType
  BY EmptyTreeType DEF Init, CachesType
<1>4. GravityType
  BY JobType, ProxyAssumption
     DEF Init, GravityType, NothingAsked, AllIdle, ThreadPc
<1>5. WorkersType
  BY RequestType DEF Init, WorkersType, AllIdle, WorkerPc
<1>6. ReloaderType
  BY EmptyTreeType DEF Init, ReloaderType, ReloadPc
<1> QED
  BY <1>1, <1>2, <1>3, <1>4, <1>5, <1>6, TypeParts, PartsKept

LEMMA GotoType ==
    ASSUME NEW w \in Worker, NEW p \in WorkerPc, WorkersType, Goto(w, p)
    PROVE  pc' \in [Worker -> WorkerPc]
BY DEF WorkersType, Goto

LEMMA FinishType ==
    ASSUME NEW w \in Worker, WorkersType, Finish(w)
    PROVE  WorkersType'
BY RequestType DEF WorkersType, Finish, Goto, WorkerPc

LEMMA WorkerTypeStep ==
    ASSUME TypeOK, NEW w \in Worker, Receive(w) \/ WorkerStep(w)
    PROVE  TypeOK'
<1>0. /\ FilesType /\ TreesType /\ CachesType /\ GravityType /\ WorkersType
      /\ ReloaderType
  BY TypeParts
<1> USE <1>0
<1>1. CASE Receive(w)
  <2>1. WorkersType'
    BY <1>1 DEF Receive, Goto, WorkersType, TreesType, WorkerPc, Request, Entry
  <2> QED
    BY <1>1, <2>1, TypePartsNext, PartsKept DEF Receive
<1>2. CASE CheckCache(w)
  <2>1. req[w].dom \in Domain
    BY DEF WorkersType, Request
  <2>a. PICK hit \in {query_cache[req[w].dom], "none"} :
          /\ req' = [req EXCEPT ![w].verdict = hit]
          /\ Goto(w, IF hit = "none" THEN "lookup" ELSE "decide")
    BY <1>2 DEF CheckCache
  <2>b. hit \in Entry
    BY <2>1 DEF CachesType, Entry
  <2>2. WorkersType'
    BY <2>1, <2>a, <2>b DEF Goto, WorkersType, WorkerPc, Request
  <2> QED
    BY <1>2, <2>2, TypePartsNext, PartsKept DEF CheckCache
<1>3. CASE LookupTree(w)
  <2> DEFINE v == Lookup(tree, req[w].dom)
  <2>a. v \in Entry /\ gen \in Int /\ req[w] \in Request
    BY LookupType DEF TreesType, WorkersType
  <2> HIDE DEF v
  <2>b. [req[w] EXCEPT !.verdict = v, !.seen = gen] \in Request
    BY <2>a DEF Request
  <2>c. /\ req' = [req EXCEPT ![w] = [req[w] EXCEPT !.verdict = v, !.seen = gen]]
        /\ Goto(w, "fill_cache") \/ Goto(w, "decide")
    BY <1>3 DEF LookupTree, v, WorkersType
  <2>d. pc' \in [Worker -> WorkerPc]
    BY <2>c, GotoType DEF WorkerPc
  <2>1. WorkersType'
    BY <2>b, <2>c, <2>d DEF WorkersType
  <2> QED
    BY <1>3, <2>1, TypePartsNext, PartsKept DEF LookupTree
<1>4. CASE FillCache(w)
  <2>1. req[w] \in Request
    BY DEF WorkersType
  <2>2. CachesType'
    BY <1>4, <2>1 DEF FillCache, CachesType, Request
  <2>3. TreesType'
    BY <1>4 DEF FillCache, TreesType
  <2>4. WorkersType'
    BY <1>4 DEF FillCache, Goto, WorkersType, WorkerPc
  <2> QED
    BY <1>4, <2>2, <2>3, <2>4, TypePartsNext, PartsKept DEF FillCache
<1>5. CASE Block(w)
  BY <1>5, FinishType, TypePartsNext, PartsKept DEF Block
<1>6. CASE Pass(w)
  <2>1. WorkersType'
    BY <1>6 DEF Pass, Goto, WorkersType, WorkerPc
  <2> QED
    BY <1>6, <2>1, TypePartsNext, PartsKept DEF Pass
<1>7. CASE FlagForReview(w)
  <2>1. req[w].dom \in Domain
    BY DEF WorkersType, Request
  <2>2. TreesType'
    BY <1>7, <2>1, InsertLiveType DEF FlagForReview, TreesType, Status
  <2>3. WorkersType'
    BY <1>7 DEF FlagForReview, Goto, WorkersType, WorkerPc
  <2> QED
    BY <1>7, <2>2, <2>3, TypePartsNext, PartsKept DEF FlagForReview
<1>8. CASE TryClaim(w)
  <2>1. GravityType'
    BY <1>8 DEF TryClaim, GravityType
  <2>2. WorkersType'
    BY <1>8 DEF TryClaim, Goto, WorkersType, WorkerPc
  <2> QED
    BY <1>8, <2>1, <2>2, TypePartsNext, PartsKept DEF TryClaim
<1>9. CASE QueueGravityCheck(w)
  <2>1. GravityType'
    BY <1>9 DEF QueueGravityCheck, GravityType
  <2>2. WorkersType'
    BY <1>9 DEF QueueGravityCheck, Goto, WorkersType, WorkerPc
  <2> QED
    BY <1>9, <2>1, <2>2, TypePartsNext, PartsKept DEF QueueGravityCheck
<1>10. CASE Unclaim(w)
  <2>1. GravityType'
    BY <1>10 DEF Unclaim, GravityType
  <2>2. WorkersType'
    BY <1>10 DEF Unclaim, Goto, WorkersType, WorkerPc
  <2> QED
    BY <1>10, <2>1, <2>2, TypePartsNext, PartsKept DEF Unclaim
<1>11. CASE Spawn(w)
  <2>1. req[w] \in Request
    BY DEF WorkersType
  <2>2. [dom |-> req[w].dom, seen |-> req[w].seen, ok |-> FALSE] \in Job
    BY <2>1 DEF Request, Job
  <2>3. GravityType'
    <3>1. "ask" \in ThreadPc
      BY DEF ThreadPc
    <3>2. gpc' \in [Thread -> ThreadPc] /\ job' \in [Thread -> Job]
      BY <1>11, <2>2, <3>1 DEF Spawn, GravityType
    <3>3. asked' = asked /\ sem' \in Nat
      BY <1>11 DEF Spawn, GravityType
    <3> QED
      BY <3>2, <3>3 DEF GravityType
  <2>4. WorkersType'
    BY <1>11 DEF Spawn, Goto, WorkersType, WorkerPc
  <2> QED
    BY <1>11, <2>3, <2>4, TypePartsNext, PartsKept DEF Spawn
<1>12. CASE TryAnswerCache(w)
  <2>1. WorkersType'
    BY <1>12, FinishType DEF TryAnswerCache, Goto, WorkersType, WorkerPc
  <2> QED
    BY <1>12, <2>1, TypePartsNext, PartsKept DEF TryAnswerCache
<1>13. CASE Forward(w)
  <2>1. WorkersType'
    BY <1>13, FinishType DEF Forward, Goto, WorkersType, WorkerPc
  <2> QED
    BY <1>13, <2>1, TypePartsNext, PartsKept DEF Forward
<1>14. CASE StoreAnswer(w)
  <2>1. req[w].dom \in Domain
    BY DEF WorkersType, Request
  <2>2. CachesType'
    BY <1>14, <2>1 DEF StoreAnswer, CachesType
  <2> QED
    BY <1>14, <2>2, FinishType, TypePartsNext, PartsKept DEF StoreAnswer
<1> QED
  BY <1>1, <1>2, <1>3, <1>4, <1>5, <1>6, <1>7, <1>8, <1>9, <1>10, <1>11, <1>12,
     <1>13, <1>14 DEF WorkerStep

LEMMA ThreadTypeStep ==
    ASSUME TypeOK, NEW t \in Thread, ThreadStep(t)
    PROVE  TypeOK'
<1>0. /\ FilesType /\ TreesType /\ CachesType /\ GravityType /\ WorkersType
      /\ ReloaderType
  BY TypeParts
<1>a. job[t] \in Job /\ job[t].dom \in Domain
  BY <1>0 DEF GravityType, Job
<1> USE <1>0
<1>1. CASE AskPi(t)
  <2>1. GravityType'
    BY <1>1 DEF AskPi, GotoT, GravityType, ThreadPc
  <2> QED
    BY <1>1, <2>1, TypePartsNext, PartsKept DEF AskPi, workers
<1>2. CASE Promote(t)
  <2>1. PICK r \in InsertLive(tree, job[t].dom, "B") :
          tree' = r.tree /\ job' = [job EXCEPT ![t].ok = r.ok]
    BY <1>2 DEF Promote
  <2>2. r.tree \in [Domain -> Entry] /\ r.ok \in BOOLEAN
    BY <1>a, InsertLiveType DEF TreesType, Status
  <2>3. TreesType'
    BY <1>2, <2>1, <2>2 DEF Promote, TreesType
  <2>4. GravityType'
    BY <1>2, <1>a, <2>1, <2>2 DEF Promote, GotoT, GravityType, ThreadPc, Job
  <2> QED
    BY <1>2, <2>3, <2>4, TypePartsNext, PartsKept DEF Promote
<1>3. CASE Invalidate(t)
  <2>1. GravityType' /\ CachesType'
    BY <1>3 DEF Invalidate, GotoT, GravityType, CachesType, ThreadPc
  <2> QED
    BY <1>3, <2>1, TypePartsNext, PartsKept DEF Invalidate
<1>4. CASE AppendLearned(t)
  <2>1. GravityType'
    BY <1>4 DEF AppendLearned, GotoT, GravityType, ThreadPc
  <2>2. FilesType'
    BY <1>4 DEF AppendLearned, FilesType
  <2>3. missed' \subseteq Domain /\ ReloaderType'
    <3>1. job[t].dom \in Domain
      BY DEF GravityType, Job
    <3> QED
      BY <1>4, <3>1 DEF AppendLearned, ReloaderType
  <2> QED
    BY <1>4, <2>1, <2>2, <2>3, TypePartsNext, PartsKept DEF AppendLearned
<1>5. CASE MarkDone(t)
  <2>1. GravityType'
    BY <1>5 DEF MarkDone, GotoT, GravityType, ThreadPc
  <2> QED
    BY <1>5, <2>1, TypePartsNext, PartsKept DEF MarkDone
<1>6. CASE Release(t)
  <2>1. GravityType'
    BY <1>6, JobType DEF Release, GotoT, GravityType, ThreadPc
  <2> QED
    BY <1>6, <2>1, TypePartsNext, PartsKept DEF Release
<1> QED
  BY <1>1, <1>2, <1>3, <1>4, <1>5, <1>6 DEF ThreadStep

LEMMA ReloadTypeStep ==
    ASSUME TypeOK, ReloadStep
    PROVE  TypeOK'
<1>0. /\ FilesType /\ TreesType /\ CachesType /\ GravityType /\ WorkersType
      /\ ReloaderType
  BY TypeParts
<1> USE <1>0
<1>1. CASE StartReloadThread
  <2>1. FilesType' /\ ReloaderType'
    BY <1>1 DEF StartReloadThread, FilesType, ReloaderType, ReloadPc
  <2> QED
    BY <1>1, <2>1, TypePartsNext, PartsKept DEF StartReloadThread
<1>2. CASE PollBlocklist
  <2>1. FilesType' /\ ReloaderType'
    BY <1>2 DEF PollBlocklist, FilesType, ReloaderType, ReloadPc
  <2> QED
    BY <1>2, <2>1, TypePartsNext, PartsKept DEF PollBlocklist
<1>3. CASE ReadBlocklist
  <2>1. ReloaderType'
    BY <1>3, EmptyTreeType, LoadType DEF ReadBlocklist, ReloaderType, ReloadPc
  <2> QED
    BY <1>3, <2>1, TypePartsNext, PartsKept DEF ReadBlocklist
<1>4. CASE ReadLearned
  <2>1. ReloaderType'
    BY <1>4, LoadType DEF ReadLearned, ReloaderType, ReloadPc
  <2> QED
    BY <1>4, <2>1, TypePartsNext, PartsKept DEF ReadLearned
<1>5. CASE SwapTree
  <2>1. gen' \in Nat
    BY <1>5 DEF SwapTree, TreesType
  <2>4. lapsed' \subseteq Domain
    <3>1. \A t \in Thread : job[t].dom \in Domain
      BY DEF GravityType, Job
    <3> QED
      BY <1>5, <3>1 DEF SwapTree, ReloaderType
  <2>2. TreesType'
    BY <1>5, <2>1, <2>4 DEF SwapTree, TreesType, ReloaderType
  <2>3. ReloaderType'
    BY <1>5, EmptyTreeType DEF SwapTree, ReloaderType, ReloadPc
  <2> QED
    BY <1>5, <2>2, <2>3, TypePartsNext, PartsKept DEF SwapTree
<1>6. CASE ClearVerdicts
  <2>1. CachesType' /\ ReloaderType'
    BY <1>6, EmptyTreeType DEF ClearVerdicts, CachesType, ReloaderType, ReloadPc
  <2> QED
    BY <1>6, <2>1, TypePartsNext, PartsKept DEF ClearVerdicts
<1>7. CASE ClearAnswers
  <2>1. CachesType' /\ ReloaderType'
    BY <1>7 DEF ClearAnswers, CachesType, ReloaderType, ReloadPc
  <2> QED
    BY <1>7, <2>1, TypePartsNext, PartsKept DEF ClearAnswers
<1> QED
  BY <1>1, <1>2, <1>3, <1>4, <1>5, <1>6, <1>7 DEF ReloadStep

LEMMA EnvironmentTypeStep ==
    ASSUME TypeOK, Environment
    PROVE  TypeOK'
<1>0. /\ FilesType /\ TreesType /\ CachesType /\ GravityType /\ WorkersType
      /\ ReloaderType
  BY TypeParts
<1> USE <1>0
<1>1. CASE EditBlocklist
  <2>1. edits' \in 0 .. MaxEdits
    BY <1>1, ProxyAssumption DEF EditBlocklist, FilesType
  <2>2. FilesType'
    BY <1>1, <2>1 DEF EditBlocklist, FilesType
  <2> QED
    BY <1>1, <2>2, TypePartsNext, PartsKept DEF EditBlocklist
<1>2. CASE EvictVerdict
  <2>1. CachesType'
    BY <1>2 DEF EvictVerdict, CachesType, Entry
  <2> QED
    BY <1>2, <2>1, TypePartsNext, PartsKept DEF EvictVerdict
<1>3. CASE EvictAnswer
  <2>1. CachesType'
    BY <1>3 DEF EvictAnswer, CachesType
  <2> QED
    BY <1>3, <2>1, TypePartsNext, PartsKept DEF EvictAnswer
<1>4. CASE Crash
  <2>a. crashes' \in 0 .. MaxCrashes
    BY <1>4, ProxyAssumption DEF Crash, FilesType
  <2>1. FilesType'
    BY <1>4, <2>a DEF Crash, FilesType
  <2>2. TreesType'
    BY <1>4, EmptyTreeType, LoadType DEF Crash, TreesType
  <2>3. CachesType'
    BY <1>4, EmptyTreeType DEF Crash, CachesType
  <2>4. GravityType'
    BY <1>4, JobType, ProxyAssumption
       DEF Crash, GravityType, NothingAsked, AllIdle, ThreadPc
  <2>5. WorkersType'
    BY <1>4, RequestType DEF Crash, WorkersType, AllIdle, WorkerPc
  <2>6. ReloaderType'
    BY <1>4, EmptyTreeType DEF Crash, ReloaderType, ReloadPc
  <2> QED
    BY <2>1, <2>2, <2>3, <2>4, <2>5, <2>6, TypePartsNext, PartsKept
<1> QED
  BY <1>1, <1>2, <1>3, <1>4 DEF Environment

LEMMA TypeStep == TypeOK /\ [Next]_vars => TypeOK'
<1> SUFFICES ASSUME TypeOK, [Next]_vars PROVE TypeOK'
  OBVIOUS
<1>1. CASE UNCHANGED vars
  BY <1>1, TypeParts, TypePartsNext, PartsKept DEF vars
<1> QED
  BY <1>1, WorkerTypeStep, ThreadTypeStep, ReloadTypeStep, EnvironmentTypeStep
     DEF Next

\* Every variable of the decision core has its type in every reachable state.
THEOREM TypeCorrect == Spec => []TypeOK
BY TypeInit, TypeStep, PTL DEF Spec

-----------------------------------------------------------------------------
(***************************************************************************)
(* The semaphore.  SemaphoreConserved is inductive once the types are known. *)
(***************************************************************************)
Spawning == {w \in Worker : pc[w] = "spawn"}
Live     == {t \in Thread : gpc[t] # "idle"}

SemInv == TypeOK /\ SemaphoreConserved

LEMMA FiniteCounts ==
    /\ IsFiniteSet(Spawning) /\ IsFiniteSet(Live)
    /\ Cardinality(Spawning) \in Nat /\ Cardinality(Live) \in Nat
<1>1. Spawning \in SUBSET Worker /\ Live \in SUBSET Thread
  BY DEF Spawning, Live
<1>2. IsFiniteSet(Worker) /\ IsFiniteSet(Thread)
  BY ProxyAssumption
<1>3. IsFiniteSet(Spawning) /\ IsFiniteSet(Live)
  BY <1>1, <1>2, FS_Subset
<1> QED
  BY <1>3, FS_CardinalityType

LEMMA ConservedSum ==
    SemaphoreConserved <=> sem + Cardinality(Spawning) + Cardinality(Live) = MaxGravity
BY DEF SemaphoreConserved, Spawning, Live

LEMMA ConservedSumNext ==
    SemaphoreConserved' <=>
        sem' + Cardinality(Spawning') + Cardinality(Live') = MaxGravity
BY DEF SemaphoreConserved, Spawning, Live

LEMMA SemInit == Init => SemInv
<1> SUFFICES ASSUME Init PROVE SemaphoreConserved
  BY TypeInit DEF SemInv
<1>1. Spawning = {} /\ Live = {}
  BY DEF Init, AllIdle, Spawning, Live
<1>2. sem = MaxGravity /\ MaxGravity \in Nat
  BY ProxyAssumption DEF Init
<1> QED
  BY <1>1, <1>2, FS_EmptySet, ConservedSum

\* A worker step other than the poll and the thread start leaves the sum alone.
LEMMA SemOtherWorker ==
    ASSUME TypeOK, NEW w \in Worker, Receive(w) \/ WorkerStep(w),
           ~QueueGravityCheck(w), ~Spawn(w)
    PROVE  Spawning' = Spawning /\ Live' = Live /\ sem' = sem
<1>1. pc \in [Worker -> WorkerPc]
  BY DEF TypeOK
<1>2. gpc' = gpc /\ sem' = sem
  BY DEF Receive, WorkerStep, CheckCache, LookupTree, FillCache, Block, Pass,
         FlagForReview, TryClaim, Unclaim, TryAnswerCache, Forward, StoreAnswer,
         gravity
<1>3. PICK p \in WorkerPc \ {"spawn"} : pc' = [pc EXCEPT ![w] = p]
  BY DEF Receive, WorkerStep, CheckCache, LookupTree, FillCache, Block, Pass,
         FlagForReview, TryClaim, Unclaim, TryAnswerCache, Forward, StoreAnswer,
         Goto, Finish, WorkerPc
<1>4. pc[w] # "spawn"
  BY DEF Receive, WorkerStep, CheckCache, LookupTree, FillCache, Block, Pass,
         FlagForReview, TryClaim, Unclaim, TryAnswerCache, Forward, StoreAnswer
<1> QED
  BY <1>1, <1>2, <1>3, <1>4 DEF Spawning, Live

LEMMA SemOtherThread ==
    ASSUME TypeOK, NEW t \in Thread, ThreadStep(t), ~Release(t)
    PROVE  Spawning' = Spawning /\ Live' = Live /\ sem' = sem
<1>1. gpc \in [Thread -> ThreadPc]
  BY DEF TypeOK
<1>2. pc' = pc /\ sem' = sem
  BY DEF ThreadStep, AskPi, Promote, Invalidate, AppendLearned, MarkDone, workers
<1>3. PICK p \in ThreadPc \ {"idle"} : gpc' = [gpc EXCEPT ![t] = p]
  BY DEF ThreadStep, AskPi, Promote, Invalidate, AppendLearned, MarkDone, GotoT,
         ThreadPc
<1>4. gpc[t] # "idle"
  BY DEF ThreadStep, AskPi, Promote, Invalidate, AppendLearned, MarkDone
<1> QED
  BY <1>1, <1>2, <1>3, <1>4 DEF Spawning, Live

LEMMA SemStep == SemInv /\ [Next]_vars => SemInv'
<1> SUFFICES ASSUME TypeOK, SemaphoreConserved, [Next]_vars
             PROVE  SemaphoreConserved'
  BY TypeStep DEF SemInv
<1>0. /\ sem \in Nat /\ MaxGravity \in Nat
      /\ pc \in [Worker -> WorkerPc] /\ gpc \in [Thread -> ThreadPc]
      /\ sem + Cardinality(Spawning) + Cardinality(Live) = MaxGravity
      /\ Cardinality(Spawning) \in Nat /\ Cardinality(Live) \in Nat
      /\ IsFiniteSet(Spawning) /\ IsFiniteSet(Live)
  BY ProxyAssumption, FiniteCounts, ConservedSum DEF TypeOK
<1>1. ASSUME Spawning' = Spawning, Live' = Live, sem' = sem
      PROVE  SemaphoreConserved'
  BY <1>0, <1>1, ConservedSumNext
<1>2. ASSUME NEW w \in Worker, QueueGravityCheck(w)
      PROVE  SemaphoreConserved'
  <2>1. CASE sem = 0
    <3>1. Spawning' = Spawning /\ Live' = Live /\ sem' = sem
      BY <1>0, <1>2, <2>1 DEF QueueGravityCheck, Goto, Spawning, Live
    <3> QED
      BY <1>1, <3>1
  <2>2. CASE sem # 0
    <3>1. Spawning' = Spawning \cup {w} /\ w \notin Spawning
      BY <1>0, <1>2, <2>2 DEF QueueGravityCheck, Goto, Spawning
    <3>2. Live' = Live /\ sem' = sem - 1
      BY <1>2, <2>2 DEF QueueGravityCheck, Live
    <3>3. Cardinality(Spawning') = Cardinality(Spawning) + 1
      BY <1>0, <3>1, FS_AddElement
    <3> QED
      BY <1>0, <3>2, <3>3, ConservedSumNext
  <2> QED
    BY <2>1, <2>2
<1>3. ASSUME NEW w \in Worker, Spawn(w)
      PROVE  SemaphoreConserved'
  <2>1. Spawning' = Spawning \ {w} /\ w \in Spawning
    BY <1>0, <1>3 DEF Spawn, Goto, Spawning
  <2>2. Cardinality(Spawning') = Cardinality(Spawning) - 1
    BY <1>0, <2>1, FS_RemoveElement
  <2>3. CASE sem' = sem + 1 /\ gpc' = gpc
    <3>1. Live' = Live
      BY <2>3 DEF Live
    <3> QED
      BY <1>0, <2>2, <2>3, <3>1, ConservedSumNext
  <2>4. ASSUME NEW t \in Thread, gpc[t] = "idle",
               gpc' = [gpc EXCEPT ![t] = "ask"], sem' = sem
        PROVE  SemaphoreConserved'
    <3>1. Live' = Live \cup {t} /\ t \notin Live
      BY <1>0, <2>4 DEF Live
    <3>2. Cardinality(Live') = Cardinality(Live) + 1
      BY <1>0, <3>1, FS_AddElement
    <3> QED
      BY <1>0, <2>2, <2>4, <3>2, ConservedSumNext
  <2> QED
    BY <1>3, <2>3, <2>4 DEF Spawn
<1>4. ASSUME NEW t \in Thread, Release(t)
      PROVE  SemaphoreConserved'
  <2>1. Live' = Live \ {t} /\ t \in Live
    BY <1>0, <1>4 DEF Release, GotoT, Live
  <2>2. Spawning' = Spawning /\ sem' = sem + 1
    BY <1>4 DEF Release, workers, Spawning
  <2>3. Cardinality(Live') = Cardinality(Live) - 1
    BY <1>0, <2>1, FS_RemoveElement
  <2> QED
    BY <1>0, <2>2, <2>3, ConservedSumNext
<1>5. CASE ReloadStep \/ EditBlocklist \/ EvictVerdict \/ EvictAnswer
           \/ UNCHANGED vars
  <2>1. pc' = pc /\ gpc' = gpc /\ sem' = sem
    BY <1>5 DEF ReloadStep, StartReloadThread, PollBlocklist, ReadBlocklist,
         ReadLearned, SwapTree, ClearVerdicts, ClearAnswers, EditBlocklist,
         EvictVerdict, EvictAnswer, vars, workers, gravity
  <2>2. Spawning' = Spawning /\ Live' = Live
    BY <2>1 DEF Spawning, Live
  <2> QED
    BY <1>1, <2>1, <2>2
<1>6. CASE Crash
  <2>1. Spawning' = {} /\ Live' = {} /\ sem' = MaxGravity
    BY <1>6 DEF Crash, AllIdle, Spawning, Live
  <2> QED
    BY <1>0, <2>1, FS_EmptySet, ConservedSumNext
<1> QED
  BY <1>1, <1>2, <1>3, <1>4, <1>5, <1>6, SemOtherWorker, SemOtherThread
     DEF Next, Environment

\* The cap on concurrent gravity checks is never exceeded and never leaks away,
\* whatever fails and however many workers and threads there are.
THEOREM SemaphoreConservedHolds == Spec => []SemaphoreConserved
<1>1. SemInv => SemaphoreConserved
  BY DEF SemInv
<1> QED
  BY SemInit, SemStep, <1>1, PTL DEF Spec

-----------------------------------------------------------------------------
(***************************************************************************)
(* One check per domain.  The claim is the PENDING mark: whoever has a check *)
(* under way, or is about to start one, holds the mark of its domain, so a   *)
(* new claim can only be about a domain nobody has.                         *)
(***************************************************************************)
OwnersPending ==
    /\ \A t \in Running : asked[job[t].dom] = "PENDING"
    /\ \A w \in Claiming : asked[req[w].dom] = "PENDING"

CheckInv == TypeOK /\ OneCheckPerDomain /\ OwnersPending

LEMMA CheckInit == Init => CheckInv
<1> SUFFICES ASSUME Init PROVE OneCheckPerDomain /\ OwnersPending
  BY TypeInit DEF CheckInv
<1>1. Running = {} /\ Claiming = {}
  BY DEF Init, AllIdle, Running, Claiming
<1> QED
  BY <1>1 DEF OneCheckPerDomain, OwnersPending

\* A step after which every owner of a claim is one that had it before, with its
\* mark in place, keeps the invariant.
LEMMA OwnersKept ==
    ASSUME OneCheckPerDomain, OwnersPending,
           Running' \subseteq Running, Claiming' \subseteq Claiming,
           \A t \in Running' : /\ job'[t].dom = job[t].dom
                               /\ asked'[job[t].dom] = "PENDING",
           \A w \in Claiming' : /\ req'[w].dom = req[w].dom
                                /\ asked'[req[w].dom] = "PENDING"
    PROVE  OneCheckPerDomain' /\ OwnersPending'
BY DEF OneCheckPerDomain, OwnersPending

\* The special case of a step that leaves the asked cache and the threads alone.
LEMMA OwnersKeptWorker ==
    ASSUME OneCheckPerDomain, OwnersPending, UNCHANGED gravity,
           Claiming' \subseteq Claiming,
           \A w \in Claiming' : req'[w].dom = req[w].dom
    PROVE  OneCheckPerDomain' /\ OwnersPending'
<1>1. Running' = Running /\ asked' = asked /\ job' = job
  BY DEF gravity, Running
<1> QED
  BY <1>1, OwnersKept DEF OwnersPending

LEMMA CheckWorker ==
    ASSUME CheckInv, NEW w \in Worker, Receive(w) \/ WorkerStep(w)
    PROVE  OneCheckPerDomain' /\ OwnersPending'
<1>0. /\ OneCheckPerDomain /\ OwnersPending
      /\ pc \in [Worker -> WorkerPc] /\ req \in [Worker -> Request]
      /\ gpc \in [Thread -> ThreadPc] /\ job \in [Thread -> Job]
      /\ asked \in [Domain -> {"none", "PENDING", "DONE"}]
      /\ req[w].dom \in Domain
      /\ \A x \in Worker : req[x].dom \in Domain
      /\ \A t \in Thread : job[t].dom \in Domain
  BY DEF CheckInv, TypeOK, Request, Job
<1>1. CASE Receive(w) \/ CheckCache(w) \/ LookupTree(w) \/ FillCache(w)
           \/ Block(w) \/ Pass(w) \/ FlagForReview(w)
           \/ TryAnswerCache(w) \/ Forward(w) \/ StoreAnswer(w)
  <2>1. UNCHANGED gravity
    BY <1>1 DEF Receive, CheckCache, LookupTree, FillCache, Block, Pass,
         FlagForReview, TryAnswerCache, Forward, StoreAnswer
  <2>2. PICK p : pc' = [pc EXCEPT ![w] = p] /\ p \notin {"queue", "spawn", "unclaim"}
    BY <1>1 DEF Receive, CheckCache, LookupTree, FillCache, Block, Pass,
         FlagForReview, TryAnswerCache, Forward, StoreAnswer, Goto, Finish
  <2>3. \A x \in Worker : x # w => req'[x] = req[x]
    BY <1>0, <1>1 DEF Receive, CheckCache, LookupTree, FillCache, Block, Pass,
         FlagForReview, TryAnswerCache, Forward, StoreAnswer, Finish
  <2>4. Claiming' \subseteq Claiming /\ w \notin Claiming'
    BY <1>0, <2>2 DEF Claiming
  <2>5. \A x \in Claiming' : req'[x].dom = req[x].dom
    BY <2>3, <2>4 DEF Claiming
  <2> QED
    BY <1>0, <2>1, <2>4, <2>5, OwnersKeptWorker
<1>2. CASE TryClaim(w)
  <2>1. CASE Goto(w, "answer") /\ asked' = asked
    <3>1. UNCHANGED gravity /\ req' = req
      BY <1>2, <2>1 DEF TryClaim, gravity
    <3>2. Claiming' \subseteq Claiming
      BY <1>0, <2>1 DEF Goto, Claiming
    <3> QED
      BY <1>0, <3>1, <3>2, OwnersKeptWorker
  <2>2. CASE /\ asked[req[w].dom] = "none" /\ Goto(w, "queue")
             /\ asked' = [asked EXCEPT ![req[w].dom] = "PENDING"]
    <3>1. Running' = Running /\ job' = job /\ req' = req
      BY <1>2 DEF TryClaim, Running
    <3>2. Claiming' = Claiming \cup {w}
      BY <1>0, <2>2 DEF Goto, Claiming
    <3>3. /\ \A t \in Running : job[t].dom # req[w].dom
          /\ \A x \in Claiming : req[x].dom # req[w].dom
      BY <1>0, <2>2 DEF OwnersPending
    <3>4. asked'[req[w].dom] = "PENDING"
      BY <1>0, <2>2
    <3>5. /\ \A t \in Running : asked'[job[t].dom] = "PENDING"
          /\ \A x \in Claiming : asked'[req[x].dom] = "PENDING"
      BY <1>0, <2>2, <3>3 DEF OwnersPending, Running, Claiming
    <3>6. OwnersPending'
      BY <3>1, <3>2, <3>4, <3>5 DEF OwnersPending
    <3>7. OneCheckPerDomain'
      BY <1>0, <3>1, <3>2, <3>3 DEF OneCheckPerDomain
    <3> QED
      BY <3>6, <3>7
  <2> QED
    BY <1>2, <2>1, <2>2 DEF TryClaim
<1>3. CASE QueueGravityCheck(w)
  <2>1. Running' = Running /\ job' = job /\ req' = req /\ asked' = asked
    BY <1>3 DEF QueueGravityCheck, Running
  <2>2. Claiming' \subseteq Claiming
    BY <1>0, <1>3 DEF QueueGravityCheck, Goto, Claiming
  <2> QED
    BY <1>0, <2>1, <2>2, OwnersKept DEF OwnersPending
<1>4. CASE Unclaim(w)
  <2>1. Running' = Running /\ job' = job /\ req' = req
    BY <1>4 DEF Unclaim, Running
  <2>2. Claiming' = Claiming \ {w} /\ w \in Claiming
    BY <1>0, <1>4 DEF Unclaim, Goto, Claiming
  <2>3. /\ \A t \in Running : job[t].dom # req[w].dom
        /\ \A x \in Claiming' : req[x].dom # req[w].dom
    BY <1>0, <2>2 DEF OneCheckPerDomain
  <2>4. \A d \in Domain : d # req[w].dom => asked'[d] = asked[d]
    BY <1>0, <1>4 DEF Unclaim
  <2>5. /\ \A t \in Running : asked'[job[t].dom] = "PENDING"
        /\ \A x \in Claiming' : asked'[req[x].dom] = "PENDING"
    BY <1>0, <2>2, <2>3, <2>4 DEF OwnersPending, Running, Claiming
  <2> QED
    BY <1>0, <2>1, <2>2, <2>5, OwnersKept
<1>5. CASE Spawn(w)
  <2>1. req' = req /\ asked' = asked
    BY <1>5 DEF Spawn
  <2>2. Claiming' = Claiming \ {w} /\ w \in Claiming
    BY <1>0, <1>5 DEF Spawn, Goto, Claiming
  <2>3. CASE UNCHANGED <<gpc, job>>
    <3>1. Running' = Running
      BY <2>3 DEF Running
    <3> QED
      BY <1>0, <2>1, <2>2, <2>3, <3>1, OwnersKept DEF OwnersPending
  <2>4. ASSUME NEW t \in Thread, gpc[t] = "idle",
               gpc' = [gpc EXCEPT ![t] = "ask"],
               job' = [job EXCEPT ![t] =
                         [dom |-> req[w].dom, seen |-> req[w].seen, ok |-> FALSE]]
        PROVE  OneCheckPerDomain' /\ OwnersPending'
    <3>1. Running' = Running \cup {t} /\ t \notin Running
      BY <1>0, <2>4 DEF Running
    <3>2. job'[t].dom = req[w].dom
      BY <1>0, <2>4
    <3>3. \A u \in Running : job'[u] = job[u]
      BY <1>0, <2>4, <3>1 DEF Running
    <3>4. OwnersPending'
      BY <1>0, <2>1, <2>2, <3>1, <3>2, <3>3 DEF OwnersPending
    <3>5. OneCheckPerDomain'
      BY <1>0, <2>1, <2>2, <3>1, <3>2, <3>3 DEF OneCheckPerDomain
    <3> QED
      BY <3>4, <3>5
  <2> QED
    BY <1>5, <2>3, <2>4 DEF Spawn
<1> QED
  BY <1>1, <1>2, <1>3, <1>4, <1>5 DEF WorkerStep

LEMMA CheckThread ==
    ASSUME CheckInv, NEW t \in Thread, ThreadStep(t)
    PROVE  OneCheckPerDomain' /\ OwnersPending'
<1>0. /\ OneCheckPerDomain /\ OwnersPending
      /\ gpc \in [Thread -> ThreadPc] /\ job \in [Thread -> Job]
      /\ asked \in [Domain -> {"none", "PENDING", "DONE"}]
      /\ \A x \in Worker : req[x].dom \in Domain
      /\ \A u \in Thread : job[u].dom \in Domain
  BY DEF CheckInv, TypeOK, Request, Job
<1>1. Claiming' = Claiming /\ req' = req
  BY DEF ThreadStep, AskPi, Promote, Invalidate, AppendLearned, MarkDone, Release,
         workers, Claiming
<1>2. CASE AskPi(t) \/ Promote(t) \/ Invalidate(t) \/ AppendLearned(t)
  <2>1. asked' = asked
    BY <1>2 DEF AskPi, Promote, Invalidate, AppendLearned
  <2>2. \A u \in Thread : job'[u].dom = job[u].dom
    BY <1>0, <1>2 DEF AskPi, Promote, Invalidate, AppendLearned, Job
  <2>3. Running' \subseteq Running
    BY <1>0, <1>2 DEF AskPi, Promote, Invalidate, AppendLearned, GotoT, Running
  <2> QED
    BY <1>0, <1>1, <2>1, <2>2, <2>3, OwnersKept DEF OwnersPending, Running
<1>3. CASE MarkDone(t)
  <2>1. job' = job /\ Running' = Running \ {t} /\ t \in Running
    BY <1>0, <1>3 DEF MarkDone, GotoT, Running
  <2>2. \A d \in Domain : d # job[t].dom => asked'[d] = asked[d]
    BY <1>0, <1>3 DEF MarkDone
  <2>3. /\ \A u \in Running' : job[u].dom # job[t].dom
        /\ \A x \in Claiming : req[x].dom # job[t].dom
    BY <1>0, <2>1 DEF OneCheckPerDomain
  <2>4. /\ \A u \in Running' : asked'[job[u].dom] = "PENDING"
        /\ \A x \in Claiming : asked'[req[x].dom] = "PENDING"
    BY <1>0, <2>1, <2>2, <2>3 DEF OwnersPending, Running, Claiming
  <2> QED
    BY <1>0, <1>1, <2>1, <2>4, OwnersKept
<1>4. CASE Release(t)
  <2>1. asked' = asked /\ Running' = Running /\ t \notin Running
    BY <1>0, <1>4 DEF Release, GotoT, Running
  <2>2. \A u \in Running : job'[u] = job[u]
    BY <1>0, <1>4, <2>1 DEF Release, Running
  <2> QED
    BY <1>0, <1>1, <2>1, <2>2, OwnersKept DEF OwnersPending
<1> QED
  BY <1>2, <1>3, <1>4 DEF ThreadStep

LEMMA CheckStep == CheckInv /\ [Next]_vars => CheckInv'
<1> SUFFICES ASSUME CheckInv, [Next]_vars
             PROVE  OneCheckPerDomain' /\ OwnersPending'
  BY TypeStep DEF CheckInv
<1>1. CASE ReloadStep \/ EditBlocklist \/ EvictVerdict \/ EvictAnswer
           \/ UNCHANGED vars
  <2>1. pc' = pc /\ req' = req /\ UNCHANGED gravity
    BY <1>1 DEF ReloadStep, StartReloadThread, PollBlocklist, ReadBlocklist,
         ReadLearned, SwapTree, ClearVerdicts, ClearAnswers, EditBlocklist,
         EvictVerdict, EvictAnswer, vars, workers
  <2>2. Claiming' = Claiming
    BY <2>1 DEF Claiming
  <2> QED
    BY <2>1, <2>2, OwnersKeptWorker DEF CheckInv
<1>2. CASE Crash
  <2>1. Running' = {} /\ Claiming' = {}
    BY <1>2 DEF Crash, AllIdle, Running, Claiming
  <2> QED
    BY <2>1 DEF OneCheckPerDomain, OwnersPending
<1> QED
  BY <1>1, <1>2, CheckWorker, CheckThread DEF Next, Environment

\* No two checks of one domain are ever under way or about to start, for any
\* number of workers and threads and any faults.
THEOREM OneCheckPerDomainHolds == Spec => []OneCheckPerDomain
<1>1. CheckInv => OneCheckPerDomain
  BY DEF CheckInv
<1> QED
  BY CheckInit, CheckStep, <1>1, PTL DEF Spec

-----------------------------------------------------------------------------
(***************************************************************************)
(* Nobody forgets a claim.                                                  *)
(***************************************************************************)
\* A step that drops no owner and makes no domain pending keeps the owners.
LEMMA PendingKept ==
    ASSUME PendingHasOwner,
           Running \subseteq Running', Claiming \subseteq Claiming',
           \A t \in Running : job'[t].dom = job[t].dom,
           \A w \in Claiming : req'[w].dom = req[w].dom,
           \A d \in Domain : asked'[d] = "PENDING" => asked[d] = "PENDING"
    PROVE  PendingHasOwner'
BY DEF PendingHasOwner

LEMMA PendingWorker ==
    ASSUME CheckInv, PendingHasOwner, NEW w \in Worker, Receive(w) \/ WorkerStep(w)
    PROVE  PendingHasOwner'
<1>0. /\ pc \in [Worker -> WorkerPc] /\ req \in [Worker -> Request]
      /\ gpc \in [Thread -> ThreadPc] /\ job \in [Thread -> Job]
      /\ asked \in [Domain -> {"none", "PENDING", "DONE"}]
      /\ req[w].dom \in Domain
  BY DEF CheckInv, TypeOK, Request
<1>1. CASE Receive(w) \/ CheckCache(w) \/ LookupTree(w) \/ FillCache(w)
           \/ Block(w) \/ Pass(w) \/ FlagForReview(w)
           \/ TryAnswerCache(w) \/ Forward(w) \/ StoreAnswer(w)
  <2>1. UNCHANGED <<asked, gpc, job>>
    BY <1>1 DEF Receive, CheckCache, LookupTree, FillCache, Block, Pass,
         FlagForReview, TryAnswerCache, Forward, StoreAnswer, gravity
  <2>2. PICK p : pc' = [pc EXCEPT ![w] = p]
    BY <1>1 DEF Receive, CheckCache, LookupTree, FillCache, Block, Pass,
         FlagForReview, TryAnswerCache, Forward, StoreAnswer, Goto, Finish
  <2>3. \A x \in Worker : x # w => req'[x] = req[x]
    BY <1>0, <1>1 DEF Receive, CheckCache, LookupTree, FillCache, Block, Pass,
         FlagForReview, TryAnswerCache, Forward, StoreAnswer, Finish
  <2>4. w \notin Claiming
    BY <1>1 DEF Receive, CheckCache, LookupTree, FillCache, Block, Pass,
         FlagForReview, TryAnswerCache, Forward, StoreAnswer, Claiming
  <2>5. Claiming \subseteq Claiming' /\ Running' = Running
    BY <1>0, <2>1, <2>2, <2>4 DEF Claiming, Running
  <2>6. \A x \in Claiming : req'[x].dom = req[x].dom
    BY <2>3, <2>4 DEF Claiming
  <2> QED
    BY <2>1, <2>5, <2>6, PendingKept
<1>2. CASE TryClaim(w)
  <2>1. UNCHANGED <<gpc, job, req>> /\ Running' = Running
    BY <1>2 DEF TryClaim, Running
  <2>2. Claiming \subseteq Claiming'
    BY <1>0, <1>2 DEF TryClaim, Goto, Claiming
  <2>3. CASE asked' = asked
    BY <2>1, <2>2, <2>3, PendingKept
  <2>4. CASE Goto(w, "queue") /\ asked' = [asked EXCEPT ![req[w].dom] = "PENDING"]
    <3>1. w \in Claiming'
      BY <1>0, <2>4 DEF Goto, Claiming
    <3>2. \A d \in Domain : d # req[w].dom => asked'[d] = asked[d]
      BY <1>0, <2>4
    <3> QED
      BY <2>1, <2>2, <3>1, <3>2 DEF PendingHasOwner
  <2> QED
    BY <1>2, <2>3, <2>4 DEF TryClaim
<1>3. CASE QueueGravityCheck(w)
  <2>1. UNCHANGED <<asked, gpc, job, req>> /\ Running' = Running
    BY <1>3 DEF QueueGravityCheck, Running
  <2>2. Claiming \subseteq Claiming'
    BY <1>0, <1>3 DEF QueueGravityCheck, Goto, Claiming
  <2> QED
    BY <2>1, <2>2, PendingKept
<1>4. CASE Unclaim(w)
  <2>1. UNCHANGED <<gpc, job, req>> /\ Running' = Running
    BY <1>4 DEF Unclaim, Running
  <2>2. Claiming' = Claiming \ {w}
    BY <1>0, <1>4 DEF Unclaim, Goto, Claiming
  <2>3. \A d \in Domain : asked'[d] = IF d = req[w].dom THEN "none" ELSE asked[d]
    BY <1>0, <1>4 DEF Unclaim
  <2> QED
    BY <2>1, <2>2, <2>3 DEF PendingHasOwner
<1>5. CASE Spawn(w)
  <2>1. UNCHANGED <<asked, req>>
    BY <1>5 DEF Spawn
  <2>2. Claiming' = Claiming \ {w}
    BY <1>0, <1>5 DEF Spawn, Goto, Claiming
  <2>3. ASSUME NEW t \in Thread, gpc[t] = "idle",
               gpc' = [gpc EXCEPT ![t] = "ask"],
               job' = [job EXCEPT ![t] =
                         [dom |-> req[w].dom, seen |-> req[w].seen, ok |-> FALSE]]
        PROVE  PendingHasOwner'
    <3>1. Running' = Running \cup {t} /\ t \notin Running
      BY <1>0, <2>3 DEF Running
    <3>2. job'[t].dom = req[w].dom
      BY <1>0, <2>3
    <3>3. \A u \in Running : job'[u] = job[u]
      BY <1>0, <2>3, <3>1 DEF Running
    <3> QED
      BY <2>1, <2>2, <3>1, <3>2, <3>3 DEF PendingHasOwner
  <2> QED
    BY <1>5, <2>3 DEF Spawn, PendingHasOwner
<1> QED
  BY <1>1, <1>2, <1>3, <1>4, <1>5 DEF WorkerStep

LEMMA PendingThread ==
    ASSUME CheckInv, PendingHasOwner, NEW t \in Thread, ThreadStep(t)
    PROVE  PendingHasOwner'
<1>0. /\ gpc \in [Thread -> ThreadPc] /\ job \in [Thread -> Job]
      /\ asked \in [Domain -> {"none", "PENDING", "DONE"}]
      /\ job[t].dom \in Domain
  BY DEF CheckInv, TypeOK, Job
<1>1. Claiming' = Claiming /\ req' = req
  BY DEF ThreadStep, AskPi, Promote, Invalidate, AppendLearned, MarkDone, Release,
         workers, Claiming
<1>2. CASE AskPi(t) \/ Promote(t) \/ Invalidate(t) \/ AppendLearned(t)
  <2>1. asked' = asked /\ \A u \in Thread : job'[u].dom = job[u].dom
    BY <1>0, <1>2 DEF AskPi, Promote, Invalidate, AppendLearned, Job
  <2>2. PICK p \in ThreadPc \ {"idle", "release"} : gpc' = [gpc EXCEPT ![t] = p]
    BY <1>2 DEF AskPi, Promote, Invalidate, AppendLearned, GotoT, ThreadPc
  <2>3. Running \subseteq Running'
    BY <1>0, <2>2 DEF Running
  <2> QED
    BY <1>1, <2>1, <2>3, PendingKept DEF Running
<1>3. CASE MarkDone(t)
  <2>1. job' = job /\ Running' = Running \ {t}
    BY <1>0, <1>3 DEF MarkDone, GotoT, Running
  <2>2. /\ asked'[job[t].dom] # "PENDING"
        /\ \A d \in Domain : d # job[t].dom => asked'[d] = asked[d]
    BY <1>0, <1>3 DEF MarkDone
  <2> QED
    BY <1>1, <2>1, <2>2 DEF PendingHasOwner
<1>4. CASE Release(t)
  <2>1. asked' = asked /\ Running' = Running /\ t \notin Running
    BY <1>0, <1>4 DEF Release, GotoT, Running
  <2>2. \A u \in Running : job'[u] = job[u]
    BY <1>0, <1>4, <2>1 DEF Release, Running
  <2> QED
    BY <1>1, <2>1, <2>2, PendingKept
<1> QED
  BY <1>2, <1>3, <1>4 DEF ThreadStep

\* Steps of the reload thread and of the environment leave the checks alone.
LEMMA ChecksApart ==
    ASSUME ReloadStep \/ EditBlocklist \/ EvictVerdict \/ EvictAnswer \/ UNCHANGED vars
    PROVE  /\ UNCHANGED <<pc, req, asked, sem, gpc, job>>
           /\ Running' = Running /\ Claiming' = Claiming
<1>1. UNCHANGED <<pc, req, asked, sem, gpc, job>>
  BY DEF ReloadStep, StartReloadThread, PollBlocklist, ReadBlocklist, ReadLearned,
         SwapTree, ClearVerdicts, ClearAnswers, EditBlocklist, EvictVerdict,
         EvictAnswer, vars, workers, gravity
<1> QED
  BY <1>1 DEF Running, Claiming

LEMMA PendingStep == CheckInv /\ PendingHasOwner /\ [Next]_vars => PendingHasOwner'
<1> SUFFICES ASSUME CheckInv, PendingHasOwner, [Next]_vars PROVE PendingHasOwner'
  OBVIOUS
<1>1. CASE ReloadStep \/ EditBlocklist \/ EvictVerdict \/ EvictAnswer \/ UNCHANGED vars
  BY <1>1, ChecksApart, PendingKept
<1>2. CASE Crash
  BY <1>2 DEF Crash, NothingAsked, PendingHasOwner
<1> QED
  BY <1>1, <1>2, PendingWorker, PendingThread DEF Next, Environment

\* No domain stays PENDING without a worker or a thread that will settle it, as
\* long as memory lasts (asked_cache_try_claim, queue_gravity_check).
THEOREM PendingHasOwnerHolds == Spec => []PendingHasOwner
<1>1. Init => PendingHasOwner
  BY DEF Init, NothingAsked, PendingHasOwner
<1>2. (CheckInv /\ PendingHasOwner) /\ [Next]_vars => (CheckInv /\ PendingHasOwner)'
  BY CheckStep, PendingStep
<1> QED
  BY CheckInit, <1>1, <1>2, PTL DEF Spec

-----------------------------------------------------------------------------
(***************************************************************************)
(* The gravity checks are ask-once lookups.  A step of Proxy claims, starts, *)
(* gives up or settles one domain, or the abstract state does not see it.   *)
(***************************************************************************)
Checked == {job[t].dom : t \in Running}

\* When a worker holds a unit for a thread it has yet to start, fewer than
\* MaxGravity domains are being checked.
LEMMA RoomToStart ==
    ASSUME SemInv, NEW w \in Worker, pc[w] = "spawn"
    PROVE  Cardinality(Checked) < MaxGravity
<1>1. /\ IsFiniteSet(Live) /\ Cardinality(Live) \in Nat /\ Cardinality(Spawning) \in Nat
      /\ IsFiniteSet(Spawning)
  BY FiniteCounts
<1>2. Cardinality(Spawning) # 0
  BY <1>1, FS_EmptySet DEF Spawning
<1>3. Cardinality(Live) < MaxGravity
  BY <1>1, <1>2, ConservedSum, ProxyAssumption DEF SemInv, TypeOK
<1>4. Running \in SUBSET Live
  BY DEF Running, Live
<1>5. IsFiniteSet(Running) /\ Cardinality(Running) <= Cardinality(Live)
  BY <1>1, <1>4, FS_Subset
<1>6. [t \in Running |-> job[t].dom] \in Surjection(Running, Checked)
  BY DEF Checked, Surjection
<1>7. IsFiniteSet(Checked) /\ Cardinality(Checked) <= Cardinality(Running)
  BY <1>5, <1>6, FS_Surjection
<1>8. Cardinality(Checked) \in Nat /\ Cardinality(Running) \in Nat /\ MaxGravity \in Nat
  BY <1>5, <1>7, FS_CardinalityType, ProxyAssumption
<1> QED
  BY <1>1, <1>3, <1>5, <1>7, <1>8

\* What a step may do to the asked cache and the set of domains being checked.
AskStep ==
    \/ UNCHANGED <<asked, Checked>>
    \/ \E d \in Domain :
         \/ asked[d] = "none" /\ asked' = [asked EXCEPT ![d] = "PENDING"] /\ Checked' = Checked
         \/ /\ asked[d] = "PENDING" /\ d \notin Checked /\ Cardinality(Checked) < MaxGravity
            /\ Checked' = Checked \cup {d} /\ asked' = asked
         \/ /\ asked[d] = "PENDING" /\ d \notin Checked
            /\ asked' = [asked EXCEPT ![d] = "none"] /\ Checked' = Checked
         \/ /\ d \in Checked /\ asked[d] = "PENDING"
            /\ \E s \in {"none", "DONE"} : asked' = [asked EXCEPT ![d] = s]
            /\ Checked' = Checked \ {d}

LEMMA AskWorker ==
    ASSUME SemInv, CheckInv, NEW w \in Worker, Receive(w) \/ WorkerStep(w)
    PROVE  AskStep
<1>0. /\ OneCheckPerDomain /\ OwnersPending
      /\ gpc \in [Thread -> ThreadPc] /\ job \in [Thread -> Job]
      /\ req[w].dom \in Domain
  BY DEF CheckInv, TypeOK, Request
<1>a. w \in Claiming => asked[req[w].dom] = "PENDING" /\ req[w].dom \notin Checked
  BY <1>0 DEF OneCheckPerDomain, OwnersPending, Checked
<1>1. CASE Receive(w) \/ CheckCache(w) \/ LookupTree(w) \/ FillCache(w)
           \/ Block(w) \/ Pass(w) \/ FlagForReview(w) \/ QueueGravityCheck(w)
           \/ TryAnswerCache(w) \/ Forward(w) \/ StoreAnswer(w)
  <2>1. UNCHANGED <<asked, gpc, job>>
    BY <1>1 DEF Receive, CheckCache, LookupTree, FillCache, Block, Pass,
         FlagForReview, QueueGravityCheck, TryAnswerCache, Forward, StoreAnswer, gravity
  <2> QED
    BY <2>1 DEF AskStep, Checked, Running
<1>2. CASE TryClaim(w)
  <2>1. Checked' = Checked
    BY <1>2 DEF TryClaim, Checked, Running
  <2> QED
    BY <1>0, <1>2, <2>1 DEF TryClaim, AskStep
<1>3. CASE Unclaim(w)
  <2>1. w \in Claiming /\ Checked' = Checked
    BY <1>3 DEF Unclaim, Claiming, Checked, Running
  <2>2. asked' = [asked EXCEPT ![req[w].dom] = "none"]
    BY <1>3 DEF Unclaim
  <2> QED
    BY <1>0, <1>a, <2>1, <2>2 DEF AskStep
<1>4. CASE Spawn(w)
  <2>1. w \in Claiming /\ asked' = asked /\ Cardinality(Checked) < MaxGravity
    BY <1>4, RoomToStart DEF Spawn, Claiming
  <2>2. CASE UNCHANGED <<gpc, job>>
    BY <2>1, <2>2 DEF AskStep, Checked, Running
  <2>3. ASSUME NEW t \in Thread, gpc[t] = "idle",
               gpc' = [gpc EXCEPT ![t] = "ask"],
               job' = [job EXCEPT ![t] =
                         [dom |-> req[w].dom, seen |-> req[w].seen, ok |-> FALSE]]
        PROVE  Checked' = Checked \cup {req[w].dom}
    <3>1. Running' = Running \cup {t} /\ t \notin Running
      BY <1>0, <2>3 DEF Running
    <3>2. job'[t].dom = req[w].dom
      BY <1>0, <2>3
    <3>3. \A u \in Running : job'[u] = job[u]
      BY <1>0, <2>3, <3>1 DEF Running
    <3> QED
      BY <3>1, <3>2, <3>3 DEF Checked
  <2> QED
    BY <1>0, <1>4, <1>a, <2>1, <2>2, <2>3 DEF Spawn, AskStep
<1> QED
  BY <1>1, <1>2, <1>3, <1>4 DEF WorkerStep

LEMMA AskThread ==
    ASSUME CheckInv, NEW t \in Thread, ThreadStep(t)
    PROVE  AskStep
<1>0. /\ OneCheckPerDomain /\ OwnersPending
      /\ gpc \in [Thread -> ThreadPc] /\ job \in [Thread -> Job]
      /\ job[t].dom \in Domain
  BY DEF CheckInv, TypeOK, Job
<1>1. CASE AskPi(t) \/ Promote(t) \/ Invalidate(t) \/ AppendLearned(t)
  <2>1. asked' = asked /\ \A u \in Thread : job'[u].dom = job[u].dom
    BY <1>0, <1>1 DEF AskPi, Promote, Invalidate, AppendLearned, Job
  <2>2. PICK p \in ThreadPc \ {"idle", "release"} : gpc' = [gpc EXCEPT ![t] = p]
    BY <1>1 DEF AskPi, Promote, Invalidate, AppendLearned, GotoT, ThreadPc
  <2>3. gpc[t] \notin {"idle", "release"}
    BY <1>1 DEF AskPi, Promote, Invalidate, AppendLearned
  <2>4. Running' = Running
    BY <1>0, <2>2, <2>3 DEF Running
  <2>5. Checked' = Checked
    BY <2>1, <2>4 DEF Checked, Running
  <2> QED
    BY <2>1, <2>5 DEF AskStep
<1>2. CASE MarkDone(t)
  <2>1. job' = job /\ Running' = Running \ {t} /\ t \in Running
    BY <1>0, <1>2 DEF MarkDone, GotoT, Running
  <2>2. Checked' = Checked \ {job[t].dom} /\ job[t].dom \in Checked
    BY <1>0, <2>1 DEF Checked, OneCheckPerDomain
  <2>3. asked[job[t].dom] = "PENDING"
    BY <1>0, <2>1 DEF OwnersPending
  <2>4. \E s \in {"none", "DONE"} : asked' = [asked EXCEPT ![job[t].dom] = s]
    BY <1>2 DEF MarkDone
  <2> QED
    BY <1>0, <2>2, <2>3, <2>4 DEF AskStep
<1>3. CASE Release(t)
  <2>1. asked' = asked /\ Running' = Running /\ t \notin Running
    BY <1>0, <1>3 DEF Release, GotoT, Running
  <2>2. \A u \in Running : job'[u] = job[u]
    BY <1>0, <1>3, <2>1 DEF Release, Running
  <2> QED
    BY <2>1, <2>2 DEF AskStep, Checked
<1> QED
  BY <1>1, <1>2, <1>3 DEF ThreadStep

LEMMA AskNext ==
    ASSUME SemInv, CheckInv, [Next]_vars, crashes' = crashes
    PROVE  AskStep
<1>1. CASE ReloadStep \/ EditBlocklist \/ EvictVerdict \/ EvictAnswer \/ UNCHANGED vars
  BY <1>1, ChecksApart DEF AskStep, Checked
<1>2. ~Crash
  BY ProxyAssumption DEF SemInv, TypeOK, Crash
<1> QED
  BY <1>1, <1>2, AskWorker, AskThread DEF Next, Environment

\* Proxy implements AskOnce for as long as the process lives, for any domains,
\* workers, threads, cap and faults (g_asked_cache and the semaphore).
THEOREM AskOnceImplemented == Spec => ImplementsAskOnce
<1>1. Init => Gravity!Init
  <2> SUFFICES ASSUME Init PROVE Gravity!Init
    OBVIOUS
  <2>1. Running = {}
    BY DEF Init, AllIdle, Running
  <2> QED
    BY <2>1 DEF Init, NothingAsked, Gravity!Init
<1>2. SemInv /\ CheckInv /\ [Next]_vars => [Gravity!Next \/ crashes' # crashes]_(Gravity!avars)
  <2> SUFFICES ASSUME SemInv, CheckInv, [Next]_vars, crashes' = crashes
               PROVE  Gravity!Next \/ UNCHANGED Gravity!avars
    OBVIOUS
  <2>1. AskStep
    BY AskNext
  <2>2. CASE UNCHANGED <<asked, Checked>>
    BY <2>2 DEF Checked, Gravity!avars
  <2>3. ASSUME NEW d \in Domain,
               asked[d] = "none", asked' = [asked EXCEPT ![d] = "PENDING"], Checked' = Checked
        PROVE  Gravity!Claim(d)
    BY <2>3 DEF Checked, Gravity!Claim
  <2>4. ASSUME NEW d \in Domain,
               asked[d] = "PENDING", d \notin Checked, Cardinality(Checked) < MaxGravity,
               Checked' = Checked \cup {d}, asked' = asked
        PROVE  Gravity!Start(d)
    <3>1. Gravity!Cardinality(Checked) = Cardinality(Checked)
      BY Zenon DEF Gravity!Cardinality, Cardinality
    <3>2. Gravity!Cardinality(Checked) < MaxGravity
      BY <2>4, <3>1
    <3> QED
      BY <2>4, <3>2 DEF Checked, Gravity!Start
  <2>5. ASSUME NEW d \in Domain, asked[d] = "PENDING", d \notin Checked,
               asked' = [asked EXCEPT ![d] = "none"], Checked' = Checked
        PROVE  Gravity!GiveUp(d)
    BY <2>5 DEF Checked, Gravity!GiveUp
  <2>6. ASSUME NEW d \in Domain, d \in Checked, asked[d] = "PENDING",
               \E s \in {"none", "DONE"} : asked' = [asked EXCEPT ![d] = s],
               Checked' = Checked \ {d}
        PROVE  Gravity!Settle(d)
    BY <2>6 DEF Checked, Gravity!Settle
  <2> QED
    BY <2>1, <2>2, <2>3, <2>4, <2>5, <2>6 DEF AskStep, Gravity!Next
<1> QED
  BY <1>1, <1>2, SemInit, SemStep, CheckInit, CheckStep, PTL DEF Spec, ImplementsAskOnce

-----------------------------------------------------------------------------
(***************************************************************************)
(* What the files say holds.  As long as no write based on an older tree has *)
(* landed: the live tree keeps every allowing and blocking entry of the      *)
(* files and has no other allowing one, and whatever a worker, a thread or   *)
(* the verdict cache has taken from the present generation agrees with them. *)
(***************************************************************************)
\* A verdict v that the published files do not contradict.
Agrees(v, d) ==
    /\ Lookup(loaded, d) \in {"A", "B"} => v = Lookup(loaded, d)
    /\ v = "A" => Lookup(loaded, d) = "A"

\* A worker at p with the query q.  A query between the tree lookup and the start
\* of its check was unmatched, and knows which generation it looked at.
WorkerAgrees(p, q) ==
    /\ q.since <= gen /\ q.seen <= gen
    /\ q.since = gen => rpc # "clear_verdicts"
    /\ p \in {"idle", "check_cache", "lookup"} => q.seen = -1
    /\ p \in {"claim", "queue", "unclaim", "spawn"} => q.verdict = "none"
    /\ \/ p \in {"fill_cache", "claim", "queue", "unclaim", "spawn"}
       \/ p = "decide" /\ q.verdict = "none"
       => q.seen >= 0
    /\ ~late /\ p \notin {"idle", "check_cache", "lookup"} /\ gen \in {q.since, q.seen} =>
         Agrees(q.verdict, q.dom)

\* A gravity thread at p with the arguments j: about a domain without a verdict.
ThreadAgrees(p, j) ==
    /\ j.seen <= gen
    /\ p \notin {"idle", "release"} =>
         j.seen >= 0 /\ (~late /\ j.seen = gen => Agrees("none", j.dom))

CacheAgrees ==
    ~late /\ rpc # "clear_verdicts" =>
        \A d \in Domain : query_cache[d] # "none" => Agrees(query_cache[d], d)

TreeKeeps ==
    /\ \A d \in Domain : loaded[d] \in {"A", "B"} => tree[d] = loaded[d]
    /\ \A d \in Domain : tree[d] = "A" => loaded[d] = "A"

CuratedInv ==
    /\ \A w \in Worker : WorkerAgrees(pc[w], req[w])
    /\ \A t \in Thread : ThreadAgrees(gpc[t], job[t])
    /\ CacheAgrees
    /\ ~late => TreeKeeps

\* A lookup in a tree that keeps the files' entries agrees with the files.
LEMMA KeptTreeAgrees ==
    ASSUME TypeOK, TreeKeeps, NEW d \in Domain
    PROVE  Agrees(Lookup(tree, d), d)
<1>1. Suffixes[d] \subseteq Domain
  BY BlockTreeAssumption
<1>2. OnPath(tree, d, "A") <=> OnPath(loaded, d, "A")
  BY <1>1 DEF OnPath, TreeKeeps
<1>3. OnPath(loaded, d, "B") => OnPath(tree, d, "B")
  BY <1>1 DEF OnPath, TreeKeeps
<1> QED
  BY <1>2, <1>3 DEF Agrees, Lookup

\* Giving a blocking or a review entry to a domain for which the files have
\* neither an allowing nor a blocking one.
LEMMA InsertKeeps ==
    ASSUME TypeOK, TreeKeeps, NEW d \in Domain, Agrees("none", d), NEW s \in {"B", "R"},
           NEW r \in InsertLive(tree, d, s), tree' = r.tree, loaded' = loaded
    PROVE  TreeKeeps'
<1>1. CASE ~Insertable(d)
  <2>1. tree' = tree
    BY <1>1 DEF InsertLive
  <2> QED
    BY <2>1 DEF TreeKeeps
<1>2. CASE Insertable(d)
  <2>1. loaded[d] \notin {"A", "B"}
    BY <1>2 DEF Insertable, Agrees, Lookup, OnPath
  <2>a. AfterFailedInsert(tree[d]) \subseteq {tree[d], "none"}
    BY DEF AfterFailedInsert
  <2>b. \/ r = [tree |-> [tree EXCEPT ![d] = s], ok |-> TRUE]
        \/ \E e \in AfterFailedInsert(tree[d]) :
             r = [tree |-> [tree EXCEPT ![d] = e], ok |-> FALSE]
    BY <1>2 DEF InsertLive
  <2>c. ASSUME r = [tree |-> [tree EXCEPT ![d] = s], ok |-> TRUE]
        PROVE  \E f \in {s, tree[d], "none"} : tree' = [tree EXCEPT ![d] = f]
    <3>1. tree' = [tree EXCEPT ![d] = s]
      BY <2>c
    <3> QED
      BY <3>1
  <2>d. ASSUME NEW e \in AfterFailedInsert(tree[d]),
               r = [tree |-> [tree EXCEPT ![d] = e], ok |-> FALSE]
        PROVE  \E f \in {s, tree[d], "none"} : tree' = [tree EXCEPT ![d] = f]
    <3>1. tree' = [tree EXCEPT ![d] = e]
      BY <2>d
    <3> QED
      BY <2>a, <3>1
  <2>2. PICK e \in {s, tree[d], "none"} : tree' = [tree EXCEPT ![d] = e]
    BY <2>b, <2>c, <2>d
  <2>3. \A c \in Domain : tree'[c] = IF c = d THEN e ELSE tree[c]
    BY <2>2 DEF TypeOK
  <2>4. tree[d] # "A"
    BY <2>1 DEF TreeKeeps
  <2> QED
    BY <2>1, <2>3, <2>4 DEF TreeKeeps
<1> QED
  BY <1>1, <1>2

\* Within one generation, what agreed still does.
LEMMA AgreesKept ==
    ASSUME UNCHANGED <<gen, loaded>>, rpc' = "clear_verdicts" => rpc = "clear_verdicts",
           late => late'
    PROVE  /\ \A p, q : WorkerAgrees(p, q) => WorkerAgrees(p, q)'
           /\ \A p, j : ThreadAgrees(p, j) => ThreadAgrees(p, j)'
<1>1. \A v, d : Agrees(v, d) <=> Agrees(v, d)'
  BY DEF Agrees
<1>2. ASSUME NEW p, NEW q, WorkerAgrees(p, q) PROVE WorkerAgrees(p, q)'
  BY <1>1, <1>2 DEF WorkerAgrees
<1>3. ASSUME NEW p, NEW j, ThreadAgrees(p, j) PROVE ThreadAgrees(p, j)'
  BY <1>1, <1>3 DEF ThreadAgrees
<1> QED
  BY <1>2, <1>3

LEMMA CuratedInit == Init => CuratedInv
<1> SUFFICES ASSUME Init PROVE CuratedInv
  OBVIOUS
<1>1. \A w \in Worker : pc[w] = "idle" /\ req[w].since = -1 /\ req[w].seen = -1
  BY DEF Init, AllIdle, NoRequest
<1>2. \A t \in Thread : gpc[t] = "idle" /\ job[t].seen = -1
  BY DEF Init, AllIdle, NoJob
<1>3. gen = 0 /\ rpc = "start" /\ loaded = tree /\ \A d \in Domain : query_cache[d] = "none"
  BY DEF Init, EmptyTree
<1> QED
  BY <1>1, <1>2, <1>3 DEF CuratedInv, WorkerAgrees, ThreadAgrees, CacheAgrees, TreeKeeps

\* A step of one worker that writes neither the tree nor the verdict cache and starts
\* no thread.
LEMMA CuratedMove ==
    ASSUME TypeOK, CuratedInv, NEW w \in Worker, NEW p, NEW q,
           pc' = [pc EXCEPT ![w] = p], req' = [req EXCEPT ![w] = q],
           UNCHANGED <<trees, query_cache, rpc, gpc, job>>,
           WorkerAgrees(p, q)
    PROVE  CuratedInv'
<1>1. UNCHANGED <<tree, loaded, gen, late>>
  BY DEF trees
<1>2. \A x \in Worker : /\ pc'[x] = IF x = w THEN p ELSE pc[x]
                        /\ req'[x] = IF x = w THEN q ELSE req[x]
  BY DEF TypeOK
<1>3. \A x \in Worker : WorkerAgrees(pc'[x], req'[x])
  BY <1>2 DEF CuratedInv
<1>4. /\ \A a, b : WorkerAgrees(a, b) => WorkerAgrees(a, b)'
      /\ \A a, b : ThreadAgrees(a, b) => ThreadAgrees(a, b)'
  BY <1>1, AgreesKept
<1>5. (\A x \in Worker : WorkerAgrees(pc[x], req[x]))'
  BY <1>3, <1>4
<1> QED
  BY <1>1, <1>4, <1>5 DEF CuratedInv, CacheAgrees, TreeKeeps, Agrees

LEMMA CuratedWorker ==
    ASSUME TypeOK, CuratedInv, NEW w \in Worker, Receive(w) \/ WorkerStep(w)
    PROVE  CuratedInv'
<1>0. /\ WorkerAgrees(pc[w], req[w]) /\ req[w] \in Request /\ req[w].dom \in Domain
      /\ req[w].since \in Int /\ req[w].seen \in Int /\ gen \in Nat
      /\ pc \in [Worker -> WorkerPc] /\ req \in [Worker -> Request]
      /\ gpc \in [Thread -> ThreadPc] /\ job \in [Thread -> Job]
  BY DEF CuratedInv, TypeOK, Request
<1>f. ASSUME Finish(w), UNCHANGED <<trees, query_cache, rpc, gpc, job>>
      PROVE  CuratedInv'
  <2>1. WorkerAgrees("idle", NoRequest)
    BY <1>0 DEF WorkerAgrees, NoRequest
  <2> QED
    BY <1>f, <2>1, CuratedMove DEF Finish, Goto
<1>g. ASSUME NEW p, Goto(w, p), req' = req, UNCHANGED <<trees, query_cache, rpc, gpc, job>>,
             WorkerAgrees(p, req[w])
      PROVE  CuratedInv'
  <2>1. req' = [req EXCEPT ![w] = req[w]]
    BY <1>0, <1>g
  <2> QED
    BY <1>g, <2>1, CuratedMove DEF Goto
<1>1. CASE Receive(w)
  <2>1. PICK d \in Domain, a \in BOOLEAN :
          req' = [req EXCEPT ![w] =
                    [dom |-> d, address |-> a, verdict |-> "none",
                     since |-> IF rpc = "clear_verdicts" THEN -1 ELSE gen, seen |-> -1]]
    BY <1>1 DEF Receive
  <2> DEFINE q == [dom |-> d, address |-> a, verdict |-> "none",
                   since |-> IF rpc = "clear_verdicts" THEN -1 ELSE gen, seen |-> -1]
  <2>2. WorkerAgrees("check_cache", q)
    BY <1>0 DEF WorkerAgrees
  <2> QED
    BY <1>1, <2>1, <2>2, CuratedMove DEF Receive, Goto, caches, gravity, reloader
<1>2. CASE CheckCache(w)
  <2>1. PICK hit \in {query_cache[req[w].dom], "none"} :
          /\ req' = [req EXCEPT ![w].verdict = hit]
          /\ Goto(w, IF hit = "none" THEN "lookup" ELSE "decide")
    BY <1>2 DEF CheckCache
  <2> DEFINE q == [req[w] EXCEPT !.verdict = hit]
             p == IF hit = "none" THEN "lookup" ELSE "decide"
  <2>2. req' = [req EXCEPT ![w] = q] /\ pc' = [pc EXCEPT ![w] = p]
    BY <1>0, <2>1 DEF Goto
  <2>3. /\ q.since = req[w].since /\ q.seen = req[w].seen /\ q.dom = req[w].dom
        /\ q.verdict = hit
    BY <1>0 DEF Request
  <2>4. req[w].seen = -1
    BY <1>0, <1>2 DEF CheckCache, WorkerAgrees
  <2>5. ~late /\ hit # "none" /\ req[w].since = gen => Agrees(hit, req[w].dom)
    BY <1>0 DEF CuratedInv, CacheAgrees, WorkerAgrees
  <2> HIDE DEF q
  <2>6. WorkerAgrees(p, q)
    BY <1>0, <2>3, <2>4, <2>5 DEF WorkerAgrees
  <2> QED
    BY <1>2, <2>2, <2>6, CuratedMove DEF CheckCache, caches, gravity, reloader
<1>3. CASE LookupTree(w)
  <2> DEFINE v == Lookup(tree, req[w].dom)
             q == [req[w] EXCEPT !.verdict = v, !.seen = gen]
             p == IF v \in {"A", "B"} THEN "fill_cache" ELSE "decide"
  <2>1. ~late => Agrees(v, req[w].dom)
    BY <1>0, KeptTreeAgrees DEF CuratedInv
  <2>2. req' = [req EXCEPT ![w] = q] /\ pc' = [pc EXCEPT ![w] = p]
    BY <1>0, <1>3 DEF LookupTree, Goto
  <2> HIDE DEF v
  <2>3. /\ q.since = req[w].since /\ q.seen = gen /\ q.dom = req[w].dom /\ q.verdict = v
    BY <1>0 DEF Request
  <2> HIDE DEF q
  <2>4. WorkerAgrees(p, q)
    BY <1>0, <2>1, <2>3 DEF WorkerAgrees
  <2> QED
    BY <1>3, <2>2, <2>4, CuratedMove DEF LookupTree, caches, gravity, reloader
<1>4. CASE FillCache(w)
  <2> DEFINE v == req[w].verdict
  <2>1. /\ UNCHANGED <<tree, loaded, gen, rpc, req, gpc, job>> /\ (late => late')
        /\ late' = (late \/ (req[w].seen # gen /\ rpc # "clear_verdicts"))
        /\ query_cache' = [query_cache EXCEPT ![req[w].dom] = v]
        /\ pc' = [pc EXCEPT ![w] = "decide"] /\ pc[w] = "fill_cache"
    BY <1>4 DEF FillCache, Goto, gravity, reloader
  <2>2. /\ \A a, b : WorkerAgrees(a, b) => WorkerAgrees(a, b)'
        /\ \A a, b : ThreadAgrees(a, b) => ThreadAgrees(a, b)'
        /\ \A a, b : Agrees(a, b) => Agrees(a, b)'
    BY <2>1, AgreesKept DEF Agrees
  <2>3. WorkerAgrees("decide", req[w])
    BY <1>0, <2>1 DEF WorkerAgrees
  <2>4. \A x \in Worker : WorkerAgrees(pc'[x], req[x])
    BY <1>0, <2>1, <2>3 DEF CuratedInv
  <2>5. (\A x \in Worker : WorkerAgrees(pc[x], req[x]))'
    BY <2>1, <2>2, <2>4
  <2>6. ~late' /\ rpc # "clear_verdicts" => Agrees(v, req[w].dom)
    BY <1>0, <2>1 DEF WorkerAgrees
  <2>7. CacheAgrees'
    <3>1. \A d \in Domain : query_cache'[d] = IF d = req[w].dom THEN v ELSE query_cache[d]
      BY <2>1 DEF TypeOK
    <3> QED
      BY <2>1, <2>2, <2>6, <3>1 DEF CuratedInv, CacheAgrees
  <2> QED
    BY <2>1, <2>2, <2>5, <2>7 DEF CuratedInv, TreeKeeps
<1>5. CASE FlagForReview(w)
  <2>1. /\ UNCHANGED <<loaded, gen, query_cache, rpc, req, gpc, job>> /\ (late => late')
        /\ late' = (late \/ req[w].seen # gen)
        /\ pc' = [pc EXCEPT ![w] = "claim"] /\ pc[w] = "decide" /\ req[w].verdict = "none"
    BY <1>5 DEF FlagForReview, Goto, gravity, reloader, caches
  <2>2. /\ \A a, b : WorkerAgrees(a, b) => WorkerAgrees(a, b)'
        /\ \A a, b : ThreadAgrees(a, b) => ThreadAgrees(a, b)'
        /\ \A a, b : Agrees(a, b) => Agrees(a, b)'
    BY <2>1, AgreesKept DEF Agrees
  <2>3. WorkerAgrees("claim", req[w])
    BY <1>0, <2>1 DEF WorkerAgrees
  <2>4. \A x \in Worker : WorkerAgrees(pc'[x], req[x])
    BY <1>0, <2>1, <2>3 DEF CuratedInv
  <2>5. (\A x \in Worker : WorkerAgrees(pc[x], req[x]))'
    BY <2>1, <2>2, <2>4
  <2>6. ~late' => Agrees("none", req[w].dom) /\ TreeKeeps
    BY <1>0, <2>1 DEF WorkerAgrees, CuratedInv
  <2>7. ~late' => TreeKeeps'
    BY <1>0, <1>5, <2>1, <2>6, InsertKeeps DEF FlagForReview
  <2> QED
    BY <2>1, <2>2, <2>5, <2>7 DEF CuratedInv, CacheAgrees
<1>6. CASE Spawn(w)
  <2>1. /\ UNCHANGED <<trees, query_cache, rpc, req>> /\ pc' = [pc EXCEPT ![w] = "answer"]
        /\ pc[w] = "spawn"
    BY <1>6 DEF Spawn, Goto, caches, reloader
  <2>2. WorkerAgrees("answer", req[w])
    BY <1>0, <2>1 DEF WorkerAgrees
  <2>3. CASE UNCHANGED <<gpc, job>>
    BY <1>g, <2>1, <2>2, <2>3 DEF Goto
  <2>4. ASSUME NEW t \in Thread,
               gpc' = [gpc EXCEPT ![t] = "ask"],
               job' = [job EXCEPT ![t] =
                         [dom |-> req[w].dom, seen |-> req[w].seen, ok |-> FALSE]]
        PROVE  CuratedInv'
    <3>1. /\ \A a, b : WorkerAgrees(a, b) => WorkerAgrees(a, b)'
          /\ \A a, b : ThreadAgrees(a, b) => ThreadAgrees(a, b)'
      BY <2>1, AgreesKept DEF trees
    <3>2. \A x \in Worker : WorkerAgrees(pc'[x], req'[x])
      BY <1>0, <2>1, <2>2 DEF CuratedInv
    <3>3. (\A x \in Worker : WorkerAgrees(pc[x], req[x]))'
      BY <3>1, <3>2
    <3> DEFINE j == [dom |-> req[w].dom, seen |-> req[w].seen, ok |-> FALSE]
    <3>4. ThreadAgrees("ask", j)
      BY <1>0, <2>1 DEF ThreadAgrees, WorkerAgrees
    <3>5. \A u \in Thread : /\ gpc'[u] = IF u = t THEN "ask" ELSE gpc[u]
                            /\ job'[u] = IF u = t THEN j ELSE job[u]
      BY <1>0, <2>4
    <3> HIDE DEF j
    <3>6. \A u \in Thread : ThreadAgrees(gpc'[u], job'[u])
      BY <3>4, <3>5 DEF CuratedInv
    <3>7. (\A u \in Thread : ThreadAgrees(gpc[u], job[u]))'
      BY <3>1, <3>6
    <3> QED
      BY <2>1, <3>3, <3>7 DEF CuratedInv, CacheAgrees, TreeKeeps, trees, Agrees
  <2> QED
    BY <1>6, <2>3, <2>4 DEF Spawn
<1>7. CASE Block(w)
  BY <1>7, <1>f DEF Block, caches, gravity, reloader
<1>8. CASE Pass(w)
  <2>1. WorkerAgrees("answer", req[w])
    BY <1>0, <1>8 DEF WorkerAgrees, Pass
  <2> QED
    BY <1>8, <1>g, <2>1 DEF Pass, caches, gravity, reloader
<1>9. CASE TryClaim(w)
  <2>1. WorkerAgrees("answer", req[w]) /\ WorkerAgrees("queue", req[w])
    BY <1>0, <1>9 DEF WorkerAgrees, TryClaim
  <2> QED
    BY <1>9, <1>g, <2>1 DEF TryClaim, caches, reloader
<1>10. CASE QueueGravityCheck(w)
  <2>1. WorkerAgrees("unclaim", req[w]) /\ WorkerAgrees("spawn", req[w])
    BY <1>0, <1>10 DEF WorkerAgrees, QueueGravityCheck
  <2> QED
    BY <1>10, <1>g, <2>1 DEF QueueGravityCheck, caches, reloader
<1>11. CASE Unclaim(w)
  <2>1. WorkerAgrees("answer", req[w])
    BY <1>0, <1>11 DEF WorkerAgrees, Unclaim
  <2> QED
    BY <1>11, <1>g, <2>1 DEF Unclaim, caches, reloader
<1>12. CASE TryAnswerCache(w)
  <2>1. WorkerAgrees("forward", req[w])
    BY <1>0, <1>12 DEF WorkerAgrees, TryAnswerCache
  <2> QED
    BY <1>12, <1>f, <1>g, <2>1 DEF TryAnswerCache, caches, gravity, reloader
<1>13. CASE Forward(w)
  <2>1. WorkerAgrees("store", req[w])
    BY <1>0, <1>13 DEF WorkerAgrees, Forward
  <2> QED
    BY <1>13, <1>f, <1>g, <2>1 DEF Forward, caches, gravity, reloader
<1>14. CASE StoreAnswer(w)
  BY <1>14, <1>f DEF StoreAnswer, caches, gravity, reloader
<1> QED
  BY <1>1, <1>2, <1>3, <1>4, <1>5, <1>6, <1>7, <1>8, <1>9, <1>10, <1>11, <1>12,
     <1>13, <1>14 DEF WorkerStep

\* A step of one thread that writes neither the tree nor the verdict cache.
LEMMA CuratedThreadMove ==
    ASSUME TypeOK, CuratedInv, NEW t \in Thread, NEW p, NEW j,
           gpc' = [gpc EXCEPT ![t] = p], job' = [job EXCEPT ![t] = j],
           UNCHANGED <<trees, query_cache, rpc, workers>>,
           ThreadAgrees(p, j)
    PROVE  CuratedInv'
<1>1. UNCHANGED <<tree, loaded, gen, late, pc, req>>
  BY DEF trees, workers
<1>2. \A u \in Thread : /\ gpc'[u] = IF u = t THEN p ELSE gpc[u]
                        /\ job'[u] = IF u = t THEN j ELSE job[u]
  BY DEF TypeOK
<1>3. \A u \in Thread : ThreadAgrees(gpc'[u], job'[u])
  BY <1>2 DEF CuratedInv
<1>4. /\ \A a, b : WorkerAgrees(a, b) => WorkerAgrees(a, b)'
      /\ \A a, b : ThreadAgrees(a, b) => ThreadAgrees(a, b)'
  BY <1>1, AgreesKept
<1>5. (\A u \in Thread : ThreadAgrees(gpc[u], job[u]))'
  BY <1>3, <1>4
<1> QED
  BY <1>1, <1>4, <1>5 DEF CuratedInv, CacheAgrees, TreeKeeps, Agrees

LEMMA CuratedThread ==
    ASSUME TypeOK, CuratedInv, NEW t \in Thread, ThreadStep(t)
    PROVE  CuratedInv'
<1>0. /\ ThreadAgrees(gpc[t], job[t]) /\ job[t] \in Job /\ job[t].dom \in Domain
      /\ job[t].seen \in Int /\ gen \in Nat
      /\ gpc \in [Thread -> ThreadPc] /\ job \in [Thread -> Job]
  BY DEF CuratedInv, TypeOK, Job
<1>g. ASSUME NEW p, GotoT(t, p), job' = job, gpc[t] \notin {"idle", "release"},
             UNCHANGED <<trees, query_cache, rpc, workers>>
      PROVE  CuratedInv'
  <2>1. job' = [job EXCEPT ![t] = job[t]]
    BY <1>0, <1>g
  <2>2. ThreadAgrees(p, job[t])
    BY <1>0, <1>g DEF ThreadAgrees
  <2> QED
    BY <1>g, <2>1, <2>2, CuratedThreadMove DEF GotoT
<1>1. CASE AskPi(t)
  BY <1>1, <1>g DEF AskPi, caches, reloader
<1>2. CASE Promote(t)
  <2>1. PICK r \in InsertLive(tree, job[t].dom, "B") :
          tree' = r.tree /\ job' = [job EXCEPT ![t].ok = r.ok]
    BY <1>2 DEF Promote
  <2> DEFINE j == [job[t] EXCEPT !.ok = r.ok]
  <2>2. /\ UNCHANGED <<loaded, gen, query_cache, rpc, pc, req>> /\ (late => late')
        /\ late' = (late \/ job[t].seen # gen)
        /\ gpc' = [gpc EXCEPT ![t] = "invalidate"] /\ gpc[t] = "insert"
    BY <1>2 DEF Promote, GotoT, workers, reloader, caches
  <2>3. /\ \A a, b : WorkerAgrees(a, b) => WorkerAgrees(a, b)'
        /\ \A a, b : ThreadAgrees(a, b) => ThreadAgrees(a, b)'
        /\ \A a, b : Agrees(a, b) => Agrees(a, b)'
    BY <2>2, AgreesKept DEF Agrees
  <2>4. job' = [job EXCEPT ![t] = j] /\ j.dom = job[t].dom /\ j.seen = job[t].seen
    BY <1>0, <2>1 DEF Job
  <2> HIDE DEF j
  <2>5. ThreadAgrees("invalidate", j)
    BY <1>0, <2>2, <2>4 DEF ThreadAgrees
  <2>6. \A u \in Thread : ThreadAgrees(gpc'[u], job'[u])
    BY <1>0, <2>2, <2>4, <2>5 DEF CuratedInv
  <2>7. (\A u \in Thread : ThreadAgrees(gpc[u], job[u]))'
    BY <2>3, <2>6
  <2>8. ~late' => Agrees("none", job[t].dom) /\ TreeKeeps
    BY <1>0, <2>2 DEF ThreadAgrees, CuratedInv
  <2>9. ~late' => TreeKeeps'
    BY <1>0, <2>1, <2>2, <2>8, InsertKeeps
  <2> QED
    BY <2>2, <2>3, <2>7, <2>9 DEF CuratedInv, CacheAgrees
<1>3. CASE Invalidate(t)
  BY <1>3, <1>g DEF Invalidate, reloader
<1>4. CASE AppendLearned(t)
  BY <1>4, <1>g DEF AppendLearned, caches, reloader
<1>5. CASE MarkDone(t)
  BY <1>5, <1>g DEF MarkDone, caches, reloader
<1>6. CASE Release(t)
  <2>1. ThreadAgrees("idle", NoJob)
    BY <1>0 DEF ThreadAgrees, NoJob
  <2> QED
    BY <1>6, <2>1, CuratedThreadMove DEF Release, GotoT, caches, reloader
<1> QED
  BY <1>1, <1>2, <1>3, <1>4, <1>5, <1>6 DEF ThreadStep

LEMMA CuratedReload ==
    ASSUME TypeOK, CuratedInv, ReloadStep
    PROVE  CuratedInv'
<1>0. UNCHANGED <<pc, req, gpc, job>>
  BY DEF ReloadStep, StartReloadThread, PollBlocklist, ReadBlocklist, ReadLearned,
         SwapTree, ClearVerdicts, ClearAnswers, workers, gravity
<1>1. CASE SwapTree
  <2>1. /\ loaded' = tree' /\ gen' = gen + 1 /\ late' = FALSE /\ rpc' = "clear_verdicts"
        /\ gen \in Nat
    BY <1>1 DEF SwapTree, TypeOK
  <2>2. ASSUME NEW w \in Worker
        PROVE  WorkerAgrees(pc[w], req[w])'
    <3>1. WorkerAgrees(pc[w], req[w]) /\ req[w].since \in Int /\ req[w].seen \in Int
      BY DEF CuratedInv, TypeOK, Request
    <3>2. /\ req[w].since <= gen' /\ req[w].seen <= gen'
          /\ gen' \notin {req[w].since, req[w].seen}
      BY <2>1, <3>1 DEF WorkerAgrees
    <3> QED
      BY <1>0, <3>1, <3>2 DEF WorkerAgrees
  <2>3. ASSUME NEW t \in Thread
        PROVE  ThreadAgrees(gpc[t], job[t])'
    <3>1. ThreadAgrees(gpc[t], job[t]) /\ job[t].seen \in Int
      BY DEF CuratedInv, TypeOK, Job
    <3>2. job[t].seen <= gen' /\ job[t].seen # gen'
      BY <2>1, <3>1 DEF ThreadAgrees
    <3> QED
      BY <1>0, <3>1, <3>2 DEF ThreadAgrees
  <2> QED
    BY <2>1, <2>2, <2>3 DEF CuratedInv, CacheAgrees, TreeKeeps
<1>2. ASSUME UNCHANGED trees, rpc' # "clear_verdicts",
             \/ query_cache' = query_cache /\ rpc # "clear_verdicts"
             \/ query_cache' = EmptyTree
      PROVE  CuratedInv'
  <2>1. UNCHANGED <<tree, loaded, gen, late>>
    BY <1>2 DEF trees
  <2>2. /\ \A a, b : WorkerAgrees(a, b) => WorkerAgrees(a, b)'
        /\ \A a, b : ThreadAgrees(a, b) => ThreadAgrees(a, b)'
        /\ \A a, b : Agrees(a, b) => Agrees(a, b)'
    BY <1>2, <2>1, AgreesKept DEF Agrees
  <2>3. CacheAgrees'
    BY <1>2, <2>1, <2>2 DEF CuratedInv, CacheAgrees, EmptyTree
  <2> QED
    BY <1>0, <2>1, <2>2, <2>3 DEF CuratedInv, TreeKeeps
<1>3. CASE StartReloadThread \/ PollBlocklist \/ ReadBlocklist \/ ReadLearned \/ ClearAnswers
  BY <1>2, <1>3 DEF StartReloadThread, PollBlocklist, ReadBlocklist, ReadLearned,
     ClearAnswers, caches
<1>4. CASE ClearVerdicts
  BY <1>2, <1>4 DEF ClearVerdicts
<1> QED
  BY <1>1, <1>3, <1>4 DEF ReloadStep

LEMMA CuratedEnvironment ==
    ASSUME TypeOK, CuratedInv, Environment \/ UNCHANGED vars
    PROVE  CuratedInv'
<1>1. CASE EditBlocklist \/ EvictVerdict \/ EvictAnswer \/ UNCHANGED vars
  <2>1. UNCHANGED <<tree, loaded, gen, late, rpc, pc, req, gpc, job>>
    BY <1>1 DEF EditBlocklist, EvictVerdict, EvictAnswer, vars, trees, reloader, workers,
       gravity
  <2>2. /\ \A a, b : WorkerAgrees(a, b) => WorkerAgrees(a, b)'
        /\ \A a, b : ThreadAgrees(a, b) => ThreadAgrees(a, b)'
        /\ \A a, b : Agrees(a, b) => Agrees(a, b)'
    BY <2>1, AgreesKept DEF Agrees
  <2>3. \A d \in Domain : query_cache'[d] \in {query_cache[d], "none"}
    BY <1>1 DEF EditBlocklist, EvictVerdict, EvictAnswer, vars, caches, TypeOK
  <2>4. CacheAgrees'
    BY <2>1, <2>2, <2>3 DEF CuratedInv, CacheAgrees
  <2> QED
    BY <2>1, <2>2, <2>4 DEF CuratedInv, TreeKeeps
<1>2. CASE Crash
  <2>1. /\ \A w \in Worker : pc'[w] = "idle" /\ req'[w].since = -1 /\ req'[w].seen = -1
        /\ \A t \in Thread : gpc'[t] = "idle" /\ job'[t].seen = -1
        /\ gen' = 0 /\ rpc' = "start" /\ loaded' = tree'
        /\ \A d \in Domain : query_cache'[d] = "none"
    BY <1>2 DEF Crash, AllIdle, NoRequest, NoJob, EmptyTree
  <2> QED
    BY <2>1 DEF CuratedInv, WorkerAgrees, ThreadAgrees, CacheAgrees, TreeKeeps
<1> QED
  BY <1>1, <1>2 DEF Environment

LEMMA CuratedStep == TypeOK /\ CuratedInv /\ [Next]_vars => CuratedInv'
<1> SUFFICES ASSUME TypeOK, CuratedInv, [Next]_vars PROVE CuratedInv'
  OBVIOUS
<1> QED
  BY CuratedWorker, CuratedThread, CuratedReload, CuratedEnvironment DEF Next

\* The strengthening holds in every reachable state.
THEOREM CuratedInvariance == Spec => [](TypeOK /\ CuratedInv)
BY TypeInit, TypeStep, CuratedInit, CuratedStep, PTL DEF Spec

\* A query that arrives after a sweep is decided by what the files say of its domain,
\* for as long as no write from an older generation has landed.
THEOREM CuratedHoldsAlways == Spec => []CuratedHolds
<1>1. CuratedInv => CuratedHolds
  BY DEF CuratedInv, CuratedHolds, CuratedVerdict, WorkerAgrees, Decided, Agrees
<1> QED
  BY <1>1, CuratedInvariance, PTL

-----------------------------------------------------------------------------
(***************************************************************************)
(* Cached ALLOWs.  Within one generation they follow from what the files    *)
(* say; until the first edit of blocklist.tsv there is no other generation. *)
(***************************************************************************)
Unedited ==
    edits = 0 => ~unread /\ rpc \in {"start", "sleep"} /\ gen = 0 /\ ~late

LEMMA UneditedStep ==
    ASSUME TypeOK, CuratedInv, Unedited, [Next]_vars
    PROVE  Unedited'
<1>0. edits \in Nat /\ edits' # edits => edits' # 0
  <2>1. edits \in Nat
    BY ProxyAssumption DEF TypeOK
  <2>2. edits' \in {edits, edits + 1}
    BY DEF Next, Receive, WorkerStep, CheckCache, LookupTree, FillCache, Block, Pass,
       FlagForReview, TryClaim, QueueGravityCheck, Unclaim, Spawn, TryAnswerCache,
       Forward, StoreAnswer, ThreadStep, AskPi, Promote, Invalidate, AppendLearned,
       MarkDone, Release, ReloadStep, StartReloadThread, PollBlocklist, ReadBlocklist,
       ReadLearned, SwapTree, ClearVerdicts, ClearAnswers, Environment, EditBlocklist,
       EvictVerdict, EvictAnswer, Crash, vars, files
  <2> QED
    BY <2>1, <2>2
<1> SUFFICES ASSUME edits' = 0
             PROVE  ~unread' /\ rpc' \in {"start", "sleep"} /\ gen' = 0 /\ ~late'
  BY DEF Unedited
<1>1. ~unread /\ rpc \in {"start", "sleep"} /\ gen = 0 /\ ~late /\ edits = 0
  BY <1>0, ProxyAssumption DEF Unedited, TypeOK
<1>2. ASSUME NEW w \in Worker, Receive(w) \/ WorkerStep(w)
      PROVE  ~unread' /\ rpc' \in {"start", "sleep"} /\ gen' = 0 /\ ~late'
  <2>1. WorkerAgrees(pc[w], req[w]) /\ req[w].seen \in Int
    BY DEF CuratedInv, TypeOK, Request
  <2>2. UNCHANGED <<unread, rpc, gen>>
    BY <1>2 DEF Receive, WorkerStep, CheckCache, LookupTree, FillCache, Block, Pass,
       FlagForReview, TryClaim, QueueGravityCheck, Unclaim, Spawn, TryAnswerCache,
       Forward, StoreAnswer, files, trees, reloader
  <2>3. CASE FillCache(w) \/ FlagForReview(w)
    <3>1. req[w].seen >= 0 /\ req[w].seen <= 0
      BY <1>1, <2>1, <2>3 DEF WorkerAgrees, FillCache, FlagForReview
    <3>2. req[w].seen = gen
      BY <1>1, <2>1, <3>1
    <3>3. late' = late
      BY <1>1, <2>3, <3>2 DEF FillCache, FlagForReview, TypeOK
    <3> QED
      BY <1>1, <2>2, <3>3
  <2>4. CASE ~(FillCache(w) \/ FlagForReview(w))
    <3>1. late' = late
      BY <1>2, <2>4 DEF Receive, WorkerStep, CheckCache, LookupTree, Block, Pass,
         TryClaim, QueueGravityCheck, Unclaim, Spawn, TryAnswerCache,
         Forward, StoreAnswer, trees
    <3> QED
      BY <1>1, <2>2, <3>1
  <2> QED
    BY <2>3, <2>4
<1>3. ASSUME NEW t \in Thread, ThreadStep(t)
      PROVE  ~unread' /\ rpc' \in {"start", "sleep"} /\ gen' = 0 /\ ~late'
  <2>1. ThreadAgrees(gpc[t], job[t]) /\ job[t].seen \in Int
    BY DEF CuratedInv, TypeOK, Job
  <2>2. UNCHANGED <<unread, rpc, gen>>
    BY <1>3 DEF ThreadStep, AskPi, Promote, Invalidate, AppendLearned, MarkDone, Release,
       files, trees, reloader
  <2>3. CASE Promote(t)
    <3>1. job[t].seen >= 0 /\ job[t].seen <= 0
      BY <1>1, <2>1, <2>3 DEF ThreadAgrees, Promote
    <3>2. job[t].seen = gen
      BY <1>1, <2>1, <3>1
    <3>3. late' = late
      BY <1>1, <2>3, <3>2 DEF Promote, TypeOK
    <3> QED
      BY <1>1, <2>2, <3>3
  <2>4. CASE ~Promote(t)
    <3>1. late' = late
      BY <1>3, <2>4 DEF ThreadStep, AskPi, Invalidate, AppendLearned, MarkDone, Release,
         trees
    <3> QED
      BY <1>1, <2>2, <3>1
  <2> QED
    BY <2>3, <2>4
<1>4. CASE ReloadStep
  BY <1>1, <1>4 DEF ReloadStep, StartReloadThread, PollBlocklist, ReadBlocklist,
     ReadLearned, SwapTree, ClearVerdicts, ClearAnswers, trees
<1>5. CASE Environment \/ UNCHANGED vars
  BY <1>0, <1>1, <1>5 DEF Environment, EditBlocklist, EvictVerdict, EvictAnswer, Crash,
     vars, files, trees, reloader
<1> QED
  BY <1>2, <1>3, <1>4, <1>5 DEF Next

LEMMA CachedAllowAgrees ==
    ASSUME TypeOK, CuratedInv, ~late
    PROVE  AllowCacheAgrees
<1> SUFFICES ASSUME rpc \in {"start", "sleep"}, NEW d \in Domain, query_cache[d] = "A"
             PROVE  OnPath(tree, d, "A")
  BY DEF AllowCacheAgrees, Lookup
<1>1. OnPath(loaded, d, "A")
  BY DEF CuratedInv, CacheAgrees, Agrees, Lookup
<1>2. Suffixes[d] \subseteq Domain
  BY BlockTreeAssumption
<1> QED
  BY <1>1, <1>2 DEF OnPath, CuratedInv, TreeKeeps

\* Between reloads a cached ALLOW is never out of step with the live tree, as long as
\* no write based on an older tree has landed since the last reload; and never at all
\* until blocklist.tsv is edited, whatever is promoted, evicted or crashes.
THEOREM AllowCacheAgreesHolds == Spec => []AllowCacheAgrees
<1>1. Init => Unedited
  BY DEF Init, Unedited
<1>2. TypeOK /\ CuratedInv /\ Unedited => AllowCacheAgrees
  BY CachedAllowAgrees DEF Unedited, AllowCacheAgrees
<1>3. TypeOK /\ CuratedInv /\ Unedited /\ [Next]_vars => Unedited'
  BY UneditedStep
<1> QED
  BY <1>1, <1>2, <1>3, CuratedInvariance, PTL DEF Spec

-----------------------------------------------------------------------------
(***************************************************************************)
(* learned.tsv.  With memory to insert and files that open, a domain with a *)
(* line is one that every tree blocks, or one the asked cache still has: so *)
(* nobody who could ask about it again finds it unmatched.                  *)
(***************************************************************************)
Lossless == {"alloc", "file"} \cap Faults = {}

\* A learned domain d that the asked cache has forgotten (a restart) or not heard of.
Settled(d) ==
    /\ tree[d] = "B"
    /\ rpc = "swap" => builder[d] = "B"
    /\ \A w \in Worker : Decided(w) /\ req[w].verdict = "none" => req[w].dom # d

LearnInv ==
    /\ LearnedOnce
    /\ \A d \in Domain : learned[d] > 0 => Insertable(d) /\ (asked[d] = "none" => Settled(d))
    /\ \A t \in Running : job[t].ok \/ gpc[t] = "append" => Insertable(job[t].dom)
    /\ \A t \in Running : gpc[t] # "mark_done" => learned[job[t].dom] = 0
    /\ \A w \in Claiming : learned[req[w].dom] = 0

LEMMA LosslessInsert ==
    ASSUME Lossless, NEW t \in [Domain -> Entry], NEW d \in Domain, NEW s \in Status,
           NEW r \in InsertLive(t, d, s)
    PROVE  /\ r.ok => Insertable(d)
           /\ \A c \in Domain : r.tree[c] = IF c = d /\ Insertable(d) THEN s ELSE t[c]
<1>1. AfterFailedInsert(t[d]) = {}
  BY DEF Lossless, AfterFailedInsert
<1>2. CASE Insertable(d)
  <2>1. r = [tree |-> [t EXCEPT ![d] = s], ok |-> TRUE]
    BY <1>1, <1>2 DEF InsertLive
  <2>2. r.tree = [t EXCEPT ![d] = s] /\ r.ok = TRUE
    BY <2>1
  <2> QED
    BY <1>2, <2>2
<1>3. CASE ~Insertable(d)
  <2>1. r = [tree |-> t, ok |-> FALSE]
    BY <1>3 DEF InsertLive
  <2>2. r.tree = t /\ r.ok = FALSE
    BY <2>1
  <2> QED
    BY <1>3, <2>2
<1> QED
  BY <1>2, <1>3

\* Every tree that is loaded whole blocks the learned domains.
LEMMA LosslessLoad ==
    ASSUME Lossless, NEW t, NEW n \in LoadBlocklist(t, LearnedRows),
           NEW d \in Domain, learned[d] > 0, Insertable(d)
    PROVE  n[d] = "B"
<1>1. LearnedRows[d] = "B"
  BY DEF LearnedRows
<1>2. n[d] \in RowOutcomes(t, LearnedRows, d)
  BY DEF LoadBlocklist, Lossless
<1> QED
  BY <1>1, <1>2 DEF RowOutcomes, AfterFailedInsert, Lossless

\* A step that neither writes learned.tsv nor a tree, and after which nobody new is
\* unmatched, asks, or has been asked about.
LEMMA LearnKept ==
    ASSUME LearnInv, UNCHANGED <<learned, tree, builder>>,
           rpc' = "swap" => rpc = "swap",
           \A d \in Domain : asked'[d] = "none" => asked[d] = "none" \/ learned[d] = 0,
           \A t \in Running' : /\ t \in Running /\ job'[t] = job[t]
                               /\ gpc'[t] = "append" => gpc[t] = "append" \/ job[t].ok
                               /\ gpc'[t] # "mark_done" =>
                                    gpc[t] # "mark_done" \/ learned[job[t].dom] = 0,
           \A w \in Claiming' : learned[req'[w].dom] = 0,
           \A w \in Worker : Decided(w)' /\ req'[w].verdict = "none" =>
                \/ Decided(w) /\ req[w].verdict = "none" /\ req'[w].dom = req[w].dom
                \/ tree[req'[w].dom] # "B"
    PROVE  LearnInv'
<1>1. LearnedOnce'
  BY DEF LearnInv, LearnedOnce
<1>2. ASSUME NEW d \in Domain, learned[d] > 0, asked'[d] = "none"
      PROVE  Settled(d)'
  <2>1. Settled(d)
    BY <1>2 DEF LearnInv, LearnedOnce
  <2> QED
    BY <2>1 DEF Settled
<1> QED
  BY <1>1, <1>2 DEF LearnInv, Insertable

LEMMA LearnWorker ==
    ASSUME Lossless, CheckInv, CuratedInv, LearnInv, NEW w \in Worker,
           Receive(w) \/ WorkerStep(w)
    PROVE  LearnInv'
<1>0. /\ WorkerAgrees(pc[w], req[w]) /\ req[w] \in Request /\ req[w].dom \in Domain
      /\ pc \in [Worker -> WorkerPc] /\ req \in [Worker -> Request]
      /\ gpc \in [Thread -> ThreadPc] /\ job \in [Thread -> Job]
      /\ asked \in [Domain -> {"none", "PENDING", "DONE"}]
      /\ learned \in [Domain -> 0 .. 2] /\ tree \in [Domain -> Entry]
      /\ \A x \in Worker : req[x].dom \in Domain
      /\ \A t \in Thread : job[t].dom \in Domain
  BY DEF CheckInv, CuratedInv, TypeOK, Request, Job
<1>1. CASE Receive(w) \/ CheckCache(w) \/ FillCache(w) \/ Block(w) \/ Pass(w)
           \/ TryAnswerCache(w) \/ Forward(w) \/ StoreAnswer(w) \/ QueueGravityCheck(w)
  <2>1. UNCHANGED <<learned, tree, builder, rpc, asked, gpc, job>> /\ Running' = Running
    BY <1>1 DEF Receive, CheckCache, FillCache, Block, Pass, TryAnswerCache, Forward,
       StoreAnswer, QueueGravityCheck, files, trees, gravity, reloader, Running
  <2>2. \A x \in Worker \ {w} : pc'[x] = pc[x] /\ req'[x] = req[x]
    BY <1>0, <1>1 DEF Receive, CheckCache, FillCache, Block, Pass, TryAnswerCache, Forward,
       StoreAnswer, QueueGravityCheck, Goto, Finish
  <2>3. w \in Claiming' => w \in Claiming /\ req'[w] = req[w]
    BY <1>0, <1>1 DEF Receive, CheckCache, FillCache, Block, Pass, TryAnswerCache, Forward,
       StoreAnswer, QueueGravityCheck, Goto, Finish, Claiming
  <2>4. \A x \in Claiming' : learned[req'[x].dom] = 0
    BY <2>2, <2>3 DEF LearnInv, Claiming
  <2>5. Decided(w)' /\ req'[w].verdict = "none" =>
          Decided(w) /\ req[w].verdict = "none" /\ req'[w].dom = req[w].dom
    BY <1>0, <1>1 DEF Receive, CheckCache, FillCache, Block, Pass, TryAnswerCache, Forward,
       StoreAnswer, QueueGravityCheck, Goto, Finish, Decided, Request
  <2>6. \A x \in Worker : Decided(x)' /\ req'[x].verdict = "none" =>
          Decided(x) /\ req[x].verdict = "none" /\ req'[x].dom = req[x].dom
    BY <2>2, <2>5 DEF Decided
  <2> QED
    BY <2>1, <2>4, <2>6, LearnKept
<1>2. CASE LookupTree(w)
  <2> DEFINE v == Lookup(tree, req[w].dom)
  <2>1. /\ UNCHANGED <<learned, tree, builder, rpc, asked, gpc, job>> /\ Running' = Running
        /\ Claiming' = Claiming \ {w}
    BY <1>0, <1>2 DEF LookupTree, files, trees, gravity, reloader, Goto, Running, Claiming
  <2>2. /\ \A x \in Worker \ {w} : pc'[x] = pc[x] /\ req'[x] = req[x]
        /\ req'[w].dom = req[w].dom /\ req'[w].verdict = v
    BY <1>0, <1>2 DEF LookupTree, Goto, Request
  <2>3. v = "none" /\ Insertable(req[w].dom) => tree[req[w].dom] # "B"
    BY DEF Lookup, OnPath, Insertable
  <2> HIDE DEF v
  <2>4. ASSUME NEW d \in Domain, learned[d] > 0, asked[d] = "none"
        PROVE  Settled(d)'
    <3>1. Settled(d) /\ Insertable(d)
      BY <2>4 DEF LearnInv
    <3> QED
      BY <2>1, <2>2, <2>3, <3>1 DEF Settled, Decided
  <2> QED
    BY <2>1, <2>2, <2>4 DEF LearnInv, LearnedOnce, Insertable, Claiming
<1>3. CASE FlagForReview(w)
  <2>1. /\ UNCHANGED <<learned, builder, rpc, asked, gpc, job, req>> /\ Running' = Running
        /\ Claiming' = Claiming
        /\ pc' = [pc EXCEPT ![w] = "claim"] /\ pc[w] = "decide" /\ req[w].verdict = "none"
    BY <1>0, <1>3 DEF FlagForReview, files, gravity, reloader, Goto, Running, Claiming
  <2>2. \A d \in Domain : d # req[w].dom => tree'[d] = tree[d]
    BY <1>0, <1>3, LosslessInsert DEF FlagForReview, Status
  <2>3. ASSUME NEW d \in Domain, learned[d] > 0, asked[d] = "none"
        PROVE  Settled(d)'
    <3>1. Settled(d)
      BY <2>3 DEF LearnInv
    <3>2. d # req[w].dom
      BY <2>1, <3>1 DEF Settled, Decided
    <3> QED
      BY <1>0, <2>1, <2>2, <3>1, <3>2 DEF Settled, Decided
  <2> QED
    BY <2>1, <2>3 DEF LearnInv, LearnedOnce, Insertable
<1>4. CASE TryClaim(w)
  <2>1. /\ UNCHANGED <<learned, tree, builder, rpc, gpc, job, req>> /\ Running' = Running
        /\ pc[w] = "claim"
    BY <1>4 DEF TryClaim, files, trees, reloader, Running
  <2>2. \A d \in Domain : asked'[d] = "none" => asked[d] = "none"
    BY <1>0, <1>4 DEF TryClaim
  <2>3. req[w].verdict = "none" /\ Decided(w)
    BY <1>0, <2>1 DEF WorkerAgrees, Decided
  <2>4. asked[req[w].dom] = "none" => learned[req[w].dom] = 0
    <3>1. asked[req[w].dom] = "none" /\ learned[req[w].dom] > 0 => Settled(req[w].dom)
      BY <1>0 DEF LearnInv
    <3> QED
      BY <1>0, <2>3, <3>1 DEF Settled
  <2>5. w \in Claiming' => learned[req[w].dom] = 0
    BY <1>0, <1>4, <2>4 DEF TryClaim, Goto, Claiming
  <2>6. \A x \in Claiming' : learned[req'[x].dom] = 0
    BY <1>0, <1>4, <2>1, <2>5 DEF TryClaim, Goto, Claiming, LearnInv
  <2>7. \A x \in Worker : Decided(x)' => Decided(x)
    BY <1>0, <1>4, <2>3 DEF TryClaim, Goto, Decided
  <2> QED
    BY <2>1, <2>2, <2>6, <2>7, LearnKept
<1>5. CASE Unclaim(w)
  <2>1. /\ UNCHANGED <<learned, tree, builder, rpc, gpc, job, req>> /\ Running' = Running
        /\ w \in Claiming /\ Claiming' = Claiming \ {w}
    BY <1>0, <1>5 DEF Unclaim, files, trees, reloader, Running, Claiming, Goto
  <2>2. \A d \in Domain : asked'[d] = IF d = req[w].dom THEN "none" ELSE asked[d]
    BY <1>0, <1>5 DEF Unclaim
  <2>3. learned[req[w].dom] = 0
    BY <2>1 DEF LearnInv
  <2>4. \A x \in Worker : Decided(x)' => Decided(x)
    BY <1>0, <1>5 DEF Unclaim, Goto, Decided
  <2>5. \A x \in Claiming' : learned[req'[x].dom] = 0
    BY <2>1 DEF LearnInv
  <2> QED
    BY <2>1, <2>2, <2>3, <2>4, <2>5, LearnKept
<1>6. CASE Spawn(w)
  <2>1. /\ UNCHANGED <<learned, tree, builder, rpc, asked, req>>
        /\ w \in Claiming /\ Claiming' = Claiming \ {w}
    BY <1>0, <1>6 DEF Spawn, files, trees, reloader, Claiming, Goto
  <2>2. \A x \in Worker : Decided(x)' => Decided(x)
    BY <1>0, <1>6 DEF Spawn, Goto, Decided
  <2>3. \A x \in Claiming' : learned[req'[x].dom] = 0
    BY <2>1 DEF LearnInv
  <2>4. CASE UNCHANGED <<gpc, job>>
    BY <2>1, <2>2, <2>3, <2>4, LearnKept DEF Running
  <2>5. ASSUME NEW t \in Thread, gpc[t] = "idle",
               gpc' = [gpc EXCEPT ![t] = "ask"],
               job' = [job EXCEPT ![t] =
                         [dom |-> req[w].dom, seen |-> req[w].seen, ok |-> FALSE]]
        PROVE  LearnInv'
    <3>1. Running' = Running \cup {t} /\ t \notin Running
      BY <1>0, <2>5 DEF Running
    <3>2. job'[t].dom = req[w].dom /\ job'[t].ok = FALSE
      BY <1>0, <2>5
    <3>3. \A u \in Running : job'[u] = job[u] /\ gpc'[u] = gpc[u]
      BY <1>0, <2>5, <3>1 DEF Running
    <3>4. learned[req[w].dom] = 0
      BY <2>1 DEF LearnInv
    <3>5. \A d \in Domain : Settled(d) => Settled(d)'
      BY <2>1, <2>2 DEF Settled
    <3>6. LearnedOnce'
      BY <2>1 DEF LearnInv, LearnedOnce
    <3>7. gpc'[t] = "ask"
      BY <1>0, <2>5
    <3>8. \A u \in Running' : job'[u].ok \/ gpc'[u] = "append" => Insertable(job'[u].dom)
      BY <3>1, <3>2, <3>3, <3>7 DEF LearnInv
    <3>9. \A u \in Running' : gpc'[u] # "mark_done" => learned[job'[u].dom] = 0
      BY <3>1, <3>2, <3>3, <3>4 DEF LearnInv
    <3> QED
      BY <2>1, <2>3, <3>5, <3>6, <3>8, <3>9 DEF LearnInv, Insertable
  <2> QED
    BY <1>6, <2>4, <2>5 DEF Spawn
<1> QED
  BY <1>1, <1>2, <1>3, <1>4, <1>5, <1>6 DEF WorkerStep

LEMMA LearnThread ==
    ASSUME Lossless, CheckInv, LearnInv, NEW t \in Thread, ThreadStep(t)
    PROVE  LearnInv'
<1>0. /\ job[t] \in Job /\ job[t].dom \in Domain
      /\ gpc \in [Thread -> ThreadPc] /\ job \in [Thread -> Job]
      /\ asked \in [Domain -> {"none", "PENDING", "DONE"}]
      /\ learned \in [Domain -> 0 .. 2] /\ tree \in [Domain -> Entry]
      /\ \A u \in Thread : job[u].dom \in Domain
      /\ OneCheckPerDomain /\ OwnersPending
  BY DEF CheckInv, TypeOK, Job
<1>1. UNCHANGED <<builder, rpc, pc, req>> /\ Claiming' = Claiming
  BY DEF ThreadStep, AskPi, Promote, Invalidate, AppendLearned, MarkDone, Release,
     workers, reloader, Claiming
<1>a. /\ \A w \in Worker : Decided(w)' <=> Decided(w)
      /\ \A d \in Domain : tree'[d] \in {tree[d], "B"} => (Settled(d) => Settled(d)')
  BY <1>1 DEF Decided, Settled
<1>2. CASE AskPi(t) \/ Invalidate(t)
  <2>1. UNCHANGED <<learned, tree, asked, job>> /\ gpc[t] \in {"ask", "invalidate"}
    BY <1>2 DEF AskPi, Invalidate, files, trees
  <2>2. \A u \in Thread \ {t} : gpc'[u] = gpc[u]
    BY <1>0, <1>2 DEF AskPi, Invalidate, GotoT
  <2>3. \A u \in Running' : u \in Running
    BY <2>1, <2>2 DEF Running
  <2>4. learned[job[t].dom] = 0
    BY <2>1 DEF LearnInv, Running
  <2>5. \A u \in Running' :
          /\ gpc'[u] # "mark_done" => gpc[u] # "mark_done" \/ learned[job[u].dom] = 0
          /\ gpc'[u] = "append" => gpc[u] = "append" \/ job[u].ok
    BY <1>0, <1>2, <2>2, <2>4 DEF AskPi, Invalidate, GotoT, Running
  <2>6. \A w \in Claiming' : learned[req'[w].dom] = 0
    BY <1>1 DEF LearnInv
  <2> QED
    BY <1>1, <1>a, <2>1, <2>3, <2>5, <2>6, LearnKept
<1>3. CASE Promote(t)
  <2>1. PICK r \in InsertLive(tree, job[t].dom, "B") :
          tree' = r.tree /\ job' = [job EXCEPT ![t].ok = r.ok]
    BY <1>3 DEF Promote
  <2>2. /\ r.ok => Insertable(job[t].dom)
        /\ \A d \in Domain : tree'[d] \in {tree[d], "B"}
    BY <1>0, <2>1, LosslessInsert DEF Status
  <2>3. UNCHANGED <<learned, asked>> /\ gpc' = [gpc EXCEPT ![t] = "invalidate"]
        /\ gpc[t] = "insert"
    BY <1>3 DEF Promote, files, GotoT
  <2>4. Running' = Running /\ t \in Running
    BY <1>0, <2>3 DEF Running
  <2>5. \A u \in Thread : job'[u].dom = job[u].dom /\ (job'[u].ok => job[u].ok \/ u = t)
    BY <1>0, <2>1 DEF Job
  <2>6. job'[t].ok => Insertable(job[t].dom)
    BY <1>0, <2>1, <2>2 DEF Job
  <2>7. \A u \in Running' : job'[u].ok \/ gpc'[u] = "append" => Insertable(job'[u].dom)
    BY <1>0, <2>3, <2>4, <2>5, <2>6 DEF LearnInv, Running
  <2>8. \A u \in Running' : gpc'[u] # "mark_done" => learned[job'[u].dom] = 0
    BY <1>0, <2>3, <2>4, <2>5 DEF LearnInv, Running
  <2>9. \A d \in Domain : Settled(d) => Settled(d)'
    BY <1>a, <2>2
  <2> QED
    BY <1>1, <2>3, <2>7, <2>8, <2>9 DEF LearnInv, LearnedOnce, Insertable
<1>4. CASE AppendLearned(t)
  <2>1. UNCHANGED <<tree, asked, job>> /\ gpc' = [gpc EXCEPT ![t] = "mark_done"]
        /\ gpc[t] = "append"
    BY <1>4 DEF AppendLearned, trees, GotoT
  <2>2. Running' = Running /\ t \in Running
    BY <1>0, <2>1 DEF Running
  <2>3. learned[job[t].dom] = 0 /\ asked[job[t].dom] = "PENDING"
    BY <1>0, <2>1, <2>2 DEF LearnInv, OwnersPending
  <2>4. \A d \in Domain : learned'[d] = IF d = job[t].dom THEN 1 ELSE learned[d]
    BY <1>0, <1>4, <2>3 DEF AppendLearned, Lossless
  <2>5. Insertable(job[t].dom)
    BY <2>1, <2>2 DEF LearnInv
  <2>6. \A u \in Running \ {t} : job[u].dom # job[t].dom /\ gpc'[u] = gpc[u]
    BY <1>0, <2>1, <2>2 DEF OneCheckPerDomain, Running
  <2>7. \A w \in Claiming : req[w].dom # job[t].dom /\ req[w].dom \in Domain
    BY <1>0, <2>2 DEF OneCheckPerDomain, CheckInv, TypeOK, Request, Claiming
  <2>8. \A d \in Domain : Settled(d) => Settled(d)'
    BY <1>a, <2>1
  <2>9. LearnedOnce'
    BY <2>4 DEF LearnInv, LearnedOnce
  <2>10. \A d \in Domain : learned'[d] > 0 =>
           Insertable(d) /\ (asked'[d] = "none" => Settled(d)')
    BY <2>1, <2>3, <2>4, <2>5, <2>8 DEF LearnInv
  <2>11. \A u \in Running' : gpc'[u] # "mark_done" => learned'[job'[u].dom] = 0
    BY <1>0, <2>1, <2>2, <2>4, <2>6 DEF LearnInv, Running
  <2>13. \A u \in Running' : job'[u].ok \/ gpc'[u] = "append" => Insertable(job'[u].dom)
    BY <1>0, <2>1, <2>2, <2>5 DEF LearnInv, Running
  <2>12. \A w \in Claiming' : learned'[req'[w].dom] = 0
    BY <1>1, <2>4, <2>7 DEF LearnInv
  <2> QED
    BY <2>1, <2>2, <2>9, <2>10, <2>11, <2>13, <2>12 DEF LearnInv, Insertable
<1>5. CASE MarkDone(t)
  <2>1. UNCHANGED <<learned, tree, job>> /\ Running' = Running \ {t} /\ t \in Running
    BY <1>0, <1>5 DEF MarkDone, files, trees, GotoT, Running
  <2>2. asked[job[t].dom] = "PENDING"
    BY <1>0, <2>1 DEF OwnersPending
  <2>3. \A d \in Domain : asked'[d] = "none" =>
          asked[d] = "none" \/ (d = job[t].dom /\ gpc[t] # "mark_done")
    BY <1>0, <1>5, <2>2 DEF MarkDone
  <2>4. gpc[t] # "mark_done" => learned[job[t].dom] = 0
    BY <2>1 DEF LearnInv
  <2>5. \A d \in Domain : asked'[d] = "none" => asked[d] = "none" \/ learned[d] = 0
    BY <2>3, <2>4
  <2>6. \A u \in Running' : u \in Running /\ gpc'[u] = gpc[u]
    BY <1>0, <1>5, <2>1 DEF MarkDone, GotoT, Running
  <2>7. \A w \in Claiming' : learned[req'[w].dom] = 0
    BY <1>1 DEF LearnInv
  <2> QED
    BY <1>1, <1>a, <2>1, <2>5, <2>6, <2>7, LearnKept
<1>6. CASE Release(t)
  <2>1. UNCHANGED <<learned, tree, asked>> /\ Running' = Running /\ t \notin Running
    BY <1>0, <1>6 DEF Release, files, trees, GotoT, Running
  <2>2. \A u \in Running : gpc'[u] = gpc[u] /\ job'[u] = job[u]
    BY <1>0, <1>6, <2>1 DEF Release, GotoT, Running
  <2>3. \A w \in Claiming' : learned[req'[w].dom] = 0
    BY <1>1 DEF LearnInv
  <2> QED
    BY <1>1, <1>a, <2>1, <2>2, <2>3, LearnKept
<1> QED
  BY <1>2, <1>3, <1>4, <1>5, <1>6 DEF ThreadStep

LEMMA LearnApart ==
    ASSUME Lossless, TypeOK, LearnInv, ReloadStep \/ Environment \/ UNCHANGED vars
    PROVE  LearnInv'
<1>1. CASE ReadLearned
  <2>1. UNCHANGED <<learned, tree, asked, gpc, job, pc, req>>
    BY <1>1 DEF ReadLearned, files, trees, gravity, workers
  <2>2. Running' = Running /\ Claiming' = Claiming /\ \A w \in Worker : Decided(w)' <=> Decided(w)
    BY <2>1 DEF Running, Claiming, Decided
  <2>3. \A d \in Domain : learned[d] > 0 /\ Insertable(d) => builder'[d] = "B"
    BY <1>1, LosslessLoad DEF ReadLearned
  <2>4. ASSUME NEW d \in Domain, learned[d] > 0, asked[d] = "none"
        PROVE  Settled(d)'
    <3>1. Settled(d) /\ Insertable(d)
      BY <2>4 DEF LearnInv
    <3> QED
      BY <2>1, <2>2, <2>3, <2>4, <3>1 DEF Settled
  <2> QED
    BY <2>1, <2>2, <2>4 DEF LearnInv, LearnedOnce, Insertable
<1>2. CASE SwapTree
  <2>1. UNCHANGED <<learned, asked, gpc, job, pc, req>> /\ rpc = "swap"
        /\ rpc' # "swap" /\ tree' = builder
    BY <1>2 DEF SwapTree, files, gravity, workers
  <2>2. Running' = Running /\ Claiming' = Claiming /\ \A w \in Worker : Decided(w)' <=> Decided(w)
    BY <2>1 DEF Running, Claiming, Decided
  <2>3. \A d \in Domain : Settled(d) => Settled(d)'
    BY <2>1, <2>2 DEF Settled
  <2> QED
    BY <2>1, <2>2, <2>3 DEF LearnInv, LearnedOnce, Insertable
<1>3. CASE StartReloadThread \/ PollBlocklist \/ ReadBlocklist \/ ClearVerdicts \/ ClearAnswers
           \/ EditBlocklist \/ EvictVerdict \/ EvictAnswer \/ UNCHANGED vars
  <2>1. UNCHANGED <<learned, tree, asked, gpc, job, pc, req>> /\ (rpc' = "swap" => rpc = "swap")
    BY <1>3 DEF StartReloadThread, PollBlocklist, ReadBlocklist, ClearVerdicts, ClearAnswers,
       EditBlocklist, EvictVerdict, EvictAnswer, vars, files, trees, gravity, workers, reloader
  <2>2. Running' = Running /\ Claiming' = Claiming /\ \A w \in Worker : Decided(w)' <=> Decided(w)
    BY <2>1 DEF Running, Claiming, Decided
  <2>3. rpc' = "swap" => builder' = builder
    BY <1>3 DEF StartReloadThread, PollBlocklist, ReadBlocklist, ClearVerdicts, ClearAnswers,
       EditBlocklist, EvictVerdict, EvictAnswer, vars, reloader
  <2>4. \A d \in Domain : Settled(d) => Settled(d)'
    BY <2>1, <2>2, <2>3 DEF Settled
  <2> QED
    BY <2>1, <2>2, <2>4 DEF LearnInv, LearnedOnce, Insertable
<1>4. CASE Crash
  <2>1. learned' = learned /\ rpc' = "start" /\ Running' = {} /\ Claiming' = {}
        /\ \A w \in Worker : ~Decided(w)'
    BY <1>4 DEF Crash, AllIdle, Running, Claiming, Decided
  <2>2. \A d \in Domain : learned[d] > 0 /\ Insertable(d) => tree'[d] = "B"
    BY <1>4, LosslessLoad DEF Crash
  <2>3. \A d \in Domain : learned[d] > 0 => Insertable(d) /\ Settled(d)'
    BY <2>1, <2>2 DEF LearnInv, Settled
  <2> QED
    BY <2>1, <2>3 DEF LearnInv, LearnedOnce, Insertable
<1> QED
  BY <1>1, <1>2, <1>3, <1>4 DEF ReloadStep, Environment

LEMMA LearnInit == Init => LearnInv
<1> SUFFICES ASSUME Init PROVE LearnInv
  OBVIOUS
<1>1. Running = {} /\ Claiming = {} /\ \A d \in Domain : learned[d] = 0
  BY DEF Init, AllIdle, Running, Claiming
<1> QED
  BY <1>1 DEF LearnInv, LearnedOnce

LEMMA LearnStep ==
    ASSUME Lossless, TypeOK, CuratedInv, CheckInv, LearnInv, [Next]_vars
    PROVE  LearnInv'
BY LearnWorker, LearnThread, LearnApart DEF Next

\* A domain is written to learned.tsv at most once, over any number of reloads, edits,
\* crashes and restarts, whatever the workers and threads do, as long as inserts find
\* memory and the files open.
THEOREM LearnedOnceHolds == Spec => [](Lossless => LearnedOnce)
<1>1. TypeOK /\ CuratedInv /\ CheckInv /\ (Lossless => LearnInv) /\ [Next]_vars
        => (Lossless => LearnInv)'
  BY LearnStep DEF Lossless
<1>2. (Lossless => LearnInv) => (Lossless => LearnedOnce)
  BY DEF LearnInv
<1> QED
  BY <1>1, <1>2, LearnInit, CheckInit, CheckStep, CuratedInvariance, PTL DEF Spec

-----------------------------------------------------------------------------
(***************************************************************************)
(* Promotions.  What is learned, or is about to be, is blocked by the live  *)
(* tree, and by the tree that a reload is about to publish, unless one of   *)
(* the two races has undone it.                                             *)
(***************************************************************************)
\* The threads that have promoted their domain and not yet written it down.
Promoting == {t \in Thread : gpc[t] \in {"invalidate", "append"}}

PromotedInv ==
    /\ \A d \in Domain : learned[d] > 0 => Insertable(d)
    /\ \A t \in Promoting : job[t].ok \/ gpc[t] = "append" => Insertable(job[t].dom)
    /\ LearnedIsBlocked
    /\ \A t \in Promoting : (job[t].ok \/ gpc[t] = "append") /\ job[t].dom \notin lapsed =>
         tree[job[t].dom] = "B"
    /\ rpc = "swap" =>
         \A d \in Domain : learned[d] > 0 /\ d \notin missed => builder[d] = "B"

\* Steps that touch neither the trees nor learned.tsv, and after which no thread
\* is newly promoting.
LEMMA PromotedKept ==
    ASSUME PromotedInv, UNCHANGED <<learned, tree, lapsed, builder, missed>>,
           rpc' = "swap" => rpc = "swap",
           \A t \in Promoting' :
               /\ t \in Promoting /\ job'[t] = job[t]
               /\ gpc'[t] = "append" => gpc[t] = "append" \/ job[t].ok
    PROVE  PromotedInv'
  BY DEF PromotedInv, LearnedIsBlocked, Insertable

LEMMA PromotedWorker ==
    ASSUME Lossless, TypeOK, PromotedInv, NEW w \in Worker, Receive(w) \/ WorkerStep(w)
    PROVE  PromotedInv'
<1>0. /\ req[w].dom \in Domain /\ tree \in [Domain -> Entry]
      /\ gpc \in [Thread -> ThreadPc] /\ job \in [Thread -> Job]
  BY DEF TypeOK, Request
<1>1. CASE FlagForReview(w)
  <2>1. PICK r \in InsertLive(tree, req[w].dom, "R") : tree' = r.tree
    BY <1>1 DEF FlagForReview
  <2>2. \A d \in Domain : tree'[d] = IF d = req[w].dom /\ Insertable(req[w].dom)
                                     THEN "R" ELSE tree[d]
    BY <1>0, <2>1, LosslessInsert DEF Status
  <2>3. /\ lapsed' = lapsed \cup {d \in {req[w].dom} : tree[d] = "B"}
        /\ UNCHANGED <<learned, gpc, job, rpc, builder, missed>>
    BY <1>1 DEF FlagForReview, files, gravity, reloader
  <2>4. \A d \in Domain : d \notin lapsed' /\ tree[d] = "B" => d \notin lapsed /\ tree'[d] = "B"
    BY <2>2, <2>3
  <2>5. \A d \in Domain : d \notin lapsed' => d \notin lapsed
    BY <2>3
  <2>6. Promoting' = Promoting /\ \A t \in Promoting : job[t].dom \in Domain
    BY <1>0, <2>3 DEF Promoting, Job
  <2> QED
    BY <2>3, <2>4, <2>5, <2>6 DEF PromotedInv, LearnedIsBlocked, Insertable
<1>2. CASE Spawn(w)
  <2>1. UNCHANGED <<learned, tree, lapsed, rpc, builder, missed>>
    BY <1>2 DEF Spawn, files, trees, reloader
  <2>2. \A t \in Promoting' : t \in Promoting /\ job'[t] = job[t] /\ gpc'[t] = gpc[t]
    BY <1>0, <1>2 DEF Spawn, Promoting
  <2> QED
    BY <2>1, <2>2, PromotedKept
<1>3. CASE ~(FlagForReview(w) \/ Spawn(w))
  <2>1. UNCHANGED <<learned, tree, lapsed, rpc, builder, missed, gpc, job>>
    BY <1>3
    DEF Receive, WorkerStep, CheckCache, LookupTree, FillCache, Block, Pass, TryClaim,
        QueueGravityCheck, Unclaim, TryAnswerCache, Forward, StoreAnswer, files, trees,
        gravity, reloader
  <2>2. Promoting' = Promoting
    BY <2>1 DEF Promoting
  <2> QED
    BY <2>1, <2>2, PromotedKept
<1> QED
  BY <1>1, <1>2, <1>3

LEMMA PromotedThread ==
    ASSUME Lossless, TypeOK, PromotedInv, NEW t \in Thread, ThreadStep(t)
    PROVE  PromotedInv'
<1>0. /\ job[t].dom \in Domain /\ tree \in [Domain -> Entry]
      /\ gpc \in [Thread -> ThreadPc] /\ job \in [Thread -> Job]
      /\ learned \in [Domain -> 0 .. 2]
      /\ \A u \in Thread : job[u].dom \in Domain
  BY DEF TypeOK, Job
<1>1. CASE Promote(t)
  <2>1. PICK r \in InsertLive(tree, job[t].dom, "B") :
          /\ tree' = r.tree /\ job' = [job EXCEPT ![t].ok = r.ok]
          /\ lapsed' = lapsed \ {d \in {job[t].dom} : r.ok}
    BY <1>1 DEF Promote
  <2>2. /\ r.ok => Insertable(job[t].dom)
        /\ \A d \in Domain : tree'[d] = IF d = job[t].dom /\ Insertable(job[t].dom)
                                        THEN "B" ELSE tree[d]
    BY <1>0, <2>1, LosslessInsert DEF Status
  <2>3. UNCHANGED <<learned, rpc, builder, missed>> /\ gpc' = [gpc EXCEPT ![t] = "invalidate"]
    BY <1>1 DEF Promote, files, reloader, GotoT
  <2>4. \A u \in Thread : /\ job'[u].dom = job[u].dom
                          /\ job'[u].ok = IF u = t THEN r.ok ELSE job[u].ok
    BY <1>0, <2>1 DEF Job
  <2>5. \A u \in Promoting' : u = t \/ (u \in Promoting /\ gpc'[u] = gpc[u])
    BY <1>0, <2>3 DEF Promoting
  <2>6. gpc'[t] # "append" /\ Promoting' \subseteq Thread
    BY <1>0, <2>3 DEF Promoting
  <2>7. \A d \in Domain : d \notin lapsed' => d \notin lapsed \/ tree'[d] = "B"
    BY <2>1, <2>2
  <2>8. \A d \in Domain : tree[d] = "B" => tree'[d] = "B"
    BY <2>2
  <2>9. LearnedIsBlocked'
    BY <2>3, <2>7, <2>8 DEF PromotedInv, LearnedIsBlocked
  <2>10. ASSUME NEW u \in Promoting', job'[u].ok \/ gpc'[u] = "append"
         PROVE  /\ Insertable(job'[u].dom)
                /\ job'[u].dom \notin lapsed' => tree'[job'[u].dom] = "B"
    <3>1. CASE u = t
      BY <1>0, <2>2, <2>4, <2>6, <2>10, <3>1
    <3>2. CASE u # t
      <4>1. u \in Promoting /\ gpc'[u] = gpc[u] /\ job'[u].dom = job[u].dom
            /\ job'[u].ok = job[u].ok /\ job[u].dom \in Domain
        BY <1>0, <2>4, <2>5, <2>6, <3>2
      <4> QED
        BY <2>7, <2>8, <2>10, <4>1 DEF PromotedInv
    <3> QED
      BY <3>1, <3>2
  <2> QED
    BY <2>3, <2>9, <2>10 DEF PromotedInv, Insertable
<1>2. CASE AppendLearned(t)
  <2>1. UNCHANGED <<tree, lapsed, job, rpc, builder>> /\ gpc' = [gpc EXCEPT ![t] = "mark_done"]
        /\ t \in Promoting /\ gpc[t] = "append"
    BY <1>2 DEF AppendLearned, trees, GotoT, Promoting
  <2>2. /\ \A d \in Domain : learned'[d] > 0 => learned[d] > 0 \/ d = job[t].dom
        /\ missed' = IF rpc = "swap" THEN missed \cup {job[t].dom} ELSE missed
    BY <1>0, <1>2 DEF AppendLearned, Lossless
  <2>3. \A u \in Promoting' : u \in Promoting /\ gpc'[u] = gpc[u]
    BY <1>0, <2>1 DEF Promoting
  <2>4. /\ Insertable(job[t].dom)
        /\ job[t].dom \notin lapsed => tree[job[t].dom] = "B"
    BY <2>1 DEF PromotedInv
  <2>5. LearnedIsBlocked'
    BY <2>1, <2>2, <2>4 DEF PromotedInv, LearnedIsBlocked
  <2>6. rpc' = "swap" =>
          \A d \in Domain : learned'[d] > 0 /\ d \notin missed' => builder'[d] = "B"
    BY <2>1, <2>2 DEF PromotedInv
  <2>7. \A d \in Domain : learned'[d] > 0 => Insertable(d)
    BY <2>2, <2>4 DEF PromotedInv
  <2> QED
    BY <2>1, <2>3, <2>5, <2>6, <2>7 DEF PromotedInv, Insertable
<1>3. CASE ~(Promote(t) \/ AppendLearned(t))
  <2>1. UNCHANGED <<learned, tree, lapsed, rpc, builder, missed>>
    BY <1>3 DEF ThreadStep, AskPi, Invalidate, MarkDone, Release, files, trees, reloader
  <2>2. \A u \in Thread \ {t} : gpc'[u] = gpc[u] /\ job'[u] = job[u]
    BY <1>0, <1>3 DEF ThreadStep, AskPi, Invalidate, MarkDone, Release, GotoT
  <2>3. t \in Promoting' => /\ t \in Promoting /\ job'[t] = job[t]
                            /\ gpc'[t] = "append" => gpc[t] = "append" \/ job[t].ok
    BY <1>0, <1>3 DEF ThreadStep, AskPi, Invalidate, MarkDone, Release, GotoT, Promoting
  <2>4. \A u \in Promoting' :
          /\ u \in Promoting /\ job'[u] = job[u]
          /\ gpc'[u] = "append" => gpc[u] = "append" \/ job[u].ok
    BY <2>2, <2>3 DEF Promoting
  <2> QED
    BY <2>1, <2>4, PromotedKept
<1> QED
  BY <1>1, <1>2, <1>3

LEMMA PromotedReload ==
    ASSUME Lossless, TypeOK, PromotedInv, ReloadStep
    PROVE  PromotedInv'
<1>1. CASE ReadLearned
  <2>1. UNCHANGED <<learned, tree, lapsed, gpc, job>> /\ missed' = {}
    BY <1>1 DEF ReadLearned, files, trees, gravity
  <2>2. \A d \in Domain : learned[d] > 0 => builder'[d] = "B"
    BY <1>1, LosslessLoad DEF ReadLearned, PromotedInv
  <2>3. Promoting' = Promoting
    BY <2>1 DEF Promoting
  <2> QED
    BY <2>1, <2>2, <2>3 DEF PromotedInv, LearnedIsBlocked, Insertable
<1>2. CASE SwapTree
  <2>1. /\ UNCHANGED <<learned, gpc, job>> /\ rpc = "swap" /\ rpc' # "swap"
        /\ tree' = builder
        /\ lapsed' = missed \cup {job[t].dom : t \in Promoting}
    BY <1>2 DEF SwapTree, files, gravity, Promoting
  <2>2. Promoting' = Promoting
    BY <2>1 DEF Promoting
  <2>3. \A t \in Promoting : job[t].dom \in lapsed'
    BY <2>1
  <2>4. LearnedIsBlocked'
    BY <2>1 DEF PromotedInv, LearnedIsBlocked
  <2> QED
    BY <2>1, <2>2, <2>3, <2>4 DEF PromotedInv, Insertable
<1>3. CASE ReadBlocklist
  <2>1. UNCHANGED <<learned, tree, lapsed, gpc, job>> /\ rpc' # "swap"
    BY <1>3 DEF ReadBlocklist, files, trees, gravity
  <2>2. Promoting' = Promoting
    BY <2>1 DEF Promoting
  <2> QED
    BY <2>1, <2>2 DEF PromotedInv, LearnedIsBlocked, Insertable
<1>4. CASE StartReloadThread \/ PollBlocklist \/ ClearVerdicts \/ ClearAnswers
  <2>1. UNCHANGED <<learned, tree, lapsed, builder, missed, gpc, job>> /\ rpc' # "swap"
    BY <1>4 DEF StartReloadThread, PollBlocklist, ClearVerdicts, ClearAnswers, files, trees,
       gravity
  <2>2. Promoting' = Promoting
    BY <2>1 DEF Promoting
  <2> QED
    BY <2>1, <2>2, PromotedKept
<1> QED
  BY <1>1, <1>2, <1>3, <1>4 DEF ReloadStep

LEMMA PromotedEnvironment ==
    ASSUME Lossless, TypeOK, PromotedInv, Environment \/ UNCHANGED vars
    PROVE  PromotedInv'
<1>1. CASE Crash
  <2>1. learned' = learned /\ rpc' = "start" /\ \A t \in Thread : gpc'[t] = "idle"
    BY <1>1 DEF Crash, AllIdle
  <2>2. \A d \in Domain : learned[d] > 0 => tree'[d] = "B"
    BY <1>1, LosslessLoad DEF Crash, PromotedInv
  <2>3. Promoting' = {}
    BY <2>1 DEF Promoting
  <2> QED
    BY <2>1, <2>2, <2>3 DEF PromotedInv, LearnedIsBlocked, Insertable
<1>2. CASE EditBlocklist \/ EvictVerdict \/ EvictAnswer \/ UNCHANGED vars
  <2>1. UNCHANGED <<learned, tree, lapsed, rpc, builder, missed, gpc, job>>
    BY <1>2 DEF EditBlocklist, EvictVerdict, EvictAnswer, vars, files, trees, gravity,
       reloader
  <2>2. Promoting' = Promoting
    BY <2>1 DEF Promoting
  <2> QED
    BY <2>1, <2>2, PromotedKept
<1> QED
  BY <1>1, <1>2 DEF Environment

\* With memory to insert and files that open, whatever learned.tsv holds is blocked in
\* the live tree, over any edits, reloads, crashes and any number of workers, unless a
\* late review entry or a reload that had read the file before has undone it
\* (gravity_check_thread, flag_for_review, reload_thread_proc).
THEOREM LearnedIsBlockedHolds == Spec => [](Lossless => LearnedIsBlocked)
<1>1. Init => PromotedInv
  <2> SUFFICES ASSUME Init PROVE PromotedInv
    OBVIOUS
  <2>1. Promoting = {} /\ rpc = "start" /\ \A d \in Domain : learned[d] = 0
    BY DEF Init, AllIdle, Promoting
  <2> QED
    BY <2>1 DEF PromotedInv, LearnedIsBlocked
<1>2. TypeOK /\ (Lossless => PromotedInv) /\ [Next]_vars => (Lossless => PromotedInv)'
  BY PromotedWorker, PromotedThread, PromotedReload, PromotedEnvironment DEF Next, Lossless
<1>3. (Lossless => PromotedInv) => (Lossless => LearnedIsBlocked)
  BY DEF PromotedInv
<1> QED
  BY <1>1, <1>2, <1>3, TypeCorrect, PTL DEF Spec
=============================================================================
