-------------------------------- MODULE Proxy --------------------------------
(***************************************************************************)
(* The decision core of nyet.c: the worker threads that answer queries, the *)
(* gravity threads that ask the Pi about new domains, and the thread that   *)
(* hot-reloads the blocklist, at the grain of the locks they take.          *)
(*                                                                          *)
(* A step is one critical section (or one system call).  Between two steps  *)
(* of a thread any other thread may run.                                    *)
(***************************************************************************)
EXTENDS ProxyState

-----------------------------------------------------------------------------
(***************************************************************************)
(* Slips that an edit of nyet.c could make.  None of them is part of the    *)
(* specification: each takes the place of one action below when a property  *)
(* is tested for being able to fail.                                        *)
(***************************************************************************)
\* The !check.matched guard in front of run_heuristics is lost.
FlagAnythingUnblocked(w) ==
    /\ pc[w] = "decide" /\ req[w].verdict # "B"
    /\ \E r \in InsertLive(tree, req[w].dom, "R") : tree' = r.tree
    /\ lapsed' = lapsed \cup {d \in {req[w].dom} : tree[d] = "B"}
    /\ late' = (late \/ req[w].seen # gen)
    /\ Goto(w, "claim")
    /\ UNCHANGED <<files, loaded, gen, caches, gravity, req, reloader>>

\* asked_cache_try_claim stops only at DONE, not at PENDING.
ClaimPending(w) ==
    /\ pc[w] = "claim"
    /\ \/ /\ asked[req[w].dom] # "DONE"
          /\ asked' = [asked EXCEPT ![req[w].dom] = "PENDING"]
          /\ Goto(w, "queue")
       \/ /\ asked[req[w].dom] = "DONE"
          /\ asked' = asked
          /\ Goto(w, "answer")
    /\ UNCHANGED <<files, trees, caches, sem, gpc, job, req, reloader>>

\* asked_cache_try_claim waits until the domain is unclaimed.
ClaimWaits(w) ==
    /\ pc[w] = "claim"
    /\ asked[req[w].dom] = "none"
    /\ asked' = [asked EXCEPT ![req[w].dom] = "PENDING"]
    /\ Goto(w, "queue")
    /\ UNCHANGED <<files, trees, caches, sem, gpc, job, req, reloader>>

\* queue_gravity_check at the cap returns with the claim still standing.
KeepClaim(w) ==
    /\ pc[w] = "unclaim"
    /\ asked' = asked
    /\ Goto(w, "answer")
    /\ UNCHANGED <<files, trees, caches, sem, gpc, job, req, reloader>>

\* gravity_check_thread returns early when the Pi could not be reached.
MarkAndReturn(t) ==
    /\ gpc[t] \in {"mark_done", "mark_failed"}
    /\ asked' = [asked EXCEPT ![job[t].dom] =
                   IF gpc[t] = "mark_done" /\ @ # "none" THEN "DONE" ELSE "none"]
    /\ GotoT(t, IF gpc[t] = "mark_done" THEN "release" ELSE "idle")
    /\ UNCHANGED <<files, trees, caches, sem, job, workers, reloader>>

\* asked_cache_mark_done is called only with an answer.
MarkAnswers(t) ==
    /\ gpc[t] \in {"mark_done", "mark_failed"}
    /\ asked' = [asked EXCEPT ![job[t].dom] =
                   IF gpc[t] = "mark_done" /\ @ # "none" THEN "DONE" ELSE @]
    /\ GotoT(t, "release")
    /\ UNCHANGED <<files, trees, caches, sem, job, workers, reloader>>

\* A reload that finds no rows in blocklist.tsv keeps the old tree.
SkipEmptyList ==
    /\ rpc = "read_blocklist"
    /\ builder' \in LoadBlocklist(EmptyTree, blocklist)
    /\ rpc' = IF builder' = EmptyTree THEN "sleep" ELSE "read_learned"
    /\ UNCHANGED <<files, trees, caches, gravity, workers, missed>>

\* A reload does not clear the verdict cache.
KeepVerdicts ==
    /\ rpc = "clear_verdicts"
    /\ rpc' = "clear_answers"
    /\ UNCHANGED <<files, trees, caches, gravity, workers, builder, missed>>

-----------------------------------------------------------------------------
(***************************************************************************)
(* Start-up.  proxy_init loads both files into one tree and publishes it    *)
(* before any thread runs.                                                  *)
(***************************************************************************)
Init ==
    /\ blocklist \in Lists
    /\ learned = [d \in Domain |-> 0]
    /\ unread = FALSE /\ edits = 0 /\ crashes = 0
    /\ tree \in LoadBlocklist(EmptyTree, blocklist)
    /\ loaded = tree /\ gen = 0 /\ late = FALSE /\ lapsed = {}
    /\ query_cache = EmptyTree /\ answer_cache = {}
    /\ asked = NothingAsked /\ sem = MaxGravity
    /\ gpc = AllIdle(Thread) /\ job = [t \in Thread |-> NoJob]
    /\ pc = AllIdle(Worker) /\ req = [w \in Worker |-> NoRequest]
    /\ rpc = "start" /\ builder = EmptyTree /\ missed = {}

-----------------------------------------------------------------------------
(***************************************************************************)
(* Workers: process_request.                                                *)
(***************************************************************************)
\* A parsed query that passed the rate limiter.
Receive(w) ==
    /\ pc[w] = "idle"
    /\ \E d \in Domain, a \in BOOLEAN :
         req' = [req EXCEPT ![w] =
                   [dom |-> d, address |-> a, verdict |-> "none",
                    since |-> IF rpc = "clear_verdicts" THEN -1 ELSE gen,
                    seen |-> -1]]
    /\ Goto(w, "check_cache")
    /\ UNCHANGED <<files, trees, caches, gravity, reloader>>

\* check_domain: the verdict cache in front of the tree.  It may miss what it
\* holds (see VerdictMap).
CheckCache(w) ==
    /\ pc[w] = "check_cache"
    /\ \E hit \in {query_cache[req[w].dom], "none"} :
         /\ req' = [req EXCEPT ![w].verdict = hit]
         /\ Goto(w, IF hit = "none" THEN "lookup" ELSE "decide")
    /\ UNCHANGED <<files, trees, caches, gravity, reloader>>

\* check_domain: radix_lookup.  Blocked and allowed go to the verdict cache.
LookupTree(w) ==
    /\ pc[w] = "lookup"
    /\ LET v == Lookup(tree, req[w].dom)
       IN  /\ req' = [req EXCEPT ![w].verdict = v, ![w].seen = gen]
           /\ Goto(w, IF v \in {"A", "B"} THEN "fill_cache" ELSE "decide")
    /\ UNCHANGED <<files, trees, caches, gravity, reloader>>

\* check_domain: dns_cache_insert.
FillCache(w) ==
    /\ pc[w] = "fill_cache"
    /\ query_cache' = [query_cache EXCEPT ![req[w].dom] = req[w].verdict]
    /\ late' = (late \/ (req[w].seen # gen /\ rpc # "clear_verdicts"))
    /\ Goto(w, "decide")
    /\ UNCHANGED <<files, tree, loaded, gen, lapsed, answer_cache, gravity, req, reloader>>

\* A blocked domain gets the blocked response, and nothing else happens.
Block(w) ==
    /\ pc[w] = "decide" /\ req[w].verdict = "B"
    /\ Finish(w)
    /\ UNCHANGED <<files, trees, caches, gravity, reloader>>

\* Anything with a review or allow entry goes on without being scored.
Pass(w) ==
    /\ pc[w] = "decide" /\ req[w].verdict \in {"A", "R"}
    /\ Goto(w, "answer")
    /\ UNCHANGED <<files, trees, caches, gravity, req, reloader>>

\* run_heuristics: an unmatched domain is scored and, whatever its score,
\* flag_for_review gives it a review entry in the live tree.
FlagForReview(w) ==
    /\ pc[w] = "decide" /\ req[w].verdict = "none"
    /\ \E r \in InsertLive(tree, req[w].dom, "R") : tree' = r.tree
    /\ lapsed' = lapsed \cup {d \in {req[w].dom} : tree[d] = "B"}
    /\ late' = (late \/ req[w].seen # gen)
    /\ Goto(w, "claim")
    /\ UNCHANGED <<files, loaded, gen, caches, gravity, req, reloader>>

\* asked_cache_try_claim: the first to ask about a domain claims it.
TryClaim(w) ==
    /\ pc[w] = "claim"
    /\ \/ /\ asked[req[w].dom] = "none"
          /\ asked' = [asked EXCEPT ![req[w].dom] = "PENDING"]
          /\ Goto(w, "queue")
       \/ /\ asked[req[w].dom] # "none" \/ "alloc" \in Faults
          /\ asked' = asked
          /\ Goto(w, "answer")
    /\ UNCHANGED <<files, trees, caches, sem, gpc, job, req, reloader>>

\* queue_gravity_check: a poll of the semaphore, never a wait.
QueueGravityCheck(w) ==
    /\ pc[w] = "queue"
    /\ IF sem = 0 THEN sem' = sem /\ Goto(w, "unclaim")
                  ELSE sem' = sem - 1 /\ Goto(w, "spawn")
    /\ UNCHANGED <<files, trees, caches, asked, gpc, job, req, reloader>>

\* queue_gravity_check at the cap: the claim is given back.
Unclaim(w) ==
    /\ pc[w] = "unclaim"
    /\ asked' = [asked EXCEPT ![req[w].dom] = "none"]
    /\ Goto(w, "answer")
    /\ UNCHANGED <<files, trees, caches, sem, gpc, job, req, reloader>>

\* queue_gravity_check: malloc and _beginthreadex; on failure only the
\* semaphore is given back.
Spawn(w) ==
    /\ pc[w] = "spawn"
    /\ \/ /\ \E t \in Thread :
               /\ gpc[t] = "idle"
               /\ gpc' = [gpc EXCEPT ![t] = "ask"]
               /\ job' = [job EXCEPT ![t] =
                            [dom |-> req[w].dom, seen |-> req[w].seen, ok |-> FALSE]]
          /\ sem' = sem
       \/ /\ "alloc" \in Faults
          /\ sem' = sem + 1
          /\ UNCHANGED <<gpc, job>>
    /\ Goto(w, "answer")
    /\ UNCHANGED <<files, trees, caches, asked, req, reloader>>

\* answer_cache_lookup, and on a hit the reply.  A hit whose response would not
\* fit the buffer is forwarded like a miss.
TryAnswerCache(w) ==
    /\ pc[w] = "answer"
    /\ \/ CacheEligible(w) /\ req[w].dom \in answer_cache /\ Finish(w)
       \/ Goto(w, "forward") /\ req' = req
    /\ UNCHANGED <<files, trees, caches, gravity, reloader>>

\* Forward upstream: no reply from either resolver (the client gets none), a
\* reply that is relayed, or one that is relayed and parsed for the cache.
Forward(w) ==
    /\ pc[w] = "forward"
    /\ \/ Finish(w)
       \/ CacheEligible(w) /\ Goto(w, "store") /\ req' = req
    /\ UNCHANGED <<files, trees, caches, gravity, reloader>>

\* answer_cache_insert.
StoreAnswer(w) ==
    /\ pc[w] = "store"
    /\ answer_cache' = answer_cache \cup {req[w].dom}
    /\ Finish(w)
    /\ UNCHANGED <<files, trees, query_cache, gravity, reloader>>

WorkerStep(w) ==
    \/ CheckCache(w) \/ LookupTree(w) \/ FillCache(w)
    \/ Block(w) \/ Pass(w) \/ FlagForReview(w)
    \/ TryClaim(w) \/ QueueGravityCheck(w) \/ Unclaim(w) \/ Spawn(w)
    \/ TryAnswerCache(w) \/ Forward(w) \/ StoreAnswer(w)

-----------------------------------------------------------------------------
(***************************************************************************)
(* Gravity threads: gravity_check_thread.                                   *)
(***************************************************************************)
\* query_pi_gravity: listed, confirmed clean, or unreachable.
AskPi(t) ==
    /\ gpc[t] = "ask"
    /\ \E p \in {"insert", "mark_done", "mark_failed"} : GotoT(t, p)
    /\ UNCHANGED <<files, trees, caches, asked, sem, job, workers, reloader>>

\* Promote the domain to blocked in the live tree.
Promote(t) ==
    /\ gpc[t] = "insert"
    /\ \E r \in InsertLive(tree, job[t].dom, "B") :
         /\ tree' = r.tree
         /\ job' = [job EXCEPT ![t].ok = r.ok]
         /\ lapsed' = lapsed \ {d \in {job[t].dom} : r.ok}
    /\ late' = (late \/ job[t].seen # gen)
    /\ GotoT(t, "invalidate")
    /\ UNCHANGED <<files, loaded, gen, caches, asked, sem, workers, reloader>>

\* answer_cache_invalidate.
Invalidate(t) ==
    /\ gpc[t] = "invalidate"
    /\ answer_cache' = answer_cache \ {job[t].dom}
    /\ GotoT(t, IF job[t].ok THEN "append" ELSE "mark_done")
    /\ UNCHANGED <<files, trees, query_cache, asked, sem, job, workers, reloader>>

\* append_learned_entry; a file that cannot be opened is skipped.
AppendLearned(t) ==
    /\ gpc[t] = "append"
    /\ \/ /\ learned' = [learned EXCEPT ![job[t].dom] = IF @ < 2 THEN @ + 1 ELSE @]
          /\ missed' = IF rpc = "swap" THEN missed \cup {job[t].dom} ELSE missed
       \/ "file" \in Faults /\ UNCHANGED <<learned, missed>>
    /\ GotoT(t, "mark_done")
    /\ UNCHANGED <<blocklist, unread, edits, crashes, trees, caches, asked, sem,
                   job, workers, rpc, builder>>

\* asked_cache_mark_done: a real answer is kept, a failure forgotten.
MarkDone(t) ==
    /\ gpc[t] \in {"mark_done", "mark_failed"}
    /\ asked' = [asked EXCEPT ![job[t].dom] =
                   IF gpc[t] = "mark_done" /\ @ # "none" THEN "DONE" ELSE "none"]
    /\ GotoT(t, "release")
    /\ UNCHANGED <<files, trees, caches, sem, job, workers, reloader>>

\* ReleaseSemaphore, the thread's last act.
Release(t) ==
    /\ gpc[t] = "release"
    /\ sem' = sem + 1
    /\ GotoT(t, "idle")
    /\ job' = [job EXCEPT ![t] = NoJob]
    /\ UNCHANGED <<files, trees, caches, asked, workers, reloader>>

ThreadStep(t) ==
    \/ AskPi(t) \/ Promote(t) \/ Invalidate(t) \/ AppendLearned(t)
    \/ MarkDone(t) \/ Release(t)

-----------------------------------------------------------------------------
(***************************************************************************)
(* The reload thread: reload_thread_proc.                                   *)
(***************************************************************************)
\* The thread's first act takes the file's current mtime for the loaded one.
StartReloadThread ==
    /\ rpc = "start"
    /\ rpc' = "sleep" /\ unread' = FALSE
    /\ UNCHANGED <<blocklist, learned, edits, crashes, trees, caches, gravity,
                   workers, builder, missed>>

\* A wake that finds the mtime changed.  last_mtime is updated at once, even
\* if there is no memory for a builder.
PollBlocklist ==
    /\ rpc = "sleep" /\ unread
    /\ unread' = FALSE
    /\ rpc' \in {"read_blocklist"} \cup (IF "builder" \in Faults THEN {"sleep"} ELSE {})
    /\ UNCHANGED <<blocklist, learned, edits, crashes, trees, caches, gravity,
                   workers, builder, missed>>

ReadBlocklist ==
    /\ rpc = "read_blocklist"
    /\ builder' \in LoadBlocklist(EmptyTree, blocklist)
    /\ rpc' = "read_learned"
    /\ UNCHANGED <<files, trees, caches, gravity, workers, missed>>

ReadLearned ==
    /\ rpc = "read_learned"
    /\ builder' \in LoadBlocklist(builder, LearnedRows)
    /\ missed' = {}
    /\ rpc' = "swap"
    /\ UNCHANGED <<files, trees, caches, gravity, workers>>

\* radix_tree_swap.  The new tree is without the promotions whose line was not in
\* learned.tsv when it was read.
SwapTree ==
    /\ rpc = "swap"
    /\ tree' = builder /\ loaded' = builder
    /\ gen' = gen + 1 /\ late' = FALSE
    /\ lapsed' = missed \cup
         {job[t].dom : t \in {u \in Thread : gpc[u] \in {"invalidate", "append"}}}
    /\ builder' = EmptyTree /\ missed' = {}
    /\ rpc' = "clear_verdicts"
    /\ UNCHANGED <<files, caches, gravity, workers>>

\* dns_cache_clear.
ClearVerdicts ==
    /\ rpc = "clear_verdicts"
    /\ query_cache' = EmptyTree
    /\ rpc' = "clear_answers"
    /\ UNCHANGED <<files, trees, answer_cache, gravity, workers, builder, missed>>

\* answer_cache_clear.
ClearAnswers ==
    /\ rpc = "clear_answers"
    /\ answer_cache' = {}
    /\ rpc' = "sleep"
    /\ UNCHANGED <<files, trees, query_cache, gravity, workers, builder, missed>>

ReloadStep ==
    \/ StartReloadThread \/ PollBlocklist \/ ReadBlocklist \/ ReadLearned
    \/ SwapTree \/ ClearVerdicts \/ ClearAnswers

-----------------------------------------------------------------------------
(***************************************************************************)
(* The environment.                                                         *)
(***************************************************************************)
\* The user saves blocklist.tsv, changed or not.  A save within the second of
\* the last one seen leaves the mtime (and so unread) as it was.
EditBlocklist ==
    /\ edits < MaxEdits
    /\ edits' = edits + 1
    /\ blocklist' \in Lists
    /\ unread' \in {TRUE} \cup (IF "mtime" \in Faults THEN {unread} ELSE {})
    /\ UNCHANGED <<learned, crashes, trees, caches, gravity, workers, reloader>>

\* A cached verdict or answer expires, or its slot goes to another domain.
EvictVerdict ==
    /\ \E d \in Domain :
         /\ query_cache[d] # "none"
         /\ query_cache' = [query_cache EXCEPT ![d] = "none"]
    /\ UNCHANGED <<files, trees, answer_cache, gravity, workers, reloader>>

EvictAnswer ==
    /\ \E d \in answer_cache : answer_cache' = answer_cache \ {d}
    /\ UNCHANGED <<files, trees, query_cache, gravity, workers, reloader>>

\* The process dies and is started again: only the files survive.
Crash ==
    /\ crashes < MaxCrashes
    /\ crashes' = crashes + 1
    /\ unread' = FALSE
    /\ \E b \in LoadBlocklist(EmptyTree, blocklist) :
         tree' \in LoadBlocklist(b, LearnedRows)
    /\ loaded' = tree' /\ gen' = 0 /\ late' = FALSE /\ lapsed' = {}
    /\ query_cache' = EmptyTree /\ answer_cache' = {}
    /\ asked' = NothingAsked /\ sem' = MaxGravity
    /\ gpc' = AllIdle(Thread) /\ job' = [t \in Thread |-> NoJob]
    /\ pc' = AllIdle(Worker) /\ req' = [w \in Worker |-> NoRequest]
    /\ rpc' = "start" /\ builder' = EmptyTree /\ missed' = {}
    /\ UNCHANGED <<blocklist, learned, edits>>

Environment == EditBlocklist \/ EvictVerdict \/ EvictAnswer \/ Crash

Next ==
    \/ \E w \in Worker : Receive(w) \/ WorkerStep(w)
    \/ \E t \in Thread : ThreadStep(t)
    \/ ReloadStep
    \/ Environment

Spec == Init /\ [][Next]_vars

(***************************************************************************)
(* Fairness.  Every step of a started worker, gravity thread or reload is   *)
(* bounded: sockets and HTTP calls have timeouts, the locks are held for    *)
(* one step, and Sleep(5000) returns.  Queries, edits, expiry and crashes   *)
(* are the environment's and need not happen.                               *)
(***************************************************************************)
Fairness ==
    /\ \A w \in Worker : WF_vars(WorkerStep(w))
    /\ \A t \in Thread : WF_vars(ThreadStep(t))
    /\ WF_vars(ReloadStep)

LiveSpec == Spec /\ Fairness

-----------------------------------------------------------------------------
(***************************************************************************)
(* Properties.                                                              *)
(***************************************************************************)
\* Every variable has its type.
TypeOK ==
    /\ blocklist \in Lists
    /\ learned \in [Domain -> 0 .. 2]
    /\ unread \in BOOLEAN
    /\ edits \in 0 .. MaxEdits /\ crashes \in 0 .. MaxCrashes
    /\ tree \in [Domain -> Entry] /\ loaded \in [Domain -> Entry]
    /\ gen \in Nat /\ late \in BOOLEAN /\ lapsed \subseteq Domain
    /\ query_cache \in [Domain -> Entry] /\ answer_cache \in SUBSET Domain
    /\ asked \in [Domain -> {"none", "PENDING", "DONE"}]
    /\ sem \in Nat
    /\ gpc \in [Thread -> ThreadPc] /\ job \in [Thread -> Job]
    /\ pc \in [Worker -> WorkerPc] /\ req \in [Worker -> Request]
    /\ rpc \in ReloadPc /\ builder \in [Domain -> Entry] /\ missed \subseteq Domain

\* A gravity check under way: from the thread's start to the moment it has
\* settled its domain in the asked cache.
Running == {t \in Thread : gpc[t] \notin {"idle", "release"}}

\* Those that have a claim and no thread for it yet.
Claiming == {w \in Worker : pc[w] \in {"queue", "spawn", "unclaim"}}

\* No unit of the semaphore is lost or made up: the free ones, those of workers
\* about to start a thread and those of live threads add up to the cap
\* (queue_gravity_check and gravity_check_thread release on every path).
SemaphoreConserved ==
    sem + Cardinality({w \in Worker : pc[w] = "spawn"})
        + Cardinality({t \in Thread : gpc[t] # "idle"}) = MaxGravity

\* Two checks, started or about to be, are never about the same domain, however
\* claims, skips, failures and reloads interleave ("marks it PENDING so a
\* second, concurrent occurrence of the same hot domain doesn't also fire").
OneCheckPerDomain ==
    /\ \A t, u \in Running : job[t].dom = job[u].dom => t = u
    /\ \A w, x \in Claiming : req[w].dom = req[x].dom => w = x
    /\ \A t \in Running, w \in Claiming : job[t].dom # req[w].dom

\* A domain is appended to learned.tsv at most once, over reloads and restarts.
LearnedOnce == \A d \in Domain : learned[d] <= 1

\* What the published files say of a domain is what check_domain decides for
\* every query that arrives after the reload's sweep of the verdict cache, as
\* long as no write based on an older tree has landed.  So neither heuristics
\* nor promotions, within one tree generation, change a curated verdict.
Decided(w) == pc[w] \notin {"idle", "check_cache", "lookup"}

CuratedVerdict(w) ==
    Decided(w) /\ req[w].since = gen /\ Lookup(loaded, req[w].dom) \in {"A", "B"}
        => req[w].verdict = Lookup(loaded, req[w].dom)

CuratedHolds == ~late => \A w \in Worker : CuratedVerdict(w)

\* The same without the proviso: no query that arrives after a reload is
\* complete is decided against the reloaded files ("a hot-reloaded blocklist
\* can never be silently ignored by stale verdict or answer cache entries").
ReloadNeverIgnored == \A w \in Worker : CuratedVerdict(w)

\* Between reloads a cached ALLOW is never out of step with the tree (a domain
\* promoted to blocked "must never get served a stale not-blocked answer"), as long
\* as no write based on an older tree has landed, and never at all before the first
\* edit of blocklist.tsv.
AllowCacheAgrees ==
    rpc \in {"start", "sleep"} /\ (~late \/ edits = 0) =>
        \A d \in Domain : query_cache[d] = "A" => Lookup(tree, d) = "A"

\* A domain in learned.tsv is blocked by the live tree at every moment, over reloads
\* and restarts ("Persist so this survives past this run"), unless one of two races
\* has undone its promotion since: a worker that had looked the name up before it
\* and wrote its review entry after it, or a reload that had read learned.tsv before
\* its line was written.  Both happen, against "so this domain never has to
\* round-trip to the Pi again"; nothing else may undo a promotion.
LearnedIsBlocked ==
    \A d \in Domain : learned[d] > 0 /\ d \notin lapsed => tree[d] = "B"

\* As long as memory lasts, a domain is PENDING only while some worker or thread
\* is there to settle it ("instead of being stuck PENDING forever with no thread
\* ever actually running for it").
PendingHasOwner ==
    "alloc" \notin Faults =>
        \A d \in Domain : asked[d] = "PENDING" =>
            \/ \E t \in Running : job[t].dom = d
            \/ \E w \in Claiming : req[w].dom = d

\* Every query is finished with, whatever the Pi and the reload do.
QueriesFinish == \A w \in Worker : pc[w] # "idle" ~> pc[w] = "idle"

\* Every claim on a domain is settled: asked and answered, or given back.
PendingResolves == \A d \in Domain : asked[d] = "PENDING" ~> asked[d] # "PENDING"

\* Once the reload thread runs, a noticed edit leads to a swapped tree and swept
\* caches, unless the process is restarted, which loads the file as well, or
\* there is no memory for the builder, which loses the edit.
EditIsPublished ==
    "builder" \notin Faults /\ unread /\ rpc # "start" ~> rpc = "clear_answers" \/ rpc = "start"

\* The gravity lookups of the proxy are ask-once lookups: Proxy implements
\* AskOnce for as long as it lives, a check running from its thread's start to
\* asked_cache_mark_done.
Gravity == INSTANCE AskOnce WITH
    Cap     <- MaxGravity,
    state   <- asked,
    running <- {job[t].dom : t \in Running}

ImplementsAskOnce ==
    Gravity!Init /\ [][Gravity!Next \/ crashes' # crashes]_(Gravity!avars)
=============================================================================
