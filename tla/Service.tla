------------------------------- MODULE Service -------------------------------
(***************************************************************************)
(* The life of the process in nyet.c: main, the completion port with its    *)
(* pool of receive slots, the workers that take packets from it, the buffer *)
(* of the query log with its flushes, and the orderly shutdown.             *)
(*                                                                          *)
(* What process_request does with a packet is in Proxy and Upstream; here   *)
(* it starts a gravity check or not, and logs a line or not.  Of a gravity  *)
(* thread there is that it runs, detached, and uses the tree, the caches    *)
(* and asked_cache to its last step: nobody waits for it.  What the reload  *)
(* thread reloads is left out, and so is the case of a log file that cannot *)
(* be opened, where nothing is logged.                                      *)
(***************************************************************************)
EXTENDS Integers, Sequences, FiniteSets

CONSTANTS
    Worker,         \* the IOCP worker threads, one per processor
    ReceiveSlot,    \* the contexts of the pool (POOL_SIZE)
    None,           \* no context: a completion posted by hand
    LogCapacity,    \* lines the log buffer holds
    MaxWait,        \* MAXIMUM_WAIT_OBJECTS
    MaxGravity,     \* MAX_CONCURRENT_GRAVITY_CHECKS
    MaxPackets      \* bound: packets that arrive

ASSUME ServiceAssumption ==
    /\ None \notin ReceiveSlot
    /\ IsFiniteSet(Worker)
    /\ LogCapacity \in Nat \ {0}
    /\ MaxWait \in Nat /\ MaxGravity \in Nat /\ MaxPackets \in Nat

VARIABLES
    running,        \* running
    mpc,            \* where main is
    wpc, ctx,       \* where each worker is, and the context in its hands
    rpc,            \* where the reload thread is
    checks,         \* how many gravity threads run
    posted,         \* the slots whose receive is pending in the kernel
    port,           \* completions queued on the port
    lost,           \* slots for which WSARecvFrom failed at once (history)
    packets,        \* how many packets have arrived (bound)
    open,           \* nothing has been closed or freed yet
    data,           \* the lines in the log buffer, up to the terminator
    length,         \* how many of them count
    stale,          \* LOG_FLUSH_INTERVAL_SECONDS have passed since a flush
    file,           \* the lines in the log file
    logged          \* how many lines have been logged (history)

workers == <<wpc, ctx>>
slots   == <<posted, port, lost, packets>>
log     == <<data, length, stale, file, logged>>
vars == <<running, checks, mpc, workers, rpc, slots, open, log>>

\* "none": the thread could not be started.
WorkerPc == {"unborn", "none", "loop", "wait", "process", "checked", "failed", "rearm", "exited"}
ReloadPc == {"unborn", "none", "loop", "asleep", "exited"}
MainPc   == {"prime", "spawn", "sleep", "wake", "join_workers", "join_reload",
             "destroy", "close_log", "done", "crashed"}

\* Lines are numbered; 0 is whatever malloc left in the buffer.
Init ==
    /\ running = TRUE /\ mpc = "prime"
    /\ wpc = [w \in Worker |-> "unborn"] /\ ctx = [w \in Worker |-> None]
    /\ rpc = "unborn" /\ checks = 0
    /\ posted = {} /\ port = <<>> /\ lost = {} /\ packets = 0
    /\ open = TRUE
    /\ data = <<0>> /\ length = 0 /\ stale = FALSE
    /\ file = <<>> /\ logged = 0

-----------------------------------------------------------------------------
InHand == {ctx[w] : w \in Worker} \ {None}
Queued == {port[k] : k \in 1 .. Len(port)} \ {None}

GotoW(w, p) == wpc' = [wpc EXCEPT ![w] = p]

\* post_recv for the slots of S: nobody looks at what WSARecvFrom returns.
PostRecv(S) ==
    \E failed \in SUBSET S :
        /\ posted' = posted \cup (S \ failed)
        /\ lost' = lost \cup failed

\* WaitForMultipleObjects fails, and returns at once, when a handle is missing
\* or there are too many.
WaitFails == Cardinality(Worker) > MaxWait \/ \E w \in Worker : wpc[w] = "none"

Alive == mpc # "crashed"

\* The buffer is written as a string, up to its terminator, and emptied by
\* setting the length: what it held stays there.
Flush == file' = file \o data /\ length' = 0 /\ stale' = FALSE

-----------------------------------------------------------------------------
(***************************************************************************)
(* Slips that an edit could make: each takes the place of a definition below *)
(* when a property is tested for being able to fail.                        *)
(***************************************************************************)
\* A failed receive is skipped without arming its slot again (the bug that the
\* comment in iocp_worker_loop remembers).
RearmGood(w) ==
    /\ wpc[w] \in {"rearm", "failed"}
    /\ IF wpc[w] = "rearm" THEN PostRecv({ctx[w]}) ELSE UNCHANGED <<posted, lost>>
    /\ ctx' = [ctx EXCEPT ![w] = None]
    /\ GotoW(w, "loop")
    /\ UNCHANGED <<running, checks, mpc, rpc, port, packets, open, log>>

\* A line that does not fit is written over the buffer without a flush.
LogOver(w) ==
    /\ wpc[w] \in {"process", "checked"}
    /\ logged' = logged + 1
    /\ LET full == length = LogCapacity
       IN  /\ data' = IF full THEN <<logged + 1>>
                      ELSE SubSeq(data, 1, length) \o <<logged + 1>>
           /\ length' = IF full THEN 1 ELSE length + 1
    /\ GotoW(w, "rearm")
    /\ UNCHANGED <<running, checks, mpc, ctx, rpc, slots, open, stale, file>>

\* The flush comes after the continue of an unchanged blocklist.
PollWhenChanged ==
    /\ rpc = "asleep"
    /\ rpc' = "loop"
    /\ \/ UNCHANGED log
       \/ /\ length > 0 /\ stale
          /\ Flush /\ UNCHANGED <<data, logged>>
    /\ UNCHANGED <<running, checks, mpc, workers, slots, open>>

\* One completion is posted for all workers.
WakeOne ==
    /\ mpc = "wake"
    /\ port' = Append(port, None)
    /\ mpc' = "join_workers"
    /\ UNCHANGED <<running, checks, workers, rpc, posted, lost, packets, open, log>>

\* The handle of the reload thread is closed without waiting for it.
JoinReloadNot ==
    /\ mpc = "join_reload"
    /\ mpc' = "destroy"
    /\ UNCHANGED <<running, checks, workers, rpc, slots, open, log>>

-----------------------------------------------------------------------------
(***************************************************************************)
(* Workers: iocp_worker_loop.                                               *)
(***************************************************************************)
\* while (running).
CheckRunning(w) ==
    /\ wpc[w] = "loop"
    /\ GotoW(w, IF running THEN "wait" ELSE "exited")
    /\ UNCHANGED <<running, checks, mpc, ctx, rpc, slots, open, log>>

\* GetQueuedCompletionStatus: a completion posted by hand, a packet, or a receive
\* that failed or is empty.
Dequeue(w) ==
    /\ wpc[w] = "wait" /\ port # <<>>
    /\ port' = Tail(port)
    /\ ctx' = [ctx EXCEPT ![w] = Head(port)]
    /\ \/ Head(port) = None /\ GotoW(w, "loop")
       \/ Head(port) # None /\ \E p \in {"process", "failed"} : GotoW(w, p)
    /\ UNCHANGED <<running, checks, mpc, rpc, posted, lost, packets, open, log>>

\* process_request without a line in the log: over the rate limit.
DropSilently(w) ==
    /\ wpc[w] = "process"
    /\ GotoW(w, "rearm")
    /\ UNCHANGED <<running, checks, mpc, ctx, rpc, slots, open, log>>

\* asked_cache_try_claim and queue_gravity_check: a name that nothing matches is
\* checked by a thread of its own, whose handle is closed at once.
StartCheck(w) ==
    /\ wpc[w] = "process" /\ checks < MaxGravity
    /\ checks' = checks + 1
    /\ GotoW(w, "checked")
    /\ UNCHANGED <<running, mpc, ctx, rpc, slots, open, log>>

\* process_request up to log_query and append_log: a full buffer is flushed, and
\* the line is put behind those that count.
LogQuery(w) ==
    /\ wpc[w] \in {"process", "checked"}
    /\ logged' = logged + 1
    /\ \/ /\ length < LogCapacity
          /\ data' = SubSeq(data, 1, length) \o <<logged + 1>>
          /\ length' = length + 1
          /\ UNCHANGED <<stale, file>>
       \/ /\ length = LogCapacity
          /\ file' = file \o data
          /\ data' = <<logged + 1>> /\ length' = 1 /\ stale' = FALSE
    /\ GotoW(w, "rearm")
    /\ UNCHANGED <<running, checks, mpc, ctx, rpc, slots, open>>

\* post_recv, for a context that is done with or whose receive has failed.
Rearm(w) ==
    /\ wpc[w] \in {"rearm", "failed"}
    /\ PostRecv({ctx[w]})
    /\ ctx' = [ctx EXCEPT ![w] = None]
    /\ GotoW(w, "loop")
    /\ UNCHANGED <<running, checks, mpc, rpc, port, packets, open, log>>

WorkerStep(w) ==
    /\ Alive
    /\ \/ CheckRunning(w) \/ Dequeue(w) \/ DropSilently(w) \/ StartCheck(w)
       \/ LogQuery(w) \/ Rearm(w)

\* The last step of gravity_check_thread.
EndCheck ==
    /\ Alive /\ checks > 0
    /\ checks' = checks - 1
    /\ UNCHANGED <<running, mpc, workers, rpc, slots, open, log>>

-----------------------------------------------------------------------------
(***************************************************************************)
(* The reload thread, as far as the log goes: reload_thread_proc.           *)
(***************************************************************************)
CheckReload ==
    /\ rpc = "loop"
    /\ rpc' = IF running THEN "asleep" ELSE "exited"
    /\ UNCHANGED <<running, checks, mpc, workers, slots, open, log>>

\* It wakes, and flush_log_if_stale.
Poll ==
    /\ rpc = "asleep"
    /\ rpc' = "loop"
    /\ \/ length > 0 /\ stale /\ Flush /\ UNCHANGED <<data, logged>>
       \/ (length = 0 \/ ~stale) /\ UNCHANGED log
    /\ UNCHANGED <<running, checks, mpc, workers, slots, open>>

ReloadStep == Alive /\ (CheckReload \/ Poll)

-----------------------------------------------------------------------------
(***************************************************************************)
(* main.                                                                    *)
(***************************************************************************)
\* Every slot of the pool is posted before there are workers.
Prime ==
    /\ mpc = "prime"
    /\ PostRecv(ReceiveSlot)
    /\ mpc' = "spawn"
    /\ UNCHANGED <<running, checks, workers, rpc, port, packets, open, log>>

SpawnWorker ==
    /\ mpc = "spawn"
    /\ \E w \in Worker, p \in {"loop", "none"} : wpc[w] = "unborn" /\ GotoW(w, p)
    /\ UNCHANGED <<running, checks, mpc, ctx, rpc, slots, open, log>>

SpawnReload ==
    /\ mpc = "spawn" /\ \A w \in Worker : wpc[w] # "unborn"
    /\ rpc' \in {"loop", "none"}
    /\ mpc' = "sleep"
    /\ UNCHANGED <<running, checks, workers, slots, open, log>>

LeaveLoop ==
    /\ mpc = "sleep" /\ ~running
    /\ mpc' = "wake"
    /\ UNCHANGED <<running, checks, workers, rpc, slots, open, log>>

\* A completion with no context for each worker.
WakeWorkers ==
    /\ mpc = "wake"
    /\ port' = port \o [k \in 1 .. Cardinality(Worker) |-> None]
    /\ mpc' = "join_workers"
    /\ UNCHANGED <<running, checks, workers, rpc, posted, lost, packets, open, log>>

JoinWorkers ==
    /\ mpc = "join_workers"
    /\ WaitFails \/ \A w \in Worker : wpc[w] = "exited"
    /\ mpc' = "join_reload"
    /\ UNCHANGED <<running, checks, workers, rpc, slots, open, log>>

JoinReload ==
    /\ mpc = "join_reload" /\ rpc \in {"exited", "none"}
    /\ mpc' = "destroy"
    /\ UNCHANGED <<running, checks, workers, rpc, slots, open, log>>

\* proxy_destroy closes the semaphore and the sockets, and frees the tree and the
\* caches ...
Destroy ==
    /\ mpc = "destroy"
    /\ open' = FALSE
    /\ mpc' = "close_log"
    /\ UNCHANGED <<running, checks, workers, rpc, slots, log>>

\* ... and then writes the log buffer once more, up to its terminator; main frees
\* the pool.
CloseLog ==
    /\ mpc = "close_log"
    /\ file' = file \o data
    /\ mpc' = "done"
    /\ UNCHANGED <<running, checks, workers, rpc, slots, open, data, length, stale, logged>>

MainStep ==
    \/ Prime \/ SpawnWorker \/ SpawnReload \/ LeaveLoop \/ WakeWorkers
    \/ JoinWorkers \/ JoinReload \/ Destroy \/ CloseLog

\* A thread that still runs uses what is freed.  It may get away with it, and go
\* on as if nothing had happened, or take the process down.
Fault ==
    /\ ~open /\ Alive
    /\ checks > 0 \/ \E w \in Worker : wpc[w] \notin {"none", "exited"}
    /\ mpc' = "crashed"
    /\ UNCHANGED <<running, checks, workers, rpc, slots, open, log>>

-----------------------------------------------------------------------------
(***************************************************************************)
(* The environment.                                                         *)
(***************************************************************************)
\* console_ctrl_handler, in a thread of the system's.
CtrlHandler ==
    /\ Alive /\ running /\ running' = FALSE
    /\ UNCHANGED <<checks, mpc, workers, rpc, slots, open, log>>

\* The kernel fills a posted receive, or fails it, and queues its completion.
Complete ==
    /\ packets < MaxPackets /\ open
    /\ packets' = packets + 1
    /\ \E s \in posted : posted' = posted \ {s} /\ port' = Append(port, s)
    /\ UNCHANGED <<running, checks, mpc, workers, rpc, lost, open, log>>

TimePasses ==
    /\ Alive /\ ~stale /\ stale' = TRUE
    /\ UNCHANGED <<running, checks, mpc, workers, rpc, slots, open, data, length, file, logged>>

Next ==
    \/ \E w \in Worker : WorkerStep(w)
    \/ ReloadStep \/ EndCheck
    \/ MainStep \/ Fault
    \/ CtrlHandler \/ Complete \/ TimePasses

Spec == Init /\ [][Next]_vars

\* Every thread that is not waiting runs, Sleep returns, and time passes.  That
\* packets come, that a gravity check ends, or that the user ends the program, is
\* not assumed.
Fairness ==
    /\ \A w \in Worker : WF_vars(WorkerStep(w))
    /\ WF_vars(ReloadStep)
    /\ WF_vars(MainStep)
    /\ WF_vars(TimePasses)

LiveSpec == Spec /\ Fairness

-----------------------------------------------------------------------------
(***************************************************************************)
(* Properties.                                                              *)
(***************************************************************************)
\* Every variable has its type.
TypeOK ==
    /\ running \in BOOLEAN /\ open \in BOOLEAN /\ stale \in BOOLEAN
    /\ mpc \in MainPc
    /\ wpc \in [Worker -> WorkerPc]
    /\ ctx \in [Worker -> ReceiveSlot \cup {None}]
    /\ rpc \in ReloadPc /\ checks \in 0 .. MaxGravity
    /\ posted \subseteq ReceiveSlot /\ lost \subseteq ReceiveSlot
    /\ port \in Seq(ReceiveSlot \cup {None}) /\ packets \in Nat
    /\ data \in Seq(Nat) /\ file \in Seq(Nat)
    /\ length \in 0 .. LogCapacity /\ length <= Len(data)
    /\ logged \in Nat

\* Once the pool is primed, every slot is pending in the kernel, queued on the
\* port or in the hands of a worker, in one of these places and once; none leaves
\* the rotation but by a WSARecvFrom that fails ("Every ctx we don't re-post via
\* post_recv() permanently removes one").
SlotsConserved ==
    /\ mpc # "prime" => posted \cup Queued \cup InHand \cup lost = ReceiveSlot
    /\ posted \cap (Queued \cup InHand) = {} /\ Queued \cap InHand = {}
    /\ lost \cap (posted \cup Queued \cup InHand) = {}
    /\ \A v, w \in Worker : ctx[v] = ctx[w] /\ ctx[v] # None => v = w
    /\ \A j, k \in 1 .. Len(port) : port[j] = port[k] /\ port[j] # None => j = k

\* The pool of receive slots, with the types of all variables.
PoolSound == TypeOK /\ SlotsConserved

\* As long as the log is open, what is in the file and what counts in the buffer is
\* what was logged: each line once and in order, whichever of the two flushes comes
\* first.
OnceInOrder ==
    mpc \notin {"done", "crashed"} =>
        file \o SubSeq(data, 1, length) = [k \in 1 .. logged |-> k]

\* A shutdown that gets to its end loses no line: all are in the file in order, and
\* what follows them is at most the last batch again (or, if there never was a
\* line, what malloc left in the buffer).
NothingLost ==
    mpc = "done" /\ ~WaitFails =>
        /\ Len(file) >= logged
        /\ \A k \in 1 .. logged : file[k] = k
        /\ Len(file) - logged <= LogCapacity

\* The log in every state, from the first line to its last write.
LogFaithful == OnceInOrder /\ NothingLost

\* main frees the sockets, the tree, the caches, the pool and the log only when its
\* workers and the reload thread have ended, if it could wait for them at all ("it
\* MUST be done before proxy_destroy() frees both").  The gravity threads are not
\* waited for, and do use what it frees: Fault is what may come of it.
JoinedBeforeFree ==
    ~open /\ ~WaitFails =>
        /\ \A w \in Worker : wpc[w] = "exited"
        /\ rpc \in {"exited", "none"}

\* Once the user ends it the program stops, also with no packet to wake the
\* workers ("which may never come if no real traffic arrives"); how, with gravity
\* checks about, is another question.
ShutdownCompletes == ~running ~> mpc \in {"done", "crashed"}

\* A line does not stay in the buffer for as long as the program runs, however
\* few come after it, unless the reload thread, which flushes it, never started.
LinesReachFile ==
    length > 0 ~> length = 0 \/ mpc \in {"done", "crashed"} \/ rpc = "none"
=============================================================================
