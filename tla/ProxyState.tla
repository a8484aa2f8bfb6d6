----------------------------- MODULE ProxyState ------------------------------
(***************************************************************************)
(* The state of the decision core of nyet.c (see Proxy): the constants, the *)
(* variables, and what its actions share.                                   *)
(***************************************************************************)
EXTENDS BlockTree, Integers, FiniteSets

CONSTANTS
    Worker,       \* the IOCP worker threads
    Thread,       \* identities for gravity_check_thread instances, enough for
                  \* every unit of the semaphore
    MaxGravity,   \* MAX_CONCURRENT_GRAVITY_CHECKS
    Lists,        \* the contents blocklist.tsv may have
    MaxEdits,     \* bound: edits of blocklist.tsv
    MaxCrashes    \* bound: crashes of the process

ASSUME ProxyAssumption ==
    /\ IsFiniteSet(Worker)
    /\ IsFiniteSet(Thread)
    /\ MaxGravity \in 1 .. Cardinality(Thread)
    /\ Lists # {} /\ Lists \subseteq [Domain -> Entry]
    /\ MaxEdits \in Nat
    /\ MaxCrashes \in Nat

VARIABLES
    blocklist,      \* rows of blocklist.tsv
    learned,        \* lines of learned.tsv for each domain
    unread,         \* blocklist.tsv's mtime differs from last_mtime
    edits, crashes, \* how many of each have happened (bounds)
    tree,           \* blocklist_tree
    loaded,         \* the tree as last published (history)
    gen,            \* how many trees have been swapped in (history)
    late,           \* a write based on a lookup in an older tree has landed
                    \* since the last swap (history)
    lapsed,         \* domains whose promotion another write has overtaken: a late
                    \* review entry, or the swap of a tree without it (history)
    query_cache,    \* verdicts by domain; "none" is a miss
    answer_cache,   \* domains with an unexpired cached address answer
    asked,          \* asked_cache: "none", "PENDING" or "DONE"
    sem,            \* g_gravity_check_semaphore
    gpc, job,       \* where each gravity thread is, and its arguments
    pc, req,        \* where each worker is, and its query
    rpc, builder,   \* where the reload thread is, and the tree it builds
    missed          \* domains written to learned.tsv since it was read (history)

files    == <<blocklist, learned, unread, edits, crashes>>
trees    == <<tree, loaded, gen, late, lapsed>>
caches   == <<query_cache, answer_cache>>
gravity  == <<asked, sem, gpc, job>>
workers  == <<pc, req>>
reloader == <<rpc, builder, missed>>
vars == <<files, trees, caches, gravity, workers, reloader>>

WorkerPc == {"idle", "check_cache", "lookup", "fill_cache", "decide", "claim",
             "queue", "unclaim", "spawn", "answer", "forward", "store"}
ThreadPc == {"idle", "ask", "insert", "invalidate", "append",
             "mark_done", "mark_failed", "release"}
ReloadPc == {"start", "sleep", "read_blocklist", "read_learned", "swap",
             "clear_verdicts", "clear_answers"}

\* A query.  since: the tree generation whose verdicts alone could be in the
\* query cache when it arrived (-1: a sweep is due); seen: the generation its
\* tree lookup read.  Both are history.
Request == [dom : Domain, address : BOOLEAN, verdict : Entry,
            since : Int, seen : Int]
NoRequest == [dom |-> CHOOSE d \in Domain : TRUE, address |-> FALSE,
              verdict |-> "none", since |-> -1, seen |-> -1]

\* The arguments of a gravity thread; ok: radix_tree_insert_live returned 0.
Job   == [dom : Domain, seen : Int, ok : BOOLEAN]
NoJob == [dom |-> CHOOSE d \in Domain : TRUE, seen |-> -1, ok |-> FALSE]

\* learned.tsv as rows for load_blocklist.  (The first form forgets the file: a
\* slip that takes the place of LearnedRows when a property is tested for being
\* able to fail.)
LearnedRowsForgotten == [d \in Domain |-> "none"]
LearnedRows == [d \in Domain |-> IF learned[d] > 0 THEN "B" ELSE "none"]

-----------------------------------------------------------------------------
NothingAsked  == [d \in Domain |-> "none"]
AllIdle(S)    == [x \in S |-> "idle"]

\* A worker moves on, or is done with its query and posts the next receive.
Goto(w, p) == pc' = [pc EXCEPT ![w] = p]

Finish(w) == Goto(w, "idle") /\ req' = [req EXCEPT ![w] = NoRequest]

\* A gravity thread moves on.
GotoT(t, p) == gpc' = [gpc EXCEPT ![t] = p]

\* The gate in front of the answer cache: address queries, and never a domain
\* under review.
CacheEligible(w) == req[w].address /\ req[w].verdict \in {"A", "none"}
=============================================================================
