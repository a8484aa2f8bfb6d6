# TLA+ models of nyet

nyet is a filtering DNS forwarder for Windows: IOCP workers answer UDP queries from
a blocklist trie and two caches, forward the rest to one of two upstream resolvers,
and ask a Pi-hole about names nobody has seen; the blocklist file is hot-reloaded.
This directory holds TLA+ models of it, the TLC configurations that check
them, and TLAPS proofs about them. Paths are relative to the repository.

## 1. The system

| Part | Source | State | Operations |
|---|---|---|---|
| Decision pipeline | `src/nyet.c` 731-826, 1860-2075 | the query in a worker's hands | rate limit, parse, verdict cache, tree, heuristics, claim, answer cache, forward |
| Gravity checks | `src/nyet.c` 195-297, 1148-1412 | asked cache (PENDING/DONE by name), semaphore of 8 | claim, queue, skip, start a thread, ask the Pi, promote, settle |
| Hot reload, files | `src/nyet.c` 1283-1311, 1428-1528, 2120-2159 | `blocklist.tsv`, `learned.tsv`, last mtime | poll, build, swap, sweep both caches, append |
| Radix tree | `src/radix_tree.c` | trie of labels, `children_sorted` flags, an SRW lock | build, publish/swap, live insert, lookup |
| Verdict cache | `src/dns_cache.c` | a table of slots, a count, an SRW lock | lookup with touch, insert with sweep and eviction, invalidate, clear, prune |
| Answer cache | `src/answer_cache.c` | slots in probe windows, count, an SRW lock | lookup with lazy drop and touch, insert/evict, invalidate, clear, prune |
| Rate limiter | `src/nyet.c` 1006-1089 | table of buckets by hashed address, a global bucket | `rate_limit_allow` |
| Upstream | `src/nyet.c` 1774-1858, 1979-2028 | a socket per worker, the preferred resolver | send, receive with a deadline, fail over, adopt |
| Receive slots | `src/nyet.c` 1716-1757, 2076-2097 | a pool of contexts, the completion port | post a receive, complete, re-arm |
| Query log | `src/nyet.c` 1548-1698 | a buffer and its length, the time of the last flush | append, flush by size, flush by age, last write |
| Life cycle | `src/nyet.c` 2183-2636 | `running`, threads | start, stop, join, destroy |
| Heuristics | `src/heuristics.c`, `src/nyet.c` 830-1132 | a score per name (pure), counters, `review.tsv` | score, count, flag for review, learn |
| DNS wire format | `src/nyet.c` 453-692 | none | parse a query, parse answers, craft blocked and cached responses |
| Scripts, launch files | `scripts/`, `Makefile`, `*.bat` | TSV files, offline | curation, cleaning |

How they interact.  A worker calls everything in the pipeline on its own stack and
waits only for an upstream reply.  Workers, gravity threads and the reload thread
share the tree (SRW lock), both caches (an SRW lock each) and the asked cache (a
critical section).  No lock is held from one of these calls to the next, so that
whatever a thread has read may be out of date when it acts on it: that is where
most of the hazards in `PROJECT.json` come from.  `preferred_upstream` and the
statistics are shared without a lock.  Only the two TSV files survive a restart.

What makes each part correct:

* gravity: one check per name, never more than the cap, a claim never left behind;
* reload: an edit gets to the readers, and nothing decided on the old list survives;
* promotions: a name the Pi confirmed stays blocked, also after a reload or a restart;
* tree: a lookup sees exactly the precedence of the entries on the path of the name,
  whatever was inserted, in whatever order, and whichever allocation failed;
* verdict cache: to its callers, a map that forgets but never makes a verdict up; an
  exact count; a live entry goes only when it is the oldest of a full table
  (within a period of the clock);
* answer cache: one slot per key, no invalidated answer comes back, the count never
  claims more than there is;
* rate limiter: burst and rate hold against any timing, race and clock, and debts heal;
* upstream: a client gets an answer to its own question; the preference follows a
  resolver that answers; no query waits for ever;
* slots and shutdown: no slot leaves the rotation unnoticed, nothing is freed before the
  threads that use it have ended, the program stops when it is told to;
* log: each line once and in order as long as the log is open, through two kinds of flush;
* wire: no byte outside the packet or the buffer is touched, a name is read as it is,
  a crafted response reads back as what was meant;
* scorer: arithmetic, table and trie agree with what the checks are about; a name is only
  flagged when several signals agree;
* queries: each is finished with, whatever the Pi, the upstreams and the reload do.

## 2. The modules

| Module | What it is |
|---|---|
| `BlockTree` | The tree as its callers see it: a status per name, lookup by precedence over `Suffixes[d]`, insertion with what a failed one leaves. |
| `VerdictMap` | The verdict cache as its callers see it: a map that may forget. |
| `ProxyState`, `Proxy` | The decision core: workers, gravity threads, reload thread, the two files, crashes. One action per critical section or system call. |
| `AskOnce` | The abstract promise of the gravity lookups: claim, start, give up, settle. `Proxy` implements it (`ImplementsAskOnce`). |
| `RadixTree` | `radix_tree.c` node by node; each of its steps is one that `BlockTree` allows (`StepsOfBlockTree`) and each lookup is `BlockTree`'s (`LookupIsPrecedence`), which is what lets `Proxy` use `BlockTree`. |
| `DnsCache` | `dns_cache.c` slot by slot. It implements `VerdictMap` (`ImplementsMap`), which is what lets `Proxy` keep the verdict cache as a function that forgets. |
| `AnswerCache` | `answer_cache.c` slot by slot. |
| `RateLimiter` | `rate_limit_allow`. |
| `Upstream` | Forwarding with its two resolvers, and a network that loses, repeats, delays and reorders. |
| `Service` | `main`, the completion port and its slots, the log buffer, the shutdown. |
| `Wire` | `parse_query`, `parse_answer_records` and the two response builders. |
| `Scorer` | `heuristics.c`, and the workers that score and flag. |
| `Proxy_proofs`, `RadixTree_proofs`, `DnsCache_proofs`, `AnswerCache_proofs`, `Upstream_proofs`, `Service_proofs`, `Wire_proofs` | Theorems about the module of that name. |
| `Screening_proofs` | Theorems about `RateLimiter` and `Scorer`, which screen a query. |
| `MC*` | Values for the constants. |

Composition: `Proxy` is the whole as far as decisions go, over `BlockTree` (implemented by
`RadixTree`) and the forgetful map (implemented by `DnsCache`).  `Upstream` is what `Proxy`
takes for the outcome of one step, `Service` what calls `process_request`, `Wire` what goes
in and comes out of it, `Scorer` what `Proxy` leaves out of `run_heuristics`.

### Proxy

`pc[w]` says where in `process_request` worker `w` is, `req[w]` what it has in hand;
`gpc[t]`, `job[t]` and `rpc`, `builder` do the same for gravity threads and for the
reload thread.  `tree`, `query_cache`, `answer_cache`, `asked` and `sem` are the
shared objects.  A refused query (rate limited, unparseable) changes nothing here
and is no action.  The score of a name is left out: `run_heuristics` gives every
unmatched name a REVIEW entry whatever it is.  An answer-cache entry stands for the
name; the two record types behave alike and are told apart in `AnswerCache`.
`CheckCache` may miss what the cache holds, and `EvictVerdict` and `EvictAnswer` are
expiry, eviction and refused insertions in one: together these are `VerdictMap`.
What the upstream does is three outcomes, what the Pi says is three.

`Faults` turns on what may go wrong in the environment: `"alloc"` (malloc and
`_beginthreadex` fail), `"builder"` (no memory for the new tree of a reload),
`"file"` (a file cannot be opened), `"mtime"` (an edit within the second of the last
one seen).  `loaded`, `gen`, `late`, and `since` and `seen` of a query are history: they
record what was published, how often, whether a write decided on an older tree has
landed, and which tree a query saw.  So are `lapsed` (names whose promotion was undone by a
review entry decided before it, or by a reload that read `learned.tsv` before its row was in it) and
`missed`
(names that the file has got since the reload under way has read it).

### RadixTree

A tree is a function from paths to nodes, and a node keeps its children in array
order with the flag that says whether they may be searched by halves.  An insertion
is atomic (a builder is private, a live insert holds the lock exclusively) and has
one outcome for each allocation that can fail.  Hit counts, TTLs, scores and notes
are left out; `Walk` reports the depth of the entry whose details the code returns.
The free of the old tree in a swap is immediate, the readers being shut out.

### DnsCache and AnswerCache

Everything that takes the lock exclusively is one step and needs all readers out.  A
lookup of the verdict cache is three steps (enter and read the clock; scan; touch by
compare-and-swap), one of the answer cache up to five (it reads the timestamp on its own,
and drops an expired slot in two writes).  A scan is one step: what other readers may do
meanwhile is touch or drop slots, and at most one slot matches.  `insert` of the verdict
cache is three actions by what its scan finds: `Refresh` (the name is there and live: the
scan stops, so that only the expired slots before it are zeroed), `Insert` (a vacancy),
`Evict`.  The prunes and `dns_cache_invalidate` are modelled although nothing in
`nyet.c` calls them.

Both read the clock as `get_timestamp_ns`: the performance counter times 10^9, cut to 64
bits, divided by the frequency.  `Stamp` is that: it starts from 0 again every `Wrap`
units (about half an hour at 10 MHz), while comparisons are made as if it never did.
`newest`, `born` and `used` are history.

### RateLimiter

A call is two steps: it reads `time(NULL)`, then takes `g_rl_lock` for the rest.  Others may
come in between with a later time, and then its refills are negative.  The clock is the
environment's and may be set back.  A refill is taken to fit an `int`, which it does unless nyet is
idle for more than 124 days.

### Upstream

`pc[w]` follows `process_request` from the socket on; `query[w].primary` is the local that
keeps the preference as it was read, `late` says that the deadline of the present wait has
passed.  A worker's socket (`buffer[w]`) lives as long as the worker, so replies left over from
one query are there for the next.  `Accept`, `Discard` and `TimeOut` are the three ways a
turn of `recv_matching_reply` can go; the deadline is looked at after a mismatch too.
The machine may change networks at any time (`Move`).  `asked` is history.

### Service

`posted` is what is pending in the kernel, `port` the queue of completions, `ctx[w]` what a
worker holds.  The log buffer is `data` up to its terminator and `length`: a flush by age sets
the length to 0 and leaves the text, which is why the two differ.  A thread that could not be
started is `"none"`; `WaitFails` is `WaitForMultipleObjects` failing at once (more than 64
handles, or a missing one).  `checks` counts the detached gravity threads: a worker may start
one before it logs (`StartCheck`), and it ends when it likes (`EndCheck`).  `main` frees the sockets,
tree and caches (`Destroy`), and then writes the log for the last time (`CloseLog`); a thread that
is still there uses what was freed, which may go unnoticed or end the process at any time (`Fault`,
after which `mpc` is `"crashed"` and nothing moves).  `lost` (slots whose `WSARecvFrom` failed) and
`logged` are history.

### Wire

A query is its bytes after the header and is read label by label, with the two tests of
`parse_query` against what is left of packet and buffer.  A reply is the list of records the
walk finds, each matching or not, cut off anywhere.  What is found can be served again; the
responses built here are walked by the same actions as a client would.  The one blocked answer is
an A record: for that walk it matches if the query's type is A (`TypeA`), and no other.

### Scorer

Text is sequences of characters.  Signals, entropy (the table of logarithms and its
truncating division), label splitting and the word trie are operators and recursive functions;
the trie is laid out as the compiler does, by place where the source gives no designator.
Weights are in hundredths; the one sum whose float value lands on the other side of the
threshold (`FallsShort`) is kept.  What is computed per name is a function of the name, so
that the interleaving part (two workers, counters, `review.tsv`, the entry in the tree) is small.
`Reload` swaps in a tree that holds only such entries of the names scored as a file has, often none.

## 3. What the runs check

| Run | Instance | Shows |
|---|---|---|
| `Proxy_core` | 1 name, 2 workers, 1 gravity thread, cap 1, 1 edit, the builder may fail | the cap, one check per name, no orphaned claim, curated verdicts within a generation (`CuratedHolds`), learned names blocked but for two late writes (`LearnedIsBlocked`), cached allows that agree with the tree |
| `Proxy_family` | a name and its subdomain, 1 worker, 2 threads, cap 2, 1 crash, live | a name is learned once, over a restart too; claims resolve |
| `Proxy_restart` | 1 name, 1 worker, 1 thread, 1 edit, 1 crash, faults of memory, files and mtimes, live | refinement of `AskOnce` under faults; a noticed edit is published; queries finish |
| `RadixTree` | 3 siblings under a name, 8 rows, lists of 3, 2 live inserts | shape and flags (`WellFormed`), lookup, steps of `BlockTree` |
| `DnsCache` | 3 names in 2 slots, 2 verdicts, TTL 1, 2 readers, clock to 4, wrap at 3 | one slot per name and an exact count (`TableSound`), trust within the TTL, eviction order within a period, refinement of `VerdictMap` |
| `AnswerCache` | 3 keys in overlapping windows of 2, 2 readers, 2 answers, clock to 3, wrap at 3 | one slot per key and a bounded count (`TableSound`), answers, touch |
| `RateLimiter` | 2 workers, 3 sources in 2 slots, clock to 2, set back once | burst and rate, per source and for all; debts heal (`DebtsHeal`) |
| `Upstream` | 2 workers, 2 IDs, 2 questions, sockets of 1 reply, 2 queries, 1 change of network, live | right answers, a settled preference, every forward ends |
| `Service` | 2 workers, 2 slots, a log buffer of 2 lines, 3 packets, 1 gravity check, waits for 2, live | slots conserved (`PoolSound`), the log faithful, nothing freed before workers and reload thread have ended (`JoinedBeforeFree`), shutdown completes, lines reach the file |
| `Wire` | queries of up to 7 bytes out of 0, 1, 2, dot, letter, a buffer of 4; replies of up to 3 records, 2 kept | bounds (`ParserSound`), exact names, the right records kept, responses that read back |
| `Scorer` | 30 names on both sides of the bounds, each alone and 4 of them together, 2 workers, 2 reloads, up to 5 scorings | entropy, words, threshold; counters, and once by each worker for each tree (`ScoringSound`) |
| `Proxy_v_stale` | 1 name, 1 worker, 1 thread, 1 edit | **violated**: `ReloadNeverIgnored` |

`Proxy_v_stale` checks what the comment at `src/nyet.c` 2111 says and the code does not do: a
verdict looked up before a swap can be cached after the sweep, and then outlives it.

**Provisos.**  Some properties hold under a condition that the property states, and the
condition is where the code stops keeping the promise:

* `CuratedHolds` has `~late` (no write decided on an older tree has landed); `Proxy_v_stale`
  is what happens without it.
* `PendingHasOwner` and `PendingResolves` presuppose that memory lasts: when `malloc` or
  `_beginthreadex` fails, `queue_gravity_check` gives the semaphore back but not the claim.
* `EditIsPublished` is about edits seen once the reload thread runs, with memory for a
  builder; an edit at start-up, or one met with no memory, is lost, since `last_mtime` is
  taken first.  A list that cannot be opened is published as an empty tree.
* `LearnedIsBlocked` excepts the names in `lapsed`: a review entry (969) decided before the
  promotion overwrites it, or a promotion between the reload's read of `learned.tsv` (2149) and its
  swap is lost from the live tree.  Nothing else may undo one, for any workers and edits.
* `AllowCacheAgrees` has `~late` from the first edit on: a cached ALLOW of a list loaded meanwhile
  can hide a promotion.
* `RightAnswer` is about IDs the worker has used for one question (`OneUse`): replies are
  matched by address and ID alone, and a late one may bear the ID of a later query.
* `TrustedForTtl` is within one period of the clock; across a wrap a verdict may be trusted
  for up to a period longer.
* `DisplacedInTurn` compares an entry with those stamped in the same period only; the order of
  stamps from different periods is lost: after a wrap the entry used last is put out first.
* `JoinedBeforeFree` and the end of `LogFaithful` have `~WaitFails`: if a worker could not be started, or
  there are more than 64, `main` frees what the others use.  Gravity threads are never waited for,
  and one that still runs uses freed memory (`Fault`).  It may end the process before the last write;
  `ShutdownCompletes` and `LinesReachFile` take that for an end.
* `LogFaithful` says each line once and in order while the log is open; when `main` is done, the
  last batch may be there twice, or followed by what `malloc` left (2354).
* `ScoringSound` bounds scorings by workers and trees; that there may be more than one is the race at
  1914 and what a reload drops.
* `DebtsHeal` is about calls with the latest time: one that races over a second's boundary may
  itself find a bucket below zero, and drop a query.
* `ServedAsMeant` is about requests with nothing behind their question: with EDNS, the
  client's own OPT record comes first in what the header calls the answers (653).  Of blocked
  queries of another type than A it says that nothing in the response answers them.
* `SourceRate` is about a source alone in its slot of the table.

**Where comments and code part.**  Met while modelling, besides what `Proxy_v_stale` shows:

* `src/nyet.c` 2325 ("waited for every worker/reload thread") and 2578 ("MUST actually wait for
  threads to finish"): a gravity thread started in time (1407) is detached and not waited for, and uses the
  tree, the answer cache and the asked cache's lock after `proxy_destroy` (2330-2349).
* 1926 ("this domain never has to round-trip to the Pi again"): a worker that found nothing before a
  promotion (1339) replaces it with its review entry (969) after it, and a reload that read
  `learned.tsv` before its row was there drops it.  Such names are in `lapsed`.
* `docs/DESIGN.md` 15 ("never re-scored") and `nyet.c` 1101: a reload drops live review entries, and
  their names are scored, and reported, again without any race (`Reload` in `Scorer`).
* `dns_cache.c` 135 ("Monotonic LRU touch") and 168 (`lru_idx`): stamps start from 0 again every half
  hour, after which the entry used last has the least stamp and is put out.
* `src/nyet.c` 1388 and 275: a name whose check was skipped or failed "gets a fresh attempt
  next time it's seen".  It has a review entry by then, is no longer unmatched, and is never
  claimed again.
* `src/nyet.c` 344 ("until the real TTL expires") and `answer_cache.c` 187: a hit moves the timestamp that
  expiry counts from, so that an answer asked for often is served past its TTL, each time with
  the TTL it came with.
* 1041 ("never more permissive"): two addresses that share a slot take it from each other, with
  a full bucket each time (1068-1074).
* 1110 ("exactly once"): two workers may both find a name unmatched and both score it.
* 2354 ("Final flush of remaining buffer"): the buffer is printed as a string, so that after a
  flush by age the last batch is written again, and with no line logged whatever `malloc` left.
* `answer_cache.h` 63: the TTL kept is the least of the address records', not of all records on
  the way (CNAMEs are skipped with theirs).
* `heuristics.c` 117-119: the trie has "stream", "mail" and "static", but one of its entries is
  missing from the positional part, so that these never match, and "sam" and "sraal" do.
* `heuristics.c` 189: "the number of distinct legitimate keywords" counts every occurrence.
* `heuristics.c` 336: the hyphen count never flags "on its own", but hyphens alone fire three
  signals, and `a-b-c-d-e-f.com` reaches the threshold.
* `nyet.c` 1115: entropy, consonants, vowels and digits less one word add up to 0.49999997 in
  floats: printed as 0.50, and not flagged.
* `heuristics.c` 351 ("roughly two-plus agreeing signals") and `docs/DESIGN.md` 57 ("it takes ~2
  agreeing signals"): two reach 0.40 at most, so that it takes three (`FlaggedOnEvidence`).
* `heuristics.c` 391: the example `ln-0007.ln-msedge.net` still scores nothing.

**Bounds.**  `MaxEdits` and `MaxCrashes` bound the environment of `Proxy`: one reload and one
restart are the shortest way to every race above.  An edit may save the same rows again, so
that a name already asked about becomes unmatched once more.  Two workers are all the pairs
there are; a cap of 2 with two threads lets two checks live at once, a cap of 1 makes "at the
cap" happen at once.  `learned` stops counting at 2, one above what `LearnedOnce` allows.

Two slots for three names (`DnsCache`), and overlapping windows of two for three keys
(`AnswerCache`), are the least in which a table or window fills up, a vacancy moves and an
eviction occurs.  A TTL of 1 with a wrap at 3 lets an entry be touched, expire, and be looked at
from the next period.  Three siblings let the binary search go both ways; the statuses meet on
a path of two.  The buckets of the limiter hold 2 and 4 tokens, so that both run dry,
and two workers with three times to read are every race over a second's boundary.

Two queries of the same worker or of two are enough for a late reply to meet another query,
with its own ID or with the same; one change of network lets the preference move and come
back.  Two slots and a full buffer of two lines let both flushes and a wake-up be interleaved
with packets; one gravity check is enough to outlive the shutdown.  Two reloads let a name be
scored for a third tree.  Bytes 0, 1, 2, a dot and a letter, in seven places, make every relation of a
label to packet and buffer: empty, fitting exactly, one too long, followed by a dot.  The
names of `Scorer` are chosen in pairs around each threshold.

**Symmetry** permutes workers and threads, readers, answers and verdicts, in runs that check
safety only; nothing in the modules tells them apart.

**Deadlock** is not checked in `Upstream`, `Service`, `Wire` and `Scorer`: they come to an
end (queries used up, the process stopped, the packet done with, the names scored).

**Fairness.**  In `Proxy`: every started worker, thread and the reload thread.  Sockets and
HTTP calls have timeouts, locks are held for one step, `Sleep(5000)` returns.  Queries, edits,
expiry and crashes are not fair.  In `Upstream`: workers run and deadlines come; whether
anything answers is left open.  In `Service`: workers, `main`, the reload thread and time
go on; that packets arrive, that a gravity check ends, that a use of freed memory ends the process,
or that the user ends the program, is not assumed.  Each
thread's steps are taken together, so that fairness never picks an outcome.

**Can the properties fail?**  Each has a slip (the definitions marked so in each module), a
plausible wrong edit of one definition, with which the same run finds it violated;
`PROJECT.json` lists the pairs.

## 4. What is proved

For all values of the constants that satisfy the named assumptions (finite, where a count
needs it, sets of workers, threads, keys and readers; a cap that is positive and not above the
number of thread identities; lists that are functions from names to entries; natural rates and
sizes; a positive capacity, probe window, period and receive buffer; names that are sequences
of numbers, or of strings in `Scorer`, where there is a name at least):

* `Proxy_proofs`
  * `TypeCorrect`.  The type invariant is split into the six groups of variables that
    actions leave alone together, so that each action argues about what it changes.
  * `SemaphoreConservedHolds`.  `SemaphoreConserved` with the types is inductive: it
    counts free units, workers about to start a thread, and live threads; each action
    moves at most one unit, and the lemmas on finite sets count it.
  * `OneCheckPerDomainHolds`.  Not inductive by itself: a new claim is only safe because
    everyone who has a claim or a check holds the PENDING mark of its name.  That is
    `OwnersPending`; `CheckInv` is the conjunction.
  * `PendingHasOwnerHolds`: the converse of `OwnersPending`, as long as memory lasts.
  * `AskOnceImplemented`: each step is one of `AskOnce` or a stutter.  A check starts below the
    cap because the semaphore is conserved, and starts once because of `CheckInv`.
  * `CuratedHoldsAlways`.  `CuratedInv` says of every place a verdict may be in (tree, builder,
    verdict cache, a worker's hands) that it agrees with the published files if it was decided on
    the present tree; a write that was not makes `late` true, and the invariant lapses.
  * `AllowCacheAgreesHolds`, from the same invariant; without an edit every list loaded is the same one.
  * `LearnedOnceHolds`, under `Lossless` (`malloc` and files do not fail).  `LearnInv`: a name with
    a line in `learned.tsv` is one that every tree blocks, or one that the asked cache still has,
    so that nobody who could ask about it again finds it unmatched.
  * `LearnedIsBlockedHolds`, under `Lossless`, for any workers, edits, reloads and crashes.  A row of
    `learned.tsv` is in every list that is read after it, and the rows written since are `missed`; a
    live entry is only replaced by a review entry or a swap, and both record what they undo.
* `RadixTree_proofs`
  * `Invariance`: `tree` and `builder` are trees (`Tree`: a root, each node linked exactly by its
    parent's list of children, lists without repetition, believable flags), and so is
    what every outcome of an insertion makes of one, failed allocations included.
  * `WellFormedHolds` follows.
  * `LookupIsPrecedenceHolds`.  The binary search is shown to find what is there (`TurnOfLoop`: a
    turn keeps the place of the label and brings the bounds closer), the sort to yield an
    ascending order of the same labels, the walk to pass exactly the nodes of the path that exist;
    what it carries along is the precedence among the entries passed so far.
  * `StepsOfBlockTreeHolds`: an insertion changes one entry of the flattened tree (`Becomes`).
* `DnsCache_proofs`
  * `Invariance`: types, one slot per name, the exact count, `Kept` (what a slot holds was stored
    at a time the clock has shown, and is stamped with it) and `Readers`.  Every way to write the
    table is one of three (sweep some slots, place one entry, touch one timestamp), and the
    lemmas `SweepSlots`, `PlaceSlots` and `TouchSlots` say once what each does.
  * `TableSoundHolds` follows: types, one slot per name, the exact count.
  * `DisplacedInTurnHolds`.  `ExpiredIsOver` is the modular arithmetic: what looks expired on a
    clock that wraps really is past its TTL (the converse is false).
  * `MapImplemented`: each step is one of `VerdictMap` or a stutter.  A lookup takes effect at its
    scan, and `Stored` looks at the first match, which is the only one by `OneSlotPerDomain`.
  * `TrustedForTtlHolds`.  Within a period differences of stamps are differences of times; a reader
    that has a hit looked at a slot that others can only have touched since.
* `AnswerCache_proofs`
  * `Invariance`: types, one slot per key and inside its window, `newest`, and the count.  The count
    is at most the valid slots and the readers that have dropped one and not counted it out; each
    of the two writes of a drop moves one unit of that sum.
  * `TableSoundHolds`, `NothingComesBackHolds`, and `TouchMonotoneHolds`: no step of a reader lowers
    a timestamp.
* `Screening_proofs`, on `RateLimiter`
  * `RateTypeCorrect`, which includes that no bucket exceeds its burst.
  * `SourceRateHolds`, `GlobalRateHolds`.  The invariant is a potential: what went through
    plus what is left is at most the burst plus the rate times the time of the last
    refill, a time the clock has shown.  Setting the clock back can only lower it.
  * `DebtsHealHolds`.  A negative refill takes off as much as the way back to the latest time puts
    on again, and a token is only taken from a bucket that is positive at the time in hand, which
    is not later: what a bucket would hold at the latest time is never negative.
* `Screening_proofs`, on `Scorer`
  * `FlaggedOnEvidenceHolds`.  A score is a sum of weights of the signals that fired less what words
    take off, so the argument is about sums over finite sets (`SumOf`) and the weights: two signals
    reach 40 at most, three less a word 45, and the four checks of labels less a word the one sum that
    falls short.  `WorkInv` (types, and a worker that flags has a name that crosses the threshold)
    carries it to the workers.
  * `EntropyNeedsVarietyHolds`.  The entropy of a label with given counts is least where
    `n * log2(n)` is, and that is convex; what is needed of convexity is a line under the table
    (`Below`), one for each of four ranges of lengths (`Chords`, which the prover computes from the table
    itself, so that its roundings are in the proof).  With at most eleven different characters the sum of the
    counts' terms stays above the line, and the quotient, rounded down, leaves at most 3.5 bits.
  * `EveryWordCountedHolds`.  `Prefix` says what has been read at each node the root leads to.  The
    links are shown to be those of the array as the compiler lays it out, with the strays that nothing
    leads to set apart; no two nodes stand for the same characters (`AppendsEqual`, `LinksDiffer`), so
    that the walk is on the end of a word just when it has read one (`Reads`, `EndIsWord`).
    Each walk counts the words from its start on, one for each place it passes (`WordsFrom`, by a bijection).
  * `ScoringSoundHolds`.  `CountInv`: the counters differ by the number of workers at the steps
    between them.  `RaceInv`: until a name has its entry it has been scored no more often than
    there are workers busy with it, for each tree so far; once it has one, nobody takes it again
    before the next.
* `Upstream_proofs`
  * `Invariance`: the types, `Answered` (every reply under way or in a socket answers something
    its worker has asked under that ID) and `InHand` (so does the one in a worker's hands).
    `RightAnswer` is not inductive: what makes a late reply harmless is where it came from.
  * `AnswersAreRight` follows with `OneUse`: two questions under one ID are the same one.
  * `PreferenceIsEarned` (it only moves to a resolver that has just answered) and
    `PreferenceDoesSettle` are step properties of `Adopt` under the same invariant.
* `Service_proofs`
  * `SlotInvariance`: a worker holds a context exactly between the dequeue and the re-arm.
    `PoolIsSound` follows.
  * `JoinedBeforeFreeHolds`: which threads exist, and which have ended, at each place of `main`.
  * `LogInvariance`: file and counting part of the buffer are the numbers from 1 to `logged`; what
    is in the buffer beyond that is there only when none of it counts.  `LogIsFaithful` follows;
    the last write is what needs the second half.
* `Wire_proofs`
  * `ParserSoundHolds`: types and bounds are inductive together, for bytes of any size.
  * `WalkInvariance`: at every record, what is kept are the matching records of those passed, each
    at the place that the number of matches up to it gives (`Place`), with the least of their TTLs.
    `KeptIsAnswerHolds`: where the walk ends, either the section does or the room.
  * `ServedAsMeantHolds`: `Ours` is what a response built here consists of.
  * `ParsedExactlyHolds`, from `NameInv`: what has been read are whole labels (`HasRead`), and they
    are the first labels of every question the packet begins with (`OnTheWay`).  The first half
    gives the question a taken name comes from, the second why none that fits is refused.

Recursive functions (sizes, the two forms of a question, the binary search, the sort, the walks, the
splitting of a name, sums) are reasoned about with a
principle that names no operator: a set of numbers without a least element is empty (`LeastOf`,
`Induction`).

The type invariants of `Proxy`, `RateLimiter` and `Upstream` and `PreferenceEarned` are proved and
in no run; those of the other modules are a conjunct of an invariant that a run
checks.

Only model-checked:

* liveness, which needs `ENABLED`: `PendingResolves`, `EditIsPublished`, `QueriesFinish`,
  `ForwardEnds`, `ShutdownCompletes`, `LinesReachFile`.

Of the safety properties that the runs check, every one is proved but `ReloadNeverIgnored`, which
is false.

## 5. What is not modelled, and the plan

Not modelled: TSV field parsing, log wording, statistics other than the scorer's; argument
parsing and the detached relaunch; `is_hex_telemetry`, which nothing calls; the
scripts and launch files (offline, or no state).

Every safety property of the runs now has its proof.  What would say more next is a finer `Proxy`:
two record types of one name, and the shutdown while a check is at one of its steps.

## 6. Running

    tlc -workers 2 -config Proxy_core.cfg MCProxy
    tlapm Proxy_proofs.tla

The longest runs are `RadixTree`, `Upstream`, `Proxy_restart`, `Proxy_family`, `AnswerCache` and
`Proxy_core` (one to three minutes each); the proofs take seconds to four minutes per module.
