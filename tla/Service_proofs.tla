---------------------------- MODULE Service_proofs ----------------------------
(***************************************************************************)
(* Service, for any number of workers and receive slots, any log buffer and  *)
(* any number of packets: the pool of slots is conserved, the log loses and  *)
(* repeats nothing while it is open, and nothing is freed before the threads *)
(* that main waits for have ended.                                          *)
(*                                                                          *)
(* Each rests on a strengthening of its own.  The pool: a worker holds a     *)
(* context exactly between the dequeue and the re-arm.  The shutdown: which  *)
(* threads exist, and have ended, at each place of main.  The log: the       *)
(* lengths agree, and what is in the buffer beyond the lines that count is   *)
(* there only when none of them does.                                        *)
(***************************************************************************)
EXTENDS Service, SequenceTheorems, FiniteSetTheorems, TLAPS

\* A worker has a context in its hands from the dequeue to the re-arm.
Held == \A w \in Worker : ctx[w] # None <=> wpc[w] \in {"process", "checked", "failed", "rearm"}

\* Before the pool is primed nothing has begun.
Primed ==
    mpc = "prime" =>
        /\ posted = {} /\ lost = {} /\ port = <<>> /\ open
        /\ \A w \in Worker : wpc[w] = "unborn"

SlotInv == TypeOK /\ SlotsConserved /\ Held /\ Primed

\* Where main is once it has freed something.
Freed == {"close_log", "done", "crashed"}

\* Which threads main has started, and which it has waited for.
Joined ==
    /\ mpc \in {"prime", "spawn"} => rpc = "unborn"
    /\ mpc \notin {"prime", "spawn"} => \A w \in Worker : wpc[w] # "unborn"
    /\ mpc \in {"join_reload", "destroy"} \cup Freed /\ ~WaitFails =>
         \A w \in Worker : wpc[w] = "exited"
    /\ mpc \in {"destroy"} \cup Freed => rpc \in {"exited", "none"}
    /\ ~open <=> mpc \in Freed

LogOpen == mpc \notin {"done", "crashed"}

\* The file and the buffer together hold line k at place k.
Written ==
    /\ Len(data) \in 1 .. LogCapacity
    /\ length = 0 \/ length = Len(data)
    /\ LogOpen =>
         /\ Len(file) + length = logged
         /\ \A k \in 1 .. Len(file) : file[k] = k
         /\ \A k \in 1 .. length : data[k] = Len(file) + k

LogInv == TypeOK /\ Primed /\ Joined /\ Written /\ NothingLost

-----------------------------------------------------------------------------
(***************************************************************************)
(* Types.                                                                   *)
(***************************************************************************)
LEMMA InitType == Init => TypeOK
<1> SUFFICES ASSUME Init PROVE TypeOK
    OBVIOUS
<1>1. data \in Seq(Nat) /\ file \in Seq(Nat) /\ length \in 0 .. LogCapacity
      /\ length <= Len(data) /\ checks \in 0 .. MaxGravity
    BY ServiceAssumption DEF Init
<1>2. port \in Seq(ReceiveSlot \cup {None})
    BY DEF Init
<1> QED
    BY <1>1, <1>2 DEF Init, TypeOK, MainPc, WorkerPc, ReloadPc

\* The buffer with one more line behind those that count.
LEMMA Added ==
    ASSUME NEW d \in Seq(Nat), NEW l \in Nat, l <= Len(d), NEW x \in Nat
    PROVE  /\ SubSeq(d, 1, l) \o <<x>> \in Seq(Nat)
           /\ Len(SubSeq(d, 1, l) \o <<x>>) = l + 1
           /\ \A k \in 1 .. l : (SubSeq(d, 1, l) \o <<x>>)[k] = d[k]
           /\ (SubSeq(d, 1, l) \o <<x>>)[l + 1] = x
<1>1. /\ SubSeq(d, 1, l) \in Seq(Nat) /\ Len(SubSeq(d, 1, l)) = l
      /\ \A k \in 1 .. l : SubSeq(d, 1, l)[k] = d[k]
  <2>1. \A i \in 1 .. l : d[i] \in Nat
      BY ElementOfSeq
  <2> QED
      BY <2>1, SubSeqProperties
<1>2. <<x>> \in Seq(Nat) /\ Len(<<x>>) = 1 /\ <<x>>[1] = x
    OBVIOUS
<1> QED
    BY <1>1, <1>2, ConcatProperties

\* What a line does to the buffer and the file: it is put behind the others, or the
\* buffer goes to the file and the line is the only one.
LEMMA LogEffect ==
    ASSUME TypeOK, NEW w \in Worker, LogQuery(w)
    PROVE  /\ data' \in Seq(Nat) /\ logged' = logged + 1 /\ data'[length'] = logged + 1
           /\ length' = Len(data') /\ length' \in 1 .. LogCapacity
           /\ \/ /\ length < LogCapacity /\ length' = length + 1 /\ UNCHANGED <<file, stale>>
                 /\ \A k \in 1 .. length : data'[k] = data[k]
              \/ /\ length = LogCapacity /\ length' = 1 /\ stale' = FALSE
                 /\ file' = file \o data
<1>1. logged \in Nat /\ logged + 1 \in Nat /\ data \in Seq(Nat) /\ length \in Nat
      /\ length <= Len(data) /\ length \in 0 .. LogCapacity
    BY ServiceAssumption DEF TypeOK
<1>2. logged' = logged + 1
    BY DEF LogQuery
<1>3. CASE length < LogCapacity
  <2>1. data' = SubSeq(data, 1, length) \o <<logged + 1>> /\ length' = length + 1
        /\ UNCHANGED <<file, stale>>
      BY <1>3, <1>1, ServiceAssumption DEF LogQuery
  <2>2. /\ data' \in Seq(Nat) /\ Len(data') = length + 1 /\ data'[length + 1] = logged + 1
        /\ \A k \in 1 .. length : data'[k] = data[k]
    <3>1. PICK b : b = SubSeq(data, 1, length) \o <<logged + 1>>
        OBVIOUS
    <3>2. /\ b \in Seq(Nat) /\ Len(b) = length + 1 /\ b[length + 1] = logged + 1
          /\ \A k \in 1 .. length : b[k] = data[k]
        BY <3>1, <1>1, Added
    <3> QED
        BY <3>2, <3>1, <2>1
  <2> QED
      BY <1>1, <1>2, <1>3, <2>1, <2>2, ServiceAssumption
<1>4. CASE length = LogCapacity
  <2>1. data' = <<logged + 1>> /\ length' = 1 /\ stale' = FALSE /\ file' = file \o data
      BY <1>4, ServiceAssumption DEF LogQuery
  <2>2. data' \in Seq(Nat) /\ Len(data') = 1 /\ data'[1] = logged + 1
      BY <2>1, <1>1
  <2> QED
      BY <1>2, <1>4, <2>1, <2>2, ServiceAssumption
<1>5. length < LogCapacity \/ length = LogCapacity
    BY <1>1, ServiceAssumption
<1> QED
    BY <1>3, <1>4, <1>5

LEMMA StepType == TypeOK /\ Held /\ [Next]_vars => TypeOK'
<1> SUFFICES ASSUME TypeOK, Held, [Next]_vars PROVE TypeOK'
    OBVIOUS
<1> USE ServiceAssumption DEF TypeOK, WorkerPc, MainPc, ReloadPc, workers, slots, log, GotoW
<1>1. ASSUME NEW w \in Worker, CheckRunning(w) PROVE TypeOK'
    BY <1>1 DEF CheckRunning
<1>2. ASSUME NEW w \in Worker, Dequeue(w) PROVE TypeOK'
  <2>1. Head(port) \in ReceiveSlot \cup {None} /\ Tail(port) \in Seq(ReceiveSlot \cup {None})
      BY <1>2, HeadTailProperties DEF Dequeue
  <2> QED
      BY <1>2, <2>1 DEF Dequeue
<1>3. ASSUME NEW w \in Worker, DropSilently(w) PROVE TypeOK'
    BY <1>3 DEF DropSilently
<1>12. ASSUME NEW w \in Worker, StartCheck(w) PROVE TypeOK'
    BY <1>12 DEF StartCheck
<1>13. CASE EndCheck
    BY <1>13 DEF EndCheck
<1>14. CASE Fault
    BY <1>14 DEF Fault
<1>4. ASSUME NEW w \in Worker, LogQuery(w) PROVE TypeOK'
  <2>1. file \o data \in Seq(Nat)
      BY ConcatProperties
  <2>2. /\ data' \in Seq(Nat) /\ file' \in Seq(Nat) /\ stale' \in BOOLEAN
        /\ length' \in 0 .. LogCapacity /\ length' <= Len(data') /\ logged' \in Nat
    <3> HIDE DEF TypeOK
    <3>1. /\ data' \in Seq(Nat) /\ logged' = logged + 1
          /\ length' = Len(data') /\ length' \in 1 .. LogCapacity
          /\ UNCHANGED <<file, stale>> \/ (stale' = FALSE /\ file' = file \o data)
        BY <1>4, LogEffect
    <3>2. logged \in Nat /\ file \in Seq(Nat) /\ stale \in BOOLEAN
        BY DEF TypeOK
    <3>3. stale' \in BOOLEAN /\ file' \in Seq(Nat)
        BY <2>1, <3>1, <3>2
    <3>4. length' \in 0 .. LogCapacity /\ length' <= Len(data') /\ logged' \in Nat
        BY <3>1, <3>2, ServiceAssumption
    <3> QED
        BY <3>1, <3>3, <3>4
  <2>3. wpc' \in [Worker -> WorkerPc]
      BY <1>4 DEF LogQuery
  <2>4. UNCHANGED <<running, checks, mpc, ctx, rpc, posted, lost, port, packets, open>>
      BY <1>4 DEF LogQuery
  <2> QED
      BY <2>2, <2>3, <2>4
<1>5. ASSUME NEW w \in Worker, Rearm(w) PROVE TypeOK'
  <2>1. ctx[w] \in ReceiveSlot
      BY <1>5 DEF Rearm, Held
  <2> QED
      BY <1>5, <2>1 DEF Rearm, PostRecv
<1>6. CASE CheckReload
    BY <1>6 DEF CheckReload
<1>7. CASE Poll
  <2>1. file \o data \in Seq(Nat)
      BY ConcatProperties
  <2>2. 0 \in 0 .. LogCapacity /\ 0 <= Len(data)
      OBVIOUS
  <2>3. /\ length' \in 0 .. LogCapacity /\ length' <= Len(data) /\ file' \in Seq(Nat)
        /\ stale' \in BOOLEAN
      BY <1>7, <2>1, <2>2 DEF Poll, Flush
  <2> QED
      BY <1>7, <2>3 DEF Poll
<1>8. CASE MainStep
  <2>1. ASSUME Prime PROVE TypeOK'
      BY <2>1 DEF Prime, PostRecv
  <2>2. ASSUME SpawnWorker \/ SpawnReload \/ LeaveLoop \/ JoinWorkers \/ JoinReload PROVE TypeOK'
      BY <2>2 DEF SpawnWorker, SpawnReload, LeaveLoop, JoinWorkers, JoinReload
  <2>3. ASSUME WakeWorkers PROVE TypeOK'
    <3>1. Cardinality(Worker) \in Nat
        BY FS_CardinalityType
    <3>2. [k \in 1 .. Cardinality(Worker) |-> None] \in Seq(ReceiveSlot \cup {None})
        BY <3>1
    <3>3. port' \in Seq(ReceiveSlot \cup {None})
        BY <2>3, <3>2, ConcatProperties DEF WakeWorkers
    <3> QED
        BY <2>3, <3>3 DEF WakeWorkers
  <2>4. ASSUME Destroy PROVE TypeOK'
      BY <2>4 DEF Destroy
  <2>5. ASSUME CloseLog PROVE TypeOK'
    <3>1. file \o data \in Seq(Nat)
        BY ConcatProperties
    <3> QED
        BY <2>5, <3>1 DEF CloseLog
  <2> QED
      BY <1>8, <2>1, <2>2, <2>3, <2>4, <2>5 DEF MainStep
<1>9. CASE CtrlHandler \/ TimePasses
    BY <1>9 DEF CtrlHandler, TimePasses
<1>10. CASE Complete
  <2>1. PICK s \in posted : posted' = posted \ {s} /\ port' = Append(port, s)
      BY <1>10 DEF Complete
  <2>2. port' \in Seq(ReceiveSlot \cup {None})
      BY <2>1, AppendProperties
  <2> QED
      BY <1>10, <2>1, <2>2 DEF Complete
<1>11. CASE UNCHANGED vars
    BY <1>11 DEF vars
<1> QED
    BY <1>1, <1>2, <1>3, <1>4, <1>12, <1>13, <1>14, <1>5, <1>6, <1>7, <1>8, <1>9, <1>10, <1>11
    DEF Next, WorkerStep, ReloadStep

-----------------------------------------------------------------------------
(***************************************************************************)
(* The pool of receive slots.                                               *)
(***************************************************************************)
InQueue(q) == {q[k] : k \in 1 .. Len(q)} \ {None}

\* No slot is in the queue twice.
Once(q) == \A j, k \in 1 .. Len(q) : q[j] = q[k] /\ q[j] # None => j = k

QueueOf == Seq(ReceiveSlot \cup {None})

\* The first completion leaves the queue.
LEMMA TailQueue ==
    ASSUME NEW q \in QueueOf, q # <<>>, Once(q)
    PROVE  /\ InQueue(q) = InQueue(Tail(q)) \cup ({Head(q)} \ {None})
           /\ Head(q) \notin InQueue(Tail(q)) /\ Once(Tail(q))
<1>1. /\ Head(q) = q[1] /\ Len(Tail(q)) = Len(q) - 1 /\ Len(q) \in Nat /\ Len(q) > 0
      /\ \A k \in 1 .. Len(Tail(q)) : Tail(q)[k] = q[k + 1]
    BY HeadTailProperties, EmptySeq, LenProperties DEF QueueOf
<1>2. \A k \in 1 .. Len(Tail(q)) : k + 1 \in 1 .. Len(q) /\ k + 1 # 1
    BY <1>1
<1>3. 1 \in 1 .. Len(q)
    BY <1>1
<1>4. \A j \in 1 .. Len(q) : j = 1 \/ (j - 1 \in 1 .. Len(Tail(q)) /\ q[j] = Tail(q)[j - 1])
    BY <1>1
<1>5. InQueue(q) \subseteq InQueue(Tail(q)) \cup ({Head(q)} \ {None})
    BY <1>1, <1>4 DEF InQueue
<1>6. InQueue(Tail(q)) \cup ({Head(q)} \ {None}) \subseteq InQueue(q)
    BY <1>1, <1>2, <1>3 DEF InQueue
<1>7. Head(q) \notin InQueue(Tail(q))
    BY <1>1, <1>2, <1>3 DEF InQueue, Once
<1>8. Once(Tail(q))
  <2> SUFFICES ASSUME NEW j \in 1 .. Len(Tail(q)), NEW k \in 1 .. Len(Tail(q)),
                      Tail(q)[j] = Tail(q)[k], Tail(q)[j] # None
               PROVE  j = k
      BY DEF Once
  <2>1. j + 1 = k + 1
      BY <1>1, <1>2 DEF Once
  <2> QED
      BY <2>1
<1> QED
    BY <1>5, <1>6, <1>7, <1>8

\* A slot joins the queue, of which it is no part.
LEMMA AppendQueue ==
    ASSUME NEW q \in QueueOf, NEW s \in ReceiveSlot, Once(q), s \notin InQueue(q)
    PROVE  InQueue(Append(q, s)) = InQueue(q) \cup {s} /\ Once(Append(q, s))
<1> DEFINE a == Append(q, s)
<1>1. /\ Len(q) \in Nat /\ Len(a) = Len(q) + 1 /\ a[Len(q) + 1] = s
      /\ \A k \in 1 .. Len(q) : a[k] = q[k]
    BY AppendProperties, LenProperties DEF QueueOf
<1>2. s # None
    BY ServiceAssumption
<1> HIDE DEF a
<1>3. \A k \in 1 .. Len(a) : k \in 1 .. Len(q) \/ (k = Len(q) + 1 /\ a[k] = s)
    BY <1>1
<1>4. InQueue(a) = InQueue(q) \cup {s}
  <2>1. InQueue(a) \subseteq InQueue(q) \cup {s}
      BY <1>1, <1>3 DEF InQueue
  <2>2. 1 .. Len(q) \subseteq 1 .. Len(a) /\ Len(q) + 1 \in 1 .. Len(a)
      BY <1>1
  <2>3. InQueue(q) \cup {s} \subseteq InQueue(a)
      BY <1>1, <1>2, <2>2 DEF InQueue
  <2> QED
      BY <2>1, <2>3
<1>5. Once(a)
  <2> SUFFICES ASSUME NEW j \in 1 .. Len(a), NEW k \in 1 .. Len(a), a[j] = a[k], a[j] # None
               PROVE  j = k
      BY DEF Once
  <2>1. CASE j \in 1 .. Len(q) /\ k \in 1 .. Len(q)
      BY <1>1, <2>1 DEF Once
  <2>2. \A i \in 1 .. Len(q) : q[i] # s
      BY <1>2 DEF InQueue
  <2> QED
      BY <1>1, <1>3, <2>1, <2>2
<1> QED
    BY <1>4, <1>5 DEF a

\* Completions posted by hand add no slot to the queue.
LEMMA WakeQueue ==
    ASSUME NEW q \in QueueOf, NEW n \in QueueOf, Once(q), \A k \in 1 .. Len(n) : n[k] = None
    PROVE  InQueue(q \o n) = InQueue(q) /\ Once(q \o n)
<1> DEFINE c == q \o n
<1>1. /\ Len(q) \in Nat /\ Len(n) \in Nat /\ Len(c) = Len(q) + Len(n)
      /\ \A k \in 1 .. Len(q) : c[k] = q[k]
      /\ \A k \in 1 .. Len(c) : k \in 1 .. Len(q) \/ c[k] = None
  <2>1. /\ Len(q) \in Nat /\ Len(n) \in Nat /\ Len(c) = Len(q) + Len(n)
        /\ \A k \in 1 .. Len(q) + Len(n) : c[k] = IF k <= Len(q) THEN q[k] ELSE n[k - Len(q)]
      BY ConcatProperties, LenProperties DEF QueueOf
  <2> HIDE DEF c
  <2>2. \A k \in 1 .. Len(c) : k \notin 1 .. Len(q) => k - Len(q) \in 1 .. Len(n) /\ ~(k <= Len(q))
      BY <2>1
  <2>3. \A k \in 1 .. Len(q) : k \in 1 .. Len(q) + Len(n) /\ k <= Len(q)
      BY <2>1
  <2> QED
      BY <2>1, <2>2, <2>3
<1> HIDE DEF c
<1>2. 1 .. Len(q) \subseteq 1 .. Len(c)
    BY <1>1
<1>3. InQueue(c) \subseteq InQueue(q) /\ InQueue(q) \subseteq InQueue(c)
    BY <1>1, <1>2 DEF InQueue
<1>4. Once(c)
    BY <1>1 DEF Once
<1> QED
    BY <1>3, <1>4 DEF c

\* A worker takes the slot s into its hands, or lets it go.
LEMMA TakeInHand ==
    ASSUME TypeOK, NEW w \in Worker, NEW s, ctx[w] = None, ctx' = [ctx EXCEPT ![w] = s]
    PROVE  InHand' = InHand \cup ({s} \ {None})
    BY DEF TypeOK, InHand

LEMMA LetGo ==
    ASSUME TypeOK, SlotsConserved, NEW w \in Worker, ctx[w] # None,
           ctx' = [ctx EXCEPT ![w] = None]
    PROVE  InHand' = InHand \ {ctx[w]} /\ ctx[w] \in InHand
    BY DEF TypeOK, InHand, SlotsConserved

\* The two ways of saying that no slot is queued twice.
LEMMA QueueSets ==
    /\ Queued = InQueue(port) /\ Queued' = InQueue(port')
    /\ SlotsConserved => Once(port)
    BY DEF Queued, InQueue, SlotsConserved, Once

\* What SlotsConserved says, with the queue apart.
LEMMA SlotsFrom ==
    ASSUME mpc' # "prime" => posted' \cup Queued' \cup InHand' \cup lost' = ReceiveSlot,
           posted' \cap (Queued' \cup InHand') = {}, Queued' \cap InHand' = {},
           lost' \cap (posted' \cup Queued' \cup InHand') = {},
           \A v, w \in Worker : ctx'[v] = ctx'[w] /\ ctx'[v] # None => v = w,
           Once(port')
    PROVE  SlotsConserved'
    BY DEF SlotsConserved, Once

LEMMA DequeueSlots ==
    ASSUME SlotInv, NEW w \in Worker, Dequeue(w)
    PROVE  SlotsConserved'
<1> DEFINE s == Head(port)
<1>1. /\ port # <<>> /\ port' = Tail(port) /\ ctx' = [ctx EXCEPT ![w] = s]
      /\ UNCHANGED <<mpc, posted, lost>> /\ ctx[w] = None
    BY DEF Dequeue, SlotInv, Held
<1>2. Once(port) /\ port \in QueueOf
    BY QueueSets DEF SlotInv, TypeOK, QueueOf
<1>3. Queued = Queued' \cup ({s} \ {None}) /\ s \notin Queued' /\ Once(port')
    BY <1>1, <1>2, TailQueue, QueueSets
<1>4. InHand' = InHand \cup ({s} \ {None})
    BY <1>1, TakeInHand DEF SlotInv
<1>5. \A u, v \in Worker : ctx'[u] = ctx'[v] /\ ctx'[u] # None => u = v
  <2>1. \A v \in Worker : ctx'[v] = (IF v = w THEN s ELSE ctx[v])
      BY <1>1 DEF SlotInv, TypeOK
  <2>2. \A v \in Worker : ctx[v] # None => ctx[v] \in InHand
      BY DEF InHand
  <2>3. s # None => s \notin InHand
      BY <1>3 DEF SlotInv, SlotsConserved
  <2> HIDE DEF s
  <2> QED
      BY <2>1, <2>2, <2>3 DEF SlotInv, SlotsConserved
<1> HIDE DEF s
<1>6. /\ mpc # "prime" => posted \cup Queued \cup InHand \cup lost = ReceiveSlot
      /\ posted \cap (Queued \cup InHand) = {} /\ Queued \cap InHand = {}
      /\ lost \cap (posted \cup Queued \cup InHand) = {}
    BY DEF SlotInv, SlotsConserved
<1> QED
    BY <1>1, <1>3, <1>4, <1>5, <1>6, SlotsFrom

LEMMA RearmSlots ==
    ASSUME SlotInv, NEW w \in Worker, Rearm(w)
    PROVE  SlotsConserved'
<1> DEFINE s == ctx[w]
<1>1. /\ ctx' = [ctx EXCEPT ![w] = None] /\ UNCHANGED <<mpc, port>> /\ s # None
      /\ \E failed \in SUBSET {s} : posted' = posted \cup ({s} \ failed) /\ lost' = lost \cup failed
    BY DEF Rearm, PostRecv, SlotInv, Held
<1>2. InHand' = InHand \ {s} /\ s \in InHand
    BY <1>1, LetGo DEF SlotInv
<1>3. Queued' = Queued /\ Once(port')
    BY <1>1, QueueSets DEF Queued, SlotInv
<1>4. \A u, v \in Worker : ctx'[u] = ctx'[v] /\ ctx'[u] # None => u = v
  <2>1. \A v \in Worker : ctx'[v] = (IF v = w THEN None ELSE ctx[v])
      BY <1>1 DEF SlotInv, TypeOK
  <2> QED
      BY <2>1 DEF SlotInv, SlotsConserved
<1> HIDE DEF s
<1>5. /\ mpc # "prime" => posted \cup Queued \cup InHand \cup lost = ReceiveSlot
      /\ posted \cap (Queued \cup InHand) = {} /\ Queued \cap InHand = {}
      /\ lost \cap (posted \cup Queued \cup InHand) = {}
    BY DEF SlotInv, SlotsConserved
<1>6. /\ posted' \cup lost' = posted \cup lost \cup {s} /\ posted \subseteq posted'
      /\ lost \subseteq lost' /\ posted' \cap lost' = {}
    BY <1>1, <1>2, <1>5
<1> QED
    BY <1>1, <1>2, <1>3, <1>4, <1>5, <1>6, SlotsFrom

LEMMA CompleteSlots ==
    ASSUME SlotInv, Complete
    PROVE  SlotsConserved'
<1>1. PICK s \in posted : posted' = posted \ {s} /\ port' = Append(port, s)
    BY DEF Complete
<1>2. UNCHANGED <<mpc, ctx, lost>> /\ InHand' = InHand
    BY DEF Complete, workers, InHand
<1>3. /\ mpc # "prime" => posted \cup Queued \cup InHand \cup lost = ReceiveSlot
      /\ posted \cap (Queued \cup InHand) = {} /\ Queued \cap InHand = {}
      /\ lost \cap (posted \cup Queued \cup InHand) = {}
      /\ \A v, w \in Worker : ctx[v] = ctx[w] /\ ctx[v] # None => v = w
    BY DEF SlotInv, SlotsConserved
<1>4. s \in ReceiveSlot /\ port \in QueueOf /\ Once(port) /\ s \notin Queued
    BY <1>3, QueueSets DEF SlotInv, TypeOK, QueueOf
<1>5. Queued' = Queued \cup {s} /\ Once(port')
    BY <1>1, <1>4, AppendQueue, QueueSets
<1> QED
    BY <1>1, <1>2, <1>3, <1>5, SlotsFrom

LEMMA WakeSlots ==
    ASSUME SlotInv, WakeWorkers
    PROVE  SlotsConserved'
<1> DEFINE n == [k \in 1 .. Cardinality(Worker) |-> None]
<1>1. /\ n \in QueueOf /\ \A k \in 1 .. Len(n) : n[k] = None
  <2>1. Cardinality(Worker) \in Nat
      BY FS_CardinalityType, ServiceAssumption
  <2> QED
      BY <2>1 DEF QueueOf
<1>2. /\ port' = port \o n /\ UNCHANGED <<posted, lost, ctx>> /\ InHand' = InHand
      /\ mpc # "prime"
    BY DEF WakeWorkers, workers, InHand
<1>3. Once(port) /\ port \in QueueOf
    BY QueueSets DEF SlotInv, TypeOK, QueueOf
<1> HIDE DEF n
<1>4. Queued' = Queued /\ Once(port')
    BY <1>1, <1>2, <1>3, WakeQueue, QueueSets
<1> QED
    BY <1>2, <1>4, SlotsFrom DEF SlotInv, SlotsConserved

LEMMA PrimeSlots ==
    ASSUME SlotInv, Prime
    PROVE  SlotsConserved'
<1>1. /\ posted = {} /\ lost = {} /\ port = <<>> /\ mpc = "prime"
      /\ \A w \in Worker : wpc[w] = "unborn"
      /\ UNCHANGED <<port, ctx>>
    BY DEF Prime, SlotInv, Primed, workers
<1>2. \E failed \in SUBSET ReceiveSlot : posted' = ReceiveSlot \ failed /\ lost' = failed
    BY <1>1 DEF Prime, PostRecv
<1>3. InHand' = {} /\ \A w \in Worker : ctx'[w] = None
    BY <1>1 DEF InHand, SlotInv, Held
<1>4. Queued' = {} /\ Once(port')
    BY <1>1 DEF Queued, Once
<1> QED
    BY <1>2, <1>3, <1>4, SlotsFrom

\* Steps that move no slot.
LEMMA SameSlots ==
    ASSUME SlotInv, UNCHANGED <<posted, lost, port, ctx>>, mpc = "prime" => mpc' = "prime"
    PROVE  SlotsConserved'
    BY DEF SlotInv, SlotsConserved, Queued, InHand

LEMMA StepHeld ==
    ASSUME TypeOK, Held, Next
    PROVE  Held'
<1> USE DEF TypeOK, Held, GotoW, workers
<1>1. ASSUME NEW w \in Worker,
             CheckRunning(w) \/ DropSilently(w) \/ StartCheck(w) \/ LogQuery(w) \/ Rearm(w)
      PROVE  Held'
    BY <1>1 DEF CheckRunning, DropSilently, StartCheck, LogQuery, Rearm
<1>2. ASSUME NEW w \in Worker, Dequeue(w) PROVE Held'
  <2> HIDE DEF TypeOK, Held
  <2>1. PICK p \in WorkerPc :
          /\ wpc' = [wpc EXCEPT ![w] = p]
          /\ Head(port) = None <=> p \notin {"process", "checked", "failed", "rearm"}
      BY <1>2 DEF Dequeue, WorkerPc
  <2>2. /\ ctx' = [ctx EXCEPT ![w] = Head(port)]
        /\ wpc \in [Worker -> WorkerPc] /\ ctx \in [Worker -> ReceiveSlot \cup {None}]
      BY <1>2 DEF Dequeue, TypeOK
  <2>3. \A v \in Worker : /\ wpc'[v] = IF v = w THEN p ELSE wpc[v]
                          /\ ctx'[v] = IF v = w THEN Head(port) ELSE ctx[v]
      BY <2>1, <2>2
  <2> QED
      BY <2>1, <2>3 DEF Held
<1>3. ASSUME SpawnWorker PROVE Held'
    BY <1>3 DEF SpawnWorker
<1>4. ASSUME UNCHANGED workers PROVE Held'
    BY <1>4
<1> QED
    BY <1>1, <1>2, <1>3, <1>4
    DEF Next, WorkerStep, MainStep, ReloadStep, EndCheck, Fault, CloseLog, CheckReload,
        Poll, Prime, SpawnReload, LeaveLoop, WakeWorkers, JoinWorkers, JoinReload,
        Destroy, CtrlHandler, Complete, TimePasses

LEMMA StepPrimed ==
    ASSUME TypeOK, Primed, Next
    PROVE  Primed'
<1>1. ASSUME mpc = "prime", mpc' = "prime" PROVE UNCHANGED <<posted, lost, port, wpc, open>>
    BY <1>1
    DEF Primed, Next, WorkerStep, MainStep, ReloadStep, EndCheck, Fault, CloseLog,
        CheckReload, Poll, Prime, SpawnWorker, SpawnReload, LeaveLoop, WakeWorkers,
        JoinWorkers, JoinReload, Destroy, CtrlHandler, Complete, TimePasses,
        CheckRunning, Dequeue, DropSilently, StartCheck, LogQuery, Rearm, workers, slots
<1>2. mpc # "prime" => mpc' # "prime"
    BY
    DEF Next, WorkerStep, MainStep, ReloadStep, EndCheck, Fault, CloseLog, CheckReload,
        Poll, Prime, SpawnWorker, SpawnReload, LeaveLoop, WakeWorkers, JoinWorkers,
        JoinReload, Destroy, CtrlHandler, Complete, TimePasses, CheckRunning, Dequeue,
        DropSilently, StartCheck, LogQuery, Rearm
<1> QED
    BY <1>1, <1>2 DEF Primed

LEMMA StepSlots ==
    ASSUME SlotInv, Next
    PROVE  SlotsConserved'
<1>1. ASSUME NEW w \in Worker, Dequeue(w) PROVE SlotsConserved'
    BY <1>1, DequeueSlots
<1>2. ASSUME NEW w \in Worker, Rearm(w) PROVE SlotsConserved'
    BY <1>2, RearmSlots
<1>3. ASSUME NEW w \in Worker, CheckRunning(w) \/ DropSilently(w) \/ StartCheck(w) \/ LogQuery(w)
      PROVE  SlotsConserved'
    BY <1>3, SameSlots DEF CheckRunning, DropSilently, StartCheck, LogQuery, slots
<1>4. ASSUME ReloadStep \/ EndCheck \/ CtrlHandler \/ TimePasses PROVE SlotsConserved'
    BY <1>4, SameSlots
    DEF ReloadStep, CheckReload, EndCheck, Poll, CtrlHandler, TimePasses, slots, workers
<1>5. ASSUME \/ SpawnWorker \/ SpawnReload \/ LeaveLoop \/ JoinWorkers \/ JoinReload
             \/ Destroy \/ CloseLog
      PROVE  SlotsConserved'
    BY <1>5, SameSlots
    DEF SpawnWorker, SpawnReload, LeaveLoop, JoinWorkers, JoinReload, Destroy, CloseLog,
        slots, workers
<1>6. ASSUME Fault PROVE SlotsConserved'
  <2>1. mpc # "prime"
      BY <1>6 DEF Fault, SlotInv, Primed
  <2> QED
      BY <1>6, <2>1, SameSlots DEF Fault, slots, workers
<1> QED
    BY <1>1, <1>2, <1>3, <1>4, <1>5, <1>6, PrimeSlots, WakeSlots, CompleteSlots
    DEF Next, WorkerStep, MainStep

LEMMA InitSlots == Init => SlotInv
<1> SUFFICES ASSUME Init PROVE SlotInv
    OBVIOUS
<1>1. Queued = {} /\ InHand = {}
    BY DEF Init, Queued, InHand
<1> QED
    BY <1>1, InitType DEF Init, SlotInv, SlotsConserved, Held, Primed

LEMMA StepSlotInv == SlotInv /\ [Next]_vars => SlotInv'
<1>1. ASSUME SlotInv, Next PROVE SlotInv'
    BY <1>1, StepType, StepSlots, StepHeld, StepPrimed DEF SlotInv
<1>2. ASSUME SlotInv, UNCHANGED vars PROVE SlotInv'
  <2>1. TypeOK' /\ SlotsConserved'
      BY <1>2, StepType, SameSlots DEF vars, slots, workers, SlotInv
  <2> QED
      BY <1>2, <2>1 DEF vars, slots, workers, SlotInv, Held, Primed
<1> QED
    BY <1>1, <1>2

\* The invariant holds in every state.
THEOREM SlotInvariance == Spec => []SlotInv
    BY InitSlots, StepSlotInv, PTL DEF Spec

\* No receive slot leaves the rotation but by a WSARecvFrom that fails, and none is
\* in two places, for any number of workers, slots and packets (iocp_worker_loop).
THEOREM PoolIsSound == Spec => []PoolSound
<1>1. SlotInv => PoolSound
    BY DEF SlotInv, PoolSound
<1> QED
    BY <1>1, SlotInvariance, PTL

-----------------------------------------------------------------------------
(***************************************************************************)
(* The shutdown.                                                            *)
(***************************************************************************)
\* After the spawning no thread appears, and one that could not be started never
\* runs; so whether the wait can fail is settled.
LEMMA ThreadsSettled ==
    ASSUME TypeOK, Joined, Next, mpc \notin {"prime", "spawn"}
    PROVE  /\ WaitFails' <=> WaitFails
           /\ \A w \in Worker : wpc'[w] # "unborn" /\ (wpc[w] = "exited" => wpc'[w] = "exited")
           /\ rpc \in {"exited", "none"} => rpc' = rpc
           /\ mpc' \notin {"prime", "spawn"}
<1> USE DEF TypeOK, Joined, WorkerPc, GotoW, workers
<1>1. ASSUME NEW w \in Worker, WorkerStep(w)
      PROVE  /\ \A v \in Worker : /\ wpc'[v] # "unborn" /\ (wpc[v] = "exited" => wpc'[v] = "exited")
                                  /\ wpc'[v] = "none" <=> wpc[v] = "none"
             /\ UNCHANGED <<rpc, mpc>>
  <2>1. PICK p \in WorkerPc \ {"unborn", "none"} : wpc' = [wpc EXCEPT ![w] = p]
      BY <1>1 DEF WorkerStep, CheckRunning, Dequeue, DropSilently, StartCheck, LogQuery, Rearm
  <2>2. wpc[w] \notin {"unborn", "none", "exited"} /\ UNCHANGED <<rpc, mpc>>
      BY <1>1 DEF WorkerStep, CheckRunning, Dequeue, DropSilently, StartCheck, LogQuery, Rearm
  <2> QED
      BY <2>1, <2>2
<1>2. ASSUME ReloadStep \/ EndCheck \/ Fault \/ MainStep \/ CtrlHandler \/ Complete \/ TimePasses
      PROVE  /\ wpc' = wpc /\ (rpc \in {"exited", "none"} => rpc' = rpc)
             /\ mpc' \notin {"prime", "spawn"}
    BY <1>2
    DEF MainStep, ReloadStep, EndCheck, Fault, CloseLog, CheckReload, Poll, Prime,
        SpawnWorker, SpawnReload, LeaveLoop, WakeWorkers, JoinWorkers, JoinReload,
        Destroy, CtrlHandler, Complete, TimePasses
<1> QED
    BY <1>1, <1>2 DEF Next, WaitFails

\* While main starts the threads.
LEMMA StepSpawning ==
    ASSUME TypeOK, Joined, Next, mpc \in {"prime", "spawn"}
    PROVE  Joined'
<1> USE DEF Joined, Freed, workers
<1>1. CASE SpawnReload
  <2>1. mpc' = "sleep" /\ UNCHANGED <<wpc, open>> /\ \A w \in Worker : wpc[w] # "unborn"
      BY <1>1 DEF SpawnReload
  <2> QED
      BY <2>1
<1>2. CASE Prime \/ SpawnWorker
  <2>1. mpc' \in {"prime", "spawn"} /\ UNCHANGED <<rpc, open>>
      BY <1>2 DEF Prime, SpawnWorker
  <2> QED
      BY <2>1
<1>3. CASE ~(SpawnReload \/ Prime \/ SpawnWorker)
  <2>1. UNCHANGED <<mpc, rpc, open>>
      BY <1>3
      DEF Next, WorkerStep, MainStep, ReloadStep, EndCheck, Fault, CloseLog, CheckReload,
          Poll, LeaveLoop, WakeWorkers, JoinWorkers, JoinReload, Destroy, CtrlHandler,
          Complete, TimePasses, CheckRunning, Dequeue, DropSilently, StartCheck,
          LogQuery, Rearm
  <2> QED
      BY <2>1
<1> QED
    BY <1>1, <1>2, <1>3

LEMMA StepJoined == TypeOK /\ Joined /\ [Next]_vars => Joined'
<1> SUFFICES ASSUME TypeOK, Joined, [Next]_vars PROVE Joined'
    OBVIOUS
<1>1. CASE Next /\ mpc \notin {"prime", "spawn"}
  <2>1. /\ WaitFails' <=> WaitFails
        /\ \A w \in Worker : wpc'[w] # "unborn" /\ (wpc[w] = "exited" => wpc'[w] = "exited")
        /\ rpc \in {"exited", "none"} => rpc' = rpc
        /\ mpc' \notin {"prime", "spawn"}
      BY <1>1, ThreadsSettled
  <2>2. CASE MainStep
    <3>1. CASE JoinWorkers
      <4>1. mpc' = "join_reload" /\ (WaitFails \/ \A w \in Worker : wpc[w] = "exited")
            /\ UNCHANGED open /\ mpc = "join_workers"
          BY <3>1 DEF JoinWorkers
      <4> QED
          BY <2>1, <4>1 DEF Joined, Freed
    <3>2. CASE JoinReload
      <4>1. mpc = "join_reload" /\ mpc' = "destroy" /\ rpc \in {"exited", "none"} /\ UNCHANGED open
          BY <3>2 DEF JoinReload
      <4> QED
          BY <2>1, <4>1 DEF Joined, Freed
    <3>3. CASE Destroy
      <4>1. mpc = "destroy" /\ mpc' = "close_log" /\ open' = FALSE
          BY <3>3 DEF Destroy
      <4> QED
          BY <2>1, <4>1 DEF Joined, Freed
    <3>5. CASE CloseLog
      <4>1. mpc = "close_log" /\ mpc' = "done" /\ UNCHANGED open
          BY <3>5 DEF CloseLog
      <4> QED
          BY <2>1, <4>1 DEF Joined, Freed
    <3>4. CASE LeaveLoop \/ WakeWorkers
      <4>1. mpc' \in {"wake", "join_workers"} /\ mpc \in {"sleep", "wake"} /\ UNCHANGED open
          BY <3>4 DEF LeaveLoop, WakeWorkers
      <4> QED
          BY <2>1, <4>1 DEF Joined, Freed
    <3> QED
        BY <1>1, <2>2, <3>1, <3>2, <3>3, <3>4, <3>5 DEF MainStep, Prime, SpawnWorker, SpawnReload
  <2>4. CASE Fault
    <3>1. ~open /\ mpc' = "crashed" /\ UNCHANGED open
        BY <2>4 DEF Fault
    <3> QED
        BY <2>1, <3>1 DEF Joined, Freed
  <2>3. CASE ~MainStep /\ ~Fault
    <3>1. UNCHANGED <<mpc, open>>
        BY <1>1, <2>3
        DEF Next, WorkerStep, CheckReload, ReloadStep, EndCheck, Fault, Poll,
            CtrlHandler, Complete, TimePasses, CheckRunning, Dequeue, DropSilently,
            StartCheck, LogQuery, Rearm
    <3> QED
        BY <2>1, <3>1 DEF Joined
  <2> QED
      BY <2>2, <2>3, <2>4
<1>2. CASE Next /\ mpc \in {"prime", "spawn"}
    BY <1>2, StepSpawning
<1>3. CASE UNCHANGED vars
    BY <1>3 DEF vars, workers, Joined, WaitFails
<1> QED
    BY <1>1, <1>2, <1>3

\* Nothing is freed before the workers and the reload thread have ended, unless the
\* wait for the workers failed, for any number of workers and of gravity checks,
\* started at any time (main).
THEOREM JoinedBeforeFreeHolds == Spec => []JoinedBeforeFree
<1> DEFINE J == TypeOK /\ Held /\ Joined
<1>1. Init => J
    BY InitSlots, InitType DEF Init, SlotInv, Joined, Freed, WaitFails
<1>2. J /\ [Next]_vars => J'
  <2>1. Held /\ UNCHANGED vars => Held'
      BY DEF Held, vars, workers
  <2> QED
      BY <2>1, StepType, StepHeld, StepJoined
<1>3. J => JoinedBeforeFree
    BY DEF Joined, JoinedBeforeFree, Freed
<1> QED
    BY <1>1, <1>2, <1>3, PTL DEF Spec

-----------------------------------------------------------------------------
(***************************************************************************)
(* The query log.                                                           *)
(***************************************************************************)
\* The file with the whole buffer behind it, when all of the buffer counts.
LEMMA Flushed ==
    ASSUME NEW f \in Seq(Nat), NEW d \in Seq(Nat), NEW n \in Nat, NEW g, g = f \o d,
           Len(f) + Len(d) = n,
           \A k \in 1 .. Len(f) : f[k] = k,
           \A k \in 1 .. Len(d) : d[k] = Len(f) + k
    PROVE  g \in Seq(Nat) /\ Len(g) = n /\ \A k \in 1 .. n : g[k] = k
<1>1. Len(f) \in Nat /\ Len(d) \in Nat
    OBVIOUS
<1>2. /\ g \in Seq(Nat) /\ Len(g) = Len(f) + Len(d)
      /\ \A k \in 1 .. Len(f) + Len(d) : g[k] = IF k <= Len(f) THEN f[k] ELSE d[k - Len(f)]
    BY ConcatProperties, Zenon
<1>3. ASSUME NEW k \in 1 .. n PROVE g[k] = k
  <2>0. k \in 1 .. Len(f) + Len(d) /\ k \in Nat
      BY <1>1
  <2>1. CASE k <= Len(f)
    <3>1. k \in 1 .. Len(f)
        BY <1>1, <2>0, <2>1
    <3>2. g[k] = f[k]
        BY <1>2, <2>0, <2>1
    <3> QED
        BY <3>1, <3>2
  <2>2. CASE ~(k <= Len(f))
    <3>1. k - Len(f) \in 1 .. Len(d) /\ Len(f) + (k - Len(f)) = k
        BY <1>1, <2>0, <2>2
    <3>2. d[k - Len(f)] = k
        BY <3>1
    <3> QED
        BY <1>2, <2>0, <2>2, <3>2
  <2> QED
      BY <2>1, <2>2
<1> QED
    BY <1>2, <1>3

\* A line logged while the process runs.
LEMMA LogWritten ==
    ASSUME LogInv, NEW w \in Worker, LogQuery(w)
    PROVE  Written'
<1>1. /\ data' \in Seq(Nat) /\ logged' = logged + 1 /\ data'[length'] = logged + 1
      /\ length' = Len(data') /\ length' \in 1 .. LogCapacity
      /\ \/ /\ length < LogCapacity /\ length' = length + 1 /\ UNCHANGED <<file, stale>>
            /\ \A k \in 1 .. length : data'[k] = data[k]
         \/ /\ length = LogCapacity /\ length' = 1 /\ stale' = FALSE
            /\ file' = file \o data
    BY LogEffect DEF LogInv
<1>2. /\ data \in Seq(Nat) /\ file \in Seq(Nat) /\ logged \in Nat /\ length \in Nat
      /\ Len(file) \in Nat /\ Len(data) \in Nat /\ LogCapacity \in Nat \ {0}
    BY ServiceAssumption DEF LogInv, TypeOK
<1>3. LogOpen' = LogOpen
    BY DEF LogQuery, LogOpen
<1>4. ASSUME LogOpen
      PROVE  /\ Len(file') + length' = logged'
             /\ \A k \in 1 .. Len(file') : file'[k] = k
             /\ \A k \in 1 .. length' : data'[k] = Len(file') + k
  <2>1. /\ Len(file) + length = logged
        /\ \A k \in 1 .. Len(file) : file[k] = k
        /\ \A k \in 1 .. length : data[k] = Len(file) + k
      BY <1>4 DEF LogInv, Written
  <2>2. CASE length < LogCapacity /\ length' = length + 1 /\ UNCHANGED <<file, stale>>
             /\ \A k \in 1 .. length : data'[k] = data[k]
    <3>1. \A k \in 1 .. length' : k \in 1 .. length \/ k = length'
        BY <1>2, <2>2
    <3> QED
        BY <1>1, <1>2, <2>1, <2>2, <3>1
  <2>3. CASE length = LogCapacity /\ length' = 1 /\ stale' = FALSE /\ file' = file \o data
    <3>1. length = Len(data)
        BY <1>2, <2>3 DEF LogInv, Written
    <3>2. Len(file) + Len(data) = logged /\ \A k \in 1 .. Len(data) : data[k] = Len(file) + k
        BY <2>1, <3>1
    <3>3. PICK g : g = file \o data
        OBVIOUS
    <3>4. Len(g) = logged /\ \A k \in 1 .. logged : g[k] = k
        BY <1>2, <2>1, <3>2, <3>3, Flushed
    <3>5. Len(file') = logged /\ \A k \in 1 .. logged : file'[k] = k
        BY <2>3, <3>3, <3>4, Zenon
    <3> QED
        BY <1>1, <1>2, <2>3, <3>5
  <2> QED
      BY <1>1, <2>2, <2>3
<1> QED
    BY <1>1, <1>3, <1>4 DEF Written

LEMMA PollWritten ==
    ASSUME LogInv, Poll
    PROVE  Written'
<1>1. CASE UNCHANGED log
    BY <1>1 DEF Poll, log, LogInv, Written, LogOpen
<1>2. CASE length > 0 /\ stale /\ Flush /\ UNCHANGED <<data, logged>>
  <2>1. /\ data \in Seq(Nat) /\ file \in Seq(Nat) /\ logged \in Nat /\ length \in Nat
      BY DEF LogInv, TypeOK
  <2>2. length = Len(data)
      BY <1>2, <2>1 DEF LogInv, Written
  <2>3. file' = file \o data /\ length' = 0 /\ UNCHANGED <<data, logged, mpc>>
      BY <1>2 DEF Flush, Poll
  <2>4. ASSUME LogOpen PROVE Len(file') = logged /\ \A k \in 1 .. logged : file'[k] = k
    <3>1. /\ Len(file) + Len(data) = logged
          /\ \A k \in 1 .. Len(file) : file[k] = k
          /\ \A k \in 1 .. Len(data) : data[k] = Len(file) + k
        BY <2>2, <2>4 DEF LogInv, Written
    <3>2. PICK g : g = file \o data
        OBVIOUS
    <3>3. Len(g) = logged /\ \A k \in 1 .. logged : g[k] = k
        BY <2>1, <3>1, <3>2, Flushed
    <3> QED
        BY <2>3, <3>2, <3>3, Zenon
  <2> QED
      BY <2>1, <2>3, <2>4 DEF LogInv, Written, LogOpen
<1> QED
    BY <1>1, <1>2 DEF Poll

\* The buffer is written once more before the log is closed.
LEMMA CloseLogWritten ==
    ASSUME LogInv, CloseLog
    PROVE  Written' /\ NothingLost'
<1>1. /\ file' = file \o data /\ UNCHANGED <<data, length, logged, wpc>> /\ ~LogOpen'
      /\ LogOpen
    BY DEF CloseLog, workers, LogOpen
<1>2. /\ data \in Seq(Nat) /\ file \in Seq(Nat) /\ logged \in Nat /\ length \in Nat
      /\ Len(file) \in Nat /\ Len(data) \in Nat /\ LogCapacity \in Nat
    BY ServiceAssumption DEF LogInv, TypeOK
<1>3. /\ Len(file) + length = logged
      /\ \A k \in 1 .. Len(file) : file[k] = k
      /\ \A k \in 1 .. length : data[k] = Len(file) + k
      /\ Len(data) \in 1 .. LogCapacity /\ (length = 0 \/ length = Len(data))
    BY <1>1 DEF LogInv, Written
<1>4. /\ Len(file') >= logged' /\ Len(file') - logged' <= LogCapacity
      /\ \A k \in 1 .. logged' : file'[k] = k
  <2>1. CASE length = Len(data)
    <3>1. /\ Len(file) + Len(data) = logged
          /\ \A k \in 1 .. Len(file) : file[k] = k
          /\ \A k \in 1 .. Len(data) : data[k] = Len(file) + k
        BY <1>3, <2>1
    <3>2. PICK g : g = file \o data
        OBVIOUS
    <3>3. Len(g) = logged /\ \A k \in 1 .. logged : g[k] = k
        BY <1>2, <3>1, <3>2, Flushed
    <3>4. file' = file \o data /\ logged' = logged
        BY <1>1
    <3>5. Len(file') = logged' /\ \A k \in 1 .. logged' : file'[k] = k
        BY <3>2, <3>3, <3>4, Zenon
    <3> QED
        BY <1>2, <3>4, <3>5
  <2>2. CASE length = 0
    <3>1. /\ Len(file') = Len(file) + Len(data)
          /\ \A k \in 1 .. Len(file) + Len(data) :
               file'[k] = IF k <= Len(file) THEN file[k] ELSE data[k - Len(file)]
        BY <1>1, <1>2, ConcatProperties
    <3>2. \A k \in 1 .. Len(file) : k \in 1 .. Len(file) + Len(data) /\ k <= Len(file)
        BY <1>2
    <3>3. Len(file) = logged
        BY <1>2, <1>3, <2>2
    <3> QED
        BY <1>1, <1>2, <1>3, <3>1, <3>2, <3>3
  <2> QED
      BY <1>3, <2>1, <2>2
<1> QED
    BY <1>1, <1>3, <1>4 DEF Written, NothingLost

LEMMA StepLog == LogInv /\ Held /\ [Next]_vars => Written' /\ NothingLost'
<1> SUFFICES ASSUME LogInv, Held, [Next]_vars PROVE Written' /\ NothingLost'
    OBVIOUS
<1> DEFINE Same == (LogOpen' => LogOpen) /\ UNCHANGED <<data, length, file, logged>>
<1>1. Joined /\ Joined'
    BY StepJoined DEF LogInv
<1>2. ASSUME Same PROVE Written'
    BY <1>2 DEF LogInv, Written
<1>3. ASSUME Next, mpc = "done", ~WaitFails PROVE Same /\ ~WaitFails'
  <2>1. /\ rpc \in {"exited", "none"} /\ \A w \in Worker : wpc[w] = "exited"
        /\ WaitFails' <=> WaitFails
      BY <1>1, <1>3, ThreadsSettled DEF Joined, Freed, LogInv
  <2> QED
      BY <1>3, <2>1
      DEF Next, WorkerStep, MainStep, CheckReload, ReloadStep, EndCheck, Fault, Poll,
          Prime, SpawnWorker, SpawnReload, LeaveLoop, WakeWorkers, JoinWorkers,
          JoinReload, Destroy, CtrlHandler, Complete, CloseLog, TimePasses, CheckRunning,
          Dequeue, DropSilently, StartCheck, LogQuery, Rearm, log, LogOpen
<1>4. ASSUME Next, mpc' = "done", ~WaitFails', ~CloseLog
      PROVE  mpc = "done" /\ ~WaitFails
  <2>1. mpc = "done"
      BY <1>4
      DEF Next, WorkerStep, MainStep, CheckReload, ReloadStep, EndCheck, Fault, Poll,
          Prime, SpawnWorker, SpawnReload, LeaveLoop, WakeWorkers, JoinWorkers,
          JoinReload, Destroy, CtrlHandler, Complete, TimePasses, CheckRunning, Dequeue,
          DropSilently, StartCheck, LogQuery, Rearm
  <2> QED
      BY <1>1, <1>4, <2>1, ThreadsSettled DEF LogInv
<1>5. ASSUME Next, ~CloseLog PROVE NothingLost'
    BY <1>3, <1>4, <1>5 DEF NothingLost, LogInv
<1>6. ASSUME Next, ~CloseLog PROVE Written'
  <2>1. ASSUME NEW w \in Worker, LogQuery(w) PROVE Written'
      BY <2>1, LogWritten
  <2>2. ASSUME Poll PROVE Written'
      BY <2>2, PollWritten
  <2>3. ASSUME NEW w \in Worker,
               CheckRunning(w) \/ Dequeue(w) \/ DropSilently(w) \/ StartCheck(w) \/ Rearm(w)
        PROVE  Written'
      BY <1>2, <2>3 DEF CheckRunning, Dequeue, DropSilently, StartCheck, Rearm, log, LogOpen
  <2>4. ASSUME CheckReload \/ EndCheck \/ Fault \/ CtrlHandler \/ Complete \/ TimePasses
        PROVE  Written'
      BY <1>2, <2>4 DEF CheckReload, EndCheck, Fault, CtrlHandler, Complete, TimePasses, log, LogOpen
  <2>5. ASSUME MainStep PROVE Written'
      BY <1>2, <1>6, <2>5
      DEF MainStep, Prime, SpawnWorker, SpawnReload, LeaveLoop, WakeWorkers, JoinWorkers,
          JoinReload, Destroy, log, LogOpen
  <2> QED
      BY <1>6, <2>1, <2>2, <2>3, <2>4, <2>5 DEF Next, WorkerStep, ReloadStep
<1>7. CASE UNCHANGED vars
    BY <1>7 DEF vars, log, workers, LogInv, Written, NothingLost, WaitFails, LogOpen
<1> QED
    BY <1>5, <1>6, <1>7, CloseLogWritten

LEMMA InitLog == Init => LogInv
<1> SUFFICES ASSUME Init PROVE LogInv
    OBVIOUS
<1>1. data = <<0>> /\ file = <<>> /\ length = 0 /\ logged = 0 /\ open /\ mpc = "prime"
    BY DEF Init
<1>2. Written /\ NothingLost
    BY <1>1, ServiceAssumption DEF Written, NothingLost, LogOpen
<1>3. Joined
    BY DEF Init, Joined, Freed
<1> QED
    BY <1>2, <1>3, InitSlots DEF LogInv, SlotInv

\* The invariant of the log and the shutdown holds in every state.
THEOREM LogInvariance == Spec => [](LogInv /\ Held)
<1>1. Init => LogInv /\ Held
    BY InitLog, InitSlots DEF SlotInv
<1>2. LogInv /\ Held /\ [Next]_vars => (LogInv /\ Held)'
  <2>1. ASSUME LogInv, Held, [Next]_vars PROVE (LogInv /\ Held)'
    <3>1. TypeOK' /\ Joined' /\ Written' /\ NothingLost'
        BY <2>1, StepType, StepJoined, StepLog DEF LogInv
    <3>2. Held' /\ Primed'
        BY <2>1, StepHeld, StepPrimed DEF LogInv, vars, workers, slots, Held, Primed
    <3> QED
        BY <3>1, <3>2 DEF LogInv
  <2> QED
      BY <2>1
<1> QED
    BY <1>1, <1>2, PTL DEF Spec

\* As long as the log is open, each line logged is once and in order in the file or
\* the buffer; after a shutdown that gets to its end all are in the file in order,
\* and behind them at most the last batch a second time, or what malloc left
\* (append_log, flush_log, flush_log_if_stale, proxy_destroy), for any capacity,
\* any workers and any interleaving of the flushes.
THEOREM LogIsFaithful == Spec => []LogFaithful
<1>1. LogInv => LogFaithful
  <2> SUFFICES ASSUME LogInv, LogOpen
               PROVE  file \o SubSeq(data, 1, length) = [k \in 1 .. logged |-> k]
      BY DEF LogInv, LogFaithful, OnceInOrder, LogOpen
  <2> DEFINE d == SubSeq(data, 1, length)
             s == file \o d
             t == [k \in 1 .. logged |-> k]
  <2>1. /\ data \in Seq(Nat) /\ file \in Seq(Nat) /\ logged \in Nat /\ length \in Nat
        /\ length <= Len(data)
      BY DEF LogInv, TypeOK
  <2>2. /\ d \in Seq(Nat) /\ Len(d) = length
        /\ \A k \in 1 .. length : d[k] = data[k]
    <3>1. \A i \in 1 .. length : data[i] \in Nat
        BY <2>1, ElementOfSeq
    <3> QED
        BY <2>1, <3>1, SubSeqProperties
  <2> HIDE DEF d
  <2>3. /\ Len(file) + Len(d) = logged
        /\ \A k \in 1 .. Len(file) : file[k] = k
        /\ \A k \in 1 .. Len(d) : d[k] = Len(file) + k
      BY <2>2 DEF LogInv, Written
  <2>4. s \in Seq(Nat) /\ Len(s) = logged /\ \A k \in 1 .. logged : s[k] = k
    <3>1. Len(s) = logged /\ s \in Seq(Nat)
        BY <2>1, <2>2, <2>3, ConcatProperties
    <3>2. \A k \in 1 .. logged : s[k] = k
        BY <2>1, <2>2, <2>3, Flushed
    <3> QED
        BY <3>1, <3>2
  <2>5. t \in Seq(Nat) /\ Len(t) = logged /\ \A k \in 1 .. logged : t[k] = k
      BY <2>1
  <2> HIDE DEF s, t
  <2>6. s = t
      BY <2>4, <2>5, SeqEqual
  <2> QED
      BY <2>6 DEF s, t, d
<1> QED
    BY <1>1, LogInvariance, PTL
=============================================================================
