----------------------------- MODULE SyncProofs -----------------------------
\* Proofs about the programs over pthreads, for any numbers of threads: the
\* zemaphore loses no wakeup and its steps are steps of the counting
\* semaphore; master-worker.c hands out every item exactly once and cannot
\* deadlock; both read-write locks exclude, count exactly and lose no wakeup.
EXTENDS Zemaphore, MasterWorker, RWLock, FiniteSetTheorems, TLAPS

-----------------------------------------------------------------------------
\* The zemaphore.

\* The strengthening that is inductive: the mutex has one owner, a thread in
\* the middle of a call has a call to make, and no wakeup is lost.
ZemIInv ==
    /\ ZemTypeOK
    /\ LockOwner
    /\ \A t \in ZemThreads : zpc[t] # "out" => done[t] < Len(Program[t])
    /\ \A t \in ZemThreads : zpc[t] \in {"waits", "woken"} => Pending(t, "down")
    /\ NoLostSignal

\* Awake is a finite set, so its cardinality is a number.
LEMMA AwakeFinite == IsFiniteSet(Awake) /\ Cardinality(Awake) \in Nat
  BY ZemThreadsAssumption, FS_Subset, FS_CardinalityType DEF Awake

\* zem_init establishes the strengthened invariant.
LEMMA ZemInitIInv == ZemInit => ZemIInv
  <1> SUFFICES ASSUME ZemInit PROVE ZemIInv
    OBVIOUS
  <1>1. ZemTypeOK
    BY InitValueAssumption DEF ZemInit, ZemTypeOK
  <1>2. LockOwner
    BY ZemThreadsAssumption DEF ZemInit, LockOwner
  <1>3. Waiters = {}
    BY DEF ZemInit, Waiters
  <1> QED
    BY <1>1, <1>2, <1>3 DEF ZemIInv, ZemInit, NoLostSignal

\* Every action of the model preserves the strengthened invariant.
LEMMA ZemStepIInv == ZemIInv /\ [ZemNext]_zemVars => ZemIInv'
  <1> SUFFICES ASSUME ZemIInv, [ZemNext]_zemVars PROVE ZemIInv'
    OBVIOUS
  <1> USE DEF ZemIInv, ZemTypeOK, LockOwner
  <1> DEFINE N == Cardinality(Awake)
  <1>f. IsFiniteSet(Awake) /\ N \in Nat
    BY AwakeFinite
  <1>l. \A t \in ZemThreads : Len(Program[t]) \in Nat
    BY ProgramAssumption
  <1>1. ASSUME NEW t \in ZemThreads, Acquire(t) PROVE ZemIInv'
    <2>1. Waiters' = Waiters /\ Awake \subseteq Awake'
      BY <1>1 DEF Acquire, Waiters, Awake, Pending
    <2>2. IsFiniteSet(Awake')
      BY ZemThreadsAssumption, FS_Subset DEF Awake
    <2>3. N <= Cardinality(Awake') /\ Cardinality(Awake') \in Nat
      BY <2>1, <2>2, FS_Subset, FS_CardinalityType
    <2>4. NoLostSignal'
      BY <1>f, <1>1, <2>1, <2>3 DEF Acquire, NoLostSignal
    <2> QED
      BY <1>1, <2>4, ZemThreadsAssumption DEF Acquire, Pending
  <1>2. ASSUME NEW t \in ZemThreads, DownTake(t) PROVE ZemIInv'
    <2>1. Waiters' = Waiters
      BY <1>2 DEF DownTake, Return, Waiters
    <2>2. t \in Awake /\ Awake' = Awake \ {t}
      BY <1>2 DEF DownTake, Return, Awake, Pending
    <2>3. Cardinality(Awake') = N - 1
      BY <1>f, <2>2, FS_RemoveElement
    <2>4. NoLostSignal'
      BY <1>f, <1>2, <2>1, <2>3 DEF DownTake, NoLostSignal
    <2> QED
      BY <1>2, <2>4, <1>l, ZemThreadsAssumption DEF DownTake, Return, Pending
  <1>3. ASSUME NEW t \in ZemThreads, DownWait(t) PROVE ZemIInv'
    <2>1. IsFiniteSet(Awake') /\ Cardinality(Awake') \in Nat
      BY ZemThreadsAssumption, FS_Subset, FS_CardinalityType DEF Awake
    <2>2. NoLostSignal'
      BY <1>3, <2>1 DEF DownWait, NoLostSignal
    <2> QED
      BY <1>3, <2>2, ZemThreadsAssumption DEF DownWait, Pending
  <1>4. ASSUME NEW t \in ZemThreads, Up(t) PROVE ZemIInv'
    <2>1. CASE Waiters = {} /\ zpc' = [zpc EXCEPT ![t] = "out"]
      <3>1. Waiters' = {}
        BY <1>4, <2>1 DEF Waiters
      <3> QED
        BY <1>4, <2>1, <3>1, <1>l, ZemThreadsAssumption
        DEF Up, Return, Pending, NoLostSignal
    <2>2. ASSUME NEW w \in Waiters, zpc' = [zpc EXCEPT ![t] = "out", ![w] = "woken"]
          PROVE  ZemIInv'
      <3>1. w \in ZemThreads /\ zpc[w] = "waits" /\ w # t
        BY <1>4, <2>2 DEF Waiters, Up
      <3>2. w \notin Awake /\ Awake' = Awake \cup {w}
        BY <1>4, <2>2, <3>1 DEF Awake, Up, Return, Pending
      <3>3. Cardinality(Awake') = N + 1
        BY <1>f, <3>2, FS_AddElement
      <3>4. NoLostSignal'
        BY <1>f, <1>4, <2>2, <3>3 DEF Up, NoLostSignal
      <3>5. \A u \in ZemThreads : zpc'[u] = IF u = w THEN "woken"
                                        ELSE IF u = t THEN "out" ELSE zpc[u]
        BY <2>2, <3>1
      <3>6. ZemTypeOK'
        BY <1>4, <2>2, <3>1 DEF Up, Return
      <3>7. LockOwner'
        BY <1>4, <3>1, <3>5, ZemThreadsAssumption DEF Up, Return
      <3>8. \A u \in ZemThreads : u # t => done'[u] = done[u]
        BY <1>4 DEF Up, Return
      <3>9. \A u \in ZemThreads : zpc'[u] # "out" => u # t /\ zpc[u] # "out"
        BY <3>1, <3>5
      <3>10. \A u \in ZemThreads : zpc'[u] # "out" => done'[u] < Len(Program[u])
        BY <3>8, <3>9
      <3>11. \A u \in ZemThreads : zpc'[u] \in {"waits", "woken"} =>
                u # t /\ zpc[u] \in {"waits", "woken"}
        BY <3>1, <3>5
      <3>12. \A u \in ZemThreads : zpc'[u] \in {"waits", "woken"} => Pending(u, "down")'
        BY <3>8, <3>11 DEF Pending
      <3> QED
        BY <3>4, <3>6, <3>7, <3>10, <3>12
    <2> QED
      BY <1>4, <2>1, <2>2 DEF Up
  <1>5. ASSUME NEW t \in ZemThreads, ZemSpuriousWakeup(t) PROVE ZemIInv'
    <2>1. Waiters' \subseteq Waiters /\ Awake \subseteq Awake'
      BY <1>5 DEF ZemSpuriousWakeup, Waiters, Awake, Pending
    <2>2. IsFiniteSet(Awake')
      BY ZemThreadsAssumption, FS_Subset DEF Awake
    <2>3. N <= Cardinality(Awake') /\ Cardinality(Awake') \in Nat
      BY <2>1, <2>2, FS_Subset, FS_CardinalityType
    <2>4. NoLostSignal'
      BY <1>f, <1>5, <2>1, <2>3 DEF ZemSpuriousWakeup, NoLostSignal
    <2> QED
      BY <1>5, <2>4 DEF ZemSpuriousWakeup, Pending
  <1>6. CASE UNCHANGED zemVars
    BY <1>6 DEF zemVars, Pending, NoLostSignal, Waiters, Awake
  <1> QED
    BY <1>1, <1>2, <1>3, <1>4, <1>5, <1>6 DEF ZemNext, Body

\* The state of a zemaphore keeps its type, for any threads and programs; in
\* particular zem_down never drives value below zero.
THEOREM ZemTypeCorrect == ZemSpec => []ZemTypeOK
  <1>1. ZemIInv => ZemTypeOK
    BY DEF ZemIInv
  <1> QED
    BY <1>1, ZemInitIInv, ZemStepIInv, PTL DEF ZemSpec

\* No zem_up is wasted while a thread is blocked in zem_down: each unit of the
\* counter has a thread on its way to it.
THEOREM WakeupSafety == ZemSpec => []NoLostSignal
  <1>1. ZemIInv => NoLostSignal
    BY DEF ZemIInv
  <1> QED
    BY <1>1, ZemInitIInv, ZemStepIInv, PTL DEF ZemSpec

\* Every step of the code is a step of the counting semaphore or leaves it
\* unchanged: the safety half of ImplementsSemaphore.
THEOREM RefinesSemaphore == ZemSpec => Sem!AInit /\ [][Sem!ANext]_(Sem!avars)
  <1>1. ZemInit => Sem!AInit
    BY DEF ZemInit, Sem!AInit
  <1>2. ZemIInv /\ [ZemNext]_zemVars => [Sem!ANext]_(Sem!avars)
    BY DEF ZemNext, zemVars, Body, Acquire, DownTake, DownWait, Up, ZemSpuriousWakeup,
           Return, Pending, Sem!ANext, Sem!avars, Sem!Down, Sem!Up, Sem!Pending
  <1> QED
    BY <1>1, <1>2, ZemInitIInv, ZemStepIInv, PTL DEF ZemSpec

-----------------------------------------------------------------------------
\* Masters and workers.

\* The inductive invariant: the counters balance, what the buffer and the
\* consumed counts say about each item agrees, and threads that have returned
\* or are blocked had their reason.
MWIInv ==
    /\ TypeOK
    /\ item_to_produce = item_to_consume + curr_buf_size
    /\ \A k \in 0 .. curr_buf_size - 1 : buffer[k] \in 0 .. item_to_produce - 1
    /\ ExactlyOnce
    /\ WaitersJustified
    /\ \A m \in Masters : pc[m] = "done" => item_to_produce = total_items
    /\ \A w \in Workers : pc[w] = "done" => item_to_consume = total_items

\* main establishes the invariant.
LEMMA MWInitIInv == Init => MWIInv
  BY SizeAssumption
  DEF Init, MWIInv, TypeOK, ExactlyOnce, InBuffer, WaitersJustified, Threads, Items

\* Every step of every thread preserves the invariant.
LEMMA MWStepIInv == MWIInv /\ [Next]_vars => MWIInv'
  <1> SUFFICES ASSUME MWIInv, [Next]_vars PROVE MWIInv'
    OBVIOUS
  <1> USE SizeAssumption DEF MWIInv, TypeOK
  <1>1. ASSUME NEW t \in Threads, NEW where \in {"lock", "wait", "done"},
               Goto(t, where),
               UNCHANGED <<item_to_produce, item_to_consume, curr_buf_size,
                           buffer, consumed>>,
               where = "wait" /\ t \in Masters =>
                   curr_buf_size = max_buf_size /\ item_to_produce < total_items,
               where = "wait" /\ t \in Workers =>
                   curr_buf_size = 0 /\ item_to_produce < total_items,
               where = "done" /\ t \in Masters => item_to_produce = total_items,
               where = "done" /\ t \in Workers => item_to_consume = total_items
        PROVE  MWIInv'
    <2>1. ExactlyOnce'
      BY <1>1 DEF ExactlyOnce, InBuffer
    <2>2. TypeOK'
      BY <1>1 DEF Goto
    <2>3. WaitersJustified'
      BY <1>1 DEF Goto, WaitersJustified, Threads
    <2> QED
      BY <1>1, <2>1, <2>2, <2>3 DEF Goto, Threads
  <1>2. ASSUME NEW m \in Masters, Produce(m) PROVE MWIInv'
    <2> USE <1>2 DEF Produce, MayProduce
    <2>1. item_to_produce < total_items /\ curr_buf_size < max_buf_size
      OBVIOUS
    <2>2. TypeOK'
      <3>1. buffer' \in [0 .. max_buf_size - 1 -> Items \cup {-1}]
        BY <2>1 DEF Items
      <3> QED
        BY <2>1, <3>1 DEF Broadcast
    <2>3. \A k \in 0 .. curr_buf_size' - 1 :
             buffer'[k] = IF k = curr_buf_size THEN item_to_produce ELSE buffer[k]
      BY <2>1
    <2>4. \A i \in Items : InBuffer(i)' <=> InBuffer(i) \/ i = item_to_produce
      BY <2>1, <2>3 DEF InBuffer, Items
    <2>5. ExactlyOnce'
      <3>1. item_to_produce \in Items /\ ~InBuffer(item_to_produce)
        BY <2>1 DEF InBuffer, Items
      <3>2. \A i \in Items :
              consumed[i] = IF i < item_to_produce /\ ~InBuffer(i) THEN 1 ELSE 0
        BY DEF ExactlyOnce
      <3>3. \A i \in Items : i \in Int
        BY DEF Items
      <3>4. \A i \in Items :
              consumed'[i] = IF i < item_to_produce' /\ ~InBuffer(i)' THEN 1 ELSE 0
        BY <2>1, <2>4, <3>1, <3>2, <3>3
      <3>5. \A j, k \in 0 .. curr_buf_size' - 1 : buffer'[j] = buffer'[k] => j = k
        BY <2>1, <2>3 DEF ExactlyOnce
      <3> QED
        BY <3>4, <3>5 DEF ExactlyOnce
    <2>6. \A t \in Threads :
             pc'[t] = "wait" => t \notin Workers /\ t # m /\ pc[t] = "wait"
      BY DEF Broadcast
    <2>7. WaitersJustified'
      BY <2>1, <2>6 DEF WaitersJustified, Threads
    <2> QED
      BY <2>1, <2>2, <2>3, <2>5, <2>7 DEF Broadcast, Threads
  <1>3. ASSUME NEW w \in Workers, Consume(w) PROVE MWIInv'
    <2> USE <1>3 DEF Consume, MayConsume, Top
    <2>1. item_to_consume < total_items /\ curr_buf_size > 0
      OBVIOUS
    <2> DEFINE x == buffer[curr_buf_size - 1]
    <2>2. x \in Items /\ x < item_to_produce /\ InBuffer(x)
      <3>1. curr_buf_size - 1 \in 0 .. curr_buf_size - 1
        BY <2>1
      <3>2. x \in 0 .. item_to_produce - 1 /\ item_to_produce \in 0 .. total_items
        BY <3>1
      <3>3. InBuffer(x)
        BY <3>1 DEF InBuffer
      <3> QED
        BY ONLY <3>2, <3>3, SizeAssumption DEF Items
    <2>3. TypeOK'
      <3>1. consumed' \in [Items -> Nat]
        BY <2>2
      <3> QED
        BY <2>1, <3>1 DEF Broadcast
    <2>4. \A i \in Items : InBuffer(i)' <=> InBuffer(i) /\ i # x
      <3> SUFFICES ASSUME NEW i \in Items
                   PROVE  InBuffer(i)' <=> InBuffer(i) /\ i # x
        OBVIOUS
      <3>1. ASSUME NEW k \in 0 .. curr_buf_size - 2, buffer[k] = i
            PROVE  InBuffer(i) /\ i # x
        BY <2>1, <3>1 DEF InBuffer, ExactlyOnce
      <3>2. ASSUME NEW k \in 0 .. curr_buf_size - 1, buffer[k] = i, i # x
            PROVE  k \in 0 .. curr_buf_size - 2
        BY <2>1, <3>2
      <3>3. InBuffer(i)' <=> \E k \in 0 .. curr_buf_size - 2 : buffer[k] = i
        BY <2>1 DEF InBuffer
      <3> QED
        BY <3>1, <3>2, <3>3 DEF InBuffer
    <2>5. ExactlyOnce'
      <3>1. \A i \in Items : consumed'[i] = IF i = x THEN consumed[i] + 1 ELSE consumed[i]
        BY <2>2
      <3>2. \A i \in Items :
              consumed[i] = IF i < item_to_produce /\ ~InBuffer(i) THEN 1 ELSE 0
        BY DEF ExactlyOnce
      <3>3. item_to_produce' = item_to_produce
        OBVIOUS
      <3>4. \A i \in Items :
              consumed'[i] = IF i < item_to_produce' /\ ~InBuffer(i)' THEN 1 ELSE 0
        <4> HIDE <1>3 DEF MWIInv, TypeOK, x
        <4> QED
          BY <2>2, <2>4, <3>1, <3>2, <3>3
      <3>5. \A j, k \in 0 .. curr_buf_size' - 1 : buffer'[j] = buffer'[k] => j = k
        BY <2>1 DEF ExactlyOnce
      <3> QED
        BY <3>4, <3>5 DEF ExactlyOnce
    <2>6. \A t \in Threads :
             pc'[t] = "wait" => t \notin Masters /\ t # w /\ pc[t] = "wait"
      BY DEF Broadcast
    <2>7. WaitersJustified'
      BY <2>1, <2>6 DEF WaitersJustified, Threads
    <2>8. \A k \in 0 .. curr_buf_size' - 1 : buffer'[k] \in 0 .. item_to_produce' - 1
      BY <2>1
    <2>9. \A t \in Threads : pc'[t] = "done" => pc[t] = "done" /\ t # w
      BY DEF Broadcast
    <2> QED
      BY <2>1, <2>3, <2>5, <2>7, <2>8, <2>9 DEF Threads
  <1>4. ASSUME NEW m \in Masters, generate_requests_loop(m) PROVE MWIInv'
    <2>1. m \in Threads /\ m \notin Workers
      BY ThreadsAssumption DEF Threads
    <2>2. CASE LoopTest(m, item_to_produce)
      BY <1>1, <2>1, <2>2 DEF LoopTest
    <2>3. CASE MasterWait(m)
      BY <1>1, <2>1, <2>3 DEF MasterWait
    <2>4. CASE MasterStop(m)
      BY <1>1, <2>1, <2>4 DEF MasterStop
    <2> QED
      BY <1>2, <1>4, <2>2, <2>3, <2>4 DEF generate_requests_loop
  <1>5. ASSUME NEW w \in Workers, consume_requests_loop(w) PROVE MWIInv'
    <2>1. w \in Threads /\ w \notin Masters
      BY ThreadsAssumption DEF Threads
    <2>2. CASE LoopTest(w, item_to_consume)
      BY <1>1, <2>1, <2>2 DEF LoopTest
    <2>3. CASE WorkerWait(w)
      BY <1>1, <2>1, <2>3 DEF WorkerWait
    <2>4. CASE WorkerStop(w)
      BY <1>1, <2>1, <2>4 DEF WorkerStop
    <2> QED
      BY <1>3, <1>5, <2>2, <2>3, <2>4 DEF consume_requests_loop
  <1>6. ASSUME NEW t \in Threads, SpuriousWakeup(t) PROVE MWIInv'
    BY <1>1, <1>6 DEF SpuriousWakeup
  <1>7. CASE UNCHANGED vars
    BY <1>7 DEF vars, ExactlyOnce, InBuffer, WaitersJustified
  <1> QED
    BY <1>4, <1>5, <1>6, <1>7 DEF Next

\* Buffer and counters stay within their bounds: no slot past max_buf_size is
\* written and no counter passes total_items.
THEOREM MWTypeCorrect == Spec => []TypeOK
  <1>1. MWIInv => TypeOK
    BY DEF MWIInv
  <1> QED
    BY <1>1, MWInitIInv, MWStepIInv, PTL DEF Spec

\* Every item is consumed at most once and none is lost on the way.
THEOREM ExactlyOnceSafety == Spec => []ExactlyOnce
  <1>1. MWIInv => ExactlyOnce
    BY DEF MWIInv
  <1> QED
    BY <1>1, MWInitIInv, MWStepIInv, PTL DEF Spec

\* Whenever a thread has not returned, some thread can run: a master is blocked
\* only on a full buffer, which some worker can empty, and a worker only on an
\* empty one, which some master can fill.
THEOREM DeadlockFreedom == Spec => []SomeoneRuns
  <1>1. MWIInv => SomeoneRuns
    <2> SUFFICES ASSUME MWIInv, \A t \in Threads : pc[t] \in {"wait", "done"}
                 PROVE  AllJoined
      BY DEF SomeoneRuns, MWIInv, TypeOK
    <2> USE SizeAssumption DEF MWIInv, TypeOK, WaitersJustified, Threads
    <2>1. PICK m \in Masters, w \in Workers : TRUE
      BY ThreadsAssumption
    <2>2. \A n \in Masters : pc[n] # "wait"
      BY <2>1
    <2>3. \A v \in Workers : pc[v] # "wait"
      BY <2>1, <2>2
    <2> QED
      BY <2>2, <2>3 DEF AllJoined
  <1> QED
    BY <1>1, MWInitIInv, MWStepIInv, PTL DEF Spec

-----------------------------------------------------------------------------
\* The read-write locks.

RP == INSTANCE RWLockReaderPref
WP == INSTANCE RWLockWriterPref

Waiting == {"waits", "woken"}

\* What both locks keep: exact counters, and a writer counted alone.
Base ==
    /\ LockTypeOK
    /\ CountersAgree
    /\ writers = 0 \/ (writers = 1 /\ readers = 0)

-----------------------------------------------------------------------------
\* The sets the counters count are finite.
LEMMA AtFinite ==
  ASSUME NEW kind \in {Readers, Writers, LockThreads}, NEW where
  PROVE  IsFiniteSet(At(kind, where)) /\ Cardinality(At(kind, where)) \in Nat
  <1>1. IsFiniteSet(kind)
    <2>1. IsFiniteSet(Readers) /\ IsFiniteSet(Writers)
      BY RWThreadsAssumption
    <2>2. IsFiniteSet(Readers \cup Writers)
      BY <2>1, FS_Union, Zenon
    <2> QED
      BY <2>1, <2>2 DEF LockThreads
  <1>2. At(kind, where) \subseteq kind
    BY DEF At
  <1> QED
    BY <1>1, <1>2, FS_Subset, FS_CardinalityType

Chi(b) == IF b THEN 1 ELSE 0

\* A step that moves only thread t between the classes inside and outside
\* where changes the count by what t does.
LEMMA CountStep ==
  ASSUME NEW kind \in {Readers, Writers}, NEW where, NEW t,
         \A u \in kind \ {t} : rwpc[u] \in where <=> rwpc'[u] \in where
  PROVE  /\ t \in kind =>
              Cardinality(At(kind, where))' =
                 Cardinality(At(kind, where)) + Chi(rwpc'[t] \in where) - Chi(rwpc[t] \in where)
         /\ t \notin kind =>
              Cardinality(At(kind, where))' = Cardinality(At(kind, where))
  <1>1. IsFiniteSet(At(kind, where)) /\ Cardinality(At(kind, where)) \in Nat
    BY AtFinite
  <1>2. CASE t \in kind /\ rwpc[t] \notin where /\ rwpc'[t] \in where
    <2>1. t \notin At(kind, where) /\ At(kind, where)' = At(kind, where) \cup {t}
      BY <1>2 DEF At
    <2>2. Cardinality(At(kind, where) \cup {t}) = Cardinality(At(kind, where)) + 1
      BY <1>1, <2>1, FS_AddElement
    <2> QED
      BY <1>1, <1>2, <2>1, <2>2 DEF Chi
  <1>3. CASE t \in kind /\ rwpc[t] \in where /\ rwpc'[t] \notin where
    <2>1. t \in At(kind, where) /\ At(kind, where)' = At(kind, where) \ {t}
      BY <1>3 DEF At
    <2> QED
      <3>1. Cardinality(At(kind, where) \ {t}) = Cardinality(At(kind, where)) - 1
        BY <1>1, <2>1, FS_RemoveElement
      <3> QED
        BY <1>1, <1>3, <2>1, <3>1 DEF Chi
  <1>4. CASE t \in kind => (rwpc[t] \in where <=> rwpc'[t] \in where)
    <2>1. At(kind, where)' = At(kind, where)
      BY <1>4 DEF At
    <2> QED
      BY <1>1, <1>4, <2>1 DEF Chi
  <1> QED
    BY <1>2, <1>3, <1>4

\* A count is positive exactly when some thread is there.
LEMMA CountPositive ==
  ASSUME NEW kind \in {Readers, Writers}, NEW where
  PROVE  Cardinality(At(kind, where)) > 0 <=> \E t \in kind : rwpc[t] \in where
  <1>1. Cardinality(At(kind, where)) = 0 <=> At(kind, where) = {}
    BY AtFinite, FS_EmptySet
  <1> QED
    BY <1>1, AtFinite DEF At

\* How the four counts move when t is the only thread that enters or leaves
\* the lock or the waiting loops (a waiting thread may be woken by the step).
OnlyMoves(t) ==
    \A u \in LockThreads \ {t} :
        rwpc'[u] = rwpc[u] \/ (rwpc[u] = "waits" /\ rwpc'[u] = "woken")

\* The counters agree after such a step if they moved as the reader did.
LEMMA ReaderMoves ==
  ASSUME LockTypeOK, LockTypeOK', NEW t \in Readers, OnlyMoves(t), CountersAgree,
         readers' = readers + Chi(rwpc'[t] = "holds") - Chi(rwpc[t] = "holds"),
         waiting_readers' = waiting_readers + Chi(rwpc'[t] \in Waiting) - Chi(rwpc[t] \in Waiting),
         UNCHANGED <<writers, waiting_writers>>
  PROVE  CountersAgree'
  <1>1. /\ \A u \in LockThreads \ {t} : rwpc[u] \in {"holds"} <=> rwpc'[u] \in {"holds"}
        /\ \A u \in LockThreads \ {t} : rwpc[u] \in Waiting <=> rwpc'[u] \in Waiting
    BY DEF OnlyMoves, Waiting, LockTypeOK
  <1>2. t \notin Writers /\ Writers \subseteq LockThreads /\ Readers \subseteq LockThreads
    BY RWThreadsAssumption DEF LockThreads
  <1>3. Cardinality(At(Writers, {"holds"}))' = Cardinality(At(Writers, {"holds"}))
    BY <1>1, <1>2, CountStep
  <1>4. Cardinality(At(Writers, Waiting))' = Cardinality(At(Writers, Waiting))
    BY <1>1, <1>2, CountStep
  <1>5. Cardinality(At(Readers, {"holds"}))' = readers'
    BY <1>1, <1>2, CountStep DEF CountersAgree, Chi
  <1>6. Cardinality(At(Readers, Waiting))' = waiting_readers'
    BY <1>1, <1>2, CountStep DEF CountersAgree, Chi, Waiting
  <1> QED
    BY <1>3, <1>4, <1>5, <1>6 DEF CountersAgree, Waiting

\* The counters agree after such a step if they moved as the writer did.
LEMMA WriterMoves ==
  ASSUME LockTypeOK, LockTypeOK', NEW t \in Writers, OnlyMoves(t), CountersAgree,
         writers' = writers + Chi(rwpc'[t] = "holds") - Chi(rwpc[t] = "holds"),
         waiting_writers' = waiting_writers + Chi(rwpc'[t] \in Waiting) - Chi(rwpc[t] \in Waiting),
         UNCHANGED <<readers, waiting_readers>>
  PROVE  CountersAgree'
  <1>1. /\ \A u \in LockThreads \ {t} : rwpc[u] \in {"holds"} <=> rwpc'[u] \in {"holds"}
        /\ \A u \in LockThreads \ {t} : rwpc[u] \in Waiting <=> rwpc'[u] \in Waiting
    BY DEF OnlyMoves, Waiting, LockTypeOK
  <1>2. t \notin Readers /\ Writers \subseteq LockThreads /\ Readers \subseteq LockThreads
    BY RWThreadsAssumption DEF LockThreads
  <1>3. Cardinality(At(Readers, {"holds"}))' = Cardinality(At(Readers, {"holds"}))
    BY <1>1, <1>2, CountStep
  <1>4. Cardinality(At(Readers, Waiting))' = Cardinality(At(Readers, Waiting))
    BY <1>1, <1>2, CountStep
  <1>5. Cardinality(At(Writers, {"holds"}))' = writers'
    BY <1>1, <1>2, CountStep DEF CountersAgree, Chi
  <1>6. Cardinality(At(Writers, Waiting))' = waiting_writers'
    BY <1>1, <1>2, CountStep DEF CountersAgree, Chi, Waiting
  <1> QED
    BY <1>3, <1>4, <1>5, <1>6 DEF CountersAgree, Waiting

-----------------------------------------------------------------------------
\* ReaderLock keeps the counters, provided it lets the reader past the waiting
\* loop only while no writer holds the lock.
LEMMA ReaderLockBase ==
  ASSUME Base, NEW t \in Readers,
         ReaderWaits(t) \/ (writers = 0 /\ ReaderEnters(t))
  PROVE  Base' /\ OnlyMoves(t)
  <1> USE DEF Base
  <1>1. t \in LockThreads
    BY DEF LockThreads
  <1>2. OnlyMoves(t)
    BY <1>1 DEF ReaderWaits, ReaderEnters, OnlyMoves, LockTypeOK
  <1>3. rwpc[t] = "woken" => waiting_readers > 0
    BY CountPositive DEF CountersAgree
  <1>4. LockTypeOK'
    BY <1>1, <1>3 DEF ReaderWaits, ReaderEnters, Rejoined, LockTypeOK
  <1>5. CountersAgree'
    BY <1>1, <1>2, <1>4, ReaderMoves DEF ReaderWaits, ReaderEnters, Rejoined, LockTypeOK, Chi, Waiting
  <1> QED
    BY <1>2, <1>4, <1>5 DEF ReaderWaits, ReaderEnters, LockTypeOK

\* WriterLock keeps the counters, provided it lets the writer past the waiting
\* loop only while nobody holds the lock.
LEMMA WriterLockBase ==
  ASSUME Base, NEW t \in Writers,
         WriterWaits(t) \/ (writers = 0 /\ readers = 0 /\ WriterEnters(t))
  PROVE  Base' /\ OnlyMoves(t)
  <1> USE DEF Base
  <1>1. t \in LockThreads
    BY DEF LockThreads
  <1>2. OnlyMoves(t)
    BY <1>1 DEF WriterWaits, WriterEnters, OnlyMoves, LockTypeOK
  <1>3. rwpc[t] = "woken" => waiting_writers > 0
    BY CountPositive DEF CountersAgree
  <1>4. LockTypeOK'
    BY <1>1, <1>3 DEF WriterWaits, WriterEnters, Rejoined, LockTypeOK
  <1>5. CountersAgree'
    BY <1>1, <1>2, <1>4, WriterMoves DEF WriterWaits, WriterEnters, Rejoined, LockTypeOK, Chi, Waiting
  <1> QED
    BY <1>2, <1>4, <1>5 DEF WriterWaits, WriterEnters, LockTypeOK

\* An unlock by a reader, whomever it wakes, keeps the counters.
LEMMA ReaderUnlockBase ==
  ASSUME Base, NEW t \in Readers, rwpc[t] = "holds", readers' = readers - 1,
         Leave(t) \/ LeaveSignalWrite(t) \/ LeaveBroadcastRead(t),
         UNCHANGED <<writers, waiting_readers, waiting_writers>>
  PROVE  Base' /\ OnlyMoves(t) /\ rwpc'[t] = "done"
  <1> USE DEF Base
  <1>1. t \in LockThreads
    BY DEF LockThreads
  <1>2. /\ OnlyMoves(t) /\ rwpc'[t] = "done"
        /\ rwpc' \in [LockThreads -> {"out", "waits", "woken", "holds", "done"}]
    BY <1>1 DEF Leave, LeaveSignalWrite, LeaveBroadcastRead, OnlyMoves, At, LockTypeOK, LockThreads
  <1>3. readers > 0
    BY CountPositive DEF CountersAgree
  <1>4. LockTypeOK'
    BY <1>2, <1>3 DEF LockTypeOK
  <1>5. CountersAgree'
    BY <1>2, <1>4, ReaderMoves DEF LockTypeOK, Chi, Waiting
  <1> QED
    BY <1>2, <1>3, <1>4, <1>5 DEF LockTypeOK

\* An unlock by a writer, whomever it wakes, keeps the counters.
LEMMA WriterUnlockBase ==
  ASSUME Base, NEW t \in Writers, rwpc[t] = "holds", writers' = writers - 1,
         Leave(t) \/ LeaveSignalWrite(t) \/ LeaveBroadcastRead(t),
         UNCHANGED <<readers, waiting_readers, waiting_writers>>
  PROVE  Base' /\ OnlyMoves(t) /\ rwpc'[t] = "done"
  <1> USE DEF Base
  <1>1. t \in LockThreads
    BY DEF LockThreads
  <1>2. /\ OnlyMoves(t) /\ rwpc'[t] = "done"
        /\ rwpc' \in [LockThreads -> {"out", "waits", "woken", "holds", "done"}]
    BY <1>1 DEF Leave, LeaveSignalWrite, LeaveBroadcastRead, OnlyMoves, At, LockTypeOK, LockThreads
  <1>3. writers > 0
    BY CountPositive DEF CountersAgree
  <1>4. LockTypeOK'
    BY <1>2, <1>3 DEF LockTypeOK
  <1>5. CountersAgree'
    BY <1>2, <1>4, WriterMoves DEF LockTypeOK, Chi, Waiting
  <1> QED
    BY <1>2, <1>3, <1>4, <1>5 DEF LockTypeOK

\* A spurious wakeup changes no count.
LEMMA SpuriousBase ==
  ASSUME Base, NEW t \in LockThreads, SpuriousReturn(t)
  PROVE  Base' /\ OnlyMoves(t)
  <1> USE DEF Base
  <1>1. OnlyMoves(t) /\ LockTypeOK' /\ rwpc'[t] = "woken"
    BY DEF SpuriousReturn, OnlyMoves, LockTypeOK
  <1>2. CountersAgree'
    BY <1>1, ReaderMoves, WriterMoves DEF SpuriousReturn, LockTypeOK, Chi, Waiting, LockThreads
  <1> QED
    BY <1>1, <1>2 DEF SpuriousReturn

\* The initial counters count nothing.
LEMMA InitBase == InitalizeReadWriteLock => Base
  <1> SUFFICES ASSUME InitalizeReadWriteLock PROVE Base
    OBVIOUS
  <1>1. \A kind \in {Readers, Writers} : At(kind, {"holds"}) = {} /\ At(kind, Waiting) = {}
    BY DEF InitalizeReadWriteLock, At, Waiting, LockThreads
  <1> QED
    BY <1>1, FS_EmptySet DEF InitalizeReadWriteLock, Base, LockTypeOK, CountersAgree, Waiting

\* Exact counters give mutual exclusion.
LEMMA BaseExclusion == Base => MutualExclusion
  <1> SUFFICES ASSUME Base, NEW w \in At(Writers, {"holds"}), NEW t \in At(LockThreads, {"holds"})
               PROVE  t = w
    BY DEF MutualExclusion
  <1>h. /\ w \in Writers /\ rwpc[w] \in {"holds"}
        /\ t \in LockThreads /\ rwpc[t] \in {"holds"}
    BY DEF At
  <1>1. writers = 1 /\ readers = 0
    BY <1>h, CountPositive DEF Base, CountersAgree
  <1>2. t \in Writers
    <2>1. ~(\E r \in Readers : rwpc[r] \in {"holds"})
      <3>1. ~(Cardinality(At(Readers, {"holds"})) > 0)
        BY <1>1 DEF Base, CountersAgree
      <3> QED
        BY <3>1, CountPositive
    <2> QED
      BY <1>h, <2>1 DEF LockThreads
  <1>3. PICK x : At(Writers, {"holds"}) = {x}
    <2> DEFINE S == At(Writers, {"holds"})
    <2>1. IsFiniteSet(S) /\ Cardinality(S) = 1
      BY <1>1, AtFinite DEF Base, CountersAgree
    <2> HIDE DEF S
    <2>2. \E x : S = {x}
      BY <2>1, FS_Singleton
    <2> QED
      BY <2>2 DEF S
  <1> QED
    BY <1>2, <1>3 DEF At

-----------------------------------------------------------------------------
\* Counters that are zero mean that nobody holds the lock.
LEMMA FreeCounters ==
  ASSUME Base, At(LockThreads, {"holds"}) = {}
  PROVE  readers = 0 /\ writers = 0
  <1>1. ~(\E t \in Readers : rwpc[t] \in {"holds"}) /\ ~(\E t \in Writers : rwpc[t] \in {"holds"})
    BY DEF At, LockThreads
  <1> QED
    BY <1>1, CountPositive DEF Base, CountersAgree, LockTypeOK

\* Counters of waiting threads and the threads they count.
LEMMA WaitingCounters ==
  ASSUME Base
  PROVE  /\ waiting_readers > 0 <=> \E t \in Readers : rwpc[t] \in Waiting
         /\ waiting_writers > 0 <=> \E t \in Writers : rwpc[t] \in Waiting
  BY CountPositive DEF Base, CountersAgree, Waiting

\* The operations of RWLock are the same seen through the reader-preference lock.
LEMMA RPSame ==
  /\ \A t : RP!ReaderWaits(t) <=> ReaderWaits(t)
  /\ \A t : RP!ReaderEnters(t) <=> ReaderEnters(t)
  /\ \A t : RP!WriterWaits(t) <=> WriterWaits(t)
  /\ \A t : RP!WriterEnters(t) <=> WriterEnters(t)
  /\ \A t : RP!Leave(t) <=> Leave(t)
  /\ \A t : RP!LeaveSignalWrite(t) <=> LeaveSignalWrite(t)
  /\ \A t : RP!LeaveBroadcastRead(t) <=> LeaveBroadcastRead(t)
  /\ \A t : RP!SpuriousReturn(t) <=> SpuriousReturn(t)
  /\ RP!InitalizeReadWriteLock <=> InitalizeReadWriteLock
  /\ RP!rwVars = rwVars
  <1> USE DEF RP!ReaderWaits, ReaderWaits
  <1> USE DEF RP!ReaderEnters, ReaderEnters
  <1> USE DEF RP!WriterWaits, WriterWaits
  <1> USE DEF RP!WriterEnters, WriterEnters
  <1> USE DEF RP!Leave, Leave
  <1> USE DEF RP!LeaveSignalWrite, LeaveSignalWrite
  <1> USE DEF RP!LeaveBroadcastRead, LeaveBroadcastRead
  <1> USE DEF RP!SpuriousReturn, SpuriousReturn
  <1> USE DEF RP!Rejoined, Rejoined
  <1> USE DEF RP!At, At
  <1> USE DEF RP!LockThreads, LockThreads
  <1> USE DEF RP!InitalizeReadWriteLock, InitalizeReadWriteLock
  <1> USE DEF RP!rwVars, rwVars
  <1> QED
    OBVIOUS

\* The reader-preference lock: in addition a reader is blocked only while a
\* writer holds the lock, and a free lock with a blocked thread has a woken one.
RPInv ==
    /\ Base
    /\ \A r \in Readers : rwpc[r] = "waits" => writers > 0
    /\ readers = 0 /\ writers = 0 /\ (\E t \in LockThreads : rwpc[t] = "waits")
           => \E t \in LockThreads : rwpc[t] = "woken"

\* Every step of the reader-preference lock preserves RPInv.
LEMMA RPStep == RPInv /\ [RP!Next]_(RP!rwVars) => RPInv'
  <1> SUFFICES ASSUME RPInv, [RP!Next]_(RP!rwVars) PROVE RPInv'
    OBVIOUS
  <1> USE DEF RPInv
  <1>s. /\ Readers \subseteq LockThreads /\ Writers \subseteq LockThreads
        /\ \A t \in LockThreads : t \in Readers \/ t \in Writers
    BY DEF LockThreads
  <1>1. ASSUME NEW t \in Readers, RP!ReaderLock(t) PROVE RPInv'
    <2>1. (writers > 0 /\ ReaderWaits(t)) \/ (writers = 0 /\ ReaderEnters(t))
      BY <1>1, RPSame DEF RP!ReaderLock, Base, LockTypeOK
    <2>2. Base' /\ OnlyMoves(t)
      BY <2>1, ReaderLockBase
    <2> QED
      BY <1>s, <2>1, <2>2 DEF ReaderWaits, ReaderEnters, Base, LockTypeOK
  <1>2. ASSUME NEW t \in Writers, RP!WriterLock(t) PROVE RPInv'
    <2>1. \/ (readers > 0 \/ writers > 0) /\ WriterWaits(t)
          \/ writers = 0 /\ readers = 0 /\ WriterEnters(t)
      BY <1>2, RPSame DEF RP!WriterLock, Base, LockTypeOK
    <2>2. Base' /\ OnlyMoves(t)
      BY <2>1, WriterLockBase
    <2>3. \A r \in Readers : rwpc'[r] = rwpc[r]
      BY <2>1, RWThreadsAssumption, <1>s DEF WriterWaits, WriterEnters, Base, LockTypeOK
    <2> QED
      BY <1>s, <2>1, <2>2, <2>3 DEF WriterWaits, WriterEnters, Base, LockTypeOK
  <1>3. ASSUME NEW t \in Readers, RP!ReaderUnlock(t) PROVE RPInv'
    <2> USE <1>3, RPSame DEF RP!ReaderUnlock
    <2>1. Base' /\ OnlyMoves(t) /\ rwpc'[t] = "done"
      BY ReaderUnlockBase
    <2>2. readers > 0 /\ writers = 0
      BY CountPositive DEF Base, CountersAgree
    <2>3. \A u \in LockThreads : rwpc'[u] = "waits" => rwpc[u] = "waits"
      BY <2>1 DEF OnlyMoves
    <2>4. ASSUME readers' = 0, \E u \in LockThreads : rwpc'[u] = "waits"
          PROVE  \E u \in LockThreads : rwpc'[u] = "woken"
      <3>1. PICK w \in Writers : rwpc[w] = "waits"
        BY <1>s, <2>2, <2>3, <2>4
      <3>2. LeaveSignalWrite(t) /\ At(Writers, {"waits"}) # {}
        BY <2>4, <3>1 DEF At
      <3>3. PICK v \in At(Writers, {"waits"}) :
               rwpc' = [rwpc EXCEPT ![t] = "done", ![v] = "woken"]
        BY <3>2 DEF LeaveSignalWrite
      <3> QED
        BY <1>s, <3>3 DEF At, Base, LockTypeOK
    <2> QED
      BY <1>s, <2>1, <2>2, <2>3, <2>4
  <1>4. ASSUME NEW t \in Writers, RP!WriterUnlock(t) PROVE RPInv'
    <2> USE <1>4, RPSame DEF RP!WriterUnlock
    <2>1. Base' /\ OnlyMoves(t) /\ rwpc'[t] = "done"
      BY WriterUnlockBase
    <2>2. \A u \in LockThreads : rwpc'[u] = "waits" => rwpc[u] = "waits"
      BY <2>1 DEF OnlyMoves
    <2>3. \A r \in Readers : rwpc'[r] # "waits"
      <3>1. CASE waiting_readers > 0
        BY <1>s, <3>1 DEF LeaveBroadcastRead, At
      <3>2. CASE ~(waiting_readers > 0)
        BY <1>s, <2>2, <3>2, WaitingCounters DEF Waiting
      <3> QED
        BY <3>1, <3>2
    <2>4. ASSUME \E u \in LockThreads : rwpc'[u] = "waits"
          PROVE  \E u \in LockThreads : rwpc'[u] = "woken"
      <3>1. PICK w \in Writers : rwpc[w] = "waits"
        BY <1>s, <2>2, <2>3, <2>4
      <3>2. CASE waiting_readers > 0
        <4>1. PICK r \in Readers : rwpc[r] \in Waiting
          BY <3>2, WaitingCounters
        <4>2. rwpc'[r] = "woken"
          BY <1>s, <2>1, <2>3, <4>1 DEF OnlyMoves, Waiting
        <4> QED
          BY <1>s, <4>2
      <3>3. CASE ~(waiting_readers > 0)
        <4>1. LeaveSignalWrite(t) /\ At(Writers, {"waits"}) # {}
          BY <3>1, <3>3, WaitingCounters DEF At, Waiting
        <4>2. PICK v \in At(Writers, {"waits"}) :
                 rwpc' = [rwpc EXCEPT ![t] = "done", ![v] = "woken"]
          BY <4>1 DEF LeaveSignalWrite
        <4> QED
          BY <1>s, <4>2 DEF At, Base, LockTypeOK
      <3> QED
        BY <3>2, <3>3
    <2> QED
      BY <2>1, <2>3, <2>4
  <1>5. ASSUME NEW t \in LockThreads, SpuriousReturn(t) PROVE RPInv'
    BY <1>5, <1>s, SpuriousBase DEF SpuriousReturn, Base, LockTypeOK
  <1>6. CASE UNCHANGED rwVars
    BY <1>6 DEF rwVars, Base, LockTypeOK, CountersAgree, At
  <1> QED
    BY <1>1, <1>2, <1>3, <1>4, <1>5, <1>6, RPSame
    DEF RP!Next, RP!Reader, RP!Writer, RP!LockThreads, LockThreads, RP!rwVars, rwVars

\* RPInv holds initially and implies the properties of interest.
LEMMA RPInvFacts ==
  /\ RP!InitalizeReadWriteLock => RPInv
  /\ RPInv => MutualExclusion /\ CountersAgree /\ NoLostWakeup
  <1>1. RP!InitalizeReadWriteLock => RPInv
    BY InitBase, RPSame DEF RPInv, InitalizeReadWriteLock, LockThreads
  <1>2. RPInv => NoLostWakeup
    BY FreeCounters DEF RPInv, NoLostWakeup, At
  <1> QED
    BY <1>1, <1>2, BaseExclusion DEF RPInv, Base

\* rwlock-reader-pref.cpp: a writer holds the lock alone.
THEOREM ReaderPrefExclusion == RP!Spec => []MutualExclusion
  BY RPInvFacts, RPStep, PTL DEF RP!Spec

\* rwlock-reader-pref.cpp: the struct's counters are exact.
THEOREM ReaderPrefCounters == RP!Spec => []CountersAgree
  BY RPInvFacts, RPStep, PTL DEF RP!Spec

\* rwlock-reader-pref.cpp: a free lock never has only blocked threads.
THEOREM ReaderPrefWakeups == RP!Spec => []NoLostWakeup
  BY RPInvFacts, RPStep, PTL DEF RP!Spec

-----------------------------------------------------------------------------
\* The operations of RWLock are the same seen through the writer-preference lock.
LEMMA WPSame ==
  /\ \A t : WP!ReaderWaits(t) <=> ReaderWaits(t)
  /\ \A t : WP!ReaderEnters(t) <=> ReaderEnters(t)
  /\ \A t : WP!WriterWaits(t) <=> WriterWaits(t)
  /\ \A t : WP!WriterEnters(t) <=> WriterEnters(t)
  /\ \A t : WP!Leave(t) <=> Leave(t)
  /\ \A t : WP!LeaveSignalWrite(t) <=> LeaveSignalWrite(t)
  /\ \A t : WP!LeaveBroadcastRead(t) <=> LeaveBroadcastRead(t)
  /\ \A t : WP!SpuriousReturn(t) <=> SpuriousReturn(t)
  /\ WP!InitalizeReadWriteLock <=> InitalizeReadWriteLock
  /\ WP!rwVars = rwVars
  <1> USE DEF WP!ReaderWaits, ReaderWaits
  <1> USE DEF WP!ReaderEnters, ReaderEnters
  <1> USE DEF WP!WriterWaits, WriterWaits
  <1> USE DEF WP!WriterEnters, WriterEnters
  <1> USE DEF WP!Leave, Leave
  <1> USE DEF WP!LeaveSignalWrite, LeaveSignalWrite
  <1> USE DEF WP!LeaveBroadcastRead, LeaveBroadcastRead
  <1> USE DEF WP!SpuriousReturn, SpuriousReturn
  <1> USE DEF WP!Rejoined, Rejoined
  <1> USE DEF WP!At, At
  <1> USE DEF WP!LockThreads, LockThreads
  <1> USE DEF WP!InitalizeReadWriteLock, InitalizeReadWriteLock
  <1> USE DEF WP!rwVars, rwVars
  <1> QED
    OBVIOUS

\* The writer-preference lock: in addition a blocked reader has a writer before
\* it, and a free lock that writers wait for has a woken writer.
WPInv ==
    /\ Base
    /\ \A r \in Readers : rwpc[r] = "waits" => writers > 0 \/ waiting_writers > 0
    /\ readers = 0 /\ writers = 0 /\ waiting_writers > 0
           => \E w \in Writers : rwpc[w] = "woken"

\* Signalling write leaves some writer woken if any was waiting.
LEMMA SignalWakesWriter ==
  ASSUME Base, NEW t \in LockThreads, rwpc[t] = "holds", waiting_writers > 0, LeaveSignalWrite(t)
  PROVE  \E w \in Writers : rwpc'[w] = "woken"
  <1>s. Writers \subseteq LockThreads
    BY DEF LockThreads
  <1>1. CASE At(Writers, {"waits"}) = {} /\ Leave(t)
    <2>1. PICK w \in Writers : rwpc[w] \in Waiting
      BY WaitingCounters
    <2>2. rwpc[w] = "woken" /\ w # t
      BY <1>1, <2>1 DEF At, Waiting
    <2> QED
      BY <1>s, <1>1, <2>2 DEF Leave, Base, LockTypeOK
  <1>2. ASSUME NEW w \in At(Writers, {"waits"}),
               rwpc' = [rwpc EXCEPT ![t] = "done", ![w] = "woken"]
        PROVE  \E v \in Writers : rwpc'[v] = "woken"
    BY <1>s, <1>2 DEF At, Base, LockTypeOK
  <1> QED
    BY <1>1, <1>2 DEF LeaveSignalWrite

\* Every step of the writer-preference lock preserves WPInv.
LEMMA WPStep == WPInv /\ [WP!Next]_(WP!rwVars) => WPInv'
  <1> SUFFICES ASSUME WPInv, [WP!Next]_(WP!rwVars) PROVE WPInv'
    OBVIOUS
  <1> USE DEF WPInv
  <1>s. /\ Readers \subseteq LockThreads /\ Writers \subseteq LockThreads
        /\ \A t \in Readers : t \notin Writers
    BY RWThreadsAssumption DEF LockThreads
  <1>1. ASSUME NEW t \in Readers, WP!ReaderLock(t) PROVE WPInv'
    <2>1. \/ (writers > 0 \/ waiting_writers > 0) /\ ReaderWaits(t)
          \/ writers = 0 /\ ReaderEnters(t)
      BY <1>1, WPSame DEF WP!ReaderLock, Base, LockTypeOK
    <2>2. Base' /\ OnlyMoves(t)
      BY <2>1, ReaderLockBase
    <2>3. \A w \in Writers : rwpc'[w] = rwpc[w]
      BY <1>s, <2>1 DEF ReaderWaits, ReaderEnters, Base, LockTypeOK
    <2> QED
      BY <1>s, <2>1, <2>2, <2>3 DEF ReaderWaits, ReaderEnters, Base, LockTypeOK
  <1>2. ASSUME NEW t \in Writers, WP!WriterLock(t) PROVE WPInv'
    <2>1. \/ (readers > 0 \/ writers > 0) /\ WriterWaits(t)
          \/ writers = 0 /\ readers = 0 /\ WriterEnters(t)
      BY <1>2, WPSame DEF WP!WriterLock, Base, LockTypeOK
    <2>2. Base' /\ OnlyMoves(t)
      BY <2>1, WriterLockBase
    <2>3. writers' > 0 \/ waiting_writers' > 0
      <3>1. CASE WriterEnters(t)
        BY <3>1 DEF WriterEnters, Base, LockTypeOK
      <3>2. CASE WriterWaits(t)
        <4>1. rwpc[t] = "woken" => waiting_writers > 0
          BY WaitingCounters DEF Waiting
        <4> QED
          BY <3>2, <4>1 DEF WriterWaits, Rejoined, Base, LockTypeOK
      <3> QED
        BY <2>1, <3>1, <3>2
    <2> QED
      BY <1>s, <2>1, <2>2, <2>3 DEF WriterWaits, WriterEnters, Base, LockTypeOK
  <1>3. ASSUME NEW t \in Readers, WP!ReaderUnlock(t) PROVE WPInv'
    <2> USE <1>3, WPSame DEF WP!ReaderUnlock
    <2>1. Base' /\ OnlyMoves(t) /\ rwpc'[t] = "done"
      BY ReaderUnlockBase
    <2>2. \A r \in Readers : rwpc'[r] = "waits" => rwpc[r] = "waits"
      BY <1>s, <2>1 DEF OnlyMoves
    <2>3. ASSUME readers' = 0, waiting_writers > 0
          PROVE  \E w \in Writers : rwpc'[w] = "woken"
      BY <1>s, <2>3, SignalWakesWriter
    <2> QED
      BY <2>1, <2>2, <2>3
  <1>4. ASSUME NEW t \in Writers, WP!WriterUnlock(t) PROVE WPInv'
    <2> USE <1>4, WPSame DEF WP!WriterUnlock
    <2>1. Base' /\ OnlyMoves(t) /\ rwpc'[t] = "done"
      BY WriterUnlockBase
    <2>2. ASSUME waiting_writers > 0
          PROVE  \E w \in Writers : rwpc'[w] = "woken"
      BY <1>s, <2>2, SignalWakesWriter
    <2>3. ASSUME ~(waiting_writers > 0), NEW r \in Readers
          PROVE  rwpc'[r] # "waits"
      <3>1. CASE waiting_readers > 0
        BY <1>s, <2>3, <3>1 DEF LeaveBroadcastRead, At
      <3>2. CASE ~(waiting_readers > 0)
        BY <1>s, <2>1, <3>2, WaitingCounters DEF Waiting, OnlyMoves
      <3> QED
        BY <3>1, <3>2
    <2> QED
      BY <2>1, <2>2, <2>3
  <1>5. ASSUME NEW t \in LockThreads, SpuriousReturn(t) PROVE WPInv'
    BY <1>5, <1>s, SpuriousBase DEF SpuriousReturn, Base, LockTypeOK
  <1>6. CASE UNCHANGED rwVars
    BY <1>6 DEF rwVars, Base, LockTypeOK, CountersAgree, At
  <1> QED
    BY <1>1, <1>2, <1>3, <1>4, <1>5, <1>6, WPSame
    DEF WP!Next, WP!Reader, WP!Writer, WP!LockThreads, LockThreads, WP!rwVars, rwVars

\* WPInv holds initially and implies the properties of interest.
LEMMA WPInvFacts ==
  /\ WP!InitalizeReadWriteLock => WPInv
  /\ WPInv => MutualExclusion /\ CountersAgree /\ NoLostWakeup
  <1>1. WP!InitalizeReadWriteLock => WPInv
    BY InitBase, WPSame DEF WPInv, InitalizeReadWriteLock, LockThreads
  <1>2. WPInv => NoLostWakeup
    <2> SUFFICES ASSUME WPInv, At(LockThreads, {"holds"}) = {}, NEW t \in LockThreads, rwpc[t] = "waits"
                 PROVE  \E w \in LockThreads : rwpc[w] = "woken"
      BY DEF NoLostWakeup, At
    <2>1. readers = 0 /\ writers = 0
      BY FreeCounters DEF WPInv
    <2>2. waiting_writers > 0
      BY <2>1, WaitingCounters DEF WPInv, LockThreads, Waiting
    <2> QED
      BY <2>1, <2>2 DEF WPInv, LockThreads
  <1> QED
    BY <1>1, <1>2, BaseExclusion DEF WPInv, Base

\* rwlock-writer-pref.cpp: a writer holds the lock alone.
THEOREM WriterPrefExclusion == WP!Spec => []MutualExclusion
  BY WPInvFacts, WPStep, PTL DEF WP!Spec

\* rwlock-writer-pref.cpp: the struct's counters are exact.
THEOREM WriterPrefCounters == WP!Spec => []CountersAgree
  BY WPInvFacts, WPStep, PTL DEF WP!Spec

\* rwlock-writer-pref.cpp: a free lock never has only blocked threads.
THEOREM WriterPrefWakeups == WP!Spec => []NoLostWakeup
  BY WPInvFacts, WPStep, PTL DEF WP!Spec

\* rwlock-writer-pref.cpp: while a writer waits, no reader gets the lock.
THEOREM WriterPrefPreference == WP!Spec => WriterPreference
  <1>1. WPInv /\ [WP!Next]_(WP!rwVars) => [NoReaderOvertakes]_rwVars
    <2> SUFFICES ASSUME WPInv, WP!Next, NEW r \in Readers,
                        rwpc[r] # "holds", rwpc'[r] = "holds",
                        NEW w \in Writers, rwpc[w] \in Waiting
                 PROVE  FALSE
      BY DEF NoReaderOvertakes, At, Waiting, WP!rwVars, rwVars
    <2>s. Readers \subseteq LockThreads /\ Writers \subseteq LockThreads /\ r \notin Writers
      BY RWThreadsAssumption DEF LockThreads
    <2>1. waiting_writers > 0
      BY WaitingCounters DEF WPInv
    <2>2. ASSUME NEW t \in Readers, WP!ReaderLock(t) PROVE FALSE
      BY <2>s, <2>1, <2>2, WPSame
      DEF WP!ReaderLock, ReaderWaits, WPInv, Base, LockTypeOK
    <2>3. ASSUME NEW t \in Writers, WP!WriterLock(t) PROVE FALSE
      BY <2>s, <2>3, WPSame
      DEF WP!WriterLock, WriterWaits, WriterEnters, WPInv, Base, LockTypeOK
    <2>4. ASSUME NEW t \in LockThreads,
                 Leave(t) \/ LeaveSignalWrite(t) \/ LeaveBroadcastRead(t)
          PROVE  FALSE
      BY <2>s, <2>4 DEF Leave, LeaveSignalWrite, LeaveBroadcastRead, At, WPInv, Base, LockTypeOK
    <2>5. ASSUME NEW t \in LockThreads, SpuriousReturn(t) PROVE FALSE
      BY <2>s, <2>5 DEF SpuriousReturn, WPInv, Base, LockTypeOK
    <2>6. UNCHANGED WP!rwVars => FALSE
      BY DEF WP!rwVars
    <2> QED
      BY <2>s, <2>2, <2>3, <2>4, <2>5, <2>6, WPSame
      DEF WP!Next, WP!Reader, WP!Writer, WP!ReaderUnlock, WP!WriterUnlock, WP!LockThreads, LockThreads
  <1> QED
    BY <1>1, WPInvFacts, WPStep, PTL DEF WP!Spec, WriterPreference
=============================================================================
