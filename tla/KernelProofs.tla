---------------------------- MODULE KernelProofs ----------------------------
\* Proofs about the lottery scheduler and the pipe.  No process runs on two
\* CPUs, for any number of CPUs, slots and tickets.  For any number of
\* processes, any PIPESIZE and any range of the counters that PIPESIZE
\* divides, bytes come out of a pipe in the order they went in, also after the
\* counters have wrapped around, and nobody uses the pipe after it was freed.
EXTENDS Lottery, Pipe, SequenceTheorems, TLAPS

-----------------------------------------------------------------------------
\* The lottery scheduler.

States == {"UNUSED", "RUNNABLE", "RUNNING", "SLEEPING"}

\* scheduler() stays in the table or one past its end, and the slot a CPU runs
\* is in the table.
LotteryTypeOK ==
    /\ cpus \in 1 .. NCPU
    /\ state \in [Slots -> States]
    /\ DOMAIN cpupc = Harts
    /\ idx \in [Harts -> 0 .. NPROC]
    /\ \A c \in CPUs : cpupc[c] = "run" => idx[c] \in Slots

LotteryIInv == LotteryTypeOK /\ OneCPU

\* A CPU of the machine is one cpupc and idx have a place for.
LEMMA CPUsAreHarts == LotteryTypeOK => CPUs \subseteq Harts
  BY LotteryAssumption DEF LotteryTypeOK, CPUs, Harts

\* What the steps of scheduler() that stay in it have in common: CPU c was not
\* running a process and is not after the step, no other CPU notices, and no
\* process changes state.
InScheduler(c) ==
    /\ cpupc[c] # "run" /\ UNCHANGED <<cpus, state>>
    /\ DOMAIN cpupc' = Harts /\ cpupc'[c] # "run"
    /\ idx' \in [Harts -> 0 .. NPROC]
    /\ \A d \in CPUs \ {c} : cpupc'[d] = cpupc[d] /\ idx'[d] = idx[d]

\* Such a step preserves the invariant.
LEMMA InSchedulerStep ==
    ASSUME LotteryIInv, NEW c \in CPUs, InScheduler(c) PROVE LotteryIInv'
  <1> USE DEF LotteryIInv, LotteryTypeOK, InScheduler, CPUs
  <1>1. LotteryTypeOK'
    OBVIOUS
  <1>2. OneCPU'
    BY DEF OneCPU
  <1> QED
    BY <1>1, <1>2

\* A new round of loops is such a step.
LEMMA LoopStep ==
    ASSUME LotteryIInv, NEW c \in CPUs, NEW where, NEW r, cpupc[c] # "run", where # "run",
           LoopWith(c, where, r), UNCHANGED <<cpus, state>>
    PROVE  LotteryIInv'
  <1>1. c \in Harts
    BY CPUsAreHarts DEF LotteryIInv
  <1>2. InScheduler(c)
    BY <1>1, LotteryAssumption DEF LotteryIInv, LotteryTypeOK, LoopWith, InScheduler, CPUs, Harts
  <1> QED
    BY <1>2, InSchedulerStep

\* Going on to the next slot is such a step.
LEMMA NextSlotStep ==
    ASSUME LotteryIInv, NEW c \in CPUs, cpupc[c] # "run", idx[c] < NPROC,
           idx' = [idx EXCEPT ![c] = @ + 1], UNCHANGED <<cpus, state, cpupc>>
    PROVE  LotteryIInv'
  <1>1. c \in Harts
    BY CPUsAreHarts DEF LotteryIInv
  <1>2. idx[c] + 1 \in 0 .. NPROC
    BY <1>1, LotteryAssumption DEF LotteryIInv, LotteryTypeOK
  <1>3. InScheduler(c)
    BY <1>1, <1>2 DEF LotteryIInv, LotteryTypeOK, InScheduler, CPUs, Harts
  <1> QED
    BY <1>3, InSchedulerStep

\* Every step of scheduler() on a CPU preserves the invariant; Dispatch does
\* because state[p] = "RUNNABLE" is tested again in the step that changes it.
LEMMA SchedulerStep ==
    ASSUME LotteryIInv, NEW c \in CPUs, scheduler(c), UNCHANGED cpus PROVE LotteryIInv'
  <1>h. c \in Harts
    BY CPUsAreHarts DEF LotteryIInv
  <1>1. CASE Start(c)
    BY <1>1, LoopStep DEF Start, Loop
  <1>2. CASE Count(c)
    BY <1>2, NextSlotStep DEF Count, table
  <1>3. CASE CheckDone(c)
    BY <1>3, LoopStep DEF CheckDone, Loop, table
  <1>4. CASE Reset(c)
    BY <1>4, NextSlotStep DEF Reset
  <1>5. CASE ResetDone(c)
    BY <1>5, LoopStep DEF ResetDone, Loop, table
  <1>6. CASE Scan(c)
    <2>1. CASE cpupc' = [cpupc EXCEPT ![c] = "dispatch"] /\ UNCHANGED idx
      <3>1. InScheduler(c)
        BY <1>6, <2>1, <1>h DEF LotteryIInv, LotteryTypeOK, Scan, InScheduler, table, CPUs
      <3> QED
        BY <3>1, InSchedulerStep
    <2>2. CASE idx' = [idx EXCEPT ![c] = @ + 1] /\ UNCHANGED cpupc
      BY <1>6, <2>2, NextSlotStep DEF Scan, table
    <2> QED
      BY <1>6, <2>1, <2>2 DEF Scan
  <1>7. CASE ScanDone(c)
    <2>1. InScheduler(c)
      BY <1>7, <1>h DEF LotteryIInv, LotteryTypeOK, ScanDone, InScheduler, table, CPUs
    <2> QED
      BY <2>1, InSchedulerStep
  <1>8. CASE Dispatch(c)
    <2>1. idx[c] \in Slots /\ state[idx[c]] = "RUNNABLE"
      BY <1>8, <1>h, LotteryAssumption DEF LotteryIInv, LotteryTypeOK, Dispatch, StillRunnable, Slots
    <2>2. \A d \in CPUs : cpupc[d] = "run" => idx[d] # idx[c]
      BY <2>1 DEF LotteryIInv, OneCPU
    <2>3. LotteryTypeOK'
      BY <1>8, <1>h, <2>1 DEF LotteryIInv, LotteryTypeOK, Dispatch, States, CPUs
    <2>4. OneCPU'
      BY <1>8, <1>h, <2>1, <2>2 DEF LotteryIInv, LotteryTypeOK, OneCPU, Dispatch, CPUs
    <2> QED
      BY <2>3, <2>4 DEF LotteryIInv
  <1>9. CASE Miss(c)
    BY <1>9, LoopStep DEF Miss, Loop, table
  <1> QED
    BY <1>1, <1>2, <1>3, <1>4, <1>5, <1>6, <1>7, <1>8, <1>9 DEF scheduler

\* A process that gives up its CPU, for whatever reason, is RUNNING nowhere.
LEMMA SwitchStep ==
    ASSUME LotteryIInv, NEW c \in CPUs, NEW s \in States \ {"RUNNING"}, SwitchTo(c, s), UNCHANGED cpus
    PROVE  LotteryIInv'
  <1>h. c \in Harts /\ idx[c] \in Slots
    BY CPUsAreHarts DEF LotteryIInv, LotteryTypeOK, SwitchTo
  <1>1. LotteryTypeOK'
    BY <1>h, LotteryAssumption DEF LotteryIInv, LotteryTypeOK, SwitchTo, Loop, LoopWith, CPUs
  <1>2. \A d \in CPUs \ {c} : cpupc'[d] = cpupc[d] /\ idx'[d] = idx[d] /\ (cpupc[d] = "run" => idx[d] # idx[c])
    BY CPUsAreHarts DEF LotteryIInv, LotteryTypeOK, OneCPU, SwitchTo, Loop, LoopWith
  <1>3. cpupc'[c] # "run" /\ CPUs' = CPUs
    BY <1>h DEF LotteryIInv, LotteryTypeOK, SwitchTo, Loop, LoopWith, CPUs
  <1>4. state' = [state EXCEPT ![idx[c]] = s]
    BY DEF SwitchTo
  <1>5. OneCPU'
    BY <1>h, <1>2, <1>3, <1>4 DEF LotteryIInv, LotteryTypeOK, OneCPU
  <1> QED
    BY <1>1, <1>5 DEF LotteryIInv

\* A step that only moves slots between states other than RUNNING.
LEMMA NotRunningStep ==
    ASSUME LotteryIInv, NEW p \in Slots, NEW s \in States \ {"RUNNING"}, state[p] # "RUNNING",
           state' = [state EXCEPT ![p] = s], UNCHANGED <<cpus, cpupc, idx>>
    PROVE  LotteryIInv'
  BY DEF LotteryIInv, LotteryTypeOK, OneCPU, CPUs

\* Every step preserves the invariant.
LEMMA StepIInv == LotteryIInv /\ [LotteryNext]_lotVars => LotteryIInv'
  <1> SUFFICES ASSUME LotteryIInv, [LotteryNext]_lotVars PROVE LotteryIInv'
    OBVIOUS
  <1>1. CASE UNCHANGED lotVars
    BY <1>1 DEF LotteryIInv, LotteryTypeOK, OneCPU, CPUs, lotVars, table, sched
  <1>2. ASSUME NEW c \in CPUs, scheduler(c), UNCHANGED cpus PROVE LotteryIInv'
    BY <1>2, SchedulerStep
  <1>3. ASSUME NEW c \in CPUs, yield(c) \/ sleep(c) \/ exit(c), UNCHANGED cpus PROVE LotteryIInv'
    BY <1>3, SwitchStep DEF yield, sleep, exit, States
  <1>4. ASSUME NEW c \in CPUs, fork(c), UNCHANGED cpus PROVE LotteryIInv'
    BY <1>4, NotRunningStep DEF fork, sched, States
  <1>5. ASSUME NEW c \in CPUs, NEW r, Draw(c, r), UNCHANGED cpus PROVE LotteryIInv'
    BY <1>5, LoopStep DEF Draw, table
  <1>6. ASSUME NEW c \in CPUs, NEW n, settickets(c, n), UNCHANGED cpus PROVE LotteryIInv'
    BY <1>6 DEF LotteryIInv, LotteryTypeOK, OneCPU, CPUs, settickets, sched
  <1>7. ASSUME NEW p \in Slots, wakeup(p), UNCHANGED cpus PROVE LotteryIInv'
    BY <1>7, NotRunningStep DEF wakeup, sched, States
  <1> QED
    BY <1>1, <1>2, <1>3, <1>4, <1>5, <1>6, <1>7 DEF LotteryNext

\* A process is never run by two CPUs, and a slot is RUNNING exactly when a
\* CPU runs it: p->state is tested again under p->lock before it is set.
THEOREM OneCPUSafety == LotterySpec => []OneCPU
  <1>1. LotteryInit => LotteryIInv
    BY LotteryAssumption DEF LotteryInit, LotteryIInv, LotteryTypeOK, OneCPU, States, Slots, Harts, CPUs
  <1>2. LotteryIInv => OneCPU
    BY DEF LotteryIInv
  <1> QED
    BY <1>1, <1>2, StepIInv, PTL DEF LotterySpec

-----------------------------------------------------------------------------
\* The pipe.

\* Arithmetic of the counters.

\* A remainder is in range.
LEMMA ModRange == ASSUME NEW n \in Nat \ {0}, NEW a \in Int PROVE a % n \in 0 .. n - 1
  OBVIOUS

\* Quotient and remainder.
LEMMA DivMod ==
    ASSUME NEW n \in Nat \ {0}, NEW a \in Int PROVE a \div n \in Int /\ a = n * (a \div n) + (a % n)
  OBVIOUS

\* The remainder is the only number in range that differs by a multiple.
LEMMA ModUnique ==
    ASSUME NEW n \in Nat \ {0}, NEW q \in Int, NEW r \in 0 .. n - 1 PROVE (q * n + r) % n = r
  <1> DEFINE a == q * n + r
             k == (a \div n) - q
  <1>1. a \in Int /\ k \in Int /\ a \div n \in Int /\ a % n \in 0 .. n - 1
    OBVIOUS
  <1>2. a = n * (a \div n) + (a % n)
    OBVIOUS
  <1>3. k * n = r - (a % n)
    BY <1>1, <1>2
  <1>4. k >= 1 => k * n >= n
    BY <1>1
  <1>5. k <= -1 => k * n <= -n
    BY <1>1
  <1>6. k = 0
    BY <1>1, <1>3, <1>4, <1>5
  <1> QED
    BY <1>1, <1>3, <1>6

\* A number in range is its own remainder.
LEMMA ModSmall == ASSUME NEW n \in Nat \ {0}, NEW a \in 0 .. n - 1 PROVE a % n = a
  BY ModUnique

\* Adding a multiple does not change a remainder.
LEMMA ModMultiple ==
    ASSUME NEW n \in Nat \ {0}, NEW a \in Int, NEW m \in Int PROVE (a + m * n) % n = a % n
  <1> DEFINE q == (a \div n) + m
  <1>1. a \div n \in Int /\ a % n \in 0 .. n - 1 /\ a = n * (a \div n) + (a % n)
    OBVIOUS
  <1>2. q \in Int /\ a + m * n = q * n + (a % n)
    BY <1>1
  <1> HIDE DEF q
  <1> QED
    BY <1>1, <1>2, ModUnique

\* Two numbers less than n apart with the same remainder are the same.
LEMMA ModDistinct ==
    ASSUME NEW n \in Nat \ {0}, NEW a \in Int, NEW b \in Int,
           a <= b, b - a < n, a % n = b % n
    PROVE  a = b
  <1> DEFINE d == b - a
             k == (b \div n) - (a \div n)
  <1>1. a \div n \in Int /\ b \div n \in Int /\ a = n * (a \div n) + (a % n) /\ b = n * (b \div n) + (b % n)
    OBVIOUS
  <1>2. k \in Int /\ d = k * n /\ d \in 0 .. n - 1
    BY <1>1
  <1>3. k >= 1 => k * n >= n
    BY <1>2
  <1>4. k <= -1 => k * n <= -n
    BY <1>2
  <1>5. k = 0
    BY <1>2, <1>3, <1>4
  <1> QED
    BY <1>2, <1>5

\* A counter that has been incremented past UINT once.
LEMMA Wrap == ASSUME NEW x \in 0 .. 2 * UINT - 1 PROVE x % UINT = IF x < UINT THEN x ELSE x - UINT
  <1>1. UINT \in Nat \ {0}
    BY PipeAssumption
  <1>2. CASE x < UINT
    BY <1>1, <1>2, ModSmall
  <1>3. CASE ~(x < UINT)
    <2>1. x - UINT \in 0 .. UINT - 1 /\ x = 1 * UINT + (x - UINT)
      BY <1>1, <1>3
    <2> QED
      BY <1>1, <1>3, <2>1, ModUnique
  <1> QED
    BY <1>2, <1>3

\* The slot of the ring a counter stands for does not change when it wraps
\* around, because PIPESIZE divides UINT.
LEMMA SlotOfCounter == ASSUME NEW x \in 0 .. 2 * UINT - 1 PROVE (x % UINT) % PIPESIZE = x % PIPESIZE
  <1>1. UINT \in Nat \ {0} /\ PIPESIZE \in Nat \ {0} /\ UINT % PIPESIZE = 0
    BY PipeAssumption
  <1>2. CASE x < UINT
    BY <1>1, <1>2, ModSmall
  <1>3. CASE ~(x < UINT)
    <2> DEFINE m == UINT \div PIPESIZE
    <2>0. m \in Int /\ UINT = PIPESIZE * m + (UINT % PIPESIZE)
      BY <1>1, DivMod
    <2> HIDE DEF m
    <2>1. m \in Int /\ UINT = m * PIPESIZE
      BY <1>1, <2>0
    <2> DEFINE y == x - UINT
    <2>2. y \in Int /\ x = y + m * PIPESIZE /\ x % UINT = y
      BY <2>1, <1>1, <1>3, Wrap
    <2> HIDE DEF y
    <2>3. (y + m * PIPESIZE) % PIPESIZE = y % PIPESIZE
      BY <1>1, <2>1, <2>2, ModMultiple
    <2> QED
      BY <2>2, <2>3
  <1> QED
    BY <1>2, <1>3

-----------------------------------------------------------------------------
\* A byte, or what pipealloc left in the ring.
Bytes == (Writers \X Int) \cup {NoProc}

\* Appending after a concatenation is concatenating after appending.
LEMMA AppendConcat ==
    \A s, t \in Seq(Bytes), e \in Bytes : Append(s \o t, e) = s \o Append(t, e)
  <1> SUFFICES ASSUME NEW s \in Seq(Bytes), NEW t \in Seq(Bytes), NEW e \in Bytes
               PROVE  Append(s \o t, e) = s \o Append(t, e)
    OBVIOUS
  <1>1. Append(s \o t, e) \in Seq(Bytes) /\ s \o Append(t, e) \in Seq(Bytes)
    OBVIOUS
  <1>2. Len(Append(s \o t, e)) = Len(s \o Append(t, e))
    OBVIOUS
  <1>3. \A k \in 1 .. Len(s) + Len(t) + 1 : Append(s \o t, e)[k] = (s \o Append(t, e))[k]
    OBVIOUS
  <1> QED
    BY <1>1, <1>2, <1>3, SeqEqual

\* Moving the head of the second sequence to the end of the first one.
LEMMA MoveHead ==
    \A s, t \in Seq(Bytes) : t # <<>> => Append(s, t[1]) \o Tail(t) = s \o t
  <1> SUFFICES ASSUME NEW s \in Seq(Bytes), NEW t \in Seq(Bytes), t # <<>>
               PROVE  Append(s, t[1]) \o Tail(t) = s \o t
    OBVIOUS
  <1>0. Len(t) \in Nat \ {0} /\ t[1] \in Bytes /\ Tail(t) \in Seq(Bytes)
    BY EmptySeq, ElementOfSeq
  <1>1. Append(s, t[1]) \o Tail(t) \in Seq(Bytes) /\ s \o t \in Seq(Bytes)
    BY <1>0
  <1>2. Len(Append(s, t[1]) \o Tail(t)) = Len(s \o t)
    BY <1>0
  <1>3. \A k \in 1 .. Len(s) + Len(t) : (Append(s, t[1]) \o Tail(t))[k] = (s \o t)[k]
    BY <1>0
  <1> QED
    BY <1>1, <1>2, <1>3, SeqEqual

-----------------------------------------------------------------------------
\* A process in the loop of pipewrite is a writer.
TypeOK ==
    /\ data \in [0 .. PIPESIZE - 1 -> Bytes]
    /\ nread \in 0 .. UINT - 1 /\ nwrite \in 0 .. UINT - 1
    /\ DOMAIN pc = Procs /\ i \in [Procs -> Int] /\ calls \in [Writers -> Int]
    /\ sent \in Seq(Bytes) /\ taken \in Seq(Bytes)
    /\ \A p \in Procs : pc[p] = "write" => p \in Writers

\* The bytes in the ring, the oldest first.
Queue == [k \in 1 .. Held |-> data[((nread + k - 1) % UINT) % PIPESIZE]]

QueueInv == TypeOK /\ FIFO

\* How many bytes are in the ring, without wrap-around.
HeldIs ==
    /\ Held = IF nread <= nwrite THEN nwrite - nread ELSE nwrite - nread + UINT
    /\ Held \in 0 .. UINT - 1
    /\ nwrite = (nread + Held) % UINT

\* It is so whatever the counters are.
LEMMA HeldValue == TypeOK => HeldIs
  <1> SUFFICES ASSUME TypeOK PROVE HeldIs
    OBVIOUS
  <1> DEFINE x == nwrite - nread + UINT
             y == nread + Held
  <1>0. UINT \in Nat \ {0}
    BY PipeAssumption
  <1>1. x \in 0 .. 2 * UINT - 1
    BY <1>0 DEF TypeOK
  <1>2. x % UINT = IF x < UINT THEN x ELSE x - UINT
    <2> HIDE DEF x
    <2> QED
      BY <1>1, Wrap
  <1>3. Held = IF nread <= nwrite THEN nwrite - nread ELSE nwrite - nread + UINT
    BY <1>0, <1>2 DEF TypeOK, Held
  <1>4. Held \in 0 .. UINT - 1
    BY <1>0, <1>3 DEF TypeOK
  <1>5. y \in 0 .. 2 * UINT - 1
    BY <1>0, <1>4 DEF TypeOK
  <1>6. y % UINT = IF y < UINT THEN y ELSE y - UINT
    <2> HIDE DEF y
    <2> QED
      BY <1>5, Wrap
  <1>7. (nread + Held) % UINT = nwrite
    BY <1>0, <1>3, <1>6 DEF TypeOK
  <1> QED
    BY <1>3, <1>4, <1>7 DEF HeldIs

\* The slots of the ring as the code computes them, without wrap-around.
LEMMA SlotValue ==
    ASSUME TypeOK, NEW k \in 0 .. UINT
    PROVE  ((nread + k) % UINT) % PIPESIZE = (nread + k) % PIPESIZE
  <1> DEFINE x == nread + k
  <1>1. x \in 0 .. 2 * UINT - 1
    BY PipeAssumption DEF TypeOK
  <1> HIDE DEF x
  <1>2. (x % UINT) % PIPESIZE = x % PIPESIZE
    BY <1>1, SlotOfCounter
  <1> QED
    BY <1>2 DEF x

\* The ring holds bytes.
LEMMA QueueType == TypeOK => Queue \in Seq(Bytes) /\ Len(Queue) = Held
  <1> SUFFICES ASSUME TypeOK PROVE Queue \in Seq(Bytes) /\ Len(Queue) = Held
    OBVIOUS
  <1>1. Held \in Nat
    BY HeldValue DEF HeldIs
  <1>2. \A x \in Int : x % PIPESIZE \in 0 .. PIPESIZE - 1
    BY PipeAssumption, ModRange
  <1>3. \A k \in 1 .. Held : (nread + k - 1) % UINT \in Int
    BY PipeAssumption, ModRange, <1>1 DEF TypeOK
  <1>4. \A k \in 1 .. Held : data[((nread + k - 1) % UINT) % PIPESIZE] \in Bytes
    BY <1>2, <1>3 DEF TypeOK
  <1> QED
    BY <1>1, <1>4 DEF Queue

\* FIFO in terms of Queue.
LEMMA FIFOQueue == FIFO <=> Held <= PIPESIZE /\ sent = taken \o Queue
  BY DEF FIFO, Queue

\* pipewrite puts a byte behind the ones in the ring: the slot it writes is
\* none of theirs, because the ring is not full.
LEMMA WriteByteStep == ASSUME QueueInv, NEW p \in Procs, WriteByte(p) PROVE QueueInv'
  <1> DEFINE ch == <<p, (calls[p] - 1) * WriteSize + i[p]>>
             slot == nwrite % PIPESIZE
  <1> USE DEF QueueInv
  <1>a. UINT \in Nat \ {0} /\ PIPESIZE \in Nat \ {0} /\ UINT > PIPESIZE
    BY PipeAssumption
  <1>b. ch \in Bytes
    BY PipeAssumption DEF WriteByte, CanWrite, TypeOK, Bytes
  <1>c. data' = [data EXCEPT ![slot] = ch] /\ sent' = Append(sent, ch) /\ nwrite' = (nwrite + 1) % UINT
    BY DEF WriteByte, Inc
  <1>d. UNCHANGED <<nread, taken, pc, calls>> /\ i' = [i EXCEPT ![p] = @ + 1]
    BY DEF WriteByte
  <1> HIDE DEF ch
  <1>e. slot \in 0 .. PIPESIZE - 1 /\ nwrite' \in 0 .. UINT - 1
    <2>1. \A x \in Int : x % PIPESIZE \in 0 .. PIPESIZE - 1 /\ x % UINT \in 0 .. UINT - 1
      BY <1>a, ModRange
    <2>2. nwrite \in Int /\ nwrite + 1 \in Int
      BY <1>a DEF TypeOK
    <2> QED
      BY <1>c, <2>1, <2>2
  <1>1. TypeOK'
    BY <1>b, <1>c, <1>d, <1>e DEF TypeOK
  <1>2. Held \in 0 .. UINT - 1 /\ nwrite = (nread + Held) % UINT
    BY HeldValue DEF HeldIs
  <1>3. Held < PIPESIZE
    <2>1. Held # PIPESIZE
      BY <1>2 DEF WriteByte, Full
    <2> QED
      BY <1>a, <1>2, <2>1 DEF FIFO
  <1>4. Held' = Held + 1
    <2>1. nwrite' = IF nwrite + 1 < UINT THEN nwrite + 1 ELSE 0
      <3> DEFINE x == nwrite + 1
      <3>1. x \in 0 .. 2 * UINT - 1
        BY <1>a DEF TypeOK
      <3>2. nwrite' = x % UINT
        BY <1>c
      <3> HIDE DEF x
      <3>3. nwrite' = IF x < UINT THEN x ELSE x - UINT
        BY <3>1, <3>2, Wrap
      <3> QED
        BY <1>a, <3>3 DEF x, TypeOK
    <2>2. Held = IF nread <= nwrite THEN nwrite - nread ELSE nwrite - nread + UINT
      BY HeldValue DEF HeldIs
    <2>3. Held' = IF nread <= nwrite' THEN nwrite' - nread ELSE nwrite' - nread + UINT
      <3>1. HeldIs'
        BY <1>1, HeldValue, PTL
      <3> QED
        BY <3>1, <1>d DEF HeldIs
    <2> QED
      BY <1>a, <1>3, <2>1, <2>2, <2>3 DEF TypeOK
  <1>5. slot = (nread + Held) % PIPESIZE
    <2>1. Held \in 0 .. UINT
      BY <1>a, <1>2
    <2> QED
      BY <1>2, <2>1, SlotValue
  <1>6. ASSUME NEW k \in 1 .. Held
        PROVE  data'[((nread + k - 1) % UINT) % PIPESIZE] = data[((nread + k - 1) % UINT) % PIPESIZE]
    <2> DEFINE j == k - 1
               a == nread + j
               b == nread + Held
    <2>1. j \in 0 .. UINT /\ nread + k - 1 = nread + j
      BY <1>2, <1>a DEF TypeOK
    <2>2. a \in Int /\ b \in Int /\ a <= b /\ b - a < PIPESIZE /\ a # b
      BY <1>2, <1>3, <1>a DEF TypeOK
    <2>3. (a % UINT) % PIPESIZE = a % PIPESIZE
      <3> HIDE DEF j
      <3> QED
        BY <2>1, SlotValue
    <2>4. a % PIPESIZE # b % PIPESIZE
      <3> HIDE DEF a, b
      <3> QED
        BY <1>a, <2>2, ModDistinct
    <2>5. a % PIPESIZE \in 0 .. PIPESIZE - 1
      <3> HIDE DEF a, b
      <3> QED
        BY <1>a, <2>2, ModRange
    <2>6. (a % UINT) % PIPESIZE # slot /\ (a % UINT) % PIPESIZE \in 0 .. PIPESIZE - 1
      BY <1>5, <2>3, <2>4, <2>5
    <2> HIDE DEF a, b, slot
    <2>7. data'[(a % UINT) % PIPESIZE] = data[(a % UINT) % PIPESIZE]
      BY <1>c, <2>6 DEF TypeOK
    <2> QED
      BY <2>1, <2>7 DEF a
  <1>7. Queue' = Append(Queue, ch)
    <2>1. (Queue \in Seq(Bytes) /\ Len(Queue) = Held)' /\ Len(Queue)' = Held + 1
      <3>1. (Queue \in Seq(Bytes) /\ Len(Queue) = Held)'
        BY <1>1, QueueType, PTL
      <3> QED
        BY <3>1, <1>4
    <2>2. Queue \in Seq(Bytes) /\ Len(Queue) = Held
      BY QueueType
    <2>3. Append(Queue, ch) \in Seq(Bytes) /\ Len(Append(Queue, ch)) = Held + 1
      BY <2>2, <1>b
    <2>4. ASSUME NEW k \in 1 .. Held + 1 PROVE Queue'[k] = Append(Queue, ch)[k]
      <3>1. Queue'[k] = data'[((nread + k - 1) % UINT) % PIPESIZE]
        BY <1>4, <1>d DEF Queue
      <3>2. CASE k \in 1 .. Held
        <4>1. Append(Queue, ch)[k] = Queue[k]
          BY <2>2, <1>b, <3>2
        <4>2. Queue[k] = data[((nread + k - 1) % UINT) % PIPESIZE]
          BY <3>2 DEF Queue
        <4> QED
          BY <3>1, <3>2, <4>1, <4>2, <1>6
      <3>3. CASE k = Held + 1
        <4>1. nread + k - 1 = nread + Held
          BY <1>2, <3>3 DEF TypeOK
        <4>2. Queue'[k] = data'[slot]
          BY <3>1, <4>1, <1>2
        <4>3. data'[slot] = ch
          BY <1>c, <1>e DEF TypeOK
        <4>4. Append(Queue, ch)[k] = ch
          BY <2>2, <1>b, <3>3
        <4> QED
          BY <4>2, <4>3, <4>4
      <3>4. k \in 1 .. Held \/ k = Held + 1
        BY <1>a, <1>2
      <3> QED
        BY <3>2, <3>3, <3>4
    <2> QED
      BY <2>1, <2>3, <2>4, <1>2, SeqEqual
  <1>8. sent' = taken' \o Queue'
    <2>1. Queue \in Seq(Bytes) /\ taken \in Seq(Bytes) /\ sent = taken \o Queue
      BY QueueType, FIFOQueue DEF TypeOK
    <2> QED
      <3>1. Append(taken \o Queue, ch) = taken \o Append(Queue, ch)
        BY <1>b, <2>1, AppendConcat
      <3> QED
        BY <1>c, <1>d, <1>7, <2>1, <3>1
  <1>9. FIFO'
    BY <1>a, <1>2, <1>3, <1>4, <1>8 DEF FIFO, Queue
  <1> QED
    BY <1>1, <1>9

\* piperead takes the first of the bytes in the ring.
LEMMA ReadByteStep == ASSUME QueueInv, NEW p \in Procs, ReadByte(p) PROVE QueueInv'
  <1> DEFINE slot == nread % PIPESIZE
  <1> USE DEF QueueInv
  <1>a. UINT \in Nat \ {0} /\ PIPESIZE \in Nat \ {0} /\ UINT > PIPESIZE
    BY PipeAssumption
  <1>b. taken' = Append(taken, data[slot]) /\ nread' = (nread + 1) % UINT /\ nread # nwrite
    BY DEF ReadByte, Inc, Empty
  <1>c. UNCHANGED <<data, nwrite, sent, pc, calls>>
    BY DEF ReadByte
  <1>d. i' \in [Procs -> Int]
    BY PipeAssumption DEF ReadByte, TypeOK
  <1>e. nread' = IF nread + 1 < UINT THEN nread + 1 ELSE 0
    <2> DEFINE x == nread + 1
    <2>1. x \in 0 .. 2 * UINT - 1 /\ nread' = x % UINT
      BY <1>a, <1>b DEF TypeOK
    <2> HIDE DEF x
    <2>2. nread' = IF x < UINT THEN x ELSE x - UINT
      BY <2>1, Wrap
    <2> QED
      BY <1>a, <2>2 DEF x, TypeOK
  <1>f. slot \in 0 .. PIPESIZE - 1
    BY <1>a, ModRange DEF TypeOK
  <1>1. TypeOK'
    <2>1. nread' \in 0 .. UINT - 1
      BY <1>a, <1>e DEF TypeOK
    <2>2. data[slot] \in Bytes
      BY <1>f DEF TypeOK
    <2> QED
      BY <1>b, <1>c, <1>d, <2>1, <2>2 DEF TypeOK
  <1>2. Held \in 0 .. UINT - 1 /\ Held >= 1
    BY <1>a, <1>b, HeldValue DEF HeldIs, TypeOK
  <1>3. Held' = Held - 1
    <2>1. Held = IF nread <= nwrite THEN nwrite - nread ELSE nwrite - nread + UINT
      BY HeldValue DEF HeldIs
    <2>2. Held' = IF nread' <= nwrite THEN nwrite - nread' ELSE nwrite - nread' + UINT
      <3>1. HeldIs'
        BY <1>1, HeldValue, PTL
      <3> QED
        BY <3>1, <1>c DEF HeldIs
    <2> QED
      BY <1>a, <1>b, <1>e, <2>1, <2>2 DEF TypeOK
  <1>4. Queue \in Seq(Bytes) /\ Len(Queue) = Held /\ Queue # <<>>
    BY <1>2, QueueType
  <1>5. Queue[1] = data[slot]
    <2>1. Queue[1] = data[((nread + 1 - 1) % UINT) % PIPESIZE]
      BY <1>a, <1>2 DEF Queue
    <2>2. nread \in 0 .. UINT - 1 /\ nread + 1 - 1 = nread
      BY <1>a DEF TypeOK
    <2>3. nread % UINT = nread
      BY <1>a, <2>2, ModSmall
    <2> QED
      BY <2>1, <2>2, <2>3
  <1>6. ASSUME NEW k \in 1 .. Held - 1
        PROVE  (nread' + k - 1) % UINT = (nread + (k + 1) - 1) % UINT
    <2> DEFINE x == nread' + k - 1
               y == nread + (k + 1) - 1
    <2>1. x \in 0 .. 2 * UINT - 1 /\ y \in 0 .. 2 * UINT - 1
      BY <1>a, <1>2, <1>e DEF TypeOK
    <2>2. /\ x % UINT = IF x < UINT THEN x ELSE x - UINT
          /\ y % UINT = IF y < UINT THEN y ELSE y - UINT
      <3> HIDE DEF x, y
      <3> QED
        BY <2>1, Wrap
    <2>3. (IF x < UINT THEN x ELSE x - UINT) = (IF y < UINT THEN y ELSE y - UINT)
      BY <1>a, <1>2, <1>e DEF TypeOK
    <2> QED
      BY <2>2, <2>3
  <1>7. Queue' = Tail(Queue)
    <2>1. (Queue \in Seq(Bytes) /\ Len(Queue) = Held)'
      BY <1>1, QueueType, PTL
    <2>2. Tail(Queue) \in Seq(Bytes) /\ Len(Tail(Queue)) = Held - 1
      BY <1>4
    <2>3. ASSUME NEW k \in 1 .. Held - 1 PROVE Queue'[k] = Tail(Queue)[k]
      <3>1. Queue'[k] = data[((nread' + k - 1) % UINT) % PIPESIZE]
        BY <1>3, <1>c DEF Queue
      <3>2. Tail(Queue)[k] = Queue[k + 1]
        BY <1>2, <1>4
      <3>3. Queue[k + 1] = data[((nread + (k + 1) - 1) % UINT) % PIPESIZE]
        BY <1>a, <1>2 DEF Queue
      <3> QED
        BY <1>6, <3>1, <3>2, <3>3
    <2> QED
      BY <1>3, <2>1, <2>2, <2>3, SeqEqual
  <1>8. sent' = taken' \o Queue'
    <2>1. taken \in Seq(Bytes) /\ sent = taken \o Queue
      BY FIFOQueue DEF TypeOK
    <2>2. Append(taken, Queue[1]) \o Tail(Queue) = taken \o Queue
      BY <1>4, <2>1, MoveHead
    <2> QED
      BY <1>b, <1>c, <1>5, <1>7, <2>1, <2>2
  <1>9. FIFO'
    BY <1>a, <1>2, <1>3, <1>8 DEF FIFO, Queue
  <1> QED
    BY <1>1, <1>9

\* The other steps leave the ring alone.
LEMMA RingUntouched ==
    ASSUME QueueInv, UNCHANGED <<data, nread, nwrite, sent, taken>>,
           DOMAIN pc' = Procs, i' \in [Procs -> Int], calls' \in [Writers -> Int],
           \A p \in Procs : pc'[p] = "write" => p \in Writers
    PROVE  QueueInv'
  BY DEF QueueInv, TypeOK, FIFO, Held

\* Every step preserves FIFO order.
LEMMA QueueInvStep == QueueInv /\ [Next]_vars => QueueInv'
  <1> SUFFICES ASSUME QueueInv, [Next]_vars PROVE QueueInv'
    OBVIOUS
  <1> USE DEF Goto, WakeupAnd, pipe
  <1>t. TypeOK
    BY DEF QueueInv
  <1>1. CASE UNCHANGED vars
    BY <1>1, <1>t, RingUntouched DEF vars, TypeOK
  <1>2. ASSUME NEW p \in Procs, Call(p) PROVE QueueInv'
    BY <1>2, <1>t, RingUntouched DEF Call, TypeOK
  <1>3. ASSUME NEW p \in Procs, Acquire(p) PROVE QueueInv'
    BY <1>3, <1>t, RingUntouched DEF Acquire, TypeOK
  <1>4. ASSUME NEW p \in Procs, WriteFails(p) \/ WriteSleeps(p) \/ WriteReturns(p) PROVE QueueInv'
    BY <1>4, <1>t, RingUntouched DEF WriteFails, WriteSleeps, WriteReturns, TypeOK
  <1>5. ASSUME NEW p \in Procs, ReadWaits(p) \/ ReadStarts(p) \/ ReadReturns(p) PROVE QueueInv'
    BY <1>5, <1>t, RingUntouched DEF ReadWaits, ReadStarts, ReadReturns, TypeOK
  <1>6. ASSUME NEW p \in Procs, Sleep(p) PROVE QueueInv'
    BY <1>6, <1>t, RingUntouched DEF Sleep, TypeOK
  <1>7. ASSUME NEW p \in Procs, fileclose(p) PROVE QueueInv'
    BY <1>7, <1>t, RingUntouched DEF fileclose, TypeOK
  <1>8. ASSUME NEW p \in Procs, pipeclose(p) PROVE QueueInv'
    BY <1>8, <1>t, RingUntouched DEF pipeclose, TypeOK
  <1>9. ASSUME NEW p \in Procs, kill(p) PROVE QueueInv'
    BY <1>9, <1>t, RingUntouched DEF kill, TypeOK
  <1>10. CASE freed /\ UNCHANGED vars
    BY <1>1, <1>10
  <1> QED
    BY <1>1, <1>2, <1>3, <1>4, <1>5, <1>6, <1>7, <1>8, <1>9, <1>10, WriteByteStep, ReadByteStep
       DEF Next, Proc, pipewrite, piperead

\* Bytes are read in the order they were written, none is lost or read twice,
\* for every size of the ring and however often nread and nwrite have wrapped
\* around.
THEOREM FIFOSafety == Spec => []FIFO
  <1>1. ASSUME Init PROVE QueueInv
    <2>1. TypeOK
      BY <1>1, PipeAssumption DEF Init, TypeOK, Bytes
    <2>2. Held = 0
      BY <2>1, <1>1, HeldValue DEF HeldIs, Init
    <2>3. Queue = <<>>
      BY <2>1, <2>2, QueueType
    <2> QED
      BY <1>1, <2>1, <2>2, <2>3, PipeAssumption, FIFOQueue DEF Init, QueueInv
  <1>2. QueueInv => FIFO
    BY DEF QueueInv
  <1> QED
    BY <1>1, <1>2, QueueInvStep, PTL DEF Spec

-----------------------------------------------------------------------------
\* Who has an end open, and what readopen and writeopen know of it: a process
\* that has closed its end is on its way to pipeclose, as the last one of its
\* side, or gone; and an end is marked closed when its whole side is gone.
EndsInv ==
    /\ {readopen, writeopen, freed} \subseteq BOOLEAN
    /\ open \subseteq Procs /\ DOMAIN pc = Procs
    /\ \A p \in Procs : p \in open <=> pc[p] \notin {"closing", "gone"}
    /\ \A p \in Procs : pc[p] = "closing" => open \cap Side(p) = {}
    /\ \A p, q \in Procs : pc[p] = "closing" /\ pc[q] = "closing" /\ Side(p) = Side(q) => p = q
    /\ ~readopen => \A p \in Readers : pc[p] = "gone"
    /\ ~writeopen => \A p \in Writers : pc[p] = "gone"
    /\ freed => ~readopen /\ ~writeopen

\* Steps inside a read or a write move processes that have their end open, and
\* leave it open.
LEMMA EndsUntouched ==
    ASSUME EndsInv, UNCHANGED <<open, readopen, writeopen, freed>>, DOMAIN pc' = Procs,
           \A p \in Procs : pc'[p] = pc[p] \/ {pc[p], pc'[p]} \cap {"closing", "gone"} = {}
    PROVE  EndsInv'
  BY DEF EndsInv, Procs, Side

\* fileclose goes on to pipeclose only for the last process of a side.
LEMMA FilecloseEnds == ASSUME EndsInv, NEW p \in Procs, fileclose(p) PROVE EndsInv'
  <1> USE DEF EndsInv, Procs
  <1>1. pc[p] = "out" /\ p \in open /\ open' = open \ {p}
    BY DEF fileclose
  <1>2. /\ UNCHANGED <<readopen, writeopen, freed>> /\ DOMAIN pc' = Procs
        /\ \A q \in Procs \ {p} : pc'[q] = pc[q]
        /\ pc'[p] = IF open' \cap Side(p) = {} THEN "closing" ELSE "gone"
    BY DEF fileclose, Goto, pipe
  <1>3. p \in Side(p) /\ \A q \in Procs : Side(q) = Side(p) <=> q \in Side(p)
    BY PipeAssumption DEF Side
  <1>4. \A q \in Side(p) : pc[q] # "closing"
    BY <1>1, <1>3 DEF Side
  <1>5. (p \in Readers => readopen) /\ (p \in Writers => writeopen)
    BY <1>1
  <1>6. \A q \in Procs : pc'[q] = "closing" => open' \cap Side(q) = {}
    BY <1>1, <1>2
  <1>7. \A q, r \in Procs : pc'[q] = "closing" /\ pc'[r] = "closing" /\ Side(q) = Side(r) => q = r
    BY <1>2, <1>3, <1>4
  <1> QED
    BY <1>1, <1>2, <1>5, <1>6, <1>7

\* pipeclose marks an end closed when its whole side is gone.
LEMMA PipecloseEnds == ASSUME EndsInv, NEW p \in Procs, pipeclose(p) PROVE EndsInv'
  <1> USE DEF EndsInv, Procs
  <1>1. pc[p] = "closing" /\ p \notin open
    BY DEF pipeclose
  <1>2. /\ readopen' = (readopen /\ p \notin Readers) /\ writeopen' = (writeopen /\ p \notin Writers)
        /\ freed' = (~readopen' /\ ~writeopen') /\ UNCHANGED open
    BY DEF pipeclose, LastEnd
  <1>3. /\ DOMAIN pc' = Procs /\ pc'[p] = "gone"
        /\ \A q \in Procs \ {p} : pc'[q] = pc[q] \/ {pc[q], pc'[q]} \cap {"closing", "gone"} = {}
    BY DEF pipeclose, WakeupAnd
  <1>4. \A q \in Procs : Side(q) = Side(p) <=> q \in Side(p)
    BY PipeAssumption DEF Side
  <1>5. \A q \in Side(p) : pc'[q] = "gone"
    BY <1>1, <1>3, <1>4 DEF Side
  <1>6. \A q \in Procs : pc'[q] = "closing" => open' \cap Side(q) = {}
    BY <1>2, <1>3
  <1>7. \A q, r \in Procs : pc'[q] = "closing" /\ pc'[r] = "closing" /\ Side(q) = Side(r) => q = r
    BY <1>3
  <1>8. {readopen', writeopen', freed'} \subseteq BOOLEAN /\ (freed' => ~readopen' /\ ~writeopen')
    BY <1>2
  <1>9. ~readopen' => \A q \in Readers : pc'[q] = "gone"
    BY <1>2, <1>3, <1>5, PipeAssumption DEF Side
  <1>10. ~writeopen' => \A q \in Writers : pc'[q] = "gone"
    BY <1>2, <1>3, <1>5 DEF Side
  <1>11. \A q \in Procs : q \in open' <=> pc'[q] \notin {"closing", "gone"}
    BY <1>1, <1>2, <1>3
  <1> QED
    BY <1>2, <1>3, <1>6, <1>7, <1>8, <1>9, <1>10, <1>11

\* Every step preserves it.
LEMMA EndsStep == EndsInv /\ [Next]_vars => EndsInv'
  <1> SUFFICES ASSUME EndsInv, [Next]_vars PROVE EndsInv'
    OBVIOUS
  <1> USE DEF Goto, WakeupAnd, pipe
  <1>d. DOMAIN pc = Procs
    BY DEF EndsInv
  <1>1. CASE UNCHANGED vars
    BY <1>1, <1>d, EndsUntouched DEF vars
  <1>2. ASSUME NEW p \in Procs, Call(p) \/ Acquire(p) \/ Sleep(p) PROVE EndsInv'
    BY <1>2, <1>d, EndsUntouched DEF Call, Acquire, Sleep
  <1>3. ASSUME NEW p \in Procs, pipewrite(p) PROVE EndsInv'
    BY <1>3, <1>d, EndsUntouched DEF pipewrite, WriteFails, WriteSleeps, WriteByte, WriteReturns, CanWrite
  <1>4. ASSUME NEW p \in Procs, piperead(p) PROVE EndsInv'
    BY <1>4, <1>d, EndsUntouched DEF piperead, ReadWaits, ReadStarts, ReadByte, ReadReturns
  <1>5. ASSUME NEW p \in Procs, kill(p) PROVE EndsInv'
    BY <1>5, <1>d, EndsUntouched DEF kill
  <1>6. CASE freed /\ UNCHANGED vars
    BY <1>1, <1>6
  <1> QED
    BY <1>1, <1>2, <1>3, <1>4, <1>5, <1>6, FilecloseEnds, PipecloseEnds DEF Next, Proc

\* The bookkeeping of the two ends is right at all times.
THEOREM EndsInvariant == Spec => []EndsInv
  <1>1. Init => EndsInv
    BY PipeAssumption DEF Init, EndsInv, Procs
  <1> QED
    BY <1>1, EndsStep, PTL DEF Spec

\* kfree(pi) happens only when nobody is in piperead, pipewrite or pipeclose
\* or can get there: the side that closes last finds both ends closed.
THEOREM NoUseAfterFreeSafety == Spec => []NoUseAfterFree
  <1>1. EndsInv => NoUseAfterFree
    BY DEF EndsInv, NoUseAfterFree, Procs
  <1> QED
    BY <1>1, EndsInvariant, PTL

\* A freed pipe is touched by no later step, kill included.
FreedStaysFreed == [][freed => UNCHANGED <<lock, pipe>>]_vars

\* The page of a pipe that was freed is left alone from then on.
THEOREM FreedUntouched == Spec => FreedStaysFreed
  <1>1. EndsInv /\ [Next]_vars => [freed => UNCHANGED <<lock, pipe>>]_vars
    <2> SUFFICES ASSUME EndsInv, Next, freed PROVE UNCHANGED <<lock, pipe>>
      OBVIOUS
    <2>1. open = {} /\ \A p \in Procs : pc[p] = "gone"
      BY DEF EndsInv, Procs
    <2> QED
      BY <2>1 DEF Next, Proc, Call, Acquire, Sleep, pipewrite, WriteFails, WriteSleeps, WriteByte,
         WriteReturns, CanWrite, piperead, ReadWaits, ReadStarts, ReadByte, ReadReturns, fileclose,
         pipeclose, kill, vars
  <1> QED
    BY <1>1, EndsInvariant, PTL DEF Spec, FreedStaysFreed
=============================================================================
