---------------------------- MODULE DriversProofs ----------------------------
\* What the clock and the log promise: sleeps of the right length, atomic
\* transactions and room for what operations write.
EXTENDS LogProofs, Clock

-----------------------------------------------------------------------------
\* The clock.

\* A number in range is the remainder of everything that differs from it by a
\* multiple.
LEMMA ModUnique ==
    ASSUME NEW n \in Nat \ {0}, NEW q \in Int, NEW r \in 0 .. n - 1 PROVE (q * n + r) % n = r
  <1> DEFINE a == q * n + r
             k == (a \div n) - q
  <1>1. a \in Int /\ k \in Int /\ a \div n \in Int /\ a % n \in 0 .. n - 1
    OBVIOUS
  <1>2. a = n * (a \div n) + (a % n)
    OBVIOUS
  <1>3. k * n = r - (a % n)
    BY <1>1, <1>2
  <1>4. k >= 1 => k * n >= n
    BY <1>1
  <1>5. k <= -1 => k * n <= -n
    BY <1>1
  <1>6. k = 0
    BY <1>1, <1>3, <1>4, <1>5
  <1> QED
    BY <1>1, <1>3, <1>6

\* ticks - ticks0 as an unsigned number, without the remainder.
LEMMA UnsignedValue ==
    ASSUME NEW x \in Int, -TICKMAX <= x, x < 2 * TICKMAX
    PROVE  Unsigned(x) = IF x < 0 THEN x + TICKMAX ELSE IF x < TICKMAX THEN x ELSE x - TICKMAX
  <1>0. TICKMAX \in Nat \ {0}
    BY ClockAssumption
  <1>1. CASE x < 0
    <2>1. x + TICKMAX \in 0 .. TICKMAX - 1 /\ x = (-1) * TICKMAX + (x + TICKMAX)
      BY <1>0, <1>1
    <2> QED
      BY <1>0, <1>1, <2>1, ModUnique DEF Unsigned
  <1>2. CASE 0 <= x /\ x < TICKMAX
    <2>1. x \in 0 .. TICKMAX - 1 /\ x = 0 * TICKMAX + x
      BY <1>0, <1>2
    <2> QED
      BY <1>0, <1>2, <2>1, ModUnique DEF Unsigned
  <1>3. CASE TICKMAX <= x
    <2>1. x - TICKMAX \in 0 .. TICKMAX - 1 /\ x = 1 * TICKMAX + (x - TICKMAX)
      BY <1>0, <1>3
    <2> QED
      BY <1>0, <1>3, <2>1, ModUnique DEF Unsigned
  <1> QED
    BY <1>0, <1>1, <1>2, <1>3

Naptimes == [at : {"out", "asleep", "woken"}, n : Int, ticks0 : 0 .. TICKMAX - 1, killed : BOOLEAN]

\* The inductive invariant of the clock: the difference of the two counters,
\* taken as an unsigned number, is the time that has passed, and a process goes
\* back to sleep only when that is too short.
ClockInv ==
    /\ ticks \in 0 .. TICKMAX - 1
    /\ nap \in [Sleepers -> Naptimes]
    /\ passed \in [Sleepers -> 0 .. TICKMAX - 1]
    /\ \A p \in Sleepers : nap[p].at # "out" => Unsigned(ticks - nap[p].ticks0) = passed[p]
    /\ \A p \in Sleepers : nap[p].at = "asleep" => passed[p] < Unsigned(nap[p].n)

\* An unsigned number is below TICKMAX.
LEMMA UnsignedRange ==
    ASSUME NEW n \in Int PROVE Unsigned(n) \in 0 .. TICKMAX - 1
  BY ClockAssumption DEF Unsigned

\* A tick adds one to the difference of the counters, across the wrap-around,
\* as long as the difference is not the largest one.
LEMMA TickDifference ==
    ASSUME NEW t \in 0 .. TICKMAX - 1, NEW t0 \in 0 .. TICKMAX - 1,
           Unsigned(t - t0) < TICKMAX - 1
    PROVE  Unsigned(Unsigned(t + 1) - t0) = Unsigned(t - t0) + 1
  <1> DEFINE x == t - t0
             y == t + 1
             z == Unsigned(t + 1) - t0
  <1>0. TICKMAX \in Nat \ {0, 1}
    BY ClockAssumption
  <1>1. x \in Int /\ -TICKMAX <= x /\ x < 2 * TICKMAX
    BY <1>0
  <1>2. y \in Int /\ -TICKMAX <= y /\ y < 2 * TICKMAX
    BY <1>0
  <1>3. Unsigned(x) = IF x < 0 THEN x + TICKMAX ELSE IF x < TICKMAX THEN x ELSE x - TICKMAX
    <2> HIDE DEF x
    <2> QED
      BY <1>1, UnsignedValue
  <1>4. Unsigned(y) = IF y < TICKMAX THEN y ELSE y - TICKMAX
    <2>1. y >= 0
      BY <1>0
    <2> HIDE DEF y
    <2> QED
      BY <1>0, <1>2, <2>1, UnsignedValue
  <1>5. z = IF t + 1 < TICKMAX THEN t + 1 - t0 ELSE t + 1 - TICKMAX - t0
    BY <1>0, <1>4
  <1>6. z \in Int /\ -TICKMAX <= z /\ z < 2 * TICKMAX
    BY <1>0, <1>5
  <1>7. Unsigned(z) = IF z < 0 THEN z + TICKMAX ELSE IF z < TICKMAX THEN z ELSE z - TICKMAX
    <2> HIDE DEF z
    <2> QED
      BY <1>6, UnsignedValue
  <1>8. Unsigned(x) < TICKMAX - 1
    OBVIOUS
  <1>9. Unsigned(z) = Unsigned(x) + 1
    <2>1. CASE t + 1 < TICKMAX
      BY <1>0, <1>3, <1>5, <1>7, <1>8, <2>1
    <2>2. CASE t + 1 >= TICKMAX
      BY <1>0, <1>3, <1>5, <1>7, <1>8, <2>2
    <2> QED
      BY <1>0, <2>1, <2>2
  <1> QED
    BY <1>9

\* sys_sleep() up to its first sleep.
LEMMA BeginStep ==
    ASSUME ClockInv, NEW p \in Sleepers, NEW n \in Naps, Begin(p, n) PROVE ClockInv'
  <1>0. TICKMAX \in Nat \ {0, 1} /\ n \in Int
    BY ClockAssumption DEF Naps
  <1>1. Unsigned(0) = 0
    <2>1. 0 \in Int /\ -TICKMAX <= 0 /\ 0 < 2 * TICKMAX
      BY <1>0
    <2> QED
      BY <1>0, <2>1, UnsignedValue
  <1>2. ticks' = ticks /\ ticks \in 0 .. TICKMAX - 1 /\ ticks - ticks = 0
    BY <1>0 DEF ClockInv, Begin
  <1>3. passed' \in [Sleepers -> 0 .. TICKMAX - 1] /\ passed'[p] = 0
    BY <1>0 DEF ClockInv, Begin
  <1>4. nap' \in [Sleepers -> Naptimes]
    <2>1. Awake \in Naptimes
      BY <1>0 DEF Awake, Naptimes
    <2>2. [Awake EXCEPT !.at = "asleep", !.n = n, !.ticks0 = ticks] \in Naptimes
      BY <1>0, <1>2 DEF Awake, Naptimes
    <2> QED
      BY <2>1, <2>2 DEF ClockInv, Begin
  <1>5. \A q \in Sleepers : q # p => nap'[q] = nap[q] /\ passed'[q] = passed[q]
    BY DEF ClockInv, Begin
  <1>6. CASE Unsigned(n) = 0
    <2>1. nap'[p].at = "out"
      BY <1>6 DEF ClockInv, Begin, Awake
    <2> QED
      BY <1>2, <1>3, <1>4, <1>5, <2>1 DEF ClockInv
  <1>7. CASE Unsigned(n) # 0
    <2>1. nap'[p].at = "asleep" /\ nap'[p].n = n /\ nap'[p].ticks0 = ticks
      BY <1>7 DEF ClockInv, Begin, Awake
    <2>2. Unsigned(n) > 0
      BY <1>0, <1>7, UnsignedRange
    <2> QED
      BY <1>1, <1>2, <1>3, <1>4, <1>5, <2>1, <2>2 DEF ClockInv
  <1> QED
    BY <1>6, <1>7

\* A process that was woken up looks at the clock.
LEMMA AgainStep ==
    ASSUME ClockInv, NEW p \in Sleepers, Again(p) PROVE ClockInv'
  <1>0. TICKMAX \in Nat \ {0, 1}
    BY ClockAssumption
  <1>1. ticks' = ticks /\ nap[p].at = "woken" /\ nap[p] \in Naptimes /\ passed[p] \in 0 .. TICKMAX - 1
    BY DEF ClockInv, Again
  <1>2. \A q \in Sleepers : q # p => nap'[q] = nap[q]
    BY DEF ClockInv, Again
  <1>3. CASE Due(p) \/ nap[p].killed
    <2>1. nap'[p] = [Awake EXCEPT !.killed = nap[p].killed]
      BY <1>3 DEF ClockInv, Again
    <2>2. nap'[p].at = "out" /\ nap'[p] \in Naptimes
      BY <1>0, <1>1, <2>1 DEF Awake, Naptimes
    <2>3. nap' \in [Sleepers -> Naptimes]
      BY <1>2, <2>2 DEF ClockInv, Again
    <2>4. passed' = [passed EXCEPT ![p] = 0]
      BY <2>2 DEF Again
    <2> QED
      BY <1>0, <1>1, <1>2, <2>2, <2>3, <2>4 DEF ClockInv
  <1>4. CASE ~(Due(p) \/ nap[p].killed)
    <2>1. nap'[p] = [nap[p] EXCEPT !.at = "asleep"]
      BY <1>4 DEF ClockInv, Again
    <2>2. /\ nap'[p].at = "asleep" /\ nap'[p] \in Naptimes
          /\ nap'[p].n = nap[p].n /\ nap'[p].ticks0 = nap[p].ticks0
      BY <1>1, <2>1 DEF Naptimes
    <2>3. nap' \in [Sleepers -> Naptimes]
      BY <1>2, <2>2 DEF ClockInv, Again
    <2>4. passed' = passed
      BY <2>2 DEF Again
    <2>5. Unsigned(ticks - nap[p].ticks0) = passed[p]
      BY <1>1 DEF ClockInv
    <2>6. passed[p] < Unsigned(nap[p].n)
      <3>1. Unsigned(nap[p].n) \in 0 .. TICKMAX - 1
        BY <1>1, UnsignedRange DEF Naptimes
      <3> QED
        BY <1>0, <1>1, <1>4, <2>5, <3>1 DEF Due
    <2> QED
      BY <1>1, <1>2, <2>2, <2>3, <2>4, <2>5, <2>6 DEF ClockInv
  <1> QED
    BY <1>3, <1>4

\* clockintr(): the counter goes on, past its wrap-around, and every sleeper
\* is woken up.
LEMMA clockintrStep ==
    ASSUME ClockInv, clockintr PROVE ClockInv'
  <1>0. TICKMAX \in Nat \ {0, 1}
    BY ClockAssumption
  <1>1. ticks \in 0 .. TICKMAX - 1 /\ ticks' = Unsigned(ticks + 1)
    BY DEF ClockInv, clockintr
  <1>2. ticks' \in 0 .. TICKMAX - 1
    <2> DEFINE y == ticks + 1
    <2>1. y \in Int
      BY <1>0, <1>1
    <2> HIDE DEF y
    <2>2. Unsigned(y) \in 0 .. TICKMAX - 1
      BY <2>1, UnsignedRange
    <2> QED
      BY <1>1, <2>2 DEF y
  <1>3. ASSUME NEW q \in Sleepers
        PROVE  /\ nap'[q] \in Naptimes /\ nap'[q].at # "asleep"
               /\ passed'[q] \in 0 .. TICKMAX - 1
               /\ nap'[q].at # "out" => Unsigned(ticks' - nap'[q].ticks0) = passed'[q]
    <2>1. nap[q] \in Naptimes /\ passed[q] \in 0 .. TICKMAX - 1
      BY DEF ClockInv
    <2>2. nap'[q] = IF nap[q].at = "asleep" THEN [nap[q] EXCEPT !.at = "woken"] ELSE nap[q]
      BY DEF clockintr
    <2>3. /\ nap'[q] \in Naptimes /\ nap'[q].at # "asleep" /\ nap'[q].ticks0 = nap[q].ticks0
          /\ nap'[q].at = "out" <=> nap[q].at = "out"
      BY <2>1, <2>2 DEF Naptimes
    <2>4. passed'[q] = IF nap[q].at = "out" THEN passed[q] ELSE passed[q] + 1
      BY <1>0, <2>1 DEF clockintr
    <2>5. CASE nap[q].at = "out"
      BY <2>1, <2>3, <2>4, <2>5
    <2>6. CASE nap[q].at # "out"
      <3>1. passed[q] < TICKMAX - 1
        <4>1. CASE nap[q].at = "asleep"
          <5>1. passed[q] < Unsigned(nap[q].n) /\ Unsigned(nap[q].n) \in 0 .. TICKMAX - 1
            BY <2>1, <4>1, UnsignedRange DEF ClockInv, Naptimes
          <5> QED
            BY <1>0, <2>1, <5>1
        <4>2. CASE nap[q].at = "woken"
          BY <4>2 DEF clockintr, Punctual
        <4> QED
          BY <2>1, <2>6, <4>1, <4>2 DEF Naptimes
      <3>2. Unsigned(ticks - nap[q].ticks0) = passed[q] /\ nap[q].ticks0 \in 0 .. TICKMAX - 1
        BY <2>1, <2>6 DEF ClockInv, Naptimes
      <3>3. Unsigned(ticks' - nap[q].ticks0) = passed[q] + 1
        BY <1>1, <3>1, <3>2, TickDifference
      <3> QED
        BY <1>0, <2>1, <2>3, <2>4, <2>6, <3>1, <3>3
    <2> QED
      BY <2>5, <2>6
  <1>4. nap' \in [Sleepers -> Naptimes] /\ passed' \in [Sleepers -> 0 .. TICKMAX - 1]
    <2>1. nap' = [q \in Sleepers |-> nap'[q]] /\ passed' = [q \in Sleepers |-> passed'[q]]
      BY DEF clockintr
    <2> QED
      BY <1>3, <2>1
  <1> QED
    BY <1>2, <1>3, <1>4 DEF ClockInv

\* kill() marks a process and wakes it up if it is asleep.
LEMMA killsleeperStep ==
    ASSUME ClockInv, NEW p \in Sleepers, killsleeper(p) PROVE ClockInv'
  <1>1. ticks' = ticks /\ passed' = passed /\ nap[p] \in Naptimes
    BY DEF ClockInv, killsleeper
  <1> DEFINE w == IF nap[p].at = "asleep" THEN "woken" ELSE nap[p].at
             r == [nap[p] EXCEPT !.killed = TRUE, !.at = w]
  <1>2. nap' = [nap EXCEPT ![p] = r]
    BY DEF ClockInv, killsleeper, Naptimes
  <1>3. \A q \in Sleepers : q # p => nap'[q] = nap[q]
    BY <1>2 DEF ClockInv
  <1>4. nap'[p] = r
    BY <1>2 DEF ClockInv
  <1>5. /\ nap'[p] \in Naptimes /\ nap'[p].at # "asleep" /\ nap'[p].ticks0 = nap[p].ticks0
        /\ nap'[p].at = "out" <=> nap[p].at = "out"
    BY <1>1, <1>4 DEF Naptimes
  <1>6. nap' \in [Sleepers -> Naptimes]
    BY <1>2, <1>5 DEF ClockInv
  <1> QED
    BY <1>1, <1>3, <1>5, <1>6 DEF ClockInv

\* Every step of the clock keeps the invariant.
LEMMA ClockStepInv ==
    ClockInv /\ ClockNext => ClockInv'
  BY BeginStep, AgainStep, clockintrStep, killsleeperStep DEF ClockNext, sys_sleep

\* It holds at the start, wherever the counter is.
LEMMA ClockInitInv ==
    ClockInit => ClockInv
  <1> SUFFICES ASSUME ClockInit PROVE ClockInv
    OBVIOUS
  <1>1. TICKMAX \in Nat \ {0, 1}
    BY ClockAssumption
  <1>2. Awake \in Naptimes /\ Awake.at = "out"
    BY <1>1 DEF Awake, Naptimes
  <1> QED
    BY <1>1, <1>2 DEF ClockInit, ClockInv

\* A sleep that is going on has not lasted long enough, and one that is over has.
LEMMA ClockInvSafe ==
    ClockInv => SleepsLongEnough
  BY DEF ClockInv, SleepsLongEnough, Due

-----------------------------------------------------------------------------
\* The log as an atomic disk.

\* What a crash would leave, block by block.
DurableIs ==
    /\ Durable = [b \in Blocks |-> Durable[b]]
    /\ \A k \in 1 .. Len(head) : Durable[head[k]] = logdata[k]
    /\ \A b \in Blocks : b \notin Listed(head) => Durable[b] = disk[b]

\* What recovery makes of a block: the copy the header lists, or what is at home.
LEMMA DurableValue ==
    LogTypeOK => DurableIs
  <1> SUFFICES ASSUME LogTypeOK PROVE DurableIs
    OBVIOUS
  <1>1. Durable = [b \in Blocks |-> Durable[b]]
    BY DEF Durable
  <1>2. ASSUME NEW k \in 1 .. Len(head) PROVE Durable[head[k]] = logdata[k]
    <2>1. head[k] \in Blocks /\ head[k] \in Listed(head)
      BY ListedBlocks DEF LogTypeOK
    <2>2. \A j \in 1 .. Len(head) : head[j] = head[k] => j = k
      BY DEF LogTypeOK, Distinct
    <2>3. (CHOOSE j \in 1 .. Len(head) : head[j] = head[k]) = k
      BY <2>2
    <2> QED
      BY <2>1, <2>3 DEF Durable
  <1>3. ASSUME NEW b \in Blocks, b \notin Listed(head) PROVE Durable[b] = disk[b]
    BY <1>3 DEF Durable
  <1> QED
    BY <1>1, <1>2, <1>3 DEF DurableIs

\* What system calls see while the system is up.
LEMMA CurrentUp ==
    boot = "up" => Current = [b \in Blocks |-> bread(b)]
  BY DEF Current

\* Steps that leave the disk alone.
LEMMA StorageUntouched ==
    ASSUME UNCHANGED storage PROVE Durable' = Durable
  BY DEF storage, Durable, Listed

\* Recycling changes nothing anyone sees.
LEMMA RecycleRefines ==
    ASSUME LogInv, NEW b \in Blocks, Recycle(b) PROVE UNCHANGED AD!avars
  <1>1. Durable' = Durable
    BY StorageUntouched DEF Recycle
  <1>2. boot = "up" /\ boot' = "up" /\ pc' = pc
    BY DEF Recycle, Running
  <1>3. \A c \in Blocks : bread(c)' = bread(c)
    BY RecycleStep
  <1>4. Current' = Current
    BY <1>2, <1>3 DEF Current
  <1> QED
    BY <1>1, <1>2, <1>4 DEF AD!avars, Ops

\* begin_op begins an operation or does nothing.
LEMMA begin_opRefines ==
    ASSUME LogInv, NEW p \in Procs, begin_op(p) PROVE AD!ABegin(p) \/ UNCHANGED AD!avars
  <1>1. Durable' = Durable
    BY StorageUntouched DEF begin_op
  <1>2. Current' = Current
    BY <1>1 DEF begin_op, Current, bread, storage
  <1>3. Ops' = Ops \/ (p \notin Ops /\ Ops' = Ops \cup {p})
    BY begin_opStep
  <1> QED
    BY <1>1, <1>2, <1>3 DEF AD!ABegin, AD!avars

\* log_write writes one block for the operation.
LEMMA log_writeRefines ==
    ASSUME LogInv, NEW p \in Procs, NEW b \in Blocks, NEW v \in Values, log_write(p, b, v) PROVE AD!AWrite(p, b, v)
  <1>1. Durable' = Durable
    BY StorageUntouched DEF log_write
  <1>2. boot = "up" /\ boot' = "up" /\ pc' = pc /\ pc[p] = "op" /\ disk' = disk /\ cache' = [cache EXCEPT ![b] = v]
    BY DEF log_write, Running, storage
  <1>3. v # NoBuf
    BY LogAssumption
  <1>4. bread(b)' = v /\ \A c \in Blocks : c # b => bread(c)' = bread(c)
    BY <1>2, <1>3 DEF bread, LogInv, LogTypeOK
  <1>5. Current' = [Current EXCEPT ![b] = v]
    <2>1. Current' = [c \in Blocks |-> bread(c)'] /\ Current = [c \in Blocks |-> bread(c)]
      BY <1>2 DEF Current
    <2> QED
      BY <1>4, <2>1
  <1>6. p \in Ops /\ Ops' = Ops
    BY <1>2 DEF Ops
  <1> QED
    BY <1>1, <1>5, <1>6 DEF AD!AWrite

\* end_op ends the operation; the commit is still to come.
LEMMA end_opRefines ==
    ASSUME LogInv, NEW p \in Procs, end_op(p) PROVE AD!AEnd(p)
  <1>1. Durable' = Durable
    BY StorageUntouched DEF end_op
  <1>2. Current' = Current
    BY <1>1 DEF end_op, Current, bread, storage
  <1>3. p \in Ops /\ Ops' = Ops \ {p}
    BY end_opLastStep, end_opStep
  <1> QED
    BY <1>1, <1>2, <1>3 DEF AD!AEnd

\* Writing to the log shows nowhere: no header lists it.
LEMMA write_logRefines ==
    ASSUME LogInv, NEW p \in Procs, write_log(p) PROVE UNCHANGED AD!avars
  <1>1. head = <<>> /\ head' = <<>> /\ disk' = disk /\ boot' = boot /\ cache' = cache
    <2>1. pc[p] \in Stages /\ pc[p] = "write_log"
      BY DEF write_log, Stages
    <2>2. boot = "up" /\ \A q \in Procs : q # p => pc[q] \notin Stages
      BY <2>1, CommitFacts
    <2>3. head = <<>>
      BY <2>1, <2>2 DEF LogInv, HeadIs, Stages
    <2> QED
      BY <2>3 DEF write_log
  <1>2. Listed(head) = {} /\ Listed(head') = {}
    BY <1>1, EmptyList
  <1>3. Durable' = Durable
    BY <1>1, <1>2 DEF Durable
  <1>4. Current' = Current
    BY <1>1, <1>3 DEF Current, bread
  <1> QED
    BY <1>3, <1>4, write_logStep DEF AD!avars

\* Writing the header commits: everything that was written is there after a
\* crash, and none of it was before.
LEMMA write_headRefines ==
    ASSUME LogInv, NEW p \in Procs, write_head(p) PROVE AD!ACommit
  <1>1. pc[p] = "write_head" /\ head' = lh /\ disk' = disk /\ logdata' = logdata /\ cache' = cache /\ boot' = boot
    BY DEF write_head
  <1>2. boot = "up" /\ Ops = {} /\ \A q \in Procs : q # p => pc[q] \notin Stages
    BY <1>1, CommitFacts DEF Stages
  <1>3. LogInv' /\ Ops' = Ops
    BY write_headStep
  <1>4. Current' = Current
    BY <1>1, <1>2 DEF Current, bread
  <1>5. Current = [b \in Blocks |-> bread(b)]
    BY <1>2, CurrentUp
  <1>6. DurableIs'
    <2>1. LogTypeOK'
      BY <1>3 DEF LogInv
    <2> QED
      BY <2>1, DurableValue, PTL
  <1>7. ASSUME NEW b \in Blocks PROVE Durable'[b] = bread(b)
    <2>1. CASE b \in Listed(lh)
      <3>1. PICK k \in 1 .. Len(lh) : lh[k] = b
        BY <2>1 DEF Listed
      <3>2. Durable'[head'[k]] = logdata'[k]
        BY <1>1, <1>6 DEF DurableIs
      <3>3. logdata[k] = bread(lh[k])
        BY <1>1 DEF LogInv, CopyIs
      <3> QED
        BY <1>1, <3>1, <3>2, <3>3
    <2>2. CASE b \notin Listed(lh)
      <3>1. Durable'[b] = disk'[b]
        BY <1>1, <1>6, <2>2 DEF DurableIs
      <3>2. pin[b] = 0
        BY <1>1, <1>2, <2>2 DEF LogInv, PinIs, Stages
      <3>3. bread(b) = disk[b]
        BY <3>2 DEF LogInv, CacheIs, bread
      <3> QED
        BY <1>1, <3>1, <3>3
    <2> QED
      BY <2>1, <2>2
  <1>8. Durable' = Current
    <2>1. Durable' = [b \in Blocks |-> Durable'[b]]
      BY <1>6 DEF DurableIs
    <2> QED
      BY <1>5, <1>7, <2>1
  <1> QED
    BY <1>2, <1>3, <1>4, <1>8 DEF AD!ACommit

\* Installing a block changes neither what a crash would leave, which is in the
\* log, nor what system calls see.
LEMMA install_transRefines ==
    ASSUME LogInv, NEW p \in Procs, install_trans(p) PROVE UNCHANGED AD!avars
  <1>1. /\ pc[p] = "install_trans" /\ head' = head /\ logdata' = logdata /\ boot' = boot
        /\ disk' = [disk EXCEPT ![lh[tail + 1]] = logdata[tail + 1]]
    BY DEF install_trans, Home
  <1>2. boot = "up" /\ head = lh
    BY <1>1, CommitFacts DEF Stages, LogInv, HeadIs
  <1>3. LogInv' /\ Ops' = Ops /\ \A b \in Blocks : bread(b)' = bread(b)
    BY install_transStep
  <1>4. Current' = Current
    BY <1>1, <1>2, <1>3 DEF Current
  <1>5. tail + 1 \in 1 .. Len(head)
    BY <1>1, <1>2, LenProperties DEF LogInv, LogTypeOK, Control, LoopsInRange, Stages
  <1>6. \A b \in Blocks : b \notin Listed(head) => disk'[b] = disk[b]
    BY <1>1, <1>2, <1>5 DEF Listed, LogInv, LogTypeOK
  <1>7. Durable' = Durable
    BY <1>1, <1>6 DEF Durable
  <1> QED
    BY <1>3, <1>4, <1>7 DEF AD!avars

\* Clearing the header is safe, everything is installed.
LEMMA eraseRefines ==
    ASSUME LogInv, NEW p \in Procs, erase(p) PROVE UNCHANGED AD!avars
  <1>1. pc[p] = "erase" /\ head' = <<>> /\ disk' = disk /\ cache' = cache /\ boot' = boot
    BY DEF erase
  <1>2. boot = "up" /\ head = lh
    BY <1>1, CommitFacts DEF Stages, LogInv, HeadIs
  <1>3. Ops' = Ops
    BY eraseStep
  <1>4. Current' = Current
    BY <1>1, <1>2 DEF Current, bread
  <1>5. \A b \in Blocks : bread(b) = disk[b]
    BY <1>1 DEF LogInv, PinIs, CacheIs, bread
  <1>6. DurableIs
    BY DurableValue DEF LogInv
  <1>7. ASSUME NEW b \in Blocks PROVE Durable[b] = disk[b]
    <2>1. CASE b \in Listed(head)
      <3>1. PICK k \in 1 .. Len(head) : head[k] = b
        BY <2>1 DEF Listed
      <3>2. Durable[b] = logdata[k]
        BY <1>6, <3>1 DEF DurableIs
      <3>3. logdata[k] = bread(lh[k])
        BY <1>1, <1>2 DEF LogInv, CopyIs
      <3> QED
        BY <1>2, <1>5, <3>1, <3>2, <3>3
    <2>2. CASE b \notin Listed(head)
      BY <1>6, <2>2 DEF DurableIs
    <2> QED
      BY <2>1, <2>2
  <1>8. Durable' = Durable
    <2>1. Durable' = [b \in Blocks |-> disk[b]]
      BY <1>1, EmptyList DEF Durable
    <2>2. Durable = [b \in Blocks |-> Durable[b]]
      BY <1>6 DEF DurableIs
    <2> QED
      BY <1>7, <2>1, <2>2
  <1> QED
    BY <1>3, <1>4, <1>8 DEF AD!avars

\* The end of end_op shows nowhere.
LEMMA FinishRefines ==
    ASSUME LogInv, NEW p \in Procs, Finish(p) PROVE UNCHANGED AD!avars
  <1>1. Durable' = Durable
    BY StorageUntouched DEF Finish
  <1>2. Current' = Current
    BY <1>1 DEF Finish, Current, bread, storage
  <1> QED
    BY <1>1, <1>2, FinishStep DEF AD!avars

\* A crash leaves what is durable.
LEMMA CrashRefines ==
    ASSUME Crash PROVE AD!ACrash
  <1>1. Durable' = Durable
    BY StorageUntouched DEF Crash
  <1>2. Current' = Durable
    BY <1>1 DEF Crash, Current
  <1>3. Ops' = {}
    BY DEF Crash, Ops
  <1> QED
    BY <1>1, <1>2, <1>3 DEF AD!ACrash

\* Recovery, interrupted or not, ends with what is durable.
LEMMA RecoverHeadRefines ==
    ASSUME LogInv, RecoverHead PROVE UNCHANGED AD!avars
  <1>1. Durable' = Durable
    BY StorageUntouched DEF RecoverHead
  <1>2. Current' = Current
    BY <1>1 DEF RecoverHead, Current
  <1> QED
    BY <1>1, <1>2 DEF AD!avars, RecoverHead, Ops

\* Recovery copies a block home that the header lists: nothing durable changes.
LEMMA RecoverInstallRefines ==
    ASSUME LogInv, RecoverInstall PROVE UNCHANGED AD!avars
  <1>1. /\ boot = "install_trans" /\ boot' # "up" /\ head' = head /\ logdata' = logdata /\ pc' = pc
        /\ disk' = [disk EXCEPT ![lh[tail + 1]] = logdata[tail + 1]]
    BY DEF RecoverInstall, Home
  <1>2. head = lh /\ tail + 1 \in 1 .. Len(head)
    BY <1>1, LenProperties DEF LogInv, LogTypeOK, HeadIs, Control, LoopsInRange
  <1>3. \A b \in Blocks : b \notin Listed(head) => disk'[b] = disk[b]
    BY <1>1, <1>2 DEF Listed, LogInv, LogTypeOK
  <1>4. Durable' = Durable
    BY <1>1, <1>3 DEF Durable
  <1>5. Current' = Current
    BY <1>1, <1>4 DEF Current
  <1> QED
    BY <1>1, <1>4, <1>5 DEF AD!avars, Ops

\* Recovery erases the header once all it lists is at home: nothing durable changes.
LEMMA RecoverEraseRefines ==
    ASSUME LogInv, RecoverErase PROVE UNCHANGED AD!avars
  <1>1. boot = "erase" /\ boot' = "up" /\ head' = <<>> /\ disk' = disk /\ cache' = cache /\ pc' = pc
    BY DEF RecoverErase
  <1>2. head = lh /\ DurableIs
    BY <1>1, DurableValue DEF LogInv, HeadIs
  <1>3. \A b \in Blocks : bread(b) = disk[b]
    BY <1>1 DEF LogInv, PinIs, CacheIs, bread
  <1>4. ASSUME NEW b \in Blocks PROVE Durable[b] = disk[b]
    <2>1. CASE b \in Listed(head)
      <3>1. PICK k \in 1 .. Len(head) : head[k] = b
        BY <2>1 DEF Listed
      <3>2. Durable[b] = logdata[k]
        BY <1>2, <3>1 DEF DurableIs
      <3>3. disk[lh[k]] = logdata[k]
        BY <1>1, <1>2 DEF LogInv, RecoveredIs
      <3> QED
        BY <1>2, <3>1, <3>2, <3>3
    <2>2. CASE b \notin Listed(head)
      BY <1>2, <2>2 DEF DurableIs
    <2> QED
      BY <2>1, <2>2
  <1>5. Durable = [b \in Blocks |-> disk[b]]
    <2>1. Durable = [b \in Blocks |-> Durable[b]]
      BY <1>2 DEF DurableIs
    <2> QED
      BY <1>4, <2>1
  <1>6. Durable' = [b \in Blocks |-> disk[b]]
    BY <1>1, EmptyList DEF Durable
  <1>7. Current = Durable
    BY <1>1 DEF Current
  <1>8. Current' = [b \in Blocks |-> disk[b]]
    <2>1. Current' = [b \in Blocks |-> bread(b)]
      BY <1>1 DEF Current, bread
    <2> QED
      BY <1>3, <2>1
  <1> QED
    BY <1>1, <1>5, <1>6, <1>7, <1>8 DEF AD!avars, Ops

\* Every step of the log is a step of the atomic disk, or none.
LEMMA LogStepRefines ==
    ASSUME LogInv, LogNext PROVE AD!ANext \/ UNCHANGED AD!avars
  <1>1. ASSUME NEW p \in Procs, begin_op(p) PROVE AD!ANext \/ UNCHANGED AD!avars
    BY <1>1, begin_opRefines DEF AD!ANext
  <1>2. ASSUME NEW p \in Procs, end_op(p) PROVE AD!ANext
    BY <1>2, end_opRefines DEF AD!ANext
  <1>3. ASSUME NEW p \in Procs, commit(p) PROVE AD!ANext \/ UNCHANGED AD!avars
    BY <1>3, write_logRefines, write_headRefines, install_transRefines, eraseRefines DEF AD!ANext, commit
  <1>4. ASSUME NEW p \in Procs, NEW b \in Blocks, NEW v \in Values, log_write(p, b, v) PROVE AD!ANext
    BY <1>4, log_writeRefines DEF AD!ANext
  <1>5. ASSUME Crash PROVE AD!ANext
    BY <1>5, CrashRefines DEF AD!ANext
  <1> QED
    BY <1>1, <1>2, <1>3, <1>4, <1>5, FinishRefines, RecycleRefines, RecoverHeadRefines, RecoverInstallRefines,
       RecoverEraseRefines
    DEF LogNext, recover_from_log

\* The log begins as the atomic disk does.
LEMMA LogInitRefines ==
    LogInit => AD!AInit
  <1> SUFFICES ASSUME LogInit PROVE AD!AInit
    OBVIOUS
  <1>1. Durable = [b \in Blocks |-> InitValue]
    BY EmptyList DEF LogInit, Durable
  <1>2. Current = [b \in Blocks |-> InitValue]
    BY DEF LogInit, Current, bread
  <1>3. Ops = {}
    BY DEF LogInit, Ops
  <1> QED
    BY <1>1, <1>2, <1>3 DEF AD!AInit

-----------------------------------------------------------------------------
\* Room in the log.

\* The blocks written by the operations of S, each counted for each of them.
WrittenBy(w, S) == {x \in S \X Blocks : x[2] \in w[x[1]]}

\* The operations that run have room for all they may still write: OpBlocks
\* each, less what they have written.
Reserved ==
    /\ \A p \in Procs :
        /\ IsFiniteSet(wrote[p]) /\ Cardinality(wrote[p]) <= OpBlocks
        /\ wrote[p] \subseteq Listed(lh)
        /\ p \notin Ops => wrote[p] = {}
    /\ \A S \in SUBSET Ops :
        /\ IsFiniteSet(WrittenBy(wrote, S))
        /\ Cardinality(WrittenBy(wrote, S)) <= Cardinality(S) * OpBlocks
    /\ Ops # {} => Len(lh) + Cardinality(Ops) * OpBlocks - Cardinality(WrittenBy(wrote, Ops)) <= LOGSIZE - 2

\* What operations write is less than what they reserve, the log has room for
\* more than one reservation, and the disk for the whole log.
LogFits == OpBlocks < MAXOPBLOCKS /\ MAXOPBLOCKS < LOGSIZE /\ LOGSIZE <= logSize

\* Adding up what an operation has written and what the others have.
LEMMA WrittenSplit ==
    ASSUME NEW w \in [Procs -> SUBSET Blocks], NEW S \in SUBSET Procs, NEW p \in S,
           IsFiniteSet(WrittenBy(w, S \ {p})), IsFiniteSet(w[p])
    PROVE  /\ IsFiniteSet(WrittenBy(w, S))
           /\ Cardinality(WrittenBy(w, S)) = Cardinality(WrittenBy(w, S \ {p})) + Cardinality(w[p])
           /\ Cardinality(WrittenBy(w, S \ {p})) \in Nat /\ Cardinality(w[p]) \in Nat
  <1> DEFINE A == WrittenBy(w, S \ {p})
             B == {p} \X w[p]
  <1>1. WrittenBy(w, S) = A \cup B
    BY DEF WrittenBy
  <1>2. A \cap B = {}
    BY DEF WrittenBy
  <1>3. IsFiniteSet({p}) /\ Cardinality({p}) = 1
    BY FS_Singleton
  <1>4. Cardinality(w[p]) \in Nat /\ Cardinality(A) \in Nat
    BY FS_CardinalityType
  <1>5. IsFiniteSet(B) /\ Cardinality(B) = Cardinality(w[p])
    BY <1>3, <1>4, FS_Product
  <1> HIDE DEF A, B
  <1>6. IsFiniteSet(A)
    BY DEF A
  <1>7. IsFiniteSet(A \cup B) /\ Cardinality(A \cup B) = Cardinality(A) + Cardinality(B) - Cardinality(A \cap B)
    BY <1>5, <1>6, FS_Union
  <1>8. Cardinality(A \cap B) = 0
    BY <1>2, FS_EmptySet
  <1> QED
    BY <1>1, <1>4, <1>5, <1>7, <1>8 DEF A

\* What the operations of S have written depends on those only.
LEMMA WrittenSame ==
    ASSUME NEW w, NEW u, NEW S, \A q \in S : w[q] = u[q] PROVE WrittenBy(w, S) = WrittenBy(u, S)
  BY DEF WrittenBy

\* One more operation multiplies into one more reservation.
LEMMA TimesMore ==
    ASSUME NEW a \in Nat, NEW b \in Nat, NEW c \in Nat, b < c PROVE a * b + a <= a * c
  <1>1. a * (b + 1) = a * b + a
    OBVIOUS
  <1>2. a * (b + 1) <= a * c
    <2>1. PICK d \in Nat : c = b + 1 + d
      <3>1. c - b - 1 \in Nat /\ c = b + 1 + (c - b - 1)
        OBVIOUS
      <3> QED
        BY <3>1
    <2>2. a * (b + 1 + d) = a * (b + 1) + a * d /\ a * d \in Nat /\ a * (b + 1) \in Nat
      OBVIOUS
    <2> QED
      BY <2>1, <2>2
  <1> QED
    BY <1>1, <1>2

\* Nothing is reserved while no operation runs.
NoOps == Ops = {} /\ \A p \in Procs : wrote[p] = {}

\* When no operation is running nothing is reserved, whatever is in the log.
LEMMA NoOpsReserved ==
    NoOps => Reserved
  <1> SUFFICES ASSUME NoOps PROVE Reserved
    OBVIOUS
  <1>1. OpBlocks \in Nat
    BY LogAssumption
  <1>2. ASSUME NEW S \in SUBSET Ops
        PROVE  /\ IsFiniteSet(WrittenBy(wrote, S))
               /\ Cardinality(WrittenBy(wrote, S)) <= Cardinality(S) * OpBlocks
    <2>1. S = {} /\ WrittenBy(wrote, S) = {}
      BY DEF NoOps, WrittenBy
    <2> QED
      BY <1>1, <2>1, FS_EmptySet
  <1>3. ASSUME NEW p \in Procs
        PROVE  IsFiniteSet(wrote[p]) /\ Cardinality(wrote[p]) <= OpBlocks /\ wrote[p] \subseteq Listed(lh)
    BY <1>1, FS_EmptySet DEF NoOps
  <1> QED
    BY <1>2, <1>3 DEF NoOps, Reserved

\* begin_op makes a reservation.
LEMMA begin_opReserves ==
    ASSUME LogFits, LogInv, Reserved, NEW p \in Procs, begin_op(p) PROVE Reserved'
  <1>0. lh' = lh /\ wrote' = wrote /\ boot = "up"
    BY DEF begin_op, Running
  <1>1. CASE Ops' = Ops
    BY <1>0, <1>1 DEF Reserved
  <1>2. CASE p \notin Ops /\ Ops' = Ops \cup {p} /\ ~MustWait
    <2>1. OpBlocks \in Nat /\ MAXOPBLOCKS \in Nat /\ LOGSIZE \in Nat
      BY LogAssumption
    <2>2. wrote \in [Procs -> SUBSET Blocks] /\ Ops \in SUBSET Procs /\ Len(lh) \in Nat
      BY LenProperties DEF LogInv, LogTypeOK, Ops
    <2>3. wrote[p] = {} /\ IsFiniteSet(wrote[p]) /\ Cardinality(wrote[p]) = 0
      BY <1>2, FS_EmptySet DEF Reserved
    <2>4. /\ Cardinality(Ops) \in Nat /\ Cardinality(Ops') = Cardinality(Ops) + 1
          /\ outstanding = Cardinality(Ops)
      BY <1>2, OpsFinite, CountOps DEF LogInv, Control, OutstandingIsOps
    <2>5. ASSUME NEW S \in SUBSET Ops'
          PROVE  /\ IsFiniteSet(WrittenBy(wrote, S))
                 /\ Cardinality(WrittenBy(wrote, S)) <= Cardinality(S) * OpBlocks
      <3>1. CASE p \notin S
        BY <1>2, <3>1 DEF Reserved
      <3>2. CASE p \in S
        <4>1. S \ {p} \in SUBSET Ops
          BY <1>2
        <4>2. IsFiniteSet(S \ {p}) /\ (S \ {p}) \cup {p} = S /\ S \in SUBSET Procs
          BY <1>2, <2>2, <3>2, <4>1, OpsFinite
        <4>3. Cardinality(S \ {p}) \in Nat /\ Cardinality(S) = Cardinality(S \ {p}) + 1
          BY <4>2, CountOps
        <4>4. /\ IsFiniteSet(WrittenBy(wrote, S \ {p}))
              /\ Cardinality(WrittenBy(wrote, S \ {p})) <= Cardinality(S \ {p}) * OpBlocks
          BY <4>1 DEF Reserved
        <4>5. /\ IsFiniteSet(WrittenBy(wrote, S))
              /\ Cardinality(WrittenBy(wrote, S)) = Cardinality(WrittenBy(wrote, S \ {p})) + 0
              /\ Cardinality(WrittenBy(wrote, S \ {p})) \in Nat
          BY <2>2, <2>3, <3>2, <4>2, <4>4, WrittenSplit
        <4>6. Cardinality(S) * OpBlocks = Cardinality(S \ {p}) * OpBlocks + OpBlocks
          BY <2>1, <4>3
        <4>7. Cardinality(S \ {p}) * OpBlocks \in Nat
          BY <2>1, <4>3
        <4> QED
          BY <2>1, <4>4, <4>5, <4>6, <4>7
      <3> QED
        BY <3>1, <3>2
    <2>6. Len(lh) + Cardinality(Ops') * OpBlocks - Cardinality(WrittenBy(wrote, Ops')) <= LOGSIZE - 2
      <3> DEFINE n == Cardinality(Ops')
                 m == n * OpBlocks
                 w == Cardinality(WrittenBy(wrote, Ops'))
      <3>1. n \in Nat /\ m \in Nat /\ w \in Nat /\ n = outstanding + 1 /\ n >= 1
        BY <2>1, <2>4, <2>5, FS_CardinalityType
      <3>2. Len(lh) + n * MAXOPBLOCKS <= LOGSIZE
        BY <1>2, <2>1, <2>2, <3>1 DEF MustWait
      <3>3. m + n <= n * MAXOPBLOCKS /\ n * MAXOPBLOCKS \in Nat
        BY <2>1, <3>1, TimesMore DEF LogFits
      <3>4. CASE n >= 2
        <4> HIDE DEF n, m, w
        <4>1. Len(lh) + m - w <= LOGSIZE - 2
          BY <2>1, <2>2, <3>1, <3>2, <3>3, <3>4
        <4> QED
          BY <4>1 DEF n, m, w
      <3>5. CASE n = 1
        <4>1. Ops = {}
          BY <2>4, <3>5, OpsFinite, CountOps
        <4>2. ~committing
          BY <1>2 DEF MustWait
        <4>3. lh = <<>>
          BY <1>0, <4>1, <4>2 DEF LogInv, Control, LogBelongs, Ops
        <4>4. Len(lh) = 0 /\ m = OpBlocks
          BY <2>1, <3>5, <4>3, EmptyList
        <4> HIDE DEF n, m, w
        <4>5. Len(lh) + m - w <= LOGSIZE - 2
          BY <2>1, <3>1, <4>4 DEF LogFits
        <4> QED
          BY <4>5 DEF n, m, w
      <3> QED
        BY <3>1, <3>4, <3>5
    <2>7. \A q \in Procs : /\ IsFiniteSet(wrote[q]) /\ Cardinality(wrote[q]) <= OpBlocks
                           /\ wrote[q] \subseteq Listed(lh)
                           /\ q \notin Ops' => wrote[q] = {}
      BY <1>2 DEF Reserved
    <2> QED
      BY <1>0, <2>5, <2>6, <2>7 DEF Reserved
  <1> QED
    BY <1>1, <1>2, begin_opStep

\* log_write takes from what its operation has reserved.
LEMMA log_writeReserves ==
    ASSUME LogInv, Reserved, NEW p \in Procs, NEW b \in Blocks, NEW v \in Values, log_write(p, b, v) PROVE Reserved'
  <1>0. pc' = pc /\ pc[p] = "op" /\ Record(b) /\ MayWrite(p, b) /\ wrote' = [wrote EXCEPT ![p] = @ \cup {b}]
    BY DEF log_write
  <1>1. p \in Ops /\ Ops' = Ops /\ Ops \in SUBSET Procs
    BY <1>0 DEF Ops
  <1>2. wrote \in [Procs -> SUBSET Blocks] /\ OpBlocks \in Nat /\ LOGSIZE \in Nat /\ lh \in Seq(Blocks) /\ Len(lh) \in Nat
    BY LenProperties, LogAssumption DEF LogInv, LogTypeOK
  <1>3. Listed(lh') = Listed(lh) \cup {b}
    BY log_writeStep
  <1>4. CASE b \in wrote[p]
    <2>1. wrote' = wrote
      BY <1>0, <1>2, <1>4
    <2>2. b \in Listed(lh)
      BY <1>4 DEF Reserved
    <2>3. lh' = lh
      BY <1>0, <2>2 DEF Record
    <2> QED
      BY <1>1, <2>1, <2>3 DEF Reserved
  <1>5. CASE b \notin wrote[p]
    <2>1. wrote' \in [Procs -> SUBSET Blocks] /\ wrote'[p] = wrote[p] \cup {b} /\ \A q \in Procs : q # p => wrote'[q] = wrote[q]
      BY <1>0, <1>2
    <2>2. IsFiniteSet(wrote[p]) /\ Cardinality(wrote[p]) < OpBlocks
      BY <1>0, <1>5 DEF Reserved, MayWrite
    <2>3. /\ Cardinality(wrote[p]) \in Nat /\ IsFiniteSet(wrote'[p])
          /\ Cardinality(wrote'[p]) = Cardinality(wrote[p]) + 1
      BY <1>5, <2>1, <2>2, CountOps
    <2>4. ASSUME NEW S \in SUBSET Ops, p \in S
          PROVE  /\ IsFiniteSet(WrittenBy(wrote', S)) /\ Cardinality(WrittenBy(wrote, S)) \in Nat
                 /\ Cardinality(WrittenBy(wrote', S)) = Cardinality(WrittenBy(wrote, S)) + 1
                 /\ Cardinality(WrittenBy(wrote', S)) <= Cardinality(S) * OpBlocks
      <3>1. S \ {p} \in SUBSET Ops /\ S \in SUBSET Procs /\ IsFiniteSet(S)
        BY <1>1, OpsFinite
      <3>2. /\ IsFiniteSet(WrittenBy(wrote, S \ {p}))
            /\ Cardinality(WrittenBy(wrote, S \ {p})) <= Cardinality(S \ {p}) * OpBlocks
        BY <3>1 DEF Reserved
      <3>3. WrittenBy(wrote', S \ {p}) = WrittenBy(wrote, S \ {p})
        BY <2>1, <3>1, WrittenSame
      <3>4. /\ IsFiniteSet(WrittenBy(wrote, S))
            /\ Cardinality(WrittenBy(wrote, S)) = Cardinality(WrittenBy(wrote, S \ {p})) + Cardinality(wrote[p])
            /\ Cardinality(WrittenBy(wrote, S \ {p})) \in Nat
        BY <1>2, <2>2, <2>4, <3>1, <3>2, WrittenSplit
      <3>5. /\ IsFiniteSet(WrittenBy(wrote', S))
            /\ Cardinality(WrittenBy(wrote', S)) = Cardinality(WrittenBy(wrote', S \ {p})) + Cardinality(wrote'[p])
        BY <2>1, <2>3, <2>4, <3>1, <3>2, <3>3, WrittenSplit
      <3>6. Cardinality(S \ {p}) \in Nat /\ Cardinality(S) = Cardinality(S \ {p}) + 1
        <4>1. Cardinality(S \ {p}) = Cardinality(S) - 1 /\ Cardinality(S) \in Nat /\ IsFiniteSet(S \ {p})
          BY <2>4, <3>1, CountOps
        <4>2. Cardinality(S \ {p}) \in Nat
          BY <4>1, FS_CardinalityType
        <4> QED
          BY <4>1, <4>2
      <3>7. Cardinality(S) * OpBlocks = Cardinality(S \ {p}) * OpBlocks + OpBlocks /\ Cardinality(S \ {p}) * OpBlocks \in Nat
        BY <1>2, <3>6
      <3> QED
        BY <1>2, <2>2, <2>3, <3>2, <3>3, <3>4, <3>5, <3>7
    <2>5. ASSUME NEW S \in SUBSET Ops
          PROVE  /\ IsFiniteSet(WrittenBy(wrote', S))
                 /\ Cardinality(WrittenBy(wrote', S)) <= Cardinality(S) * OpBlocks
      <3>1. CASE p \in S
        BY <2>4, <3>1
      <3>2. CASE p \notin S
        <4>1. WrittenBy(wrote', S) = WrittenBy(wrote, S)
          BY <1>1, <2>1, <3>2, WrittenSame
        <4> QED
          BY <4>1 DEF Reserved
      <3> QED
        BY <3>1, <3>2
    <2>6. Len(lh') \in Nat /\ Len(lh') <= Len(lh) + 1
      BY <1>0, <1>2, AppendList DEF Record
    <2>7. Len(lh') + Cardinality(Ops) * OpBlocks - Cardinality(WrittenBy(wrote', Ops)) <= LOGSIZE - 2
      <3>1. Len(lh) + Cardinality(Ops) * OpBlocks - Cardinality(WrittenBy(wrote, Ops)) <= LOGSIZE - 2
        BY <1>1 DEF Reserved
      <3>2. /\ Cardinality(WrittenBy(wrote, Ops)) \in Nat
            /\ Cardinality(WrittenBy(wrote', Ops)) = Cardinality(WrittenBy(wrote, Ops)) + 1
        BY <1>1, <2>4
      <3>3. Cardinality(Ops) * OpBlocks \in Nat
        BY <1>2, OpsFinite, CountOps
      <3> QED
        BY <1>2, <2>6, <3>1, <3>2, <3>3
    <2>8. ASSUME NEW q \in Procs
          PROVE  /\ IsFiniteSet(wrote'[q]) /\ Cardinality(wrote'[q]) <= OpBlocks
                 /\ wrote'[q] \subseteq Listed(lh')
                 /\ q \notin Ops => wrote'[q] = {}
      <3>1. CASE q = p
        <4>1. Cardinality(wrote'[p]) <= OpBlocks
          BY <1>2, <2>2, <2>3
        <4>2. wrote[p] \subseteq Listed(lh)
          BY DEF Reserved
        <4>3. wrote'[p] \subseteq Listed(lh')
          BY <1>3, <2>1, <4>2
        <4> QED
          BY <1>1, <2>3, <3>1, <4>1, <4>3
      <3>2. CASE q # p
        BY <1>3, <2>1, <3>2 DEF Reserved
      <3> QED
        BY <3>1, <3>2
    <2> QED
      BY <1>1, <2>5, <2>7, <2>8 DEF Reserved
  <1> QED
    BY <1>4, <1>5

\* end_op gives its reservation back, used or not.
LEMMA end_opReserves ==
    ASSUME LogInv, Reserved, NEW p \in Procs, end_op(p) PROVE Reserved'
  <1>0. lh' = lh /\ wrote' = [wrote EXCEPT ![p] = {}]
    BY DEF end_op
  <1>1. p \in Ops /\ Ops' = Ops \ {p} /\ Ops \in SUBSET Procs
    BY end_opLastStep, end_opStep DEF Ops
  <1>2. wrote \in [Procs -> SUBSET Blocks] /\ OpBlocks \in Nat /\ LOGSIZE \in Nat /\ Len(lh) \in Nat
    BY LenProperties, LogAssumption DEF LogInv, LogTypeOK
  <1>3. wrote'[p] = {} /\ \A q \in Procs : q # p => wrote'[q] = wrote[q]
    BY <1>0, <1>2
  <1>4. ASSUME NEW S \in SUBSET Ops' PROVE S \in SUBSET Ops /\ WrittenBy(wrote', S) = WrittenBy(wrote, S)
    <2>1. \A q \in S : wrote'[q] = wrote[q]
      BY <1>1, <1>3
    <2> QED
      BY <1>1, <2>1, WrittenSame
  <1>5. ASSUME NEW S \in SUBSET Ops'
        PROVE  /\ IsFiniteSet(WrittenBy(wrote', S))
               /\ Cardinality(WrittenBy(wrote', S)) <= Cardinality(S) * OpBlocks
    BY <1>4 DEF Reserved
  <1>6. Len(lh) + Cardinality(Ops') * OpBlocks - Cardinality(WrittenBy(wrote', Ops')) <= LOGSIZE - 2
    <2>1. Len(lh) + Cardinality(Ops) * OpBlocks - Cardinality(WrittenBy(wrote, Ops)) <= LOGSIZE - 2
      BY <1>1 DEF Reserved
    <2>2. WrittenBy(wrote', Ops') = WrittenBy(wrote, Ops \ {p}) /\ IsFiniteSet(WrittenBy(wrote, Ops \ {p}))
      BY <1>1, <1>4 DEF Reserved
    <2>3. IsFiniteSet(wrote[p]) /\ Cardinality(wrote[p]) <= OpBlocks
      BY DEF Reserved
    <2>4. /\ Cardinality(WrittenBy(wrote, Ops)) = Cardinality(WrittenBy(wrote, Ops \ {p})) + Cardinality(wrote[p])
          /\ Cardinality(WrittenBy(wrote, Ops \ {p})) \in Nat /\ Cardinality(wrote[p]) \in Nat
      BY <1>1, <1>2, <2>2, <2>3, WrittenSplit
    <2>5. Cardinality(Ops') = Cardinality(Ops) - 1 /\ Cardinality(Ops) \in Nat
      BY <1>1, OpsFinite, CountOps
    <2>6. Cardinality(Ops') * OpBlocks = Cardinality(Ops) * OpBlocks - OpBlocks /\ Cardinality(Ops) * OpBlocks \in Int
      BY <1>2, <2>5
    <2> QED
      BY <1>2, <2>1, <2>2, <2>3, <2>4, <2>6
  <1>7. ASSUME NEW q \in Procs
        PROVE  /\ IsFiniteSet(wrote'[q]) /\ Cardinality(wrote'[q]) <= OpBlocks
               /\ wrote'[q] \subseteq Listed(lh)
               /\ q \notin Ops' => wrote'[q] = {}
    <2>1. CASE q = p
      <3>1. IsFiniteSet({}) /\ Cardinality({}) <= OpBlocks
        BY <1>2, FS_EmptySet
      <3> QED
        BY <1>3, <2>1, <3>1
    <2>2. CASE q # p
      BY <1>1, <1>3, <2>2 DEF Reserved
    <2> QED
      BY <2>1, <2>2
  <1> QED
    BY <1>0, <1>5, <1>6, <1>7 DEF Reserved

\* Every step keeps the reservations.
LEMMA ReservedStep ==
    ASSUME LogFits, LogInv, Reserved, LogNext PROVE Reserved'
  <1>1. ASSUME NoOps' PROVE Reserved'
    BY <1>1, NoOpsReserved, PTL
  <1>2. ASSUME Ops = {}, Ops' = Ops, wrote' = wrote PROVE Reserved'
    <2>1. NoOps'
      BY <1>2 DEF NoOps, Reserved
    <2> QED
      BY <1>1, <2>1
  <1>3. ASSUME NEW p \in Procs, commit(p) \/ Finish(p) PROVE Reserved'
    <2>1. pc[p] \in Stages /\ wrote' = wrote
      BY <1>3 DEF commit, write_log, write_head, install_trans, erase, Finish, Stages
    <2>2. Ops' = Ops
      BY <1>3, write_logStep, write_headStep, install_transStep, eraseStep, FinishStep DEF commit
    <2> QED
      BY <1>2, <2>1, <2>2, CommitFacts
  <1>4. ASSUME NEW b \in Blocks, Recycle(b) PROVE Reserved'
    <2>1. Ops' = Ops /\ lh' = lh /\ wrote' = wrote
      BY <1>4 DEF Recycle, locks, Ops
    <2> QED
      BY <2>1 DEF Reserved
  <1>5. ASSUME Crash PROVE Reserved'
    <2>1. NoOps'
      BY <1>5 DEF Crash, NoOps, Ops
    <2> QED
      BY <1>1, <2>1
  <1>6. ASSUME recover_from_log PROVE Reserved'
    <2>1. boot # "up" /\ pc' = pc /\ wrote' = wrote
      BY <1>6 DEF recover_from_log, RecoverHead, RecoverInstall, RecoverErase
    <2>2. Ops = {} /\ Ops' = Ops
      BY <2>1 DEF LogInv, Control, BootAlone, Ops
    <2> QED
      BY <1>2, <2>1, <2>2
  <1> QED
    BY <1>3, <1>4, <1>5, <1>6, begin_opReserves, log_writeReserves, end_opReserves DEF LogNext

\* At the start no operation is running.
LEMMA ReservedInit ==
    LogInit => Reserved
  BY NoOpsReserved DEF LogInit, NoOps, Ops

\* What is reserved keeps log_write from panicking.
LEMMA ReservedSafe ==
    LogFits /\ LogInv /\ Reserved => LogNoPanic
  <1> SUFFICES ASSUME LogFits, LogInv, Reserved, NEW p \in Ops
               PROVE  ~committing /\ outstanding >= 1 /\ ~TooBig
    BY DEF LogNoPanic
  <1>1. ~committing /\ outstanding >= 1
    BY OpFacts DEF Ops
  <1>2. LOGSIZE \in Nat /\ logSize \in Nat /\ OpBlocks \in Nat /\ Len(lh) \in Nat
    BY LenProperties, LogAssumption DEF LogInv, LogTypeOK
  <1>3. Len(lh) + Cardinality(Ops) * OpBlocks - Cardinality(WrittenBy(wrote, Ops)) <= LOGSIZE - 2
    BY DEF Reserved
  <1>4. Cardinality(WrittenBy(wrote, Ops)) <= Cardinality(Ops) * OpBlocks /\ Cardinality(WrittenBy(wrote, Ops)) \in Nat
    BY FS_CardinalityType DEF Reserved
  <1>5. Cardinality(Ops) * OpBlocks \in Nat
    BY <1>2, OpsFinite, CountOps
  <1> QED
    BY <1>1, <1>2, <1>3, <1>4, <1>5 DEF TooBig, LogFits

\* A step that changes nothing of the log keeps the reservations.
LEMMA ReservedUntouched ==
    ASSUME UNCHANGED logVars, Reserved PROVE Reserved'
  BY LogUntouched DEF Reserved, Listed, WrittenBy

-----------------------------------------------------------------------------
\* The theorems.

\* sleep(n) lasts n ticks and no longer than it must, for every number of
\* sleepers, every width of the tick counter and every argument (sys_sleep,
\* clockintr).
THEOREM SleepsLongEnoughSafety == ClockSpec => []SleepsLongEnough
  <1>1. ClockInv /\ [ClockNext]_clockVars => ClockInv'
    <2>1. ClockInv /\ UNCHANGED clockVars => ClockInv'
      BY DEF ClockInv, clockVars
    <2> QED
      BY <2>1, ClockStepInv
  <1> QED
    BY <1>1, ClockInitInv, ClockInvSafe, PTL DEF ClockSpec

\* The log implements the atomic disk: what the operations between two commits
\* write reaches the disk as a whole or not at all, whatever step a crash
\* comes after, recovery included.
THEOREM AtomicDiskRefinement == LogSpec => ImplementsAtomicDisk
  <1>1. LogInv /\ [LogNext]_logVars => [AD!ANext]_AD!avars
    BY LogStepRefines, LogUntouched
  <1> QED
    BY <1>1, LogInitRefines, LogInvariant, PTL DEF LogSpec, ImplementsAtomicDisk, AD!ASpec

\* log_write and end_op never panic: the reservations of begin_op leave room
\* for what every running operation may still write, as long as operations
\* write less than they reserve.
THEOREM LogNoPanicSafety == ASSUME LogFits PROVE LogSpec => []LogNoPanic
  <1>1. LogInit => Reserved
    BY ReservedInit
  <1>2. LogInv /\ Reserved /\ [LogNext]_logVars => Reserved'
    BY ReservedStep, ReservedUntouched
  <1>3. LogInv /\ Reserved => LogNoPanic
    BY ReservedSafe
  <1> QED
    BY <1>1, <1>2, <1>3, LogInvariant, PTL DEF LogSpec
=============================================================================
