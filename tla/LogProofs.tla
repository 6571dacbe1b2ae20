------------------------------ MODULE LogProofs ------------------------------
\* The invariant of the log: control, and the contents of memory and disk at
\* every step of log.c and after a crash at any of them.
EXTENDS Log, FiniteSetTheorems, SequenceTheorems, TLAPS

Stages == {"write_log", "write_head", "install_trans", "erase", "finish"}

\* No block number is listed twice.
Distinct(s) == \A j, k \in 1 .. Len(s) : s[j] = s[k] => j = k

LogTypeOK ==
    /\ lh \in Seq(Blocks) /\ Len(lh) <= LOGSIZE /\ Distinct(lh)
    /\ head \in Seq(Blocks) /\ Len(head) <= LOGSIZE /\ Distinct(head)
    /\ outstanding \in Nat /\ committing \in BOOLEAN /\ tail \in Nat
    /\ cache \in [Blocks -> Values \cup {NoBuf}] /\ pin \in [Blocks -> Nat]
    /\ pc \in [Procs -> {"out", "asleep", "woken", "op"} \cup Stages]
    /\ wrote \in [Procs -> SUBSET Blocks]
    /\ boot \in {"up", "read_head", "install_trans", "erase"}
    /\ disk \in [Blocks -> Values] /\ logdata \in [1 .. LOGSIZE -> Values]

\* Who commits is alone: nobody else commits, and no operation is running.
CommitAlone ==
    \A p \in Procs : pc[p] \in Stages =>
        /\ committing /\ boot = "up"
        /\ \A q \in Procs : q # p => pc[q] \notin Stages \cup {"op"}
CommitIsDone == committing => \E p \in Procs : pc[p] \in Stages

OutstandingIsOps == outstanding = Cardinality(Ops)

\* During recovery nothing else has begun.
BootAlone == boot # "up" => ~committing /\ \A p \in Procs : pc[p] = "out"

\* What is listed belongs to an operation or to a commit.
LogBelongs == boot = "up" /\ ~committing /\ (\A p \in Procs : pc[p] # "op") => lh = <<>>

\* The loops over the log are within it.
LoopsInRange ==
    /\ \A p \in Procs :
        /\ pc[p] = "finish" => lh = <<>>
        /\ pc[p] \in Stages \ {"finish"} => tail < Len(lh)
        /\ pc[p] \in {"write_head", "erase"} => tail = 0
    /\ boot = "read_head" => tail = 0
    /\ boot = "install_trans" => tail < Len(lh)

\* A sleeper in begin_op has someone to wake it up.
Control ==
    CommitAlone /\ CommitIsDone /\ OutstandingIsOps /\ BootAlone /\ LogBelongs /\ LoopsInRange /\ SleeperHasWaker

\* The header on disk lists what is being installed.
HeadIs ==
    /\ boot = "up" /\ (\A p \in Procs : pc[p] \notin {"install_trans", "erase"}) => head = <<>>
    /\ \A p \in Procs : pc[p] \in {"install_trans", "erase"} => head = lh
    /\ boot \in {"install_trans", "erase"} => head = lh

\* What is listed and not installed is pinned, once.
PinIs ==
    /\ boot = "up" /\ (\A p \in Procs : pc[p] \notin {"install_trans", "erase"}) =>
           \A b \in Blocks : pin[b] = IF b \in Listed(lh) THEN 1 ELSE 0
    /\ \A p \in Procs : pc[p] = "install_trans" =>
           \A b \in Blocks : pin[b] = IF \E k \in tail + 1 .. Len(lh) : lh[k] = b THEN 1 ELSE 0
    /\ \A p \in Procs : pc[p] = "erase" => \A b \in Blocks : pin[b] = 0
    /\ boot # "up" => \A b \in Blocks : pin[b] = 0

\* A buffer that is not pinned holds what is on disk, one that is pinned is there.
CacheIs ==
    \A b \in Blocks : IF pin[b] = 0 THEN cache[b] \in {NoBuf, disk[b]} ELSE cache[b] # NoBuf

\* The log holds a copy of what it lists.
CopyIs ==
    \A p \in Procs :
        /\ pc[p] = "write_log" => \A k \in 1 .. tail : logdata[k] = bread(lh[k])
        /\ pc[p] \in {"write_head", "install_trans", "erase"} => \A k \in 1 .. Len(lh) : logdata[k] = bread(lh[k])

\* Recovery has installed the log up to where it is.
RecoveredIs ==
    /\ boot = "install_trans" => \A k \in 1 .. tail : disk[lh[k]] = logdata[k]
    /\ boot = "erase" => \A k \in 1 .. Len(lh) : disk[lh[k]] = logdata[k]

\* The inductive invariant of the contents of memory and disk.
LogInv == LogTypeOK /\ Control /\ HeadIs /\ PinIs /\ CacheIs /\ CopyIs /\ RecoveredIs

\* The empty log.
LEMMA EmptyList ==
    <<>> \in Seq(Blocks) /\ Len(<<>>) = 0 /\ Distinct(<<>>) /\ Listed(<<>>) = {}
  BY DEF Distinct, Listed

\* A log of no blocks is empty.
LEMMA EmptyLength ==
    ASSUME NEW s \in Seq(Blocks) PROVE Len(s) \in Nat /\ (Len(s) = 0 <=> s = <<>>)
  BY EmptySeq, LenProperties

\* A block number added to a list.
LEMMA AppendList ==
    ASSUME NEW s \in Seq(Blocks), NEW b \in Blocks
    PROVE  /\ Append(s, b) \in Seq(Blocks) /\ Len(Append(s, b)) = Len(s) + 1
           /\ Listed(Append(s, b)) = Listed(s) \cup {b}
           /\ Distinct(s) /\ b \notin Listed(s) => Distinct(Append(s, b))
  <1> DEFINE t == Append(s, b)
  <1>1. t \in Seq(Blocks) /\ Len(t) = Len(s) + 1 /\ Len(s) \in Nat
    BY AppendProperties, LenProperties
  <1>2. \A k \in 1 .. Len(s) : t[k] = s[k]
    BY AppendProperties
  <1>3. t[Len(s) + 1] = b
    BY AppendProperties
  <1> HIDE DEF t
  <1>4. Listed(t) = Listed(s) \cup {b}
    BY <1>1, <1>2, <1>3 DEF Listed
  <1>5. Distinct(s) /\ b \notin Listed(s) => Distinct(t)
    <2> SUFFICES ASSUME Distinct(s), b \notin Listed(s),
                        NEW j \in 1 .. Len(t), NEW k \in 1 .. Len(t), t[j] = t[k]
                 PROVE  j = k
      BY DEF Distinct
    <2>1. j \in 1 .. Len(s) => t[j] \in Listed(s)
      BY <1>2 DEF Listed
    <2>2. k \in 1 .. Len(s) => t[k] \in Listed(s)
      BY <1>2 DEF Listed
    <2>3. CASE j \in 1 .. Len(s) /\ k \in 1 .. Len(s)
      BY <1>2, <2>3 DEF Distinct
    <2>4. CASE ~(j \in 1 .. Len(s) /\ k \in 1 .. Len(s))
      BY <1>1, <1>3, <2>1, <2>2, <2>4
    <2> QED
      BY <2>3, <2>4
  <1> QED
    BY <1>1, <1>4, <1>5 DEF t

\* A listed block is a block, and has a place in the list.
LEMMA ListedBlocks ==
    ASSUME NEW s \in Seq(Blocks)
    PROVE  /\ \A k \in 1 .. Len(s) : s[k] \in Blocks /\ s[k] \in Listed(s)
           /\ \A b \in Listed(s) : \E k \in 1 .. Len(s) : s[k] = b
  BY ElementOfSeq DEF Listed

\* Counting the operations that run: no operation, one more, one less.
LEMMA CountOps ==
    ASSUME NEW S, IsFiniteSet(S)
    PROVE  /\ Cardinality(S) \in Nat /\ (Cardinality(S) = 0 <=> S = {})
           /\ \A x : x \notin S => IsFiniteSet(S \cup {x}) /\ Cardinality(S \cup {x}) = Cardinality(S) + 1
           /\ \A x \in S : IsFiniteSet(S \ {x}) /\ Cardinality(S \ {x}) = Cardinality(S) - 1
  BY FS_CardinalityType, FS_EmptySet, FS_AddElement, FS_RemoveElement

\* The operations that are running are processes, and finitely many.
LEMMA OpsFinite ==
    IsFiniteSet(Ops) /\ \A S \in SUBSET Ops : IsFiniteSet(S)
  <1>1. IsFiniteSet(Procs)
    BY LogAssumption
  <1>2. \A S \in SUBSET Procs : IsFiniteSet(S)
    BY <1>1, FS_Subset
  <1> QED
    BY <1>2 DEF Ops

\* While a process commits, no other one does and no operation runs.
LEMMA CommitFacts ==
    ASSUME LogInv, NEW p \in Procs, pc[p] \in Stages
    PROVE  /\ committing /\ boot = "up" /\ outstanding = 0 /\ Ops = {}
           /\ \A q \in Procs : q # p => pc[q] \notin Stages /\ pc[q] # "op"
  <1>1. committing /\ boot = "up" /\ \A q \in Procs : q # p => pc[q] \notin Stages /\ pc[q] # "op"
    BY DEF LogInv, Control, CommitAlone
  <1>2. Ops = {}
    BY <1>1 DEF Ops, Stages
  <1>3. outstanding = 0
    BY <1>2, FS_EmptySet DEF LogInv, Control, OutstandingIsOps
  <1> QED
    BY <1>1, <1>2, <1>3

\* While an operation runs, nobody commits.
LEMMA OpFacts ==
    ASSUME LogInv, NEW p \in Procs, pc[p] = "op"
    PROVE  /\ ~committing /\ boot = "up" /\ outstanding \in Nat \ {0}
           /\ \A q \in Procs : pc[q] \notin Stages
  <1>1. \A q \in Procs : pc[q] \notin Stages
    BY DEF LogInv, Control, CommitAlone, Stages
  <1>2. ~committing /\ boot = "up"
    BY <1>1 DEF LogInv, Control, CommitIsDone, BootAlone
  <1>3. Ops # {}
    BY DEF Ops
  <1>4. outstanding \in Nat \ {0}
    BY <1>3, OpsFinite, CountOps DEF LogInv, Control, OutstandingIsOps
  <1> QED
    BY <1>1, <1>2, <1>4

\* At the start, and after a crash, nothing is in memory.
LEMMA LogInitInv ==
    LogInit => LogInv
  <1> SUFFICES ASSUME LogInit PROVE LogInv
    OBVIOUS
  <1>0. LOGSIZE \in Nat /\ InitValue \in Values
    BY LogAssumption
  <1>1. LogTypeOK
    <2>1. lh \in Seq(Blocks) /\ Len(lh) <= LOGSIZE /\ Distinct(lh)
      BY <1>0, EmptyList DEF LogInit
    <2>2. head \in Seq(Blocks) /\ Len(head) <= LOGSIZE /\ Distinct(head)
      BY <1>0, EmptyList DEF LogInit
    <2> QED
      BY <1>0, <2>1, <2>2 DEF LogInit, LogTypeOK
  <1>2. Ops = {}
    BY DEF LogInit, Ops
  <1>3. Control
    BY <1>2, FS_EmptySet
    DEF LogInit, Control, CommitAlone, CommitIsDone, OutstandingIsOps, BootAlone, LogBelongs, LoopsInRange,
        SleeperHasWaker, Stages
  <1>4. HeadIs /\ PinIs /\ CacheIs /\ CopyIs /\ RecoveredIs
    BY EmptyList DEF LogInit, HeadIs, PinIs, CacheIs, CopyIs, RecoveredIs
  <1> QED
    BY <1>1, <1>3, <1>4 DEF LogInv

\* A crash loses the memory and keeps the disk; the log is read again from the header.
LEMMA CrashStep ==
    ASSUME LogInv, Crash PROVE LogInv'
  <1>1. LogTypeOK'
    <2>1. lh' \in Seq(Blocks) /\ Len(lh') <= LOGSIZE /\ Distinct(lh')
      BY EmptyList, LogAssumption DEF Crash
    <2>2. head' = head /\ disk' = disk /\ logdata' = logdata
      BY DEF Crash, storage
    <2> QED
      BY <2>1, <2>2 DEF Crash, LogInv, LogTypeOK
  <1>2. Ops' = {}
    BY DEF Crash, Ops
  <1>3. Control'
    BY <1>2, FS_EmptySet
    DEF Crash, Control, CommitAlone, CommitIsDone, OutstandingIsOps, BootAlone, LogBelongs, LoopsInRange,
        SleeperHasWaker, Running, Stages
  <1>4. HeadIs' /\ PinIs' /\ CacheIs' /\ CopyIs' /\ RecoveredIs'
    BY EmptyList DEF Crash, HeadIs, PinIs, CacheIs, CopyIs, RecoveredIs
  <1> QED
    BY <1>1, <1>3, <1>4 DEF LogInv

\* Recycling a buffer that is not pinned does not change what bread returns.
LEMMA RecycleStep ==
    ASSUME LogInv, NEW b \in Blocks, Recycle(b)
    PROVE  LogInv' /\ \A c \in Blocks : bread(c)' = bread(c)
  <1> USE DEF Recycle, locks, storage
  <1>1. LogTypeOK'
    BY DEF LogInv, LogTypeOK
  <1>2. Ops' = Ops
    BY DEF Ops
  <1>3. Control'
    BY <1>2
    DEF LogInv, Control, CommitAlone, CommitIsDone, OutstandingIsOps, BootAlone, LogBelongs, LoopsInRange,
        SleeperHasWaker, Running
  <1>4. HeadIs' /\ PinIs' /\ RecoveredIs'
    BY DEF LogInv, HeadIs, PinIs, RecoveredIs
  <1>5. CacheIs'
    BY DEF LogInv, LogTypeOK, CacheIs
  <1>6. \A c \in Blocks : bread(c)' = bread(c)
    BY DEF LogInv, LogTypeOK, CacheIs, bread
  <1>7. CopyIs'
    <2>1. lh \in Seq(Blocks) /\ lh' = lh /\ pc' = pc /\ tail' = tail /\ logdata' = logdata
      BY DEF LogInv, LogTypeOK
    <2>2. \A p \in Procs : pc[p] = "write_log" => tail < Len(lh)
      BY DEF LogInv, Control, LoopsInRange, Stages
    <2>3. tail \in Nat /\ Len(lh) \in Nat
      BY LenProperties DEF LogInv, LogTypeOK
    <2>4. \A k \in 1 .. Len(lh) : bread(lh[k])' = bread(lh[k])
      BY <1>6, <2>1, ListedBlocks
    <2> QED
      BY <2>1, <2>2, <2>3, <2>4 DEF LogInv, CopyIs
  <1> QED
    BY <1>1, <1>3, <1>4, <1>5, <1>6, <1>7 DEF LogInv

\* begin_op, which goes to sleep or is counted.
LEMMA begin_opStep ==
    ASSUME LogInv, NEW p \in Procs, begin_op(p)
    PROVE  /\ LogInv'
           /\ Ops' = Ops \/ (p \notin Ops /\ Ops' = Ops \cup {p} /\ ~MustWait /\ outstanding' = outstanding + 1)
  <1>0. /\ lh' = lh /\ committing' = committing /\ cache' = cache /\ pin' = pin /\ tail' = tail
        /\ wrote' = wrote /\ boot' = boot /\ disk' = disk /\ logdata' = logdata /\ head' = head
        /\ boot = "up" /\ pc[p] \in {"out", "woken"}
    BY DEF begin_op, storage, Running
  <1>1. pc' = [pc EXCEPT ![p] = pc'[p]] /\ pc'[p] \in {"asleep", "op"}
    BY DEF begin_op, LogInv, LogTypeOK
  <1>2. \A q \in Procs : q # p => pc'[q] = pc[q]
    BY <1>1 DEF LogInv, LogTypeOK
  <1>3. \A q \in Procs : pc'[q] \in Stages <=> pc[q] \in Stages
    BY <1>0, <1>1, <1>2 DEF Stages
  <1>4. \A q \in Procs, s \in Stages : pc'[q] = s <=> pc[q] = s
    BY <1>0, <1>1, <1>2 DEF Stages
  <1>5. LogTypeOK'
    <2>1. outstanding' \in Nat
      BY DEF begin_op, LogInv, LogTypeOK
    <2> QED
      BY <1>0, <1>1, <2>1 DEF LogInv, LogTypeOK
  <1>6. ASSUME MustWait, pc'[p] = "asleep", outstanding' = outstanding PROVE Ops' = Ops /\ Control'
    <2>1. Ops' = Ops
      BY <1>0, <1>2, <1>6 DEF Ops
    <2>2. CommitAlone' /\ CommitIsDone' /\ OutstandingIsOps' /\ BootAlone'
      BY <1>0, <1>2, <1>3, <1>6, <2>1
      DEF LogInv, Control, CommitAlone, CommitIsDone, OutstandingIsOps, BootAlone
    <2>3. LogBelongs'
      BY <1>0, <1>1, <1>2, <1>6 DEF LogInv, Control, LogBelongs
    <2>4. LoopsInRange'
      BY <1>0, <1>4 DEF LogInv, Control, LoopsInRange, Stages
    <2>5. SleeperHasWaker'
      <3>1. ASSUME ~committing, outstanding = 0 PROVE FALSE
        <4>1. Ops = {}
          BY <3>1, OpsFinite, CountOps DEF LogInv, Control, OutstandingIsOps
        <4>2. lh = <<>>
          BY <1>0, <3>1, <4>1 DEF LogInv, Control, LogBelongs, Ops
        <4>3. Len(lh) = 0 /\ (outstanding + 1) * MAXOPBLOCKS = MAXOPBLOCKS
          BY <3>1, <4>2, EmptyList, LogAssumption
        <4> QED
          BY <1>6, <3>1, <4>3, LogAssumption DEF MustWait
      <3> QED
        BY <1>0, <1>6, <3>1 DEF SleeperHasWaker, LogInv, LogTypeOK
    <2> QED
      BY <2>1, <2>2, <2>3, <2>4, <2>5 DEF Control
  <1>7. ASSUME ~MustWait, pc'[p] = "op", outstanding' = outstanding + 1
        PROVE  p \notin Ops /\ Ops' = Ops \cup {p} /\ Control'
    <2>1. p \notin Ops /\ Ops' = Ops \cup {p}
      BY <1>0, <1>2, <1>7 DEF Ops
    <2>2. OutstandingIsOps'
      BY <1>7, <2>1, OpsFinite, CountOps DEF LogInv, Control, OutstandingIsOps
    <2>3. ~committing
      BY <1>7 DEF MustWait
    <2>4. CommitAlone' /\ CommitIsDone' /\ BootAlone'
      BY <1>0, <1>3, <2>3 DEF LogInv, Control, CommitAlone, CommitIsDone, BootAlone
    <2>5. LogBelongs'
      BY <1>7 DEF LogBelongs
    <2>6. LoopsInRange'
      BY <1>0, <1>4 DEF LogInv, Control, LoopsInRange, Stages
    <2>7. SleeperHasWaker'
      BY <1>7 DEF SleeperHasWaker, LogInv, LogTypeOK
    <2> QED
      BY <1>7, <2>1, <2>2, <2>4, <2>5, <2>6, <2>7 DEF Control
  <1>8. Control' /\ (Ops' = Ops \/ (p \notin Ops /\ Ops' = Ops \cup {p} /\ ~MustWait /\ outstanding' = outstanding + 1))
    BY <1>6, <1>7 DEF begin_op, LogInv, LogTypeOK
  <1>9. HeadIs' /\ PinIs'
    BY <1>0, <1>4 DEF LogInv, HeadIs, PinIs, Stages
  <1>10. CacheIs' /\ RecoveredIs'
    BY <1>0 DEF LogInv, CacheIs, RecoveredIs
  <1>11. CopyIs'
    BY <1>0, <1>4 DEF LogInv, CopyIs, Stages, bread
  <1> QED
    BY <1>5, <1>8, <1>9, <1>10, <1>11 DEF LogInv

\* The contents bread returns are a value.
LEMMA breadType ==
    ASSUME LogTypeOK, NEW b \in Blocks PROVE bread(b) \in Values
  BY DEF LogTypeOK, bread

\* log_write: what it lists is pinned and in the cache.
LEMMA log_writeStep ==
    ASSUME LogInv, NEW p \in Procs, NEW b \in Blocks, NEW v \in Values, log_write(p, b, v)
    PROVE  LogInv' /\ Listed(lh') = Listed(lh) \cup {b}
  <1>0. /\ outstanding' = outstanding /\ committing' = committing /\ tail' = tail /\ pc' = pc
        /\ boot' = boot /\ disk' = disk /\ logdata' = logdata /\ head' = head
        /\ cache' = [cache EXCEPT ![b] = v] /\ pc[p] = "op" /\ ~TooBig /\ Record(b)
        /\ wrote' = [wrote EXCEPT ![p] = @ \cup {b}]
    BY DEF log_write, storage
  <1>1. ~committing /\ boot = "up" /\ \A q \in Procs : pc[q] \notin Stages
    BY <1>0, OpFacts
  <1>2. lh \in Seq(Blocks) /\ Len(lh) \in Nat /\ LOGSIZE \in Nat /\ logSize \in Nat /\ v # NoBuf
    BY LenProperties, LogAssumption DEF LogInv, LogTypeOK
  <1>3. /\ lh' \in Seq(Blocks) /\ Len(lh') <= LOGSIZE /\ Distinct(lh')
        /\ Listed(lh') = Listed(lh) \cup {b}
        /\ \A c \in Blocks : pin'[c] = IF c \in Listed(lh') THEN 1 ELSE 0
        /\ pin' \in [Blocks -> Nat]
    <2>0. \A c \in Blocks : pin[c] = IF c \in Listed(lh) THEN 1 ELSE 0
      BY <1>1 DEF LogInv, PinIs, Stages
    <2>1. CASE b \in Listed(lh)
      <3>1. lh' = lh /\ pin' = pin /\ Listed(lh) \cup {b} = Listed(lh)
        BY <1>0, <2>1 DEF Record
      <3> QED
        BY <2>0, <3>1 DEF LogInv, LogTypeOK
    <2>2. CASE b \notin Listed(lh)
      <3>1. lh' = Append(lh, b) /\ pin' = [pin EXCEPT ![b] = @ + 1]
        BY <1>0, <2>2 DEF Record
      <3>2. Listed(lh') = Listed(lh) \cup {b} /\ Distinct(lh') /\ lh' \in Seq(Blocks) /\ Len(lh') = Len(lh) + 1
        BY <1>2, <2>2, <3>1, AppendList DEF LogInv, LogTypeOK
      <3>3. pin' \in [Blocks -> Nat]
        BY <3>1 DEF LogInv, LogTypeOK
      <3>4. \A c \in Blocks : pin'[c] = IF c \in Listed(lh') THEN 1 ELSE 0
        BY <2>0, <2>2, <3>1, <3>2 DEF LogInv, LogTypeOK
      <3>5. Len(lh') <= LOGSIZE
        BY <1>0, <1>2, <3>2 DEF TooBig
      <3> QED
        BY <3>2, <3>3, <3>4, <3>5
    <2> QED
      BY <2>1, <2>2
  <1>4. LogTypeOK'
    BY <1>0, <1>3 DEF LogInv, LogTypeOK
  <1>5. Ops' = Ops
    BY <1>0 DEF Ops
  <1>6. Control'
    BY <1>0, <1>1, <1>5
    DEF LogInv, Control, CommitAlone, CommitIsDone, OutstandingIsOps, BootAlone, LogBelongs, LoopsInRange,
        SleeperHasWaker, Running, Stages
  <1>7. HeadIs' /\ RecoveredIs'
    BY <1>0, <1>1 DEF LogInv, HeadIs, RecoveredIs, Stages
  <1>8. PinIs'
    BY <1>0, <1>1, <1>3 DEF PinIs, Stages
  <1>9. CacheIs'
    <2>1. pin'[b] = 1 /\ cache'[b] # NoBuf
      BY <1>0, <1>2, <1>3 DEF LogInv, LogTypeOK
    <2>2. ASSUME NEW c \in Blocks, c # b PROVE cache'[c] = cache[c] /\ pin'[c] = pin[c] /\ disk'[c] = disk[c]
      BY <1>0, <2>2 DEF LogInv, LogTypeOK, Record
    <2> QED
      BY <2>1, <2>2 DEF LogInv, CacheIs
  <1>10. CopyIs'
    BY <1>0, <1>1 DEF CopyIs, Stages
  <1> QED
    BY <1>3, <1>4, <1>6, <1>7, <1>8, <1>9, <1>10 DEF LogInv

\* end_op of the last operation, which goes on to commit.
LEMMA end_opLastStep ==
    ASSUME LogInv, NEW p \in Procs, end_op(p), outstanding' = 0
    PROVE  LogInv' /\ p \in Ops /\ Ops' = Ops \ {p}
  <1>0. /\ lh' = lh /\ cache' = cache /\ pin' = pin /\ boot' = boot /\ disk' = disk
        /\ logdata' = logdata /\ head' = head /\ pc[p] = "op" /\ tail' = 0 /\ committing' = TRUE
        /\ pc' = [pc EXCEPT ![p] = IF lh = <<>> THEN "finish" ELSE "write_log"]
        /\ outstanding' = outstanding - 1 /\ wrote' = [wrote EXCEPT ![p] = {}]
    BY DEF end_op, storage
  <1>1. ~committing /\ boot = "up" /\ \A q \in Procs : pc[q] \notin Stages
    BY <1>0, OpFacts
  <1>2. \A q \in Procs : q # p => pc'[q] = pc[q]
    BY <1>0 DEF LogInv, LogTypeOK
  <1>3. pc'[p] = (IF lh = <<>> THEN "finish" ELSE "write_log") /\ pc'[p] \in Stages
    BY <1>0 DEF LogInv, LogTypeOK, Stages
  <1>4. p \in Ops /\ Ops' = Ops \ {p}
    BY <1>0, <1>2, <1>3 DEF Ops, Stages
  <1>5. OutstandingIsOps' /\ Ops' = {}
    BY <1>0, <1>4, OpsFinite, CountOps DEF LogInv, Control, OutstandingIsOps
  <1>6. \A q \in Procs : q # p => pc'[q] \notin Stages \cup {"op"}
    BY <1>1, <1>2, <1>5 DEF Ops
  <1>7. LogTypeOK'
    <2>1. pc' \in [Procs -> {"out", "asleep", "woken", "op"} \cup Stages]
      BY <1>0, <1>3 DEF LogInv, LogTypeOK
    <2> QED
      BY <1>0, <2>1 DEF LogInv, LogTypeOK
  <1>8. lh # <<>> => 0 < Len(lh)
    BY EmptyLength DEF LogInv, LogTypeOK
  <1>9. Control'
    <2>1. CommitAlone' /\ CommitIsDone' /\ BootAlone' /\ LogBelongs' /\ SleeperHasWaker'
      BY <1>0, <1>1, <1>3, <1>6 DEF CommitAlone, CommitIsDone, BootAlone, LogBelongs, SleeperHasWaker
    <2>2. LoopsInRange'
      BY <1>0, <1>1, <1>3, <1>6, <1>8 DEF LoopsInRange, Stages
    <2> QED
      BY <1>5, <2>1, <2>2 DEF Control
  <1>10. HeadIs' /\ PinIs' /\ RecoveredIs'
    BY <1>0, <1>1, <1>3, <1>6 DEF LogInv, HeadIs, PinIs, RecoveredIs, Stages
  <1>11. CacheIs'
    BY <1>0 DEF LogInv, CacheIs
  <1>12. CopyIs'
    BY <1>0, <1>3, <1>6 DEF CopyIs, Stages
  <1> QED
    BY <1>4, <1>7, <1>9, <1>10, <1>11, <1>12 DEF LogInv

\* Where wakeup leaves the processes.
LEMMA WakeupAndValue ==
    ASSUME LogInv, NEW p \in Procs, pc' = WakeupAnd(p, "out")
    PROVE  /\ pc' \in [Procs -> {"out", "asleep", "woken", "op"} \cup Stages] /\ pc'[p] = "out"
           /\ \A q \in Procs : pc'[q] # "asleep"
           /\ \A q \in Procs : q # p => (pc'[q] = "op" <=> pc[q] = "op")
           /\ \A q \in Procs : q # p => \A s \in Stages : pc'[q] = s <=> pc[q] = s
  BY DEF LogInv, LogTypeOK, WakeupAnd, Stages

\* end_op of another one.
LEMMA end_opStep ==
    ASSUME LogInv, NEW p \in Procs, end_op(p), outstanding' # 0
    PROVE  LogInv' /\ p \in Ops /\ Ops' = Ops \ {p}
  <1>0. /\ lh' = lh /\ cache' = cache /\ pin' = pin /\ boot' = boot /\ disk' = disk
        /\ logdata' = logdata /\ head' = head /\ pc[p] = "op" /\ tail' = 0 /\ committing' = committing
        /\ pc' = WakeupAnd(p, "out")
        /\ outstanding' = outstanding - 1 /\ wrote' = [wrote EXCEPT ![p] = {}]
    BY DEF end_op, storage
  <1>1. ~committing /\ boot = "up" /\ outstanding \in Nat \ {0} /\ \A q \in Procs : pc[q] \notin Stages
    BY <1>0, OpFacts
  <1>2. /\ pc' \in [Procs -> {"out", "asleep", "woken", "op"} \cup Stages] /\ pc'[p] = "out"
        /\ \A q \in Procs : pc'[q] # "asleep"
        /\ \A q \in Procs : q # p => (pc'[q] = "op" <=> pc[q] = "op")
    BY <1>0, WakeupAndValue
  <1>3. \A q \in Procs : pc'[q] \notin Stages
    BY <1>0, <1>1, <1>2, WakeupAndValue DEF Stages
  <1>4. p \in Ops /\ Ops' = Ops \ {p}
    BY <1>0, <1>2 DEF Ops
  <1>5. OutstandingIsOps' /\ Ops' # {}
    <2>1. Cardinality(Ops') = outstanding'
      BY <1>0, <1>4, OpsFinite, CountOps DEF LogInv, Control, OutstandingIsOps
    <2> QED
      BY <2>1, FS_EmptySet DEF OutstandingIsOps
  <1>6. LogTypeOK'
    BY <1>0, <1>1, <1>2 DEF LogInv, LogTypeOK
  <1>7. Control'
    <2>1. CommitAlone' /\ CommitIsDone' /\ BootAlone' /\ SleeperHasWaker'
      BY <1>0, <1>1, <1>2, <1>3 DEF CommitAlone, CommitIsDone, BootAlone, SleeperHasWaker
    <2>2. LogBelongs'
      BY <1>5 DEF LogBelongs, Ops
    <2>3. LoopsInRange'
      BY <1>0, <1>1, <1>3 DEF LoopsInRange, Stages
    <2> QED
      BY <1>5, <2>1, <2>2, <2>3 DEF Control
  <1>8. HeadIs' /\ PinIs' /\ RecoveredIs'
    BY <1>0, <1>1, <1>3 DEF LogInv, HeadIs, PinIs, RecoveredIs, Stages
  <1>9. CacheIs'
    BY <1>0 DEF LogInv, CacheIs
  <1>10. CopyIs'
    BY <1>3 DEF CopyIs, Stages
  <1> QED
    BY <1>4, <1>6, <1>7, <1>8, <1>9, <1>10 DEF LogInv

\* The control state after a step of the process that commits.
LEMMA CommitControl ==
    ASSUME LogInv, NEW p \in Procs, pc[p] \in Stages, NEW s \in Stages, pc' = [pc EXCEPT ![p] = s],
           outstanding' = outstanding, committing' = committing, boot' = boot
    PROVE  /\ pc' \in [Procs -> {"out", "asleep", "woken", "op"} \cup Stages] /\ pc'[p] = s
           /\ \A q \in Procs : q # p => pc'[q] \notin Stages /\ pc'[q] # "op"
           /\ CommitAlone' /\ CommitIsDone' /\ OutstandingIsOps' /\ BootAlone' /\ LogBelongs' /\ SleeperHasWaker'
           /\ Ops' = Ops
  <1>1. /\ committing /\ boot = "up" /\ outstanding = 0 /\ Ops = {}
        /\ \A q \in Procs : q # p => pc[q] \notin Stages /\ pc[q] # "op"
    BY CommitFacts
  <1>2. pc' \in [Procs -> {"out", "asleep", "woken", "op"} \cup Stages] /\ pc'[p] = s
    BY DEF LogInv, LogTypeOK
  <1>3. \A q \in Procs : q # p => pc'[q] \notin Stages /\ pc'[q] # "op"
    BY <1>1 DEF LogInv, LogTypeOK
  <1>4. Ops' = Ops
    BY <1>1, <1>2, <1>3 DEF Ops, Stages
  <1>5. OutstandingIsOps'
    BY <1>4 DEF LogInv, Control, OutstandingIsOps
  <1>6. CommitAlone' /\ CommitIsDone' /\ BootAlone' /\ LogBelongs' /\ SleeperHasWaker'
    BY <1>1, <1>2, <1>3 DEF CommitAlone, CommitIsDone, BootAlone, LogBelongs, SleeperHasWaker
  <1> QED
    BY <1>2, <1>3, <1>4, <1>5, <1>6

\* The loops over the log go on, or reach the next stage after the last block.
LEMMA AdvanceValue ==
    ASSUME LogInv, NEW p \in Procs, pc[p] \in Stages \ {"finish"}, NEW s \in {"write_head", "erase"}, Advance(p, s)
    PROVE  \E st \in Stages :
              /\ pc' = [pc EXCEPT ![p] = st]
              /\ \/ tail + 1 < Len(lh) /\ tail' = tail + 1 /\ st = pc[p]
                 \/ tail + 1 = Len(lh) /\ tail' = 0 /\ st = s
  <1>1. tail \in Nat /\ tail < Len(lh) /\ Len(lh) \in Nat
    BY LenProperties DEF LogInv, LogTypeOK, Control, LoopsInRange
  <1>2. CASE tail + 1 < Len(lh)
    BY <1>2 DEF Advance, LogInv, LogTypeOK
  <1>3. CASE ~(tail + 1 < Len(lh))
    <2>1. tail + 1 = Len(lh) /\ s \in Stages
      BY <1>1, <1>3 DEF Stages
    <2> QED
      BY <1>3, <2>1 DEF Advance
  <1> QED
    BY <1>2, <1>3

\* One iteration of write_log.
LEMMA write_logStep ==
    ASSUME LogInv, NEW p \in Procs, write_log(p) PROVE LogInv' /\ Ops' = Ops
  <1>0. /\ outstanding' = outstanding /\ committing' = committing /\ lh' = lh /\ cache' = cache /\ pin' = pin
        /\ wrote' = wrote /\ boot' = boot /\ disk' = disk /\ head' = head
        /\ pc[p] = "write_log" /\ logdata' = [logdata EXCEPT ![tail + 1] = bread(lh[tail + 1])]
    BY DEF write_log, locks
  <1>1. pc[p] \in Stages \ {"finish"}
    BY <1>0 DEF Stages
  <1>2. tail \in Nat /\ tail < Len(lh) /\ Len(lh) \in Nat /\ Len(lh) <= LOGSIZE /\ LOGSIZE \in Nat /\ lh \in Seq(Blocks)
    BY <1>1, LenProperties, LogAssumption DEF LogInv, LogTypeOK, Control, LoopsInRange
  <1>3. PICK st \in Stages :
              /\ pc' = [pc EXCEPT ![p] = st]
              /\ \/ tail + 1 < Len(lh) /\ tail' = tail + 1 /\ st = pc[p]
                 \/ tail + 1 = Len(lh) /\ tail' = 0 /\ st = "write_head"
    BY <1>1, AdvanceValue DEF write_log
  <1>4. /\ pc' \in [Procs -> {"out", "asleep", "woken", "op"} \cup Stages] /\ pc'[p] = st
        /\ \A q \in Procs : q # p => pc'[q] \notin Stages /\ pc'[q] # "op"
        /\ CommitAlone' /\ CommitIsDone' /\ OutstandingIsOps' /\ BootAlone' /\ LogBelongs' /\ SleeperHasWaker'
        /\ Ops' = Ops
    BY <1>0, <1>1, <1>3, CommitControl
  <1>5. boot = "up" /\ \A q \in Procs : q # p => pc[q] \notin Stages
    BY <1>1, CommitFacts
  <1>6. LogTypeOK'
    <2>1. bread(lh[tail + 1]) \in Values
      BY <1>2, ListedBlocks, breadType DEF LogInv
    <2>2. logdata' \in [1 .. LOGSIZE -> Values] /\ tail' \in Nat
      BY <1>0, <1>2, <1>3, <2>1 DEF LogInv, LogTypeOK
    <2> QED
      BY <1>0, <1>4, <2>2 DEF LogInv, LogTypeOK
  <1>7. LoopsInRange'
    BY <1>0, <1>2, <1>3, <1>4, <1>5 DEF LoopsInRange, Stages
  <1>8. HeadIs' /\ PinIs' /\ RecoveredIs'
    BY <1>0, <1>3, <1>4, <1>5 DEF LogInv, HeadIs, PinIs, RecoveredIs, Stages
  <1>9. CacheIs'
    BY <1>0 DEF LogInv, CacheIs
  <1>10. CopyIs'
    <2>1. \A k \in 1 .. tail + 1 : logdata'[k] = bread(lh[k])
      <3>1. \A k \in 1 .. tail : logdata[k] = bread(lh[k])
        BY <1>0 DEF LogInv, CopyIs
      <3>2. logdata'[tail + 1] = bread(lh[tail + 1])
        BY <1>0, <1>2 DEF LogInv, LogTypeOK
      <3>3. \A k \in 1 .. tail : logdata'[k] = logdata[k]
        BY <1>0, <1>2 DEF LogInv, LogTypeOK
      <3> QED
        BY <1>2, <3>1, <3>2, <3>3
    <2>2. \A c : bread(c)' = bread(c)
      BY <1>0 DEF bread
    <2> QED
      BY <1>0, <1>2, <1>3, <1>4, <2>1, <2>2 DEF CopyIs, Stages
  <1> QED
    BY <1>4, <1>6, <1>7, <1>8, <1>9, <1>10 DEF LogInv, Control

\* The header is written: the commit.
LEMMA write_headStep ==
    ASSUME LogInv, NEW p \in Procs, write_head(p) PROVE LogInv' /\ Ops' = Ops
  <1>0. /\ outstanding' = outstanding /\ committing' = committing /\ lh' = lh /\ cache' = cache /\ pin' = pin
        /\ wrote' = wrote /\ boot' = boot /\ disk' = disk /\ logdata' = logdata /\ tail' = tail
        /\ pc[p] = "write_head" /\ head' = lh /\ pc' = [pc EXCEPT ![p] = "install_trans"]
    BY DEF write_head, locks
  <1>1. pc[p] \in Stages /\ "install_trans" \in Stages
    BY <1>0 DEF Stages
  <1>2. tail = 0 /\ tail < Len(lh)
    BY <1>0 DEF LogInv, Control, LoopsInRange, Stages
  <1>3. /\ pc' \in [Procs -> {"out", "asleep", "woken", "op"} \cup Stages] /\ pc'[p] = "install_trans"
        /\ \A q \in Procs : q # p => pc'[q] \notin Stages /\ pc'[q] # "op"
        /\ CommitAlone' /\ CommitIsDone' /\ OutstandingIsOps' /\ BootAlone' /\ LogBelongs' /\ SleeperHasWaker'
        /\ Ops' = Ops
    BY <1>0, <1>1, CommitControl
  <1>4. boot = "up" /\ \A q \in Procs : q # p => pc[q] \notin Stages
    BY <1>1, CommitFacts
  <1>5. LogTypeOK'
    BY <1>0, <1>3 DEF LogInv, LogTypeOK
  <1>6. LoopsInRange' /\ HeadIs' /\ RecoveredIs'
    BY <1>0, <1>2, <1>3, <1>4 DEF LoopsInRange, HeadIs, RecoveredIs, Stages
  <1>7. PinIs'
    <2>1. \A b \in Blocks : pin[b] = IF b \in Listed(lh) THEN 1 ELSE 0
      BY <1>0, <1>4 DEF LogInv, PinIs, Stages
    <2>2. \A b \in Blocks : b \in Listed(lh) <=> \E k \in tail + 1 .. Len(lh) : lh[k] = b
      BY <1>2 DEF Listed
    <2> QED
      BY <1>0, <1>3, <1>4, <2>1, <2>2 DEF PinIs, Stages
  <1>8. CacheIs'
    BY <1>0 DEF LogInv, CacheIs
  <1>9. CopyIs'
    BY <1>0, <1>3 DEF LogInv, CopyIs, Stages, bread
  <1> QED
    BY <1>3, <1>5, <1>6, <1>7, <1>8, <1>9 DEF LogInv, Control

\* One iteration of install_trans: the home block gets what bread returns.
LEMMA install_transStep ==
    ASSUME LogInv, NEW p \in Procs, install_trans(p)
    PROVE  LogInv' /\ Ops' = Ops /\ \A b \in Blocks : bread(b)' = bread(b)
  <1> DEFINE h == lh[tail + 1]
             d == logdata[tail + 1]
  <1>0. /\ outstanding' = outstanding /\ committing' = committing /\ lh' = lh
        /\ wrote' = wrote /\ boot' = boot /\ logdata' = logdata /\ head' = head
        /\ pc[p] = "install_trans" /\ Advance(p, "erase")
        /\ disk' = [disk EXCEPT ![h] = d] /\ cache' = [cache EXCEPT ![h] = d] /\ pin' = [pin EXCEPT ![h] = @ - 1]
    BY DEF install_trans, locks, Home
  <1>1. pc[p] \in Stages \ {"finish"}
    BY <1>0 DEF Stages
  <1>2. tail \in Nat /\ tail < Len(lh) /\ Len(lh) \in Nat /\ Len(lh) <= LOGSIZE /\ LOGSIZE \in Nat /\ lh \in Seq(Blocks)
    BY <1>1, LenProperties, LogAssumption DEF LogInv, LogTypeOK, Control, LoopsInRange
  <1>3. h \in Blocks /\ d \in Values
    <2>1. tail + 1 \in 1 .. Len(lh) /\ tail + 1 \in 1 .. LOGSIZE
      BY <1>2
    <2>2. h \in Blocks
      BY <1>2, <2>1, ListedBlocks
    <2>3. d \in Values
      BY <2>1 DEF LogInv, LogTypeOK
    <2> QED
      BY <2>2, <2>3
  <1>4. d = bread(h) /\ d # NoBuf
    BY <1>0, <1>2, <1>3, LogAssumption DEF LogInv, CopyIs
  <1>5. \A b \in Blocks : pin[b] = IF \E k \in tail + 1 .. Len(lh) : lh[k] = b THEN 1 ELSE 0
    BY <1>0 DEF LogInv, PinIs
  <1>6. pin[h] = 1
    BY <1>2, <1>3, <1>5
  <1>7. PICK st \in Stages :
              /\ pc' = [pc EXCEPT ![p] = st]
              /\ \/ tail + 1 < Len(lh) /\ tail' = tail + 1 /\ st = pc[p]
                 \/ tail + 1 = Len(lh) /\ tail' = 0 /\ st = "erase"
    BY <1>0, <1>1, AdvanceValue
  <1>8. /\ pc' \in [Procs -> {"out", "asleep", "woken", "op"} \cup Stages] /\ pc'[p] = st
        /\ \A q \in Procs : q # p => pc'[q] \notin Stages /\ pc'[q] # "op"
        /\ CommitAlone' /\ CommitIsDone' /\ OutstandingIsOps' /\ BootAlone' /\ LogBelongs' /\ SleeperHasWaker'
        /\ Ops' = Ops
    BY <1>0, <1>1, <1>7, CommitControl
  <1>9. boot = "up" /\ \A q \in Procs : q # p => pc[q] \notin Stages
    BY <1>1, CommitFacts
  <1> HIDE DEF h, d
  <1>10. pin' \in [Blocks -> Nat] /\ pin'[h] = 0 /\ disk'[h] = d /\ cache'[h] = d
    BY <1>0, <1>3, <1>6 DEF LogInv, LogTypeOK
  <1>11. \A b \in Blocks : b # h => pin'[b] = pin[b] /\ disk'[b] = disk[b] /\ cache'[b] = cache[b]
    BY <1>0, <1>3 DEF LogInv, LogTypeOK
  <1>12. \A b \in Blocks : bread(b)' = bread(b)
    BY <1>4, <1>10, <1>11 DEF bread
  <1>13. LogTypeOK'
    <2>1. disk' \in [Blocks -> Values] /\ cache' \in [Blocks -> Values \cup {NoBuf}] /\ tail' \in Nat
      BY <1>0, <1>2, <1>3, <1>7 DEF LogInv, LogTypeOK
    <2> QED
      BY <1>0, <1>8, <1>10, <2>1 DEF LogInv, LogTypeOK
  <1>14. LoopsInRange'
    BY <1>0, <1>2, <1>7, <1>8, <1>9 DEF LoopsInRange, Stages
  <1>15. HeadIs' /\ RecoveredIs'
    BY <1>0, <1>7, <1>8, <1>9 DEF LogInv, HeadIs, RecoveredIs, Stages
  <1>16. PinIs'
    <2>1. \A b \in Blocks : b # h => pin[b] = IF \E k \in tail + 2 .. Len(lh) : lh[k] = b THEN 1 ELSE 0
      <3>1. ASSUME NEW b \in Blocks, b # h, NEW k \in tail + 1 .. Len(lh), lh[k] = b PROVE k \in tail + 2 .. Len(lh)
        BY <1>2, <3>1 DEF h
      <3>2. \A k \in tail + 2 .. Len(lh) : k \in tail + 1 .. Len(lh)
        BY <1>2
      <3> QED
        BY <1>5, <3>1, <3>2
    <2>2. \A k \in tail + 2 .. Len(lh) : lh[k] # h
      <3>1. SUFFICES ASSUME NEW k \in tail + 2 .. Len(lh), lh[k] = lh[tail + 1] PROVE FALSE
        BY DEF h
      <3>2. k \in 1 .. Len(lh) /\ tail + 1 \in 1 .. Len(lh) /\ k # tail + 1
        BY <1>2
      <3> QED
        BY <3>1, <3>2 DEF LogInv, LogTypeOK, Distinct
    <2>3. \A b \in Blocks : pin'[b] = IF \E k \in tail + 2 .. Len(lh) : lh[k] = b THEN 1 ELSE 0
      BY <1>10, <1>11, <2>1, <2>2
    <2>4. CASE tail' = tail + 1 /\ st = "install_trans"
      <3>1. tail' + 1 = tail + 2
        BY <1>2, <2>4
      <3> QED
        BY <1>0, <1>8, <1>9, <2>3, <2>4, <3>1 DEF PinIs, Stages
    <2>5. CASE tail + 1 = Len(lh) /\ st = "erase"
      <3>1. \A b \in Blocks : pin'[b] = 0
        BY <1>2, <2>3, <2>5
      <3> QED
        BY <1>0, <1>8, <1>9, <2>5, <3>1 DEF PinIs, Stages
    <2> QED
      BY <1>0, <1>7, <2>4, <2>5
  <1>17. CacheIs'
    BY <1>10, <1>11 DEF LogInv, CacheIs
  <1>18. CopyIs'
    <2>1. \A k \in 1 .. Len(lh) : logdata[k] = bread(lh[k])
      BY <1>0 DEF LogInv, CopyIs
    <2>2. \A k \in 1 .. Len(lh') : logdata'[k] = bread(lh[k])'
      BY <1>0, <1>2, <1>12, <2>1, ListedBlocks
    <2> QED
      BY <1>0, <1>7, <1>8, <2>2 DEF CopyIs, Stages
  <1> QED
    BY <1>8, <1>12, <1>13, <1>14, <1>15, <1>16, <1>17, <1>18 DEF LogInv, Control

\* The header is cleared once everything is installed.
LEMMA eraseStep ==
    ASSUME LogInv, NEW p \in Procs, erase(p) PROVE LogInv' /\ Ops' = Ops
  <1>0. /\ outstanding' = outstanding /\ committing' = committing /\ cache' = cache /\ pin' = pin
        /\ wrote' = wrote /\ boot' = boot /\ disk' = disk /\ logdata' = logdata /\ tail' = tail
        /\ pc[p] = "erase" /\ lh' = <<>> /\ head' = <<>> /\ pc' = [pc EXCEPT ![p] = "finish"]
    BY DEF erase
  <1>1. pc[p] \in Stages /\ "finish" \in Stages
    BY <1>0 DEF Stages
  <1>2. /\ pc' \in [Procs -> {"out", "asleep", "woken", "op"} \cup Stages] /\ pc'[p] = "finish"
        /\ \A q \in Procs : q # p => pc'[q] \notin Stages /\ pc'[q] # "op"
        /\ CommitAlone' /\ CommitIsDone' /\ OutstandingIsOps' /\ BootAlone' /\ LogBelongs' /\ SleeperHasWaker'
        /\ Ops' = Ops
    BY <1>0, <1>1, CommitControl
  <1>3. boot = "up" /\ \A q \in Procs : q # p => pc[q] \notin Stages
    BY <1>1, CommitFacts
  <1>4. LogTypeOK'
    <2>1. lh' \in Seq(Blocks) /\ Len(lh') <= LOGSIZE /\ Distinct(lh')
      BY <1>0, EmptyList, LogAssumption
    <2>2. head' = lh'
      BY <1>0
    <2> QED
      BY <1>0, <1>2, <2>1, <2>2 DEF LogInv, LogTypeOK
  <1>5. LoopsInRange' /\ HeadIs' /\ RecoveredIs' /\ CopyIs'
    BY <1>0, <1>2, <1>3 DEF LoopsInRange, HeadIs, RecoveredIs, CopyIs, Stages
  <1>6. PinIs'
    <2>1. \A b \in Blocks : pin[b] = 0
      BY <1>0 DEF LogInv, PinIs
    <2> QED
      BY <1>0, <1>2, <1>3, <2>1, EmptyList DEF PinIs, Stages
  <1>7. CacheIs'
    BY <1>0 DEF LogInv, CacheIs
  <1> QED
    BY <1>2, <1>4, <1>5, <1>6, <1>7 DEF LogInv, Control

\* The last critical section of end_op.
LEMMA FinishStep ==
    ASSUME LogInv, NEW p \in Procs, Finish(p) PROVE LogInv' /\ Ops' = Ops
  <1>0. /\ lh' = lh /\ outstanding' = outstanding /\ cache' = cache /\ pin' = pin /\ tail' = tail
        /\ wrote' = wrote /\ boot' = boot /\ disk' = disk /\ logdata' = logdata /\ head' = head
        /\ pc[p] = "finish" /\ committing' = FALSE /\ pc' = WakeupAnd(p, "out")
    BY DEF Finish, storage
  <1>1. pc[p] \in Stages
    BY <1>0 DEF Stages
  <1>2. /\ committing /\ boot = "up" /\ outstanding = 0 /\ Ops = {}
        /\ \A q \in Procs : q # p => pc[q] \notin Stages /\ pc[q] # "op"
    BY <1>1, CommitFacts
  <1>3. /\ pc' \in [Procs -> {"out", "asleep", "woken", "op"} \cup Stages] /\ pc'[p] = "out"
        /\ \A q \in Procs : pc'[q] # "asleep"
        /\ \A q \in Procs : q # p => (pc'[q] = "op" <=> pc[q] = "op")
    BY <1>0, WakeupAndValue
  <1>4. \A q \in Procs : pc'[q] \notin Stages /\ pc'[q] # "op"
    BY <1>0, <1>2, <1>3, WakeupAndValue DEF Stages
  <1>5. Ops' = Ops
    BY <1>2, <1>4 DEF Ops
  <1>6. lh = <<>>
    BY <1>0 DEF LogInv, Control, LoopsInRange
  <1>7. LogTypeOK'
    BY <1>0, <1>3 DEF LogInv, LogTypeOK
  <1>8. Control'
    <2>1. CommitAlone' /\ CommitIsDone' /\ BootAlone' /\ LogBelongs' /\ SleeperHasWaker'
      BY <1>0, <1>2, <1>3, <1>4, <1>6 DEF CommitAlone, CommitIsDone, BootAlone, LogBelongs, SleeperHasWaker
    <2>2. OutstandingIsOps' /\ LoopsInRange'
      BY <1>0, <1>2, <1>4, <1>5 DEF LogInv, Control, OutstandingIsOps, LoopsInRange, Stages
    <2> QED
      BY <2>1, <2>2 DEF Control
  <1>9. HeadIs' /\ PinIs' /\ RecoveredIs' /\ CopyIs'
    BY Zenon, <1>0, <1>2, <1>4 DEF LogInv, HeadIs, PinIs, RecoveredIs, CopyIs, Stages
  <1>10. CacheIs'
    BY Zenon, <1>0 DEF LogInv, CacheIs
  <1> QED
    BY <1>5, <1>7, <1>8, <1>9, <1>10 DEF LogInv

\* The control state while recovery goes on, up to its loop.
LEMMA RecoveryControl ==
    ASSUME LogInv, boot # "up", outstanding' = outstanding, committing' = committing, pc' = pc,
           boot' = "up" => lh' = <<>>
    PROVE  /\ CommitAlone' /\ CommitIsDone' /\ OutstandingIsOps' /\ BootAlone' /\ LogBelongs' /\ SleeperHasWaker'
           /\ Ops' = Ops /\ Ops = {}
           /\ \A p \in Procs : pc'[p] = "out" /\ pc[p] = "out"
  <1>1. ~committing /\ \A p \in Procs : pc[p] = "out"
    BY DEF LogInv, Control, BootAlone
  <1>2. Ops = {} /\ Ops' = Ops
    BY <1>1 DEF Ops
  <1>3. OutstandingIsOps'
    BY <1>2 DEF LogInv, Control, OutstandingIsOps
  <1>4. CommitAlone' /\ CommitIsDone' /\ BootAlone' /\ LogBelongs' /\ SleeperHasWaker'
    BY <1>1 DEF CommitAlone, CommitIsDone, BootAlone, LogBelongs, SleeperHasWaker, Stages
  <1> QED
    BY <1>1, <1>2, <1>3, <1>4

\* read_head after a crash.
LEMMA RecoverHeadStep ==
    ASSUME LogInv, RecoverHead PROVE LogInv'
  <1>0. /\ outstanding' = outstanding /\ committing' = committing /\ cache' = cache /\ pin' = pin /\ tail' = tail
        /\ pc' = pc /\ wrote' = wrote /\ disk' = disk /\ logdata' = logdata /\ head' = head
        /\ boot = "read_head" /\ lh' = head /\ boot' = IF head = <<>> THEN "erase" ELSE "install_trans"
    BY DEF RecoverHead, storage
  <1>1. /\ CommitAlone' /\ CommitIsDone' /\ OutstandingIsOps' /\ BootAlone' /\ LogBelongs' /\ SleeperHasWaker'
        /\ \A p \in Procs : pc'[p] = "out"
    BY <1>0, RecoveryControl
  <1>2. tail = 0 /\ Len(head) \in Nat /\ (head = <<>> <=> Len(head) = 0)
    BY <1>0, EmptyLength DEF LogInv, LogTypeOK, Control, LoopsInRange
  <1>3. LogTypeOK'
    BY <1>0 DEF LogInv, LogTypeOK
  <1>4. LoopsInRange' /\ HeadIs' /\ CopyIs'
    BY <1>0, <1>1, <1>2 DEF LoopsInRange, HeadIs, CopyIs, Stages
  <1>5. RecoveredIs'
    BY <1>0, <1>2 DEF RecoveredIs
  <1>6. PinIs' /\ CacheIs'
    BY <1>0, <1>1 DEF LogInv, PinIs, CacheIs
  <1> QED
    BY <1>1, <1>3, <1>4, <1>5, <1>6 DEF LogInv, Control

\* One iteration of install_trans during recovery.
LEMMA RecoverInstallStep ==
    ASSUME LogInv, RecoverInstall PROVE LogInv'
  <1> DEFINE h == lh[tail + 1]
             d == logdata[tail + 1]
  <1>0. /\ outstanding' = outstanding /\ committing' = committing /\ lh' = lh /\ pin' = pin
        /\ pc' = pc /\ wrote' = wrote /\ logdata' = logdata /\ head' = head
        /\ boot = "install_trans" /\ disk' = [disk EXCEPT ![h] = d] /\ cache' = [cache EXCEPT ![h] = d]
    BY DEF RecoverInstall, locks, Home
  <1>1. tail \in Nat /\ tail < Len(lh) /\ Len(lh) \in Nat /\ Len(lh) <= LOGSIZE /\ LOGSIZE \in Nat /\ lh \in Seq(Blocks)
    BY <1>0, LenProperties, LogAssumption DEF LogInv, LogTypeOK, Control, LoopsInRange
  <1>2. \/ tail + 1 < Len(lh) /\ tail' = tail + 1 /\ boot' = "install_trans"
        \/ tail + 1 = Len(lh) /\ tail' = 0 /\ boot' = "erase"
    BY <1>0, <1>1 DEF RecoverInstall
  <1>3. h \in Blocks /\ d \in Values
    <2>1. tail + 1 \in 1 .. Len(lh) /\ tail + 1 \in 1 .. LOGSIZE
      BY <1>1
    <2>2. h \in Blocks
      BY <1>1, <2>1, ListedBlocks
    <2>3. d \in Values
      BY <2>1 DEF LogInv, LogTypeOK
    <2> QED
      BY <2>2, <2>3
  <1>4. /\ CommitAlone' /\ CommitIsDone' /\ OutstandingIsOps' /\ BootAlone' /\ LogBelongs' /\ SleeperHasWaker'
        /\ \A p \in Procs : pc'[p] = "out"
    BY <1>0, <1>2, RecoveryControl
  <1>5. LogTypeOK'
    <2> HIDE DEF h, d
    <2>1. disk' \in [Blocks -> Values] /\ cache' \in [Blocks -> Values \cup {NoBuf}] /\ tail' \in Nat
      BY <1>0, <1>1, <1>2, <1>3 DEF LogInv, LogTypeOK
    <2> QED
      BY <1>0, <1>2, <2>1 DEF LogInv, LogTypeOK
  <1>6. LoopsInRange' /\ HeadIs' /\ CopyIs'
    BY <1>0, <1>1, <1>2, <1>4 DEF LogInv, LoopsInRange, HeadIs, CopyIs, Stages
  <1>7. \A b \in Blocks : pin[b] = 0
    BY <1>0 DEF LogInv, PinIs
  <1>8. PinIs' /\ CacheIs'
    <2> HIDE DEF h, d
    <2>1. CacheIs'
      BY <1>0, <1>3, <1>7 DEF LogInv, LogTypeOK, CacheIs
    <2> QED
      BY <1>0, <1>2, <1>4, <1>7, <2>1 DEF PinIs
  <1>9. RecoveredIs'
    <2>1. \A k \in 1 .. tail + 1 : disk'[lh[k]] = logdata[k]
      <3>1. disk'[h] = d
        BY <1>0, <1>3 DEF LogInv, LogTypeOK
      <3>2. ASSUME NEW k \in 1 .. tail PROVE disk'[lh[k]] = logdata[k]
        <4>1. k \in 1 .. Len(lh) /\ tail + 1 \in 1 .. Len(lh) /\ k # tail + 1
          BY <1>1
        <4>2. lh[k] # h /\ lh[k] \in Blocks
          BY <1>1, <4>1, ListedBlocks DEF LogInv, LogTypeOK, Distinct
        <4>3. disk[lh[k]] = logdata[k]
          BY <1>0 DEF LogInv, RecoveredIs
        <4> HIDE DEF h, d
        <4> QED
          BY <1>0, <4>2, <4>3 DEF LogInv, LogTypeOK
      <3> QED
        BY <1>1, <3>1, <3>2
    <2> QED
      BY <1>0, <1>2, <2>1 DEF RecoveredIs
  <1> QED
    BY <1>4, <1>5, <1>6, <1>8, <1>9 DEF LogInv, Control

\* The header is cleared and the system is up.
LEMMA RecoverEraseStep ==
    ASSUME LogInv, RecoverErase PROVE LogInv'
  <1>0. /\ outstanding' = outstanding /\ committing' = committing /\ cache' = cache /\ pin' = pin /\ tail' = tail
        /\ pc' = pc /\ wrote' = wrote /\ disk' = disk /\ logdata' = logdata
        /\ boot = "erase" /\ lh' = <<>> /\ head' = <<>> /\ boot' = "up"
    BY DEF RecoverErase
  <1>1. /\ CommitAlone' /\ CommitIsDone' /\ OutstandingIsOps' /\ BootAlone' /\ LogBelongs' /\ SleeperHasWaker'
        /\ \A p \in Procs : pc'[p] = "out"
    BY <1>0, RecoveryControl
  <1>2. LogTypeOK'
    <2>1. lh' \in Seq(Blocks) /\ Len(lh') <= LOGSIZE /\ Distinct(lh') /\ head' = lh'
      BY <1>0, EmptyList, LogAssumption
    <2> QED
      BY <1>0, <2>1 DEF LogInv, LogTypeOK
  <1>3. LoopsInRange' /\ HeadIs' /\ CopyIs' /\ RecoveredIs'
    BY <1>0, <1>1 DEF LoopsInRange, HeadIs, CopyIs, RecoveredIs, Stages
  <1>4. \A b \in Blocks : pin[b] = 0
    BY <1>0 DEF LogInv, PinIs
  <1>5. PinIs' /\ CacheIs'
    BY <1>0, <1>1, <1>4, EmptyList DEF LogInv, PinIs, CacheIs
  <1> QED
    BY <1>1, <1>2, <1>3, <1>5 DEF LogInv, Control

\* Every step of the log keeps the invariant.
LEMMA LogStepInv ==
    ASSUME LogInv, LogNext PROVE LogInv'
  <1>1. ASSUME NEW p \in Procs, end_op(p) PROVE LogInv'
    BY <1>1, end_opLastStep, end_opStep
  <1> QED
    BY <1>1, begin_opStep, write_logStep, write_headStep, install_transStep, eraseStep, FinishStep, log_writeStep,
       RecycleStep, CrashStep, RecoverHeadStep, RecoverInstallStep, RecoverEraseStep
    DEF LogNext, commit, recover_from_log

\* When nothing runs everything is at home.
LEMMA LogInvQuiescent ==
    LogInv => QuiescentOnDisk
  <1> SUFFICES ASSUME LogInv, boot = "up", outstanding = 0, ~committing
               PROVE  lh = <<>> /\ head = <<>> /\ \A b \in Blocks : bread(b) = disk[b] /\ pin[b] = 0
    BY DEF QuiescentOnDisk, Running
  <1>1. \A p \in Procs : pc[p] \notin Stages
    BY DEF LogInv, Control, CommitAlone
  <1>2. Ops = {}
    BY OpsFinite, CountOps DEF LogInv, Control, OutstandingIsOps
  <1>3. lh = <<>>
    BY <1>2 DEF LogInv, Control, LogBelongs, Ops
  <1>4. head = <<>>
    BY <1>1 DEF LogInv, HeadIs, Stages
  <1>5. \A b \in Blocks : pin[b] = 0
    BY <1>1, <1>3, EmptyList DEF LogInv, PinIs, Stages
  <1> QED
    BY <1>3, <1>4, <1>5 DEF LogInv, CacheIs, bread

\* A step that changes nothing of the log keeps the invariant.
LEMMA LogUntouched ==
    ASSUME UNCHANGED logVars
    PROVE  (LogInv => LogInv') /\ Ops' = Ops /\ lh' = lh /\ wrote' = wrote /\ UNCHANGED AD!avars
  <1>0. /\ lh' = lh /\ outstanding' = outstanding /\ committing' = committing /\ cache' = cache /\ pin' = pin
        /\ tail' = tail /\ pc' = pc /\ wrote' = wrote /\ boot' = boot /\ disk' = disk /\ logdata' = logdata
        /\ head' = head
    BY DEF logVars, memory, storage
  <1>1. Ops' = Ops /\ Durable' = Durable /\ (\A b : bread(b)' = bread(b))
    BY <1>0 DEF Ops, Durable, Listed, bread
  <1>2. Current' = Current
    BY <1>0, <1>1 DEF Current
  <1>3. LogTypeOK => LogTypeOK'
    BY <1>0 DEF LogTypeOK, Distinct
  <1>4. Control => Control'
    BY <1>0, <1>1
    DEF Control, CommitAlone, CommitIsDone, OutstandingIsOps, BootAlone, LogBelongs, LoopsInRange,
        SleeperHasWaker, Running
  <1>5. (HeadIs => HeadIs') /\ (PinIs => PinIs') /\ (CacheIs => CacheIs') /\ (RecoveredIs => RecoveredIs')
    BY <1>0 DEF HeadIs, PinIs, CacheIs, RecoveredIs, Listed
  <1>6. CopyIs => CopyIs'
    BY <1>0, <1>1 DEF CopyIs
  <1> QED
    BY <1>0, <1>1, <1>2, <1>3, <1>4, <1>5, <1>6 DEF LogInv, AD!avars

\* The invariant of the log: what is in memory, in the cache, in the log and in
\* the home blocks fit together at every step of log.c, and after a crash at
\* any of them.
THEOREM LogInvariant == LogSpec => []LogInv
  <1>1. LogInv /\ [LogNext]_logVars => LogInv'
    BY LogStepInv, LogUntouched
  <1> QED
    BY <1>1, LogInitInv, PTL DEF LogSpec

\* Once no operation runs and no commit is on its way, everything written is in
\* its home block, nothing is pinned and the log is empty (end_op, commit,
\* recover_from_log), for every size of the log and whenever it crashes.
THEOREM QuiescentOnDiskSafety == LogSpec => []QuiescentOnDisk
  BY LogInvariant, LogInvQuiescent, PTL

\* A process asleep in begin_op has a running operation or a commit to wake it
\* up.
THEOREM SleeperHasWakerSafety == LogSpec => []SleeperHasWaker
  <1>1. LogInv => SleeperHasWaker
    BY DEF LogInv, Control
  <1> QED
    BY <1>1, LogInvariant, PTL
=============================================================================
