-------------------------------- MODULE Log --------------------------------
(***************************************************************************)
(* The redo log of xv6 (kernel/log.c), over a disk that writes one block   *)
(* at a time and a machine that may crash between any two steps.           *)
(*                                                                         *)
(* A critical section of log.lock is one step.  Between end_op's decision  *)
(* to commit and its last critical section every bwrite is a step.  The    *)
(* buffer cache is what matters of it to the log: which contents bread     *)
(* returns, and that a buffer the log has not pinned may be recycled.      *)
(***************************************************************************)
EXTENDS Integers, Sequences, FiniteSets

CONSTANTS
    Procs,         \* the processes that make file system calls
    Blocks,        \* the home blocks of the file system
    Values, InitValue,
    NoBuf,         \* the block is not in the buffer cache
    MAXOPBLOCKS, LOGSIZE,
    logSize,       \* sb.nlog: the header and logSize - 1 data blocks
    OpBlocks       \* how many blocks an operation really writes, at most

ASSUME LogAssumption ==
    /\ IsFiniteSet(Procs)
    /\ InitValue \in Values /\ NoBuf \notin Values
    /\ MAXOPBLOCKS \in Nat \ {0} /\ LOGSIZE \in Nat /\ logSize \in Nat
    /\ MAXOPBLOCKS <= LOGSIZE
    /\ OpBlocks \in 0 .. MAXOPBLOCKS

VARIABLES
    \* in memory
    lh,            \* log.lh: the block numbers block[0 .. n-1]
    outstanding, committing,
    cache,         \* buffer cache: contents of each block, or NoBuf
    pin,           \* references the log holds on each buffer
    tail,          \* the loop variable of write_log and install_trans
    pc,            \* where each process is
    wrote,         \* the blocks an operation has written
    boot,          \* "up", or where recover_from_log is
    \* on disk
    disk,          \* the home blocks
    logdata,       \* the data blocks of the log
    head           \* the header block: the block numbers it lists

locks == <<outstanding, committing, lh>>
memory == <<lh, outstanding, committing, cache, pin, tail, pc, wrote, boot>>
storage == <<disk, logdata, head>>
logVars == <<memory, storage>>

Listed(s) == {s[k] : k \in 1 .. Len(s)}

Ops == {p \in Procs : pc[p] = "op"}

-----------------------------------------------------------------------------
\* A file system fresh from mkfs, after the first recovery found no log.
LogInit ==
    /\ lh = <<>> /\ outstanding = 0 /\ committing = FALSE
    /\ cache = [b \in Blocks |-> NoBuf] /\ pin = [b \in Blocks |-> 0]
    /\ tail = 0
    /\ pc = [p \in Procs |-> "out"] /\ wrote = [p \in Procs |-> {}]
    /\ boot = "up"
    /\ disk = [b \in Blocks |-> InitValue]
    /\ logdata = [k \in 1 .. LOGSIZE |-> InitValue]
    /\ head = <<>>

Running == boot = "up"

\* What bread returns for b.
bread(b) == IF cache[b] = NoBuf THEN disk[b] ELSE cache[b]

\* bget recycles a buffer nobody holds a reference to.
Recycle(b) ==
    /\ Running
    /\ cache[b] # NoBuf /\ pin[b] = 0
    /\ cache' = [cache EXCEPT ![b] = NoBuf]
    /\ UNCHANGED <<locks, pin, tail, pc, wrote, boot, storage>>

\* A reservation that does not count the operation that asks for it.
MustWaitOffByOne == committing \/ Len(lh) + outstanding * MAXOPBLOCKS > LOGSIZE

MustWait == committing \/ Len(lh) + (outstanding + 1) * MAXOPBLOCKS > LOGSIZE

begin_op(p) ==
    /\ Running /\ pc[p] \in {"out", "woken"}
    /\ \/ /\ MustWait
          /\ pc' = [pc EXCEPT ![p] = "asleep"]
          /\ UNCHANGED outstanding
       \/ /\ ~MustWait
          /\ outstanding' = outstanding + 1
          /\ pc' = [pc EXCEPT ![p] = "op"]
    /\ UNCHANGED <<lh, committing, cache, pin, tail, wrote, boot, storage>>

\* log_write without bpin.
RecordUnpinned(b) ==
    /\ lh' = IF b \in Listed(lh) THEN lh ELSE Append(lh, b)
    /\ UNCHANGED pin

\* log_write records a block number once, and pins its buffer.
Record(b) ==
    IF b \in Listed(lh)
      THEN UNCHANGED <<lh, pin>>
      ELSE lh' = Append(lh, b) /\ pin' = [pin EXCEPT ![b] = @ + 1]

\* log_write panics: "too big a transaction".
TooBig == Len(lh) >= LOGSIZE \/ Len(lh) >= logSize - 1

\* An operation writes at most OpBlocks blocks, each as often as it likes.
MayWrite(p, b) == b \in wrote[p] \/ Cardinality(wrote[p]) < OpBlocks

\* The caller modifies the buffer it got from bread and calls log_write.
log_write(p, b, v) ==
    /\ Running /\ pc[p] = "op"
    /\ MayWrite(p, b) /\ ~TooBig /\ outstanding >= 1
    /\ cache' = [cache EXCEPT ![b] = v]
    /\ Record(b)
    /\ wrote' = [wrote EXCEPT ![p] = @ \cup {b}]
    /\ UNCHANGED <<outstanding, committing, tail, pc, boot, storage>>

\* wakeup(&log), with the calling process moved to where.
WakeupAnd(p, where) ==
    [q \in Procs |-> IF q = p THEN where
                     ELSE IF pc[q] = "asleep" THEN "woken" ELSE pc[q]]

\* end_op of the last operation goes on to commit(), of another one wakes up
\* those waiting for space.
end_op(p) ==
    /\ Running /\ pc[p] = "op" /\ ~committing
    /\ outstanding' = outstanding - 1
    /\ \/ /\ outstanding' = 0
          /\ committing' = TRUE
          /\ pc' = [pc EXCEPT ![p] = IF lh = <<>> THEN "finish" ELSE "write_log"]
       \/ /\ outstanding' # 0
          /\ pc' = WakeupAnd(p, "out")
          /\ UNCHANGED committing
    /\ tail' = 0
    /\ wrote' = [wrote EXCEPT ![p] = {}]
    /\ UNCHANGED <<lh, cache, pin, boot, storage>>

\* The next stage once a loop over the log has done its last block.
Advance(p, stage) ==
    IF tail + 1 < Len(lh)
      THEN tail' = tail + 1 /\ UNCHANGED pc
      ELSE tail' = 0 /\ pc' = [pc EXCEPT ![p] = stage]

\* One iteration of write_log: cached contents to the log.
write_log(p) ==
    /\ Running /\ pc[p] = "write_log"
    /\ logdata' = [logdata EXCEPT ![tail + 1] = bread(lh[tail + 1])]
    /\ Advance(p, "write_head")
    /\ UNCHANGED <<locks, cache, pin, wrote, boot, disk, head>>

\* The first write_head of commit(), "the real commit".
write_head(p) ==
    /\ Running /\ pc[p] = "write_head"
    /\ head' = lh
    /\ pc' = [pc EXCEPT ![p] = "install_trans"]
    /\ UNCHANGED <<locks, cache, pin, tail, wrote, boot, disk, logdata>>

\* The home block is written from the cache buffer after the log block was
\* copied into it.
Home(b) ==
    /\ disk' = [disk EXCEPT ![b] = logdata[tail + 1]]
    /\ cache' = [cache EXCEPT ![b] = logdata[tail + 1]]

\* One iteration of install_trans(0).
install_trans(p) ==
    /\ Running /\ pc[p] = "install_trans"
    /\ Home(lh[tail + 1])
    /\ pin' = [pin EXCEPT ![lh[tail + 1]] = @ - 1]
    /\ Advance(p, "erase")
    /\ UNCHANGED <<locks, wrote, boot, logdata, head>>

\* log.lh.n = 0 and the second write_head.
erase(p) ==
    /\ Running /\ pc[p] = "erase"
    /\ lh' = <<>> /\ head' = <<>>
    /\ pc' = [pc EXCEPT ![p] = "finish"]
    /\ UNCHANGED <<outstanding, committing, cache, pin, tail, wrote, boot,
                   disk, logdata>>

\* The last critical section of end_op.
Finish(p) ==
    /\ Running /\ pc[p] = "finish"
    /\ committing' = FALSE
    /\ pc' = WakeupAnd(p, "out")
    /\ UNCHANGED <<lh, outstanding, cache, pin, tail, wrote, boot, storage>>

-----------------------------------------------------------------------------
\* The machine stops and starts again: memory is lost.
Crash ==
    /\ boot' = "read_head"
    /\ lh' = <<>> /\ outstanding' = 0 /\ committing' = FALSE
    /\ cache' = [b \in Blocks |-> NoBuf] /\ pin' = [b \in Blocks |-> 0]
    /\ tail' = 0
    /\ pc' = [p \in Procs |-> "out"] /\ wrote' = [p \in Procs |-> {}]
    /\ UNCHANGED storage

\* A recovery that clears the log without installing it.
RecoverForgetting ==
    /\ boot = "read_head"
    /\ lh' = head
    /\ boot' = "erase"
    /\ UNCHANGED <<outstanding, committing, cache, pin, tail, pc, wrote, storage>>

\* recover_from_log, first step: read_head.
RecoverHead ==
    /\ boot = "read_head"
    /\ lh' = head
    /\ boot' = IF head = <<>> THEN "erase" ELSE "install_trans"
    /\ UNCHANGED <<outstanding, committing, cache, pin, tail, pc, wrote, storage>>

\* One iteration of install_trans(1), which does not unpin.
RecoverInstall ==
    /\ boot = "install_trans"
    /\ Home(lh[tail + 1])
    /\ IF tail + 1 < Len(lh)
         THEN tail' = tail + 1 /\ UNCHANGED boot
         ELSE tail' = 0 /\ boot' = "erase"
    /\ UNCHANGED <<locks, pin, pc, wrote, logdata, head>>

\* log.lh.n = 0; write_head().
RecoverErase ==
    /\ boot = "erase"
    /\ lh' = <<>> /\ head' = <<>>
    /\ boot' = "up"
    /\ UNCHANGED <<outstanding, committing, cache, pin, tail, pc, wrote,
                   disk, logdata>>

recover_from_log == RecoverHead \/ RecoverInstall \/ RecoverErase

-----------------------------------------------------------------------------
commit(p) == write_log(p) \/ write_head(p) \/ install_trans(p) \/ erase(p)

LogNext ==
    \/ \E p \in Procs : begin_op(p) \/ end_op(p) \/ commit(p) \/ Finish(p)
    \/ \E p \in Procs, b \in Blocks, v \in Values : log_write(p, b, v)
    \/ \E b \in Blocks : Recycle(b)
    \/ Crash
    \/ recover_from_log

LogSpec == LogInit /\ [][LogNext]_logVars

-----------------------------------------------------------------------------
\* The blocks as a crash now would leave them: a block listed in the header
\* will be installed from the log.
Durable ==
    [b \in Blocks |->
        IF b \in Listed(head)
          THEN logdata[CHOOSE k \in 1 .. Len(head) : head[k] = b]
          ELSE disk[b]]

\* The blocks as system calls see them.
Current == IF boot = "up" THEN [b \in Blocks |-> bread(b)] ELSE Durable

AD == INSTANCE AtomicDisk WITH durable <- Durable, current <- Current, active <- Ops

\* Group commit with crashes: the operations between two commits reach the
\* disk together or not at all, at every possible moment of a crash,
\* including one in the middle of the recovery from an earlier one.
ImplementsAtomicDisk == AD!ASpec

\* The reservations of begin_op, made before anything is written, keep
\* log_write ("too big a transaction", "log_write outside of trans") and
\* end_op ("log.committing") from panicking.
LogNoPanic ==
    \A p \in Ops :
        /\ ~committing /\ outstanding >= 1
        /\ \A b \in Blocks : MayWrite(p, b) => ~TooBig

\* When no operation runs and no commit is on its way, everything system
\* calls have written is in its home block and the log is empty.
QuiescentOnDisk ==
    Running /\ outstanding = 0 /\ ~committing =>
        /\ lh = <<>> /\ head = <<>>
        /\ \A b \in Blocks : bread(b) = disk[b] /\ pin[b] = 0

\* A process asleep in begin_op has an end_op or a commit to wake it up.
SleeperHasWaker ==
    Running /\ (\E p \in Procs : pc[p] = "asleep") => outstanding > 0 \/ committing

=============================================================================
