-------------------------------- MODULE Pipe --------------------------------
(***************************************************************************)
(* A pipe of xv6 (kernel/pipe.c) shared by processes that read it and      *)
(* processes that write it, each holding its end open through a file of    *)
(* the file table.  pi->lock is explicit and one loop iteration is one     *)
(* step, because kill does not take that lock and may come between two     *)
(* iterations.  nread and nwrite wrap around at UINT.                      *)
(***************************************************************************)
EXTENDS Integers, Sequences, FiniteSets

CONSTANTS
    Readers, Writers,
    PIPESIZE, UINT,
    WriteSize, ReadSize,   \* the argument n of each call
    NWrites,               \* how many times a writer calls write
    Killable,              \* the processes that may be killed
    NoProc

Procs == Readers \cup Writers

ASSUME PipeAssumption ==
    /\ IsFiniteSet(Procs) /\ Readers \cap Writers = {} /\ NoProc \notin Procs
    /\ PIPESIZE \in Nat \ {0} /\ UINT \in Nat
    /\ UINT > PIPESIZE /\ UINT % PIPESIZE = 0
    /\ {WriteSize, ReadSize, NWrites} \subseteq Nat
    /\ Killable \subseteq Procs

VARIABLES
    lock,            \* the process that holds pi->lock, or NoProc
    data, nread, nwrite, readopen, writeopen,
    freed,           \* kfree(pi) has happened
    pc,
    i,               \* the local variable of piperead and pipewrite
    calls,           \* how many writes each writer has made
    open,            \* the processes that hold their end open
    killed,
    sent, taken      \* the bytes put into and taken out of the pipe so far

pipe == <<data, nread, nwrite, readopen, writeopen, freed, sent, taken>>
vars == <<lock, pipe, pc, i, calls, open, killed>>

\* pc: "out": in user space; "lock": waiting for pi->lock; "write", "wait",
\* "copy": in the loops, holding it; "sleep": about to sleep, holding it;
\* "asleep" on pi->nread or pi->nwrite; "closing": between fileclose and pipeclose; "gone".

Side(p) == IF p \in Writers THEN Writers ELSE Readers

Goto(p, where) == pc' = [pc EXCEPT ![p] = where]

\* wakeup on the channel the processes of side sleep on; p goes to where.
WakeupAnd(side, p, where) ==
    pc' = [q \in Procs |-> IF q = p THEN where
                           ELSE IF q \in side /\ pc[q] = "asleep" THEN "lock"
                           ELSE pc[q]]

-----------------------------------------------------------------------------
\* pipealloc, and the forks that shared the ends.
Init ==
    /\ lock = NoProc
    /\ data = [k \in 0 .. PIPESIZE - 1 |-> NoProc]
    /\ nread = 0 /\ nwrite = 0 /\ readopen = TRUE /\ writeopen = TRUE
    /\ freed = FALSE
    /\ pc = [p \in Procs |-> "out"] /\ i = [p \in Procs |-> 0]
    /\ calls = [p \in Writers |-> 0]
    /\ open = Procs /\ killed = {}
    /\ sent = <<>> /\ taken = <<>>

Empty == nread = nwrite

\* ++ on an unsigned counter.
Inc(n) == (n + 1) % UINT

\* A full test that is one too late.
FullLate == nwrite = (nread + PIPESIZE + 1) % UINT

Full == nwrite = (nread + PIPESIZE) % UINT

\* read or write is called: i is 0.
Call(p) ==
    /\ pc[p] = "out" /\ p \in open /\ p \notin killed
    /\ p \in Writers => calls[p] < NWrites
    /\ calls' = IF p \in Writers THEN [calls EXCEPT ![p] = @ + 1] ELSE calls
    /\ i' = [i EXCEPT ![p] = 0]
    /\ Goto(p, "lock")
    /\ UNCHANGED <<lock, pipe, open, killed>>

\* acquire(&pi->lock), at the start and on the way out of sleep.
Acquire(p) ==
    /\ pc[p] = "lock" /\ lock = NoProc
    /\ lock' = p
    /\ Goto(p, IF p \in Writers THEN "write" ELSE "wait")
    /\ UNCHANGED <<pipe, i, calls, open, killed>>

\* pi->readopen == 0 || killed(pr): return -1 without a wakeup.
WriteFails(p) ==
    /\ pc[p] = "write" /\ i[p] < WriteSize
    /\ ~readopen \/ p \in killed
    /\ lock' = NoProc
    /\ Goto(p, "out")
    /\ UNCHANGED <<pipe, i, calls, open, killed>>

CanWrite(p) == pc[p] = "write" /\ i[p] < WriteSize /\ readopen /\ p \notin killed

\* sleep(chan, &pi->lock): releases the lock and sleeps in one go (p->lock
\* is held), but a kill since the last look at killed goes unnoticed.
Sleep(p) ==
    /\ pc[p] = "sleep"
    /\ lock' = NoProc
    /\ Goto(p, "asleep")
    /\ UNCHANGED <<pipe, i, calls, open, killed>>

\* The pipe is full: wakeup(&pi->nread), and on to sleep(&pi->nwrite, &pi->lock).
WriteSleeps(p) ==
    /\ CanWrite(p) /\ Full
    /\ WakeupAnd(Readers, p, "sleep")
    /\ UNCHANGED <<lock, pipe, i, calls, open, killed>>

\* One byte goes in.
WriteByte(p) ==
    /\ CanWrite(p) /\ ~Full
    /\ LET ch == <<p, (calls[p] - 1) * WriteSize + i[p]>> IN
         /\ data' = [data EXCEPT ![nwrite % PIPESIZE] = ch]
         /\ sent' = Append(sent, ch)
    /\ nwrite' = Inc(nwrite)
    /\ i' = [i EXCEPT ![p] = @ + 1]
    /\ UNCHANGED <<lock, nread, readopen, writeopen, freed, taken, pc, calls, open, killed>>

\* A return without the wakeup.
WriteReturns_Silent(p) ==
    /\ \/ pc[p] = "write" /\ i[p] = WriteSize
       \/ CanWrite(p) /\ ~Full
    /\ lock' = NoProc
    /\ Goto(p, "out")
    /\ UNCHANGED <<pipe, i, calls, open, killed>>

\* The end of the loop, or copyin failed: wakeup(&pi->nread), return i.
WriteReturns(p) ==
    /\ \/ pc[p] = "write" /\ i[p] = WriteSize
       \/ CanWrite(p) /\ ~Full
    /\ lock' = NoProc
    /\ WakeupAnd(Readers, p, "out")
    /\ UNCHANGED <<pipe, i, calls, open, killed>>

pipewrite(p) == WriteFails(p) \/ WriteSleeps(p) \/ WriteByte(p) \/ WriteReturns(p)

\* Nothing to read yet: return -1 if killed, or sleep(&pi->nread, &pi->lock).
ReadWaits(p) ==
    /\ pc[p] = "wait" /\ Empty /\ writeopen
    /\ \/ p \in killed /\ Goto(p, "out") /\ lock' = NoProc
       \/ p \notin killed /\ Goto(p, "sleep") /\ UNCHANGED lock
    /\ UNCHANGED <<pipe, i, calls, open, killed>>

ReadStarts(p) ==
    /\ pc[p] = "wait" /\ ~(Empty /\ writeopen)
    /\ Goto(p, "copy")
    /\ UNCHANGED <<lock, pipe, i, calls, open, killed>>

\* A byte comes out; if copyout fails it is gone, and the loop ends.
ReadByte(p) ==
    /\ pc[p] = "copy" /\ i[p] < ReadSize /\ ~Empty
    /\ taken' = Append(taken, data[nread % PIPESIZE])
    /\ nread' = Inc(nread)
    /\ \E copied \in BOOLEAN : i' = [i EXCEPT ![p] = IF copied THEN @ + 1 ELSE ReadSize]
    /\ UNCHANGED <<lock, data, nwrite, readopen, writeopen, freed, sent, pc, calls, open, killed>>

\* wakeup(&pi->nwrite), return.
ReadReturns(p) ==
    /\ pc[p] = "copy" /\ (i[p] = ReadSize \/ Empty)
    /\ lock' = NoProc
    /\ WakeupAnd(Writers, p, "out")
    /\ UNCHANGED <<pipe, i, calls, open, killed>>

piperead(p) == ReadWaits(p) \/ ReadStarts(p) \/ ReadByte(p) \/ ReadReturns(p)

\* fileclose: the last reference to an end goes on to close the pipe.
fileclose(p) ==
    /\ pc[p] = "out" /\ p \in open
    /\ open' = open \ {p}
    /\ Goto(p, IF open' \cap Side(p) = {} THEN "closing" ELSE "gone")
    /\ UNCHANGED <<lock, pipe, i, calls, killed>>

\* kfree as soon as one end is closed.
LastEndEither == ~readopen' \/ ~writeopen'

LastEnd == ~readopen' /\ ~writeopen'

pipeclose(p) ==
    /\ pc[p] = "closing" /\ lock = NoProc
    /\ writeopen' = (writeopen /\ p \notin Writers)
    /\ readopen' = (readopen /\ p \notin Readers)
    /\ WakeupAnd(Procs \ Side(p), p, "gone")
    /\ freed' = LastEnd
    /\ UNCHANGED <<lock, data, nread, nwrite, sent, taken, i, calls, open, killed>>

\* kill(pid): also wakes the process up if it sleeps.
kill(p) ==
    /\ p \in Killable \ killed
    /\ killed' = killed \cup {p}
    /\ Goto(p, IF pc[p] = "asleep" THEN "lock" ELSE pc[p])
    /\ UNCHANGED <<lock, pipe, i, calls, open>>

-----------------------------------------------------------------------------
Proc(p) ==
    \/ Acquire(p) \/ pipewrite(p) \/ piperead(p) \/ Sleep(p)
    \/ pipeclose(p)

Next ==
    \/ \E p \in Procs : Call(p) \/ Proc(p) \/ fileclose(p) \/ kill(p)
    \/ freed /\ UNCHANGED vars

Spec == Init /\ [][Next]_vars

\* A process in the kernel runs on: a spinlock that is free again and again is
\* acquired.  Nobody need ever read, write or close.
FairSpec == Spec /\ \A p \in Procs : SF_vars(Proc(p))

-----------------------------------------------------------------------------
Held == (nwrite - nread + UINT) % UINT

\* First in, first out: what came out, then what is in the ring from nread
\* on, is what went in, also after the counters have wrapped around.
FIFO ==
    /\ Held <= PIPESIZE
    /\ sent = taken \o [k \in 1 .. Held |-> data[((nread + k - 1) % UINT) % PIPESIZE]]

\* A pipe that was freed is not used: nobody is in its code or about to be.
NoUseAfterFree ==
    freed => \A p \in Procs : pc[p] \in {"out", "gone"} /\ p \notin open

\* What a process sleeps for: a reader for bytes, a writer for room, as long as
\* the other end is open.
MustWait(p) == IF p \in Readers THEN Empty /\ writeopen ELSE Full /\ readopen

\* Nobody sleeps on what has happened: a reader is woken up for the bytes that
\* are there and a writer for the room there is, by those who move bytes, not
\* by who closes the pipe.  A writer that is killed returns without a wakeup
\* after the bytes it has put in, so this is about pipes whose writers live.
SleepersGoOn ==
    [](killed \cap Writers = {}) =>
        \A p \in Procs : (pc[p] = "asleep" /\ ~MustWait(p)) ~> (pc[p] # "asleep" \/ MustWait(p))

=============================================================================
