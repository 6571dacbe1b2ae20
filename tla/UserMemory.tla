----------------------------- MODULE UserMemory -----------------------------
(***************************************************************************)
(* The memory of processes: fork, exec, sbrk, exit and wait (kernel/proc.c,*)
(* exec.c, sysproc.c) over module Vm, and the system calls that copy to    *)
(* and from user memory, run by user programs in the notation of Programs. *)
(*                                                                         *)
(* A system call is one step: while it runs it shares nothing with others  *)
(* but the free list, and whatever takes a page from it in between leaves  *)
(* it as short of memory as if it had been taken before.  Programs may use *)
(* one pipe at a time; a file is one buffer that a program writes and      *)
(* reads back.                                                             *)
(***************************************************************************)
EXTENDS Vm

CONSTANTS NPROC, PIPESIZE, MAXPATH, MAXARG

UserMemoryAssumption == {NPROC, PIPESIZE, MAXPATH, MAXARG} \subseteq Nat \ {0}

VARIABLES h,     \* physical memory: see Vm
          pipe,  \* [pa, n]: the page of the pipe (0: no pipe) and the bytes in it
          mp     \* the processes

vars == <<h, pipe, mp>>

Slots == 1 .. NPROC
INITPROC == 1
NoPipe == [pa |-> 0, n |-> 0]
Unused == [st |-> "unused", par |-> 0, killed |-> FALSE, xs |-> 0, tf |-> 0, pt |-> NoTable, sz |-> 0,
           tracer |-> "", fds |-> {}, file |-> <<"x", "v", "6">>, u |-> <<>>, env |-> [traced |-> 0], ret |-> 0,
           bad |-> FALSE]

-----------------------------------------------------------------------------
(* System calls of programs about memory.  An address is <<variable, offset>>
   and a size is a constant and a multiple of a variable. *)

At(v, off) == <<v, off>>
Const(off) == <<"", off>>
Sbrk(to, n) == [Call("sbrk", [amt |-> n, v |-> "", k |-> 0]) EXCEPT !.to = to]
SbrkBy(n, k, v) == Call("sbrk", [amt |-> n, v |-> v, k |-> k])
Store(a, c) == Call("store", [a |-> a, c |-> c])
Load(a, c) == Call("load", [a |-> a, c |-> c])       \* c: what must be there, "" for anything
WriteMem(kind, a, n) == Call("write", [kind |-> kind, a |-> a, len |-> n])
ReadMem(kind, a, n) == Call("read", [kind |-> kind, a |-> a, len |-> n])
Path(call, a) == Call("path", [what |-> call, a |-> a])
PipeAt(a) == Call("pipe", [a |-> a])
CloseFds(ds) == Call("close", [ds |-> ds])
ExecAt(argv, img, args, prog) == Call("exec", [argv |-> argv, img |-> img, args |-> args, prog |-> prog])
ExecMem(img, args, prog) == ExecAt(Const(0), img, args, prog)
WaitAt(a) == [Wait("", "") EXCEPT !.a = a]
Trace(num) == Call("trace", [num |-> num])
Sysinfo(mem, nproc) == Call("sysinfo", [mem |-> mem, nproc |-> nproc])
Let(v, n) == Call("let", [v |-> v, n0 |-> n])
Count(v) == Call("count", [v |-> v])

Address(me, a) == a[2] + (IF a[1] = "" THEN 0 ELSE me.env[a[1]])

-----------------------------------------------------------------------------
(* Processes and their page tables *)

WithTrapframe(s) ==
    IF s.ok THEN s
    ELSE Failed(uvmfree(uvmunmap([s EXCEPT !.ok = TRUE], TRAMPOLINE, 1, FALSE), 0))
WithTrampoline(s, tf) ==
    IF s.ok THEN WithTrapframe(mappages(s, TRAPFRAME, tf, {"R", "W"}))
    ELSE Failed(uvmfree([s EXCEPT !.ok = TRUE], 0))
proc_pagetable(m, tf) ==
    LET s == uvmcreate(m)
    IN  IF ~s.ok THEN s ELSE WithTrampoline(mappages(s, TRAMPOLINE, KernelPage, {"R", "X"}), tf)

proc_freepagetable(s, sz) ==
    uvmfree(uvmunmap(uvmunmap(s, TRAMPOLINE, 1, FALSE), TRAPFRAME, 1, FALSE), sz)

\* The memory of a process is given back.
FreeTable(m, q) == IF q.pt.root = 0 THEN m ELSE proc_freepagetable(Working(m, q.pt), q.sz).h
freeproc(m, q) == FreeTable(IF q.tf = 0 THEN m ELSE kfree(m, q.tf), q)

\* allocproc(): a trapframe and a page table; ok is FALSE if there is no memory.
Allocated(k, s) == IF s.ok THEN [tf |-> k.a, s |-> s] ELSE [tf |-> 0, s |-> Failed(Working(kfree(s.h, k.a), NoTable))]
allocproc(m) ==
    LET k == kalloc(m)
    IN  IF k.a = 0 THEN [tf |-> 0, s |-> Failed(Working(m, NoTable))]
        ELSE Allocated(k, proc_pagetable(k.h, k.a))

-----------------------------------------------------------------------------
(* The end of a step *)

\* The system call c returns r in me.ret: syscall() reports it if it is traced,
\* and the program goes on to its next call.
Onward(me, next, good) == [me EXCEPT !.u = next.u, !.bad = @ \/ next.bad \/ ~good]
Proceed(me, c, x) == Onward([me EXCEPT !.env = x], Control(Tail(me.u), me.ret, x), Accepts(c, me.ret))
Advance(me, c) ==
    LET x == IF c.to = "" THEN me.env ELSE (c.to :> me.ret) @@ me.env
    IN  Proceed(me, c, IF me.tracer = c.call THEN [x EXCEPT !.traced = @ + 1] ELSE x)

Called(p, call) == mp[p].st = "run" /\ ~mp[p].killed /\ Head(mp[p].u).call = call
This(p) == Head(mp[p].u)
Returns(me, r) == Advance([me EXCEPT !.ret = r], Head(me.u))
Return(p, m, me, r) == h' = m /\ mp' = [mp EXCEPT ![p] = Returns(me, r)]

-----------------------------------------------------------------------------
(* Memory *)

\* growproc() that sets p->sz only when the process grows.
Resized_OnlyGrows(p, n, s) ==
    IF n > 0 /\ ~s.ok THEN Return(p, s.h, [mp[p] EXCEPT !.pt = s.pt], -1)
    ELSE Return(p, s.h, [mp[p] EXCEPT !.pt = s.pt, !.sz = IF n > 0 THEN s.r ELSE @], mp[p].sz)

\* growproc().
Resized(p, n, s) ==
    IF n > 0 /\ ~s.ok THEN Return(p, s.h, [mp[p] EXCEPT !.pt = s.pt], -1)
    ELSE Return(p, s.h, [mp[p] EXCEPT !.pt = s.pt, !.sz = s.r], mp[p].sz)
Growproc(p, n, s, sz) ==
    Resized(p, n, CASE n > 0 -> uvmalloc(s, sz, sz + n, {"W"})
                    [] n < 0 -> uvmdealloc(s, sz, sz + n)
                    [] OTHER -> [s EXCEPT !.r = sz])
sbrk(p) ==
    /\ Called(p, "sbrk")
    /\ LET c == This(p)
           n == c.amt + (IF c.v = "" THEN 0 ELSE c.k * mp[p].env[c.v])
       IN  Growproc(p, n, Working(h, mp[p].pt), mp[p].sz)
    /\ UNCHANGED pipe

\* The program itself uses its memory.  A page fault kills the process.
Usable(p, va, perm) == walkaddr(mp[p].pt, va \div PGSIZE) # 0 /\ perm \in mp[p].pt.leaf[va \div PGSIZE].perm
Fault(p) == h' = h /\ mp' = [mp EXCEPT ![p].killed = TRUE]
store(p) ==
    /\ Called(p, "store")
    /\ LET va == Address(mp[p], This(p).a)
       IN  IF Usable(p, va, "W") THEN Return(p, copyout(h, mp[p].pt, va, <<This(p).c>>).h, mp[p], 0)
           ELSE Fault(p)
    /\ UNCHANGED pipe
load(p) ==
    /\ Called(p, "load")
    /\ LET va == Address(mp[p], This(p).a)
       IN  IF Usable(p, va, "R")
           THEN Return(p, h, [mp[p] EXCEPT !.bad = @ \/ This(p).c \notin {"", ByteAt(h, mp[p].pt, va)}], 0)
           ELSE Fault(p)
    /\ UNCHANGED pipe

-----------------------------------------------------------------------------
(* Files and pipes, as far as they copy memory *)

Ends(d) == {p \in Slots : d \in mp[p].fds}

\* A pipe without ends is freed.
Closing(m, others) == IF pipe.pa # 0 /\ others = {} THEN kfree(m, pipe.pa) ELSE m
Closed(others) == IF others = {} THEN NoPipe ELSE pipe
Others(p, ds) == {q \in Slots : (IF q = p THEN mp[q].fds \ ds ELSE mp[q].fds) # {}}

pipealloc(p, k, c) ==
    IF k.a = 0 THEN Return(p, h, mp[p], -1) /\ UNCHANGED pipe
    ELSE IF c.ok THEN Return(p, c.h, [mp[p] EXCEPT !.fds = {"r", "w"}], 0) /\ pipe' = [pa |-> k.a, n |-> 0]
    ELSE Return(p, kfree(c.h, k.a), mp[p], -1) /\ UNCHANGED pipe
sys_pipe(p) ==
    /\ Called(p, "pipe") /\ pipe = NoPipe
    /\ LET k == kalloc(h)
       IN  pipealloc(p, k, copyout(k.h, mp[p].pt, Address(mp[p], This(p).a), <<"r", "w">>))

close(p) ==
    /\ Called(p, "close")
    /\ Return(p, Closing(h, Others(p, This(p).ds)), [mp[p] EXCEPT !.fds = @ \ This(p).ds], 0)
    /\ pipe' = Closed(Others(p, This(p).ds))

\* To the pipe goes one byte after the other, to a file all or nothing.
Sent(p, c, kind) ==
    CASE kind = "file" ->
           /\ Return(p, h, [mp[p] EXCEPT !.file = IF c.ok THEN c.s ELSE @], IF c.ok THEN Len(c.s) ELSE -1)
           /\ UNCHANGED pipe
      [] kind = "console" -> Return(p, h, mp[p], IF c.ok THEN Len(c.s) ELSE 0) /\ UNCHANGED pipe
      [] kind = "pipe" /\ Ends("r") = {} -> Return(p, h, mp[p], -1) /\ UNCHANGED pipe
      [] kind = "pipe" /\ Ends("r") # {} ->
           /\ c.ok => pipe.n < PIPESIZE
           /\ Return(p, h, mp[p], IF c.ok THEN 1 ELSE 0)
           /\ pipe' = [pipe EXCEPT !.n = IF c.ok THEN @ + 1 ELSE @]
sys_write(p) ==
    /\ Called(p, "write")
    /\ LET c == This(p)
       IN  Sent(p, copyin(h, mp[p].pt, Address(mp[p], c.a), IF c.kind = "pipe" THEN 1 ELSE c.len), c.kind)

Received(p, c, n, left) ==
    /\ Return(p, c.h, mp[p], IF c.ok THEN n ELSE IF This(p).kind = "file" THEN -1 ELSE 0)
    /\ pipe' = left
sys_read(p) ==
    /\ Called(p, "read")
    /\ LET c == This(p)
           va == Address(mp[p], c.a)
           n == IF c.len \in 0 .. Len(mp[p].file) THEN c.len ELSE Len(mp[p].file)
       IN  \/ /\ c.kind = "file"
              /\ Received(p, copyout(h, mp[p].pt, va, SubSeq(mp[p].file, 1, n)), n, pipe)
           \/ /\ c.kind = "pipe" /\ pipe.n > 0
              /\ Received(p, copyout(h, mp[p].pt, va, <<"x">>), 1, [pipe EXCEPT !.n = @ - 1])
           \/ /\ c.kind = "pipe" /\ pipe.n = 0 /\ Ends("w") = {}
              /\ Received(p, [ok |-> TRUE, h |-> h], 0, pipe)

\* open(O_CREATE), unlink and link with a path in user memory.
path(p) ==
    /\ Called(p, "path")
    /\ LET len == copyinstr(h, mp[p].pt, Address(mp[p], This(p).a), MAXPATH)
       IN  Return(p, h, mp[p], IF len > 0 /\ This(p).what = "open" THEN 0 ELSE -1)
    /\ UNCHANGED pipe

-----------------------------------------------------------------------------
(* Processes *)

FreeProcs == {q \in Slots : mp[q].st = "unused"}
Children(p) == {q \in Slots : mp[q].st # "unused" /\ mp[q].par = p}
Lowest(S) == CHOOSE x \in S : \A y \in S : x <= y

Forked(p, q, a, s) ==
    IF s.ok THEN /\ h' = s.h
                 /\ mp' = [mp EXCEPT
                       ![p] = Returns(@, q),
                       ![q] = Returns([mp[p] EXCEPT !.tf = a.tf, !.pt = s.pt, !.par = p, !.tracer = "",
                                         !.u = IF This(p).child = <<>> THEN @ ELSE <<Head(@)>> \o This(p).child,
                                         !.bad = FALSE], 0)]
    ELSE Return(p, freeproc(s.h, [Unused EXCEPT !.tf = a.tf, !.pt = s.pt]), mp[p], -1)
fork(p) ==
    /\ Called(p, "fork")
    /\ LET a == allocproc(h)
       IN  IF FreeProcs = {} THEN Return(p, h, mp[p], -1)
           ELSE IF ~a.s.ok THEN Return(p, a.s.h, mp[p], -1)
           ELSE Forked(p, Lowest(FreeProcs), a, uvmcopy(a.s, mp[p].pt, mp[p].sz))
    /\ UNCHANGED pipe

\* The memory stays until the parent calls wait().
Exiting(p, status) ==
    /\ mp' = [q \in Slots |->
                CASE q = p -> [mp[p] EXCEPT !.st = "zombie", !.xs = status, !.fds = {}, !.u = <<>>,
                                            !.env = Unused.env, !.file = <<>>, !.ret = 0]
                  [] q # p /\ q \in Children(p) -> [mp[q] EXCEPT !.par = INITPROC]
                  [] OTHER -> mp[q]]
    /\ h' = IF p = INITPROC THEN panic(h, "init exiting") ELSE Closing(h, Others(p, {"r", "w"}))
    /\ pipe' = Closed(Others(p, {"r", "w"}))
exit(p) == Called(p, "exit") /\ Exiting(p, This(p).status)

\* usertrap(): a process killed, by a fault of its own or by kill(), exits.
trapkilled(p) == mp[p].st = "run" /\ mp[p].killed /\ Exiting(p, -1)

\* A zombie whose status cannot be copied out stays one.
Status(p) ==
    IF This(p).a = <<>> THEN [ok |-> TRUE, h |-> h]
    ELSE copyout(h, mp[p].pt, Address(mp[p], This(p).a), <<"x">>)
wait(p) ==
    /\ Called(p, "wait")
    /\ LET dead == {q \in Children(p) : mp[q].st = "zombie"}
           q == Lowest(dead)
       IN  \/ /\ dead # {} /\ Status(p).ok
              /\ h' = freeproc(Status(p).h, mp[q])
              /\ mp' = [mp EXCEPT ![q] = Unused,
                                  ![p] = Returns([@ EXCEPT !.env = (This(p).st :> mp[q].xs) @@ @], q)]
           \/ /\ IF dead # {} THEN ~Status(p).ok ELSE Children(p) = {}
              /\ Return(p, h, mp[p], -1)
    /\ UNCHANGED pipe

kill(p) ==
    /\ Called(p, "kill")
    /\ LET q == mp[p].env[This(p).pid]
       IN  mp' = IF q \in Slots /\ mp[q].st # "unused"
                 THEN [mp EXCEPT ![p] = Returns(@, 0), ![q].killed = TRUE]
                 ELSE [mp EXCEPT ![p] = Returns(@, -1)]
    /\ UNCHANGED <<h, pipe>>

\* The calls of the System-Call assignment.  The program sees what sysinfo()
\* prints.
sys_trace(p) ==
    /\ Called(p, "trace")
    /\ Return(p, h, [mp[p] EXCEPT !.tracer = This(p).num], 0)
    /\ UNCHANGED pipe
aliveproc == Cardinality({q \in Slots : mp[q].st # "unused"})
sys_sysinfo(p) ==
    /\ Called(p, "sysinfo")
    /\ Return(p, h, [mp[p] EXCEPT !.env = (This(p).mem :> freemem(h)) @@ (This(p).nproc :> aliveproc) @@ @], 0)
    /\ UNCHANGED pipe

\* v = n and v++ in the program; an endless sleep, which kill() alone ends,
\* needs no step.
let(p) ==
    /\ Called(p, "let")
    /\ Return(p, h, [mp[p] EXCEPT !.env = (This(p).v :> This(p).n0) @@ @], 0)
    /\ UNCHANGED pipe
count(p) ==
    /\ Called(p, "count")
    /\ Return(p, h, [mp[p] EXCEPT !.env[This(p).v] = @ + 1], 0)
    /\ UNCHANGED pipe

-----------------------------------------------------------------------------
(* exec().  An image is a sequence of segments of [vaddr, filesz, memsz, perm,
   there], there being what is left of the file; a name that is not in Images
   is that of a file exec() does not find or take for a program. *)

Segment(page, filesz, memsz, perm) ==
    [vaddr |-> page * PGSIZE, filesz |-> filesz, memsz |-> memsz, perm |-> perm, there |-> filesz]
UINT64 == 16 * MAXVA           \* where an address wraps around
TextSegment == Segment(0, PGSIZE, PGSIZE, {"X"})
Images == [init |-> <<TextSegment>>,
           echo |-> <<TextSegment>>,
           sysinfotest |-> <<TextSegment>>,
           usertests |-> <<TextSegment, Segment(1, 2, PGSIZE, {"W"})>>,
           cut |-> <<TextSegment, [Segment(1, 2, PGSIZE, {"W"}) EXCEPT !.there = 1]>>,
           odd |-> <<TextSegment, [Segment(1, 1, 2, {"W"}) EXCEPT !.vaddr = @ + 1]>>,
           round |-> <<TextSegment, Segment((UINT64 \div PGSIZE) - 1, 1, 2 * PGSIZE, {"W"})>>]

Bad(s, sz) == Failed([proc_freepagetable([s EXCEPT !.ok = TRUE], sz) EXCEPT !.r = sz])

loadseg(s, seg) ==
    IF seg.there < seg.filesz THEN Failed(s)
    ELSE [s EXCEPT !.h = copyout(s.h, s.pt, seg.vaddr, [i \in 1 .. seg.filesz |-> "t"]).h]

\* Segment by segment; s.r is the size so far.
RECURSIVE LoadSegs(_, _)
Loaded(s, segs) == IF s.ok THEN LoadSegs(s, Tail(segs)) ELSE Bad(s, s.r)
Placed(s, segs, sz) == IF s.ok THEN Loaded(loadseg(s, Head(segs)), segs) ELSE Bad(s, sz)
LoadSegs(s, segs) ==
    IF segs = <<>> THEN s
    ELSE LET seg == Head(segs)
         IN  IF \/ seg.memsz < seg.filesz \/ seg.vaddr % PGSIZE # 0
                \/ (seg.vaddr + seg.memsz) % UINT64 < seg.vaddr
             THEN Bad(s, s.r)
             ELSE Placed(uvmalloc(s, s.r, seg.vaddr + seg.memsz, seg.perm), segs, s.r)

\* Pushing the arguments of the given lengths, and then the array of argc + 1
\* pointers, without going below base.
RECURSIVE Push(_, _, _, _, _)
Push(s, sp, base, args, argc) ==
    LET to == sp - (IF args = <<>> THEN argc + 1 ELSE Head(args) + 1)
    IN  IF to < base THEN Failed(s)
        ELSE IF args = <<>> THEN s
        ELSE Push([s EXCEPT !.h = copyout(s.h, s.pt, to, [i \in 1 .. Head(args) |-> "a"] \o <<NUL>>).h],
                  to, base, Tail(args), argc)
Pushed(s) == IF s.ok THEN s ELSE Bad(s, s.r)
Stack(s, sz, args) ==
    IF s.ok THEN Pushed(Push(uvmclear(s, sz \div PGSIZE), s.r, s.r - PGSIZE, args, Len(args)))
    ELSE Bad(s, sz)
StackAt(s, sz, args) == Stack(uvmalloc(s, sz, sz + 2 * PGSIZE, {"W"}), sz, args)
ForStack(s, args) == IF s.ok THEN StackAt(s, PGROUNDUP(s.r), args) ELSE s
Image(s, segs, args) == IF s.ok THEN ForStack(LoadSegs(s, segs), args) ELSE s

\* sys_exec(): a page for every argument, [a, len], that can be read.  Their
\* pointers are at argv, one cell each, with a null pointer after the last.
fetchaddr(m, me, va) == va < me.sz /\ copyin(m, me.pt, va, 1).ok
RECURSIVE FreePages(_, _)
FreePages(m, as) == IF as = <<>> THEN m ELSE FreePages(kfree(m, Head(as)), Tail(as))
RECURSIVE FetchArgs(_, _, _, _, _)
Fetched(k, me, argv, args, as) ==
    LET c == copyin(k.h, me.pt, Address(me, Head(args).a), Head(args).len + 1)
    IN  IF k.a = 0 THEN [ok |-> FALSE, h |-> k.h, as |-> as]
        ELSE IF ~c.ok \/ Head(args).len >= PGSIZE THEN [ok |-> FALSE, h |-> k.h, as |-> Append(as, k.a)]
        ELSE FetchArgs(k.h, me, argv, Tail(args), Append(as, k.a))
FetchArgs(m, me, argv, args, as) ==
    IF Len(as) >= MAXARG \/ ~fetchaddr(m, me, argv + Len(as)) THEN [ok |-> FALSE, h |-> m, as |-> as]
    ELSE IF args = <<>> THEN [ok |-> TRUE, h |-> m, as |-> as]
    ELSE Fetched(kalloc(m), me, argv, args, as)

\* The new image takes the place of the old one, whose memory is freed.
Executed(p, s, as) ==
    IF s.ok
    THEN /\ h' = FreePages(proc_freepagetable(Working(s.h, mp[p].pt), mp[p].sz).h, as)
         /\ mp' = [mp EXCEPT ![p] = Returns([@ EXCEPT !.pt = s.pt, !.sz = s.r,
                                                     !.u = <<Head(@)>> \o This(p).prog], Len(as))]
    ELSE Return(p, FreePages(s.h, as), mp[p], -1)
exec(p) ==
    /\ Called(p, "exec")
    /\ LET c == This(p)
           f == FetchArgs(h, mp[p], Address(mp[p], c.argv), c.args, <<>>)
           lens == [i \in DOMAIN c.args |-> c.args[i].len]
       IN  IF ~f.ok \/ c.img \notin DOMAIN Images THEN Return(p, FreePages(f.h, f.as), mp[p], -1)
           ELSE Executed(p, Image(proc_pagetable(f.h, mp[p].tf), Images[c.img], lens), f.as)
    /\ UNCHANGED pipe

-----------------------------------------------------------------------------
\* userinit(): the first process, with one page; it executes init.
FirstProc(a, s, program) ==
    /\ mp = [p \in Slots |-> IF p # INITPROC THEN Unused
                             ELSE [Unused EXCEPT !.st = "run", !.tf = a.tf, !.sz = PGSIZE, !.u = program,
                                      !.pt = s.pt]]
    /\ h = s.h
    /\ pipe = NoPipe
Uvmfirst(a, k, program) ==
    FirstProc(a, mappages([a.s EXCEPT !.h = Zeroed(k.h, k.a)], 0, k.a, {"R", "W", "X", "U"}), program)
Boot(program) ==
    LET a == allocproc(kinit)
    IN  Uvmfirst(a, kalloc(a.s.h), <<ExecMem("init", <<>>, program)>>)

Quiet == \A p \in Slots : mp[p].st = "unused" \/ Called(p, "idle")
Done == Quiet /\ UNCHANGED vars

ProcStep(p) ==
    \/ sbrk(p) \/ store(p) \/ load(p) \/ sys_pipe(p) \/ close(p) \/ sys_write(p) \/ sys_read(p) \/ path(p)
    \/ fork(p) \/ exit(p) \/ trapkilled(p) \/ wait(p) \/ kill(p) \/ exec(p)
    \/ sys_trace(p) \/ sys_sysinfo(p) \/ let(p) \/ count(p)

Next == Done \/ \E p \in Slots : ProcStep(p)
=============================================================================
