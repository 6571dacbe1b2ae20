-------------------------------- MODULE Files --------------------------------
(***************************************************************************)
(* The file-related system calls (kernel/sysfile.c, file.c) over the file  *)
(* system (kernel/fs.c), called by processes that fork, exit and wait      *)
(* (kernel/proc.c).                                                        *)
(*                                                                         *)
(* A process runs its program u; while it is in the kernel, k is what is   *)
(* left of the system call, a sequence of kernel steps that hold the       *)
(* call's local variables.  A step is what the code does between two       *)
(* points where another process can come in and matter: the part under    *)
(* one inode lock, one critical section of itable.lock, ftable.lock or     *)
(* wait_lock.  Where the code takes a second inode lock while it holds     *)
(* one, or returns from a function with an inode locked, the lock is held  *)
(* between steps.                                                          *)
(***************************************************************************)
EXTENDS FileSystem, Programs

CONSTANTS NPROC, NOFILE, NFILE, NPIPE, PIPESIZE,
          MAXOPBLOCKS    \* blocks one system call may write

ASSUME KernelAssumption ==
    /\ {NPROC, NOFILE, NFILE, NPIPE, PIPESIZE} \subseteq Nat \ {0}
    /\ MAXOPBLOCKS \in Nat /\ MAXOPBLOCKS >= 6

VARIABLES fs,       \* the file system: see FileSystem
          ft,       \* the open-file table
          pipes,    \* the pipes
          pr        \* the processes

vars == <<fs, ft, pipes, pr>>

Procs == 1 .. NPROC
Fds == 0 .. NOFILE - 1
FileIds == 1 .. NFILE
MAXPATH == 128
NDEV == 10
CONSOLE == 1
INITPROC == 1

NoFile == [type |-> "none", ref |-> 0, r |-> FALSE, w |-> FALSE, ip |-> 0, off |-> 0, major |-> 0]
NoPipe == [buf |-> <<>>, r |-> FALSE, w |-> FALSE]
StdEnv == [stdin |-> 0, stdout |-> 1]
NoProc == [st |-> "unused", par |-> 0, killed |-> FALSE, xs |-> 0, ofile |-> [d \in Fds |-> 0],
           cwd |-> 0, u |-> <<>>, k |-> <<>>, ret |-> 0, name |-> "", buf |-> <<>>,
           env |-> StdEnv, inop |-> FALSE, wr |-> {}, entry |-> FALSE, bad |-> FALSE]

-----------------------------------------------------------------------------
(* Kernel steps *)

Step(op) == [op |-> op]
Namei(path) == [op |-> "namex", ip |-> 0, path |-> path, parent |-> FALSE]
Nameiparent(path) == [Namei(path) EXCEPT !.parent = TRUE]
Iput(ip) == [op |-> "iput", ip |-> ip]

At(p, op) == /\ pr[p].st = "run" /\ Head(pr[p].k).op = op
             /\ ~(pr[p].entry /\ pr[p].killed)
This(p) == Head(pr[p].k)

\* The step is done: r is the value it hands on, more the steps to do next.
Then(p, r, more) == [pr[p] EXCEPT !.ret = r, !.k = more \o Tail(@), !.entry = FALSE]

\* begin_op() and end_op() around the steps; their waiting for log space is
\* the subject of module Log.
Transaction(steps) == <<Step("begin_op")>> \o steps \o <<Step("end_op")>>

-----------------------------------------------------------------------------
(* The program: from one system call to the next *)

\* The steps of a system call.  x gives program variables their values.
SysSteps(me, c, x) ==
    CASE c.call = "open" ->
           Transaction((IF "C" \in c.mode
                        THEN <<Nameiparent(c.path), [op |-> "create", type |-> "file", major |-> 0]>>
                        ELSE <<Namei(c.path)>>) \o <<[op |-> "open", mode |-> c.mode]>>)
      [] c.call = "mkdir" ->
           Transaction(<<Nameiparent(c.path), [op |-> "create", type |-> "dir", major |-> 0],
                         Step("made")>>)
      [] c.call = "mknod" ->
           Transaction(<<Nameiparent(c.path), [op |-> "create", type |-> "device", major |-> c.major],
                         Step("made")>>)
      [] c.call = "link" -> Transaction(<<Namei(c.path), [op |-> "link", new |-> c.new]>>)
      [] c.call = "unlink" -> Transaction(<<Nameiparent(c.path), Step("unlink")>>)
      [] c.call = "chdir" -> Transaction(<<Namei(c.path), Step("chdir")>>)
      [] c.call = "exec" -> Transaction(<<Namei(c.path), [op |-> "exec", prog |-> c.prog]>>)
      [] c.call = "close" -> <<[op |-> "fileclose", d |-> x[c.fd]]>>
      [] c.call = "dup" -> <<[op |-> "dup", d |-> x[c.fd]]>>
      [] c.call = "fstat" -> <<[op |-> "fstat", d |-> x[c.fd], v |-> c.ino]>>
      [] c.call = "read" -> <<[op |-> "read", d |-> x[c.fd], len |-> c.len]>>
      [] c.call = "write" -> <<[op |-> "write", d |-> x[c.fd], s |-> c.s, good |-> c.good]>>
      [] c.call = "copy" -> <<[op |-> "write", d |-> x[c.fd], s |-> me.buf, good |-> TRUE]>>
      [] c.call = "pipe" -> <<[op |-> "pipe", r |-> c.r, w |-> c.w]>>
      [] c.call = "fork" -> <<[op |-> "fork", child |-> c.child]>>
      [] c.call = "wait" -> <<[op |-> "wait", v |-> c.st, good |-> c.good]>>
      [] c.call = "kill" -> <<[op |-> "kill", pid |-> x[c.pid]]>>
      [] c.call \in {"getpid", "spin", "idle"} -> <<Step(c.call)>>
      [] c.call = "choose" -> <<[op |-> "choose", alts |-> c.alts]>>
      [] c.call = "exit" ->
           <<Step("closeall")>> \o Transaction(<<Iput(me.cwd)>>) \o <<[op |-> "exit", status |-> c.status]>>
      [] OTHER -> <<>>                     \* sleep

Occurrences(s, text) == Cardinality({i \in DOMAIN s : s[i][1] >= 0 /\ s[i][2] = text})

\* The process enters the kernel with a system call; a path that is too long,
\* of two for link(), is refused at once.
Enter(me, call, x) ==
    LET long == \E arg \in {"path", "new"} \cap DOMAIN call : Len(call[arg]) >= MAXPATH
    IN  [me EXCEPT !.env = x, !.name = "", !.entry = call.call # "exit",
                   !.ret = IF long THEN -1 ELSE 0,
                   !.buf = IF call.call = "copy" THEN @ ELSE <<>>,
                   !.k = IF long THEN <<>> ELSE SysSteps(me, call, x),
                   !.cwd = IF call.call = "exit" THEN 0 ELSE @]

\* The program takes the result of its last system call and makes its next
\* one; a killed process exits instead, on its way out of the kernel.
Resume(me, c, next, x) ==
    LET good == /\ Accepts(c, me.ret)
                /\ \A t \in DOMAIN c.counts : Occurrences(me.buf, t) = c.counts[t]
    IN  IF me.killed THEN Enter([me EXCEPT !.u = <<Exit(-1)>>], Exit(-1), x)
        ELSE Enter([me EXCEPT !.u = next.u, !.bad = @ \/ ~good \/ next.bad], Head(next.u), x)

user(me, c) ==
    LET x == IF c.to = "" THEN me.env ELSE (c.to :> me.ret) @@ me.env
    IN  Resume(me, c, Control(Tail(me.u), me.ret, x), x)

-----------------------------------------------------------------------------
(* The end of a step *)

\* An iput() that leaves another reference for certain: of the root, which
\* init is in, or of the directory the process itself is in.
Harmless(f, me, ip) == f.it[ip].ref > 1 /\ (ip = me.cwd \/ f.it[ip].inum = ROOTINO)

\* What follows a step and no other process can notice is part of it: opening
\* or closing the transaction, a harmless iput(), and, when the system call is
\* over, the program up to its next one.
RECURSIVE Settle(_, _)
Settle(f, me) ==
    LET o == Head(me.k)
        rest == [me EXCEPT !.k = Tail(@)]
    IN  CASE me.k = <<>> -> Settle(f, user(me, Head(me.u)))
          [] me.k # <<>> /\ o.op = "begin_op" -> Settle(f, [rest EXCEPT !.inop = TRUE])
          [] me.k # <<>> /\ o.op = "end_op" -> Settle(f, [rest EXCEPT !.inop = FALSE, !.wr = {}])
          [] me.k # <<>> /\ o.op = "iput" /\ Harmless(f, me, o.ip) ->
                Settle([f EXCEPT !.it[o.ip].ref = @ - 1], rest)
          [] OTHER -> [f |-> f, me |-> me]

\* The step ends with file system f and process me.  Blocks are written
\* through log_write(), which needs a transaction; over records that one
\* transaction of one process wrote MAXOPBLOCKS blocks, one more than is sure to
\* fit beside the header of the log.
Logged(f, wr) == [f EXCEPT !.dirty = {}, !.over = @ \/ Cardinality(wr) >= MAXOPBLOCKS]

StepEnds(p, f, outside, s) ==
    /\ fs' = IF outside THEN panic(f, "log_write outside of trans") ELSE s.f
    /\ pr' = [pr EXCEPT ![p] = s.me]

Commit(p, f, me) ==
    LET wr == me.wr \cup f.dirty
    IN  StepEnds(p, f, f.dirty # {} /\ ~me.inop, Settle(Logged(f, wr), [me EXCEPT !.wr = wr]))

\* userinit(): the first process, in the root directory.
Boot(image, program) ==
    LET root == iget(image, ROOTINO)
        first == [NoProc EXCEPT !.st = "run", !.cwd = root.ip, !.u = <<Sleep>> \o program]
    IN  /\ fs = root.f
        /\ ft = [x \in FileIds |-> NoFile]
        /\ pipes = [q \in 1 .. NPIPE |-> NoPipe]
        /\ pr = [p \in Procs |-> IF p # INITPROC THEN NoProc
                                 ELSE Settle(root.f, first).me]

-----------------------------------------------------------------------------
(* Path names, and dropping an inode *)

\* Mutant: the current directory is used without idup().
PathStart_NoDup(p, o) ==
    CASE o.ip # 0 -> [ip |-> o.ip, f |-> fs]
      [] o.ip = 0 /\ Len(o.path) > 0 /\ Slash(o.path, 1) -> iget(fs, ROOTINO)
      [] OTHER -> [ip |-> pr[p].cwd, f |-> fs]

\* Where a path starts: at the root, or in the process's directory.
PathStart(p, o) ==
    CASE o.ip # 0 -> [ip |-> o.ip, f |-> fs]
      [] o.ip = 0 /\ Len(o.path) > 0 /\ Slash(o.path, 1) -> iget(fs, ROOTINO)
      [] OTHER -> [ip |-> pr[p].cwd, f |-> idup(fs, pr[p].cwd)]

\* Element e of the path, in directory ip, which is locked (g).
Descend(p, o, e, ip, next) ==
    Commit(p, next.f, Then(p, 0, <<Iput(ip), [o EXCEPT !.ip = next.ip, !.path = e.rest]>>))

Walk(p, o, e, ip, g) ==
    LET off == dirlookup(g, ip, e.name)
        last == o.parent /\ e.rest = ""
    IN  CASE g.it[ip].type # "dir" -> Commit(p, iunlock(g, ip), Then(p, 0, <<Iput(ip)>>))
          [] g.it[ip].type = "dir" /\ last ->
                Commit(p, iunlock(g, ip), [Then(p, ip, <<>>) EXCEPT !.name = e.name])
          [] g.it[ip].type = "dir" /\ ~last /\ off = -1 ->
                Commit(p, iunlock(g, ip), Then(p, 0, <<Iput(ip)>>))
          [] OTHER -> Descend(p, o, e, ip, iget(iunlock(g, ip), CellAt(g, g.it[ip], off)[1]))

WalkFrom(p, o, e, s) ==
    IF e.none
    THEN Commit(p, s.f, IF o.parent THEN Then(p, 0, <<Iput(s.ip)>>) ELSE Then(p, s.ip, <<>>))
    ELSE Unlocked(fs, s.ip) /\ Walk(p, o, e, s.ip, ilock(s.f, s.ip, p))

\* One turn of namex()'s loop, with the directory locked, up to its iput().
namex(p) ==
    /\ At(p, "namex")
    /\ WalkFrom(p, This(p), skipelem(This(p).path), PathStart(p, This(p)))
    /\ UNCHANGED <<ft, pipes>>

\* Mutant: iput() frees an inode without links whoever still refers to it.
LastPut_AnyRef(f, ip) == f.it[ip].valid /\ f.it[ip].nlink = 0

\* The last reference to an inode without links locks it, to free it; to have
\* to wait for the lock, with itable.lock held, would be a panic in sched().
LastPut(f, ip) == f.it[ip].ref = 1 /\ f.it[ip].valid /\ f.it[ip].nlink = 0

iput(p) ==
    /\ At(p, "iput")
    /\ LET ip == This(p).ip
       IN  IF LastPut(fs, ip)
           THEN Commit(p, IF Unlocked(fs, ip) THEN [fs EXCEPT !.it[ip].lock = p]
                          ELSE panic(fs, "sched locks"),
                       Then(p, pr[p].ret, <<[op |-> "ifree", ip |-> ip]>>))
           ELSE Commit(p, [fs EXCEPT !.it[ip].ref = @ - 1], Then(p, pr[p].ret, <<>>))
    /\ UNCHANGED <<ft, pipes>>

\* itrunc(), type = 0, iupdate(), valid = 0, releasesleep().
Erased(f, ip) == iupdate([f EXCEPT !.it[ip].type = "free"], ip)
Freed(f, ip) == [Erased(itrunc(f, ip), ip) EXCEPT !.it[ip].valid = FALSE, !.it[ip].lock = 0]

ifree(p) ==
    /\ At(p, "ifree")
    /\ Commit(p, Freed(fs, This(p).ip),
              Then(p, pr[p].ret, <<[op |-> "iunref", ip |-> This(p).ip]>>))
    /\ UNCHANGED <<ft, pipes>>

iunref(p) ==
    /\ At(p, "iunref")
    /\ Commit(p, [fs EXCEPT !.it[This(p).ip].ref = @ - 1], Then(p, pr[p].ret, <<>>))
    /\ UNCHANGED <<ft, pipes>>

-----------------------------------------------------------------------------
(* create(), and the system calls that make names *)

\* A new inode, n.ip, in the making: locked, with one link; r is negative
\* once a link could not be made.
Begun(a, major, p) ==
    [ip |-> a.ip, r |-> 0,
     f |-> iupdate([ilock(a.f, a.ip, p) EXCEPT !.it[a.ip].major = major, !.it[a.ip].nlink = 1], a.ip)]

Result(n, l) == [n EXCEPT !.r = l.r, !.f = l.f]
AddLink(n, dp, name, to) ==
    IF n.r < 0 THEN n ELSE Result(n, dirlink(n.f, dp, name, n.f.it[to].inum))

Dots(n, dp) == AddLink(AddLink(n, n.ip, ".", n.ip), n.ip, "..", dp)

\* All links made: a directory counts as a link of its parent.  If not: fail.
Completed(n, dp, type) ==
    CASE n.r < 0 -> [n EXCEPT !.f = iupdate([n.f EXCEPT !.it[n.ip].nlink = 0], n.ip)]
      [] n.r >= 0 /\ type = "dir" -> [n EXCEPT !.f = iupdate([n.f EXCEPT !.it[dp].nlink = @ + 1], dp)]
      [] OTHER -> n

NewFile(a, dp, name, type, major, p) ==
    LET n == Begun(a, major, p)
    IN  Completed(IF type = "dir" THEN AddLink(Dots(n, dp), dp, name, n.ip) ELSE AddLink(n, dp, name, n.ip),
                  dp, type)

\* The end of create() for a new inode, for one that exists, for none left.
Created(p, dp, n) ==
    IF n.r >= 0 THEN Commit(p, iunlock(n.f, dp), Then(p, n.ip, <<Iput(dp)>>))
    ELSE Commit(p, iunlock(iunlock(n.f, n.ip), dp), Then(p, 0, <<Iput(n.ip), Iput(dp)>>))

Found(p, o, dp, old) ==
    Commit(p, old.f, Then(p, 0, <<Iput(dp), [op |-> "existing", ip |-> old.ip, type |-> o.type]>>))

CreateIn(p, o, dp, g) ==
    LET off == dirlookup(g, dp, pr[p].name)
        a == ialloc(g, o.type)
    IN  CASE off # -1 -> Found(p, o, dp, iget(iunlock(g, dp), CellAt(g, g.it[dp], off)[1]))
          [] off = -1 /\ a.ip # 0 -> Created(p, dp, NewFile(a, dp, pr[p].name, o.type, o.major, p))
          [] OTHER -> Commit(p, iunlock(g, dp), Then(p, 0, <<Iput(dp)>>))

create(p) ==
    /\ At(p, "create")
    /\ LET dp == pr[p].ret
       IN  IF dp = 0 THEN Commit(p, fs, Then(p, 0, <<>>))
           ELSE Unlocked(fs, dp) /\ CreateIn(p, This(p), dp, ilock(fs, dp, p))
    /\ UNCHANGED <<ft, pipes>>

\* create() of a name that exists: open() may have it, mkdir() may not.
existing(p) ==
    /\ At(p, "existing")
    /\ LET o == This(p)
           g == ilock(fs, o.ip, p)
       IN  /\ Unlocked(fs, o.ip)
           /\ IF o.type = "file" /\ g.it[o.ip].type \in {"file", "device"}
              THEN Commit(p, g, Then(p, o.ip, <<>>))
              ELSE Commit(p, iunlock(g, o.ip), Then(p, 0, <<Iput(o.ip)>>))
    /\ UNCHANGED <<ft, pipes>>

\* The end of mkdir() and mknod().
made(p) ==
    /\ At(p, "made")
    /\ LET ip == pr[p].ret
       IN  IF ip = 0 THEN Commit(p, fs, Then(p, -1, <<>>))
           ELSE Commit(p, iunlock(fs, ip), Then(p, 0, <<Iput(ip)>>))
    /\ UNCHANGED <<ft, pipes>>

FreeFiles == {x \in FileIds : ft[x].ref = 0}
FreeFds(p) == {d \in Fds : pr[p].ofile[d] = 0}

\* sys_open() once it has the inode, locked.
Opened(p, f, ip, mode) ==
    LET ino == f.it[ip]
        x == Least(FreeFiles)
        d == Least(FreeFds(p))
        g == IF "T" \in mode /\ ino.type = "file" THEN itrunc(f, ip) ELSE f
        file == [type |-> IF ino.type = "device" THEN "device" ELSE "inode", ref |-> 1, off |-> 0,
                 r |-> "W" \notin mode, w |-> mode \cap {"W", "RW"} # {}, ip |-> ip,
                 major |-> IF ino.type = "device" THEN ino.major ELSE 0]
    IN  IF \/ ino.type = "dir" /\ mode # {}
           \/ ino.type = "device" /\ ino.major \notin 0 .. NDEV - 1
           \/ FreeFiles = {} \/ FreeFds(p) = {}
        THEN /\ Commit(p, iunlock(f, ip), Then(p, -1, <<Iput(ip)>>))
             /\ UNCHANGED ft
        ELSE /\ Commit(p, iunlock(g, ip), [Then(p, d, <<>>) EXCEPT !.ofile[d] = x])
             /\ ft' = [ft EXCEPT ![x] = file]

open(p) ==
    /\ At(p, "open")
    /\ LET ip == pr[p].ret
           locked == "C" \in This(p).mode      \* create() returns it locked
       IN  IF ip = 0 THEN Commit(p, fs, Then(p, -1, <<>>)) /\ UNCHANGED ft
           ELSE /\ locked \/ Unlocked(fs, ip)
                /\ Opened(p, IF locked THEN fs ELSE ilock(fs, ip, p), ip, This(p).mode)
    /\ UNCHANGED pipes

link(p) ==
    /\ At(p, "link")
    /\ LET ip == pr[p].ret
           g == ilock(fs, ip, p)
           counted == iupdate([g EXCEPT !.it[ip].nlink = @ + 1], ip)
       IN  IF ip = 0 THEN Commit(p, fs, Then(p, -1, <<>>))
           ELSE /\ Unlocked(fs, ip)
                /\ IF g.it[ip].type = "dir"
                   THEN Commit(p, iunlock(g, ip), Then(p, -1, <<Iput(ip)>>))
                   ELSE Commit(p, iunlock(counted, ip),
                               Then(p, 0, <<Nameiparent(This(p).new),
                                            [op |-> "linkname", ip |-> ip]>>))
    /\ UNCHANGED <<ft, pipes>>

LinkMade(p, ip, dp, l) ==
    Commit(p, iunlock(l.f, dp),
           Then(p, 0, <<Iput(dp), IF l.r < 0 THEN [op |-> "linkbad", ip |-> ip] ELSE Iput(ip)>>))

linkname(p) ==
    /\ At(p, "linkname")
    /\ LET ip == This(p).ip
           dp == pr[p].ret
       IN  IF dp = 0 THEN Commit(p, fs, Then(p, 0, <<[op |-> "linkbad", ip |-> ip]>>))
           ELSE /\ Unlocked(fs, dp)
                /\ LinkMade(p, ip, dp, dirlink(ilock(fs, dp, p), dp, pr[p].name, fs.it[ip].inum))
    /\ UNCHANGED <<ft, pipes>>

linkbad(p) ==
    /\ At(p, "linkbad")
    /\ LET ip == This(p).ip
           g == ilock(fs, ip, p)
       IN  /\ Unlocked(fs, ip)
           /\ Commit(p, iunlock(iupdate([g EXCEPT !.it[ip].nlink = @ - 1], ip), ip),
                     Then(p, -1, <<Iput(ip)>>))
    /\ UNCHANGED <<ft, pipes>>

\* sys_unlink(): the directory stays locked while the inode is locked.
UnlinkFound(p, dp, off, found) ==
    Commit(p, found.f,
           Then(p, 0, <<[op |-> "unlinkname", dp |-> dp, ip |-> found.ip, off |-> off]>>))

UnlinkIn(p, dp, g) ==
    LET off == dirlookup(g, dp, pr[p].name)
    IN  IF pr[p].name \in {".", ".."} \/ off = -1
        THEN Commit(p, iunlock(g, dp), Then(p, -1, <<Iput(dp)>>))
        ELSE UnlinkFound(p, dp, off, iget(g, CellAt(g, g.it[dp], off)[1]))

unlink(p) ==
    /\ At(p, "unlink")
    /\ LET dp == pr[p].ret
       IN  IF dp = 0 THEN Commit(p, fs, Then(p, -1, <<>>))
           ELSE Unlocked(fs, dp) /\ UnlinkIn(p, dp, ilock(fs, dp, p))
    /\ UNCHANGED <<ft, pipes>>

\* The entry is cleared and the inode loses a link; both are locked, and both
\* locks are let go in one step, before the iput()s: who wants the second lock
\* waits no longer than for the first.

\* Mutant: the inode is not saved.
LoseLink_NotSaved(f, ip) == [f EXCEPT !.it[ip].nlink = @ - 1]

LoseLink(f, ip) == iupdate([f EXCEPT !.it[ip].nlink = @ - 1], ip)
Unlinked(f, dp, ip, off) ==
    LET w == writei(f, dp, off, <<Zero>>, TRUE).f
    IN  LoseLink(IF f.it[ip].type = "dir" THEN LoseLink(w, dp) ELSE w, ip)

unlinkname(p) ==
    /\ At(p, "unlinkname")
    /\ LET o == This(p)
           g == ilock(fs, o.ip, p)
           Done(f) == iunlock(iunlock(f, o.dp), o.ip)
       IN  /\ Unlocked(fs, o.ip)
           /\ CASE g.it[o.ip].nlink < 1 -> Commit(p, panic(g, "unlink: nlink < 1"), Then(p, 0, <<>>))
                [] g.it[o.ip].nlink >= 1 /\ g.it[o.ip].type = "dir" /\ ~isdirempty(g, o.ip) ->
                     Commit(p, Done(g), Then(p, -1, <<Iput(o.ip), Iput(o.dp)>>))
                [] OTHER ->
                     Commit(p, Done(Unlinked(g, o.dp, o.ip, o.off)),
                            Then(p, 0, <<Iput(o.dp), Iput(o.ip)>>))
    /\ UNCHANGED <<ft, pipes>>

chdir(p) ==
    /\ At(p, "chdir")
    /\ LET ip == pr[p].ret
           g == ilock(fs, ip, p)
       IN  IF ip = 0 THEN Commit(p, fs, Then(p, -1, <<>>))
           ELSE /\ Unlocked(fs, ip)
                /\ Commit(p, iunlock(g, ip),
                          IF g.it[ip].type # "dir" THEN Then(p, -1, <<Iput(ip)>>)
                          ELSE [Then(p, 0, <<Iput(pr[p].cwd)>>) EXCEPT !.cwd = ip])
    /\ UNCHANGED <<ft, pipes>>

\* exec() as far as the file system sees it: the file must be a program.
exec(p) ==
    /\ At(p, "exec")
    /\ LET ip == pr[p].ret
           g == ilock(fs, ip, p)
           elf == readi(g, ip, 0, 1) = <<Char("ELF")>>
       IN  IF ip = 0 THEN Commit(p, fs, Then(p, -1, <<>>))
           ELSE /\ Unlocked(fs, ip)
                /\ Commit(p, iunlock(g, ip),
                          IF elf THEN [Then(p, 0, <<Iput(ip)>>) EXCEPT
                                         !.u = <<Sleep>> \o This(p).prog, !.env = StdEnv]
                          ELSE Then(p, -1, <<Iput(ip)>>))
    /\ UNCHANGED <<ft, pipes>>

-----------------------------------------------------------------------------
(* Open files *)

ArgFile(p, d) == IF d \in Fds THEN pr[p].ofile[d] ELSE 0

Least2(S) == Least(S \ {Least(S)})

\* Closing the descriptors ds: the file table without their references, and
\* the pipe ends and inodes that lose their last one.
Refs(p, x, ds) == Cardinality({d \in ds : pr[p].ofile[d] = x})
Unreferenced(p, ds) ==
    {x \in FileIds : Refs(p, x, ds) > 0 /\ ft[x].ref = Refs(p, x, ds)}

CloseFds(p, ds, me) ==
    LET gone == Unreferenced(p, ds)
        End(q, w) == \E x \in gone : ft[x].type = "pipe" /\ ft[x].ip = q /\ ft[x].w = w
        inodes == {x \in gone : ft[x].type # "pipe"}
        x == Least(inodes)
    IN  /\ ft' = [y \in FileIds |-> IF y \in gone THEN NoFile
                                    ELSE [ft[y] EXCEPT !.ref = @ - Refs(p, y, ds)]]
        /\ pipes' = [q \in DOMAIN pipes |-> [pipes[q] EXCEPT !.w = @ /\ ~End(q, TRUE),
                                                             !.r = @ /\ ~End(q, FALSE)]]
        /\ Commit(p, fs, [me EXCEPT
                !.ofile = [d \in Fds |-> IF d \in ds THEN 0 ELSE @[d]],
                !.k = (IF inodes = {} THEN <<>> ELSE Transaction(<<Iput(ft[x].ip)>>)) \o @])

\* fileclose() for sys_close().
fileclose(p) ==
    /\ At(p, "fileclose")
    /\ IF ArgFile(p, This(p).d) # 0 THEN CloseFds(p, {This(p).d}, Then(p, 0, <<>>))
       ELSE Commit(p, fs, Then(p, -1, <<>>)) /\ UNCHANGED <<ft, pipes>>

\* exit()'s fileclose() of every descriptor in order.  One step goes as far as
\* the first file it holds the last reference to: before that, fileclose()
\* only counts down.
OpenFds(p) == {d \in Fds : pr[p].ofile[d] # 0}

closeall(p) ==
    /\ At(p, "closeall")
    /\ LET UpTo(d) == {e \in OpenFds(p) : e <= d}
           stops == {d \in OpenFds(p) : Unreferenced(p, UpTo(d)) # {}}
       IN  IF stops = {} THEN CloseFds(p, OpenFds(p), Then(p, 0, <<>>))
           ELSE CloseFds(p, UpTo(Least(stops)), pr[p])

dup(p) ==
    /\ At(p, "dup")
    /\ LET x == ArgFile(p, This(p).d)
           d == Least(FreeFds(p))
       IN  IF x = 0 \/ FreeFds(p) = {} THEN Commit(p, fs, Then(p, -1, <<>>)) /\ UNCHANGED ft
           ELSE /\ Commit(p, fs, [Then(p, d, <<>>) EXCEPT !.ofile[d] = x])
                /\ ft' = [ft EXCEPT ![x].ref = @ + 1]
    /\ UNCHANGED pipes

\* pipealloc() and the two descriptors; on any failure everything is undone.
pipe(p) ==
    /\ At(p, "pipe")
    /\ LET free == {q \in DOMAIN pipes : ~pipes[q].r /\ ~pipes[q].w}
           q == Least(free)
           r == Least(FreeFds(p))
           w == Least2(FreeFds(p))
           end == [type |-> "pipe", ref |-> 1, r |-> TRUE, w |-> FALSE, ip |-> q, off |-> 0, major |-> 0]
           x == Least(FreeFiles)
           y == Least2(FreeFiles)
       IN  IF free = {} \/ Cardinality(FreeFds(p)) < 2 \/ Cardinality(FreeFiles) < 2
           THEN Commit(p, fs, Then(p, -1, <<>>)) /\ UNCHANGED <<ft, pipes>>
           ELSE /\ Commit(p, fs, [Then(p, 0, <<>>) EXCEPT
                             !.ofile[r] = x, !.ofile[w] = y,
                             !.env = (This(p).r :> r) @@ (This(p).w :> w) @@ @])
                /\ ft' = [ft EXCEPT ![x] = end, ![y] = [end EXCEPT !.r = FALSE, !.w = TRUE]]
                /\ pipes' = [pipes EXCEPT ![q] = [buf |-> <<>>, r |-> TRUE, w |-> TRUE]]

Got(p, s) == [Then(p, Len(s), <<>>) EXCEPT !.buf = s]

\* devsw: the console is the only device with a driver.
HasDriver(x) == ft[x].major = CONSOLE

\* fileread() and piperead(); the console has no input.
read(p) ==
    /\ At(p, "read")
    /\ LET x == ArgFile(p, This(p).d)
           n == This(p).len
           q == ft[x].ip
           ip == ft[x].ip
           g == ilock(fs, ip, p)
           s == readi(g, ip, ft[x].off, n)
           take == Lesser(n, Len(pipes[q].buf))
       IN  CASE x = 0 \/ (x # 0 /\ ~ft[x].r) ->
                  Commit(p, fs, Then(p, -1, <<>>)) /\ UNCHANGED <<ft, pipes>>
             [] x # 0 /\ ft[x].r /\ ft[x].type = "pipe" ->
                  /\ pipes[q].buf # <<>> \/ ~pipes[q].w \/ pr[p].killed
                  /\ IF pipes[q].buf = <<>> /\ pipes[q].w
                     THEN Commit(p, fs, Then(p, -1, <<>>)) /\ UNCHANGED pipes
                     ELSE /\ Commit(p, fs, Got(p, SubSeq(pipes[q].buf, 1, take)))
                          /\ pipes' = [pipes EXCEPT ![q].buf = SubSeq(@, take + 1, Len(@))]
                  /\ UNCHANGED ft
             [] x # 0 /\ ft[x].r /\ ft[x].type = "device" ->
                  /\ Commit(p, fs, IF HasDriver(x) THEN Got(p, <<>>) ELSE Then(p, -1, <<>>))
                  /\ UNCHANGED <<ft, pipes>>
             [] OTHER ->
                  /\ Unlocked(fs, ip)
                  /\ Commit(p, iunlock(g, ip), Got(p, s))
                  /\ ft' = [ft EXCEPT ![x].off = @ + Len(s)]
                  /\ UNCHANGED pipes

\* Mutant: a transaction is filled with data alone.
MAXWRITE_Full == MAXOPBLOCKS * BSIZE

\* filewrite() sends an inode's data in pieces of MAXWRITE, one transaction each.
MAXWRITE == ((MAXOPBLOCKS - 1 - 1 - 2) \div 2) * BSIZE

Piece(x, s, i, good) ==
    Transaction(<<[op |-> "writepiece", x |-> x, s |-> s, i |-> i, good |-> good]>>)

write(p) ==
    /\ At(p, "write")
    /\ LET x == ArgFile(p, This(p).d)
           s == This(p).s
       IN  CASE x = 0 \/ (x # 0 /\ ~ft[x].w) -> Commit(p, fs, Then(p, -1, <<>>))
             [] x # 0 /\ ft[x].w /\ ft[x].type = "pipe" ->
                  Commit(p, fs, Then(p, 0, <<[op |-> "pipewrite", q |-> ft[x].ip, s |-> s, i |-> 0]>>))
             [] x # 0 /\ ft[x].w /\ ft[x].type = "device" ->
                  Commit(p, fs, Then(p, IF HasDriver(x) THEN Len(s) ELSE -1, <<>>))
             [] OTHER -> Commit(p, fs, Then(p, 0, IF s = <<>> THEN <<>>
                                                  ELSE Piece(x, s, 0, This(p).good)))
    /\ UNCHANGED <<ft, pipes>>

PieceWritten(p, o, ip, n, w) ==
    LET all == w.r = n /\ o.i + n = Len(o.s)
        me == Then(p, IF all THEN Len(o.s) ELSE -1, <<>>)
    IN  /\ ft' = [ft EXCEPT ![o.x].off = IF w.r > 0 THEN @ + w.r ELSE @]
        /\ Commit(p, iunlock(w.f, ip),
                  IF w.r # n \/ all THEN me
                  ELSE [me EXCEPT !.k = <<Head(@)>> \o Piece(o.x, o.s, o.i + n, o.good) \o Tail(@)])

writepiece(p) ==
    /\ At(p, "writepiece")
    /\ LET o == This(p)
           ip == ft[o.x].ip
           piece == SubSeq(o.s, o.i + 1, Lesser(Len(o.s), o.i + MAXWRITE))
       IN  /\ Unlocked(fs, ip)
           /\ PieceWritten(p, o, ip, Len(piece),
                        writei(ilock(fs, ip, p), ip, ft[o.x].off, piece, o.good))
    /\ UNCHANGED pipes

pipewrite(p) ==
    /\ At(p, "pipewrite")
    /\ LET o == This(p)
           q == o.q
           m == Lesser(PIPESIZE - Len(pipes[q].buf), Len(o.s) - o.i)
           dead == ~pipes[q].r \/ pr[p].killed
       IN  IF o.i = Len(o.s) THEN Commit(p, fs, Then(p, o.i, <<>>)) /\ UNCHANGED pipes
           ELSE IF dead THEN Commit(p, fs, Then(p, -1, <<>>)) /\ UNCHANGED pipes
           ELSE /\ m > 0
                /\ pipes' = [pipes EXCEPT ![q].buf = @ \o SubSeq(o.s, o.i + 1, o.i + m)]
                /\ Commit(p, fs, Then(p, 0, <<[o EXCEPT !.i = @ + m]>>))
    /\ UNCHANGED ft

\* filestat(): of struct stat the size, as the result, and the inode number.
fstat(p) ==
    /\ At(p, "fstat")
    /\ LET x == ArgFile(p, This(p).d)
           ip == ft[x].ip
           g == ilock(fs, ip, p)
       IN  IF x = 0 \/ (x # 0 /\ ft[x].type = "pipe") THEN Commit(p, fs, Then(p, -1, <<>>))
           ELSE /\ Unlocked(fs, ip)
                /\ Commit(p, iunlock(g, ip), [Then(p, g.it[ip].size, <<>>) EXCEPT
                                                !.env = (This(p).v :> g.it[ip].inum) @@ @])
    /\ UNCHANGED <<ft, pipes>>

-----------------------------------------------------------------------------
(* Processes: kernel/proc.c as far as files, status and killing go *)

FreeProcs == {c \in Procs : pr[c].st = "unused"}
Children(p) == {c \in Procs : pr[c].st # "unused" /\ pr[c].par = p}

\* fork(): the child shares the open files and the directory.
fork(p) ==
    /\ At(p, "fork")
    /\ LET c == Least(FreeProcs)
           child == [pr[p] EXCEPT !.par = p, !.k = <<>>,
                                  !.u = IF This(p).child = <<>> THEN @ ELSE <<Sleep>> \o This(p).child,
                                  !.ret = 0, !.killed = FALSE, !.entry = FALSE, !.bad = FALSE]
           Shares(x) == Cardinality({d \in Fds : pr[p].ofile[d] = x})
       IN  IF FreeProcs = {} THEN Commit(p, fs, Then(p, -1, <<>>)) /\ UNCHANGED ft
           ELSE /\ pr' = [pr EXCEPT ![p] = Settle(fs, Then(p, c, <<>>)).me,
                                    ![c] = Settle(fs, child).me]
                /\ fs' = idup(fs, pr[p].cwd)
                /\ ft' = [x \in FileIds |-> [ft[x] EXCEPT !.ref = @ + Shares(x)]]
    /\ UNCHANGED pipes

\* The end of exit(): init gets the children, the parent the status.
exit(p) ==
    /\ At(p, "exit")
    /\ pr' = [c \in Procs |->
                IF c = p THEN [NoProc EXCEPT !.st = "zombie", !.par = pr[p].par,
                                             !.xs = This(p).status]
                ELSE IF c \in Children(p) THEN [pr[c] EXCEPT !.par = INITPROC]
                ELSE pr[c]]
    /\ fs' = IF p = INITPROC THEN panic(fs, "init exiting") ELSE fs
    /\ UNCHANGED <<ft, pipes>>

\* A zombie whose status cannot be stored stays one.
wait(p) ==
    /\ At(p, "wait")
    /\ LET dead == {c \in Children(p) : pr[c].st = "zombie"}
           c == Least(dead)
           me == [Then(p, c, <<>>) EXCEPT !.env = (This(p).v :> pr[c].xs) @@ @]
       IN  \/ /\ dead # {} /\ This(p).good
              /\ pr' = [pr EXCEPT ![p] = Settle(fs, me).me, ![c] = NoProc]
              /\ UNCHANGED fs
           \/ /\ IF dead # {} THEN ~This(p).good ELSE Children(p) = {} \/ pr[p].killed
              /\ Commit(p, fs, Then(p, -1, <<>>))
    /\ UNCHANGED <<ft, pipes>>

\* A slot of the process table stands for the pid of the process in it.
kill(p) ==
    /\ At(p, "kill")
    /\ LET c == This(p).pid
           me == [Then(p, 0, <<>>) EXCEPT !.killed = @ \/ c = p]
       IN  IF c \in Procs /\ pr[c].st # "unused"
           THEN /\ pr' = [pr EXCEPT ![c].killed = TRUE, ![p] = Settle(fs, me).me]
                /\ UNCHANGED fs
           ELSE Commit(p, fs, Then(p, -1, <<>>))
    /\ UNCHANGED <<ft, pipes>>

getpid(p) ==
    /\ At(p, "getpid")
    /\ Commit(p, fs, Then(p, p, <<>>))
    /\ UNCHANGED <<ft, pipes>>

\* usertrap(): a process killed since its last system call exits.
trapkilled(p) ==
    /\ pr[p].st = "run" /\ pr[p].entry /\ pr[p].killed
    /\ Commit(p, fs, Enter([pr[p] EXCEPT !.u = <<Exit(-1)>>], Exit(-1), pr[p].env))
    /\ UNCHANGED <<ft, pipes>>

\* The program goes on in one of several ways.
choose(p) ==
    /\ At(p, "choose")
    /\ \E a \in DOMAIN This(p).alts :
          Commit(p, fs, [Then(p, 0, <<>>) EXCEPT !.u = <<Head(@)>> \o This(p).alts[a] \o Tail(@)])
    /\ UNCHANGED <<ft, pipes>>

-----------------------------------------------------------------------------
\* Nothing is left to run but the program at the console, and init waits.
Quiet ==
    /\ \A p \in Procs : pr[p].st = "unused" \/ At(p, "wait") \/ At(p, "idle")
    /\ \E p \in Procs : At(p, "idle")

Done == Quiet /\ UNCHANGED vars

ProcStep(p) ==
    \/ namex(p) \/ iput(p) \/ ifree(p) \/ iunref(p)
    \/ create(p) \/ existing(p) \/ made(p) \/ open(p) \/ link(p) \/ linkname(p) \/ linkbad(p)
    \/ unlink(p) \/ unlinkname(p) \/ chdir(p) \/ exec(p) \/ fileclose(p) \/ closeall(p) \/ dup(p) \/ pipe(p)
    \/ read(p) \/ write(p) \/ writepiece(p) \/ pipewrite(p) \/ fstat(p)
    \/ fork(p) \/ exit(p) \/ wait(p) \/ kill(p) \/ getpid(p) \/ choose(p) \/ trapkilled(p)

Next == Done \/ \E p \in Procs : ProcStep(p)
=============================================================================
