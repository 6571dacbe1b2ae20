------------------------------ MODULE Programs ------------------------------
(***************************************************************************)
(* The notation in which user programs (user/*.c) are written: a program   *)
(* is a sequence of system calls, each with what the program goes on to    *)
(* require of the result, and a few control constructs.                    *)
(*                                                                         *)
(*   want    what the result must be if the program is not to report a     *)
(*           failure: "any", "ok" (not negative), "fail" (-1), or "is" n   *)
(*   to      program variable the result is stored in, "" for none         *)
(*   counts  how often each text must occur in what a read() delivered     *)
(*                                                                         *)
(* Arguments that are file descriptors or pids name program variables.     *)
(* The flags of open() are a set: {} is O_RDONLY, "W" O_WRONLY, "RW"       *)
(* O_RDWR, "C" O_CREATE, "T" O_TRUNC.                                      *)
(***************************************************************************)
EXTENDS Integers, Sequences, TLC

NoCounts == [x \in {} |-> 0]

Call(name, args) ==
    args @@ [call |-> name, want |-> "any", n |-> 0, to |-> "", counts |-> NoCounts]

Ok(op) == [op EXCEPT !.want = "ok"]             \* if(... < 0) exit(1)
Fails(op) == [op EXCEPT !.want = "fail"]        \* if(... >= 0) exit(1)
Gives(op, n) == [op EXCEPT !.want = "is", !.n = n] \* if(... != n) exit(1)
Holds(op, counts) == [op EXCEPT !.counts = counts]

Open(to, path, mode) == [Call("open", [path |-> path, mode |-> mode]) EXCEPT !.to = to]
Close(fd) == Call("close", [fd |-> fd])
Read(fd, len) == Call("read", [fd |-> fd, len |-> len])
Write(fd, s) == Call("write", [fd |-> fd, s |-> s, good |-> TRUE])
Copy(fd) == Call("copy", [fd |-> fd])           \* write() what was read last
WriteBad(fd, n) == [Write(fd, [i \in 1 .. n |-> <<0, "?">>]) EXCEPT !.good = FALSE]
Dup(to, fd) == [Call("dup", [fd |-> fd]) EXCEPT !.to = to]
Fstat(fd) == Call("fstat", [fd |-> fd, ino |-> "ino"])   \* the result is st.size
Link(old, new) == Call("link", [path |-> old, new |-> new])
Unlink(path) == Call("unlink", [path |-> path])
Mkdir(path) == Call("mkdir", [path |-> path])
Mknod(path, major) == Call("mknod", [path |-> path, major |-> major])
Chdir(path) == Call("chdir", [path |-> path])
Pipe(r, w) == Call("pipe", [r |-> r, w |-> w])
Fork(to, child) == [Call("fork", [child |-> child]) EXCEPT !.to = to]
Clone(to) == Fork(to, <<>>)                     \* both go on with the same program
Exec(path, prog) == Call("exec", [path |-> path, prog |-> prog])
Exit(status) == Call("exit", [status |-> status])
Wait(to, st) == [Call("wait", [st |-> st, a |-> <<>>, good |-> TRUE]) EXCEPT !.to = to]
WaitBad == [Wait("", "") EXCEPT !.good = FALSE] \* the status cannot be stored
Kill(pid) == Call("kill", [pid |-> pid])
Getpid(to) == [Call("getpid", [x |-> 0]) EXCEPT !.to = to]
Sleep == Call("sleep", [x |-> 0])
Spin == Call("spin", [x |-> 0])                 \* for(;;) ;
Choose(alts) == Call("choose", [alts |-> alts]) \* one of several continuations
Idle == Call("idle", [x |-> 0])                 \* waits at the console for ever

\* Control: no system call of their own.  The tests are of the last result
\* ("ok": not negative, "pos": positive) or of a program variable.
IfOk(then, else) == [call |-> "if", test |-> "ok", then |-> then, else |-> else]
IfPos(then, else) == [call |-> "if", test |-> "pos", then |-> then, else |-> else]
IfIs(v, n, then, else) == [call |-> "ifis", v |-> v, n |-> n, then |-> then, else |-> else]
IfAbove(v, n, then, else) == [call |-> "ifabove", v |-> v, n |-> n, then |-> then, else |-> else]
IfSame(v, w, then, else) == [call |-> "ifsame", v |-> v, w |-> w, then |-> then, else |-> else]
Loop(body) == [call |-> "loop", body |-> body]
Break == [call |-> "break"]
Fail == [call |-> "fail"]                       \* printf("... failed"); exit(1)
ExitWith(v) == IfIs(v, 0, <<Exit(0)>>, <<Fail, Exit(1)>>)

\* Whether a result is one the program accepts.
Accepts(op, r) ==
    \/ op.want = "any"
    \/ op.want = "ok" /\ r >= 0
    \/ op.want = "fail" /\ r = -1
    \/ op.want = "is" /\ r = op.n

\* The program up to its next system call; bad: it reported a failure.
RECURSIVE Control(_, _, _)
Control(u, r, x) ==
    IF u = <<>> THEN [u |-> <<Exit(0)>>, bad |-> FALSE]
    ELSE LET c == Head(u)
             Branch(t) == Control((IF t THEN c.then ELSE c.else) \o Tail(u), r, x)
             loop == CHOOSE i \in 1 .. Len(u) :
                        u[i].call = "loop" /\ \A j \in 1 .. i - 1 : u[j].call # "loop"
         IN  CASE c.call = "if" -> Branch(IF c.test = "ok" THEN r >= 0 ELSE r > 0)
               [] c.call = "ifis" -> Branch(x[c.v] = c.n)
               [] c.call = "ifabove" -> Branch(x[c.v] > c.n)
               [] c.call = "ifsame" -> Branch(x[c.v] = x[c.w])
               [] c.call = "loop" -> Control(c.body \o u, r, x)
               [] c.call = "break" -> Control(SubSeq(u, loop + 1, Len(u)), r, x)
               [] c.call = "fail" -> [Control(Tail(u), r, x) EXCEPT !.bad = TRUE]
               [] OTHER -> [u |-> u, bad |-> FALSE]

Str(s) == [i \in 1 .. Len(s) |-> <<0, SubSeq(s, i, i)>>]
Fill(c, n) == [i \in 1 .. n |-> <<0, c>>]

RECURSIVE Concat(_)
Concat(ss) == IF ss = <<>> THEN <<>> ELSE Head(ss) \o Concat(Tail(ss))

\* for(i = 1; i <= n; i++) body(i)
For(n, body(_)) == Concat([i \in 1 .. n |-> body(i)])
Digit(i) == SubSeq("0123456789", i + 1, i + 1)
=============================================================================
