---------------------------- MODULE MemoryTests ----------------------------
(***************************************************************************)
(* The tests of user/usertests.c that are about memory, its driver, and    *)
(* the programs of the System-Call assignment, as clients of UserMemory.   *)
(* Sizes are scaled: a page has PGSIZE bytes and memory NPAGE pages.       *)
(***************************************************************************)
EXTENDS UserMemory

Repeat(n, body) == For(n, LAMBDA i : body)
BIG == 6 * PGSIZE              \* more than one process can get while others run
TOOMUCH == NPAGE * PGSIZE
KERNBASE == (VPAGES \div 2) * PGSIZE
Wild == <<Const(KERNBASE), Const(4 * MAXVA)>>
Stack0 == 3 * PGSIZE           \* the stack page of the image usertests
MaxSteps == 8                  \* addresses tried in a loop over addresses

\* Whether the child died of a page fault.
KilledByFault == <<Wait("", "xst"), IfIs("xst", -1, <<>>, <<Fail>>)>>
Arg(n) == [a |-> Const(0), len |-> n]

CopyinFrom(i) ==
    <<Fails(WriteMem("file", Wild[i], 2 * PGSIZE)), Gives(WriteMem("console", Wild[i], 2 * PGSIZE), 0),
      Gives(PipeAt(Const(Stack0)), 0), Gives(WriteMem("pipe", Wild[i], 2 * PGSIZE), 0), CloseFds({"r"}),
      CloseFds({"w"})>>
copyintest == CopyinFrom(1) \o CopyinFrom(2)

CopyoutTo(i) ==
    <<Fails(ReadMem("file", Wild[i], 2 * PGSIZE)), Gives(PipeAt(Const(Stack0)), 0),
      Gives(WriteMem("pipe", Const(0), 1), 1), Gives(ReadMem("pipe", Wild[i], 2 * PGSIZE), 0),
      CloseFds({"r"}), CloseFds({"w"})>>
copyouttest == CopyoutTo(1) \o CopyoutTo(2)

copyinstr1 == <<Fails(Path("open", Wild[1])), Fails(Path("open", Wild[2]))>>

\* The string at a, given to every system call that takes a path.
BadPath(a) == <<Fails(Path("unlink", a)), Fails(Path("open", a)), Fails(Path("link", a)), Fails(Path("exec", a))>>

copyinstr2 ==
    <<Ok(Sbrk("b", 2 * PGSIZE))>> \o For(MAXPATH, LAMBDA i : <<Store(At("b", i - 1), "x")>>)
    \o BadPath(At("b", 0))
    \o <<Ok(Fork("pid", <<Fails(ExecMem("echo", <<Arg(PGSIZE), Arg(PGSIZE), Arg(PGSIZE)>>, <<Fail>>)), Exit(747)>>)),
         Wait("", "st"), IfIs("st", 747, <<>>, <<Fail>>)>>

copyinstr3 ==
    <<Sbrk("", 2 * PGSIZE), Sbrk("top", 0), Store(At("top", -1), "x")>> \o BadPath(At("top", -1))

rwsbrk ==
    <<Ok(Sbrk("a", 2 * PGSIZE)), Ok(Sbrk("", -(2 * PGSIZE))), Fails(WriteMem("file", At("a", PGSIZE), 2)),
      Fails(ReadMem("file", At("a", PGSIZE), 3))>>

\* Forking until memory runs out; the children are gone afterwards.
forktest ==
    LET N == NPROC
    IN  For(N, LAMBDA n : <<Fork("pid", <<Exit(0)>>)>>)
        \o <<Loop(<<Wait("", ""), IfOk(<<>>, <<Break>>)>>), Fails(Wait("", ""))>>

sbrkbasic ==
    <<Ok(Fork("pid", <<Sbrk("", TOOMUCH), IfOk(<<Exit(1)>>, <<Exit(0)>>)>>)), Wait("", "xst"),
      IfIs("xst", 1, <<Fail>>, <<>>), Sbrk("a", 0)>>
    \o For(PGSIZE + 1, LAMBDA i : <<Sbrk("b", 1), IfSame("a", "b", <<>>, <<Fail>>), Store(At("b", 0), "1"), Sbrk("a", 0)>>)
    \o <<Ok(Clone("pid")), Sbrk("c", 1), IfSame("c", "a", <<>>, <<Fail>>), Ok(Sbrk("c", 1)),
         IfIs("pid", 0, <<Exit(0)>>, <<>>), Wait("", "xst"), ExitWith("xst")>>

sbrkmuch ==
    <<Sbrk("oldbrk", 0), Sbrk("a", 0), Ok(SbrkBy(BIG, -1, "a")), Sbrk("eee", 0)>>
    \o For(2, LAMBDA i : <<Store(At("a", (i - 1) * PGSIZE), "1")>>)
    \o <<Store(Const(BIG - 1), "9"), Ok(Sbrk("", -PGSIZE)), Gives(Sbrk("c", 0), BIG - PGSIZE),
         Gives(Sbrk("", PGSIZE), BIG - PGSIZE), Gives(Sbrk("", 0), BIG), Load(Const(BIG - 1), NUL),
         Gives(SbrkBy(-BIG, 1, "oldbrk"), BIG)>>

\* Reading or writing in turn at every address of a sequence kills the child.
Kills(ops) == For(Len(ops), LAMBDA i : <<Ok(Fork("pid", <<ops[i], Fail, Exit(1)>>))>> \o KilledByFault)

kernmem == Kills([i \in 1 .. 3 |-> Load(Const(KERNBASE + (i - 1) * PGSIZE), "")])
MAXVAplus == Kills(<<Store(Const(MAXVA), "c"), Store(Const(2 * MAXVA), "c")>>)
stacktest == Kills(<<Load(Const(Stack0 - 1), "")>>)
textwrite == Kills(<<Store(Const(0), "c")>>)

sbrkfail ==
    LET N == 2
        child == <<Sbrk("s", 0), SbrkBy(TOOMUCH, -1, "s"), WriteMem("pipe", Const(0), 1), Spin>>
        pid(i) == "pid" \o Digit(i)
    IN  <<Gives(PipeAt(Const(Stack0)), 0)>>
        \o For(N, LAMBDA i : <<Fork(pid(i), child), IfOk(<<ReadMem("pipe", Const(Stack0), 1)>>, <<>>)>>)
        \o <<Sbrk("c", PGSIZE)>>
        \o For(N, LAMBDA i : <<IfIs(pid(i), -1, <<>>, <<Kill(pid(i)), Wait("", "")>>)>>)
        \o <<IfIs("c", -1, <<Fail>>, <<>>),
             Ok(Fork("pid", <<Sbrk("a", 0), Sbrk("", TOOMUCH), Load(At("a", 0), ""), Fail, Exit(1)>>))>>
        \o KilledByFault

sbrkarg ==
    <<Sbrk("a", PGSIZE), Ok(WriteMem("file", At("a", 0), PGSIZE)), Sbrk("a", PGSIZE), Gives(PipeAt(At("a", 0)), 0)>>

validatetest == For(MaxSteps, LAMBDA i : <<Fails(Path("link", Const((i - 1) * PGSIZE)))>>)

\* The image has two initialised bytes and then zeroes.
bsstest == For(PGSIZE - 2, LAMBDA i : <<Load(Const(PGSIZE + 1 + i), NUL)>>)

bigargtest ==
    <<Ok(Fork("pid", <<ExecMem("echo", [i \in 1 .. MAXARG - 1 |-> Arg(PGSIZE - 2)], <<Exit(1)>>),
                       Ok(Path("open", Const(PGSIZE + 1))), Exit(0)>>)),
      Wait("", "xst"), IfIs("xst", 0, <<>>, <<Fail>>)>>

argptest == <<Sbrk("a", 0), ReadMem("file", At("a", -1), -1)>>

pgbug == <<Path("exec", Wild[2]), PipeAt(Wild[2]), Exit(0)>>

sbrkbugs ==
    LET Child(body) == <<Ok(Fork("pid", body)), Wait("", "")>>
    IN  Child(<<Sbrk("sz", 0), SbrkBy(0, -1, "sz"), Load(Const(0), ""), Exit(0)>>)
        \o Child(<<Sbrk("sz", 0), SbrkBy(PGSIZE - 1, -1, "sz"), Exit(0)>>)
        \o Child(<<Sbrk("sz", 0), SbrkBy(5 * PGSIZE + PGSIZE \div 2, -1, "sz"), Sbrk("", -1), Exit(0)>>)
        \o <<Exit(0)>>

sbrklast ==
    <<Sbrk("", PGSIZE), Sbrk("", 2), Sbrk("", -3), Sbrk("top", 0), Store(At("top", -3), "x"),
      Store(At("top", -2), NUL), Ok(Path("open", At("top", -3))), WriteMem("file", At("top", -3), 1),
      Store(At("top", -3), NUL), ReadMem("file", At("top", -3), 1), Load(At("top", -3), "x")>>

sbrk8000 == <<Sbrk("", -(2 * TOOMUCH)), Sbrk("top", 0), Load(At("top", -1), ""), Store(At("top", -1), "1")>>

badarg == Repeat(2, <<ExecMem("echo", <<[a |-> Wild[1], len |-> 1]>>, <<Fail>>)>>) \o <<Exit(0)>>

execout ==
    LET Child(avail) ==
            <<Loop(<<Sbrk("a", PGSIZE), IfOk(<<Store(At("a", PGSIZE - 1), "1")>>, <<Break>>)>>)>>
            \o Repeat(avail, <<Sbrk("", -PGSIZE)>>)
            \o <<ExecMem("echo", <<Arg(1), Arg(1)>>, <<Exit(0)>>), Exit(0)>>
    IN  For(13, LAMBDA avail : <<Ok(Fork("pid", Child(avail - 1))), Wait("", "")>>) \o <<Exit(0)>>

\* Two processes that compete for the last pages with sbrk, fork and exec.
compete ==
    LET Hog == <<Sbrk("", 3 * PGSIZE), Fork("pid", <<Sbrk("", PGSIZE), Exit(0)>>), Sbrk("", 2 * PGSIZE),
                 ExecMem("usertests", <<Arg(1)>>, <<Exit(0)>>), Wait("", ""), Exit(0)>>
    IN  <<Fork("pid", Hog), Fork("pid", Hog), Wait("", ""), Wait("", "")>>

\* exec() of what is not, or not quite, a program, with arguments too many or
\* nowhere; and a wait() that cannot store the status, which the next one gets.
badcalls ==
    <<Fails(ExecMem("README", <<>>, <<Fail>>)), Fails(ExecMem("cut", <<Arg(1)>>, <<Fail>>)),
      Fails(ExecMem("odd", <<Arg(1)>>, <<Fail>>)), Fails(ExecMem("round", <<Arg(1)>>, <<Fail>>)),
      Fails(ExecMem("echo", [i \in 1 .. MAXARG |-> Arg(1)], <<Fail>>)),
      Fails(ExecAt(Wild[1], "echo", <<>>, <<Fail>>)),
      Ok(Fork("pid", <<Exit(3)>>)), Fails(WaitAt(Wild[1])), Ok(Wait("", "st")), IfIs("st", 3, <<>>, <<Fail>>),
      Ok(ExecMem("usertests", <<Arg(1), Arg(1)>>, <<Exit(0)>>))>>

\* The pages sbrk() can get, counted in variable n.
countfree(n) ==
    LET child == <<CloseFds({"r"}),
                   Loop(<<Sbrk("a", PGSIZE),
                          IfOk(<<Store(At("a", PGSIZE - 1), "1"), Gives(WriteMem("pipe", Const(0), 1), 1)>>,
                               <<Break>>)>>),
                   Exit(0)>>
    IN  <<Ok(PipeAt(Const(Stack0))), Ok(Fork("pid", child)), CloseFds({"w"}),
          Loop(<<Ok(ReadMem("pipe", Const(Stack0), 1)), IfPos(<<Count(n)>>, <<Break>>)>>),
          CloseFds({"r"}), Wait("", "")>>

\* run() of a test, and runtests() when there is only one.
run(f) == <<Ok(Fork("pid", f \o <<Exit(0)>>)), Wait("", "xst"), IfIs("xst", 0, <<>>, <<Fail>>)>>

drivetests(f) ==
    <<Let("free0", 0), Let("free1", 0)>> \o countfree("free0") \o run(f) \o countfree("free1")
    \o <<IfSame("free0", "free1", <<>>, <<Fail>>)>>

-----------------------------------------------------------------------------
(* The programs of the System-Call assignment *)

trace(num, prog) ==
    <<Ok(Trace(num)), ExecMem("echo", <<Arg(1)>>, prog), Exit(0)>>
traced == trace("sbrk", <<Sbrk("", 1), Sbrk("", 1), Ok(Fork("", <<Sbrk("", 1), IfIs("traced", 2, <<>>, <<Fail>>), Exit(0)>>)),
                          Wait("", ""), IfIs("traced", 2, <<>>, <<Fail>>), Exit(0)>>)

testmem ==
    <<Ok(Sysinfo("m0", "n0")), Ok(Sbrk("", PGSIZE)), Ok(Sysinfo("m1", "n1")), IfSame("m0", "m1", <<Fail>>, <<>>),
      Ok(Sbrk("", -PGSIZE)), Ok(Sysinfo("m1", "n1")), IfSame("m0", "m1", <<>>, <<Fail>>)>>
testproc ==
    <<Ok(Sysinfo("m0", "n0")), Ok(Fork("pid", <<Ok(Sysinfo("m1", "n1")), IfSame("n0", "n1", <<Fail>>, <<>>), Exit(0)>>)),
      Wait("", "st"), Ok(Sysinfo("m1", "n1")), IfSame("n0", "n1", <<>>, <<Fail>>), IfSame("m0", "m1", <<>>, <<Fail>>)>>
sysinfotest == <<ExecMem("sysinfotest", <<Arg(1)>>, testmem \o testproc \o <<Exit(0)>>)>>

tests == [copyin |-> copyintest, copyout |-> copyouttest, copyinstr1 |-> copyinstr1, copyinstr2 |-> copyinstr2,
          copyinstr3 |-> copyinstr3, rwsbrk |-> rwsbrk, forktest |-> forktest, sbrkbasic |-> sbrkbasic,
          sbrkmuch |-> sbrkmuch, kernmem |-> kernmem, MAXVAplus |-> MAXVAplus, sbrkfail |-> sbrkfail,
          sbrkarg |-> sbrkarg, validatetest |-> validatetest, bsstest |-> bsstest, bigargtest |-> bigargtest,
          argptest |-> argptest, stacktest |-> stacktest, textwrite |-> textwrite, pgbug |-> pgbug,
          sbrkbugs |-> sbrkbugs, sbrklast |-> sbrklast, sbrk8000 |-> sbrk8000, badarg |-> badarg,
          execout |-> execout, badcalls |-> badcalls, compete |-> compete, traced |-> traced, sysinfotest |-> sysinfotest]
=============================================================================
