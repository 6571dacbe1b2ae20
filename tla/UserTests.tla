------------------------------ MODULE UserTests ------------------------------
(***************************************************************************)
(* user/usertests.c: the tests of files, directories, pipes and processes. *)
(* Each definition is the program of one test, its loops cut to a few      *)
(* turns and its sizes scaled to the model's blocks and tables; Gives, Ok, *)
(* Fails and Holds are the test's own checks.                              *)
(***************************************************************************)
EXTENDS Utilities

Reap == <<Wait("", "xst"), IfIs("xst", 0, <<>>, <<Fail>>)>>
Repeat(n, body) == For(n, LAMBDA i : body)
CreateClose(path, mode) == <<Open("t", path, mode), Close("t")>>

-----------------------------------------------------------------------------
(* Truncation and unlinked directories *)

truncate1 ==
    <<Unlink("truncfile"), Open("fd1", "truncfile", {"C", "W", "T"}), Write("fd1", Str("abcd")),
      Close("fd1"), Open("fd2", "truncfile", {}), Gives(Read("fd2", 32), 4),
      Open("fd1", "truncfile", {"W", "T"}), Open("fd3", "truncfile", {}),
      Gives(Read("fd3", 32), 0), Gives(Read("fd2", 32), 0), Write("fd1", Str("abcdef")),
      Gives(Read("fd3", 32), 6), Gives(Read("fd2", 32), 2),
      Unlink("truncfile"), Close("fd1"), Close("fd2"), Close("fd3")>>

truncate2 ==
    <<Unlink("truncfile"), Open("fd1", "truncfile", {"C", "W", "T"}), Write("fd1", Str("abcd")),
      Open("fd2", "truncfile", {"W", "T"}), Gives(Write("fd1", Str("x")), -1),
      Unlink("truncfile"), Close("fd1"), Close("fd2")>>

truncate3 ==
    LET child == <<Ok(Open("fd", "truncfile", {"W"})), Gives(Write("fd", Str("1234")), 4),
                   Close("fd"), Open("fd", "truncfile", {}), Read("fd", 32), Close("fd"), Exit(0)>>
        turn == <<Ok(Open("fd", "truncfile", {"C", "W", "T"})), Gives(Write("fd", Str("xxx")), 3),
                  Close("fd")>>
    IN  CreateClose("truncfile", {"C", "T", "W"}) \o <<Ok(Fork("pid", child))>> \o Repeat(2, turn)
        \o <<Wait("", "xst"), Unlink("truncfile"), ExitWith("xst")>>

iputtest ==
    <<Ok(Mkdir("iputdir")), Ok(Chdir("iputdir")), Ok(Unlink("../iputdir")), Ok(Chdir("/"))>>

exitiputtest ==
    <<Ok(Fork("pid", <<Ok(Mkdir("iputdir")), Ok(Chdir("iputdir")), Ok(Unlink("../iputdir")), Exit(0)>>)),
      Wait("", "xst"), ExitWith("xst")>>

openiputtest ==
    <<Ok(Mkdir("oidir")), Ok(Fork("pid", <<Fails(Open("fd", "oidir", {"RW"})), Exit(0)>>)), Sleep,
      Gives(Unlink("oidir"), 0), Wait("", "xst"), ExitWith("xst")>>

-----------------------------------------------------------------------------
(* Simple file system tests *)

opentest == <<Ok(Open("fd", "echo", {})), Close("fd"), Fails(Open("fd", "doesnotexist", {}))>>

writetest ==
    LET SZ == 3
        N == 2
    IN  <<Ok(Open("fd", "small", {"C", "RW"}))>>
        \o Repeat(N, <<Gives(Write("fd", Fill("a", SZ)), SZ), Gives(Write("fd", Fill("b", SZ)), SZ)>>)
        \o <<Close("fd"), Ok(Open("fd", "small", {})),
             Gives(Read("fd", N * SZ * 2), N * SZ * 2), Close("fd"), Ok(Unlink("small"))>>

writebig ==
    <<Ok(Open("fd", "big", {"C", "RW"}))>>
    \o For(MAXFILE, LAMBDA i : <<Gives(Write("fd", Fill(Digit(i), BSIZE)), BSIZE)>>)
    \o <<Close("fd"), Ok(Open("fd", "big", {}))>>
    \o For(MAXFILE, LAMBDA i : <<Holds(Gives(Read("fd", BSIZE), BSIZE), Digit(i) :> BSIZE)>>)
    \o <<Gives(Read("fd", BSIZE), 0), Close("fd"), Ok(Unlink("big"))>>

createtest ==
    LET N == 5
    IN  For(N, LAMBDA i : CreateClose("a" \o Digit(i), {"C", "RW"}))
        \o For(N, LAMBDA i : <<Unlink("a" \o Digit(i))>>)

dirtest == <<Ok(Mkdir("dir0")), Ok(Chdir("dir0")), Ok(Chdir("..")), Ok(Unlink("dir0"))>>

exectest ==
    <<Unlink("echo-ok"),
      Ok(Fork("pid", <<Close("stdout"), Gives(Open("fd", "echo-ok", {"C", "W"}), 1),
                       Ok(Exec("echo", echo(<<"OK">>)))>>)),
      Wait("w", "xst"), IfSame("w", "pid", <<>>, <<Fail>>), IfIs("xst", 0, <<>>, <<Fail, Exit(1)>>),
      Ok(Open("fd", "echo-ok", {})),
      Holds(Gives(Read("fd", 2), 2), ("O" :> 1) @@ ("K" :> 1)), Unlink("echo-ok"), Exit(0)>>

-----------------------------------------------------------------------------
(* Pipes and processes *)

pipe1 ==
    LET N == 2
        SZ == 3
        child == <<Close("fds0")>>
                 \o For(N, LAMBDA n : <<Gives(Write("fds1", [i \in 1 .. SZ |->
                                              Char(Digit(SZ * (n - 1) + i))]), SZ)>>) \o <<Exit(0)>>
    IN  <<Gives(Pipe("fds0", "fds1"), 0), Ok(Fork("pid", child)), Close("fds1")>>
        \o For(N * SZ, LAMBDA i : <<Holds(Gives(Read("fds0", 1), 1), Digit(i) :> 1)>>)
        \o <<Gives(Read("fds0", 1), 0), Close("fds0"), Wait("", "xst"), ExitWith("xst")>>

killstatus ==
    Repeat(2, <<Ok(Fork("pid1", <<Loop(<<Getpid("")>>)>>)), Sleep, Kill("pid1"),
                Wait("", "xst"), IfIs("xst", -1, <<>>, <<Fail>>)>>) \o <<Exit(0)>>

preempt ==
    <<Ok(Fork("pid1", <<Spin>>)), Ok(Fork("pid2", <<Spin>>)), Pipe("pfds0", "pfds1"),
      Ok(Fork("pid3", <<Close("pfds0"), Gives(Write("pfds1", Str("x")), 1), Close("pfds1"), Spin>>)),
      Close("pfds1"), Gives(Read("pfds0", BUFSZ), 1), Close("pfds0"),
      Kill("pid1"), Kill("pid2"), Kill("pid3"),
      Wait("", "xst"), Wait("", "xst"), Wait("", "xst")>>

exitwait ==
    For(2, LAMBDA i : <<Ok(Fork("pid", <<Exit(i)>>)), Wait("w", "xst"),
                        IfSame("w", "pid", <<>>, <<Fail>>), IfIs("xst", i, <<>>, <<Fail>>)>>)

reparent ==
    LET child == <<Fork("pid2", <<Exit(0)>>), IfOk(<<>>, <<Kill("master"), Exit(1)>>), Exit(0)>>
    IN  <<Getpid("master")>>
        \o Repeat(2, <<Ok(Fork("pid", child)), Wait("w", "xst"), IfSame("w", "pid", <<>>, <<Fail>>)>>)

twochildren ==
    <<Ok(Fork("pid1", <<Exit(0)>>)), Ok(Fork("pid2", <<Exit(0)>>)), Ok(Wait("", "xst")),
      Ok(Wait("", "xst"))>>

forkfork ==
    LET child == <<Ok(Fork("pid1", <<Exit(0)>>)), Wait("", "xst"), Exit(0)>>
    IN  Repeat(2, <<Ok(Fork("pid", child))>>) \o Repeat(2, Reap)

forkforkfork ==
    <<Unlink("stopforking"),
      Ok(Fork("pid", Repeat(2, <<Open("fd", "stopforking", {}), IfOk(<<Exit(0)>>, <<>>), Clone("c"),
                                  IfOk(<<>>, CreateClose("stopforking", {"C", "RW"}))>>)
                         \o <<Exit(0)>>)),
      Sleep>> \o CreateClose("stopforking", {"C", "RW"}) \o <<Wait("", "xst"), Sleep>>

reparent2 ==
    <<Ok(Fork("pid1", <<Clone(""), Clone(""), Exit(0)>>)), Wait("", "xst"), Exit(0)>>

forktest ==
    <<Loop(<<Fork("pid", <<Exit(0)>>), IfOk(<<>>, <<Break>>)>>)>>
    \o Repeat(NPROC - 3, <<Ok(Wait("", "xst"))>>) \o <<Fails(Wait("", "xst"))>>

-----------------------------------------------------------------------------
(* More file system tests: several processes on shared files *)

sharedfd ==
    LET N == 2
        SZ == 3
        Writes(c) == Repeat(N, <<Gives(Write("fd", Fill(c, SZ)), SZ)>>)
    IN  <<Unlink("sharedfd"), Ok(Open("fd", "sharedfd", {"C", "RW"})),
          Ok(Fork("pid", Writes("c") \o <<Exit(0)>>))>> \o Writes("p") \o Reap
        \o <<Close("fd"), Ok(Open("fd", "sharedfd", {})),
             Holds(Read("fd", BUFSZ), ("c" :> N * SZ) @@ ("p" :> N * SZ)),
             Close("fd"), Unlink("sharedfd"), Exit(0)>>

fourfiles ==
    LET NCHILD == 2
        SZ == BSIZE + 1
        fname(i) == "f" \o Digit(i)
        child(i) == <<Ok(Open("fd", fname(i), {"C", "RW"})), Gives(Write("fd", Fill(Digit(i), SZ)), SZ),
                      Exit(0)>>
    IN  For(NCHILD, LAMBDA i : <<Unlink(fname(i)), Ok(Fork("pid", child(i)))>>)
        \o Repeat(NCHILD, Reap)
        \o For(NCHILD, LAMBDA i : <<Open("fd", fname(i), {}),
                                    Holds(Gives(Read("fd", BUFSZ), SZ), Digit(i) :> SZ),
                                    Close("fd"), Unlink(fname(i))>>)

createdelete(N, NCHILD) ==
    LET name(q, i) == (IF q = 1 THEN "p" ELSE "q") \o Digit(i)
        child(q) == For(N, LAMBDA j : <<Ok(Open("fd", name(q, j - 1), {"C", "RW"})), Close("fd")>>
                          \o (IF j > 1 /\ j % 2 = 1 THEN <<Ok(Unlink(name(q, j \div 2)))>> ELSE <<>>)) \o <<Exit(0)>>
        Look(q, i) == IF i \in 1 .. (N \div 2) - 1 THEN <<Fails(Open("fd", name(q, i), {}))>>
                      ELSE <<Ok(Open("fd", name(q, i), {})), Close("fd")>>
    IN  For(NCHILD, LAMBDA q : <<Ok(Fork("pid", child(q)))>>) \o Repeat(NCHILD, Reap)
        \o For(N, LAMBDA j : For(NCHILD, LAMBDA q : Look(q, j - 1)))
        \o <<Unlink("p0"), Unlink("p0"), Unlink("q1"), Unlink("q1")>>

unlinkread ==
    <<Ok(Open("fd", "unlinkread", {"C", "RW"})), Write("fd", Str("hello")), Close("fd"),
      Ok(Open("fd", "unlinkread", {"RW"})), Gives(Unlink("unlinkread"), 0),
      Open("fd1", "unlinkread", {"C", "RW"}), Write("fd1", Str("yyy")), Close("fd1"),
      Holds(Gives(Read("fd", BUFSZ), 5), "h" :> 1), Gives(Write("fd", Fill("h", 10)), 10),
      Close("fd"), Unlink("unlinkread")>>

linktest ==
    <<Unlink("lf1"), Unlink("lf2"), Ok(Open("fd", "lf1", {"C", "RW"})),
      Gives(Write("fd", Str("hello")), 5), Close("fd"), Ok(Link("lf1", "lf2")), Unlink("lf1"),
      Fails(Open("", "lf1", {})), Ok(Open("fd", "lf2", {})), Gives(Read("fd", BUFSZ), 5),
      Close("fd"), Fails(Link("lf2", "lf2")), Unlink("lf2"), Fails(Link("lf2", "lf1")),
      Fails(Link(".", "lf1"))>>

concreate ==
    LET file(i) == "C" \o Digit(i)
        make(i) == <<Ok(Open("fd", file(i), {"C", "RW"})), Close("fd")>>
        opens(i) == Repeat(2, CreateClose(file(i), {}))
        unlinks(i) == Repeat(2, <<Unlink(file(i))>>)
    IN  <<Unlink(file(0)), Ok(Fork("pid", make(0) \o <<Exit(0)>>))>> \o make(0) \o Reap
        \o <<Unlink(file(1)), Ok(Fork("pid", <<Link(file(0), file(1)), Exit(0)>>)),
             Link(file(0), file(1))>> \o Reap
        \o <<Open("fd", ".", {}), Holds(Read("fd", BUFSZ), (file(0) :> 1) @@ (file(1) :> 1)), Close("fd"),
             Ok(Fork("pid", opens(0) \o <<Exit(0)>>))>> \o unlinks(0) \o <<Wait("", "xst")>>
        \o <<Ok(Fork("pid", unlinks(1) \o <<Exit(0)>>))>> \o opens(1) \o <<Wait("", "xst")>>

linkunlink ==
    LET N == 2
        turn == <<Choose(<<CreateClose("x", {"RW", "C"}), <<Link("cat", "x")>>, <<Unlink("x")>>>>)>>
    IN  <<Unlink("x"), Ok(Fork("pid", Repeat(N, turn) \o <<Exit(0)>>))>> \o Repeat(N, turn)
        \o <<Wait("", "xst")>>

\* subdir: the first half makes the tree and moves about in it,
subdir1 ==
    <<Unlink("ff"), Gives(Mkdir("dd"), 0), Ok(Open("fd", "dd/ff", {"C", "RW"})), Write("fd", Str("ff")),
      Close("fd"), Fails(Unlink("dd")), Gives(Mkdir("/dd/dd"), 0),
      Ok(Open("fd", "dd/dd/ff", {"C", "RW"})), Write("fd", Str("FF")), Close("fd"),
      Ok(Open("fd", "dd/dd/../ff", {})), Holds(Gives(Read("fd", BUFSZ), 2), "f" :> 2), Close("fd"),
      Gives(Link("dd/dd/ff", "dd/dd/ffff"), 0), Gives(Unlink("dd/dd/ff"), 0),
      Fails(Open("", "dd/dd/ff", {})), Gives(Chdir("dd"), 0), Gives(Chdir("dd/../../dd"), 0),
      Gives(Chdir("dd/../../../dd"), 0), Gives(Chdir("./.."), 0),
      Ok(Open("fd", "dd/dd/ffff", {})), Gives(Read("fd", BUFSZ), 2), Close("fd")>>

\* the second tries what must fail and removes it.
subdir2 ==
    <<Fails(Open("", "dd/dd/ff", {})), Fails(Open("", "dd/ff/ff", {"C", "RW"})),
      Fails(Open("", "dd/xx/ff", {"C", "RW"})), Fails(Open("", "dd", {"C"})),
      Fails(Open("", "dd", {"RW"})), Fails(Open("", "dd", {"W"})),
      Fails(Link("dd/ff/ff", "dd/dd/xx")), Fails(Link("dd/xx/ff", "dd/dd/xx")),
      Fails(Link("dd/ff", "dd/dd/ffff")), Fails(Mkdir("dd/ff/ff")), Fails(Mkdir("dd/xx/ff")),
      Fails(Mkdir("dd/dd/ffff")), Fails(Unlink("dd/xx/ff")), Fails(Unlink("dd/ff/ff")),
      Fails(Chdir("dd/ff")), Fails(Chdir("dd/xx")), Gives(Unlink("dd/dd/ffff"), 0),
      Gives(Unlink("dd/ff"), 0), Fails(Unlink("dd")), Ok(Unlink("dd/dd")), Ok(Unlink("dd"))>>

subdir == subdir1 \o subdir2

bigwrite ==
    <<Unlink("bigwrite")>>
    \o For(4, LAMBDA i :
          LET sz == 4 * i - 1
          IN  <<Ok(Open("fd", "bigwrite", {"C", "RW"}))>>
              \o Repeat(2, <<Gives(Write("fd", Fill("w", sz)), sz)>>)
              \o <<Close("fd"), Unlink("bigwrite")>>)

bigfile ==
    LET N == 4
        SZ == 6
    IN  <<Unlink("bigfile.dat"), Ok(Open("fd", "bigfile.dat", {"C", "RW"}))>>
        \o For(N, LAMBDA i : <<Gives(Write("fd", Fill(Digit(i), SZ)), SZ)>>)
        \o <<Close("fd"), Ok(Open("fd", "bigfile.dat", {}))>>
        \o For(2 * N, LAMBDA i : <<Holds(Gives(Read("fd", SZ \div 2), SZ \div 2),
                                         Digit((i + 1) \div 2) :> SZ \div 2)>>)
        \o <<Gives(Read("fd", SZ \div 2), 0), Close("fd"), Unlink("bigfile.dat")>>

fourteen ==
    LET a == "12345678901234"
        b == "123456789012345"
    IN  <<Gives(Mkdir(a), 0), Gives(Mkdir(a \o "/" \o b), 0),
          Ok(Open("fd", b \o "/" \o b \o "/" \o b, {"C"})), Close("fd"),
          Ok(Open("fd", a \o "/" \o a \o "/" \o a, {})), Close("fd"),
          Fails(Mkdir(a \o "/" \o a)), Fails(Mkdir(b \o "/" \o a)),
          Unlink(b \o "/" \o a), Unlink(a \o "/" \o a), Unlink(a \o "/" \o a \o "/" \o a),
          Unlink(b \o "/" \o b \o "/" \o b), Unlink(a \o "/" \o b), Unlink(a)>>

rmdot ==
    <<Gives(Mkdir("dots"), 0), Gives(Chdir("dots"), 0), Fails(Unlink(".")), Fails(Unlink("..")),
      Gives(Chdir("/"), 0), Fails(Unlink("dots/.")), Fails(Unlink("dots/..")), Gives(Unlink("dots"), 0)>>

dirfile ==
    <<Ok(Open("fd", "dirfile", {"C"})), Close("fd"), Fails(Chdir("dirfile")),
      Fails(Open("fd", "dirfile/xx", {})), Fails(Open("fd", "dirfile/xx", {"C"})),
      Fails(Mkdir("dirfile/xx")), Fails(Unlink("dirfile/xx")), Fails(Link("README", "dirfile/xx")),
      Gives(Unlink("dirfile"), 0), Fails(Open("fd", ".", {"RW"})), Open("fd", ".", {}),
      Fails(Write("fd", Str("x"))), Close("fd")>>

iref ==
    LET MakeEmpty(path) == <<Open("fd", path, {"C"}), IfOk(<<Close("fd")>>, <<>>)>>
    IN  Repeat(NINODE + 1, <<Gives(Mkdir("irefd"), 0), Gives(Chdir("irefd"), 0), Mkdir(""),
                             Link("README", "")>> \o MakeEmpty("") \o MakeEmpty("xx") \o <<Unlink("xx")>>)
        \o Repeat(NINODE + 1, <<Chdir(".."), Unlink("irefd")>>) \o <<Chdir("/")>>

-----------------------------------------------------------------------------
(* The slow tests *)

bigdir ==
    LET N == 12
        name(i) == "x" \o Digit(i \div 10) \o Digit(i % 10)
    IN  <<Unlink("bd"), Ok(Open("fd", "bd", {"C"})), Close("fd")>>
        \o For(N, LAMBDA i : <<Gives(Link("bd", name(i)), 0)>>) \o <<Unlink("bd")>>
        \o For(N, LAMBDA i : <<Gives(Unlink(name(i)), 0)>>)

manywrites ==
    LET howmany == 1
        sz == 2 * BSIZE
        name(ci) == "b" \o Digit(ci)
        once(ci) == <<Ok(Open("fd", name(ci), {"C", "RW"})), Gives(Write("fd", Fill("m", sz)), sz),
                      Close("fd")>>
        child(ci) == <<Unlink(name(ci))>>
                     \o Repeat(howmany, Repeat(ci, once(ci)) \o <<Unlink(name(ci))>>)
                     \o <<Unlink(name(ci)), Exit(0)>>
    IN  For(2, LAMBDA ci : <<Ok(Fork("pid", child(ci)))>>) \o Repeat(2, Reap) \o <<Exit(0)>>

badwrite ==
    <<Unlink("junk")>>
    \o Repeat(NBLOCKS, <<Ok(Open("fd", "junk", {"C", "W"})), WriteBad("fd", 1), Close("fd"),
                         Unlink("junk")>>)
    \o <<Ok(Open("fd", "junk", {"C", "W"})), Gives(Write("fd", Str("x")), 1), Close("fd"),
         Unlink("junk"), Exit(0)>>

\* Breaks leave the loop around them, which runs once.
Once(body) == <<Loop(body \o <<Break>>)>>

diskfull ==
    LET big(i) == "big" \o Digit(i)
        zz(i) == "zz" \o Digit(i)
        nbig == (NBLOCKS \div MAXFILE) + 1
        nzz == NINODES
        fill == Repeat(MAXFILE, <<Write("fd", Fill("d", BSIZE)),
                                  IfOk(<<>>, <<Close("fd"), Close("fd"), Break>>)>>)
    IN  <<Unlink("diskfulldir")>>
        \o Once(For(nbig, LAMBDA i : <<Unlink(big(i)), Open("fd", big(i), {"C", "RW", "T"}),
                                       IfOk(<<>>, <<Break>>)>> \o fill \o <<Close("fd")>>))
        \o Once(For(nzz, LAMBDA i : <<Unlink(zz(i % 10)), Open("fd", zz(i % 10), {"C", "RW", "T"}),
                                      IfOk(<<>>, <<Break>>), Close("fd")>>))
        \o <<Fails(Mkdir("diskfulldir")), Unlink("diskfulldir")>>
        \o For(nzz, LAMBDA i : <<Unlink(zz(i % 10))>>) \o For(nbig, LAMBDA i : <<Unlink(big(i))>>)

outofinodes ==
    LET zz(i) == "zz" \o Digit(i \div 10) \o Digit(i % 10)
    IN  Once(For(NINODES, LAMBDA i : <<Unlink(zz(i)), Open("fd", zz(i), {"C", "RW", "T"}),
                                       IfOk(<<>>, <<Break>>), Close("fd")>>))
        \o For(NINODES, LAMBDA i : <<Unlink(zz(i))>>)

-----------------------------------------------------------------------------
(* The driver *)

\* run(): the test in a process of its own, which must exit with status 0.
run(f) == <<Ok(Fork("pid", f \o <<Exit(0)>>)), Wait("", "xst"), IfIs("xst", 0, <<>>, <<Fail>>)>>

tests ==
    [truncate1 |-> truncate1, truncate2 |-> truncate2, truncate3 |-> truncate3,
     iputtest |-> iputtest, exitiputtest |-> exitiputtest, openiputtest |-> openiputtest,
     opentest |-> opentest, writetest |-> writetest, writebig |-> writebig, createtest |-> createtest,
     dirtest |-> dirtest, exectest |-> exectest, pipe1 |-> pipe1, killstatus |-> killstatus,
     preempt |-> preempt, exitwait |-> exitwait, reparent |-> reparent, twochildren |-> twochildren,
     forkfork |-> forkfork, forkforkfork |-> forkforkfork, reparent2 |-> reparent2,
     sharedfd |-> sharedfd, fourfiles |-> fourfiles, createdelete |-> createdelete(2, 2), createdelete1 |-> createdelete(4, 1),
     unlinkread |-> unlinkread, linktest |-> linktest, concreate |-> concreate,
     linkunlink |-> linkunlink, subdir |-> subdir, bigwrite |-> bigwrite, bigfile |-> bigfile,
     fourteen |-> fourteen, rmdot |-> rmdot, dirfile |-> dirfile, iref |-> iref,
     forktest |-> forktest, bigdir |-> bigdir, manywrites |-> manywrites, badwrite |-> badwrite,
     diskfull |-> diskfull, outofinodes |-> outofinodes]
=============================================================================
