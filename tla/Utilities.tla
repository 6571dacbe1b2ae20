------------------------------ MODULE Utilities ------------------------------
(***************************************************************************)
(* The user programs of the repository (user/*.c) other than usertests and *)
(* the shell.  What a program prints on the console is left out; what it   *)
(* writes to its standard output, which may be a file or a pipe, is not.   *)
(***************************************************************************)
EXTENDS Files

BUFSZ == MAXFILE * BSIZE
NewLine == <<Char("\n")>>
Put(s) == Write("stdout", s)

\* init: opens the console, starts a program and reaps orphans for ever.
init(prog) ==
    <<Open("", "console", {"RW"}),
      IfOk(<<>>, <<Mknod("console", CONSOLE), Open("", "console", {"RW"})>>),
      Dup("", "stdin"), Dup("", "stdin"),
      Loop(<<Ok(Fork("pid", prog)),
             Loop(<<Ok(Wait("wpid", "xst")), IfSame("wpid", "pid", <<Break>>, <<>>)>>)>>)>>

echo(args) ==
    For(Len(args), LAMBDA i : <<Put(Str(args[i])),
                                Put(IF i < Len(args) THEN Str(" ") ELSE NewLine)>>)

OrExit == IfOk(<<>>, <<Exit(1)>>)

\* cat: what a read() delivers is written, until there is no more.
CatFd(fd) == <<Loop(<<Read(fd, BUFSZ), IfPos(<<Copy("stdout"), OrExit>>, <<OrExit, Break>>)>>)>>
cat(args) ==
    IF args = <<>> THEN CatFd("stdin")
    ELSE For(Len(args), LAMBDA i : <<Open("fd", args[i], {}), OrExit>> \o CatFd("fd") \o <<Close("fd")>>)

\* The arguments one after the other, as far as they succeed.
Each(args, call(_)) ==
    IF args = <<>> THEN <<Exit(1)>>
    ELSE <<Loop(For(Len(args), LAMBDA i : <<call(args[i]), IfOk(<<>>, <<Break>>)>>) \o <<Break>>)>>

rm(args) == Each(args, Unlink)
mkdirs(args) == Each(args, Mkdir)
ln(args) == IF Len(args) # 2 THEN <<Exit(1)>> ELSE <<Link(args[1], args[2])>>

\* stat() of ulib.c
StatCall(path) == <<Open("sfd", path, {}), IfOk(<<Fstat("sfd"), Close("sfd")>>, <<>>)>>

\* ls of a directory that has at most n entries; the names are the caller's.
ls(path, names) ==
    <<Open("fd", path, {}),
      IfOk(<<Ok(Fstat("fd"))>>
           \o For(Len(names), LAMBDA i : <<Read("fd", 1)>> \o StatCall(path \o "/" \o names[i]))
           \o <<Close("fd")>>, <<>>)>>

\* wc counts in its own memory.
WcFd(fd) == <<Loop(<<Read(fd, BUFSZ), IfPos(<<>>, <<OrExit, Break>>)>>), Put(NewLine)>>
wc(args) ==
    IF args = <<>> THEN WcFd("stdin")
    ELSE For(Len(args), LAMBDA i : <<Open("fd", args[i], {}), OrExit>> \o WcFd("fd") \o <<Close("fd")>>)

zombie == <<Fork("pid", <<Exit(0)>>), IfPos(<<Sleep>>, <<>>), Exit(0)>>

\* stressfs: a chain of n forks, each process with a file of its own.
RECURSIVE stressfs(_, _)
stressfs(i, n) ==
    LET path == "stressfs" \o Digit(i)
        self == <<Ok(Open("fd", path, {"C", "RW"})), Ok(Write("fd", Fill("a", BSIZE + 1))), Close("fd"),
                  Ok(Open("fd", path, {})), Gives(Read("fd", BSIZE + 1), BSIZE + 1), Close("fd"),
                  Wait("", "xst"), Exit(0)>>
    IN  IF i = n THEN self ELSE <<Ok(Fork("pid", stressfs(i + 1, n)))>> \o self

-----------------------------------------------------------------------------
(* grind: two processes that make random system calls in the same places *)

Touch(path) == <<Open("t", path, {"C", "RW"}), Close("t")>>

\* The actions of go() by number; 15 and 16 move the break, and touch no file.
GrindDo(what) ==
    CASE what = 1 -> Touch("grindir/../a")
      [] what = 2 -> Touch("grindir/../grindir/../b")
      [] what = 3 -> <<Unlink("grindir/../a")>>
      [] what = 4 -> <<Gives(Chdir("grindir"), 0), Unlink("../b"), Chdir("/")>>
      [] what = 5 -> <<Close("fd"), Open("fd", "/grindir/../a", {"C", "RW"})>>
      [] what = 6 -> <<Close("fd"), Open("fd", "/./grindir/./../b", {"C", "RW"})>>
      [] what = 7 -> <<Write("fd", Fill("g", BSIZE + 1))>>
      [] what = 8 -> <<Read("fd", BSIZE + 1)>>
      [] what = 9 -> <<Mkdir("grindir/../a")>> \o Touch("a/../a/./a") \o <<Unlink("a/a")>>
      [] what = 10 -> <<Mkdir("/../b")>> \o Touch("grindir/../b/b") \o <<Unlink("b/b")>>
      [] what = 11 -> <<Unlink("b"), Link("../grindir/./../a", "../b")>>
      [] what = 12 -> <<Unlink("../grindir/../a"), Link(".././b", "/grindir/../a")>>
      [] what = 13 -> <<Ok(Fork("pid", <<Exit(0)>>)), Wait("", "xst")>>
      [] what = 14 -> <<Ok(Fork("pid", <<Clone(""), Clone(""), Exit(0)>>)), Wait("", "xst")>>
      [] what \in {15, 16} -> <<>>
      [] what = 17 -> <<Ok(Fork("pid", Touch("a") \o <<Exit(0)>>)), Gives(Chdir("../grindir/.."), 0),
                        Kill("pid"), Wait("", "xst")>>
      [] what = 18 -> <<Ok(Fork("pid", <<Getpid("me"), Kill("me"), Exit(0)>>)), Wait("", "xst")>>
      [] what = 19 -> <<Ok(Pipe("fds0", "fds1")),
                        Ok(Fork("pid", <<Clone(""), Clone(""), Gives(Write("fds1", Str("x")), 1),
                                         Gives(Read("fds0", 1), 1), Exit(0)>>)),
                        Close("fds0"), Close("fds1"), Wait("", "xst")>>
      [] what = 20 -> <<Ok(Fork("pid", <<Unlink("a"), Mkdir("a"), Chdir("a"), Unlink("../a"),
                                         Open("fd", "x", {"C", "RW"}), Unlink("x"), Exit(0)>>)),
                        Wait("", "xst")>>
      [] what = 21 -> <<Unlink("c"), Ok(Open("fd1", "c", {"C", "RW"})),
                        Gives(Write("fd1", Str("x")), 1), Gives(Fstat("fd1"), 1),
                        IfAbove("ino", NINODES, <<Fail, Exit(1)>>, <<>>), Close("fd1"), Unlink("c")>>
      [] what = 22 -> <<Ok(Pipe("aa0", "aa1")), Ok(Pipe("bb0", "bb1")),
                        Ok(Fork("pid1", <<Close("bb0"), Close("bb1"), Close("aa0"), Close("stdout"),
                                          Gives(Dup("", "aa1"), 1), Close("aa1"),
                                          Ok(Exec("grindir/../echo", echo(<<"hi">>)))>>)),
                        Ok(Fork("pid2", <<Close("aa1"), Close("bb0"), Close("stdin"),
                                          Gives(Dup("", "aa0"), 0), Close("aa0"), Close("stdout"),
                                          Gives(Dup("", "bb1"), 1), Close("bb1"),
                                          Ok(Exec("/cat", cat(<<>>)))>>)),
                        Close("aa0"), Close("aa1"), Close("bb1"),
                        Holds(Read("bb0", 1), "h" :> 1), Holds(Read("bb0", 1), "i" :> 1),
                        Holds(Read("bb0", 1), "\n" :> 1), Close("bb0"),
                        Wait("", "st1"), IfIs("st1", 0, <<>>, <<Fail>>),
                        Wait("", "st2"), IfIs("st2", 0, <<>>, <<Fail>>)>>

\* go(), its loop cut to n turns, each one of the actions in whats.
go(whats, n) ==
    <<Open("fd", "", {}), Mkdir("grindir"), Gives(Chdir("grindir"), 0), Chdir("/")>>
    \o For(n, LAMBDA i : <<Choose([w \in whats |-> GrindDo(w)])>>)

iter(whats, n) ==
    <<Unlink("a"), Unlink("b"), Ok(Fork("pid1", go(whats, n))), Ok(Fork("pid2", go(whats, n))),
      Wait("", "st1"), IfIs("st1", 0, <<>>, <<Kill("pid1"), Kill("pid2")>>), Wait("", "st2"), Exit(0)>>
=============================================================================
