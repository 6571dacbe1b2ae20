------------------------------ MODULE Userland ------------------------------
(***************************************************************************)
(* The kernel of module Files with a program of the repository on it: each *)
(* test of usertests, the shell on a few lines, and grind, stressfs and    *)
(* zombie.  The initial state says which one runs.                         *)
(***************************************************************************)
EXTENDS UserTests, Shell

CONSTANT Only    \* the programs to run; {} for every one

\* What a file must hold afterwards.
FileHolds(path, n, counts) ==
    <<Ok(Open("fd", path, {})), Holds(Gives(Read("fd", BUFSZ), n), counts), Close("fd")>>

sessions ==
    [redirect |-> sh(<<<<"mkdir", "d">>, <<"cd", "d">>, <<"cd", "..">>, <<"echo", "a", ">", "x", ">", "d/y">>,
                       <<"cat", "<", "x", ">>", "d/y", ";", "rm", "d/y", "nothere", "x">>, <<"rm", "(", "b">>>>)
                  \o <<Fails(Open("", "d/y", {}))>> \o FileHolds("x", 2, ("a" :> 1) @@ ("\n" :> 1)),
     pipeline |-> sh(<<<<"cat", "README", "|", "cat", ">", "y">>>>) \o FileHolds("y", 3, "v" :> 1),
     block |-> sh(<<<<"(", "cat", "README", ";", "echo", "b", ")", "|", "cat", ">", "y">>>>)
              \o FileHolds("y", 5, ("v" :> 1) @@ ("b" :> 1)),
     background |-> sh(<<<<"echo", "b", ">>", "w", "&">>, <<"echo", "c", ">>", "w">>>>)
                   \o FileHolds("w", 2, "\n" :> 1),
     links |-> sh(<<<<"ln", "README", "r">>, <<"wc", "r", ">", "w">>, <<"ln", "README", "r">>>>)
               \o FileHolds("r", 3, "v" :> 1) \o FileHolds("w", 1, "\n" :> 1)]

Alone(program) == <<Fork("", program), Wait("", "st")>>

\* Calls that are refused: a device without a driver, a name too long for
\* link(), one that is taken, and a status that wait() cannot store, which the
\* next wait() gets.
Twice(s) == s \o s
refused ==
    <<Gives(Mknod("dev", CONSOLE + 1), 0), Ok(Open("fd", "dev", {"RW"})), Fails(Read("fd", 1)),
      Fails(Write("fd", Str("x"))), Gives(Close("fd"), 0), Gives(Unlink("dev"), 0),
      Fails(Link("README", Twice(Twice(Twice("sixteen letters."))))), Fails(Link("README", "echo")),
      Ok(Fork("pid", <<Exit(3)>>)), Fails(WaitBad), Ok(Wait("", "st")), IfIs("st", 3, <<>>, <<Fail>>),
      Fails(Wait("", "st")), Exit(0)>>

others ==
    [stressfs |-> Alone(stressfs(0, 1)),
     zombie |-> Alone(zombie),
     refused |-> Alone(refused),
     ls |-> Alone(ls(".", <<".", "..", "README", "echo", "cat", "console">>) \o <<Exit(0)>>),
     grind_links |-> Alone(iter({1, 3, 11, 12}, 1)),      \* two processes, one action each
     grind_alone |-> Alone(go((1 .. 12) \cup {15, 16, 20, 21}, 2)),
     grind_killed |-> Alone(go({13, 17, 18}, 2)),
     grind_orphans |-> Alone(go({14}, 1)),
     grind_pipes |-> Alone(go({19}, 1)),
     grind_pipeline |-> Alone(go({22}, 1))]

programs == [t \in DOMAIN tests |-> run(tests[t])] @@ sessions @@ others

File(name) == [name |-> name, cells |-> Str("xv6")]
Program(name) == [name |-> name, cells |-> <<Char("ELF")>>]

\* The shell needs more programs on the disk.
Files0(which) ==
    <<File("README"), Program("echo"), Program("cat")>>
    \o (IF which \in DOMAIN sessions THEN <<Program("mkdir"), Program("rm"), Program("ln"), Program("wc")>> ELSE <<>>)

Init ==
    \E prog \in IF Only = {} THEN DOMAIN programs ELSE Only :
        Boot(mkfs(Files0(prog)), init(programs[prog] \o <<Idle>>))

Spec == Init /\ [][Next]_vars

-----------------------------------------------------------------------------
(* Properties *)

\* No panic() of the file code is reachable.  The messages are those of fs.c
\* (an inode without a type, a free block freed, no table entry left, a link
\* count below one), of log_write() outside a transaction, of exit() in init,
\* and of sched() for an iput() that would have to wait for the inode's lock
\* with itable.lock held ("this acquiresleep() won't block (or deadlock)").
NoPanic == fs.panic = ""

\* Every program gets the results it insists on: the tests of usertests exit
\* with status 0 whatever the interleaving of their processes, and the
\* redirections and pipes of the shell leave the files they should.  A command
\* in the background writes from the start of its file, ">>" or not, so that two
\* of them leave one line.
TestsPass == \A p \in Procs : ~pr[p].bad

\* One system call never hands the log as many as MAXOPBLOCKS blocks: it stays
\* within what begin_op() has reserved for it (filewrite() cuts a write for
\* this), and below it, which log_write() needs because the header takes one
\* block of the log (NoPanic of Drivers assumes just this of every operation).
OpFits == ~fs.over

\* References to table entry s held by processes inside the kernel: in the
\* steps left to do, and as the value one step hands to the next.
Puts == {"iput", "ifree", "iunref"}
TakesInode == {"create", "open", "made", "link", "linkname", "unlink", "chdir", "exec"}
Mentions(o, s) == (IF "ip" \in DOMAIN o /\ o.ip = s THEN 1 ELSE 0)
                  + (IF "dp" \in DOMAIN o /\ o.dp = s THEN 1 ELSE 0)
HeldInKernel(p, s) ==
    LET k == pr[p].k
        others1 == {i \in DOMAIN k : k[i].op \notin Puts}
        handed == others1 # {} /\ k[Least(others1)].op \in TakesInode /\ pr[p].ret = s
    IN  Cardinality({i \in DOMAIN k : Mentions(k[i], s) >= 1})
        + Cardinality({i \in DOMAIN k : Mentions(k[i], s) = 2}) + (IF handed THEN 1 ELSE 0)

RECURSIVE Total(_, _)
Total(f, S) == IF S = {} THEN 0 ELSE LET x == Least(S) IN f[x] + Total(f, S \ {x})

\* Reference counts are exact at every step of every process: an inode table
\* entry counts the open files, current directories and system calls in
\* progress that use it, an open file the descriptors that share it.
RefsExact ==
    /\ \A s \in Slots :
          fs.it[s].ref = Cardinality({x \in FileIds : ft[x].type \in {"inode", "device"} /\ ft[x].ip = s})
                        + Cardinality({p \in Procs : pr[p].cwd = s})
                        + Total([p \in Procs |-> HeldInKernel(p, s)], Procs)
    /\ \A x \in FileIds :
          ft[x].ref = Cardinality({pd \in Procs \X Fds : pr[pd[1]].ofile[pd[2]] = x})

\* An inode has one table entry at most, and what an entry caches is what is
\* on the disk (or in the log) whenever no step is half done: ilock() must
\* not read an inode again, nor keep one that was freed and given out anew.
CacheCoherent ==
    \A s \in Slots : fs.it[s].ref > 0 =>
        /\ \A r \in Slots : fs.it[r].ref > 0 /\ fs.it[r].inum = fs.it[s].inum => r = s
        /\ fs.it[s].valid => OnDisk(fs.it[s]) = fs.di[fs.it[s].inum]

\* The directory entries of a disk, "." and the ".." of removed directories
\* left out, as <<directory, offset>>.
Allocated(f) == {i \in Inums : f.di[i].type # "free"}
Directories(f) == {i \in Allocated(f) : f.di[i].type = "dir"}
EntryAt(f, e) == CellAt(f, f.di[e[1]], e[2])
Counted(f) ==
    {e \in UNION {{<<d, off>> : off \in 0 .. f.di[d].size - 1} : d \in Directories(f)} :
        /\ EntryAt(f, e)[1] # 0
        /\ EntryAt(f, e)[2] # "."
        /\ EntryAt(f, e)[2] = ".." => f.di[e[1]].nlink > 0}

\* Whenever no system call is between its first log_write() and its end_op(),
\* the disk is in order: the blocks marked used are those of the inodes, no two inodes share
\* one, every entry names an inode that exists, an inode has as many links as
\* entries, and no directory has a name twice.
DiskConsistent ==
    (\A p \in Procs : pr[p].wr = {}) =>
        LET blocks == [i \in Allocated(fs) |-> BlocksOf(fs, fs.di[i])]
            counted == Counted(fs)
        IN  /\ fs.used = UNION {blocks[i] : i \in Allocated(fs)}
            /\ Cardinality(fs.used) = Total([i \in Allocated(fs) |-> Cardinality(blocks[i])], Allocated(fs))
            /\ \A e \in counted : EntryAt(fs, e)[1] \in Allocated(fs)
            /\ \A i \in Allocated(fs) :
                  fs.di[i].nlink = Cardinality({e \in counted : EntryAt(fs, e)[1] = i})
            /\ \A e, d \in counted : e[1] = d[1] /\ EntryAt(fs, e)[2] = EntryAt(fs, d)[2] => e = d

\* An inode without links is still in use: otherwise nothing will ever free
\* it.  iput() promises that ("If that was the last reference and the inode
\* has no links to it, free the inode (and its content) on disk").
UnlinkedFreed ==
    (\A p \in Procs : pr[p].wr = {}) =>
        \A i \in Allocated(fs) :
            fs.di[i].nlink = 0 => \E s \in Slots : fs.it[s].ref > 0 /\ fs.it[s].inum = i
=============================================================================
