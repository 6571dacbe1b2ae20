---------------------------- MODULE MemorySystem ----------------------------
(***************************************************************************)
(* Three ways in which memory is shared out: the kernel's pages between    *)
(* the processes of Offline-02 (MemoryTests), page frames between the page *)
(* tables of copy-on-write (Cow), and a program's heap between its blocks  *)
(* (Umalloc).  They have no state in common: a behaviour runs one of them, *)
(* and the others stay as they were.                                       *)
(***************************************************************************)
EXTENDS Integers, Sequences, FiniteSets, Cow

LOCAL INSTANCE FiniteSetsExt

CONSTANTS
    NPAGE, PGSIZE, FANOUT, NPROC, PIPESIZE, MAXPATH, MAXARG,   \* of MemoryTests
    MaxCore, MinCore, MaxAsked                                 \* of Umalloc

VARIABLES
    part,
    h, pipe, mp,
    hdr, freep, brk, live

T == INSTANCE MemoryTests
U == INSTANCE Umalloc

ASSUME MemoryAssumed == T!VmAssumption /\ T!UserMemoryAssumption
ASSUME UmallocAssumed == U!UmallocAssumption

kernelVars == <<h, pipe, mp>>
umallocVars == <<hdr, freep, brk, live>>
allVars == <<part, kernelVars, vars, umallocVars>>

NoKernel == h = <<>> /\ pipe = T!NoPipe /\ mp = <<>>

OneProcess ==
    ExecLeft(CHOOSE p \in Procs : TRUE, CHOOSE f \in Placements : TRUE, CHOOSE v \in Values : TRUE)

\* The first process starts the tests of usertests.c, or one of the programs
\* of the assignment, and waits for what becomes orphaned.
Start(t) ==
    T!Boot(<<T!Ok(T!Fork("pid", <<T!ExecMem("usertests", <<T!Arg(1)>>, T!drivetests(T!tests[t]) \o <<T!Exit(0)>>), T!Fail>>)),
             T!Wait("", "xst"), T!Idle>>)

MemInit ==
    /\ U!Init
    /\ \/ part = "pages" /\ OneProcess /\ \E t \in DOMAIN T!tests : Start(t)
       \/ part = "cow" /\ Init /\ NoKernel
       \/ part = "heap" /\ OneProcess /\ NoKernel

PagesStep == part = "pages" /\ T!Next /\ UNCHANGED <<part, vars, umallocVars>>
CowStep == part = "cow" /\ Next /\ UNCHANGED <<part, kernelVars, umallocVars>>
HeapStep == part = "heap" /\ U!Next /\ UNCHANGED <<part, kernelVars, vars>>

MemNext == PagesStep \/ CowStep \/ HeapStep
MemSpec == MemInit /\ [][MemNext]_allVars

-----------------------------------------------------------------------------
\* No panic() of kalloc.c, vm.c or proc.c is reached, however short the
\* memory and wherever a step of fork(), exec() or sbrk() fails.
NoPanic == part = "pages" => h.panic = ""

\* Every test finds what it looks for: a copy across a page that is not there
\* fails, a fault kills the process and nobody else, what a failed sbrk() or
\* exec() leaves is as before, and countfree() counts the same before and after.
TestsPass == part = "pages" => \A p \in T!Slots : ~mp[p].bad

TablesOf(q) == {t \in T!Tables : q.pt.node[t] # 0}
MappedBy(q) == {v \in 0 .. T!TRAPFRAME - 1 : q.pt.leaf[v].pa # 0}
PagesOf(q) ==
    ({q.tf, q.pt.root} \ {0}) \cup {q.pt.node[t] : t \in TablesOf(q)} \cup {q.pt.leaf[v].pa : v \in MappedBy(q)}
UsesOf(q) == Cardinality({q.tf, q.pt.root} \ {0}) + Cardinality(TablesOf(q)) + Cardinality(MappedBy(q))

\* Every page is free, or a trapframe, a page table or memory of one process,
\* or the pipe's, and only one of these once: none is lost and none is used
\* twice, although fork(), exec(), sbrk() and pipe() can fail half way.  (As
\* many uses as pages, and no page without one.)
PagesExact ==
    part = "pages" =>
        /\ {h.free[n] : n \in DOMAIN h.free} \cup ({pipe.pa} \ {0}) \cup UNION {PagesOf(mp[p]) : p \in T!Slots}
             = T!Pages
        /\ Len(h.free) + (IF pipe.pa = 0 THEN 0 ELSE 1) + MapThenSumSet(LAMBDA p : UsesOf(mp[p]), T!Slots) = NPAGE

\* What a process has mapped is exactly what p->sz says, with the tables walk()
\* needs to reach it; uvmunmap() and uvmcopy() panic without that.
SizeIsMapped ==
    part = "pages" => \A p \in T!Slots :
        LET q == mp[p] IN
        q.st # "unused" =>
            /\ MappedBy(q) = 0 .. (T!PGROUNDUP(q.sz) \div PGSIZE) - 1
            /\ \A v \in DOMAIN q.pt.leaf : q.pt.leaf[v].pa # 0 => q.pt.node[T!L1(v)] # 0 /\ q.pt.node[T!L0(v)] # 0

\* The free blocks and the ones in use tile the heap: see Umalloc.
HeapTiled == part = "heap" => U!HeapTiled

=============================================================================
