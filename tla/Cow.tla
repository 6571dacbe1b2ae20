-------------------------------- MODULE Cow --------------------------------
(***************************************************************************)
(* Copy-on-write fork (1805112.patch): page frames shared between the page *)
(* tables of processes, the reference counts of kalloc.c, the page fault   *)
(* that gives a process a frame of its own, and copyout.                   *)
(*                                                                         *)
(* A section under ref.lock, or kmem.lock and ref.lock, is one step.       *)
(* cowalloc reads the reference count without the lock, and uvmcopy maps a *)
(* page before it counts it: other processes run in between.               *)
(***************************************************************************)
EXTENDS Integers, FiniteSets

CONSTANTS
    Procs,
    NPages,         \* p->sz in pages
    Text,           \* the read-only pages of the program
    Frames,         \* physical pages
    Values,
    NoFrame, NoProc,
    Junk            \* what kalloc and kfree fill a frame with

Pages == 0 .. NPages - 1

ASSUME CowAssumption ==
    /\ IsFiniteSet(Procs) /\ IsFiniteSet(Frames)
    /\ NPages \in Nat \ {0} /\ Text \subseteq Pages
    /\ NoFrame \notin Frames /\ NoProc \notin Procs \cup [Pages -> Values \cup {Junk}]

VARIABLES
    pa,        \* pa[p][a]: the frame p's page a is mapped to, or NoFrame
    writable,  \* PTE_W of each page
    cow,       \* PTE_RSW of each page
    refcnt,    \* ref.refcnt
    content,   \* what is in each frame
    pc,
    child,     \* child[p]: the process fork(p) is making
    i,         \* i[p]: the page a loop or a fault of p is at
    newpage    \* newpage[p]: the frame cowalloc has allocated

pagetables == <<pa, writable, cow>>
vars == <<pagetables, refcnt, content, pc, child, i, newpage>>

\* pc: "dead"; "run"; "map", "count": in uvmcopy, before mapping page i and
\* before counting it; "undo": its error path; "fault": in cowalloc;
\* "copy", "remap": there with a new frame; "born": a child not yet RUNNABLE;
\* "exit": freeing its pages.

-----------------------------------------------------------------------------
\* One process p, as exec left it, in the frames f with v in all of them.
ExecLeft(p, f, v) ==
    /\ pa = [q \in Procs |-> IF q = p THEN f ELSE [a \in Pages |-> NoFrame]]
    /\ writable = [q \in Procs |-> [a \in Pages |-> q = p /\ a \notin Text]]
    /\ refcnt = [g \in Frames |-> IF \E a \in Pages : f[a] = g THEN 1 ELSE 0]
    /\ content = [g \in Frames |-> IF \E a \in Pages : f[a] = g THEN v ELSE Junk]
    /\ pc = [q \in Procs |-> IF q = p THEN "run" ELSE "dead"]
    /\ cow = [q \in Procs |-> [a \in Pages |-> FALSE]]
    /\ child = [q \in Procs |-> NoProc]
    /\ i = [q \in Procs |-> 0]
    /\ newpage = [q \in Procs |-> NoFrame]

Placements == {f \in [Pages -> Frames] : \A a, b \in Pages : f[a] = f[b] => a = b}
Init == \E p \in Procs, f \in Placements, v \in Values : ExecLeft(p, f, v)

Goto(p, where, page) ==
    /\ pc' = [pc EXCEPT ![p] = where]
    /\ i' = [i EXCEPT ![p] = page]

\* The page table entry of p's page a.
SetPTE(p, a, f, w, c) ==
    /\ pa' = [pa EXCEPT ![p][a] = f]
    /\ writable' = [writable EXCEPT ![p][a] = w]
    /\ cow' = [cow EXCEPT ![p][a] = c]

\* kfree: one reference less; a frame without references is filled with junk
\* and free.
kfree(f) ==
    /\ refcnt' = [refcnt EXCEPT ![f] = @ - 1]
    /\ content' = [content EXCEPT ![f] = IF refcnt[f] = 1 THEN Junk ELSE @]

\* kalloc of frame f.
kalloc(f) ==
    /\ refcnt[f] = 0
    /\ refcnt' = [refcnt EXCEPT ![f] = 1]
    /\ content' = [content EXCEPT ![f] = Junk]

-----------------------------------------------------------------------------
\* fork: uvmcopy starts.
Fork(p, c) ==
    /\ pc[p] = "run" /\ pc[c] = "dead"
    /\ pc' = [pc EXCEPT ![p] = "map", ![c] = "born"]
    /\ i' = [i EXCEPT ![p] = 0]
    /\ child' = [child EXCEPT ![p] = c]
    /\ UNCHANGED <<pagetables, refcnt, content, newpage>>

\* A writable page becomes a copy-on-write page of both.
Share(p, c, a) ==
    /\ pa' = [pa EXCEPT ![c][a] = pa[p][a]]
    /\ writable' = [writable EXCEPT ![p][a] = FALSE, ![c][a] = FALSE]
    /\ cow' = [cow EXCEPT ![p][a] = @ \/ writable[p][a], ![c][a] = cow[p][a] \/ writable[p][a]]

\* One iteration of uvmcopy up to mappages.
CopyMap(p) ==
    /\ pc[p] = "map" /\ i[p] < NPages
    /\ Share(p, child[p], i[p])
    /\ Goto(p, "count", i[p])
    /\ UNCHANGED <<refcnt, content, child, newpage>>

\* mappages found no memory: goto err.
CopyFails(p) ==
    /\ pc[p] = "map" /\ i[p] < NPages
    /\ writable' = [writable EXCEPT ![p][i[p]] = FALSE]
    /\ cow' = [cow EXCEPT ![p][i[p]] = @ \/ writable[p][i[p]]]
    /\ Goto(p, "undo", 0)
    /\ UNCHANGED <<pa, refcnt, content, child, newpage>>

\* addrefcnt(pa)
CopyCount(p) ==
    /\ pc[p] = "count"
    /\ refcnt' = [refcnt EXCEPT ![pa[p][i[p]]] = @ + 1]
    /\ Goto(p, "map", i[p] + 1)
    /\ UNCHANGED <<pagetables, content, child, newpage>>

\* uvmcopy is done and the child runs.
CopyDone(p) ==
    /\ pc[p] = "map" /\ i[p] = NPages
    /\ pc' = [pc EXCEPT ![p] = "run", ![child[p]] = "run"]
    /\ i' = [i EXCEPT ![p] = 0]
    /\ child' = [child EXCEPT ![p] = NoProc]
    /\ UNCHANGED <<pagetables, refcnt, content, newpage>>

\* uvmunmap frees page a of process q.
Unmap(q, a) ==
    /\ SetPTE(q, a, NoFrame, FALSE, FALSE)
    /\ kfree(pa[q][a])

\* uvmunmap(new, 0, i / PGSIZE, 1) on the error path, then fork returns -1.
Undo(p) ==
    /\ pc[p] = "undo" /\ i[p] < NPages /\ pa[child[p]][i[p]] # NoFrame
    /\ Unmap(child[p], i[p])
    /\ Goto(p, "undo", i[p] + 1)
    /\ UNCHANGED <<child, newpage>>

Undone(p) ==
    /\ pc[p] = "undo"
    /\ i[p] = NPages \/ pa[child[p]][i[p]] = NoFrame
    /\ pc' = [pc EXCEPT ![p] = "run", ![child[p]] = "dead"]
    /\ i' = [i EXCEPT ![p] = 0]
    /\ child' = [child EXCEPT ![p] = NoProc]
    /\ UNCHANGED <<pagetables, refcnt, content, newpage>>

\* Leaving, called for or because p was killed: the pages are freed one by one.
Exit(p) ==
    /\ pc[p] = "run" \/ (pc[p] = "exit" /\ i[p] < NPages)
    /\ LET a == IF pc[p] = "run" THEN 0 ELSE i[p] IN
         Unmap(p, a) /\ Goto(p, "exit", a + 1)
    /\ UNCHANGED <<child, newpage>>

Exited(p) ==
    /\ pc[p] = "exit" /\ i[p] = NPages
    /\ Goto(p, "dead", 0)
    /\ UNCHANGED <<pagetables, refcnt, content, child, newpage>>

-----------------------------------------------------------------------------
\* A store, or a copyout, to a page mapped writable.
Store(p, a, v) ==
    /\ pc[p] = "run" /\ writable[p][a]
    /\ content' = [content EXCEPT ![pa[p][a]] = v]
    /\ UNCHANGED <<pagetables, refcnt, pc, child, i, newpage>>

\* The kernel writes a result to the page: copyout does not look at PTE_W.
copyout(p, a, v) ==
    /\ pc[p] = "run" /\ ~writable[p][a] /\ ~cow[p][a]
    /\ content' = [content EXCEPT ![pa[p][a]] = v]
    /\ UNCHANGED <<pagetables, refcnt, pc, child, i, newpage>>

\* A store or a copyout to a copy-on-write page calls cowalloc.
Fault(p, a) ==
    /\ pc[p] = "run" /\ cow[p][a]
    /\ Goto(p, "fault", a)
    /\ UNCHANGED <<pagetables, refcnt, content, child, newpage>>

\* Shared as long as two others have it.
NotSharedOffByOne(f) == refcnt[f] <= 2

\* refcnt((void*)pa) == 1
NotShared(f) == refcnt[f] = 1

\* The page is not shared: it becomes writable.
CowOwn(p) ==
    /\ pc[p] = "fault" /\ NotShared(pa[p][i[p]])
    /\ SetPTE(p, i[p], pa[p][i[p]], TRUE, FALSE)
    /\ Goto(p, "run", 0)
    /\ UNCHANGED <<refcnt, content, child, newpage>>

CowAlloc(p, f) ==
    /\ pc[p] = "fault" /\ ~NotShared(pa[p][i[p]])
    /\ kalloc(f)
    /\ newpage' = [newpage EXCEPT ![p] = f]
    /\ Goto(p, "copy", i[p])
    /\ UNCHANGED <<pagetables, child>>

\* kalloc fails, the rest of the kernel having the memory: copyout returns -1,
\* or a store kills the process, which then exits.
CowFails(p) ==
    /\ pc[p] = "fault" /\ ~NotShared(pa[p][i[p]])
    /\ Goto(p, "run", 0)
    /\ UNCHANGED <<pagetables, refcnt, content, child, newpage>>

\* memmove(newpage, pa, PGSIZE)
CowCopy(p) ==
    /\ pc[p] = "copy"
    /\ content' = [content EXCEPT ![newpage[p]] = content[pa[p][i[p]]]]
    /\ Goto(p, "remap", i[p])
    /\ UNCHANGED <<pagetables, refcnt, child, newpage>>

\* cowalloc that keeps its reference to the old frame.
RemapKeeping(p) ==
    /\ pc[p] = "remap"
    /\ SetPTE(p, i[p], newpage[p], TRUE, FALSE)
    /\ newpage' = [newpage EXCEPT ![p] = NoFrame]
    /\ Goto(p, "run", 0)
    /\ UNCHANGED <<refcnt, content, child>>

\* The new frame is mapped and the old one loses a reference.
CowRemap(p) ==
    /\ pc[p] = "remap"
    /\ SetPTE(p, i[p], newpage[p], TRUE, FALSE)
    /\ newpage' = [newpage EXCEPT ![p] = NoFrame]
    /\ kfree(pa[p][i[p]])
    /\ Goto(p, "run", 0)
    /\ UNCHANGED child

cowalloc(p) == CowOwn(p) \/ (\E f \in Frames : CowAlloc(p, f)) \/ CowFails(p) \/ CowCopy(p) \/ CowRemap(p)

uvmcopy(p) == CopyMap(p) \/ CopyFails(p) \/ CopyCount(p) \/ CopyDone(p) \/ Undo(p) \/ Undone(p)

Next ==
    \E p \in Procs :
        \/ \E c \in Procs : Fork(p, c)
        \/ uvmcopy(p) \/ cowalloc(p) \/ Exit(p) \/ Exited(p)
        \/ \E a \in Pages : Fault(p, a)
        \/ \E a \in Pages, v \in Values : Store(p, a, v) \/ copyout(p, a, v)

Spec == Init /\ [][Next]_vars

-----------------------------------------------------------------------------
Mappings(f) == {q \in Procs \X Pages : pa[q[1]][q[2]] = f}

\* The mappings uvmcopy has made and not counted yet.
Uncounted(f) == {p \in Procs : pc[p] = "count" /\ pa[p][i[p]] = f}

\* The references cowalloc holds to its new frame.
Pending(f) == {p \in Procs : newpage[p] = f}

\* Reference counts are exact: nothing is freed too early or lost.
RefcntExact ==
    \A f \in Frames :
        refcnt[f] + Cardinality(Uncounted(f))
            = Cardinality(Mappings(f)) + Cardinality(Pending(f))

\* The memory of the processes that run; a child has one once fork returns.
Memory ==
    [p \in Procs |->
        IF pc[p] \in {"dead", "born", "exit"} THEN NoProc
        ELSE [a \in Pages |-> content[pa[p][a]]]]

PM == INSTANCE PrivateMemory WITH Dead <- NoProc, ReadOnly <- Text, mem <- Memory

\* Sharing cannot be noticed in the pages a process writes: they behave as
\* private memories, whatever forks, faults and exits interleave.
ImplementsPrivateMemory == PM!ASpec

\* The same of every page, the read-only ones included.
EveryPagePrivate == PM!PrivateSpec

=============================================================================
