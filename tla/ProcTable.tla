------------------------------ MODULE ProcTable ------------------------------
(***************************************************************************)
(* The life of xv6 processes (fork, exit, wait, kill, reparent and the     *)
(* sleep and wakeup they use, in kernel/proc.c).  Which process runs is    *)
(* the scheduler's matter: RUNNABLE stands for RUNNABLE and RUNNING.       *)
(*                                                                         *)
(* wait_lock is explicit where it is held over several steps; a section    *)
(* under a p->lock is one step, except the last one of exit, which holds   *)
(* p->lock until the scheduler is off the zombie's kernel stack.           *)
(***************************************************************************)
EXTENDS Integers, FiniteSets

CONSTANTS
    NPROC,
    MaxPid,     \* bound: the last pid given out
    KillPids,   \* the arguments kill is called with
    NoSlot

ASSUME TableAssumption ==
    /\ NPROC \in Nat \ {0} /\ MaxPid \in Nat \ {0}
    /\ KillPids \subseteq Nat /\ NoSlot \notin Nat

Slots == 0 .. NPROC - 1
initproc == 0

VARIABLES
    state, pid, parent, killed,
    nextpid,
    wait_lock,   \* the process that holds it, or NoSlot
    pc,          \* where the process in each slot is
    np,          \* np[p]: the child fork(p) is making
    parentpid,   \* the pid of the process each slot was given as parent
    victims      \* the pids that kill was called with

procs == <<state, pid, parent, killed>>
vars == <<procs, nextpid, wait_lock, pc, np, parentpid, victims>>

Alive == {"RUNNABLE", "SLEEPING"}

\* pc: "none": not started; "user"; "fork1", "fork2": before the second and
\* third critical section of fork; "wait": wants wait_lock; "sleep": in wait,
\* holding it, about to sleep; "asleep"; "switching": a zombie that still
\* runs on its kernel stack, holding p->lock.

-----------------------------------------------------------------------------
\* After userinit.
Init ==
    /\ state = [p \in Slots |-> IF p = initproc THEN "RUNNABLE" ELSE "UNUSED"]
    /\ pid = [p \in Slots |-> IF p = initproc THEN 1 ELSE 0] /\ nextpid = 2
    /\ parent = [p \in Slots |-> NoSlot]
    /\ killed = [p \in Slots |-> FALSE]
    /\ wait_lock = NoSlot
    /\ pc = [p \in Slots |-> IF p = initproc THEN "user" ELSE "none"]
    /\ np = [p \in Slots |-> NoSlot]
    /\ parentpid = [p \in Slots |-> 0] /\ victims = {}

Children(p) == {q \in Slots : parent[q] = p}

\* usertrap lets a process that is not killed make a system call.
AtSyscall(p) == state[p] = "RUNNABLE" /\ pc[p] = "user" /\ ~killed[p]

\* The first UNUSED slot.
FirstUnused(q) == state[q] = "UNUSED" /\ \A r \in Slots : r < q => state[r] # "UNUSED"

\* allocproc; what the slot's killed says is left alone.
allocproc(q) ==
    /\ FirstUnused(q) /\ nextpid <= MaxPid
    /\ nextpid' = nextpid + 1
    /\ pid' = [pid EXCEPT ![q] = nextpid]
    /\ state' = [state EXCEPT ![q] = "USED"]

freeproc(q) ==
    /\ pid' = [pid EXCEPT ![q] = 0]
    /\ parent' = [parent EXCEPT ![q] = NoSlot]
    /\ killed' = [killed EXCEPT ![q] = FALSE]
    /\ state' = [state EXCEPT ![q] = "UNUSED"]

\* Memory runs out after allocproc: np->lock is held until freeproc is done.
ForkFails(p) ==
    /\ AtSyscall(p) /\ nextpid <= MaxPid
    /\ \E q \in Slots : FirstUnused(q) /\ freeproc(q)
    /\ nextpid' = nextpid + 1
    /\ UNCHANGED <<wait_lock, pc, np, parentpid, victims>>

ForkAlloc(p) ==
    /\ AtSyscall(p)
    /\ \E q \in Slots : allocproc(q) /\ np' = [np EXCEPT ![p] = q]
    /\ pc' = [pc EXCEPT ![p] = "fork1"]
    /\ UNCHANGED <<parent, killed, wait_lock, parentpid, victims>>

\* The parent link, under wait_lock; then the child may run.
ForkParent(p) ==
    /\ pc[p] = "fork1" /\ wait_lock = NoSlot
    /\ parent' = [parent EXCEPT ![np[p]] = p]
    /\ parentpid' = [parentpid EXCEPT ![np[p]] = pid[p]]
    /\ pc' = [pc EXCEPT ![p] = "fork2"]
    /\ UNCHANGED <<state, pid, killed, nextpid, wait_lock, np, victims>>

ForkRunnable(p) ==
    /\ pc[p] = "fork2"
    /\ state' = [state EXCEPT ![np[p]] = "RUNNABLE"]
    /\ pc' = [pc EXCEPT ![p] = "user", ![np[p]] = "user"]
    /\ np' = [np EXCEPT ![p] = NoSlot]
    /\ UNCHANGED <<pid, parent, killed, nextpid, wait_lock, parentpid, victims>>

fork(p) == ForkFails(p) \/ ForkAlloc(p) \/ ForkParent(p) \/ ForkRunnable(p)

\* The processes that a wakeup on the channels in chans gets running; the
\* only channel of this module is the struct proc of a process in wait().
Woken(chans) == {q \in chans \cap Slots : state[q] = "SLEEPING"}

AfterWakeup(chans, s) == [q \in Slots |-> IF q \in Woken(chans) THEN "RUNNABLE" ELSE s[q]]

\* exit that does not tell init of the children it inherits.
TellParentOnly(p) == {parent[p]}

\* wakeup(initproc) in reparent, wakeup(p->parent) in exit.
Told(p) == {parent[p]} \cup (IF Children(p) # {} THEN {initproc} ELSE {})

\* exit without reparent.
KeepChildren(p) == UNCHANGED <<parent, parentpid>>

reparent(p) ==
    /\ parent' = [q \in Slots |-> IF parent[q] = p THEN initproc ELSE parent[q]]
    /\ parentpid' = [q \in Slots |-> IF parent[q] = p THEN pid[initproc] ELSE parentpid[q]]

\* exit, called by the process or because it was killed, from wait_lock on.
exit(p) ==
    /\ p # initproc /\ state[p] = "RUNNABLE" /\ pc[p] = "user" /\ wait_lock = NoSlot
    /\ reparent(p)
    /\ state' = [AfterWakeup(Told(p), state) EXCEPT ![p] = "ZOMBIE"]
    /\ pc' = [q \in Slots |-> IF q = p THEN "switching"
                              ELSE IF q \in Woken(Told(p)) THEN "wait" ELSE pc[q]]
    /\ UNCHANGED <<pid, killed, nextpid, wait_lock, np, victims>>

\* The scheduler runs again and releases the zombie's p->lock.
SwitchedOut(p) ==
    /\ pc[p] = "switching"
    /\ pc' = [pc EXCEPT ![p] = "none"]
    /\ UNCHANGED <<procs, nextpid, wait_lock, np, parentpid, victims>>

WaitCalled(p) ==
    /\ AtSyscall(p)
    /\ pc' = [pc EXCEPT ![p] = "wait"]
    /\ UNCHANGED <<procs, nextpid, wait_lock, np, parentpid, victims>>

\* A scan that does not take the child's p->lock.
ChildFreeUnlocked(q) == TRUE

\* acquire(&pp->lock): "make sure the child isn't still in exit() or swtch()".
ChildFree(q) == pc[q] # "switching"

Scanning(p) ==
    /\ state[p] = "RUNNABLE" /\ pc[p] = "wait" /\ wait_lock = NoSlot
    /\ \A q \in Children(p) : ChildFree(q)

Zombies(p) == {q \in Children(p) : state[q] = "ZOMBIE"}

\* The first zombie of the scan is freed and its pid returned.
WaitReaps(p) ==
    /\ Scanning(p)
    /\ \E q \in Zombies(p) :
         /\ \A r \in Zombies(p) : q <= r
         /\ freeproc(q)
    /\ pc' = [pc EXCEPT ![p] = "user"]
    /\ UNCHANGED <<nextpid, wait_lock, np, parentpid, victims>>

\* return -1: no children, killed, or the status cannot be copied out (init
\* does not ask for it).
WaitFails(p) ==
    /\ Scanning(p)
    /\ \/ Zombies(p) = {} /\ (Children(p) = {} \/ killed[p])
       \/ Zombies(p) # {} /\ p # initproc
    /\ pc' = [pc EXCEPT ![p] = "user"]
    /\ UNCHANGED <<procs, nextpid, wait_lock, np, parentpid, victims>>

\* wait_lock let go before p is SLEEPING.
GoesToSleepUnlocked(p) ==
    /\ Scanning(p) /\ Zombies(p) = {} /\ Children(p) # {} /\ ~killed[p]
    /\ pc' = [pc EXCEPT ![p] = "sleep"]
    /\ UNCHANGED <<procs, nextpid, wait_lock, np, parentpid, victims>>

\* No child has exited: on to sleep(p, &wait_lock).
WaitGoesToSleep(p) ==
    /\ Scanning(p) /\ Zombies(p) = {} /\ Children(p) # {} /\ ~killed[p]
    /\ wait_lock' = p
    /\ pc' = [pc EXCEPT ![p] = "sleep"]
    /\ UNCHANGED <<procs, nextpid, np, parentpid, victims>>

\* sleep: p->lock is taken before wait_lock is released.
sleep(p) ==
    /\ pc[p] = "sleep"
    /\ wait_lock' = NoSlot
    /\ state' = [state EXCEPT ![p] = "SLEEPING"]
    /\ pc' = [pc EXCEPT ![p] = "asleep"]
    /\ UNCHANGED <<pid, parent, killed, nextpid, np, parentpid, victims>>

wait(p) == WaitReaps(p) \/ WaitFails(p) \/ WaitGoesToSleep(p) \/ sleep(p)

\* kill(k): the first slot with that pid.  An UNUSED slot has pid 0.
kill(k) ==
    /\ k \in KillPids
    /\ victims' = victims \cup {k}
    /\ \E q \in Slots :
         /\ pid[q] = k /\ \A r \in Slots : r < q => pid[r] # k
         /\ killed' = [killed EXCEPT ![q] = TRUE]
         /\ state' = [state EXCEPT ![q] = IF @ = "SLEEPING" THEN "RUNNABLE" ELSE @]
         /\ pc' = [pc EXCEPT ![q] = IF state[q] = "SLEEPING" THEN "wait" ELSE @]
    /\ UNCHANGED <<pid, parent, nextpid, wait_lock, np, parentpid>>

Next ==
    \/ \E p \in Slots : fork(p) \/ WaitCalled(p) \/ wait(p) \/ exit(p) \/ SwitchedOut(p)
    \/ \E k \in KillPids : kill(k)

Spec == Init /\ [][Next]_vars

\* What is in the kernel runs on, and init calls wait over and over (the
\* loop of user/init.c).
FairSpec == /\ Spec
            /\ \A p \in Slots :
                 SF_vars(ForkParent(p) \/ ForkRunnable(p) \/ wait(p) \/ SwitchedOut(p))
            /\ SF_vars(WaitCalled(initproc))

-----------------------------------------------------------------------------
\* What a slot says is about the process in it and not about an earlier one:
\* exit hands children over before it turns into a zombie, so that the parent
\* of a process is alive and the process it was given, not a later one in the
\* same slot; and only a process that kill was called for is killed.
RightProcess ==
    /\ \A p \in Slots \ {initproc} :
         state[p] \in Alive \cup {"ZOMBIE"} =>
             /\ parent[p] \in Slots /\ state[parent[p]] \in Alive
             /\ pid[parent[p]] = parentpid[p]
    /\ \A p \in Slots : state[p] \in Alive /\ killed[p] => pid[p] \in victims

\* A parent does not sleep in wait() with a zombie to reap, although exit
\* wakes it up before it sets ZOMBIE.
ZombieNoticed ==
    \A p \in Slots : state[p] = "ZOMBIE" =>
        parent[p] \in Slots /\ state[parent[p]] # "SLEEPING"

\* A process is not freed, nor its slot given to another one, while a CPU is
\* still on its kernel stack.
NoFreeOnStack == \A p \in Slots : pc[p] = "switching" => state[p] = "ZOMBIE"

\* A process whose parent is gone is reaped by init once it has exited.
OrphansReaped ==
    \A p \in Slots :
        state[p] = "ZOMBIE" /\ parent[p] = initproc ~> state[p] # "ZOMBIE"

=============================================================================
