------------------------------ MODULE Spinlock ------------------------------
(***************************************************************************)
(* Spinlocks and interrupts (kernel/spinlock.c): acquire(), release(),     *)
(* push_off() and pop_off() on several CPUs, with the kernel threads of    *)
(* processes and of schedulers that use them (scheduler, sched, yield,     *)
(* sleep and wakeup of kernel/proc.c) and the traps that interrupt them    *)
(* (kerneltrap and devintr of kernel/trap.c).                              *)
(*                                                                         *)
(* A thread has a list of steps to do, each named and with the lock it is  *)
(* about; a trap puts its own in front.  Between two steps other CPUs run, *)
(* and the CPU takes an interrupt if they are on.  What a CPU does to its  *)
(* own struct cpu with interrupts off is one step: no one else sees it.    *)
(***************************************************************************)
EXTENDS Integers, Sequences, Folds

CONSTANTS CPUs, Hart0,   \* the CPU that counts the ticks
          Threads,       \* processes, each with its p->lock
          Shared,        \* the other spinlocks, and what is slept on under them
          tickslock

ASSUME SpinAssumption ==
    Hart0 \in CPUs /\ tickslock \in Shared /\ Shared \cap Threads = {} /\ CPUs \cap (Shared \cup Threads) = {}

VARIABLES
    hart,      \* [runs, sie, noff, intena] of a CPU; runs: the thread on it, the CPU itself for its scheduler
    spin,      \* [locked, cpu] of a lock
    todo,      \* the steps of each thread, in order
    pstate,    \* p->state, what it sleeps on for SLEEPING
    kept,      \* the variable intena of sched()
    oops       \* the panic, once there is one

spinVars == <<hart, spin, todo, pstate, kept, oops>>

None == "none"
LockNames == Shared \cup Threads

acquire(l) == << <<"push_off", l>>, <<"swap", l>> >>
release(l) == << <<"release", l>> >>
sched(p) == << <<"sched", p>>, <<"resume", p>> >>
yield(p) == acquire(p) \o << <<"runnable", p>> >> \o sched(p) \o release(p)
sleep(p, l) ==
    acquire(p) \o release(l) \o << <<"asleep", p, l>> >> \o sched(p) \o release(p) \o acquire(l)

\* A loop over the process table.
ForEach(ps, Body(_)) == MapThenFoldSet(\o, <<>>, Body, LAMBDA S : CHOOSE p \in S : TRUE, ps)

wakeup(k, l) ==
    LET Body(q) == acquire(q) \o << <<"wake", q, l>> >> \o release(q)
    IN  ForEach(Threads \ {k}, Body)
scheduler ==
    LET Body(p) == acquire(p) \o << <<"pick", p>> >> \o release(p)
    IN  << <<"intr_on", None>> >> \o ForEach(Threads, Body)
\* What a device's interrupt, or the clock's, does: clockintr(), consoleintr().
Announce(k, l) == acquire(l) \o wakeup(k, l) \o release(l)

\* Every process is about to be run for the first time, in forkret().
SpinInit ==
    /\ hart = [c \in CPUs |-> [runs |-> c, sie |-> FALSE, noff |-> 0, intena |-> FALSE]]
    /\ spin = [l \in LockNames |-> [locked |-> FALSE, cpu |-> None]]
    /\ todo = [k \in Threads \cup CPUs |-> IF k \in CPUs THEN <<>> ELSE release(k) \o << <<"usertrapret", k>> >>]
    /\ pstate = [p \in Threads |-> "RUNNABLE"]
    /\ kept = [p \in Threads |-> FALSE]
    /\ oops = ""

-----------------------------------------------------------------------------
\* The next step on CPU c is `what'; l is its lock.
At(c, what) == oops = "" /\ todo[hart[c].runs] # <<>> /\ Head(todo[hart[c].runs])[1] = what
Arg(c) == Head(todo[hart[c].runs])[2]
Then(c) == todo' = [todo EXCEPT ![hart[c].runs] = Tail(@)]
Panic(why) == oops' = why /\ UNCHANGED <<hart, spin, todo, pstate, kept>>

holding(c, l) == spin[l].locked /\ spin[l].cpu = c

\* push_off(), from its intr_off() on, and pop_off().
Pushed(h, old) == [h EXCEPT !.sie = FALSE, !.noff = @ + 1, !.intena = IF h.noff = 0 THEN old ELSE @]
Popped(h) == [h EXCEPT !.noff = @ - 1, !.sie = h.noff = 1 /\ h.intena]

\* old = intr_get(): while interrupts are on, one may come before they are off.
intr_get(c) ==
    /\ At(c, "push_off") /\ hart[c].sie
    /\ todo' = [todo EXCEPT ![hart[c].runs] = << <<"intr_off", Arg(c)>> >> \o Tail(@)]
    /\ UNCHANGED <<hart, spin, pstate, kept, oops>>

\* The rest of push_off(), and acquire() looks whether its CPU has the lock.
push_off(c) ==
    /\ At(c, "intr_off") \/ (At(c, "push_off") /\ ~hart[c].sie)
    /\ IF holding(c, Arg(c)) THEN Panic("acquire")
       ELSE /\ hart' = [hart EXCEPT ![c] = Pushed(@, At(c, "intr_off"))]
            /\ Then(c)
            /\ UNCHANGED <<spin, pstate, kept, oops>>

\* __sync_lock_test_and_set(), the time it finds 0.  lk->cpu matters to its own
\* CPU only, for which it and lk->locked change together.
swap(c) ==
    /\ At(c, "swap") /\ ~spin[Arg(c)].locked
    /\ spin' = [spin EXCEPT ![Arg(c)] = [locked |-> TRUE, cpu |-> c]]
    /\ Then(c) /\ UNCHANGED <<hart, pstate, kept, oops>>

released(c) ==
    /\ At(c, "release")
    /\ CASE ~holding(c, Arg(c)) -> Panic("release")
         [] hart[c].sie -> Panic("pop_off - interruptible")
         [] hart[c].noff < 1 -> Panic("pop_off")
         [] OTHER -> /\ spin' = [spin EXCEPT ![Arg(c)] = [locked |-> FALSE, cpu |-> None]]
                     /\ hart' = [hart EXCEPT ![c] = Popped(@)]
                     /\ Then(c) /\ UNCHANGED <<pstate, kept, oops>>

-----------------------------------------------------------------------------
\* p->state, under p->lock: yield(), sleep() and wakeup().
SetState(c) ==
    /\ At(c, "runnable") \/ At(c, "asleep") \/ At(c, "wake")
    /\ LET s == Head(todo[hart[c].runs])
       IN  pstate' = [pstate EXCEPT ![s[2]] = CASE s[1] = "runnable" -> "RUNNABLE"
                                                [] s[1] = "asleep" -> s[3]
                                                [] OTHER -> IF @ = s[3] THEN "RUNNABLE" ELSE @]
    /\ Then(c) /\ UNCHANGED <<hart, spin, kept, oops>>

\* sched(), to its swtch(): the scheduler of this CPU goes on.
Switch(c) ==
    /\ At(c, "sched")
    /\ CASE ~holding(c, Arg(c)) -> Panic("sched p->lock")
         [] hart[c].noff # 1 -> Panic("sched locks")
         [] pstate[Arg(c)] = "RUNNING" -> Panic("sched running")
         [] hart[c].sie -> Panic("sched interruptible")
         [] OTHER -> /\ kept' = [kept EXCEPT ![Arg(c)] = hart[c].intena]
                     /\ hart' = [hart EXCEPT ![c].runs = c]
                     /\ Then(c) /\ UNCHANGED <<spin, pstate, oops>>

\* The CPU's own intena goes on.
Resumed_Cpus(h, intena) == h

Resumed(h, intena) == [h EXCEPT !.intena = intena]

\* sched(), from its swtch() on.
Resume(c) ==
    /\ At(c, "resume")
    /\ hart' = [hart EXCEPT ![c] = Resumed(@, kept[Arg(c)])]
    /\ kept' = [kept EXCEPT ![Arg(c)] = FALSE]
    /\ Then(c) /\ UNCHANGED <<spin, pstate, oops>>

\* scheduler(): p is looked at, and run if it can be.
Pick(c) ==
    /\ At(c, "pick")
    /\ IF pstate[Arg(c)] = "RUNNABLE"
       THEN /\ pstate' = [pstate EXCEPT ![Arg(c)] = "RUNNING"]
            /\ hart' = [hart EXCEPT ![c].runs = Arg(c)]
       ELSE UNCHANGED <<pstate, hart>>
    /\ Then(c) /\ UNCHANGED <<spin, kept, oops>>

\* Interrupts go on: at the top of scheduler()'s loop, on return to user space
\* and from kerneltrap(), whose sstatus had them on.
intr_on(c) ==
    /\ At(c, "intr_on") \/ At(c, "usertrapret") \/ At(c, "sret")
    /\ hart' = [hart EXCEPT ![c].sie = TRUE]
    /\ Then(c) /\ UNCHANGED <<spin, pstate, kept, oops>>

\* A thread does one more thing: a short critical section, or a wait in one.  A scheduler goes over the table again.
Call(c) ==
    LET k == hart[c].runs
    IN  /\ oops = "" /\ todo[k] = <<>>
        /\ todo' \in IF k = c THEN {[todo EXCEPT ![k] = scheduler]}
                     ELSE UNION {{[todo EXCEPT ![k] = acquire(l) \o release(l)],
                                  [todo EXCEPT ![k] = acquire(l) \o sleep(k, l) \o release(l)]} : l \in Shared}
        /\ UNCHANGED <<hart, spin, pstate, kept, oops>>

\* kerneltrap(): the hardware turns interrupts off, devintr() calls a device's
\* handler or, on one CPU, the clock's; after a timer interrupt a process yields.
kerneltrap(c) ==
    LET k == hart[c].runs
        Trap(steps) == todo' = [todo EXCEPT ![k] = steps \o << <<"sret", None>> >> \o @]
    IN  /\ oops = "" /\ hart[c].sie
        /\ hart' = [hart EXCEPT ![c].sie = FALSE]
        /\ \/ \E l \in Shared : Trap(Announce(k, l))
           \/ Trap((IF c = Hart0 THEN Announce(k, tickslock) ELSE <<>>)
                   \o (IF k \in Threads THEN yield(k) ELSE <<>>))
        /\ UNCHANGED <<spin, pstate, kept, oops>>

SpinNext ==
    \E c \in CPUs :
        \/ intr_get(c) \/ push_off(c) \/ swap(c) \/ released(c) \/ SetState(c) \/ Switch(c)
        \/ Resume(c) \/ Pick(c) \/ intr_on(c) \/ Call(c) \/ kerneltrap(c)

-----------------------------------------------------------------------------
\* acquire(), release(), pop_off() and sched() never panic: no CPU acquires
\* what it holds, though a handler uses the locks of what it interrupts.
SpinNoPanic == oops = ""

\* Interrupts are off on a CPU that holds a lock or is about to, and on again
\* once a process has let go of its last, whichever CPU it slept and woke on.
InterruptsRestored ==
    \A c \in CPUs :
        /\ \A l \in LockNames : spin[l].cpu = c => ~hart[c].sie /\ hart[c].noff > 0
        /\ hart[c].runs \in Threads /\ todo[hart[c].runs] = <<>> => hart[c].sie /\ hart[c].noff = 0
=============================================================================
