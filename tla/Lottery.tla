------------------------------- MODULE Lottery -------------------------------
(***************************************************************************)
(* The lottery scheduler (scheduler() in kernel/proc.c), the tickets that  *)
(* fork and settickets give out, and the processes it runs.  scheduler()   *)
(* goes over the process table four times in a round, taking and releasing *)
(* p->lock for each slot: each slot is a step, and interrupts and other    *)
(* CPUs come in between.                                                   *)
(***************************************************************************)
EXTENDS Integers, FiniteSets

CONSTANTS
    NCPU,         \* the largest number of CPUs
    NPROC,
    MaxTickets,   \* bound: the largest argument of settickets
    MaxDebt       \* bound: where negative ticket counts saturate

ASSUME LotteryAssumption ==
    /\ {NCPU, NPROC, MaxTickets, MaxDebt} \subseteq Nat \ {0}

Slots == 0 .. NPROC - 1

VARIABLES
    cpus,         \* how many CPUs the machine was started with
    state, initial_tickets, current_tickets,
    cpupc,        \* cpupc[c]: where scheduler() is on CPU c
    idx,          \* idx[c]: its loop variable p, NPROC standing for &proc[NPROC]
    acc,          \* acc[c]: the ticket count it is adding up
    random_number

table == <<state, initial_tickets, current_tickets>>
sched == <<cpupc, idx, acc, random_number>>
lotVars == <<cpus, table, sched>>

Harts == 0 .. NCPU - 1
CPUs == 0 .. cpus - 1

-----------------------------------------------------------------------------
\* After userinit: one RUNNABLE process in a zeroed table.
LotteryInit ==
    /\ cpus \in 1 .. NCPU
    /\ state = [p \in Slots |-> IF p = 0 THEN "RUNNABLE" ELSE "UNUSED"]
    /\ initial_tickets = [p \in Slots |-> 0]
    /\ current_tickets = [p \in Slots |-> 0]
    /\ cpupc = [c \in Harts |-> "start"] /\ idx = [c \in Harts |-> 0]
    /\ acc = [c \in Harts |-> 0] /\ random_number = [c \in Harts |-> 0]

\* scheduler() goes on to a loop over the table; random_number is local to
\* a round.
LoopWith(c, where, r) ==
    /\ cpupc' = [cpupc EXCEPT ![c] = where]
    /\ idx' = [idx EXCEPT ![c] = 0]
    /\ acc' = [acc EXCEPT ![c] = 0]
    /\ random_number' = [random_number EXCEPT ![c] = r]

Loop(c, where) == LoopWith(c, where, 0)

\* "setting the very first process", which every CPU does.
Start(c) ==
    /\ cpupc[c] = "start"
    /\ initial_tickets' = [initial_tickets EXCEPT ![0] = 1]
    /\ current_tickets' = [current_tickets EXCEPT ![0] = 1]
    /\ Loop(c, "check")
    /\ UNCHANGED state

\* The tickets slot p adds to a count: none unless it is RUNNABLE.
Counted(p) == IF state[p] = "RUNNABLE" THEN current_tickets[p] ELSE 0

\* One iteration of get_total_runnable_tickets that is not the last one.
Count(c) ==
    /\ cpupc[c] \in {"check", "total"} /\ idx[c] < NPROC
    /\ acc' = [acc EXCEPT ![c] = @ + Counted(idx[c])]
    /\ idx' = [idx EXCEPT ![c] = @ + 1]
    /\ UNCHANGED <<table, cpupc, random_number>>

\* A reset only when nobody could run at all.
MustResetNever(total) == FALSE

MustReset(total) == total = 0

CheckDone(c) ==
    /\ cpupc[c] = "check" /\ idx[c] = NPROC
    /\ Loop(c, IF MustReset(acc[c]) THEN "reset" ELSE "total")
    /\ UNCHANGED table

\* One iteration of the reset.
Reset(c) ==
    /\ cpupc[c] = "reset" /\ idx[c] < NPROC
    /\ current_tickets' =
         IF state[idx[c]] = "RUNNABLE"
           THEN [current_tickets EXCEPT ![idx[c]] = initial_tickets[idx[c]]]
           ELSE current_tickets
    /\ idx' = [idx EXCEPT ![c] = @ + 1]
    /\ UNCHANGED <<state, initial_tickets, cpupc, acc, random_number>>

ResetDone(c) ==
    /\ cpupc[c] = "reset" /\ idx[c] = NPROC
    /\ Loop(c, "total")
    /\ UNCHANGED table

\* The values randomrange(lo, hi) may return: both ends are included.
randomrange(lo, hi) == IF hi < lo THEN hi .. lo ELSE lo .. hi

\* random_number = randomrange(0, total_ticket_count)
Draw(c, r) ==
    /\ cpupc[c] = "total" /\ idx[c] = NPROC
    /\ r \in randomrange(0, acc[c])
    /\ LoopWith(c, "scan", r)
    /\ UNCHANGED table

Wins(count, random) == count > random

\* One iteration of the lottery: stops at the winner or goes on.
Scan(c) ==
    /\ cpupc[c] = "scan" /\ idx[c] < NPROC
    /\ acc' = [acc EXCEPT ![c] = @ + Counted(idx[c])]
    /\ IF state[idx[c]] = "RUNNABLE" /\ Wins(acc'[c], random_number[c])
         THEN cpupc' = [cpupc EXCEPT ![c] = "dispatch"] /\ UNCHANGED idx
         ELSE idx' = [idx EXCEPT ![c] = @ + 1] /\ UNCHANGED cpupc
    /\ UNCHANGED <<table, random_number>>

\* The loop ended without a winner.
ScanDone(c) ==
    /\ cpupc[c] = "scan" /\ idx[c] = NPROC
    /\ cpupc' = [cpupc EXCEPT ![c] = "dispatch"]
    /\ UNCHANGED <<table, idx, acc, random_number>>

\* A dispatch that trusts the scan.
StillRunnableTrusted(p) == p < NPROC

\* if(p->state == RUNNABLE) with p->lock held again.  There is no process at
\* &proc[NPROC]: what is read there is taken to be something else.
StillRunnable(p) == p < NPROC /\ state[p] = "RUNNABLE"

OneLess(n) == IF n > -MaxDebt THEN n - 1 ELSE n

\* The chosen process gets the CPU.
Dispatch(c) ==
    /\ cpupc[c] = "dispatch" /\ StillRunnable(idx[c])
    /\ state' = [state EXCEPT ![idx[c]] = "RUNNING"]
    /\ current_tickets' = [current_tickets EXCEPT ![idx[c]] = OneLess(@)]
    /\ cpupc' = [cpupc EXCEPT ![c] = "run"]
    /\ acc' = [acc EXCEPT ![c] = 0]
    /\ random_number' = [random_number EXCEPT ![c] = 0]
    /\ UNCHANGED <<initial_tickets, idx>>

Miss(c) ==
    /\ cpupc[c] = "dispatch" /\ ~StillRunnable(idx[c])
    /\ Loop(c, "check")
    /\ UNCHANGED table

scheduler(c) ==
    \/ Start(c) \/ Count(c) \/ CheckDone(c) \/ Reset(c) \/ ResetDone(c)
    \/ Scan(c) \/ ScanDone(c) \/ Dispatch(c) \/ Miss(c)

-----------------------------------------------------------------------------
\* The process on CPU c goes back to the scheduler in a new state: yield,
\* sleep, or exit and the wait of its parent.
SwitchTo(c, s) ==
    /\ cpupc[c] = "run"
    /\ state' = [state EXCEPT ![idx[c]] = s]
    /\ Loop(c, "check")
    /\ UNCHANGED <<initial_tickets, current_tickets>>

yield(c) == SwitchTo(c, "RUNNABLE")

sleep(c) == SwitchTo(c, "SLEEPING")

exit(c) == idx[c] # 0 /\ SwitchTo(c, "UNUSED")

\* Sets initial_tickets only.
settickets(c, tickets) ==
    /\ cpupc[c] = "run" /\ tickets >= 1
    /\ initial_tickets' = [initial_tickets EXCEPT ![idx[c]] = tickets]
    /\ UNCHANGED <<state, current_tickets, sched>>

\* Bounds on the processes fork makes and on the tickets asked for: with
\* several CPUs a process fewer, and one ticket each.
MaxProcs == IF cpus = 1 THEN NPROC ELSE NPROC - 1
MaxAsked == IF cpus = 1 THEN MaxTickets ELSE 1

\* allocproc takes the first UNUSED slot.
fork(c) ==
    /\ cpupc[c] = "run"
    /\ Cardinality({p \in Slots : state[p] # "UNUSED"}) < MaxProcs
    /\ \E np \in Slots :
         /\ state[np] = "UNUSED" /\ \A q \in Slots : q < np => state[q] # "UNUSED"
         /\ state' = [state EXCEPT ![np] = "RUNNABLE"]
         /\ initial_tickets' = [initial_tickets EXCEPT ![np] = initial_tickets[idx[c]]]
         /\ current_tickets' = [current_tickets EXCEPT ![np] = initial_tickets[idx[c]]]
    /\ UNCHANGED sched

\* wakeup, from an interrupt or from another CPU.
wakeup(p) ==
    /\ state[p] = "SLEEPING"
    /\ state' = [state EXCEPT ![p] = "RUNNABLE"]
    /\ UNCHANGED <<initial_tickets, current_tickets, sched>>

LotteryNext ==
    /\ \/ \E c \in CPUs :
            \/ scheduler(c) \/ yield(c) \/ sleep(c) \/ exit(c) \/ fork(c)
            \/ \E r \in randomrange(0, acc[c]) : Draw(c, r)
            \/ \E n \in 1 .. MaxAsked : settickets(c, n)
       \/ \E p \in Slots : wakeup(p)
    /\ UNCHANGED cpus

LotterySpec == LotteryInit /\ [][LotteryNext]_lotVars

\* A draw that has a winner comes up again and again; the timer interrupt
\* ends every time slice.
LotteryFairSpec ==
    /\ LotterySpec
    /\ \A c \in Harts :
         /\ WF_lotVars(c \in CPUs /\ scheduler(c) /\ UNCHANGED cpus)
         /\ WF_lotVars(c \in CPUs /\ UNCHANGED cpus /\ \E r \in randomrange(0, acc[c]) : Draw(c, r))
         /\ SF_lotVars(/\ c \in CPUs /\ UNCHANGED cpus
                    /\ \E r \in randomrange(0, acc[c]) : r < acc[c] /\ Draw(c, r))
         /\ SF_lotVars(c \in CPUs /\ (yield(c) \/ sleep(c) \/ exit(c)) /\ UNCHANGED cpus)

-----------------------------------------------------------------------------
\* p->state == RUNNABLE is tested again under p->lock, so a process is never
\* run by two CPUs: the RUNNING slots and the CPUs that run one match.
OneCPU ==
    /\ \A c, d \in CPUs : cpupc[c] = "run" /\ cpupc[d] = "run" /\ idx[c] = idx[d] => c = d
    /\ \A p \in Slots : state[p] = "RUNNING" <=> \E c \in CPUs : cpupc[c] = "run" /\ idx[c] = p

\* A draw ends with a process: "as soon as random number is less than current
\* ticket count, we have our process".
DrawHasWinner == \A c \in CPUs : cpupc[c] = "dispatch" => idx[c] \in Slots

FinitelyManyForks == <>[][\A c \in CPUs : ~fork(c)]_lotVars

\* A process that is RUNNABLE is run, whatever the others do, unless they fork
\* for ever: each fork brings new tickets into the draw. One CPU only: with
\* more, the tickets can change between a CPU's count and its draw.
NoStarvation ==
    cpus = 1 /\ FinitelyManyForks => \A p \in Slots : state[p] = "RUNNABLE" ~> state[p] # "RUNNABLE"

=============================================================================
