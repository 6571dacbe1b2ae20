--------------------------- MODULE ProcTableProofs ---------------------------
\* Proofs about the process table, for any number of slots and any pids that
\* are killed: who is whose parent, who is killed, which zombies are noticed,
\* and when a slot may be given to another process.
EXTENDS ProcTable, TLAPS

States == {"UNUSED", "USED", "RUNNABLE", "SLEEPING", "ZOMBIE"}
AwakePlaces == {"user", "fork1", "fork2", "wait", "sleep"}
Places == AwakePlaces \cup {"none", "asleep", "switching"}

TypeOK ==
    /\ state \in [Slots -> States] /\ pid \in [Slots -> Nat]
    /\ parent \in [Slots -> Slots \cup {NoSlot}]
    /\ DOMAIN killed = Slots /\ nextpid \in Nat
    /\ pc \in [Slots -> Places] /\ np \in [Slots -> Slots \cup {NoSlot}]
    /\ parentpid \in [Slots -> Nat] /\ victims \subseteq KillPids

\* Where a process can be in each of its states.
PlaceOfState ==
    \A p \in Slots :
        /\ state[p] \in {"UNUSED", "USED"} => pc[p] = "none"
        /\ state[p] = "RUNNABLE" => pc[p] \in AwakePlaces
        /\ state[p] = "SLEEPING" => pc[p] = "asleep"
        /\ state[p] = "ZOMBIE" => pc[p] \in {"none", "switching"}

\* wait_lock is held over a step by the process about to sleep in wait().
WaitLockHeld == \A p \in Slots : pc[p] = "sleep" => wait_lock = p

Forking(p) == pc[p] \in {"fork1", "fork2"}

\* The child fork is making belongs to the process that makes it, and has that
\* process as its parent from the second critical section on.
ForkOwnsChild ==
    /\ \A p \in Slots : Forking(p) => np[p] \in Slots /\ state[np[p]] = "USED"
    /\ \A p, q \in Slots : Forking(p) /\ Forking(q) /\ np[p] = np[q] => p = q
    /\ \A p \in Slots : pc[p] = "fork2" => parent[np[p]] = p /\ parentpid[np[p]] = pid[p]

HasParent(p) ==
    /\ parent[p] \in Slots /\ state[parent[p]] \in Alive
    /\ pid[parent[p]] = parentpid[p]

\* init does not exit, and every other process has a living parent, the one
\* it was given.
ParentsAlive ==
    /\ state[initproc] \in Alive
    /\ \A p \in Slots \ {initproc} : state[p] \in Alive \cup {"ZOMBIE"} => HasParent(p)

\* Neither a process asleep in wait() nor one about to be has a zombie.
NoZombieMissed ==
    \A p, q \in Slots :
        state[q] = "ZOMBIE" /\ parent[q] = p => state[p] # "SLEEPING" /\ pc[p] # "sleep"

IInv ==
    /\ TypeOK /\ PlaceOfState /\ WaitLockHeld /\ ForkOwnsChild
    /\ ParentsAlive /\ NoZombieMissed

\* What killed says about the process in a slot.
KilledIsVictim ==
    /\ \A p \in Slots : state[p] = "UNUSED" => pid[p] = 0
    /\ \A p \in Slots : killed[p] => pid[p] \in victims

\* No two processes have the same pid, and the next one is new.
PidsUnique ==
    /\ \A p \in Slots : pid[p] < nextpid /\ (state[p] # "UNUSED" => pid[p] # 0)
    /\ \A p, q \in Slots : pid[p] = pid[q] /\ pid[p] # 0 => p = q

\* init has a slot, and NoSlot is none.
LEMMA InitSlot == initproc \in Slots /\ NoSlot \notin Slots
  BY TableAssumption DEF initproc, Slots

\* A fork that fails after allocproc preserves the invariant.
LEMMA ForkFailsStep == ASSUME IInv, NEW p \in Slots, ForkFails(p) PROVE IInv'
  <1> USE DEF ForkFails, FirstUnused, freeproc, IInv, procs
  <1>1. TypeOK'
    BY InitSlot DEF TypeOK, States, Places, AwakePlaces
  <1>2. PlaceOfState'
    BY InitSlot DEF TypeOK, PlaceOfState, AwakePlaces
  <1>3. WaitLockHeld'
    BY InitSlot DEF TypeOK, WaitLockHeld
  <1>4. ForkOwnsChild'
    BY InitSlot DEF TypeOK, PlaceOfState, ForkOwnsChild, Forking, AwakePlaces
  <1>5. ParentsAlive'
    BY InitSlot DEF TypeOK, PlaceOfState, ParentsAlive, HasParent, Alive
  <1>6. NoZombieMissed'
    BY InitSlot DEF TypeOK, PlaceOfState, NoZombieMissed
  <1> QED
    BY <1>1, <1>2, <1>3, <1>4, <1>5, <1>6

\* The first critical section of fork preserves the invariant.
LEMMA ForkAllocStep == ASSUME IInv, NEW p \in Slots, ForkAlloc(p) PROVE IInv'
  <1> USE DEF ForkAlloc, AtSyscall, allocproc, FirstUnused, IInv, procs
  <1>1. TypeOK'
    BY InitSlot DEF TypeOK, States, Places, AwakePlaces
  <1>2. PlaceOfState'
    BY InitSlot DEF TypeOK, PlaceOfState, AwakePlaces
  <1>3. WaitLockHeld'
    BY InitSlot DEF TypeOK, WaitLockHeld
  <1>4. ForkOwnsChild'
    BY InitSlot DEF TypeOK, PlaceOfState, ForkOwnsChild, Forking, AwakePlaces
  <1>5. ParentsAlive'
    BY InitSlot DEF TypeOK, PlaceOfState, ParentsAlive, HasParent, Alive
  <1>6. NoZombieMissed'
    BY InitSlot DEF TypeOK, PlaceOfState, NoZombieMissed
  <1> QED
    BY <1>1, <1>2, <1>3, <1>4, <1>5, <1>6

\* The second critical section of fork preserves the invariant.
LEMMA ForkParentStep == ASSUME IInv, NEW p \in Slots, ForkParent(p) PROVE IInv'
  <1> USE DEF ForkParent, IInv, procs
  <1>1. TypeOK'
    BY InitSlot DEF TypeOK, States, Places, AwakePlaces
  <1>2. PlaceOfState'
    BY InitSlot DEF TypeOK, PlaceOfState, AwakePlaces
  <1>3. WaitLockHeld'
    BY InitSlot DEF TypeOK, WaitLockHeld
  <1>4. ForkOwnsChild'
    BY InitSlot DEF TypeOK, PlaceOfState, ForkOwnsChild, Forking, AwakePlaces
  <1>5. ParentsAlive'
    BY InitSlot DEF TypeOK, PlaceOfState, ForkOwnsChild, Forking, ParentsAlive, HasParent, Alive
  <1>6. NoZombieMissed'
    BY InitSlot DEF TypeOK, PlaceOfState, NoZombieMissed
  <1> QED
    BY <1>1, <1>2, <1>3, <1>4, <1>5, <1>6

\* The third critical section of fork preserves the invariant.
LEMMA ForkRunnableStep == ASSUME IInv, NEW p \in Slots, ForkRunnable(p) PROVE IInv'
  <1> USE DEF ForkRunnable, IInv, procs
  <1>1. TypeOK'
    BY InitSlot DEF TypeOK, States, Places, AwakePlaces
  <1>2. PlaceOfState'
    BY InitSlot DEF TypeOK, PlaceOfState, AwakePlaces
  <1>3. WaitLockHeld'
    BY InitSlot DEF TypeOK, WaitLockHeld
  <1>4. ForkOwnsChild'
    BY InitSlot DEF TypeOK, PlaceOfState, ForkOwnsChild, Forking, AwakePlaces
  <1>5. ParentsAlive'
    <2>1. state[p] = "RUNNABLE" /\ np[p] \in Slots /\ state[np[p]] = "USED"
      BY DEF TypeOK, States, PlaceOfState, ForkOwnsChild, Forking
    <2>2. parent[np[p]] = p /\ parentpid[np[p]] = pid[p]
      BY DEF ForkOwnsChild
    <2>3. \A q \in Slots : state'[q] = IF q = np[p] THEN "RUNNABLE" ELSE state[q]
      BY <2>1 DEF TypeOK
    <2>4. ASSUME NEW q \in Slots, q = np[p] PROVE HasParent(q)'
      BY <2>4, <2>1, <2>2, <2>3 DEF HasParent, Alive
    <2>5. ASSUME NEW q \in Slots, HasParent(q) PROVE HasParent(q)'
      BY <2>1, <2>3, <2>5 DEF HasParent, Alive
    <2> QED
      BY <2>1, <2>3, <2>4, <2>5, InitSlot DEF ParentsAlive, Alive
  <1>6. NoZombieMissed'
    BY InitSlot DEF TypeOK, PlaceOfState, NoZombieMissed
  <1> QED
    BY <1>1, <1>2, <1>3, <1>4, <1>5, <1>6

\* Exit preserves the invariant.
LEMMA ExitStep == ASSUME IInv, NEW p \in Slots, exit(p) PROVE IInv'
  <1> USE DEF exit, reparent, AfterWakeup, Woken, Told, Children, IInv, procs
  <1>1. TypeOK'
    BY InitSlot DEF TypeOK, States, Places, AwakePlaces
  <1>2. PlaceOfState'
    BY InitSlot DEF TypeOK, PlaceOfState, AwakePlaces
  <1>3. WaitLockHeld'
    BY InitSlot DEF TypeOK, WaitLockHeld
  <1>4. ForkOwnsChild'
    BY InitSlot DEF TypeOK, PlaceOfState, ForkOwnsChild, Forking, AwakePlaces
  <1>a. \A q \in Slots : parent'[q] = (IF parent[q] = p THEN initproc ELSE parent[q]) /\ parent'[q] # p
    BY InitSlot DEF TypeOK
  <1>b. \A q \in Slots \ {p} : state'[q] = IF q \in Woken(Told(p)) THEN "RUNNABLE" ELSE state[q]
    BY DEF TypeOK
  <1>c. state'[p] = "ZOMBIE"
    BY DEF TypeOK
  <1>d. ASSUME NEW q \in Slots \ {initproc}, state'[q] \in Alive \cup {"ZOMBIE"} PROVE HasParent(q)'
    <2>1. HasParent(q)
      BY <1>b, <1>d DEF ParentsAlive, Alive
    <2>2. parentpid'[q] = (IF parent[q] = p THEN pid[initproc] ELSE parentpid[q])
      BY DEF TypeOK
    <2> QED
      BY <1>a, <1>b, <2>1, <2>2, InitSlot DEF HasParent, ParentsAlive, Alive
  <1>5. ParentsAlive'
    BY <1>b, <1>d, InitSlot DEF ParentsAlive, Alive
  <1>6. NoZombieMissed'
    <2> SUFFICES ASSUME NEW q \in Slots, NEW r \in Slots, state'[q] = "ZOMBIE", parent'[q] = r
                 PROVE  state'[r] # "SLEEPING" /\ pc'[r] # "sleep"
      BY DEF NoZombieMissed
    <2>1. r # p
      BY <1>a
    <2>2. pc'[r] # "sleep"
      BY <2>1, InitSlot DEF TypeOK, WaitLockHeld
    <2>3. CASE r \in Told(p)
      BY <1>b, <2>1, <2>2, <2>3
    <2>4. CASE r \notin Told(p)
      <3>1. q # p /\ parent[q] = r
        BY <1>a, <2>4
      <3>2. state[q] = "ZOMBIE"
        BY <1>b, <3>1
      <3> QED
        BY <1>b, <2>1, <2>2, <3>1, <3>2 DEF NoZombieMissed
    <2> QED
      BY <2>3, <2>4
  <1> QED
    BY <1>1, <1>2, <1>3, <1>4, <1>5, <1>6

\* The last step of a zombie preserves the invariant.
LEMMA SwitchedOutStep == ASSUME IInv, NEW p \in Slots, SwitchedOut(p) PROVE IInv'
  <1> USE DEF SwitchedOut, IInv, procs
  <1>1. TypeOK'
    BY InitSlot DEF TypeOK, States, Places, AwakePlaces
  <1>2. PlaceOfState'
    BY InitSlot DEF TypeOK, PlaceOfState, AwakePlaces
  <1>3. WaitLockHeld'
    BY InitSlot DEF TypeOK, WaitLockHeld
  <1>4. ForkOwnsChild'
    BY InitSlot DEF TypeOK, PlaceOfState, ForkOwnsChild, Forking, AwakePlaces
  <1>5. ParentsAlive'
    BY InitSlot DEF TypeOK, PlaceOfState, ParentsAlive, HasParent, Alive
  <1>6. NoZombieMissed'
    BY InitSlot DEF TypeOK, PlaceOfState, NoZombieMissed
  <1> QED
    BY <1>1, <1>2, <1>3, <1>4, <1>5, <1>6

\* The call of wait preserves the invariant.
LEMMA WaitCalledStep == ASSUME IInv, NEW p \in Slots, WaitCalled(p) PROVE IInv'
  <1> USE DEF WaitCalled, AtSyscall, IInv, procs
  <1>1. TypeOK'
    BY InitSlot DEF TypeOK, States, Places, AwakePlaces
  <1>2. PlaceOfState'
    BY InitSlot DEF TypeOK, PlaceOfState, AwakePlaces
  <1>3. WaitLockHeld'
    BY InitSlot DEF TypeOK, WaitLockHeld
  <1>4. ForkOwnsChild'
    BY InitSlot DEF TypeOK, PlaceOfState, ForkOwnsChild, Forking, AwakePlaces
  <1>5. ParentsAlive'
    BY InitSlot DEF TypeOK, PlaceOfState, ParentsAlive, HasParent, Alive
  <1>6. NoZombieMissed'
    BY InitSlot DEF TypeOK, PlaceOfState, NoZombieMissed
  <1> QED
    BY <1>1, <1>2, <1>3, <1>4, <1>5, <1>6

\* A wait that finds a zombie preserves the invariant.
LEMMA WaitReapsStep == ASSUME IInv, NEW p \in Slots, WaitReaps(p) PROVE IInv'
  <1> USE DEF WaitReaps, Scanning, Zombies, Children, ChildFree, freeproc, IInv, procs
  <1>1. TypeOK'
    BY InitSlot DEF TypeOK, States, Places, AwakePlaces
  <1>2. PlaceOfState'
    BY InitSlot DEF TypeOK, PlaceOfState, AwakePlaces
  <1>3. WaitLockHeld'
    BY InitSlot DEF TypeOK, WaitLockHeld
  <1>4. ForkOwnsChild'
    BY InitSlot DEF TypeOK, PlaceOfState, ForkOwnsChild, Forking, AwakePlaces
  <1>5. ParentsAlive'
    BY InitSlot DEF TypeOK, PlaceOfState, ParentsAlive, HasParent, Alive
  <1>6. NoZombieMissed'
    BY InitSlot DEF TypeOK, PlaceOfState, NoZombieMissed
  <1> QED
    BY <1>1, <1>2, <1>3, <1>4, <1>5, <1>6

\* A wait that returns -1 preserves the invariant.
LEMMA WaitFailsStep == ASSUME IInv, NEW p \in Slots, WaitFails(p) PROVE IInv'
  <1> USE DEF WaitFails, Scanning, IInv, procs
  <1>1. TypeOK'
    BY InitSlot DEF TypeOK, States, Places, AwakePlaces
  <1>2. PlaceOfState'
    BY InitSlot DEF TypeOK, PlaceOfState, AwakePlaces
  <1>3. WaitLockHeld'
    BY InitSlot DEF TypeOK, WaitLockHeld
  <1>4. ForkOwnsChild'
    BY InitSlot DEF TypeOK, PlaceOfState, ForkOwnsChild, Forking, AwakePlaces
  <1>5. ParentsAlive'
    BY InitSlot DEF TypeOK, PlaceOfState, ParentsAlive, HasParent, Alive
  <1>6. NoZombieMissed'
    BY InitSlot DEF TypeOK, PlaceOfState, NoZombieMissed
  <1> QED
    BY <1>1, <1>2, <1>3, <1>4, <1>5, <1>6

\* A wait that finds no zombie preserves the invariant.
LEMMA WaitGoesToSleepStep == ASSUME IInv, NEW p \in Slots, WaitGoesToSleep(p) PROVE IInv'
  <1> USE DEF WaitGoesToSleep, Scanning, Zombies, Children, IInv, procs
  <1>1. TypeOK'
    BY InitSlot DEF TypeOK, States, Places, AwakePlaces
  <1>2. PlaceOfState'
    BY InitSlot DEF TypeOK, PlaceOfState, AwakePlaces
  <1>3. WaitLockHeld'
    BY InitSlot DEF TypeOK, WaitLockHeld
  <1>4. ForkOwnsChild'
    BY InitSlot DEF TypeOK, PlaceOfState, ForkOwnsChild, Forking, AwakePlaces
  <1>5. ParentsAlive'
    BY InitSlot DEF TypeOK, PlaceOfState, ParentsAlive, HasParent, Alive
  <1>6. NoZombieMissed'
    BY InitSlot DEF TypeOK, PlaceOfState, NoZombieMissed
  <1> QED
    BY <1>1, <1>2, <1>3, <1>4, <1>5, <1>6

\* Sleep preserves the invariant.
LEMMA SleepStep == ASSUME IInv, NEW p \in Slots, sleep(p) PROVE IInv'
  <1> USE DEF sleep, IInv, procs
  <1>1. TypeOK'
    BY InitSlot DEF TypeOK, States, Places, AwakePlaces
  <1>2. PlaceOfState'
    BY InitSlot DEF TypeOK, PlaceOfState, AwakePlaces
  <1>3. WaitLockHeld'
    BY InitSlot DEF TypeOK, WaitLockHeld
  <1>4. ForkOwnsChild'
    BY InitSlot DEF TypeOK, PlaceOfState, ForkOwnsChild, Forking, AwakePlaces
  <1>5. ParentsAlive'
    BY InitSlot DEF TypeOK, States, PlaceOfState, ParentsAlive, HasParent, Alive
  <1>6. NoZombieMissed'
    BY InitSlot DEF TypeOK, PlaceOfState, NoZombieMissed
  <1> QED
    BY <1>1, <1>2, <1>3, <1>4, <1>5, <1>6

\* Kill preserves the invariant.
LEMMA KillStep == ASSUME IInv, NEW k, kill(k) PROVE IInv'
  <1> USE DEF kill, IInv, procs
  <1>1. TypeOK'
    BY InitSlot DEF TypeOK, States, Places, AwakePlaces
  <1>2. PlaceOfState'
    BY InitSlot DEF TypeOK, PlaceOfState, AwakePlaces
  <1>3. WaitLockHeld'
    BY InitSlot DEF TypeOK, WaitLockHeld
  <1>4. ForkOwnsChild'
    BY InitSlot DEF TypeOK, PlaceOfState, ForkOwnsChild, Forking, AwakePlaces
  <1>5. ParentsAlive'
    BY InitSlot DEF TypeOK, PlaceOfState, ParentsAlive, HasParent, Alive
  <1>6. NoZombieMissed'
    BY InitSlot DEF TypeOK, PlaceOfState, NoZombieMissed
  <1> QED
    BY <1>1, <1>2, <1>3, <1>4, <1>5, <1>6

\* Every step preserves the invariant.
LEMMA StepIInv == IInv /\ [Next]_vars => IInv'
  <1> SUFFICES ASSUME IInv, [Next]_vars PROVE IInv'
    OBVIOUS
  <1>1. CASE UNCHANGED vars
    BY <1>1 DEF IInv, TypeOK, PlaceOfState, WaitLockHeld, ForkOwnsChild, Forking,
                ParentsAlive, HasParent, NoZombieMissed, vars, procs
  <1>2. ASSUME NEW p \in Slots, fork(p) PROVE IInv'
    BY <1>2, ForkFailsStep, ForkAllocStep, ForkParentStep, ForkRunnableStep DEF fork
  <1>3. ASSUME NEW p \in Slots, wait(p) PROVE IInv'
    BY <1>3, WaitReapsStep, WaitFailsStep, WaitGoesToSleepStep, SleepStep DEF wait
  <1> QED
    BY <1>1, <1>2, <1>3, WaitCalledStep, ExitStep, SwitchedOutStep, KillStep DEF Next

\* The invariant holds for ever after userinit.
THEOREM TableInvariant == Spec => []IInv
  <1>1. Init => IInv
    BY InitSlot DEF Init, IInv, TypeOK, States, Places, AwakePlaces, PlaceOfState, WaitLockHeld,
       ForkOwnsChild, Forking, ParentsAlive, Alive, NoZombieMissed
  <1> QED
    BY <1>1, StepIInv, PTL DEF Spec

\* The steps that take nobody's identity and give none.
Quiet ==
    /\ UNCHANGED <<pid, killed, nextpid, victims>>
    /\ \A q \in Slots : state'[q] = "UNUSED" <=> state[q] = "UNUSED"

\* What a step does to pids and to killed: nothing, freeproc, allocproc or kill.
LEMMA IdentitySteps ==
    ASSUME IInv, [Next]_vars
    PROVE  \/ Quiet
           \/ \E q \in Slots : freeproc(q) /\ nextpid' \in {nextpid, nextpid + 1} /\ UNCHANGED victims
           \/ \E q \in Slots : allocproc(q) /\ UNCHANGED <<killed, victims>>
           \/ \E k \in KillPids : kill(k)
  <1> USE DEF IInv, TypeOK
  <1>1. CASE UNCHANGED vars
    BY <1>1 DEF vars, procs, Quiet
  <1>2. ASSUME NEW p \in Slots, ForkParent(p) \/ SwitchedOut(p) \/ WaitCalled(p) \/ WaitFails(p) \/ WaitGoesToSleep(p)
        PROVE  Quiet
    BY <1>2 DEF ForkParent, SwitchedOut, WaitCalled, WaitFails, WaitGoesToSleep, procs, Quiet
  <1>3. ASSUME NEW p \in Slots, ForkRunnable(p) PROVE Quiet
    BY <1>3 DEF ForkRunnable, Quiet, ForkOwnsChild, Forking
  <1>4. ASSUME NEW p \in Slots, exit(p) PROVE Quiet
    BY <1>4 DEF exit, AfterWakeup, Woken, Quiet
  <1>5. ASSUME NEW p \in Slots, sleep(p) PROVE Quiet
    BY <1>5 DEF sleep, Quiet, PlaceOfState
  <1>6. ASSUME NEW p \in Slots, ForkFails(p) \/ WaitReaps(p)
        PROVE  \E q \in Slots : freeproc(q) /\ nextpid' \in {nextpid, nextpid + 1} /\ UNCHANGED victims
    BY <1>6 DEF ForkFails, WaitReaps, Zombies, Children
  <1>7. ASSUME NEW p \in Slots, ForkAlloc(p)
        PROVE  \E q \in Slots : allocproc(q) /\ UNCHANGED <<killed, victims>>
    BY <1>7 DEF ForkAlloc
  <1> QED
    BY <1>1, <1>2, <1>3, <1>4, <1>5, <1>6, <1>7 DEF Next, fork, wait

\* Pids stay unique: nextpid has not been given out before.
LEMMA PidsUniqueStep == IInv /\ PidsUnique /\ [Next]_vars => PidsUnique'
  <1> SUFFICES ASSUME IInv, PidsUnique, [Next]_vars PROVE PidsUnique'
    OBVIOUS
  <1> USE DEF TypeOK, PidsUnique
  <1>t. TypeOK
    BY DEF IInv
  <1>1. CASE Quiet
    BY <1>1, <1>t DEF Quiet
  <1>2. ASSUME NEW q \in Slots, freeproc(q), nextpid' \in {nextpid, nextpid + 1} PROVE PidsUnique'
    BY <1>2, <1>t DEF freeproc
  <1>3. ASSUME NEW q \in Slots, allocproc(q) PROVE PidsUnique'
    BY <1>3, <1>t DEF allocproc
  <1>4. ASSUME NEW k \in KillPids, kill(k) PROVE PidsUnique'
    BY <1>4, <1>t DEF kill
  <1> QED
    BY <1>1, <1>2, <1>3, <1>4, IdentitySteps

\* killed stays with the process kill was called for: freeproc clears it, and
\* an UNUSED slot is not killed, unless kill is called with its pid 0.
LEMMA KilledStep ==
    ASSUME 0 \notin KillPids PROVE IInv /\ KilledIsVictim /\ [Next]_vars => KilledIsVictim'
  <1> SUFFICES ASSUME IInv, KilledIsVictim, [Next]_vars PROVE KilledIsVictim'
    OBVIOUS
  <1> USE DEF TypeOK, KilledIsVictim
  <1>t. TypeOK
    BY DEF IInv
  <1>1. CASE Quiet
    BY <1>1, <1>t DEF Quiet
  <1>2. ASSUME NEW q \in Slots, freeproc(q), UNCHANGED victims PROVE KilledIsVictim'
    BY <1>2, <1>t DEF freeproc
  <1>3. ASSUME NEW q \in Slots, allocproc(q), UNCHANGED <<killed, victims>> PROVE KilledIsVictim'
    BY <1>3, <1>t DEF allocproc, FirstUnused
  <1>4. ASSUME NEW k \in KillPids, kill(k) PROVE KilledIsVictim'
    BY <1>4, <1>t DEF kill
  <1> QED
    BY <1>1, <1>2, <1>3, <1>4, IdentitySteps

\* No two processes have the same pid, so that kill and wait mean one process.
THEOREM PidUniqueness == Spec => []PidsUnique
  <1>1. Init => PidsUnique
    BY DEF Init, PidsUnique
  <1> QED
    BY <1>1, PidsUniqueStep, TableInvariant, PTL DEF Spec

\* The parent of a process is alive and the one it was given, although slots
\* are reused, and only those kill was called for are killed, provided that
\* kill is not called with 0, the pid of an UNUSED slot.
THEOREM RightProcessSafety == ASSUME 0 \notin KillPids PROVE Spec => []RightProcess
  <1>1. Init => KilledIsVictim
    BY DEF Init, KilledIsVictim
  <1>2. Spec => []KilledIsVictim
    BY <1>1, KilledStep, TableInvariant, PTL DEF Spec
  <1>3. IInv /\ KilledIsVictim => RightProcess
    BY DEF IInv, ParentsAlive, HasParent, KilledIsVictim, RightProcess
  <1> QED
    BY <1>2, <1>3, TableInvariant, PTL

\* No parent sleeps in wait() while it has a zombie: exit wakes it up before it
\* sets ZOMBIE, but wait_lock keeps wait() from looking in between.
THEOREM ZombieNoticedSafety == Spec => []ZombieNoticed
  <1>1. IInv => ZombieNoticed
    BY DEF IInv, ParentsAlive, HasParent, NoZombieMissed, ZombieNoticed, Alive
  <1> QED
    BY <1>1, TableInvariant, PTL

\* A zombie still on its kernel stack is not freed: wait() takes its p->lock.
THEOREM NoFreeOnStackSafety == Spec => []NoFreeOnStack
  <1>1. IInv => NoFreeOnStack
    BY DEF IInv, TypeOK, States, PlaceOfState, AwakePlaces, NoFreeOnStack
  <1> QED
    BY <1>1, TableInvariant, PTL

=============================================================================
