------------------------------ MODULE Zemaphore ------------------------------
(***************************************************************************)
(* The zemaphore of Pthread-Synchronization-Offline-04/zemaphore: a        *)
(* counter, a mutex and a condition variable.  Acquiring the mutex is a    *)
(* step, and so is what a thread does while it holds it: everything        *)
(* between pthread_mutex_lock and the pthread_mutex_unlock or              *)
(* pthread_cond_wait that gives it up touches only what the mutex guards.  *)
(* pthread_cond_wait may return without a signal (ZemSpuriousWakeup).      *)
(***************************************************************************)
EXTENDS Integers, Sequences, FiniteSets

CONSTANTS
    ZemThreads,  \* the threads that share the zemaphore
    InitValue,   \* the argument of zem_init
    Program,     \* Program[t]: the zem_down/zem_up calls t makes, in order
    NoThread     \* the mutex is free

ASSUME ZemThreadsAssumption == IsFiniteSet(ZemThreads) /\ NoThread \notin ZemThreads
ASSUME InitValueAssumption == InitValue \in Nat
ASSUME ProgramAssumption == Program \in [ZemThreads -> Seq({"down", "up"})]

VARIABLES
    value,       \* zem_t.value
    lock,        \* zem_t.lock: the thread that owns the mutex, or NoThread
    zpc,         \* where each thread is in its current call
    done         \* done[t]: how many calls of Program[t] have returned

zemVars == <<value, lock, zpc, done>>

\* "out": not inside a call; "holds": owns the mutex; "waits": blocked on the
\* condition variable; "woken": left it and needs the mutex back.
ZemTypeOK ==
    /\ value \in Nat
    /\ lock \in ZemThreads \cup {NoThread}
    /\ zpc \in [ZemThreads -> {"out", "holds", "waits", "woken"}]
    /\ done \in [ZemThreads -> Nat]

Pending(t, op) == done[t] < Len(Program[t]) /\ Program[t][done[t] + 1] = op

\* The threads blocked on zem_t.condition.
Waiters == {t \in ZemThreads : zpc[t] = "waits"}

-----------------------------------------------------------------------------
\* zem_init
ZemInit ==
    /\ value = InitValue
    /\ lock = NoThread
    /\ zpc = [t \in ZemThreads |-> "out"]
    /\ done = [t \in ZemThreads |-> 0]

\* pthread_mutex_lock at the head of zem_down and zem_up, or the mutex
\* reacquired inside pthread_cond_wait.
Acquire(t) ==
    /\ lock = NoThread
    /\ \/ zpc[t] = "out" /\ done[t] < Len(Program[t])
       \/ zpc[t] = "woken"
    /\ lock' = t
    /\ zpc' = [zpc EXCEPT ![t] = "holds"]
    /\ UNCHANGED <<value, done>>

Return(t) ==
    /\ lock' = NoThread
    /\ done' = [done EXCEPT ![t] = @ + 1]

\* An "if" where zem_down has a "while": a woken thread would not look again.
DownTakeUnchecked(t) ==
    /\ zpc[t] = "holds" /\ Pending(t, "down")
    /\ value' = value - 1
    /\ zpc' = [zpc EXCEPT ![t] = "out"]
    /\ Return(t)

\* zem_down with value > 0: decrement, unlock, return.
DownTake(t) ==
    /\ zpc[t] = "holds" /\ Pending(t, "down")
    /\ value > 0
    /\ value' = value - 1
    /\ zpc' = [zpc EXCEPT ![t] = "out"]
    /\ Return(t)

\* zem_down with value <= 0: pthread_cond_wait releases the mutex and blocks.
DownWait(t) ==
    /\ zpc[t] = "holds" /\ Pending(t, "down")
    /\ value <= 0
    /\ lock' = NoThread
    /\ zpc' = [zpc EXCEPT ![t] = "waits"]
    /\ UNCHANGED <<value, done>>

\* A zem_up that signals only when the counter leaves zero.
UpSignalAtZero(t) ==
    /\ zpc[t] = "holds" /\ Pending(t, "up")
    /\ value' = value + 1
    /\ \/ /\ (Waiters = {} \/ value > 0)
          /\ zpc' = [zpc EXCEPT ![t] = "out"]
       \/ /\ value = 0
          /\ \E w \in Waiters : zpc' = [zpc EXCEPT ![t] = "out", ![w] = "woken"]
    /\ Return(t)

\* zem_up: increment, pthread_cond_signal, unlock, return.
Up(t) ==
    /\ zpc[t] = "holds" /\ Pending(t, "up")
    /\ value' = value + 1
    /\ \/ /\ Waiters = {}
          /\ zpc' = [zpc EXCEPT ![t] = "out"]
       \/ \E w \in Waiters : zpc' = [zpc EXCEPT ![t] = "out", ![w] = "woken"]
    /\ Return(t)

\* POSIX lets pthread_cond_wait return although nobody signalled.
ZemSpuriousWakeup(t) ==
    /\ zpc[t] = "waits"
    /\ zpc' = [zpc EXCEPT ![t] = "woken"]
    /\ UNCHANGED <<value, lock, done>>

\* What a thread does with the mutex in hand.
Body(t) == DownTake(t) \/ DownWait(t) \/ Up(t)

\* Every call has returned, or is a zem_down that waits for a unit.
Quiescent ==
    \A t \in ZemThreads : \/ done[t] = Len(Program[t])
                          \/ zpc[t] = "waits" /\ value = 0

ZemNext ==
    \/ \E t \in ZemThreads : Acquire(t) \/ Body(t) \/ ZemSpuriousWakeup(t)
    \/ Quiescent /\ UNCHANGED zemVars

\* Each thread is scheduled while it can run.  The mutex is handed to a thread
\* that finds it free again and again; this matters only because spurious
\* wakeups could otherwise keep it busy for ever.
ZemFairness == \A t \in ZemThreads : SF_zemVars(Acquire(t)) /\ WF_zemVars(Body(t))

ZemSpec == ZemInit /\ [][ZemNext]_zemVars /\ ZemFairness

-----------------------------------------------------------------------------
\* Threads that will look at value again before they can block: the ones
\* woken, and the one inside zem_down with the mutex.
Awake == {t \in ZemThreads : \/ zpc[t] = "woken"
                             \/ zpc[t] = "holds" /\ Pending(t, "down")}

\* No wakeup is lost (zem_up signals once per unit it adds): while a thread
\* is blocked in pthread_cond_wait, every unit in the counter is matched by a
\* thread already on its way to take it.
NoLostSignal == Waiters # {} => value <= Cardinality(Awake)

\* The mutex admits one thread to the body of zem_down and zem_up, and its
\* owner is recorded where the code believes it is.
LockOwner == \A t \in ZemThreads : zpc[t] = "holds" <=> lock = t

\* The code implements the abstract counting semaphore, its progress
\* promise included.
Sem == INSTANCE Semaphore WITH Threads <- ZemThreads
ImplementsSemaphore == Sem!ASpec

=============================================================================
