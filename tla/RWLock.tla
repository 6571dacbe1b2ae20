------------------------------- MODULE RWLock -------------------------------
(***************************************************************************)
(* The part the two read-write locks of Offline-04 have in common: the     *)
(* fields of struct read_write_lock, the Reader and Writer threads of the  *)
(* tests, which take the lock once each, WriterLock, and the waiting loops *)
(* of both lock functions.  The mutex guards every field, so a call runs   *)
(* in one step up to the pthread_cond_wait or the unlock that ends it.     *)
(* RWLockReaderPref and RWLockWriterPref add what differs.                 *)
(***************************************************************************)
EXTENDS Integers, FiniteSets

CONSTANTS Readers, Writers    \* the threads of test-reader-pref.cpp and test-writer-pref.cpp

ASSUME RWThreadsAssumption ==
    IsFiniteSet(Readers) /\ IsFiniteSet(Writers) /\ Readers \cap Writers = {}

VARIABLES
    readers, writers, waiting_readers, waiting_writers,
    rwpc    \* where each thread is

rwVars == <<readers, writers, waiting_readers, waiting_writers, rwpc>>

LockThreads == Readers \cup Writers

\* "out": not called yet; "waits": blocked on read or write; "woken": left the
\* condition variable and needs the mutex back; "holds": has the lock.
LockTypeOK ==
    /\ readers \in Nat /\ writers \in Nat
    /\ waiting_readers \in Nat /\ waiting_writers \in Nat
    /\ rwpc \in [LockThreads -> {"out", "waits", "woken", "holds", "done"}]

At(kind, where) == {t \in kind : rwpc[t] \in where}

-----------------------------------------------------------------------------
\* The lock is a global, so its counters start at zero; main creates the
\* threads after it has initialised the lock.
InitalizeReadWriteLock ==
    /\ readers = 0 /\ writers = 0
    /\ waiting_readers = 0 /\ waiting_writers = 0
    /\ rwpc = [t \in LockThreads |-> "out"]

\* The counter of waiting threads when t has come back from pthread_cond_wait,
\* after which the code decrements it.
Rejoined(t, waiting) == IF rwpc[t] = "woken" THEN waiting - 1 ELSE waiting

\* ReaderLock, once the mutex is held: another round of the waiting loop, ...
ReaderWaits(t) ==
    /\ rwpc[t] \in {"out", "woken"}
    /\ waiting_readers' = Rejoined(t, waiting_readers) + 1
    /\ rwpc' = [rwpc EXCEPT ![t] = "waits"]
    /\ UNCHANGED <<readers, writers, waiting_writers>>

\* ... or past it.
ReaderEnters(t) ==
    /\ rwpc[t] \in {"out", "woken"}
    /\ waiting_readers' = Rejoined(t, waiting_readers)
    /\ readers' = readers + 1
    /\ rwpc' = [rwpc EXCEPT ![t] = "holds"]
    /\ UNCHANGED <<writers, waiting_writers>>

\* WriterLock, once the mutex is held: another round of the waiting loop, ...
WriterWaits(t) ==
    /\ rwpc[t] \in {"out", "woken"}
    /\ waiting_writers' = Rejoined(t, waiting_writers) + 1
    /\ rwpc' = [rwpc EXCEPT ![t] = "waits"]
    /\ UNCHANGED <<readers, writers, waiting_readers>>

\* ... or past it.
WriterEnters(t) ==
    /\ rwpc[t] \in {"out", "woken"}
    /\ waiting_writers' = Rejoined(t, waiting_writers)
    /\ writers' = writers + 1
    /\ rwpc' = [rwpc EXCEPT ![t] = "holds"]
    /\ UNCHANGED <<readers, waiting_readers>>

\* The ways an unlock by t leaves: nobody told, one waiting writer told by
\* pthread_cond_signal(&rw->write), all waiting readers told by
\* pthread_cond_broadcast(&rw->read).
Leave(t) == rwpc' = [rwpc EXCEPT ![t] = "done"]

LeaveSignalWrite(t) ==
    \/ At(Writers, {"waits"}) = {} /\ Leave(t)
    \/ \E w \in At(Writers, {"waits"}) :
          rwpc' = [rwpc EXCEPT ![t] = "done", ![w] = "woken"]

LeaveBroadcastRead(t) ==
    rwpc' = [u \in LockThreads |-> IF u = t THEN "done"
                                   ELSE IF u \in At(Readers, {"waits"}) THEN "woken"
                                   ELSE rwpc[u]]

\* POSIX lets pthread_cond_wait return although nobody signalled.
SpuriousReturn(t) ==
    /\ rwpc[t] = "waits"
    /\ rwpc' = [rwpc EXCEPT ![t] = "woken"]
    /\ UNCHANGED <<readers, writers, waiting_readers, waiting_writers>>

\* main has joined every thread.
AllReturned == \A t \in LockThreads : rwpc[t] = "done"

-----------------------------------------------------------------------------
\* A writer holds the lock alone ("No reader/ writer is allowed when a writer
\* holds lock", the last check of both tests).
MutualExclusion ==
    \A w \in At(Writers, {"holds"}), t \in At(LockThreads, {"holds"}) : t = w

\* The four counters of the struct count what the code thinks they count,
\* also while threads are between a wakeup and the mutex.
CountersAgree ==
    /\ readers = Cardinality(At(Readers, {"holds"}))
    /\ writers = Cardinality(At(Writers, {"holds"}))
    /\ waiting_readers = Cardinality(At(Readers, {"waits", "woken"}))
    /\ waiting_writers = Cardinality(At(Writers, {"waits", "woken"}))

\* No wakeup is lost: if nobody holds the lock, then either nobody is blocked
\* or somebody has been woken and is about to try it.
NoLostWakeup ==
    At(LockThreads, {"holds"}) = {} /\ At(LockThreads, {"waits"}) # {}
        => At(LockThreads, {"woken"}) # {}

\* The writer-preference lock only: no reader gets the lock while a writer
\* waits for it, be it blocked or between its wakeup and the mutex.
NoReaderOvertakes ==
    \A r \in Readers : rwpc[r] # "holds" /\ rwpc'[r] = "holds" =>
        At(Writers, {"waits", "woken"}) = {}

WriterPreference == [][NoReaderOvertakes]_rwVars

=============================================================================
