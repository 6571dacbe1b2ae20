-------------------------- MODULE RWLockReaderPref --------------------------
\* rwlock-reader-pref.cpp: readers are kept out by a writer that holds the
\* lock, not by one that waits for it.
EXTENDS RWLock

ReaderLock(t) == IF writers > 0 THEN ReaderWaits(t) ELSE ReaderEnters(t)

\* A reader that leaves without telling a waiting writer.
ReaderUnlockSilent(t) ==
    /\ rwpc[t] = "holds"
    /\ readers' = readers - 1
    /\ Leave(t)
    /\ UNCHANGED <<writers, waiting_readers, waiting_writers>>

ReaderUnlock(t) ==
    /\ rwpc[t] = "holds"
    /\ readers' = readers - 1
    /\ IF readers' = 0 THEN LeaveSignalWrite(t) ELSE Leave(t)
    /\ UNCHANGED <<writers, waiting_readers, waiting_writers>>

\* A writer that looks only for other writers.
WriterLockIgnoringReaders(t) == IF writers > 0 THEN WriterWaits(t) ELSE WriterEnters(t)

WriterLock(t) ==
    IF readers > 0 \/ writers > 0 THEN WriterWaits(t) ELSE WriterEnters(t)

\* "prioritize readers"
WriterUnlock(t) ==
    /\ rwpc[t] = "holds"
    /\ writers' = writers - 1
    /\ IF waiting_readers > 0 THEN LeaveBroadcastRead(t)
       ELSE IF waiting_writers > 0 THEN LeaveSignalWrite(t) ELSE Leave(t)
    /\ UNCHANGED <<readers, waiting_readers, waiting_writers>>

Reader(t) == ReaderLock(t) \/ ReaderUnlock(t)
Writer(t) == WriterLock(t) \/ WriterUnlock(t)

Next ==
    \/ \E t \in Readers : Reader(t)
    \/ \E t \in Writers : Writer(t)
    \/ \E t \in LockThreads : SpuriousReturn(t)
    \/ AllReturned /\ UNCHANGED rwVars

\* Every runnable thread is scheduled, gets the mutex, and leaves the lock.
Fairness ==
    /\ \A t \in Readers : WF_rwVars(Reader(t))
    /\ \A t \in Writers : WF_rwVars(Writer(t))

Spec == InitalizeReadWriteLock /\ [][Next]_rwVars /\ Fairness

=============================================================================
