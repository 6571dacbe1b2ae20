-------------------------- MODULE RWLockWriterPref --------------------------
\* rwlock-writer-pref.cpp: a writer that waits keeps new readers out.
EXTENDS RWLock

\* A reader that looks only for writers that hold the lock.
ReaderLockIgnoringWaiting(t) == IF writers > 0 THEN ReaderWaits(t) ELSE ReaderEnters(t)

ReaderLock(t) ==
    IF writers > 0 \/ waiting_writers > 0 THEN ReaderWaits(t) ELSE ReaderEnters(t)

ReaderUnlock(t) ==
    /\ rwpc[t] = "holds"
    /\ readers' = readers - 1
    /\ IF readers' = 0 /\ waiting_writers > 0 THEN LeaveSignalWrite(t)
       ELSE IF waiting_readers > 0 THEN LeaveBroadcastRead(t) ELSE Leave(t)
    /\ UNCHANGED <<writers, waiting_readers, waiting_writers>>

WriterLock(t) ==
    IF readers > 0 \/ writers > 0 THEN WriterWaits(t) ELSE WriterEnters(t)

\* An unlock that hands over to the next writer only.
WriterUnlockToWriter(t) ==
    /\ rwpc[t] = "holds"
    /\ writers' = writers - 1
    /\ IF waiting_writers > 0 THEN LeaveSignalWrite(t) ELSE Leave(t)
    /\ UNCHANGED <<readers, waiting_readers, waiting_writers>>

\* "prioritize writers"
WriterUnlock(t) ==
    /\ rwpc[t] = "holds"
    /\ writers' = writers - 1
    /\ IF waiting_writers > 0 THEN LeaveSignalWrite(t)
       ELSE IF waiting_readers > 0 THEN LeaveBroadcastRead(t) ELSE Leave(t)
    /\ UNCHANGED <<readers, waiting_readers, waiting_writers>>

Reader(t) == ReaderLock(t) \/ ReaderUnlock(t)
Writer(t) == WriterLock(t) \/ WriterUnlock(t)

Next ==
    \/ \E t \in Readers : Reader(t)
    \/ \E t \in Writers : Writer(t)
    \/ \E t \in LockThreads : SpuriousReturn(t)
    \/ AllReturned /\ UNCHANGED rwVars

\* Every runnable thread is scheduled, gets the mutex, and leaves the lock.
Fairness ==
    /\ \A t \in Readers : WF_rwVars(Reader(t))
    /\ \A t \in Writers : WF_rwVars(Writer(t))

Spec == InitalizeReadWriteLock /\ [][Next]_rwVars /\ Fairness

=============================================================================
