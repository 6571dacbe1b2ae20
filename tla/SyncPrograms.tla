---------------------------- MODULE SyncPrograms ----------------------------
(***************************************************************************)
(* Five of the programs of Offline-04, one of them chosen at the start:    *)
(* master-worker.c; test-reader-pref.cpp and test-writer-pref.cpp, which   *)
(* are the same program over one read-write lock or the other; and the two *)
(* barber shops, which have the same promises to keep.                     *)
(***************************************************************************)
EXTENDS MasterWorker, RWLock

CONSTANTS Customers, chair_count

ASSUME ShopAssumption ==
    IsFiniteSet(Customers) /\ Customers # {} /\ chair_count \in Nat \ {0}

VARIABLES
    prog,         \* "masters", "readers", "writers", "pthread" or "zem"
    waiting,
    coming,       \* customer_coming of the one shop, customer_present of the other
    spurious, zem, barber, customer, served

shopVars == <<waiting, coming, spurious, zem, barber, customer, served>>
Vars == <<prog, vars, rwVars, shopVars>>

RP == INSTANCE RWLockReaderPref
WP == INSTANCE RWLockWriterPref
P == INSTANCE BarberPthread WITH customer_coming <- coming
Z == INSTANCE BarberZem WITH customer_present <- coming

\* The state of the shop a program does not have; buffer and lock stay as
\* they are initialised.
Absent == <<>>
NoShop ==
    /\ waiting = Absent /\ coming = Absent /\ barber = Absent /\ customer = Absent
    /\ served = Absent /\ spurious = Absent /\ zem = Absent

Start ==
    /\ Init /\ InitalizeReadWriteLock
    /\ \/ prog \in {"masters", "readers", "writers"} /\ NoShop
       \/ prog = "pthread" /\ P!Init /\ zem = Absent
       \/ prog = "zem" /\ Z!Init /\ spurious = Absent

MasterWork(A) == prog = "masters" /\ A /\ UNCHANGED <<prog, rwVars, shopVars>>
ReaderPref(A) == prog = "readers" /\ A /\ UNCHANGED <<prog, vars, shopVars>>
WriterPref(A) == prog = "writers" /\ A /\ UNCHANGED <<prog, vars, shopVars>>
Pthread(A) == prog = "pthread" /\ A /\ UNCHANGED <<prog, vars, rwVars, zem>>
Zem(A) == prog = "zem" /\ A /\ UNCHANGED <<prog, vars, rwVars, spurious>>

Step ==
    \/ MasterWork(Next) \/ ReaderPref(RP!Next) \/ WriterPref(WP!Next)
    \/ Pthread(P!Next) \/ Zem(Z!Next)

\* Every runnable thread is scheduled and gets the mutex.  Where it needs a
\* zemaphore that others hand around, one that can go through again and again
\* eventually does.
FairPrograms ==
    /\ Start /\ [][Step]_Vars
    /\ \A m \in Masters : WF_Vars(MasterWork(generate_requests_loop(m)))
    /\ \A w \in Workers : WF_Vars(MasterWork(consume_requests_loop(w)))
    /\ \A t \in Readers : WF_Vars(ReaderPref(RP!Reader(t)) \/ WriterPref(WP!Reader(t)))
    /\ \A t \in Writers : WF_Vars(ReaderPref(RP!Writer(t)) \/ WriterPref(WP!Writer(t)))
    /\ WF_Vars(Pthread(P!barber_thread /\ UNCHANGED spurious))
    /\ SF_Vars(Zem(Z!barber_thread))
    /\ \A c \in Customers :
         /\ WF_Vars(Pthread(P!customer_thread(c) /\ UNCHANGED spurious))
         /\ SF_Vars(Zem(Z!customer_thread(c)))

-----------------------------------------------------------------------------
\* With the writer-preference lock no reader gets the lock while a writer
\* waits for it, be it blocked or between its wakeup and the mutex: the
\* waiting loop of ReaderLock in rwlock-writer-pref.cpp.
PrefersWriters == [][prog = "writers" => NoReaderOvertakes]_Vars

\* What a shop says of itself.
OfShop(p, z) == (prog = "pthread" => p) /\ (prog = "zem" => z)

\* A haircut takes a barber: in both shops every customer called in or done is
\* one the barber has served, and the others with a chair are in waiting.
HaircutsServed == OfShop(P!HaircutsServed, Z!HaircutsServed)

\* The barber does not go home on a customer in a chair, although it decides
\* that on two reads made without the lock.
NobodyLeftBehind == OfShop(P!NobodyLeftBehind, Z!NobodyLeftBehind)

\* All joins of main return: every item has been consumed, every thread has
\* had the lock, or its haircut, and the barber goes home.
ProgramsEnd ==
    <>(/\ prog = "masters" => AllJoined /\ \A k \in Items : consumed[k] = 1
       /\ prog \in {"readers", "writers"} => AllReturned
       /\ OfShop(P!AllJoined, Z!AllJoined))

=============================================================================
