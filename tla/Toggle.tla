------------------------------- MODULE Toggle -------------------------------
(***************************************************************************)
(* test-toggle.c, and online.c with 26 threads that never stop: a ring of  *)
(* threads that print in turn, thread i waiting on zemaphore i and then    *)
(* raising the next one.  main initialises zemaphore i and creates thread  *)
(* i in the same loop, so a thread may run before the later zemaphores are *)
(* initialised.  They are globals, hence zeroed: a zem_up on one of them   *)
(* counts, until zem_init sets the value again.                            *)
(***************************************************************************)
EXTENDS Integers

CONSTANTS NUM_THREADS, NUM_ITER

Ring == 0 .. NUM_THREADS - 1

VARIABLES
    zemaphores,   \* the value of each zemaphore
    i,            \* main's loop variable
    pc,           \* "none": not created; "down", "up": the call it makes next
    prints        \* how often each thread has printed

vars == <<zemaphores, i, pc, prints>>

Z == INSTANCE Semaphore WITH
    Threads <- Ring, InitValue <- 0, Program <- [t \in Ring |-> <<>>],
    value <- 0, done <- [t \in Ring |-> 0]

-----------------------------------------------------------------------------
Init ==
    /\ zemaphores = [t \in Ring |-> 0]
    /\ i = 0
    /\ pc = [t \in Ring |-> "none"]
    /\ prints = [t \in Ring |-> 0]

\* The second argument of zem_init in main.
InitialValue(t) == IF t = 0 THEN 1 ELSE 0

\* main's loop body: zem_init and pthread_create.
InitAndCreate ==
    /\ i < NUM_THREADS
    /\ zemaphores' = [zemaphores EXCEPT ![i] = InitialValue(i)]
    /\ pc' = [pc EXCEPT ![i] = IF NUM_ITER = 0 THEN "done" ELSE "down"]
    /\ i' = i + 1
    /\ UNCHANGED prints

\* zem_down(&zemaphores[thread_id]) and the printf.
DownAndPrint(t) ==
    /\ pc[t] = "down" /\ Z!CanDown(zemaphores, t)
    /\ zemaphores' = Z!AfterDown(zemaphores, t)
    /\ prints' = [prints EXCEPT ![t] = @ + 1]
    /\ pc' = [pc EXCEPT ![t] = "up"]
    /\ UNCHANGED i

NextOf(t) == (t + 1) % NUM_THREADS

\* zem_up(&zemaphores[(thread_id + 1) % NUM_THREADS]).
UpNext(t) ==
    /\ pc[t] = "up"
    /\ zemaphores' = Z!AfterUp(zemaphores, NextOf(t))
    /\ pc' = [pc EXCEPT ![t] = IF prints[t] = NUM_ITER THEN "done" ELSE "down"]
    /\ UNCHANGED <<i, prints>>

justprint(t) == DownAndPrint(t) \/ UpNext(t)

Next ==
    \/ InitAndCreate
    \/ \E t \in Ring : justprint(t)
    \/ (\A t \in Ring : pc[t] = "done") /\ UNCHANGED vars

Spec == Init /\ [][Next]_vars

-----------------------------------------------------------------------------
\* A thread that has printed is "allowing the next thread to print": while
\* threads are still to finish, the turn is somewhere.
TurnNotLost ==
    (\E t \in Ring : pc[t] # "done") /\ i > 0 =>
        \E t \in Ring : zemaphores[t] = 1 \/ pc[t] = "up"

=============================================================================
