------------------------------ MODULE Semaphore ------------------------------
(***************************************************************************)
(* What a zemaphore (zemaphore.c) promises its callers: a counter that     *)
(* zem_up increments and zem_down decrements, each in one step, with       *)
(* zem_down possible only while the counter is positive.  Zemaphore.tla    *)
(* shows that the code, a mutex and a condition variable, implements this; *)
(* the clients of the zemaphore are modelled over CanDown, AfterDown and   *)
(* AfterUp.                                                                *)
(***************************************************************************)
EXTENDS Integers, Sequences

CONSTANTS
    Threads,     \* the threads that share the zemaphore
    InitValue,   \* the argument of zem_init
    Program      \* Program[t]: the zem_down/zem_up calls t makes, in order

VARIABLES
    value,       \* zem_t.value
    done         \* done[t]: how many calls of Program[t] have returned

avars == <<value, done>>

-----------------------------------------------------------------------------
\* The counter seen by a client that holds several zemaphores: v[s] is the
\* value of zemaphore s.
CanDown(v, s) == v[s] > 0

AfterDown(v, s) == [v EXCEPT ![s] = @ - 1]

AfterUp(v, s) == [v EXCEPT ![s] = @ + 1]

-----------------------------------------------------------------------------
Pending(t, op) == done[t] < Len(Program[t]) /\ Program[t][done[t] + 1] = op

AInit == value = InitValue /\ done = [t \in Threads |-> 0]

Down(t) ==
    /\ Pending(t, "down")
    /\ value > 0
    /\ value' = value - 1
    /\ done' = [done EXCEPT ![t] = @ + 1]

Up(t) ==
    /\ Pending(t, "up")
    /\ value' = value + 1
    /\ done' = [done EXCEPT ![t] = @ + 1]

ANext == \E t \in Threads : Down(t) \/ Up(t)

\* A call that can go through is not held up for ever by calls that cannot.
ASpec == AInit /\ [][ANext]_avars /\ WF_avars(ANext)

=============================================================================
