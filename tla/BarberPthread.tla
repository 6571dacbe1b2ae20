---------------------------- MODULE BarberPthread ----------------------------
(***************************************************************************)
(* barbershop_pthread.c: one barber, chair_count chairs, and a customer    *)
(* thread per customer.  customer_lock guards waiting and customer_coming, *)
(* so a critical section is one step, except that the barber decides to go *)
(* home on two reads made WITHOUT the lock, each a step of its own, in     *)
(* program order.                                                          *)
(***************************************************************************)
EXTENDS Integers, FiniteSets

CONSTANTS
    Customers,        \* the customer threads; customer_count is their number
    chair_count

VARIABLES
    spurious,     \* whether pthread_cond_wait may return unsignalled
    waiting, customer_coming,
    barber,       \* where the barber is
    customer,     \* where each customer is
    served        \* how many customers the barber says it served

vars == <<spurious, waiting, customer_coming, barber, customer, served>>

In(where) == {c \in Customers : customer[c] \in where}

\* barber: "lock": needs the mutex, first or back from pthread_cond_wait;
\* "waits" on customer_ready; "check", "check2": before the first and second
\* unlocked read; "home".  customer: "out"; "waits" on barber_ready;
\* "woken": needs the mutex back; "cut": got haircut; "left": no chair.

-----------------------------------------------------------------------------
\* main
Init ==
    /\ spurious \in BOOLEAN
    /\ waiting = 0 /\ customer_coming = Cardinality(Customers)
    /\ barber = "lock"
    /\ customer = [c \in Customers |-> "out"]
    /\ served = 0

BarberWaits ==
    /\ barber = "lock"
    /\ waiting = 0 /\ customer_coming > 0
    /\ barber' = "waits"
    /\ UNCHANGED <<waiting, customer_coming, customer, served>>

\* A barber that forgets to call the customer in.
ServeSilent ==
    /\ barber = "lock"
    /\ ~(waiting = 0 /\ customer_coming > 0)
    /\ waiting' = waiting - 1
    /\ served' = served + 1
    /\ barber' = "check"
    /\ UNCHANGED <<customer_coming, customer>>

\* waiting--, pthread_cond_signal(&barber_ready), serve, unlock, sleep.
Serve ==
    /\ barber = "lock"
    /\ ~(waiting = 0 /\ customer_coming > 0)
    /\ waiting' = waiting - 1
    /\ \/ In({"waits"}) = {} /\ UNCHANGED customer
       \/ \E c \in In({"waits"}) : customer' = [customer EXCEPT ![c] = "woken"]
    /\ served' = served + 1
    /\ barber' = "check"
    /\ UNCHANGED customer_coming

\* customer_coming <= 0 && ...
CheckComing ==
    /\ barber = "check"
    /\ barber' = IF customer_coming <= 0 THEN "check2" ELSE "lock"
    /\ UNCHANGED <<waiting, customer_coming, customer, served>>

\* Going home as soon as nobody is still to come.
CheckWaitingSkipped ==
    /\ barber = "check2"
    /\ barber' = "home"
    /\ UNCHANGED <<waiting, customer_coming, customer, served>>

\* ... waiting == 0
CheckWaiting ==
    /\ barber = "check2"
    /\ barber' = IF waiting = 0 THEN "home" ELSE "lock"
    /\ UNCHANGED <<waiting, customer_coming, customer, served>>

barber_thread == BarberWaits \/ Serve \/ CheckComing \/ CheckWaiting

\* All chairs are occupied.
Leaves(c) ==
    /\ customer[c] = "out"
    /\ waiting = chair_count
    /\ customer_coming' = customer_coming - 1
    /\ customer' = [customer EXCEPT ![c] = "left"]
    /\ UNCHANGED <<waiting, barber, served>>

\* Takes a chair, signals customer_ready, and blocks on barber_ready.
Sits(c) ==
    /\ customer[c] = "out"
    /\ waiting # chair_count
    /\ waiting' = waiting + 1
    /\ customer_coming' = customer_coming - 1
    /\ customer' = [customer EXCEPT ![c] = "waits"]
    /\ barber' = IF barber = "waits" THEN "lock" ELSE barber
    /\ UNCHANGED served

\* pthread_cond_wait has returned, which is not checked: "got the haircut".
GetsHaircut(c) ==
    /\ customer[c] = "woken"
    /\ customer' = [customer EXCEPT ![c] = "cut"]
    /\ UNCHANGED <<waiting, customer_coming, barber, served>>

customer_thread(c) == Leaves(c) \/ Sits(c) \/ GetsHaircut(c)

\* pthread_cond_wait returns although nobody signalled.
SpuriousBarber ==
    /\ spurious /\ barber = "waits"
    /\ barber' = "lock"
    /\ UNCHANGED <<waiting, customer_coming, customer, served>>

SpuriousCustomer(c) ==
    /\ spurious /\ customer[c] = "waits"
    /\ customer' = [customer EXCEPT ![c] = "woken"]
    /\ UNCHANGED <<waiting, customer_coming, barber, served>>

\* main has joined every thread.
AllJoined == barber = "home" /\ In({"cut", "left"}) = Customers

Next ==
    /\ \/ barber_thread \/ SpuriousBarber
       \/ \E c \in Customers : customer_thread(c) \/ SpuriousCustomer(c)
       \/ AllJoined /\ UNCHANGED vars
    /\ UNCHANGED spurious

-----------------------------------------------------------------------------
\* A haircut takes a barber: everybody who sat down is served once, now or
\* later, and is called in by then; and if pthread_cond_wait returns only when
\* signalled, the customers who were called in or got their haircut are just
\* those the barber has served, and the occupied chairs those blocked on
\* barber_ready.  A customer does not test why the wait returned, and after a
\* spurious return counts a haircut that is still to come.
HaircutsServed ==
    LET gone == Cardinality(In({"woken", "cut"})) IN
    /\ served + waiting = Cardinality(In({"waits", "woken", "cut"}))
    /\ served <= gone
    /\ spurious \/ served = gone

\* The barber does not go home on a customer in a chair, although it decides
\* that on two unlocked reads.
NobodyLeftBehind == barber = "home" => In({"out", "waits"}) = {}

=============================================================================
