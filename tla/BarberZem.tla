------------------------------ MODULE BarberZem ------------------------------
(***************************************************************************)
(* barbershop_zemaphore.c: the same shop over three zemaphores.  mutex     *)
(* starts at 1 and guards waiting and customer_present; customer_z counts  *)
(* the customers that sat down, barber_z the customers called in.  A step  *)
(* is one zemaphore call with the code before the next one; the unlocked   *)
(* reads by which the barber goes home are steps of their own.             *)
(***************************************************************************)
EXTENDS Integers, FiniteSets

CONSTANTS Customers, chair_count

VARIABLES
    waiting, customer_present,
    zem,          \* the value of each zemaphore
    barber, customer,
    served

vars == <<waiting, customer_present, zem, barber, customer, served>>

Zemaphores == {"mutex", "barber_z", "customer_z"}

\* The operations of a zemaphore; its other parameters play no role here.
Z == INSTANCE Semaphore WITH
    Threads <- Customers, InitValue <- 0, Program <- [c \in Customers |-> <<>>],
    value <- 0, done <- [c \in Customers |-> 0]

In(where) == {c \in Customers : customer[c] \in where}

-----------------------------------------------------------------------------
\* main
Init ==
    /\ waiting = 0 /\ customer_present = Cardinality(Customers)
    /\ zem = [s \in Zemaphores |-> IF s = "mutex" THEN 1 ELSE 0]
    /\ barber = "down"
    /\ customer = [c \in Customers |-> "out"]
    /\ served = 0

\* The barber goes from one place to another over a zem_down or a zem_up.
BarberDown(from, s, to) ==
    /\ barber = from /\ Z!CanDown(zem, s)
    /\ zem' = Z!AfterDown(zem, s)
    /\ barber' = to

BarberUp(from, s, to) ==
    /\ barber = from
    /\ zem' = Z!AfterUp(zem, s)
    /\ barber' = to

Shop == <<waiting, customer_present>>

\* zem_down(&mutex) at the head of the outer loop and in the inner one.
TakeMutex == BarberDown("down", "mutex", "test") /\ UNCHANGED <<Shop, customer, served>>

\* while (waiting == 0 && customer_present > 0), and waiting-- once it is false.
Test ==
    /\ barber = "test"
    /\ barber' = IF waiting = 0 /\ customer_present > 0 THEN "wait" ELSE "serve"
    /\ waiting' = IF barber' = "serve" THEN waiting - 1 ELSE waiting
    /\ UNCHANGED <<customer_present, zem, customer, served>>

\* zem_up(&mutex); zem_down(&customer_z).
LetCustomersIn == BarberUp("wait", "mutex", "blocked") /\ UNCHANGED <<Shop, customer, served>>

AwaitCustomer == BarberDown("blocked", "customer_z", "down") /\ UNCHANGED <<Shop, customer, served>>

\* zem_up(&barber_z), serve, zem_up(&mutex).
CallIn ==
    /\ BarberUp("serve", "barber_z", "up")
    /\ served' = served + 1
    /\ UNCHANGED <<Shop, customer>>

GiveMutex == BarberUp("up", "mutex", "check") /\ UNCHANGED <<Shop, customer, served>>

\* customer_present <= 0 && waiting == 0, unlocked.
CheckPresent ==
    /\ barber = "check"
    /\ barber' = IF customer_present <= 0 THEN "check2" ELSE "down"
    /\ UNCHANGED <<Shop, zem, customer, served>>

CheckWaiting ==
    /\ barber = "check2"
    /\ barber' = IF waiting = 0 THEN "home" ELSE "down"
    /\ UNCHANGED <<Shop, zem, customer, served>>

barber_thread ==
    \/ TakeMutex \/ Test \/ LetCustomersIn \/ AwaitCustomer
    \/ CallIn \/ GiveMutex \/ CheckPresent \/ CheckWaiting

\* zem_down(&mutex) and the code up to the next zemaphore call.
Enter(c) ==
    /\ customer[c] = "out" /\ Z!CanDown(zem, "mutex")
    /\ zem' = Z!AfterDown(zem, "mutex")
    /\ customer_present' = customer_present - 1
    /\ IF waiting = chair_count
         THEN customer' = [customer EXCEPT ![c] = "full"] /\ UNCHANGED waiting
         ELSE customer' = [customer EXCEPT ![c] = "sat"] /\ waiting' = waiting + 1
    /\ UNCHANGED <<barber, served>>

CustomerUp(c, from, s, to) ==
    /\ customer[c] = from
    /\ zem' = Z!AfterUp(zem, s)
    /\ customer' = [customer EXCEPT ![c] = to]
    /\ UNCHANGED <<Shop, barber, served>>

Leave(c) == CustomerUp(c, "full", "mutex", "left")

\* zem_up(&customer_z); zem_up(&mutex); zem_down(&barber_z).
Tell(c) == CustomerUp(c, "sat", "customer_z", "told")

Release(c) == CustomerUp(c, "told", "mutex", "waits")

GetHaircut(c) ==
    /\ customer[c] = "waits" /\ Z!CanDown(zem, "barber_z")
    /\ zem' = Z!AfterDown(zem, "barber_z")
    /\ customer' = [customer EXCEPT ![c] = "cut"]
    /\ UNCHANGED <<Shop, barber, served>>

customer_thread(c) == Enter(c) \/ Leave(c) \/ Tell(c) \/ Release(c) \/ GetHaircut(c)

AllJoined == barber = "home" /\ In({"cut", "left"}) = Customers

Next ==
    \/ barber_thread
    \/ \E c \in Customers : customer_thread(c)
    \/ AllJoined /\ UNCHANGED vars

-----------------------------------------------------------------------------
\* The customers with a haircut and the calls in barber_z nobody has answered
\* yet are the customers served; with the calls to come, they are the
\* customers that found a chair.
HaircutsServed ==
    /\ served = zem["barber_z"] + Cardinality(In({"cut"}))
    /\ served + waiting + (IF barber = "serve" THEN 1 ELSE 0)
         = Cardinality(In({"sat", "told", "waits", "cut"}))

\* The barber does not go home on a customer in a chair.
NobodyLeftBehind ==
    barber = "home" =>
        zem["barber_z"] = Cardinality(In({"sat", "told", "waits"})) /\ In({"out"}) = {}

=============================================================================
