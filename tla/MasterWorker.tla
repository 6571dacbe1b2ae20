---------------------------- MODULE MasterWorker ----------------------------
(***************************************************************************)
(* master-worker.c: masters put the items 0 .. total_items-1 into a        *)
(* bounded LIFO buffer, workers take them out.  One mutex guards all of    *)
(* the shared state, so what a thread does from pthread_mutex_lock to the  *)
(* unlock or wait that ends it is one step.  The loop conditions of both   *)
(* thread functions are read WITHOUT the mutex; each such read is a step   *)
(* of its own, and its result may be stale by the time the mutex is held.  *)
(***************************************************************************)
EXTENDS Integers

CONSTANTS
    Masters, Workers,   \* the threads
    total_items,
    max_buf_size

ASSUME ThreadsAssumption ==
    Masters # {} /\ Workers # {} /\ Masters \cap Workers = {}
ASSUME SizeAssumption == total_items \in Nat /\ max_buf_size \in Nat \ {0}

VARIABLES
    item_to_produce, item_to_consume, curr_buf_size,
    buffer,      \* the array; entries from curr_buf_size on are leftovers
    pc,          \* where each thread is
    consumed     \* consumed[i]: how often print_consumed was given item i

vars == <<item_to_produce, item_to_consume, curr_buf_size, buffer, pc, consumed>>

Threads == Masters \cup Workers
Items == 0 .. total_items - 1

\* "test": about to read the loop condition; "lock": needs the mutex, on the
\* way in or on the way back from pthread_cond_wait; "wait": blocked there, a
\* master on empty and a worker on fill; "done": the thread has returned.
TypeOK ==
    /\ item_to_produce \in 0 .. total_items
    /\ item_to_consume \in 0 .. total_items
    /\ curr_buf_size \in 0 .. max_buf_size
    /\ buffer \in [0 .. max_buf_size - 1 -> Items \cup {-1}]
    /\ pc \in [Threads -> {"test", "lock", "wait", "done"}]
    /\ consumed \in [Items -> Nat]

Goto(t, where) == pc' = [pc EXCEPT ![t] = where]

\* A broadcast left out.
NoBroadcast(t, kind) == Goto(t, "test")

\* pthread_cond_broadcast to the threads of one kind, as t moves on.
Broadcast(t, kind) ==
    pc' = [u \in Threads |-> IF u = t THEN "test"
                             ELSE IF u \in kind /\ pc[u] = "wait" THEN "lock"
                             ELSE pc[u]]

\* The conditions under which a master leaves its waiting loop and goes on.
MayProduce == curr_buf_size < max_buf_size /\ item_to_produce # total_items

MayConsume == curr_buf_size # 0 /\ item_to_consume # total_items

\* Taking the oldest item but shrinking the buffer from its other end.
Bottom == 0

\* The slot that curr_buf_size-- exposes.
Top == curr_buf_size - 1

-----------------------------------------------------------------------------
\* main: the counters are zero; -1 stands for what malloc left in the buffer.
Init ==
    /\ item_to_produce = 0 /\ item_to_consume = 0 /\ curr_buf_size = 0
    /\ buffer = [i \in 0 .. max_buf_size - 1 |-> -1]
    /\ pc = [t \in Threads |-> "test"]
    /\ consumed = [i \in Items |-> 0]

\* while(item_to_produce < total_items), and the workers' counterpart.
LoopTest(t, counter) ==
    /\ pc[t] = "test"
    /\ Goto(t, IF counter < total_items THEN "lock" ELSE "done")
    /\ UNCHANGED <<item_to_produce, item_to_consume, curr_buf_size, buffer, consumed>>

\* The inner while: pthread_cond_wait(&empty, &mutex).
MasterWait(m) ==
    /\ pc[m] = "lock"
    /\ curr_buf_size >= max_buf_size /\ item_to_produce < total_items
    /\ Goto(m, "wait")
    /\ UNCHANGED <<item_to_produce, item_to_consume, curr_buf_size, buffer, consumed>>

\* The test under the mutex that repairs a stale loop condition.
MasterStop(m) ==
    /\ pc[m] = "lock"
    /\ item_to_produce = total_items
    /\ Goto(m, "done")
    /\ UNCHANGED <<item_to_produce, item_to_consume, curr_buf_size, buffer, consumed>>

\* buffer[curr_buf_size++] = item_to_produce++, then broadcast fill.
Produce(m) ==
    /\ pc[m] = "lock"
    /\ MayProduce
    /\ buffer' = [buffer EXCEPT ![curr_buf_size] = item_to_produce]
    /\ curr_buf_size' = curr_buf_size + 1
    /\ item_to_produce' = item_to_produce + 1
    /\ Broadcast(m, Workers)
    /\ UNCHANGED <<item_to_consume, consumed>>

WorkerWait(w) ==
    /\ pc[w] = "lock"
    /\ curr_buf_size = 0 /\ item_to_consume < total_items
    /\ Goto(w, "wait")
    /\ UNCHANGED <<item_to_produce, item_to_consume, curr_buf_size, buffer, consumed>>

WorkerStop(w) ==
    /\ pc[w] = "lock"
    /\ item_to_consume = total_items
    /\ Goto(w, "done")
    /\ UNCHANGED <<item_to_produce, item_to_consume, curr_buf_size, buffer, consumed>>

\* print_consumed(buffer[--curr_buf_size]), item_to_consume++, broadcast empty.
Consume(w) ==
    /\ pc[w] = "lock"
    /\ MayConsume
    /\ curr_buf_size' = curr_buf_size - 1
    /\ consumed' = [consumed EXCEPT ![buffer[Top]] = @ + 1]
    /\ item_to_consume' = item_to_consume + 1
    /\ Broadcast(w, Masters)
    /\ UNCHANGED <<item_to_produce, buffer>>

\* POSIX lets pthread_cond_wait return although nobody signalled.
SpuriousWakeup(t) ==
    /\ pc[t] = "wait"
    /\ Goto(t, "lock")
    /\ UNCHANGED <<item_to_produce, item_to_consume, curr_buf_size, buffer, consumed>>

generate_requests_loop(m) ==
    LoopTest(m, item_to_produce) \/ MasterWait(m) \/ MasterStop(m) \/ Produce(m)

consume_requests_loop(w) ==
    LoopTest(w, item_to_consume) \/ WorkerWait(w) \/ WorkerStop(w) \/ Consume(w)

\* main has joined every thread.
AllJoined == \A t \in Threads : pc[t] = "done"

Next ==
    \/ \E m \in Masters : generate_requests_loop(m)
    \/ \E w \in Workers : consume_requests_loop(w)
    \/ \E t \in Threads : SpuriousWakeup(t)
    \/ AllJoined /\ UNCHANGED vars

\* Every runnable thread is scheduled and the mutex is not withheld from it.
Fairness ==
    /\ \A m \in Masters : WF_vars(generate_requests_loop(m))
    /\ \A w \in Workers : WF_vars(consume_requests_loop(w))

Spec == Init /\ [][Next]_vars /\ Fairness

-----------------------------------------------------------------------------
InBuffer(i) == \E k \in 0 .. curr_buf_size - 1 : buffer[k] = i

\* No item is lost or handed out twice: an item below item_to_produce is in
\* the buffer or has been consumed once, never both, and no slot in use
\* repeats another (check.awk demands cons[i] == 1 for each item).
ExactlyOnce ==
    /\ \A i \in Items :
         consumed[i] = IF i < item_to_produce /\ ~InBuffer(i) THEN 1 ELSE 0
    /\ \A j, k \in 0 .. curr_buf_size - 1 : buffer[j] = buffer[k] => j = k

\* A blocked thread has a reason to be: a master waits on empty only while the
\* buffer is full, a worker on fill only while it is empty and some item is
\* still to be produced (whose producer will broadcast fill).
WaitersJustified ==
    /\ \A m \in Masters : pc[m] = "wait" =>
          curr_buf_size = max_buf_size /\ item_to_produce < total_items
    /\ \A w \in Workers : pc[w] = "wait" =>
          curr_buf_size = 0 /\ item_to_produce < total_items

\* No deadlock: unless every thread has returned, one of them can run.
SomeoneRuns == AllJoined \/ \E t \in Threads : pc[t] \in {"test", "lock"}

=============================================================================
