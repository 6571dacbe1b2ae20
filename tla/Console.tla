------------------------------ MODULE Console ------------------------------
(***************************************************************************)
(* The console: its line editing and read() and write() (kernel/console.c) *)
(* over the UART driver (kernel/uart.c).  The device itself, a transmit    *)
(* FIFO, received keys and one interrupt line through the PLIC, is         *)
(* external.  cons.lock and uart_tx_lock are explicit: the handler echoes  *)
(* a key with cons.lock held and waits for the device meanwhile, and       *)
(* neither kill() nor the device takes a lock.                             *)
(***************************************************************************)
EXTENDS Integers, Sequences, FiniteSets

CONSTANTS
    Readers, Writers,
    INPUT_BUF_SIZE, UART_TX_BUF_SIZE,
    UINT,          \* where the unsigned indices of cons wrap around
    Before,        \* keys typed and read already
    Keys,          \* what may be typed
    MaxKeys,       \* bound: keys typed
    MaxRead,       \* largest size of a read()
    NReads,        \* bound: read()s of a reader
    WriteSize,     \* bytes in the write() of each writer
    Mortal         \* the readers that may be killed

ASSUME ConsoleAssumption ==
    /\ Readers \cap Writers = {} /\ Mortal \subseteq Readers
    /\ {INPUT_BUF_SIZE, UART_TX_BUF_SIZE, MaxRead} \subseteq Nat \ {0}
    /\ Before \in 0 .. UINT - 1 /\ UINT > INPUT_BUF_SIZE /\ UINT % INPUT_BUF_SIZE = 0
    /\ Keys \subseteq {"a", "b", "CR", "^D", "^U", "^H", "^P"}

Irq == "uartintr"      \* the interrupt handler, on whatever CPU takes it
Nobody == "nobody"

VARIABLES
    cons,      \* [buf, r, w, e, lock]
    tx,        \* [buf, r, w, lock]: the transmit ring
    uart,      \* [fifo, rx, irq]: rx counts the keys received
    at,        \* where every reader, every writer and the handler is
    rd,        \* [n, target, left]: a reader's counts
    wr,        \* bytes a writer still has to write
    echo,      \* outputs the handler owes for the last key
    dead,      \* killed readers
    typed,     \* keys typed so far
    spec       \* what should be in the input, and the bytes output: [ready, editing, eofs, sent]

conVars == <<cons, tx, uart, at, rd, wr, echo, dead, typed, spec>>

NoKey == "none"
Inc(i) == (i + 1) % UINT
Minus(i, j) == (i + UINT - j) % UINT
Cell(i) == cons.buf[i % INPUT_BUF_SIZE]

Goto(p, where) == at' = [at EXCEPT ![p] = where]
\* wakeup(): those at asleep go for the lock again.
WakeAnd(asleep, again, p, where) ==
    at' = [q \in DOMAIN at |-> IF q = p THEN where ELSE IF at[q] = asleep THEN again ELSE at[q]]

\* consoleinit(), and processes that read or processes that write.
ConInit ==
    /\ cons = [buf |-> [i \in 0 .. INPUT_BUF_SIZE - 1 |-> NoKey], r |-> Before, w |-> Before, e |-> Before,
                lock |-> Nobody]
    /\ tx = [buf |-> [i \in 0 .. UART_TX_BUF_SIZE - 1 |-> 0], r |-> 0, w |-> 0, lock |-> Nobody]
    /\ uart = [fifo |-> <<>>, rx |-> 0, irq |-> FALSE]
    /\ at = [p \in Readers \cup Writers \cup {Irq} |-> "out"]
    /\ \E reading \in BOOLEAN :
         /\ rd = [p \in Readers |-> [n |-> 0, target |-> 0, left |-> IF reading THEN NReads ELSE 0]]
         /\ wr = [p \in Writers |-> IF reading THEN 0 ELSE WriteSize]
    /\ echo = 0 /\ dead = {} /\ typed = 0
    /\ spec = [ready |-> <<>>, editing |-> <<>>, eofs |-> 0, sent |-> <<>>]

-----------------------------------------------------------------------------
(* read() *)

\* consoleread() starts, or is back from sleep().
ReadCall(p) ==
    /\ at[p] = "out" /\ rd[p].left > 0 /\ p \notin dead
    /\ \E n \in 1 .. MaxRead : rd' = [rd EXCEPT ![p] = [n |-> n, target |-> n, left |-> @.left - 1]]
    /\ Goto(p, "rlock")
    /\ UNCHANGED <<cons, tx, uart, wr, echo, dead, typed, spec>>

ReadLock(p) ==
    /\ at[p] = "rlock" /\ cons.lock = Nobody
    /\ cons' = [cons EXCEPT !.lock = p]
    /\ Goto(p, "rloop")
    /\ UNCHANGED <<tx, uart, rd, wr, echo, dead, typed, spec>>

\* No input: return -1 if killed, else sleep(&cons.r, &cons.lock), which the
\* process only gets to after it has looked at killed.
ReadWaits(p) ==
    /\ at[p] = "rloop" /\ cons.r = cons.w
    /\ IF p \in dead
       THEN /\ cons' = [cons EXCEPT !.lock = Nobody] /\ Goto(p, "out")
            /\ rd' = [rd EXCEPT ![p].n = 0, ![p].target = 0]
       ELSE Goto(p, "rsleep") /\ UNCHANGED <<cons, rd>>
    /\ UNCHANGED <<tx, uart, wr, echo, dead, typed, spec>>

ReadSleeps(p) ==
    /\ at[p] = "rsleep"
    /\ cons' = [cons EXCEPT !.lock = Nobody]
    /\ Goto(p, "rasleep")
    /\ UNCHANGED <<tx, uart, rd, wr, echo, dead, typed, spec>>

\* The cell that was read is free again: forgotten.
Consumed == [cons EXCEPT !.buf[cons.r % INPUT_BUF_SIZE] = NoKey, !.r = Inc(@)]
\* A ^D that ends a read() of something is not kept for the next one.
SavesEof_Never(p) == FALSE
SavesEof(p) == rd[p].n < rd[p].target

Returned(p, c) == Goto(p, "out") /\ cons' = [c EXCEPT !.lock = Nobody] /\ rd' = [rd EXCEPT ![p].n = 0, ![p].target = 0]

\* One turn of the loop with a key to read; copied says whether the buffer of
\* the caller could be written.
ReadKey(p, copied) ==
    /\ at[p] = "rloop" /\ cons.r # cons.w
    /\ LET c == Cell(cons.r)
           n == rd[p].n - 1
       IN  \/ /\ c = "^D" /\ copied
              /\ Returned(p, IF SavesEof(p) THEN cons ELSE Consumed)
              /\ spec' = IF rd[p].n < rd[p].target THEN spec
                         ELSE [spec EXCEPT !.ready = Tail(@), !.eofs = @ - 1]
           \/ /\ c # "^D"
              /\ IF copied /\ c # "NL" /\ n > 0
                 THEN cons' = Consumed /\ rd' = [rd EXCEPT ![p].n = n] /\ UNCHANGED at
                 ELSE Returned(p, Consumed)
              /\ spec' = [spec EXCEPT !.ready = Tail(@)]
    /\ UNCHANGED <<tx, uart, wr, echo, dead, typed>>

consoleread(p) == ReadLock(p) \/ ReadWaits(p) \/ ReadSleeps(p) \/ \E copied \in BOOLEAN : ReadKey(p, copied)

\* kill(): a reader that sleeps is woken up.
KillReader(p) ==
    /\ p \in Mortal \ dead
    /\ dead' = dead \cup {p}
    /\ Goto(p, IF at[p] = "rasleep" THEN "rlock" ELSE at[p])
    /\ UNCHANGED <<cons, tx, uart, rd, wr, echo, typed, spec>>

-----------------------------------------------------------------------------
(* write() *)

WriteLock(p) ==
    /\ at[p] = "wlock" \/ (at[p] = "out" /\ wr[p] > 0)
    /\ tx.lock = Nobody
    /\ tx' = [tx EXCEPT !.lock = p]
    /\ Goto(p, "put")
    /\ UNCHANGED <<cons, uart, rd, wr, echo, dead, typed, spec>>

Full == tx.w = tx.r + UART_TX_BUF_SIZE

\* uartputc() of one byte, named by its place in the output, and on to
\* uartstart(); or sleep(&uart_tx_r, &uart_tx_lock).
uartputc(p) ==
    /\ at[p] = "put"
    /\ IF Full THEN tx' = [tx EXCEPT !.lock = Nobody] /\ Goto(p, "wasleep") /\ UNCHANGED wr
       ELSE /\ tx' = [tx EXCEPT !.buf[tx.w % UART_TX_BUF_SIZE] = tx.w + 1, !.w = @ + 1]
            /\ wr' = [wr EXCEPT ![p] = @ - 1] /\ Goto(p, "start")
    /\ UNCHANGED <<cons, uart, rd, echo, dead, typed, spec>>

\* uartstart(), by a writer or the handler, which hold uart_tx_lock: return
\* and release it, or take the next byte, wake up writers, and write THR.
Idle == uart.fifo = <<>>
StartReturns(p) ==
    /\ at[p] = "start" /\ (tx.w = tx.r \/ ~Idle)
    /\ tx' = [tx EXCEPT !.lock = Nobody]
    /\ Goto(p, "out")
    /\ UNCHANGED <<cons, uart, rd, wr, echo, dead, typed, spec>>

StartTakes(p) ==
    /\ at[p] = "start" /\ tx.w # tx.r /\ Idle
    /\ tx' = [tx EXCEPT !.r = @ + 1]
    /\ WakeAnd("wasleep", "wlock", p, "thr")
    /\ UNCHANGED <<cons, uart, rd, wr, echo, dead, typed, spec>>

StartWrites(p) ==
    /\ at[p] = "thr"
    /\ LET c == tx.buf[(tx.r - 1) % UART_TX_BUF_SIZE]
       IN  uart' = [uart EXCEPT !.fifo = Append(@, c)] /\ spec' = [spec EXCEPT !.sent = Append(@, c)]
    /\ Goto(p, "start")
    /\ UNCHANGED <<cons, tx, rd, wr, echo, dead, typed>>

uartstart(p) == StartReturns(p) \/ StartTakes(p) \/ StartWrites(p)

\* either_copyin() fails: the rest is not written.
CopyFails(p) ==
    /\ at[p] = "out" /\ wr[p] > 0
    /\ wr' = [wr EXCEPT ![p] = 0]
    /\ UNCHANGED <<cons, tx, uart, at, rd, echo, dead, typed, spec>>

consolewrite(p) == WriteLock(p) \/ uartputc(p) \/ uartstart(p) \/ CopyFails(p)

-----------------------------------------------------------------------------
(* The interrupt handler *)

\* plic_claim(): until the handler is done the device cannot interrupt again.
Claim ==
    /\ at[Irq] = "out" /\ uart.irq
    /\ uart' = [uart EXCEPT !.irq = FALSE]
    /\ Goto(Irq, "rx")
    /\ UNCHANGED <<cons, tx, rd, wr, echo, dead, typed, spec>>

\* What ^U erases: back to the last newline or to the committed input.
Erasable == Minus(cons.e, cons.w)
LineLength == CHOOSE k \in 0 .. Erasable :
                 /\ k = Erasable \/ Cell(Minus(cons.e, k + 1)) = "NL"
                 /\ \A j \in 0 .. k - 1 : Cell(Minus(cons.e, j + 1)) # "NL"
Erase(n) ==
    [cons EXCEPT !.e = Minus(@, n),
                 !.buf = [i \in DOMAIN @ |->
                            IF \E j \in 1 .. n : Minus(cons.e, j) % INPUT_BUF_SIZE = i THEN NoKey ELSE @[i]]]

Stored(c) == [cons EXCEPT !.buf[cons.e % INPUT_BUF_SIZE] = c, !.e = Inc(@)]
Commits(c) == c \in {"NL", "^D"} \/ Minus(Inc(cons.e), cons.r) = INPUT_BUF_SIZE

\* consoleintr(key): what it leaves in cons, with the lock held, the number of
\* uartputc_sync() calls to come, and whether it wakes up the readers.
Edited(c, n) == cons' = [c EXCEPT !.lock = Irq] /\ echo' = n
Typed(c) ==
    IF Minus(cons.e, cons.r) < INPUT_BUF_SIZE
    THEN /\ Edited(IF Commits(c) THEN [Stored(c) EXCEPT !.w = Inc(cons.e)] ELSE Stored(c), 1)
         /\ IF Commits(c) THEN WakeAnd("rasleep", "rlock", Irq, "echo") ELSE Goto(Irq, "echo")
         /\ spec' = LET line == Append(spec.editing, c)
                        eofs == spec.eofs + (IF c = "^D" THEN 1 ELSE 0)
                    IN  IF c \in {"NL", "^D"} \/ Len(spec.ready \o line) = INPUT_BUF_SIZE
                        THEN [spec EXCEPT !.ready = @ \o line, !.editing = <<>>, !.eofs = eofs]
                        ELSE [spec EXCEPT !.editing = line]
    ELSE Edited(cons, 0) /\ Goto(Irq, "echo") /\ UNCHANGED spec
consoleintr(key) ==
    /\ at[Irq] = "rx" /\ uart.rx > 0 /\ cons.lock = Nobody
    /\ uart' = [uart EXCEPT !.rx = @ - 1]
    /\ CASE key = "^P" -> Edited(cons, 0) /\ Goto(Irq, "echo") /\ UNCHANGED spec
         [] key = "^U" -> /\ Edited(Erase(LineLength), 3 * LineLength) /\ Goto(Irq, "echo")
                          /\ spec' = [spec EXCEPT !.editing = <<>>]
         [] key = "^H" -> /\ IF cons.e # cons.w THEN Edited(Erase(1), 3) ELSE Edited(cons, 0)
                          /\ Goto(Irq, "echo")
                          /\ spec' = [spec EXCEPT !.editing = IF @ = <<>> THEN @ ELSE SubSeq(@, 1, Len(@) - 1)]
         [] OTHER -> Typed(IF key = "CR" THEN "NL" ELSE key)
    /\ UNCHANGED <<tx, rd, wr, dead, typed>>

\* uartputc_sync(): waits for the device, without uart_tx_lock.
uartputc_sync ==
    /\ at[Irq] = "echo" /\ echo > 0 /\ Idle
    /\ uart' = [uart EXCEPT !.fifo = Append(@, 0)]
    /\ echo' = echo - 1
    /\ UNCHANGED <<cons, tx, at, rd, wr, dead, typed, spec>>

Echoed ==
    /\ at[Irq] = "echo" /\ echo = 0
    /\ cons' = [cons EXCEPT !.lock = Nobody]
    /\ Goto(Irq, "rx")
    /\ UNCHANGED <<tx, uart, rd, wr, echo, dead, typed, spec>>

\* uartintr() leaves the loop over received keys and sends buffered bytes.
IntrLock ==
    /\ at[Irq] = "rx" /\ uart.rx = 0 /\ tx.lock = Nobody
    /\ tx' = [tx EXCEPT !.lock = Irq]
    /\ Goto(Irq, "start")
    /\ UNCHANGED <<cons, uart, rd, wr, echo, dead, typed, spec>>

uartintr == Claim \/ (\E key \in Keys : consoleintr(key)) \/ uartputc_sync \/ Echoed \/ IntrLock \/ uartstart(Irq)

-----------------------------------------------------------------------------
(* The device *)

\* A byte is sent; an empty FIFO interrupts.
Transmit ==
    /\ ~Idle
    /\ uart' = [uart EXCEPT !.fifo = Tail(@), !.irq = @ \/ Len(uart.fifo) = 1]
    /\ UNCHANGED <<cons, tx, at, rd, wr, echo, dead, typed, spec>>

\* A key arrives; which one it is, uartgetc() says.
Receive ==
    /\ typed < MaxKeys
    /\ typed' = typed + 1
    /\ uart' = [uart EXCEPT !.rx = @ + 1, !.irq = TRUE]
    /\ UNCHANGED <<cons, tx, at, rd, wr, echo, dead, spec>>

\* All keys are typed, and nobody has anything to do but to wait for another.
Quiet ==
    /\ typed = MaxKeys /\ at[Irq] = "out" /\ ~uart.irq /\ Idle
    /\ \A p \in Readers : at[p] = "rasleep" \/ (at[p] = "out" /\ (rd[p].left = 0 \/ p \in dead))
    /\ \A p \in Writers : at[p] = "out" /\ wr[p] = 0
    /\ UNCHANGED conVars

ConNext ==
    \/ \E p \in Readers : ReadCall(p) \/ consoleread(p) \/ KillReader(p)
    \/ \E p \in Writers : consolewrite(p)
    \/ uartintr \/ Transmit \/ Receive
    \/ Quiet

ConSpec == ConInit /\ [][ConNext]_conVars

-----------------------------------------------------------------------------
Ring(from, to) == [i \in 1 .. Minus(to, from) |-> Cell((from + i - 1) % UINT)]

\* Input reaches the readers as it was typed and edited: the ring holds the
\* committed keys and then the line being edited, also after the indices have
\* wrapped around, committed input is never erased, and every ^D typed is the
\* cause of exactly one read() of 0 bytes.  Output reaches the device in the
\* order the ring accepted it in, whichever of the writers and the handler hands
\* it over: all that has left the ring but the byte someone is about to hand
\* over, and the ring holds what follows.
InOrder ==
    /\ Ring(cons.r, cons.w) = spec.ready
    /\ Ring(cons.w, cons.e) = spec.editing
    /\ spec.eofs = Cardinality({i \in DOMAIN spec.ready : spec.ready[i] = "^D"})
    /\ spec.sent = [k \in 1 .. tx.r - Cardinality({p \in DOMAIN at : at[p] = "thr"}) |-> k]
    /\ \A k \in tx.r .. tx.w - 1 : tx.buf[k % UART_TX_BUF_SIZE] = k + 1

\* Nobody waits for what has happened: a reader sleeps only while no input is
\* committed, a writer only while the ring is full; and as long as there is
\* output to send, something goes on that will send it.
NobodyStuck ==
    /\ cons.lock = Nobody => \A p \in Readers : at[p] = "rasleep" => cons.r = cons.w
    /\ tx.lock = Nobody => \A p \in Writers : at[p] = "wasleep" => Full
    /\ tx.r # tx.w => ~Idle \/ uart.irq \/ at[Irq] # "out" \/ tx.lock # Nobody
=============================================================================
