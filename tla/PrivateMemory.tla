---------------------------- MODULE PrivateMemory ----------------------------
(***************************************************************************)
(* What copy-on-write fork promises: each process has a memory of its own. *)
(* A child starts with a copy of its parent's, and what one process writes *)
(* or has written for it by the kernel no other process sees.  ASpec makes *)
(* the exception the code needs: pages a process cannot write itself.      *)
(***************************************************************************)
CONSTANTS
    Procs, Pages, Values, Dead,
    ReadOnly    \* the pages where the kernel's writes may show elsewhere

VARIABLE mem   \* mem[p]: the contents of p's pages, or Dead

AInit ==
    \E p \in Procs, m \in [Pages -> Values] :
        mem = [q \in Procs |-> IF q = p THEN m ELSE Dead]

AWrite(p, a, v) ==
    /\ mem[p] # Dead
    /\ mem' = [mem EXCEPT ![p][a] = v]

AFork(p, c) ==
    /\ mem[p] # Dead /\ mem[c] = Dead
    /\ mem' = [mem EXCEPT ![c] = mem[p]]

AExit(p) == mem[p] # Dead /\ mem' = [mem EXCEPT ![p] = Dead]

\* A write for p that the processes in seen have in their memory too.
AWriteReadOnly(seen, a, v) ==
    /\ \A q \in seen : mem[q] # Dead
    /\ mem' = [q \in Procs |-> IF q \in seen THEN [mem[q] EXCEPT ![a] = v] ELSE mem[q]]

PrivateNext ==
    \E p \in Procs :
        \/ \E a \in Pages, v \in Values : AWrite(p, a, v)
        \/ \E c \in Procs : AFork(p, c)
        \/ AExit(p)

ANext ==
    \/ PrivateNext
    \/ \E seen \in SUBSET Procs, a \in ReadOnly, v \in Values : AWriteReadOnly(seen, a, v)

\* Every page private, and every page but those of ReadOnly.
PrivateSpec == AInit /\ [][PrivateNext]_mem
ASpec == AInit /\ [][ANext]_mem

=============================================================================
