----------------------------- MODULE AtomicDisk -----------------------------
(***************************************************************************)
(* What the log (log.c) promises the file system: the blocks written       *)
(* between begin_op and end_op reach the disk all together or not at all,  *)
(* whatever moment the machine crashes at.  The operations that overlap    *)
(* are committed as one group, when none of them is running.               *)
(***************************************************************************)
CONSTANTS Procs, Blocks, Values, InitValue

VARIABLES
    durable,   \* the contents of the blocks that a crash leaves
    current,   \* the contents that system calls read and write
    active     \* the processes between begin_op and end_op

avars == <<durable, current, active>>

AInit ==
    /\ durable = [b \in Blocks |-> InitValue] /\ current = durable
    /\ active = {}

ABegin(p) ==
    /\ p \notin active
    /\ active' = active \cup {p}
    /\ UNCHANGED <<durable, current>>

AWrite(p, b, v) ==
    /\ p \in active
    /\ current' = [current EXCEPT ![b] = v]
    /\ UNCHANGED <<durable, active>>

AEnd(p) ==
    /\ p \in active
    /\ active' = active \ {p}
    /\ UNCHANGED <<durable, current>>

ACommit ==
    /\ active = {}
    /\ durable' = current
    /\ UNCHANGED <<current, active>>

ACrash ==
    /\ current' = durable
    /\ active' = {}
    /\ UNCHANGED durable

ANext ==
    \/ \E p \in Procs : ABegin(p) \/ AEnd(p)
    \/ \E p \in Procs, b \in Blocks, v \in Values : AWrite(p, b, v)
    \/ ACommit
    \/ ACrash

ASpec == AInit /\ [][ANext]_avars

=============================================================================
