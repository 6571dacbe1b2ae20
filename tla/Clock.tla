------------------------------- MODULE Clock -------------------------------
(***************************************************************************)
(* sys_sleep() (kernel/sysproc.c) and clockintr() (kernel/trap.c).  ticks  *)
(* and ticks0 are unsigned and wrap around at TICKMAX; the argument n is   *)
(* an int that the comparison makes unsigned.  A critical section of       *)
(* tickslock is one step.                                                  *)
(***************************************************************************)
EXTENDS Integers

CONSTANTS Sleepers,
          TICKMAX,    \* 2^32
          LongNap     \* the largest argument of sleep()

ASSUME ClockAssumption == TICKMAX \in Nat \ {0, 1} /\ LongNap \in 0 .. TICKMAX - 1

VARIABLES ticks,
          nap,     \* [at, n, ticks0, killed] of a process: "out", "asleep" or "woken"
          passed   \* ticks since its sys_sleep() began, TICKMAX for as many or more

clockVars == <<ticks, nap, passed>>

Naps == {-1, 0, 1, LongNap}
Unsigned(n) == n % TICKMAX
Awake == [at |-> "out", n |-> 0, ticks0 |-> 0, killed |-> FALSE]

ClockInit ==
    /\ ticks \in 0 .. TICKMAX - 1
    /\ nap = [p \in Sleepers |-> Awake]
    /\ passed = [p \in Sleepers |-> 0]

\* The moment to wake up at is compared instead of the time passed.
Due_Absolute(p) == ticks >= Unsigned(nap[p].ticks0 + nap[p].n)

\* The sleep is over, compared as unsigned numbers.
Due(p) == Unsigned(ticks - nap[p].ticks0) >= Unsigned(nap[p].n)

\* sys_sleep(), from tickslock on: up to the first sleep(&ticks, &tickslock),
Begin(p, n) ==
    /\ nap[p].at = "out" /\ ~nap[p].killed
    /\ nap' = [nap EXCEPT ![p] = IF Unsigned(n) = 0 THEN Awake
                                 ELSE [Awake EXCEPT !.at = "asleep", !.n = n, !.ticks0 = ticks]]
    /\ passed' = [passed EXCEPT ![p] = 0]
    /\ UNCHANGED ticks

\* and from there to the next one.  A kill() between the look at killed and
\* sleep() does not wake the process up, but the next tick does.
Again(p) ==
    /\ nap[p].at = "woken"
    /\ nap' = [nap EXCEPT ![p] = IF Due(p) \/ nap[p].killed THEN [Awake EXCEPT !.killed = nap[p].killed]
                                 ELSE [@ EXCEPT !.at = "asleep"]]
    /\ passed' = IF nap'[p].at # "out" THEN passed ELSE [passed EXCEPT ![p] = 0]
    /\ UNCHANGED ticks

sys_sleep(p) == Again(p) \/ \E n \in Naps : Begin(p, n)

\* Bound: a process that was woken up looks at the clock before it wraps around.
Punctual == \A p \in Sleepers : nap[p].at = "woken" => passed[p] < TICKMAX - 1

clockintr ==
    /\ Punctual
    /\ ticks' = Unsigned(ticks + 1)
    /\ nap' = [p \in Sleepers |-> IF nap[p].at = "asleep" THEN [nap[p] EXCEPT !.at = "woken"] ELSE nap[p]]
    /\ passed' = [p \in Sleepers |-> IF passed[p] = TICKMAX \/ nap[p].at = "out" THEN passed[p] ELSE passed[p] + 1]

killsleeper(p) ==
    /\ ~nap[p].killed
    /\ nap' = [nap EXCEPT ![p].killed = TRUE, ![p].at = IF @ = "asleep" THEN "woken" ELSE @]
    /\ UNCHANGED <<ticks, passed>>

ClockNext == clockintr \/ \E p \in Sleepers : sys_sleep(p) \/ killsleeper(p)
ClockSpec == ClockInit /\ [][ClockNext]_clockVars

-----------------------------------------------------------------------------
\* sleep(n) lasts at least n ticks, as an unsigned number, unless the process
\* is killed, and not a tick longer than it must, wherever the counter is when
\* it starts.
SleepsLongEnough ==
    \A p \in Sleepers :
        /\ nap[p].at = "asleep" => passed[p] < Unsigned(nap[p].n)
        /\ nap[p].at = "woken" /\ Due(p) => passed[p] >= Unsigned(nap[p].n)
=============================================================================
