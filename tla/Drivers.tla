------------------------------ MODULE Drivers ------------------------------
(***************************************************************************)
(* The lower half of the kernel: the log, over what it needs to know of    *)
(* the buffer cache (Log), the buffer cache over the disk driver           *)
(* (BlockCache), the console over the UART driver (Console), the clock     *)
(* (Clock) and spinlocks with interrupts (Spinlock).  They have no state   *)
(* in common: a behaviour runs one of them, and the others stay as they    *)
(* are initialised.                                                        *)
(***************************************************************************)
EXTENDS Log, Clock, BlockCache, Console, Spinlock

VARIABLE part

DriversInit ==
    /\ part \in {"log", "cache", "console", "clock", "spin"}
    /\ LogInit /\ CacheInit /\ ConInit /\ ClockInit /\ SpinInit
    /\ part # "console" => \A p \in Readers : rd[p].left = 0
    /\ part # "clock" => ticks = 0

LogStep == part = "log" /\ LogNext /\ UNCHANGED <<part, cacheVars, conVars, clockVars, spinVars>>
CacheStep == part = "cache" /\ CacheNext /\ UNCHANGED <<part, logVars, conVars, clockVars, spinVars>>
ConsoleStep == part = "console" /\ ConNext /\ UNCHANGED <<part, logVars, cacheVars, clockVars, spinVars>>
ClockStep == part = "clock" /\ ClockNext /\ UNCHANGED <<part, logVars, cacheVars, conVars, spinVars>>
SpinStep == part = "spin" /\ SpinNext /\ UNCHANGED <<part, logVars, cacheVars, conVars, clockVars>>

DriversNext == LogStep \/ CacheStep \/ ConsoleStep \/ ClockStep \/ SpinStep
Spec == DriversInit /\ [][DriversNext]_<<part, logVars, cacheVars, conVars, clockVars, spinVars>>

-----------------------------------------------------------------------------
\* Nothing panics: log_write() and begin_op() of the log, bget(), bwrite(),
\* brelse() and the disk driver, acquire(), release(), pop_off() and sched().
NoPanic == LogNoPanic /\ CacheNoPanic /\ SpinNoPanic

\* Nobody sleeps for what has happened: begin_op() has someone to wake it up
\* (Log), acquiresleep() and virtio_disk_rw() too (BlockCache), and so have
\* consoleread() and uartputc() (Console).
NobodySleepsForever == SleeperHasWaker /\ NobodyStranded /\ NobodyStuck
=============================================================================
