----------------------------- MODULE BlockCache -----------------------------
(***************************************************************************)
(* The buffer cache (kernel/bio.c), its sleep-locks (kernel/sleeplock.c)   *)
(* and the disk driver below it (kernel/virtio_disk.c), used by processes  *)
(* the way log.c and fs.c use them.                                        *)
(*                                                                         *)
(* A critical section of bcache.lock, of a sleep-lock's spinlock or of     *)
(* vdisk_lock is one step; sleep() gives the lock up in the same step, as  *)
(* nothing can come in between, and a process that was woken up looks      *)
(* again in a step of its own.  The avail and used rings are queues: they  *)
(* have NUM entries and no more than NUM / 3 requests are on their way.    *)
(* The device takes what it needs for a request from the descriptors.      *)
(* Contents are told apart by whether they are what was last stored in the *)
(* block: a store makes every other copy of the block an old one.          *)
(***************************************************************************)
EXTENDS Integers, Sequences, FiniteSets

CONSTANTS Users,     \* the processes that use the disk
          Blocknos,
          NBUF, NUM  \* buffers and descriptors

\* 0 stands for no process and for the block of an unused buffer; a request
\* takes three descriptors.
ASSUME CacheAssumption ==
    /\ IsFiniteSet(Users) /\ 0 \notin Users
    /\ IsFiniteSet(Blocknos) /\ 0 \notin Blocknos
    /\ NBUF \in Nat \ {0} /\ NUM \in Nat /\ NUM >= 3

VARIABLES
    bufs,      \* bcache.buf: [blockno, valid, refcnt, data, disk, holder]; holder: of b->lock, 0 if unlocked
    lru,       \* the list of buffers, most recently used first
    drv,       \* [free, desc, info, avail, used]: struct disk
    dev,       \* [taken, irq]: the requests the device works on, and its interrupt line
    handler,   \* virtio_disk_intr(): "out", or "acked" with vdisk_lock held
    platter,   \* the contents of the disk
    us,        \* [pc, chan, b, mode, idx]: the processes
    pins,      \* the blocks that the log has pinned
    died       \* the panic, "" for none

cacheVars == <<bufs, lru, drv, dev, handler, platter, us, pins, died>>

Bufs == 1 .. NBUF
Descs == 0 .. NUM - 1
NoDesc == [addr |-> <<>>, next |-> -1]
NoInfo == [b |-> 0, status |-> 0, write |-> FALSE, blockno |-> 0]
Resting == [pc |-> "out", chan |-> <<>>, b |-> 0, mode |-> "", idx |-> -1]
Lock(b) == <<"lock", b>>
Io(b) == <<"io", b>>
DescFree == <<"desc">>

\* binit() and virtio_disk_init(), and a disk with a file system.
CacheInit ==
    /\ bufs = [b \in Bufs |-> [blockno |-> 0, valid |-> FALSE, refcnt |-> 0, data |-> "old", disk |-> FALSE,
                               holder |-> 0]]
    /\ lru = [k \in 1 .. NBUF |-> NBUF + 1 - k]
    /\ drv = [free |-> Descs, desc |-> [d \in Descs |-> NoDesc], info |-> [d \in Descs |-> NoInfo],
              avail |-> <<>>, used |-> <<>>]
    /\ dev = [taken |-> {}, irq |-> FALSE]
    /\ handler = "out"
    /\ platter = [k \in Blocknos |-> "new"]
    /\ us = [p \in Users |-> Resting]
    /\ pins = {} /\ died = ""

-----------------------------------------------------------------------------
(* Processes that sleep and wake up *)

Ready(p, pc) == died = "" /\ us[p].pc = pc /\ us[p].chan = <<>>
Wakeup(u, chan) == [q \in Users |-> IF u[q].chan = chan THEN [u[q] EXCEPT !.chan = <<>>] ELSE u[q]]
GoOn(p, pc) == us' = [us EXCEPT ![p].pc = pc]
Sleep(p, chan) == us' = [us EXCEPT ![p].chan = chan]

-----------------------------------------------------------------------------
(* bget() and brelse() *)

Holding(k) == {b \in Bufs : bufs[b].blockno = k}
LruUnused(unused) == lru[CHOOSE k \in unused : \A j \in unused : j <= k]

\* A buffer of another block that keeps what it says of its contents.
Recycled_KeepsValid(b, k) == [bufs EXCEPT ![b].blockno = k, ![b].refcnt = 1, ![b].data = "old"]
Recycled(b, k) == [bufs EXCEPT ![b].blockno = k, ![b].valid = FALSE, ![b].refcnt = 1, ![b].data = "old"]

Cached(p, k, mode) ==
    \E b \in Holding(k) :
        /\ bufs' = [bufs EXCEPT ![b].refcnt = @ + 1]
        /\ us' = [us EXCEPT ![p] = [Resting EXCEPT !.pc = "lock", !.b = b, !.mode = mode]]
        /\ UNCHANGED died
NotCached(p, k, mode, unused) ==
    IF unused = {} THEN died' = "bget: no buffers" /\ UNCHANGED <<bufs, us>>
    ELSE /\ bufs' = Recycled(LruUnused(unused), k)
         /\ us' = [us EXCEPT ![p] = [Resting EXCEPT !.pc = "lock", !.b = LruUnused(unused), !.mode = mode]]
         /\ UNCHANGED died
bget(p, k, mode) ==
    /\ Ready(p, "out")
    /\ \/ Cached(p, k, mode)
       \/ Holding(k) = {} /\ NotCached(p, k, mode, {j \in 1 .. NBUF : bufs[lru[j]].refcnt = 0})
    /\ UNCHANGED <<lru, drv, dev, handler, platter, pins>>

acquiresleep(p) ==
    /\ Ready(p, "lock")
    /\ LET b == us[p].b
       IN  IF bufs[b].holder # 0 THEN Sleep(p, Lock(b)) /\ UNCHANGED bufs
           ELSE /\ bufs' = [bufs EXCEPT ![b].holder = p]
                /\ GoOn(p, IF bufs[b].valid THEN "use" ELSE "read")
    /\ UNCHANGED <<lru, drv, dev, handler, platter, pins, died>>

\* brelse() first lets go of the lock
releasesleep(p) ==
    /\ Ready(p, "rel")
    /\ LET b == us[p].b
       IN  IF bufs[b].holder # p THEN died' = "brelse" /\ UNCHANGED <<bufs, us>>
           ELSE /\ bufs' = [bufs EXCEPT ![b].holder = 0]
                /\ us' = Wakeup([us EXCEPT ![p].pc = "relse"], Lock(b))
                /\ UNCHANGED died
    /\ UNCHANGED <<lru, drv, dev, handler, platter, pins>>

\* The buffers in front of b move back by one.
MovedToFront(b) ==
    [k \in 1 .. NBUF |-> IF k = 1 THEN b
                         ELSE IF \E j \in k .. NBUF : lru[j] = b THEN lru[k - 1] ELSE lru[k]]

\* and then, under bcache.lock, of the buffer.
brelse(p) ==
    /\ Ready(p, "relse")
    /\ LET b == us[p].b
       IN  /\ bufs' = [bufs EXCEPT ![b].refcnt = @ - 1]
           /\ lru' = IF bufs[b].refcnt = 1 THEN MovedToFront(b) ELSE lru
    /\ us' = [us EXCEPT ![p] = Resting]
    /\ UNCHANGED <<drv, dev, handler, platter, pins, died>>

bpin(bs, b, pinned) == [bs EXCEPT ![b].refcnt = IF pinned THEN @ + 1 ELSE @]
bunpin(b) == [bufs EXCEPT ![b].refcnt = @ - 1]

-----------------------------------------------------------------------------
(* The driver *)

Lowest(S) == CHOOSE d \in S : \A e \in S : d <= e

\* What alloc3_desc() takes, one lowest after the other.
alloc3_desc(free) ==
    LET a == Lowest(free)
        b == Lowest(free \ {a})
    IN  <<a, b, Lowest(free \ {a, b})>>

\* A request for buffer b in the descriptors ds; its command and its status
\* are found by the first of them.
Submitted(ds, b, write) ==
    [drv EXCEPT
        !.free = @ \ {ds[1], ds[2], ds[3]},
        !.desc = [@ EXCEPT ![ds[1]] = [addr |-> <<"ops", ds[1]>>, next |-> ds[2]],
                           ![ds[2]] = [addr |-> <<"data", b>>, next |-> ds[3]],
                           ![ds[3]] = [addr |-> <<"status", ds[1]>>, next |-> -1]],
        !.info[ds[1]] = [b |-> b, status |-> 255, write |-> write, blockno |-> bufs[b].blockno],
        !.avail = Append(@, ds[1])]

\* A failed alloc3_desc() frees what it got, and free_desc() wakes the others
\* that wait for descriptors.
virtio_disk_rw(p) ==
    /\ Ready(p, "read") \/ Ready(p, "write")
    /\ handler = "out"
    /\ IF Cardinality(drv.free) < 3
       THEN /\ us' = [(IF drv.free = {} THEN us ELSE Wakeup(us, DescFree)) EXCEPT ![p].chan = DescFree]
            /\ UNCHANGED <<bufs, drv>>
       ELSE LET ds == alloc3_desc(drv.free)
                b == us[p].b
            IN  /\ drv' = Submitted(ds, b, us[p].pc = "write")
                /\ bufs' = [bufs EXCEPT ![b].disk = TRUE]
                /\ us' = [us EXCEPT ![p].chan = Io(b), ![p].idx = ds[1],
                                    ![p].pc = IF @ = "write" THEN "written" ELSE "isread"]
    /\ died' = IF us[p].pc = "write" /\ bufs[us[p].b].holder # p THEN "bwrite" ELSE died
    /\ UNCHANGED <<lru, dev, handler, platter, pins>>

Chain(d) == <<d, drv.desc[d].next, drv.desc[drv.desc[d].next].next>>

free_chain(ds) ==
    [drv EXCEPT !.free = @ \cup {ds[1], ds[2], ds[3]},
                !.desc = [d \in Descs |-> IF d \in {ds[1], ds[2], ds[3]} THEN NoDesc ELSE @[d]],
                !.info[ds[1]] = NoInfo]

\* The end of virtio_disk_rw(), and what bread() and bwrite() do after it.
RwDone(p) ==
    /\ Ready(p, "isread") \/ Ready(p, "written")
    /\ handler = "out"
    /\ LET b == us[p].b
           ds == Chain(us[p].idx)
       IN  IF bufs[b].disk THEN Sleep(p, Io(b)) /\ UNCHANGED <<bufs, drv, died>>
           ELSE /\ drv' = free_chain(ds)
                /\ died' = IF {ds[1], ds[2], ds[3]} \cap drv.free # {} THEN "free_desc 2" ELSE died
                /\ bufs' = [bufs EXCEPT ![b].valid = TRUE]
                /\ us' = Wakeup([us EXCEPT ![p].pc = IF @ = "isread" THEN "use" ELSE "done", ![p].idx = -1],
                               DescFree)
    /\ UNCHANGED <<lru, dev, handler, platter, pins>>

\* The device takes a request, and completes those it has in any order.
TakeRequest ==
    /\ drv.avail # <<>>
    /\ drv' = [drv EXCEPT !.avail = Tail(@)]
    /\ dev' = [dev EXCEPT !.taken = @ \cup {Head(drv.avail)}]
    /\ UNCHANGED <<bufs, lru, handler, platter, us, pins, died>>

CompleteRequest(d) ==
    LET c == Chain(d)
        op == drv.info[drv.desc[c[1]].addr[2]]
        b == drv.desc[c[2]].addr[2]
    IN  /\ d \in dev.taken
        /\ IF op.write THEN platter' = [platter EXCEPT ![op.blockno] = bufs[b].data] /\ UNCHANGED bufs
           ELSE bufs' = [bufs EXCEPT ![b].data = platter[op.blockno]] /\ UNCHANGED platter
        /\ drv' = [drv EXCEPT !.used = Append(@, d), !.info[drv.desc[c[3]].addr[2]].status = 0]
        /\ dev' = [taken |-> dev.taken \ {d}, irq |-> TRUE]
        /\ UNCHANGED <<lru, handler, us, pins, died>>

\* virtio_disk_intr(): the interrupt is acknowledged
Acknowledge ==
    /\ handler = "out" /\ dev.irq
    /\ handler' = "acked" /\ dev' = [dev EXCEPT !.irq = FALSE]
    /\ UNCHANGED <<bufs, lru, drv, platter, us, pins, died>>

\* and the used ring is emptied, one entry after the other.
UsedEntry ==
    /\ handler = "acked" /\ drv.used # <<>>
    /\ LET d == Head(drv.used)
           b == drv.info[d].b
       IN  /\ died' = IF drv.info[d].status # 0 THEN "virtio_disk_intr status" ELSE died
           /\ bufs' = [bufs EXCEPT ![b].disk = FALSE]
           /\ us' = Wakeup(us, Io(b))
           /\ drv' = [drv EXCEPT !.used = Tail(@)]
    /\ UNCHANGED <<lru, dev, handler, platter, pins>>
IntrReturn_AfterOne ==
    /\ handler = "acked"
    /\ handler' = "out"
    /\ UNCHANGED <<bufs, lru, drv, dev, platter, us, pins, died>>
IntrReturn ==
    /\ handler = "acked" /\ drv.used = <<>>
    /\ handler' = "out"
    /\ UNCHANGED <<bufs, lru, drv, dev, platter, us, pins, died>>

-----------------------------------------------------------------------------
(* What log.c and fs.c do with a buffer: look; change it and bwrite() it;
   change it and log_write() it; and, for a block of the log, install it. *)

Needed == pins \cup {bufs[us[p].b].blockno : p \in {q \in Users : us[q].pc # "out"}}

\* begin_op() has reserved what an operation needs.
Bread(p, k, mode) ==
    /\ Cardinality(Needed \cup {k}) <= NBUF
    /\ mode = "install" => k \in pins
    /\ bget(p, k, mode)

StoredIn(b, k) ==
    [c \in Bufs |-> IF bufs[c].blockno = k THEN [bufs[c] EXCEPT !.data = IF c = b THEN "new" ELSE "old"]
                   ELSE bufs[c]]
Use(p) ==
    /\ Ready(p, "use")
    /\ LET b == us[p].b
           k == bufs[b].blockno
           changes == us[p].mode \in {"write", "log"}
           pinned == us[p].mode = "log" /\ k \notin pins
       IN  /\ bufs' = IF changes THEN bpin(StoredIn(b, k), b, pinned) ELSE bufs
           /\ platter' = IF changes THEN [platter EXCEPT ![k] = "old"] ELSE platter
           /\ pins' = IF pinned THEN pins \cup {k} ELSE pins
    /\ GoOn(p, IF us[p].mode \in {"write", "install"} THEN "write" ELSE "rel")
    /\ UNCHANGED <<lru, drv, dev, handler, died>>

\* bwrite() is back; install_trans() unpins the buffer.
Written(p) ==
    /\ Ready(p, "done")
    /\ LET b == us[p].b
           k == bufs[b].blockno
           installed == us[p].mode = "install" /\ k \in pins
       IN  /\ bufs' = IF installed THEN bunpin(b) ELSE bufs
           /\ pins' = IF installed THEN pins \ {k} ELSE pins
    /\ GoOn(p, "rel")
    /\ UNCHANGED <<lru, drv, dev, handler, platter, died>>

UserStep(p) ==
    \/ \E k \in Blocknos, mode \in {"look", "write", "log", "install"} : Bread(p, k, mode)
    \/ acquiresleep(p) \/ Use(p) \/ virtio_disk_rw(p) \/ RwDone(p) \/ Written(p) \/ releasesleep(p) \/ brelse(p)

CacheNext ==
    \/ \E p \in Users : UserStep(p)
    \/ TakeRequest \/ (\E d \in Descs : CompleteRequest(d))
    \/ Acknowledge \/ UsedEntry \/ IntrReturn

CacheSpec == CacheInit /\ [][CacheNext]_cacheVars

-----------------------------------------------------------------------------
\* No panic() of bio.c or virtio_disk.c is reached: with the blocks that
\* begin_op() reserves there is always a buffer to recycle.
CacheNoPanic == died = ""

\* Whoever has a buffer locked and valid sees what was last stored in its
\* block, by whichever process, in whichever buffer, on disk or only pinned.
HolderSeesLatest ==
    \A p \in Users :
        us[p].pc \in {"use", "write", "written", "done", "rel"} =>
            bufs[us[p].b].data = "new"

InDevice == dev.taken \cup {drv.avail[k] : k \in DOMAIN drv.avail}
InUsed == {drv.used[k] : k \in DOMAIN drv.used}

\* No process sleeps without someone on the way who wakes it up: the holder of
\* the lock, a request that will free its descriptors, or an interrupt that
\* is still to come for a request that the device has completed.
NobodyStranded ==
    \A p \in Users :
        LET chan == us[p].chan IN
        /\ chan = Lock(us[p].b) => bufs[us[p].b].holder # 0
        /\ chan = DescFree => \E q \in Users : us[q].pc \in {"isread", "written"}
        /\ chan = Io(us[p].b) => \/ us[p].idx \in InDevice
                                 \/ us[p].idx \in InUsed /\ (dev.irq \/ handler = "acked")
=============================================================================
