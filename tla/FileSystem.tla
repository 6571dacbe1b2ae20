----------------------------- MODULE FileSystem -----------------------------
(***************************************************************************)
(* The file system of the xv6 kernel (kernel/fs.c) and the image mkfs      *)
(* builds, as operators on one record:                                     *)
(*                                                                         *)
(*   used   blocks whose bit is set in the free map                        *)
(*   data   the contents of the data blocks                                *)
(*   di     the on-disk inodes                                             *)
(*   it     the in-memory inode table; lock is the process holding the     *)
(*          inode's sleep-lock, 0 for nobody                               *)
(*   dirty  blocks handed to log_write() by the step being computed        *)
(*   over   some system call has written as many blocks as it reserved     *)
(*   panic  the message of the first panic() reached, "" for none          *)
(*                                                                         *)
(* A block is BSIZE cells, and a cell is as large as a directory entry, a  *)
(* block number or one unit of user data: <<number, text>>.  Data blocks   *)
(* are numbered from 1 so that 0 is "no block", as in the code.            *)
(***************************************************************************)
EXTENDS Integers, Sequences, FiniteSets, TLC

CONSTANTS NBLOCKS,   \* data blocks of the disk
          BSIZE,     \* cells in a block
          NDIRECT,   \* direct block numbers in an inode
          NINODES,   \* inodes on the disk (ninodes of the superblock)
          NINODE,    \* entries of the in-memory inode table
          IPB        \* on-disk inodes in one block

ASSUME FsAssumption ==
    /\ {NBLOCKS, BSIZE, NDIRECT, NINODES, NINODE, IPB} \subseteq Nat \ {0}
    /\ NBLOCKS > NDIRECT + BSIZE

NINDIRECT == BSIZE
MAXFILE == NDIRECT + NINDIRECT
DIRSIZ == 14
ROOTINO == 1

Blocks == 1 .. NBLOCKS
Inums == 1 .. NINODES
Slots == 1 .. NINODE

Zero == <<0, "">>
Char(c) == <<0, c>>
Dirent(inum, name) == <<inum, name>>
ZeroBlock == [c \in 0 .. BSIZE - 1 |-> Zero]
NoAddrs == [n \in 0 .. NDIRECT |-> 0]
FreeDinode == [type |-> "free", major |-> 0, nlink |-> 0, size |-> 0, addrs |-> NoAddrs]
FreeSlot == FreeDinode @@ [inum |-> 0, ref |-> 0, valid |-> FALSE, lock |-> 0]

Least(S) == CHOOSE x \in S : \A y \in S : x <= y
Lesser(a, b) == IF a < b THEN a ELSE b

panic(f, why) == [f EXCEPT !.panic = IF @ = "" THEN why ELSE @]
log_write(f, b) == [f EXCEPT !.dirty = @ \cup {b}]
BBLOCK == <<"bitmap", 0>>
IBLOCK(inum) == <<"inode", inum \div IPB>>
DBLOCK(b) == <<"data", b>>

-----------------------------------------------------------------------------
(* Blocks *)

bzero(f, b) == log_write([f EXCEPT !.data[b] = ZeroBlock], DBLOCK(b))

\* The lowest free block, zeroed; block 0 when the disk is full.
balloc(f) ==
    LET free == Blocks \ f.used
        b == Least(free)
    IN  IF free = {} THEN [b |-> 0, f |-> f]
        ELSE [b |-> b, f |-> bzero(log_write([f EXCEPT !.used = @ \cup {b}], BBLOCK), b)]

bfree(f, bs) ==
    IF bs = {} THEN f
    ELSE IF bs \subseteq f.used THEN log_write([f EXCEPT !.used = @ \ bs], BBLOCK)
    ELSE panic(f, "freeing free block")

-----------------------------------------------------------------------------
(* Inodes *)

OnDisk(ino) == [x \in DOMAIN FreeDinode |-> ino[x]]

iupdate(f, ip) ==
    LET inum == f.it[ip].inum
    IN  log_write([f EXCEPT !.di[inum] = OnDisk(f.it[ip])], IBLOCK(inum))

\* The table entry for an inode: the one that caches it already, else a
\* recycled one whose contents ilock() will read.
iget(f, inum) ==
    LET hit == {s \in Slots : f.it[s].ref > 0 /\ f.it[s].inum = inum}
        empty == {s \in Slots : f.it[s].ref = 0}
        ip == IF hit # {} THEN Least(hit) ELSE Least(empty)
    IN  CASE hit # {} -> [ip |-> ip, f |-> [f EXCEPT !.it[ip].ref = @ + 1]]
          [] hit = {} /\ empty # {} ->
                [ip |-> ip, f |-> [f EXCEPT !.it[ip].inum = inum, !.it[ip].ref = 1,
                                            !.it[ip].valid = FALSE]]
          [] OTHER -> [ip |-> 1, f |-> panic(f, "iget: no inodes")]

ialloc(f, type) ==
    LET free == {i \in Inums : f.di[i].type = "free"}
        i == Least(free)
    IN  IF free = {} THEN [ip |-> 0, f |-> f]
        ELSE iget(log_write([f EXCEPT !.di[i] = [FreeDinode EXCEPT !.type = type]], IBLOCK(i)), i)

idup(f, ip) == [f EXCEPT !.it[ip].ref = @ + 1]

Unlocked(f, ip) == f.it[ip].lock = 0

\* Once the sleep-lock is free: take it, and read the inode if need be.
ilock(f, ip, p) ==
    LET s == f.it[ip]
        g == [f EXCEPT !.it[ip] = IF s.valid THEN [s EXCEPT !.lock = p]
                                  ELSE f.di[s.inum] @@ [s EXCEPT !.lock = p, !.valid = TRUE]]
    IN  CASE s.ref < 1 -> panic(f, "ilock")
          [] ~s.valid /\ f.di[s.inum].type = "free" -> panic(g, "ilock: no type")
          [] OTHER -> g

iunlock(f, ip) ==
    IF f.it[ip].lock = 0 \/ f.it[ip].ref < 1 THEN panic(f, "iunlock")
    ELSE [f EXCEPT !.it[ip].lock = 0]

-----------------------------------------------------------------------------
(* Inode content *)

\* Block number bn of an inode that is not to grow; 0 when it has none.
BlockAt(f, ino, bn) ==
    IF bn < NDIRECT THEN ino.addrs[bn]
    ELSE IF ino.addrs[NDIRECT] = 0 THEN 0
    ELSE f.data[ino.addrs[NDIRECT]][bn - NDIRECT][1]

\* A block just allocated (0: none was left) becomes an inode's block n, or
\* entry bn of its indirect block i, which has to be allocated first.
Recorded(a, ip, n) == [a EXCEPT !.f.it[ip].addrs[n] = a.b]
Entered(a, i, bn) ==
    IF i.b = 0 \/ a.b = 0 THEN [b |-> 0, f |-> i.f]
    ELSE [b |-> a.b, f |-> log_write([a.f EXCEPT !.data[i.b][bn - NDIRECT] = <<a.b, "">>], DBLOCK(i.b))]
ThroughIndirect(i, bn) == Entered(balloc(i.f), i, bn)

\* Block number bn of an inode, allocated if there is none; 0 on a full disk.
bmap(f, ip, bn) ==
    LET b == BlockAt(f, f.it[ip], bn)
        ind == f.it[ip].addrs[NDIRECT]
    IN  CASE b # 0 -> [b |-> b, f |-> f]
          [] b = 0 /\ bn < NDIRECT -> Recorded(balloc(f), ip, bn)
          [] b = 0 /\ bn >= NDIRECT ->
                ThroughIndirect(IF ind # 0 THEN [b |-> ind, f |-> f] ELSE Recorded(balloc(f), ip, NDIRECT),
                                bn)

\* Every block an inode refers to, its indirect block included.
BlocksOf(f, ino) ==
    ({ino.addrs[n] : n \in 0 .. NDIRECT} \cup {BlockAt(f, ino, n) : n \in NDIRECT .. MAXFILE - 1})
        \ {0}

\* Mutant: the indirect block itself is not freed.
itrunc_KeepsIndirect(f, ip) ==
    iupdate([bfree(f, BlocksOf(f, f.it[ip]) \ {f.it[ip].addrs[NDIRECT]})
                EXCEPT !.it[ip].addrs = NoAddrs, !.it[ip].size = 0], ip)

itrunc(f, ip) ==
    iupdate([bfree(f, BlocksOf(f, f.it[ip]))
                EXCEPT !.it[ip].addrs = NoAddrs, !.it[ip].size = 0], ip)

CellAt(f, ino, off) == f.data[BlockAt(f, ino, off \div BSIZE)][off % BSIZE]

\* At most n cells from offset off, as a sequence.
readi(f, ip, off, n) ==
    LET ino == f.it[ip]
    IN  [k \in 1 .. (IF off > ino.size THEN 0 ELSE Lesser(n, ino.size - off))
            |-> CellAt(f, ino, off + k - 1)]

\* Block by block, into block a of the file; tot cells have been written.  good
\* says whether the source can be read (either_copyin); if not, the block that
\* bmap() found stays allocated.
RECURSIVE WriteBlocks(_, _, _, _, _, _)
WriteBlock(a, ip, off, src, good, tot) ==
    LET at == off % BSIZE
        m == Lesser(Len(src) - tot, BSIZE - at)
        blk == [c \in 0 .. BSIZE - 1 |->
                  IF c \in at .. at + m - 1 THEN src[tot + 1 + c - at] ELSE a.f.data[a.b][c]]
    IN  IF a.b = 0 \/ ~good THEN [off |-> off, tot |-> tot, f |-> a.f]
        ELSE WriteBlocks(log_write([a.f EXCEPT !.data[a.b] = blk], DBLOCK(a.b)),
                         ip, off + m, src, good, tot + m)
WriteBlocks(f, ip, off, src, good, tot) ==
    IF tot = Len(src) THEN [off |-> off, tot |-> tot, f |-> f]
    ELSE WriteBlock(bmap(f, ip, off \div BSIZE), ip, off, src, good, tot)

\* The size grows to the end of what was written, and the inode is saved.
Written(w, ip) ==
    [r |-> w.tot, f |-> iupdate([w.f EXCEPT !.it[ip].size = IF w.off > @ THEN w.off ELSE @], ip)]

writei(f, ip, off, src, good) ==
    IF off > f.it[ip].size \/ off + Len(src) > MAXFILE * BSIZE THEN [r |-> -1, f |-> f]
    ELSE Written(WriteBlocks(f, ip, off, src, good, 0), ip)

-----------------------------------------------------------------------------
(* Directories and paths *)

\* Names are compared and stored up to DIRSIZ characters.
Short(name) == SubSeq(name, 1, Lesser(DIRSIZ, Len(name)))

Entries(f, ino) == [off \in 0 .. ino.size - 1 |-> CellAt(f, ino, off)]

\* The offset of the entry for a name; -1 when there is none.
dirlookup(f, dp, name) ==
    LET e == Entries(f, f.it[dp])
        hits == {off \in DOMAIN e : e[off][1] # 0 /\ e[off][2] = Short(name)}
    IN  IF hits = {} THEN -1 ELSE Least(hits)

\* The entry goes to the first empty place, or to the end.
FreeEntry(e) == Least({off \in DOMAIN e : e[off][1] = 0} \cup {Cardinality(DOMAIN e)})

Appended(w) == [r |-> IF w.r = 1 THEN 0 ELSE -1, f |-> w.f]

\* dirlookup() has taken a reference to the inode the name is there for; that
\* inode has a link, so iput() only gives it back.
AlreadyThere(g) == [r |-> -1, f |-> [g.f EXCEPT !.it[g.ip].ref = @ - 1]]

dirlink(f, dp, name, inum) ==
    IF dirlookup(f, dp, name) # -1
    THEN AlreadyThere(iget(f, CellAt(f, f.it[dp], dirlookup(f, dp, name))[1]))
    ELSE Appended(writei(f, dp, FreeEntry(Entries(f, f.it[dp])), <<Dirent(inum, Short(name))>>, TRUE))

\* Mutant: the first entry after "." and ".." is not looked at.
isdirempty_SkipsThree(f, dp) ==
    \A off \in DOMAIN Entries(f, f.it[dp]) : off >= 3 => Entries(f, f.it[dp])[off][1] = 0

isdirempty(f, dp) ==
    \A off \in DOMAIN Entries(f, f.it[dp]) : off >= 2 => Entries(f, f.it[dp])[off][1] = 0

Slash(path, i) == SubSeq(path, i, i) = "/"

RECURSIVE SkipSlashes(_)
SkipSlashes(path) == IF Len(path) > 0 /\ Slash(path, 1) THEN SkipSlashes(Tail(path)) ELSE path

\* The first element of a path and what follows it; none is "no element".
skipelem(path) ==
    LET s == SkipSlashes(path)
        end == {i \in 1 .. Len(s) : Slash(s, i)}
        n == IF end = {} THEN Len(s) ELSE Least(end) - 1
    IN  [none |-> s = "", name |-> Short(SubSeq(s, 1, n)),
         rest |-> SkipSlashes(SubSeq(s, n + 1, Len(s)))]

-----------------------------------------------------------------------------
(* The image mkfs writes: a root directory and the files given to it. *)

EmptyDisk == [used |-> {}, data |-> [b \in Blocks |-> ZeroBlock],
              di |-> [i \in Inums |-> FreeDinode], it |-> [s \in Slots |-> FreeSlot],
              dirty |-> {}, over |-> FALSE, panic |-> ""]

\* mkfs works on the image itself; here through one table entry.
Image(f, inum) == [f EXCEPT !.it[1] = f.di[inum] @@ [FreeSlot EXCEPT !.inum = inum, !.ref = 1,
                                                                     !.valid = TRUE]]

AppendTo(g, cells) == writei(g, 1, g.it[1].size, cells, TRUE).f
iappend(f, inum, cells) == AppendTo(Image(f, inum), cells)

\* ialloc() of mkfs.c: inodes are numbered in order, with one link.
NewInode(f, inum, type) == [f EXCEPT !.di[inum] = [FreeDinode EXCEPT !.type = type, !.nlink = 1]]

RECURSIVE AddFiles(_, _, _)
AddFiles(f, inum, files) ==
    IF files = <<>> THEN f
    ELSE AddFiles(iappend(iappend(NewInode(f, inum, "file"), ROOTINO,
                                  <<Dirent(inum, Head(files).name)>>),
                          inum, Head(files).cells),
                  inum + 1, Tail(files))

\* The root's size is rounded up to a whole number of blocks at the end.
Rounded(f) == [f EXCEPT !.di[ROOTINO].size = ((@ \div BSIZE) + 1) * BSIZE,
                        !.it[1] = FreeSlot, !.dirty = {}]

mkfs(files) ==
    Rounded(AddFiles(iappend(NewInode(EmptyDisk, ROOTINO, "dir"), ROOTINO,
                             <<Dirent(ROOTINO, "."), Dirent(ROOTINO, "..")>>),
                     ROOTINO + 1, files))
=============================================================================
