------------------------------ MODULE Umalloc ------------------------------
(***************************************************************************)
(* malloc() and free() of user/umalloc.c.  Memory is counted in units of   *)
(* one Header; hdr holds the headers, a block of size n being its header   *)
(* and n - 1 units after it.  The free blocks form a ring in order of      *)
(* address, with the empty block base below all of them; freep is where    *)
(* the last search ended.  The program holds the blocks in live.  A header *)
(* that no longer heads a block is user data and forgotten.                *)
(***************************************************************************)
EXTENDS Integers, FiniteSets

CONSTANTS MaxCore,   \* units that sbrk() can give
          MinCore,   \* units morecore() asks for at least (4096)
          MaxAsked   \* largest nunits asked for

UmallocAssumption == {MaxCore, MinCore, MaxAsked} \subseteq Nat \ {0, 1}

VARIABLES hdr, freep, brk, live

heap == <<hdr, freep, brk>>

Base == 0
HeapStart == 2
Limit == HeapStart + MaxCore
NoHeader == [ptr |-> 0, size |-> 0]
Heap == [hdr |-> hdr, freep |-> freep, brk |-> brk]

\* The heap before the first malloc(), which makes base a ring by itself.
Fresh == [hdr |-> [a \in Base .. Limit |-> NoHeader], freep |-> Base, brk |-> HeapStart]

Becomes(g) == hdr' = g.hdr /\ freep' = g.freep /\ brk' = g.brk

\* Where in the ring a block belongs: after p.
RECURSIVE Seek(_, _, _)
Seek(hd, bp, p) ==
    LET q == hd[p].ptr
    IN  IF (bp > p /\ bp < q) \/ (p >= q /\ (bp > p \/ bp < q)) THEN p ELSE Seek(hd, bp, q)

\* Mutant: the block is not joined with the one below it.
JoinLower_Never(hd, p, bp) == [hd EXCEPT ![p].ptr = bp]

JoinUpper(hd, p, bp) ==
    LET q == hd[p].ptr
    IN  IF bp + hd[bp].size = q THEN [hd EXCEPT ![bp] = [ptr |-> hd[q].ptr, size |-> @.size + hd[q].size],
                                                            ![q] = NoHeader]
        ELSE [hd EXCEPT ![bp].ptr = q]
JoinLower(hd, p, bp) ==
    IF p + hd[p].size = bp THEN [hd EXCEPT ![p] = [ptr |-> hd[bp].ptr, size |-> @.size + hd[bp].size],
                                                  ![bp] = NoHeader]
    ELSE [hd EXCEPT ![p].ptr = bp]
Put(g, bp, p) == [g EXCEPT !.hdr = JoinLower(JoinUpper(g.hdr, p, bp), p, bp), !.freep = p]
free(g, bp) == Put(g, bp, Seek(g.hdr, bp, g.freep))

\* 0 in ok: sbrk() failed.
morecore(g, nu) ==
    LET n == IF nu < MinCore THEN MinCore ELSE nu
    IN  IF g.brk + n > Limit THEN [ok |-> FALSE, g |-> g]
        ELSE [ok |-> TRUE,
              g |-> free([g EXCEPT !.hdr[g.brk].size = n, !.brk = @ + n], g.brk)]

\* A block of nunits is cut from the end of p, or is p.
Cut(g, prevp, p, nunits) ==
    LET a == p + g.hdr[p].size - nunits
    IN  [a |-> a,
         g |-> [g EXCEPT !.freep = prevp,
                         !.hdr = IF a = p THEN [@ EXCEPT ![prevp].ptr = g.hdr[p].ptr, ![p].ptr = 0]
                                 ELSE [@ EXCEPT ![p].size = @ - nunits, ![a].size = nunits]]]

\* The search, at p; a is the block found, 0 for none.
RECURSIVE Search(_, _, _, _)
Extended(m, nunits) ==
    IF m.ok THEN Search(m.g, m.g.freep, m.g.hdr[m.g.freep].ptr, nunits) ELSE [a |-> 0, g |-> m.g]
Search(g, prevp, p, nunits) ==
    IF g.hdr[p].size >= nunits THEN Cut(g, prevp, p, nunits)
    ELSE IF p = g.freep THEN Extended(morecore(g, nunits), nunits)
    ELSE Search(g, p, g.hdr[p].ptr, nunits)

Malloc(nunits) ==
    LET m == Search(Heap, freep, hdr[freep].ptr, nunits)
    IN  /\ Becomes(m.g)
        /\ live' = IF m.a = 0 THEN live ELSE live \cup {[a |-> m.a, n |-> nunits]}

Free(b) == live' = live \ {b} /\ Becomes(free(Heap, b.a))

Init == hdr = Fresh.hdr /\ freep = Fresh.freep /\ brk = Fresh.brk /\ live = {}

Next ==
    \/ \E n \in 2 .. MaxAsked : Malloc(n)
    \/ \E b \in live : Free(b)

-----------------------------------------------------------------------------
RECURSIVE Ring(_)
Ring(a) == IF hdr[a].ptr = Base THEN {a} ELSE {a} \cup Ring(hdr[a].ptr)
Units(a, n) == a .. a + n - 1
FreeBlocks == Ring(Base) \ {Base}

\* The blocks the program holds and the free ones fill the heap and do not
\* overlap, headers are not overwritten, and two free blocks never lie side by
\* side: what was freed can be given out again in one piece.
HeapTiled ==
    LET blocks == live \cup {[a |-> a, n |-> hdr[a].size] : a \in FreeBlocks}
    IN  /\ UNION {Units(b.a, b.n) : b \in blocks} = HeapStart .. brk - 1
        /\ \A b, c \in blocks : b # c => b.a + b.n <= c.a \/ c.a + c.n <= b.a
        /\ \A b \in live : hdr[b.a].size = b.n
        /\ \A a, b \in FreeBlocks : a + hdr[a].size # b
=============================================================================
