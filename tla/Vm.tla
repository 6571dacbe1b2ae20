--------------------------------- MODULE Vm ---------------------------------
(***************************************************************************)
(* Physical pages and user page tables (kernel/kalloc.c, kernel/vm.c).     *)
(*                                                                         *)
(* h is the machine's memory: the free list, what is in every page, and    *)
(* the first panic.  A page table has a page for its root, one for every   *)
(* lower-level table in use (<<level, index>>, 0: none), and its leaf      *)
(* entries by virtual page.  The operators work on s = [ok, r, h, pt] and  *)
(* give such a record back: ok is FALSE where the code reports failure, r  *)
(* is a size it returns.  They run without other processes, which share    *)
(* nothing with them but the free list.                                    *)
(***************************************************************************)
EXTENDS Integers, Sequences, FiniteSets, TLC, Programs

CONSTANTS NPAGE,    \* physical pages
          PGSIZE,   \* bytes in a page
          FANOUT    \* entries of a page-table page (512)

VmAssumption == {NPAGE, PGSIZE, FANOUT} \subseteq Nat \ {0, 1}

Pages == 1 .. NPAGE
KernelPage == NPAGE + 1          \* the trampoline: kernel text
VPAGES == FANOUT * FANOUT * FANOUT
MAXVA == VPAGES * PGSIZE
TRAMPOLINE == VPAGES - 1
TRAPFRAME == VPAGES - 2

PGROUNDUP(sz) == ((sz + PGSIZE - 1) \div PGSIZE) * PGSIZE
Page(c) == [o \in 0 .. PGSIZE - 1 |-> c]
NUL == "0"

\* walk()'s path to virtual page v: its level-1 and level-0 tables.
L1(v) == <<1, v \div (FANOUT * FANOUT)>>
L0(v) == <<0, v \div FANOUT>>
Tables == ({1} \X (0 .. FANOUT - 1)) \cup ({0} \X (0 .. FANOUT * FANOUT - 1))
NoPte == [pa |-> 0, perm |-> {}]
EmptyTable(root) == [root |-> root, node |-> [t \in Tables |-> 0],
                     leaf |-> [v \in 0 .. VPAGES - 1 |-> NoPte]]
NoTable == EmptyTable(0)

panic(h, why) == [h EXCEPT !.panic = IF @ = "" THEN why ELSE @]
Working(h, pt) == [ok |-> TRUE, r |-> 0, h |-> h, pt |-> pt]
Failed(s) == [s EXCEPT !.ok = FALSE]
Panics(s, why) == [s EXCEPT !.h = panic(@, why)]

-----------------------------------------------------------------------------
\* kinit(): every page is freed once.
kinit == [free |-> [i \in 1 .. NPAGE |-> NPAGE + 1 - i], mem |-> [a \in Pages |-> Page("1")],
          panic |-> ""]

kfree(h, a) ==
    IF a \notin Pages THEN panic(h, "kfree")
    ELSE [h EXCEPT !.free = <<a>> \o @, !.mem[a] = Page("1")]

kalloc(h) ==
    IF h.free = <<>> THEN [a |-> 0, h |-> h]
    ELSE [a |-> Head(h.free), h |-> [h EXCEPT !.free = Tail(@), !.mem[Head(h.free)] = Page("5")]]

Zeroed(h, a) == [h EXCEPT !.mem[a] = Page(NUL)]

freemem(h) == Len(h.free) * PGSIZE

-----------------------------------------------------------------------------
(* Page tables *)

NewTable(s, t, k) ==
    IF k.a = 0 THEN Failed(s)
    ELSE [s EXCEPT !.h = Zeroed(k.h, k.a), !.pt.node[t] = k.a]
Down(s, t, alloc) ==
    CASE ~s.ok \/ s.pt.node[t] # 0 -> s
      [] s.ok /\ s.pt.node[t] = 0 /\ alloc -> NewTable(s, t, kalloc(s.h))
      [] OTHER -> Failed(s)

walk(s, v, alloc) ==
    IF v >= VPAGES THEN Panics(s, "walk") ELSE Down(Down(s, L1(v), alloc), L0(v), alloc)

\* The page a user may use at virtual page v, 0 for none.
walkaddr(pt, v) ==
    IF v \in 0 .. VPAGES - 1 /\ "U" \in pt.leaf[v].perm THEN pt.leaf[v].pa ELSE 0

SetPte(s, v, a, perm) ==
    CASE ~s.ok -> s
      [] s.ok /\ s.pt.leaf[v] # NoPte -> Panics(s, "mappages: remap")
      [] OTHER -> [s EXCEPT !.pt.leaf[v] = [pa |-> a, perm |-> perm]]
mappages(s, v, a, perm) == SetPte(walk(s, v, TRUE), v, a, perm)

\* n pages from virtual page v on.
RECURSIVE uvmunmap(_, _, _, _)
uvmunmap(s, v, n, do_free) ==
    IF n = 0 THEN s
    ELSE IF s.pt.leaf[v] = NoPte THEN Panics(s, "uvmunmap: not mapped")
    ELSE uvmunmap([s EXCEPT !.h = IF do_free THEN kfree(@, s.pt.leaf[v].pa) ELSE @,
                            !.pt.leaf[v] = NoPte],
                  v + 1, n - 1, do_free)

Created(k) ==
    IF k.a = 0 THEN Failed(Working(k.h, NoTable)) ELSE Working(Zeroed(k.h, k.a), EmptyTable(k.a))
uvmcreate(h) == Created(kalloc(h))

\* A negative size is a huge one: sizes are unsigned.
uvmdealloc(s, oldsz, newsz) ==
    IF newsz >= oldsz \/ newsz < 0 THEN [s EXCEPT !.r = oldsz]
    ELSE [uvmunmap(s, PGROUNDUP(newsz) \div PGSIZE,
                   (PGROUNDUP(oldsz) - PGROUNDUP(newsz)) \div PGSIZE, TRUE) EXCEPT !.r = newsz]

\* uvmalloc() gives up at address a: the pages since from are freed again.
GiveUp(s, a, from) == [uvmdealloc(s, a, from) EXCEPT !.r = 0, !.ok = FALSE]

\* The loop of uvmalloc(), at address a.
RECURSIVE Grow(_, _, _, _, _)
\* Without the kfree(mem) after a mappages() that failed.
Mapped_KeepsPage(m, k, a, from, newsz, perm) ==
    IF m.ok THEN Grow(m, a + PGSIZE, from, newsz, perm) ELSE GiveUp(m, a, from)
Mapped(m, k, a, from, newsz, perm) ==
    IF m.ok THEN Grow(m, a + PGSIZE, from, newsz, perm)
    ELSE GiveUp([m EXCEPT !.h = kfree(@, k.a)], a, from)
Grown(s, k, a, from, newsz, perm) ==
    IF k.a = 0 THEN GiveUp(s, a, from)
    ELSE Mapped(mappages([s EXCEPT !.h = Zeroed(k.h, k.a)], a \div PGSIZE, k.a, {"R", "U"} \cup perm),
                k, a, from, newsz, perm)
Grow(s, a, from, newsz, perm) ==
    IF a >= newsz THEN [s EXCEPT !.r = newsz] ELSE Grown(s, kalloc(s.h), a, from, newsz, perm)

uvmalloc(s, oldsz, newsz, perm) ==
    IF newsz < oldsz THEN [s EXCEPT !.r = oldsz]
    ELSE Grow(s, PGROUNDUP(oldsz), PGROUNDUP(oldsz), newsz, perm)

\* The order in which freewalk() frees the tables below the root.
PostOrder == For(FANOUT, LAMBDA i :
                For(FANOUT, LAMBDA j : << <<0, (i - 1) * FANOUT + j - 1>> >>) \o << <<1, i - 1>> >>)
RECURSIVE FreeTables(_, _, _)
FreeTables(h, pt, ts) ==
    IF ts = <<>> THEN kfree(h, pt.root)
    ELSE FreeTables(IF pt.node[Head(ts)] = 0 THEN h ELSE kfree(h, pt.node[Head(ts)]), pt, Tail(ts))

freewalk(s) ==
    IF \E v \in DOMAIN s.pt.leaf : s.pt.leaf[v] # NoPte THEN Panics(s, "freewalk: leaf")
    ELSE [s EXCEPT !.h = FreeTables(@, s.pt, PostOrder), !.pt = NoTable]

uvmfree(s, sz) == freewalk(uvmunmap(s, 0, PGROUNDUP(sz) \div PGSIZE, TRUE))

\* uvmcopy() into s from virtual page v on; old is the parent's page table.
RECURSIVE CopyFrom(_, _, _, _)
Undo_OneMore(s, v) == [uvmunmap([s EXCEPT !.ok = TRUE], 0, v + 1, TRUE) EXCEPT !.ok = FALSE]
Undo(s, v) == [uvmunmap([s EXCEPT !.ok = TRUE], 0, v, TRUE) EXCEPT !.ok = FALSE]
CopyMapped(m, k, old, v, n) ==
    IF m.ok THEN CopyFrom(m, old, v + 1, n) ELSE Undo([m EXCEPT !.h = kfree(@, k.a)], v)
Copied(s, k, old, v, n) ==
    IF k.a = 0 THEN Undo(s, v)
    ELSE CopyMapped(mappages([s EXCEPT !.h = [k.h EXCEPT !.mem[k.a] = s.h.mem[old.leaf[v].pa]]],
                             v, k.a, old.leaf[v].perm), k, old, v, n)
CopyFrom(s, old, v, n) ==
    IF v = n THEN s
    ELSE IF old.leaf[v] = NoPte THEN Panics(s, "uvmcopy: page not present")
    ELSE Copied(s, kalloc(s.h), old, v, n)

uvmcopy(s, old, sz) == CopyFrom(s, old, 0, PGROUNDUP(sz) \div PGSIZE)

uvmclear_LeavesUser(s, v) == IF s.pt.node[L0(v)] = 0 THEN Panics(s, "uvmclear") ELSE s
uvmclear(s, v) ==
    IF s.pt.node[L0(v)] = 0 THEN Panics(s, "uvmclear") ELSE [s EXCEPT !.pt.leaf[v].perm = @ \ {"U"}]

-----------------------------------------------------------------------------
(* Between kernel and user memory; a page is looked up before its first byte *)

RECURSIVE copyout(_, _, _, _)
copyout(h, pt, va, src) ==
    LET a == walkaddr(pt, va \div PGSIZE)
    IN  IF src = <<>> THEN [ok |-> TRUE, h |-> h]
        ELSE IF a = 0 THEN [ok |-> FALSE, h |-> h]
        ELSE copyout([h EXCEPT !.mem[a][va % PGSIZE] = Head(src)], pt, va + 1, Tail(src))

ByteAt(h, pt, va) == h.mem[walkaddr(pt, va \div PGSIZE)][va % PGSIZE]

copyin(h, pt, va, n) ==
    IF \E x \in va .. va + n - 1 : walkaddr(pt, x \div PGSIZE) = 0 THEN [ok |-> FALSE, s |-> <<>>]
    ELSE [ok |-> TRUE, s |-> [i \in 1 .. n |-> ByteAt(h, pt, va + i - 1)]]

\* The length of the string at va, -1 if there is no NUL in max readable bytes.
copyinstr(h, pt, va, max) ==
    LET bad == {i \in 0 .. max - 1 : walkaddr(pt, (va + i) \div PGSIZE) = 0}
        ends == {i \in (0 .. max - 1) \ bad : ByteAt(h, pt, va + i) = NUL}
        len == CHOOSE i \in ends : \A j \in ends : i <= j
    IN  IF ends = {} THEN -1 ELSE IF \E i \in bad : i < len THEN -1 ELSE len
=============================================================================
