--------------------------- MODULE CowForkProofs ----------------------------
\* The inductive invariant of copy-on-write fork, what counting references
\* needs, and the proofs that fork, which gives out references, and the steps
\* that change no page table keep it: for any processes, pages and frames.
EXTENDS Cow, FiniteSetTheorems, TLAPS

\* A process that has all its pages.
Whole == {"run", "map", "count", "undo", "fault", "copy", "remap"}

CowTypeOK ==
    /\ pa \in [Procs -> [Pages -> Frames \cup {NoFrame}]]
    /\ writable \in [Procs -> [Pages -> BOOLEAN]] /\ cow \in [Procs -> [Pages -> BOOLEAN]]
    /\ refcnt \in [Frames -> Nat] /\ content \in [Frames -> Values \cup {Junk}]
    /\ pc \in [Procs -> Whole \cup {"dead", "born", "exit"}]
    /\ child \in [Procs -> Procs \cup {NoProc}]
    /\ i \in [Procs -> 0 .. NPages] /\ newpage \in [Procs -> Frames \cup {NoFrame}]

\* A process in fork has a child of its own, which does not run yet.
Families ==
    /\ \A p \in Procs : IF pc[p] \in {"map", "count", "undo"} THEN child[p] \in Procs /\ pc[child[p]] = "born"
                        ELSE child[p] = NoProc
    /\ \A p, q \in Procs : child[p] = child[q] /\ child[p] # NoProc => p = q

\* The page a loop or a fault is at.
AtPage ==
    \A p \in Procs :
        /\ pc[p] \in {"count", "fault", "copy", "remap"} => i[p] \in Pages
        /\ pc[p] \in {"fault", "copy", "remap"} => cow[p][i[p]]
        /\ newpage[p] # NoFrame <=> pc[p] \in {"copy", "remap"}

\* Which pages a process (m) and the child it is making (c) have mapped when it
\* is at page n of w: the loops of uvmcopy and uvmunmap.
MappedAt(w, n, m, c) ==
    \A a \in Pages :
        /\ w \in Whole => m[a] # NoFrame
        /\ w = "dead" => m[a] = NoFrame
        /\ w = "exit" => (m[a] = NoFrame <=> a < n)
        /\ w = "map" => c[a] = IF a < n THEN m[a] ELSE NoFrame
        /\ w = "count" => c[a] = IF a <= n THEN m[a] ELSE NoFrame
        /\ w = "undo" => /\ a < n => c[a] = NoFrame
                         /\ a >= n /\ c[a] = NoFrame => \A b \in Pages : b >= a => c[b] = NoFrame
Mapped == \A p \in Procs : MappedAt(pc[p], i[p], pa[p], pa[child[p]])

\* PTE_W and PTE_RSW: a page of the program is neither, any other page is one of them.
Kinds ==
    \A p \in Procs, a \in Pages :
        IF pa[p][a] = NoFrame \/ a \in Text THEN ~writable[p][a] /\ ~cow[p][a] ELSE writable[p][a] <=> ~cow[p][a]

\* A frame is the same page in every page table.
SamePage == \A p, q \in Procs, a, b \in Pages : pa[p][a] = pa[q][b] /\ pa[p][a] # NoFrame => a = b

\* A frame that can be written is in one page table only.
WritableAlone == \A p, q \in Procs, a \in Pages : writable[p][a] /\ pa[q][a] = pa[p][a] => p = q

\* The frame cowalloc has allocated is in no page table, and nobody else has it.
NewAlone ==
    \A p \in Procs : newpage[p] # NoFrame =>
        /\ \A q \in Procs, a \in Pages : pa[q][a] # newpage[p]
        /\ \A q \in Procs : newpage[q] = newpage[p] => p = q

\* What cowalloc has copied is still so when it changes the page table.
Copied == \A p \in Procs : pc[p] = "remap" => content[newpage[p]] = content[pa[p][i[p]]]

\* Places for a reference: a page, or newpage of cowalloc.
Places == Procs \X (0 .. NPages)

\* What is counted at each place: a mapping is once addrefcnt has been called.
BeingCounted(q, a) == \E p \in Procs : pc[p] = "count" /\ child[p] = q /\ i[p] = a
Held ==
    [q \in Procs |-> [a \in 0 .. NPages |->
        IF a = NPages THEN newpage[q] ELSE IF BeingCounted(q, a) THEN NoFrame ELSE pa[q][a]]]

Refs(h, f) == {x \in Places : h[x[1]][x[2]] = f}

\* The counts r are those of the places h.
Exact(h, r) == \A f \in Frames : r[f] = Cardinality(Refs(h, f))

Shape == CowTypeOK /\ Families /\ AtPage /\ Mapped
Sharing == Kinds /\ SamePage /\ WritableAlone /\ NewAlone /\ Copied
CowInv == Shape /\ Sharing /\ Exact(Held, refcnt)

-----------------------------------------------------------------------------
\* Counting references.

\* There are finitely many places.
LEMMA RefsFinite ==
    ASSUME NEW h, NEW f PROVE IsFiniteSet(Refs(h, f)) /\ Cardinality(Refs(h, f)) \in Nat
  <1>1. IsFiniteSet(Procs) /\ IsFiniteSet(0 .. NPages)
    BY CowAssumption, FS_Interval
  <1>2. IsFiniteSet(Places)
    BY <1>1, FS_Product, Zenon DEF Places
  <1>3. Refs(h, f) \subseteq Places
    BY DEF Refs
  <1> QED
    BY <1>2, <1>3, FS_Subset, FS_CardinalityType

Row == [0 .. NPages -> Frames \cup {NoFrame}]
HeldType == [Procs -> Row]

\* Place a of q holds f from now on.
Put(h, q, a, f) == [h EXCEPT ![q][a] = f]

\* Two rows are the same if their values are.
LEMMA SameRow ==
    ASSUME NEW x \in Row, NEW y \in Row, \A b \in 0 .. NPages : x[b] = y[b] PROVE x = y
  <1>1. x = [b \in 0 .. NPages |-> x[b]] /\ y = [b \in 0 .. NPages |-> y[b]]
    BY Zenon DEF Row
  <1>2. [b \in 0 .. NPages |-> x[b]] = [b \in 0 .. NPages |-> y[b]]
    BY Zenon
  <1> QED
    BY <1>1, <1>2, Zenon

\* What is held changes at one place.
LEMMA OnePlace ==
    ASSUME NEW h \in HeldType, NEW g \in HeldType, NEW q \in Procs, NEW a \in 0 .. NPages, NEW v,
           \A p \in Procs, b \in 0 .. NPages : g[p][b] = IF p = q /\ b = a THEN v ELSE h[p][b]
    PROVE  g = Put(h, q, a, v)
  <1>1. ASSUME NEW p \in Procs, p # q PROVE g[p] = h[p]
    <2>1. /\ g[p] \in Row /\ h[p] \in Row
          /\ \A b \in 0 .. NPages : g[p][b] = h[p][b]
      BY <1>1 DEF HeldType, Row
    <2> QED
      BY <2>1, SameRow
  <1>2. g[q] = [h[q] EXCEPT ![a] = v]
    BY Zenon DEF HeldType, Row
  <1> QED
    BY <1>1, <1>2 DEF HeldType, Row, Put

\* kalloc and addrefcnt: one more place has the frame.
LEMMA TakeRef ==
    ASSUME NEW h \in HeldType, NEW r \in [Frames -> Nat], Exact(h, r),
           NEW q \in Procs, NEW a \in 0 .. NPages, NEW f \in Frames, h[q][a] = NoFrame
    PROVE  Put(h, q, a, f) \in HeldType /\ Exact(Put(h, q, a, f), [r EXCEPT ![f] = @ + 1])
  <1> DEFINE g == Put(h, q, a, f)
             s == [r EXCEPT ![f] = @ + 1]
  <1>0. f # NoFrame
    BY CowAssumption
  <1>1. g \in HeldType /\ g[q][a] = f /\ \A p \in Procs, b \in 0 .. NPages : <<p, b>> # <<q, a>> => g[p][b] = h[p][b]
    BY Zenon DEF HeldType, Row, Put
  <1>2. s[f] = r[f] + 1 /\ \A e \in Frames : e # f => s[e] = r[e]
    OBVIOUS
  <1> HIDE DEF g, s
  <1>3. Refs(g, f) = Refs(h, f) \cup {<<q, a>>} /\ <<q, a>> \notin Refs(h, f)
    BY <1>0, <1>1 DEF Refs, Places
  <1>4. \A e \in Frames : e # f => Refs(g, e) = Refs(h, e)
    <2> SUFFICES ASSUME NEW e \in Frames, e # f PROVE Refs(g, e) = Refs(h, e)
      OBVIOUS
    <2>1. e # NoFrame
      BY CowAssumption
    <2> QED
      BY <1>1, <2>1 DEF Refs, Places
  <1>5. Cardinality(Refs(g, f)) = Cardinality(Refs(h, f)) + 1
    BY <1>3, RefsFinite, FS_AddElement, Zenon
  <1> QED
    BY <1>1, <1>2, <1>4, <1>5 DEF Exact, g, s

\* kfree: one place less has the frame.
LEMMA DropRef ==
    ASSUME NEW h \in HeldType, NEW r \in [Frames -> Nat], Exact(h, r),
           NEW q \in Procs, NEW a \in 0 .. NPages, NEW f \in Frames, h[q][a] = f
    PROVE  /\ r[f] >= 1 /\ [r EXCEPT ![f] = @ - 1] \in [Frames -> Nat]
           /\ Put(h, q, a, NoFrame) \in HeldType
           /\ Exact(Put(h, q, a, NoFrame), [r EXCEPT ![f] = @ - 1])
  <1> DEFINE g == Put(h, q, a, NoFrame)
             s == [r EXCEPT ![f] = @ - 1]
  <1>0. f # NoFrame
    BY CowAssumption
  <1>1. /\ g \in HeldType /\ g[q][a] = NoFrame
        /\ \A p \in Procs, b \in 0 .. NPages : <<p, b>> # <<q, a>> => g[p][b] = h[p][b]
    BY Zenon DEF HeldType, Row, Put
  <1>2. s[f] = r[f] - 1 /\ \A e \in Frames : e # f => s[e] = r[e]
    OBVIOUS
  <1> HIDE DEF g
  <1>3. Refs(g, f) = Refs(h, f) \ {<<q, a>>} /\ <<q, a>> \in Refs(h, f)
    BY <1>0, <1>1 DEF Refs, Places
  <1>4. \A e \in Frames : e # f => Refs(g, e) = Refs(h, e)
    <2> SUFFICES ASSUME NEW e \in Frames, e # f PROVE Refs(g, e) = Refs(h, e)
      OBVIOUS
    <2>1. e # NoFrame
      BY CowAssumption
    <2> QED
      BY <1>1, <2>1 DEF Refs, Places
  <1>5. Cardinality(Refs(g, f)) = Cardinality(Refs(h, f)) - 1
    BY <1>3, RefsFinite, FS_RemoveElement, Zenon
  <1>6. Cardinality(Refs(g, f)) \in Nat /\ Cardinality(Refs(h, f)) \in Nat /\ r[f] = Cardinality(Refs(h, f))
    BY RefsFinite DEF Exact
  <1>7. r[f] >= 1 /\ s \in [Frames -> Nat]
    BY <1>5, <1>6
  <1> HIDE DEF s
  <1> QED
    BY <1>1, <1>2, <1>4, <1>5, <1>6, <1>7 DEF Exact, g, s

\* What a count of 0 and a count of 1 mean.
LEMMA CountMeans ==
    ASSUME NEW h, NEW r, Exact(h, r), NEW f \in Frames
    PROVE  /\ r[f] = 0 => \A q \in Procs, a \in 0 .. NPages : h[q][a] # f
           /\ r[f] = 1 => \A p, q \in Procs, a, b \in 0 .. NPages : h[p][a] = f /\ h[q][b] = f => p = q /\ a = b
  <1>1. \A q \in Procs, a \in 0 .. NPages : h[q][a] = f => <<q, a>> \in Refs(h, f)
    BY DEF Refs, Places
  <1>2. r[f] = Cardinality(Refs(h, f)) /\ IsFiniteSet(Refs(h, f))
    BY RefsFinite DEF Exact
  <1>3. r[f] = 0 => Refs(h, f) = {}
    BY <1>2, FS_EmptySet, Zenon
  <1>4. r[f] = 1 => \E x : Refs(h, f) = {x}
    BY <1>2, FS_Singleton, Zenon
  <1>5. ASSUME r[f] = 1, NEW p \in Procs, NEW q \in Procs, NEW a \in 0 .. NPages, NEW b \in 0 .. NPages,
               h[p][a] = f, h[q][b] = f
        PROVE  p = q /\ a = b
    <2>1. PICK x : Refs(h, f) = {x}
      BY <1>4, <1>5
    <2>2. <<p, a>> \in {x} /\ <<q, b>> \in {x}
      BY <1>1, <1>5, <2>1
    <2>3. <<p, a>> = <<q, b>>
      BY <2>2
    <2> QED
      BY <2>3
  <1>6. ASSUME r[f] = 0, NEW q \in Procs, NEW a \in 0 .. NPages PROVE h[q][a] # f
    BY <1>1, <1>3, <1>6, Zenon
  <1> QED
    BY <1>5, <1>6

-----------------------------------------------------------------------------
\* What the counts say of page tables.

\* The places of references, one by one.
HeldIs ==
    /\ Held \in HeldType
    /\ \A q \in Procs : Held[q][NPages] = newpage[q]
    /\ \A q \in Procs, a \in Pages : Held[q][a] = IF BeingCounted(q, a) THEN NoFrame ELSE pa[q][a]

\* They are so in every state.
LEMMA HeldFacts == CowTypeOK => HeldIs
  <1> SUFFICES ASSUME CowTypeOK PROVE HeldIs
    OBVIOUS
  <1>0. NPages \in Nat /\ Pages = 0 .. NPages - 1
    BY CowAssumption DEF Pages
  <1>1. \A q \in Procs : Held[q][NPages] = newpage[q]
    BY <1>0 DEF Held
  <1>2. \A q \in Procs, a \in Pages : Held[q][a] = IF BeingCounted(q, a) THEN NoFrame ELSE pa[q][a]
    BY <1>0 DEF Held
  <1>3. ASSUME NEW q \in Procs, NEW a \in 0 .. NPages PROVE Held[q][a] \in Frames \cup {NoFrame}
    <2>1. a = NPages \/ a \in Pages
      BY <1>0
    <2> QED
      BY <1>1, <1>2, <2>1 DEF CowTypeOK
  <1>4. Held \in HeldType
    BY <1>3 DEF Held, HeldType, Row
  <1> QED
    BY <1>1, <1>2, <1>4 DEF HeldIs

\* Who runs, or has run, has all its mappings counted.
LEMMA AllCounted ==
    ASSUME Shape, NEW q \in Procs, pc[q] # "born", NEW a PROVE ~BeingCounted(q, a)
  BY DEF Shape, Families, BeingCounted

\* A frame with no reference is in no page table, and cowalloc does not have it.
LEMMA NoReference ==
    ASSUME Shape, Exact(Held, refcnt), NEW f \in Frames, refcnt[f] = 0
    PROVE  /\ \A p \in Procs, a \in Pages : pa[p][a] # f
           /\ \A p \in Procs : newpage[p] # f
  <1>0. NPages \in Nat /\ Pages = 0 .. NPages - 1
    BY CowAssumption DEF Pages
  <1>1. HeldIs
    BY HeldFacts DEF Shape
  <1>2. \A q \in Procs, a \in 0 .. NPages : Held[q][a] # f
    BY CountMeans
  <1>3. ASSUME NEW p \in Procs, NEW a \in Pages, ~BeingCounted(p, a) PROVE pa[p][a] # f
    BY <1>0, <1>1, <1>2, <1>3 DEF HeldIs
  <1>4. ASSUME NEW p \in Procs, NEW a \in Pages, BeingCounted(p, a) PROVE pa[p][a] # f
    <2>1. PICK r \in Procs : pc[r] = "count" /\ child[r] = p /\ i[r] = a
      BY <1>4 DEF BeingCounted
    <2>2. pa[p][a] = pa[r][a]
      BY <1>0, <2>1 DEF Shape, Mapped, MappedAt
    <2>3. ~BeingCounted(r, a)
      BY <2>1, AllCounted
    <2> QED
      BY <1>3, <2>2, <2>3
  <1>5. \A p \in Procs : newpage[p] # f
    BY <1>0, <1>1, <1>2 DEF HeldIs
  <1> QED
    BY <1>3, <1>4, <1>5

\* A frame with one reference is in one page table only, unless its count is
\* about to be raised.
LEMMA OneReference ==
    ASSUME Shape, Exact(Held, refcnt), NEW f \in Frames, refcnt[f] = 1,
           NEW q \in Procs, NEW b \in Pages, pa[q][b] = f, ~BeingCounted(q, b), pc[q] # "count"
    PROVE  /\ \A p \in Procs, a \in Pages : pa[p][a] = f => p = q /\ a = b
           /\ \A p \in Procs : newpage[p] # f
  <1>0. NPages \in Nat /\ Pages = 0 .. NPages - 1
    BY CowAssumption DEF Pages
  <1>1. HeldIs
    BY HeldFacts DEF Shape
  <1>2. \A p \in Procs, a \in 0 .. NPages : Held[p][a] = f => p = q /\ a = b
    <2>1. Held[q][b] = f /\ b \in 0 .. NPages
      BY <1>0, <1>1 DEF HeldIs
    <2> QED
      BY <2>1, CountMeans
  <1>3. ASSUME NEW p \in Procs, NEW a \in Pages, ~BeingCounted(p, a), pa[p][a] = f PROVE p = q /\ a = b
    BY <1>0, <1>1, <1>2, <1>3 DEF HeldIs
  <1>4. ASSUME NEW p \in Procs, NEW a \in Pages, BeingCounted(p, a) PROVE pa[p][a] # f
    <2>1. PICK r \in Procs : pc[r] = "count" /\ child[r] = p /\ i[r] = a
      BY <1>4 DEF BeingCounted
    <2>2. pa[p][a] = pa[r][a]
      BY <1>0, <2>1 DEF Shape, Mapped, MappedAt
    <2>3. ~BeingCounted(r, a)
      BY <2>1, AllCounted
    <2> QED
      BY <1>3, <2>1, <2>2, <2>3
  <1>5. \A p \in Procs : newpage[p] # f
    BY <1>0, <1>1, <1>2 DEF HeldIs
  <1> QED
    BY <1>3, <1>4, <1>5

\* Steps that neither map nor count.
LEMMA HeldSame ==
    ASSUME UNCHANGED <<pa, newpage>>,
           \A q \in Procs : (pc'[q] = "count" <=> pc[q] = "count")
                            /\ (pc[q] = "count" => child'[q] = child[q] /\ i'[q] = i[q])
    PROVE  Held' = Held
  <1>1. \A q \in Procs : \A a : BeingCounted(q, a)' <=> BeingCounted(q, a)
    BY DEF BeingCounted
  <1> QED
    BY <1>1 DEF Held

\* A process that does not move, and whose page tables do not change.
LEMMA MappedSame ==
    ASSUME Shape, NEW q \in Procs, pc'[q] = pc[q], i'[q] = i[q], child'[q] = child[q], pa'[q] = pa[q],
           child[q] \in Procs => pa'[child[q]] = pa[child[q]]
    PROVE  MappedAt(pc'[q], i'[q], pa'[q], pa'[child'[q]])
  <1>1. MappedAt(pc[q], i[q], pa[q], pa[child[q]])
    BY DEF Shape, Mapped
  <1>2. CASE child[q] \in Procs
    BY <1>1, <1>2
  <1>3. CASE child[q] \notin Procs
    <2>1. pc[q] \notin {"map", "count", "undo"}
      BY <1>3 DEF Shape, Families
    <2> QED
      BY <1>1, <2>1 DEF MappedAt
  <1> QED
    BY <1>2, <1>3

\* Page tables and frames stay as they are, and nobody gets to remap.
LEMMA SharingSame ==
    ASSUME Sharing, UNCHANGED <<pa, writable, cow, content, newpage>>,
           \A q \in Procs : pc'[q] = "remap" => pc[q] = "remap" /\ i'[q] = i[q]
    PROVE  Sharing'
  BY DEF Sharing, Kinds, SamePage, WritableAlone, NewAlone, Copied

-----------------------------------------------------------------------------
\* Steps that change no page table.

\* What all of them leave to show.
LEMMA QuietStep ==
    ASSUME CowInv, UNCHANGED <<pagetables, refcnt, content, newpage>>, Shape',
           \A q \in Procs : (pc'[q] = "count" <=> pc[q] = "count")
                            /\ (pc[q] = "count" => child'[q] = child[q] /\ i'[q] = i[q]),
           \A q \in Procs : pc'[q] = "remap" => pc[q] = "remap" /\ i'[q] = i[q]
    PROVE  CowInv'
  <1>1. Held' = Held
    BY HeldSame DEF pagetables
  <1>2. Sharing'
    BY SharingSame DEF CowInv, pagetables
  <1> QED
    BY <1>1, <1>2 DEF CowInv

\* fork starts with nothing mapped in the child.
LEMMA ForkStep ==
    ASSUME CowInv, NEW p \in Procs, NEW c \in Procs, Fork(p, c) PROVE CowInv'
  <1>0. /\ pc[p] = "run" /\ pc[c] = "dead" /\ pc' = [pc EXCEPT ![p] = "map", ![c] = "born"]
        /\ i' = [i EXCEPT ![p] = 0] /\ child' = [child EXCEPT ![p] = c]
        /\ pa' = pa /\ writable' = writable /\ cow' = cow /\ refcnt' = refcnt /\ content' = content /\ newpage' = newpage
    BY DEF Fork, pagetables
  <1>1. CowTypeOK /\ Families /\ AtPage /\ Mapped
    BY DEF CowInv, Shape
  <1>2. 0 \in 0 .. NPages
    BY CowAssumption
  <1>3. /\ p # c /\ pc'[p] = "map" /\ pc'[c] = "born" /\ i'[p] = 0 /\ child'[p] = c
        /\ \A q \in Procs \ {p, c} : pc'[q] = pc[q]
        /\ \A q \in Procs \ {p} : i'[q] = i[q] /\ child'[q] = child[q]
    BY <1>0, <1>1 DEF CowTypeOK
  <1>4. CowTypeOK'
    BY <1>0, <1>1, <1>2 DEF CowTypeOK, Whole
  <1>5. child[c] = NoProc /\ \A q \in Procs : child[q] # p /\ child[q] # c
    BY <1>0, <1>1, CowAssumption DEF Families
  <1>6. Families'
    <2>1. ASSUME NEW q \in Procs
          PROVE  IF pc'[q] \in {"map", "count", "undo"} THEN child'[q] \in Procs /\ pc'[child'[q]] = "born"
                 ELSE child'[q] = NoProc
      BY <1>1, <1>3, <1>5 DEF Families
    <2>2. ASSUME NEW q \in Procs, NEW r \in Procs, child'[q] = child'[r], child'[q] # NoProc PROVE q = r
      BY <1>1, <1>3, <1>5, <2>2 DEF Families
    <2> QED
      BY <2>1, <2>2 DEF Families
  <1>7. AtPage'
    BY <1>0, <1>1, <1>3, Zenon DEF AtPage
  <1>8. Mapped'
    <2>1. MappedAt(pc'[p], i'[p], pa'[p], pa'[child'[p]])
      <3>1. \A a \in Pages : pa[p][a] # NoFrame /\ pa[c][a] = NoFrame /\ ~(a < 0)
        BY <1>0, <1>1, CowAssumption DEF Mapped, MappedAt, Whole, Pages
      <3> QED
        BY <1>0, <1>3, <3>1 DEF MappedAt
    <2>2. MappedAt(pc'[c], i'[c], pa'[c], pa'[child'[c]])
      BY <1>3 DEF MappedAt, Whole
    <2>3. \A q \in Procs \ {p, c} : MappedAt(pc'[q], i'[q], pa'[q], pa'[child'[q]])
      BY <1>0, <1>3, MappedSame, Zenon DEF CowInv
    <2> QED
      BY <2>1, <2>2, <2>3 DEF Mapped
  <1> QED
    BY <1>0, <1>3, <1>4, <1>6, <1>7, <1>8, QuietStep, Zenon DEF Shape, pagetables

\* fork returns: parent and child have the same pages.
LEMMA CopyDoneStep ==
    ASSUME CowInv, NEW p \in Procs, CopyDone(p) PROVE CowInv'
  <1>0. /\ pc[p] = "map" /\ i[p] = NPages /\ pc' = [pc EXCEPT ![p] = "run", ![child[p]] = "run"]
        /\ i' = [i EXCEPT ![p] = 0] /\ child' = [child EXCEPT ![p] = NoProc]
        /\ pa' = pa /\ writable' = writable /\ cow' = cow /\ refcnt' = refcnt /\ content' = content /\ newpage' = newpage
    BY DEF CopyDone, pagetables
  <1>1. CowTypeOK /\ Families /\ AtPage /\ Mapped
    BY DEF CowInv, Shape
  <1> DEFINE c == child[p]
  <1>2. c \in Procs /\ pc[c] = "born" /\ c # p /\ 0 \in 0 .. NPages
    BY <1>0, <1>1, CowAssumption DEF Families
  <1> HIDE DEF c
  <1>3. /\ pc'[p] = "run" /\ pc'[c] = "run" /\ child'[p] = NoProc
        /\ \A q \in Procs \ {p, c} : pc'[q] = pc[q]
        /\ \A q \in Procs \ {p} : i'[q] = i[q] /\ child'[q] = child[q]
    BY <1>0, <1>1, <1>2 DEF CowTypeOK, c
  <1>4. CowTypeOK'
    BY <1>0, <1>1, <1>2 DEF CowTypeOK, Whole, c
  <1>5. child[c] = NoProc /\ child[p] = c /\ (\A q \in Procs : child[q] # p) /\ \A q \in Procs \ {p} : child[q] # c
    BY <1>0, <1>1, <1>2, CowAssumption DEF Families, c
  <1>6. Families'
    <2>1. ASSUME NEW q \in Procs
          PROVE  IF pc'[q] \in {"map", "count", "undo"} THEN child'[q] \in Procs /\ pc'[child'[q]] = "born"
                 ELSE child'[q] = NoProc
      BY <1>1, <1>2, <1>3, <1>5 DEF Families
    <2>2. ASSUME NEW q \in Procs, NEW r \in Procs, child'[q] = child'[r], child'[q] # NoProc PROVE q = r
      BY <1>1, <1>3, <2>2 DEF Families
    <2> QED
      BY <2>1, <2>2 DEF Families
  <1>7. AtPage'
    BY <1>0, <1>1, <1>2, <1>3, Zenon DEF AtPage
  <1>8. Mapped'
    <2>1. \A a \in Pages : pa[p][a] # NoFrame /\ pa[c][a] # NoFrame
      BY <1>0, <1>1, <1>5, CowAssumption DEF Mapped, MappedAt, Whole, Pages
    <2>2. \A q \in {p, c} : MappedAt(pc'[q], i'[q], pa'[q], pa'[child'[q]])
      BY <1>0, <1>3, <2>1 DEF MappedAt
    <2>3. \A q \in Procs \ {p, c} : MappedAt(pc'[q], i'[q], pa'[q], pa'[child'[q]])
      BY <1>0, <1>3, MappedSame, Zenon DEF CowInv
    <2> QED
      BY <2>2, <2>3 DEF Mapped
  <1> QED
    BY <1>0, <1>2, <1>3, <1>4, <1>6, <1>7, <1>8, QuietStep, Zenon DEF Shape, pagetables

\* A failed fork returns: the child has nothing mapped any more.
LEMMA UndoneStep ==
    ASSUME CowInv, NEW p \in Procs, Undone(p) PROVE CowInv'
  <1>0. /\ pc[p] = "undo" /\ (i[p] = NPages \/ pa[child[p]][i[p]] = NoFrame)
        /\ pc' = [pc EXCEPT ![p] = "run", ![child[p]] = "dead"]
        /\ i' = [i EXCEPT ![p] = 0] /\ child' = [child EXCEPT ![p] = NoProc]
        /\ pa' = pa /\ writable' = writable /\ cow' = cow /\ refcnt' = refcnt /\ content' = content /\ newpage' = newpage
    BY DEF Undone, pagetables
  <1>1. CowTypeOK /\ Families /\ AtPage /\ Mapped
    BY DEF CowInv, Shape
  <1> DEFINE c == child[p]
  <1>2. c \in Procs /\ pc[c] = "born" /\ c # p /\ 0 \in 0 .. NPages
    BY <1>0, <1>1, CowAssumption DEF Families
  <1> HIDE DEF c
  <1>3. /\ pc'[p] = "run" /\ pc'[c] = "dead" /\ child'[p] = NoProc
        /\ \A q \in Procs \ {p, c} : pc'[q] = pc[q]
        /\ \A q \in Procs \ {p} : i'[q] = i[q] /\ child'[q] = child[q]
    BY <1>0, <1>1, <1>2 DEF CowTypeOK, c
  <1>4. CowTypeOK'
    BY <1>0, <1>1, <1>2 DEF CowTypeOK, Whole, c
  <1>5. child[c] = NoProc /\ child[p] = c /\ (\A q \in Procs : child[q] # p) /\ \A q \in Procs \ {p} : child[q] # c
    BY <1>0, <1>1, <1>2, CowAssumption DEF Families, c
  <1>6. Families'
    <2>1. ASSUME NEW q \in Procs
          PROVE  IF pc'[q] \in {"map", "count", "undo"} THEN child'[q] \in Procs /\ pc'[child'[q]] = "born"
                 ELSE child'[q] = NoProc
      BY <1>1, <1>2, <1>3, <1>5 DEF Families
    <2>2. ASSUME NEW q \in Procs, NEW r \in Procs, child'[q] = child'[r], child'[q] # NoProc PROVE q = r
      BY <1>1, <1>3, <2>2 DEF Families
    <2> QED
      BY <2>1, <2>2 DEF Families
  <1>7. AtPage'
    BY <1>0, <1>1, <1>2, <1>3, Zenon DEF AtPage
  <1>8. Mapped'
    <2>0. NPages \in Nat /\ Pages = 0 .. NPages - 1 /\ i[p] \in 0 .. NPages
      BY <1>1, CowAssumption DEF CowTypeOK, Pages
    <2>1. MappedAt("undo", i[p], pa[p], pa[c])
      BY <1>0, <1>1, <1>5 DEF Mapped
    <2>2. \A a \in Pages : pa[p][a] # NoFrame
      BY <2>1 DEF MappedAt, Whole
    <2>3. \A a \in Pages : a < i[p] => pa[c][a] = NoFrame
      BY <2>1 DEF MappedAt
    <2>4. i[p] \in Pages => pa[c][i[p]] = NoFrame /\ \A b \in Pages : b >= i[p] => pa[c][b] = NoFrame
      BY <1>0, <1>5, <2>0, <2>1 DEF MappedAt
    <2>5. \A a \in Pages : pa[c][a] = NoFrame
      BY <2>0, <2>3, <2>4
    <2>6. \A q \in {p, c} : MappedAt(pc'[q], i'[q], pa'[q], pa'[child'[q]])
      BY <1>0, <1>3, <2>2, <2>5 DEF MappedAt, Whole
    <2>7. \A q \in Procs \ {p, c} : MappedAt(pc'[q], i'[q], pa'[q], pa'[child'[q]])
      BY <1>0, <1>3, MappedSame, Zenon DEF CowInv
    <2> QED
      BY <2>6, <2>7 DEF Mapped
  <1> QED
    BY <1>0, <1>2, <1>3, <1>4, <1>6, <1>7, <1>8, QuietStep, Zenon DEF Shape, pagetables

Forking == {"map", "count", "undo"}

\* Only p moves, and neither starts nor ends a fork.
LEMMA FamiliesSame ==
    ASSUME Families, pc \in [Procs -> Whole \cup {"dead", "born", "exit"}],
           NEW p \in Procs, NEW w, pc[p] \in Forking <=> w \in Forking, pc[p] # "born",
           pc' = [pc EXCEPT ![p] = w], child' = child
    PROVE  Families'
  <1>1. pc'[p] = w /\ \A q \in Procs \ {p} : pc'[q] = pc[q]
    OBVIOUS
  <1>2. \A q \in Procs : child[q] # p
    BY CowAssumption DEF Families
  <1>3. ASSUME NEW q \in Procs
        PROVE  IF pc'[q] \in Forking THEN child'[q] \in Procs /\ pc'[child'[q]] = "born" ELSE child'[q] = NoProc
    BY <1>1, <1>2 DEF Families, Forking
  <1>4. \A q, r \in Procs : child'[q] = child'[r] /\ child'[q] # NoProc => q = r
    BY DEF Families
  <1> QED
    BY <1>3, <1>4 DEF Families, Forking

\* The process is gone.
LEMMA ExitedStep ==
    ASSUME CowInv, NEW p \in Procs, Exited(p) PROVE CowInv'
  <1>0. /\ pc[p] = "exit" /\ i[p] = NPages /\ pc' = [pc EXCEPT ![p] = "dead"] /\ i' = [i EXCEPT ![p] = 0] /\ child' = child
        /\ pa' = pa /\ writable' = writable /\ cow' = cow /\ refcnt' = refcnt /\ content' = content /\ newpage' = newpage
    BY DEF Exited, Goto, pagetables
  <1>1. CowTypeOK /\ Families /\ AtPage /\ Mapped
    BY DEF CowInv, Shape
  <1>2. NPages \in Nat /\ Pages = 0 .. NPages - 1
    BY CowAssumption DEF Pages
  <1>3. pc'[p] = "dead" /\ \A q \in Procs \ {p} : pc'[q] = pc[q] /\ i'[q] = i[q]
    BY <1>0, <1>1 DEF CowTypeOK
  <1>4. CowTypeOK'
    BY <1>0, <1>1, <1>2 DEF CowTypeOK
  <1>5. Families'
    BY <1>0, <1>1, FamiliesSame, Zenon DEF CowTypeOK, Forking
  <1>6. AtPage'
    BY <1>0, <1>1, <1>3 DEF AtPage
  <1>7. Mapped'
    <2>1. \A a \in Pages : pa[p][a] = NoFrame
      BY <1>0, <1>1, <1>2 DEF Mapped, MappedAt
    <2>2. MappedAt(pc'[p], i'[p], pa'[p], pa'[child'[p]])
      BY <1>0, <1>3, <2>1 DEF MappedAt, Whole
    <2>3. \A q \in Procs \ {p} : MappedAt(pc'[q], i'[q], pa'[q], pa'[child'[q]])
      BY <1>0, <1>3, MappedSame DEF CowInv
    <2> QED
      BY <2>2, <2>3 DEF Mapped
  <1> QED
    BY <1>0, <1>3, <1>4, <1>5, <1>6, <1>7, QuietStep DEF Shape, pagetables

\* A process that keeps all its pages goes from one place outside fork to another.
LEMMA MoveWhole ==
    ASSUME Shape, NEW p \in Procs, NEW w \in {"run", "fault"}, NEW a \in 0 .. NPages,
           pc[p] \in {"run", "fault"}, w = "fault" => a \in Pages /\ cow[p][a],
           Goto(p, w, a), UNCHANGED <<pagetables, refcnt, content, child, newpage>>
    PROVE  /\ Shape' /\ pc'[p] = w
           /\ \A q \in Procs \ {p} : pc'[q] = pc[q] /\ i'[q] = i[q] /\ child'[q] = child[q]
  <1>0. /\ pc' = [pc EXCEPT ![p] = w] /\ i' = [i EXCEPT ![p] = a] /\ child' = child
        /\ pa' = pa /\ writable' = writable /\ cow' = cow /\ refcnt' = refcnt /\ content' = content /\ newpage' = newpage
    BY DEF Goto, pagetables
  <1>1. CowTypeOK /\ Families /\ AtPage /\ Mapped
    BY DEF Shape
  <1>3. pc'[p] = w /\ i'[p] = a /\ \A q \in Procs \ {p} : pc'[q] = pc[q] /\ i'[q] = i[q]
    BY <1>0, <1>1 DEF CowTypeOK
  <1>4. CowTypeOK'
    BY <1>0, <1>1 DEF CowTypeOK, Whole
  <1>5. Families'
    BY <1>0, <1>1, FamiliesSame, Zenon DEF CowTypeOK, Forking
  <1>6. AtPage'
    BY <1>0, <1>1, <1>3 DEF AtPage
  <1>7. Mapped'
    <2>1. \A b \in Pages : pa[p][b] # NoFrame
      BY <1>1 DEF Mapped, MappedAt, Whole
    <2>2. MappedAt(pc'[p], i'[p], pa'[p], pa'[child'[p]])
      BY <1>0, <1>3, <2>1 DEF MappedAt
    <2>3. \A q \in Procs \ {p} : MappedAt(pc'[q], i'[q], pa'[q], pa'[child'[q]])
      BY <1>0, <1>3, MappedSame
    <2> QED
      BY <2>2, <2>3 DEF Mapped
  <1> QED
    BY <1>0, <1>3, <1>4, <1>5, <1>6, <1>7 DEF Shape

\* A store to a copy-on-write page.
LEMMA FaultStep ==
    ASSUME CowInv, NEW p \in Procs, NEW a \in Pages, Fault(p, a) PROVE CowInv'
  <1>1. a \in 0 .. NPages
    BY CowAssumption DEF Pages
  <1>2. /\ Shape' /\ pc'[p] = "fault"
        /\ \A q \in Procs \ {p} : pc'[q] = pc[q] /\ i'[q] = i[q] /\ child'[q] = child[q]
    BY <1>1, MoveWhole DEF Fault, CowInv
  <1>3. pc[p] = "run" /\ UNCHANGED <<pagetables, refcnt, content, newpage>>
    BY DEF Fault
  <1> QED
    BY <1>2, <1>3, QuietStep

\* cowalloc finds no memory.
LEMMA CowFailsStep ==
    ASSUME CowInv, NEW p \in Procs, CowFails(p) PROVE CowInv'
  <1>1. 0 \in 0 .. NPages
    BY CowAssumption
  <1>2. /\ Shape' /\ pc'[p] = "run"
        /\ \A q \in Procs \ {p} : pc'[q] = pc[q] /\ i'[q] = i[q] /\ child'[q] = child[q]
    BY <1>1, MoveWhole DEF CowFails, CowInv
  <1>3. pc[p] = "fault" /\ UNCHANGED <<pagetables, refcnt, content, newpage>>
    BY DEF CowFails
  <1> QED
    BY <1>2, <1>3, QuietStep

-----------------------------------------------------------------------------
\* uvmcopy.

\* A fork goes on: only its process moves, within uvmcopy.
LEMMA ForkGoesOn ==
    ASSUME Shape, NEW p \in Procs, pc[p] \in Forking, NEW w \in Forking, NEW n \in 0 .. NPages, Goto(p, w, n), child' = child
    PROVE  /\ pc' \in [Procs -> Whole \cup {"dead", "born", "exit"}] /\ i' \in [Procs -> 0 .. NPages] /\ Families'
           /\ pc'[p] = w /\ i'[p] = n /\ \A q \in Procs \ {p} : pc'[q] = pc[q] /\ i'[q] = i[q]
           /\ child[p] \in Procs /\ pc[child[p]] = "born" /\ child[p] # p
           /\ \A q \in Procs : child[q] # p /\ (q # p => child[q] # child[p])
  <1>1. CowTypeOK /\ Families
    BY DEF Shape
  <1>2. pc' = [pc EXCEPT ![p] = w] /\ i' = [i EXCEPT ![p] = n]
    BY DEF Goto
  <1>3. Families'
    BY <1>1, <1>2, FamiliesSame, Zenon DEF CowTypeOK, Forking
  <1>4. child[p] \in Procs /\ pc[child[p]] = "born" /\ child[p] # p
    BY <1>1 DEF Families, Forking
  <1>5. \A q \in Procs : child[q] # p /\ (q # p => child[q] # child[p])
    BY <1>1, <1>4, CowAssumption DEF Families, Forking
  <1> QED
    BY <1>1, <1>2, <1>3, <1>4, <1>5 DEF CowTypeOK, Whole, Forking

\* uvmcopy maps a page of the parent in the child.
LEMMA CopyMapStep ==
    ASSUME CowInv, NEW p \in Procs, CopyMap(p) PROVE CowInv'
  <1> DEFINE c == child[p]
             a == i[p]
  <1>0. NPages \in Nat /\ Pages = 0 .. NPages - 1
    BY CowAssumption DEF Pages
  <1>1. CowTypeOK /\ Families /\ AtPage /\ Mapped /\ Shape /\ Sharing
    BY DEF CowInv, Shape
  <1>2. pc[p] = "map" /\ a \in Pages /\ a \in 0 .. NPages
    BY <1>0, <1>1 DEF CopyMap, CowTypeOK
  <1>3. /\ pc' \in [Procs -> Whole \cup {"dead", "born", "exit"}] /\ i' \in [Procs -> 0 .. NPages] /\ Families'
        /\ pc'[p] = "count" /\ i'[p] = a /\ \A q \in Procs \ {p} : pc'[q] = pc[q] /\ i'[q] = i[q]
        /\ c \in Procs /\ pc[c] = "born" /\ c # p
        /\ \A q \in Procs : child[q] # p /\ (q # p => child[q] # c)
    BY <1>1, <1>2, ForkGoesOn DEF CopyMap, Forking
  <1>4. child' = child /\ refcnt' = refcnt /\ content' = content /\ newpage' = newpage
    BY DEF CopyMap
  <1>5. /\ pa' = [pa EXCEPT ![c][a] = pa[p][a]]
        /\ writable' = [writable EXCEPT ![p][a] = FALSE, ![c][a] = FALSE]
        /\ cow' = [cow EXCEPT ![p][a] = cow[p][a] \/ writable[p][a], ![c][a] = cow[p][a] \/ writable[p][a]]
    BY DEF CopyMap, Share
  <1>c. child[p] = c /\ i[p] = a
    OBVIOUS
  <1> HIDE DEF c, a
  <1>6. /\ pa' \in [Procs -> [Pages -> Frames \cup {NoFrame}]] /\ pa'[c][a] = pa[p][a]
        /\ \A q \in Procs, b \in Pages : q # c \/ b # a => pa'[q][b] = pa[q][b]
        /\ \A q \in Procs \ {c} : pa'[q] = pa[q]
    BY <1>1, <1>2, <1>3, <1>5 DEF CowTypeOK
  <1>7. /\ writable' \in [Procs -> [Pages -> BOOLEAN]] /\ ~writable'[p][a] /\ ~writable'[c][a]
        /\ \A q \in Procs, b \in Pages : q \notin {p, c} \/ b # a => writable'[q][b] = writable[q][b]
    BY <1>1, <1>2, <1>3, <1>5, Zenon DEF CowTypeOK
  <1>8. /\ cow' \in [Procs -> [Pages -> BOOLEAN]]
        /\ (cow'[p][a] <=> cow[p][a] \/ writable[p][a]) /\ (cow'[c][a] <=> cow[p][a] \/ writable[p][a])
        /\ \A q \in Procs, b \in Pages : q \notin {p, c} \/ b # a => cow'[q][b] = cow[q][b]
    BY <1>1, <1>2, <1>3, <1>5, Zenon DEF CowTypeOK
  <1>9. pa[p][a] # NoFrame /\ pa[c][a] = NoFrame
    BY <1>0, <1>1, <1>2, <1>c DEF Mapped, MappedAt, Whole
  <1>10. Shape'
    <2>1. CowTypeOK'
      BY <1>1, <1>3, <1>4, <1>6, <1>7, <1>8 DEF CowTypeOK
    <2>2. AtPage'
      <3>1. ASSUME NEW q \in Procs, pc'[q] \in {"fault", "copy", "remap"} PROVE cow'[q][i'[q]]
        <4>1. q \notin {p, c} /\ pc[q] \in {"fault", "copy", "remap"} /\ i'[q] = i[q] /\ i[q] \in Pages /\ cow[q][i[q]]
          BY <1>1, <1>3, <3>1 DEF AtPage
        <4> QED
          BY <1>8, <4>1
      <3>2. ASSUME NEW q \in Procs
            PROVE  /\ pc'[q] \in {"count", "fault", "copy", "remap"} => i'[q] \in Pages
                   /\ newpage'[q] # NoFrame <=> pc'[q] \in {"copy", "remap"}
        BY <1>1, <1>2, <1>3, <1>4 DEF AtPage
      <3> QED
        BY <3>1, <3>2 DEF AtPage
    <2>3. Mapped'
      <3>1. MappedAt("map", a, pa[p], pa[c])
        BY <1>1, <1>2, <1>c DEF Mapped
      <3>2. \A b \in Pages : pa'[c][b] = IF b <= a THEN pa[p][b] ELSE NoFrame
        BY <1>0, <1>2, <1>3, <1>6, <3>1 DEF MappedAt
      <3>3. \A b \in Pages : pa[p][b] # NoFrame
        BY <3>1 DEF MappedAt, Whole
      <3>4. MappedAt(pc'[p], i'[p], pa'[p], pa'[child'[p]])
        BY <1>3, <1>4, <1>6, <1>c, <3>2, <3>3 DEF MappedAt
      <3>5. MappedAt(pc'[c], i'[c], pa'[c], pa'[child'[c]])
        BY <1>3 DEF MappedAt, Whole
      <3>6. \A q \in Procs \ {p, c} : MappedAt(pc'[q], i'[q], pa'[q], pa'[child'[q]])
        BY <1>1, <1>3, <1>4, <1>6, MappedSame
      <3> QED
        BY <3>4, <3>5, <3>6 DEF Mapped
    <2> QED
      BY <1>3, <2>1, <2>2, <2>3 DEF Shape
  <1>11. Sharing'
    <2>1. Kinds'
      <3>2. ASSUME NEW q \in Procs, NEW b \in Pages
            PROVE  IF pa'[q][b] = NoFrame \/ b \in Text THEN ~writable'[q][b] /\ ~cow'[q][b]
                   ELSE writable'[q][b] <=> ~cow'[q][b]
        <4>1. CASE b # a \/ q \notin {p, c}
          <5>1. writable'[q][b] = writable[q][b] /\ cow'[q][b] = cow[q][b] /\ pa'[q][b] = pa[q][b]
            BY <1>6, <1>7, <1>8, <4>1
          <5>2. IF pa[q][b] = NoFrame \/ b \in Text THEN ~writable[q][b] /\ ~cow[q][b]
                ELSE writable[q][b] <=> ~cow[q][b]
            BY <1>1 DEF Sharing, Kinds
          <5> QED
            BY <5>1, <5>2
        <4>2. CASE b = a /\ q \in {p, c}
          <5>1. pa'[q][b] = pa[p][a] /\ ~writable'[q][b] /\ (cow'[q][b] <=> cow[p][a] \/ writable[p][a])
            BY <1>3, <1>6, <1>7, <1>8, <4>2
          <5>2. IF a \in Text THEN ~writable[p][a] /\ ~cow[p][a] ELSE writable[p][a] <=> ~cow[p][a]
            BY <1>1, <1>2, <1>9 DEF Sharing, Kinds
          <5> QED
            BY <1>9, <4>2, <5>1, <5>2
        <4> QED
          BY <4>1, <4>2
      <3> QED
        BY <3>2 DEF Kinds
    <2>2. SamePage'
      <3>1. \A q \in Procs, b \in Pages : \E r \in Procs : pa'[q][b] = pa[r][b]
        BY <1>6
      <3> QED
        BY <1>1, <3>1 DEF Sharing, SamePage
    <2>3. WritableAlone'
      <3> SUFFICES ASSUME NEW q \in Procs, NEW r \in Procs, NEW b \in Pages, writable'[q][b], pa'[r][b] = pa'[q][b]
                   PROVE  q = r
        BY DEF WritableAlone
      <3>1. (q \notin {p, c} \/ b # a) /\ writable[q][b] /\ pa'[q][b] = pa[q][b]
        BY <1>6, <1>7
      <3>2. CASE r = c /\ b = a
        BY <1>1, <1>6, <3>1, <3>2 DEF Sharing, WritableAlone
      <3>3. CASE ~(r = c /\ b = a)
        BY <1>1, <1>6, <3>1, <3>3 DEF Sharing, WritableAlone
      <3> QED
        BY <3>2, <3>3
    <2>4. NewAlone'
      BY <1>1, <1>2, <1>4, <1>6 DEF Sharing, NewAlone
    <2>5. Copied'
      BY <1>1, <1>3, <1>4, <1>6 DEF Sharing, Copied
    <2> QED
      BY <2>1, <2>2, <2>3, <2>4, <2>5 DEF Sharing
  <1>12. Held' = Held
    <2>1. ASSUME NEW q \in Procs, NEW b \in Pages PROVE BeingCounted(q, b)' <=> BeingCounted(q, b) \/ (q = c /\ b = a)
      BY <1>2, <1>3, <1>4, <1>c DEF BeingCounted
    <2>2. ~BeingCounted(c, a)
      BY <1>2, <1>3 DEF BeingCounted
    <2>3. ASSUME NEW q \in Procs, NEW b \in 0 .. NPages, b # NPages
          PROVE  IF BeingCounted(q, b)' THEN NoFrame = Held[q][b] ELSE pa'[q][b] = Held[q][b]
      <3>1. b \in Pages
        BY <1>0, <2>3
      <3> QED
        BY <1>6, <1>9, <2>1, <2>2, <2>3, <3>1 DEF Held
    <2> QED
      BY <1>4, <2>3 DEF Held
  <1> QED
    BY <1>1, <1>4, <1>10, <1>11, <1>12 DEF CowInv

\* mappages fails: the page of the parent has become copy-on-write, and the
\* pages mapped so far are to be unmapped.
LEMMA CopyFailsStep ==
    ASSUME CowInv, NEW p \in Procs, CopyFails(p) PROVE CowInv'
  <1> DEFINE c == child[p]
             a == i[p]
  <1>0. NPages \in Nat /\ Pages = 0 .. NPages - 1
    BY CowAssumption DEF Pages
  <1>1. CowTypeOK /\ Families /\ AtPage /\ Mapped /\ Shape /\ Sharing
    BY DEF CowInv, Shape
  <1>2. pc[p] = "map" /\ a \in Pages /\ a \in 0 .. NPages /\ 0 \in 0 .. NPages
    BY <1>0, <1>1 DEF CopyFails, CowTypeOK
  <1>3. /\ pc' \in [Procs -> Whole \cup {"dead", "born", "exit"}] /\ i' \in [Procs -> 0 .. NPages] /\ Families'
        /\ pc'[p] = "undo" /\ i'[p] = 0 /\ \A q \in Procs \ {p} : pc'[q] = pc[q] /\ i'[q] = i[q]
        /\ c \in Procs /\ pc[c] = "born" /\ c # p
        /\ \A q \in Procs : child[q] # p /\ (q # p => child[q] # c)
    BY <1>1, <1>2, ForkGoesOn DEF CopyFails, Forking
  <1>4. pa' = pa /\ child' = child /\ refcnt' = refcnt /\ content' = content /\ newpage' = newpage
    BY DEF CopyFails
  <1>5. /\ writable' = [writable EXCEPT ![p][a] = FALSE]
        /\ cow' = [cow EXCEPT ![p][a] = cow[p][a] \/ writable[p][a]]
    BY DEF CopyFails
  <1>c. child[p] = c /\ i[p] = a
    OBVIOUS
  <1> HIDE DEF c, a
  <1>7. /\ writable' \in [Procs -> [Pages -> BOOLEAN]] /\ ~writable'[p][a]
        /\ \A q \in Procs, b \in Pages : q # p \/ b # a => writable'[q][b] = writable[q][b]
    BY <1>1, <1>2, <1>5, Zenon DEF CowTypeOK
  <1>8. /\ cow' \in [Procs -> [Pages -> BOOLEAN]] /\ (cow'[p][a] <=> cow[p][a] \/ writable[p][a])
        /\ \A q \in Procs, b \in Pages : q # p \/ b # a => cow'[q][b] = cow[q][b]
    BY <1>1, <1>2, <1>5 DEF CowTypeOK
  <1>9. pa[p][a] # NoFrame
    BY <1>0, <1>1, <1>2, <1>c DEF Mapped, MappedAt, Whole
  <1>10. Shape'
    <2>1. CowTypeOK'
      BY <1>1, <1>3, <1>4, <1>7, <1>8 DEF CowTypeOK
    <2>2. AtPage'
      <3>1. ASSUME NEW q \in Procs, pc'[q] \in {"fault", "copy", "remap"} PROVE cow'[q][i'[q]]
        <4>1. q # p /\ pc[q] \in {"fault", "copy", "remap"} /\ i'[q] = i[q] /\ i[q] \in Pages /\ cow[q][i[q]]
          BY <1>1, <1>3, <3>1 DEF AtPage
        <4> QED
          BY <1>8, <4>1
      <3>2. ASSUME NEW q \in Procs
            PROVE  /\ pc'[q] \in {"count", "fault", "copy", "remap"} => i'[q] \in Pages
                   /\ newpage'[q] # NoFrame <=> pc'[q] \in {"copy", "remap"}
        BY <1>1, <1>2, <1>3, <1>4 DEF AtPage
      <3> QED
        BY <3>1, <3>2 DEF AtPage
    <2>3. Mapped'
      <3>1. MappedAt("map", a, pa[p], pa[c])
        BY <1>1, <1>2, <1>c DEF Mapped
      <3>2. \A b \in Pages : pa[p][b] # NoFrame /\ ~(b < 0)
        BY <1>0, <3>1 DEF MappedAt, Whole
      <3>3. ASSUME NEW b \in Pages, pa[c][b] = NoFrame PROVE \A d \in Pages : d >= b => pa[c][d] = NoFrame
        BY <1>0, <1>2, <3>1, <3>2, <3>3 DEF MappedAt
      <3>4. MappedAt("undo", 0, pa[p], pa[c])
        BY <3>2, <3>3 DEF MappedAt
      <3>5. MappedAt(pc'[p], i'[p], pa'[p], pa'[child'[p]])
        BY <1>3, <1>4, <1>c, <3>4
      <3>6. \A q \in Procs \ {p} : MappedAt(pc'[q], i'[q], pa'[q], pa'[child'[q]])
        BY <1>1, <1>3, <1>4, MappedSame
      <3> QED
        BY <3>5, <3>6 DEF Mapped
    <2> QED
      BY <1>3, <2>1, <2>2, <2>3 DEF Shape
  <1>11. Sharing'
    <2>1. Kinds'
      <3>1. ASSUME NEW q \in Procs, NEW b \in Pages
            PROVE  IF pa'[q][b] = NoFrame \/ b \in Text THEN ~writable'[q][b] /\ ~cow'[q][b]
                   ELSE writable'[q][b] <=> ~cow'[q][b]
        <4>1. IF pa[q][b] = NoFrame \/ b \in Text THEN ~writable[q][b] /\ ~cow[q][b]
              ELSE writable[q][b] <=> ~cow[q][b]
          BY <1>1 DEF Sharing, Kinds
        <4>2. CASE b # a \/ q # p
          BY <1>4, <1>7, <1>8, <4>1, <4>2
        <4>3. CASE b = a /\ q = p
          BY <1>4, <1>7, <1>8, <1>9, <4>1, <4>3
        <4> QED
          BY <4>2, <4>3
      <3> QED
        BY <3>1 DEF Kinds
    <2>2. SamePage' /\ NewAlone'
      BY <1>1, <1>4 DEF Sharing, SamePage, NewAlone
    <2>3. WritableAlone'
      BY <1>1, <1>4, <1>7 DEF Sharing, WritableAlone
    <2>4. Copied'
      BY <1>1, <1>3, <1>4 DEF Sharing, Copied
    <2> QED
      BY <2>1, <2>2, <2>3, <2>4 DEF Sharing
  <1>12. Held' = Held
    BY <1>2, <1>3, <1>4, HeldSame
  <1> QED
    BY <1>1, <1>4, <1>10, <1>11, <1>12 DEF CowInv

\* addrefcnt: the mapping uvmcopy has made is counted.
LEMMA CopyCountStep ==
    ASSUME CowInv, NEW p \in Procs, CopyCount(p) PROVE CowInv'
  <1> DEFINE c == child[p]
             a == i[p]
             f == pa[p][a]
  <1>0. NPages \in Nat /\ Pages = 0 .. NPages - 1
    BY CowAssumption DEF Pages
  <1>1. CowTypeOK /\ Families /\ AtPage /\ Mapped /\ Shape /\ Sharing
    BY DEF CowInv, Shape
  <1>2. pc[p] = "count" /\ a \in Pages
    BY <1>1 DEF CopyCount, AtPage
  <1>d. a \in 0 .. NPages /\ a # NPages /\ a + 1 \in 0 .. NPages
    BY <1>0, <1>2
  <1>3. /\ pc' \in [Procs -> Whole \cup {"dead", "born", "exit"}] /\ i' \in [Procs -> 0 .. NPages] /\ Families'
        /\ pc'[p] = "map" /\ i'[p] = a + 1 /\ \A q \in Procs \ {p} : pc'[q] = pc[q] /\ i'[q] = i[q]
        /\ c \in Procs /\ pc[c] = "born" /\ c # p
        /\ \A q \in Procs : child[q] # p /\ (q # p => child[q] # c)
    BY <1>1, <1>2, <1>d, ForkGoesOn DEF CopyCount, Forking
  <1>4. pa' = pa /\ writable' = writable /\ cow' = cow /\ child' = child /\ content' = content /\ newpage' = newpage
    BY DEF CopyCount, pagetables
  <1>5. refcnt' = [refcnt EXCEPT ![f] = @ + 1]
    BY DEF CopyCount
  <1>c. child[p] = c /\ i[p] = a /\ pa[p][a] = f
    OBVIOUS
  <1> HIDE DEF c, a, f
  <1>6. MappedAt("count", a, pa[p], pa[c])
    BY <1>1, <1>2, <1>c DEF Mapped
  <1>7. f \in Frames /\ pa[c][a] = f
    BY <1>0, <1>1, <1>2, <1>6, <1>c DEF MappedAt, Whole, CowTypeOK
  <1>8. Shape'
    <2>1. CowTypeOK'
      BY <1>1, <1>3, <1>4, <1>5, <1>7 DEF CowTypeOK
    <2>2. AtPage'
      BY <1>1, <1>2, <1>3, <1>4 DEF AtPage
    <2>3. Mapped'
      <3>1. \A b \in Pages : b < a + 1 <=> b <= a
        BY <1>0, <1>2
      <3>2. MappedAt("map", a + 1, pa[p], pa[c])
        BY <1>6, <3>1 DEF MappedAt, Whole
      <3>3. MappedAt(pc'[p], i'[p], pa'[p], pa'[child'[p]])
        BY <1>3, <1>4, <1>c, <3>2
      <3>4. \A q \in Procs \ {p} : MappedAt(pc'[q], i'[q], pa'[q], pa'[child'[q]])
        BY <1>1, <1>3, <1>4, MappedSame
      <3> QED
        BY <3>3, <3>4 DEF Mapped
    <2> QED
      BY <1>3, <2>1, <2>2, <2>3 DEF Shape
  <1>9. Sharing'
    BY <1>1, <1>3, <1>4, SharingSame
  <1>10. Held' = Put(Held, c, a, f) /\ Held[c][a] = NoFrame /\ HeldIs
    <2>1. \A q \in Procs, b \in Pages : BeingCounted(q, b)' <=> BeingCounted(q, b) /\ ~(q = c /\ b = a)
      BY <1>2, <1>3, <1>4, <1>c DEF BeingCounted
    <2>2. BeingCounted(c, a)
      BY <1>2, <1>c DEF BeingCounted
    <2>3. HeldIs
      BY <1>1, HeldFacts
    <2>4. HeldIs'
      BY <1>8, HeldFacts, PTL DEF Shape
    <2>5. ASSUME NEW q \in Procs, NEW b \in 0 .. NPages PROVE Held'[q][b] = IF q = c /\ b = a THEN f ELSE Held[q][b]
      <3>1. CASE b \in Pages
        BY <1>4, <1>7, <2>1, <2>3, <2>4, <3>1 DEF HeldIs
      <3>2. CASE b = NPages
        BY <1>4, <1>d, <2>3, <2>4, <3>2 DEF HeldIs
      <3> QED
        BY <1>0, <3>1, <3>2
    <2>6. Held \in HeldType /\ Held' \in HeldType
      BY <2>3, <2>4 DEF HeldIs
    <2>7. Held' = Put(Held, c, a, f)
      BY <1>3, <1>d, <2>5, <2>6, OnePlace
    <2>8. Held[c][a] = NoFrame
      BY <1>2, <1>3, <2>2, <2>3 DEF HeldIs
    <2> QED
      BY <2>3, <2>7, <2>8
  <1>11. Exact(Held', refcnt')
    <2>1. Exact(Held, refcnt) /\ Held \in HeldType /\ refcnt \in [Frames -> Nat]
      BY <1>1, <1>10 DEF CowInv, HeldIs, CowTypeOK
    <2> QED
      BY <1>3, <1>5, <1>7, <1>10, <1>d, <2>1, TakeRef, Zenon
  <1>12. Exact(Held, refcnt)'
    BY <1>11 DEF Exact
  <1> QED
    BY <1>8, <1>9, <1>12 DEF CowInv
=============================================================================
