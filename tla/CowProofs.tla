----------------------------- MODULE CowProofs ------------------------------
\* What follows for copy-on-write fork from the invariant of CowForkProofs, for
\* any processes, pages and frames: reference counts are exact at every step,
\* and to its process a memory of shared pages is private.
EXTENDS CowFaultProofs

-----------------------------------------------------------------------------
\* The invariant.

\* exec leaves every frame it uses with one reference.
LEMMA CowInit == Init => CowInv
  <1> SUFFICES ASSUME NEW p \in Procs, NEW f \in Placements, NEW v \in Values, ExecLeft(p, f, v) PROVE CowInv
    BY DEF Init
  <1>0. NPages \in Nat /\ Pages = 0 .. NPages - 1 /\ 0 \in 0 .. NPages /\ NoFrame \notin Frames /\ NoProc \notin Procs
    BY CowAssumption DEF Pages
  <1>1. f \in [Pages -> Frames] /\ \A a, b \in Pages : f[a] = f[b] => a = b
    BY DEF Placements
  <1>2. /\ pa = [q \in Procs |-> IF q = p THEN f ELSE [a \in Pages |-> NoFrame]]
        /\ writable = [q \in Procs |-> [a \in Pages |-> q = p /\ a \notin Text]]
        /\ refcnt = [g \in Frames |-> IF \E a \in Pages : f[a] = g THEN 1 ELSE 0]
        /\ content = [g \in Frames |-> IF \E a \in Pages : f[a] = g THEN v ELSE Junk]
        /\ pc = [q \in Procs |-> IF q = p THEN "run" ELSE "dead"]
        /\ cow = [q \in Procs |-> [a \in Pages |-> FALSE]] /\ child = [q \in Procs |-> NoProc]
        /\ i = [q \in Procs |-> 0] /\ newpage = [q \in Procs |-> NoFrame]
    BY DEF ExecLeft
  <1>3. CowTypeOK
    BY <1>0, <1>1, <1>2 DEF CowTypeOK, Whole
  <1>4. /\ \A q \in Procs, a \in Pages : pa[q][a] = IF q = p THEN f[a] ELSE NoFrame
        /\ \A q \in Procs, a \in Pages : (writable[q][a] <=> q = p /\ a \notin Text) /\ ~cow[q][a]
        /\ \A q \in Procs : newpage[q] = NoFrame /\ child[q] = NoProc /\ pc[q] = IF q = p THEN "run" ELSE "dead"
    BY <1>2
  <1>5. Families /\ AtPage
    BY <1>4 DEF Families, AtPage
  <1>6. Mapped
    <2> SUFFICES ASSUME NEW q \in Procs PROVE MappedAt(pc[q], i[q], pa[q], pa[child[q]])
      BY DEF Mapped
    <2>1. CASE q = p
      BY <1>0, <1>1, <1>4, <2>1 DEF MappedAt
    <2>2. CASE q # p
      BY <1>4, <2>2 DEF MappedAt, Whole
    <2> QED
      BY <2>1, <2>2
  <1>7. Sharing
    <2>1. Kinds
      <3> SUFFICES ASSUME NEW q \in Procs, NEW a \in Pages
                   PROVE  IF pa[q][a] = NoFrame \/ a \in Text THEN ~writable[q][a] /\ ~cow[q][a] ELSE writable[q][a] <=> ~cow[q][a]
        BY DEF Kinds
      <3>1. pa[q][a] = NoFrame <=> q # p
        BY <1>0, <1>1, <1>4
      <3> QED
        BY <1>4, <3>1
    <2>2. SamePage
      <3> SUFFICES ASSUME NEW q \in Procs, NEW r \in Procs, NEW a \in Pages, NEW b \in Pages, pa[q][a] = pa[r][b], pa[q][a] # NoFrame
                   PROVE  a = b
        BY DEF SamePage
      <3> QED
        BY <1>1, <1>4
    <2>3. WritableAlone
      <3> SUFFICES ASSUME NEW q \in Procs, NEW r \in Procs, NEW a \in Pages, writable[q][a], pa[r][a] = pa[q][a]
                   PROVE  q = r
        BY DEF WritableAlone
      <3> QED
        BY <1>0, <1>1, <1>4
    <2>4. NewAlone /\ Copied
      BY <1>4 DEF NewAlone, Copied
    <2> QED
      BY <2>1, <2>2, <2>3, <2>4 DEF Sharing
  <1>8. ASSUME NEW g \in Frames PROVE refcnt[g] = Cardinality(Refs(Held, g))
    <2>1. HeldIs
      BY <1>3, HeldFacts
    <2>2. \A q \in Procs : \A a : ~BeingCounted(q, a)
      BY <1>4 DEF BeingCounted
    <2>3. ASSUME NEW q \in Procs, NEW a \in 0 .. NPages, Held[q][a] = g PROVE q = p /\ a \in Pages /\ f[a] = g
      <3>1. CASE a \in Pages
        BY <1>0, <1>4, <2>1, <2>2, <2>3, <3>1 DEF HeldIs
      <3>2. CASE a = NPages
        BY <1>0, <1>4, <2>1, <2>3, <3>2 DEF HeldIs
      <3> QED
        BY <1>0, <3>1, <3>2
    <2>4. ASSUME NEW a \in Pages, f[a] = g PROVE Held[p][a] = g /\ a \in 0 .. NPages
      BY <1>0, <1>4, <2>1, <2>2, <2>4 DEF HeldIs
    <2>5. CASE \E a \in Pages : f[a] = g
      <3>1. PICK a \in Pages : f[a] = g
        BY <2>5
      <3>2. Refs(Held, g) = {<<p, a>>}
        <4>1. <<p, a>> \in Refs(Held, g)
          BY <2>4, <3>1 DEF Refs, Places
        <4>2. ASSUME NEW x \in Refs(Held, g) PROVE x = <<p, a>>
          <5>1. x \in Places /\ Held[x[1]][x[2]] = g
            BY DEF Refs
          <5>2. x = <<x[1], x[2]>> /\ x[1] \in Procs /\ x[2] \in 0 .. NPages
            BY <5>1 DEF Places
          <5>3. x[1] = p /\ x[2] \in Pages /\ f[x[2]] = g
            BY <2>3, <5>1, <5>2
          <5>4. x[2] = a
            BY <1>1, <3>1, <5>3
          <5> QED
            BY <5>2, <5>3, <5>4
        <4> QED
          BY <4>1, <4>2
      <3> QED
        BY <1>2, <2>5, <3>2, FS_Singleton
    <2>6. CASE ~\E a \in Pages : f[a] = g
      <3>1. Refs(Held, g) = {}
        BY <2>3, <2>6 DEF Refs, Places
      <3> QED
        BY <1>2, <2>6, <3>1, FS_EmptySet
    <2> QED
      BY <2>5, <2>6
  <1>9. Exact(Held, refcnt)
    BY <1>8 DEF Exact
  <1> QED
    BY <1>3, <1>5, <1>6, <1>7, <1>9 DEF CowInv, Shape

\* Every step of the system keeps it.
LEMMA CowNext == CowInv /\ [Next]_vars => CowInv'
  <1> SUFFICES ASSUME CowInv, [Next]_vars PROVE CowInv'
    OBVIOUS
  <1>1. CASE Next
    <2>1. PICK p \in Procs :
            \/ \E c \in Procs : Fork(p, c)
            \/ uvmcopy(p) \/ cowalloc(p) \/ Exit(p) \/ Exited(p)
            \/ \E a \in Pages : Fault(p, a)
            \/ \E a \in Pages, v \in Values : Store(p, a, v) \/ copyout(p, a, v)
      BY <1>1 DEF Next
    <2>2. CASE \E c \in Procs : Fork(p, c)
      BY <2>2, ForkStep
    <2>3. CASE uvmcopy(p)
      BY <2>3, CopyMapStep, CopyFailsStep, CopyCountStep, CopyDoneStep, UndoStep, UndoneStep DEF uvmcopy
    <2>4. CASE cowalloc(p)
      BY <2>4, CowOwnStep, CowAllocStep, CowFailsStep, CowCopyStep, CowRemapStep DEF cowalloc
    <2>5. CASE Exit(p) \/ Exited(p)
      BY <2>5, ExitStep, ExitedStep
    <2>6. CASE \E a \in Pages : Fault(p, a)
      BY <2>6, FaultStep
    <2>7. CASE \E a \in Pages, v \in Values : Store(p, a, v) \/ copyout(p, a, v)
      BY <2>7, StoreStep, copyoutStep
    <2> QED
      BY <2>1, <2>2, <2>3, <2>4, <2>5, <2>6, <2>7
  <1>2. CASE UNCHANGED vars
    <2>1. UNCHANGED <<pagetables, refcnt, content, newpage>> /\ pc' = pc /\ i' = i /\ child' = child
      BY <1>2 DEF vars
    <2>2. Shape'
      BY <2>1 DEF CowInv, Shape, CowTypeOK, Families, AtPage, Mapped, pagetables
    <2> QED
      BY <2>1, <2>2, QuietStep
  <1> QED
    BY <1>1, <1>2

\* Page tables, reference counts and the frames in use fit together at every
\* step of every fork, fault, exit and write.
THEOREM CowInvariant == Spec => []CowInv
  BY CowInit, CowNext, PTL DEF Spec

-----------------------------------------------------------------------------
\* Exact reference counts.

\* As many as there are for each of them one.
LEMMA SameNumber ==
    ASSUME NEW S, NEW T, IsFiniteSet(S), NEW g \in [S -> T],
           \A x, y \in S : g[x] = g[y] => x = y, \A y \in T : \E x \in S : g[x] = y
    PROVE  IsFiniteSet(T) /\ Cardinality(T) = Cardinality(S)
  <1>1. g \in Bijection(S, T)
    BY DEF Bijection, Injection, IsInjective, Surjection
  <1>2. ExistsBijection(S, T)
    BY <1>1 DEF ExistsBijection
  <1> QED
    BY <1>2, FS_Bijection

\* Two sets that are apart.
LEMMA AddNumbers ==
    ASSUME NEW S, NEW T, IsFiniteSet(S), IsFiniteSet(T), S \cap T = {}
    PROVE  Cardinality(S \cup T) = Cardinality(S) + Cardinality(T)
  <1>1. Cardinality(S \cup T) = Cardinality(S) + Cardinality(T) - Cardinality(S \cap T)
    BY FS_Union
  <1>2. Cardinality(S \cap T) = 0
    BY FS_EmptySet
  <1>3. Cardinality(S) \in Nat /\ Cardinality(T) \in Nat
    BY FS_CardinalityType
  <1> QED
    BY <1>1, <1>2, <1>3

\* The places with a reference to f are its mappings, without those uvmcopy has
\* still to count, and where cowalloc has it.
LEMMA ExactCounts == CowInv => RefcntExact
  <1> SUFFICES ASSUME CowInv, NEW f \in Frames
               PROVE  refcnt[f] + Cardinality(Uncounted(f)) = Cardinality(Mappings(f)) + Cardinality(Pending(f))
    BY DEF RefcntExact
  <1>0. NPages \in Nat /\ Pages = 0 .. NPages - 1 /\ NPages \notin Pages /\ f # NoFrame
    BY CowAssumption DEF Pages
  <1>1. CowTypeOK /\ Families /\ AtPage /\ Mapped /\ Exact(Held, refcnt)
    BY DEF CowInv, Shape
  <1>2. HeldIs
    BY <1>1, HeldFacts
  <1> DEFINE C == {x \in Procs \X Pages : pa[x[1]][x[2]] = f /\ ~BeingCounted(x[1], x[2])}
             U == {x \in Procs \X Pages : pa[x[1]][x[2]] = f /\ BeingCounted(x[1], x[2])}
             N == {x \in Procs \X {NPages} : newpage[x[1]] = f}
  <1>3. Mappings(f) = C \cup U /\ C \cap U = {} /\ C \cap N = {}
    BY <1>0 DEF Mappings
  <1>4. Refs(Held, f) = C \cup N
    <2>1. ASSUME NEW q \in Procs, NEW a \in 0 .. NPages
          PROVE  Held[q][a] = f <=> \/ a \in Pages /\ pa[q][a] = f /\ ~BeingCounted(q, a)
                                    \/ a = NPages /\ newpage[q] = f
      <3>1. CASE a \in Pages
        BY <1>0, <1>2, <3>1 DEF HeldIs
      <3>2. CASE a = NPages
        BY <1>0, <1>2, <3>2 DEF HeldIs
      <3> QED
        BY <1>0, <3>1, <3>2
    <2>2. \A a : a \in 0 .. NPages <=> a \in Pages \/ a = NPages
      BY <1>0
    <2> QED
      BY <2>1, <2>2 DEF Refs, Places
  <1>5. IsFiniteSet(C) /\ IsFiniteSet(Uncounted(f)) /\ IsFiniteSet(Pending(f))
    <2>1. IsFiniteSet(C)
      BY <1>4, RefsFinite, FS_Subset
    <2> QED
      BY <2>1, CowAssumption, FS_Subset DEF Uncounted, Pending
  <1>6. IsFiniteSet(U) /\ Cardinality(U) = Cardinality(Uncounted(f))
    <2> DEFINE g == [r \in Uncounted(f) |-> <<child[r], i[r]>>]
    <2>1. ASSUME NEW r \in Procs, pc[r] = "count"
          PROVE  /\ i[r] \in Pages /\ child[r] \in Procs /\ pa[child[r]][i[r]] = pa[r][i[r]]
                 /\ BeingCounted(child[r], i[r])
      <3>1. i[r] \in Pages /\ child[r] \in Procs
        BY <1>1, <2>1 DEF AtPage, Families
      <3>2. i[r] <= i[r]
        BY <1>0, <3>1
      <3>3. pa[child[r]][i[r]] = pa[r][i[r]]
        BY <1>1, <2>1, <3>1, <3>2 DEF Mapped, MappedAt
      <3> QED
        BY <2>1, <3>1, <3>3 DEF BeingCounted
    <2>2. g \in [Uncounted(f) -> U]
      BY <2>1 DEF Uncounted
    <2>3. ASSUME NEW r \in Uncounted(f), NEW s \in Uncounted(f), g[r] = g[s] PROVE r = s
      <3>1. r \in Procs /\ s \in Procs /\ child[r] = child[s] /\ child[r] # NoProc
        BY <2>1, <2>3, CowAssumption DEF Uncounted
      <3> QED
        BY <1>1, <3>1 DEF Families
    <2>4. ASSUME NEW x \in U PROVE \E r \in Uncounted(f) : g[r] = x
      <3>1. x = <<x[1], x[2]>> /\ pa[x[1]][x[2]] = f /\ BeingCounted(x[1], x[2])
        OBVIOUS
      <3>2. PICK r \in Procs : pc[r] = "count" /\ child[r] = x[1] /\ i[r] = x[2]
        BY <3>1 DEF BeingCounted
      <3>3. r \in Uncounted(f)
        BY <2>1, <3>1, <3>2 DEF Uncounted
      <3> QED
        BY <3>1, <3>2, <3>3
    <2> HIDE DEF U, g
    <2> QED
      BY <1>5, <2>2, <2>3, <2>4, SameNumber
  <1>7. IsFiniteSet(N) /\ Cardinality(N) = Cardinality(Pending(f))
    <2> DEFINE g == [r \in Pending(f) |-> <<r, NPages>>]
    <2>1. g \in [Pending(f) -> N]
      BY DEF Pending
    <2>2. ASSUME NEW r \in Pending(f), NEW s \in Pending(f), g[r] = g[s] PROVE r = s
      BY <2>2
    <2>3. ASSUME NEW x \in N PROVE \E r \in Pending(f) : g[r] = x
      <3>1. x = <<x[1], NPages>> /\ x[1] \in Pending(f)
        BY DEF Pending
      <3> QED
        BY <3>1
    <2> HIDE DEF N, g
    <2> QED
      BY <1>5, <2>1, <2>2, <2>3, SameNumber
  <1>8. refcnt[f] = Cardinality(Refs(Held, f))
    BY <1>1 DEF Exact
  <1> HIDE DEF C, U, N
  <1>9. Cardinality(C \cup U) = Cardinality(C) + Cardinality(U) /\ Cardinality(C \cup N) = Cardinality(C) + Cardinality(N)
    BY <1>3, <1>5, <1>6, <1>7, AddNumbers
  <1>10. Cardinality(C) \in Nat /\ Cardinality(Uncounted(f)) \in Nat /\ Cardinality(Pending(f)) \in Nat
    BY <1>5, FS_CardinalityType
  <1> QED
    BY <1>3, <1>4, <1>6, <1>7, <1>8, <1>9, <1>10

\* A frame's count is the number of its mappings, but for a mapping uvmcopy is
\* about to count and a frame cowalloc is about to map: kfree never frees what
\* somebody uses, and nothing is lost.
THEOREM RefcntExactSafety == Spec => []RefcntExact
  BY CowInvariant, ExactCounts, PTL

-----------------------------------------------------------------------------
\* Private memories.

\* The memory of a process, page by page.
MemoryIs ==
    /\ DOMAIN Memory = Procs
    /\ \A p \in Procs : pc[p] \notin Whole => Memory[p] = NoProc
    /\ \A p \in Procs : pc[p] \in Whole =>
        Memory[p] # NoProc /\ DOMAIN Memory[p] = Pages /\ \A a \in Pages : Memory[p][a] = content[pa[p][a]]

\* It is so in every state.
LEMMA MemoryFacts == CowInv => MemoryIs
  <1> SUFFICES ASSUME CowInv PROVE MemoryIs
    OBVIOUS
  <1>1. CowTypeOK
    BY DEF CowInv, Shape
  <1>2. DOMAIN Memory = Procs
    BY DEF Memory
  <1>3. ASSUME NEW p \in Procs, pc[p] \notin Whole PROVE Memory[p] = NoProc
    <2>1. pc[p] \in {"dead", "born", "exit"}
      BY <1>1, <1>3 DEF CowTypeOK
    <2> QED
      BY <2>1 DEF Memory
  <1>4. ASSUME NEW p \in Procs, pc[p] \in Whole
        PROVE  Memory[p] # NoProc /\ DOMAIN Memory[p] = Pages /\ \A a \in Pages : Memory[p][a] = content[pa[p][a]]
    <2>1. Memory[p] = [a \in Pages |-> content[pa[p][a]]]
      BY <1>4 DEF Memory, Whole
    <2>2. \A a \in Pages : pa[p][a] \in Frames
      BY <1>4, NotNew
    <2>3. [a \in Pages |-> content[pa[p][a]]] \in [Pages -> Values \cup {Junk}]
      BY <1>1, <2>2 DEF CowTypeOK
    <2>4. NoProc \notin [Pages -> Values \cup {Junk}]
      BY CowAssumption
    <2> QED
      BY <2>1, <2>3, <2>4
  <1> QED
    BY <1>2, <1>3, <1>4 DEF MemoryIs

\* What memories are, before a step and after it.
LEMMA MemoryValue ==
    ASSUME CowTypeOK, CowTypeOK'
    PROVE  /\ Memory = [p \in Procs |-> IF pc[p] \in Whole THEN [a \in Pages |-> content[pa[p][a]]] ELSE NoProc]
           /\ Memory' = [p \in Procs |-> IF pc'[p] \in Whole THEN [a \in Pages |-> content'[pa'[p][a]]] ELSE NoProc]
  <1>1. \A p \in Procs : /\ pc[p] \in {"dead", "born", "exit"} <=> pc[p] \notin Whole
                         /\ pc'[p] \in {"dead", "born", "exit"} <=> pc'[p] \notin Whole
    BY DEF CowTypeOK, Whole
  <1> QED
    BY <1>1 DEF Memory

\* A process to which a step changes nothing it can see.
LEMMA SeenSame ==
    ASSUME CowTypeOK, CowTypeOK', NEW p \in Procs, pc'[p] \in Whole <=> pc[p] \in Whole,
           \A a \in Pages : pc[p] \in Whole => content'[pa'[p][a]] = content[pa[p][a]]
    PROVE  Memory'[p] = Memory[p]
  <1>1. CASE pc[p] \in Whole
    <2>1. [a \in Pages |-> content'[pa'[p][a]]] = [a \in Pages |-> content[pa[p][a]]]
      BY <1>1
    <2> QED
      BY <1>1, <2>1, MemoryValue
  <1>2. CASE pc[p] \notin Whole
    BY <1>2, MemoryValue
  <1> QED
    BY <1>1, <1>2

\* A step that changes nothing anybody can see.
LEMMA NotSeen ==
    ASSUME CowTypeOK, CowTypeOK', \A p \in Procs : pc'[p] \in Whole <=> pc[p] \in Whole,
           \A p \in Procs, a \in Pages : pc[p] \in Whole => content'[pa'[p][a]] = content[pa[p][a]]
    PROVE  Memory' = Memory
  <1>1. \A p \in Procs : Memory'[p] = Memory[p]
    BY SeenSame
  <1>2. Memory = [p \in Procs |-> Memory[p]] /\ Memory' = [p \in Procs |-> Memory'[p]]
    BY MemoryValue
  <1> QED
    BY <1>1, <1>2

\* A fork that does not end in this step is not seen.
LEMMA ForkNotSeen ==
    ASSUME CowInv, CowInv', NEW p \in Procs,
           (\E c \in Procs : Fork(p, c)) \/ CopyMap(p) \/ CopyFails(p) \/ CopyCount(p) \/ Undone(p)
    PROVE  Memory' = Memory
  <1>1. CowTypeOK /\ CowTypeOK' /\ Families
    BY DEF CowInv, Shape
  <1>2. CASE \E c \in Procs : Fork(p, c)
    <2>1. PICK c \in Procs : Fork(p, c)
      BY <1>2
    <2>2. pc[p] = "run" /\ pc[c] = "dead" /\ pc' = [pc EXCEPT ![p] = "map", ![c] = "born"] /\ pa' = pa /\ content' = content
      BY <2>1 DEF Fork, pagetables
    <2>3. \A q \in Procs : pc'[q] \in Whole <=> pc[q] \in Whole
      BY <1>1, <2>2 DEF CowTypeOK, Whole
    <2> QED
      BY <1>1, <2>2, <2>3, NotSeen
  <1>3. CASE CopyMap(p)
    <2>1. /\ pc[p] = "map" /\ pc' = [pc EXCEPT ![p] = "count"] /\ content' = content
          /\ pa' = [pa EXCEPT ![child[p]][i[p]] = pa[p][i[p]]]
      BY <1>3 DEF CopyMap, Share, Goto
    <2>2. child[p] \in Procs /\ pc[child[p]] = "born"
      BY <1>1, <2>1 DEF Families
    <2>3. \A q \in Procs : pc'[q] \in Whole <=> pc[q] \in Whole
      BY <1>1, <2>1 DEF CowTypeOK, Whole
    <2>4. \A q \in Procs : pc[q] \in Whole => pa'[q] = pa[q]
      BY <1>1, <2>1, <2>2 DEF CowTypeOK, Whole
    <2> QED
      BY <1>1, <2>1, <2>3, <2>4, NotSeen
  <1>4. CASE CopyFails(p) \/ CopyCount(p)
    <2>1. pa' = pa /\ content' = content /\ pc[p] \in Whole /\ \E w \in Whole : pc' = [pc EXCEPT ![p] = w]
      BY <1>4 DEF CopyFails, CopyCount, Goto, pagetables, Whole
    <2>2. \A q \in Procs : pc'[q] \in Whole <=> pc[q] \in Whole
      BY <1>1, <2>1 DEF CowTypeOK
    <2> QED
      BY <1>1, <2>1, <2>2, NotSeen
  <1>5. CASE Undone(p)
    <2>1. pc[p] = "undo" /\ pc' = [pc EXCEPT ![p] = "run", ![child[p]] = "dead"] /\ pa' = pa /\ content' = content
      BY <1>5 DEF Undone, pagetables
    <2>2. child[p] \in Procs /\ pc[child[p]] = "born"
      BY <1>1, <2>1 DEF Families
    <2>3. \A q \in Procs : pc'[q] \in Whole <=> pc[q] \in Whole
      BY <1>1, <2>1, <2>2 DEF CowTypeOK, Whole
    <2> QED
      BY <1>1, <2>1, <2>3, NotSeen
  <1> QED
    BY <1>2, <1>3, <1>4, <1>5

\* Nor is what its error path unmaps.
LEMMA UndoNotSeen ==
    ASSUME CowInv, CowInv', NEW p \in Procs, Undo(p) PROVE Memory' = Memory
  <1> DEFINE c == child[p]
             a == i[p]
  <1>1. CowTypeOK /\ CowTypeOK' /\ Families
    BY DEF CowInv, Shape
  <1>2. /\ pc[p] = "undo" /\ pc' = [pc EXCEPT ![p] = "undo"] /\ pa[c][a] # NoFrame /\ a \in Pages
        /\ pa' = [pa EXCEPT ![c][a] = NoFrame] /\ kfree(pa[c][a])
    BY <1>1, CowAssumption DEF Undo, Goto, Unmap, SetPTE, Pages, CowTypeOK
  <1>3. c \in Procs /\ pc[c] = "born" /\ \A q \in Procs : q # p => child[q] # c
    BY <1>1, <1>2, CowAssumption DEF Families
  <1> HIDE DEF c, a
  <1>4. ~BeingCounted(c, a)
    BY <1>2, <1>3 DEF BeingCounted
  <1>5. \A r \in Procs, b \in Pages : (r # c \/ b # a) /\ pa[r][b] # NoFrame => content'[pa[r][b]] = content[pa[r][b]]
    BY <1>2, <1>3, <1>4, FreeKeeps
  <1>6. \A q \in Procs : pc'[q] = pc[q] /\ (pc[q] \in Whole => q # c /\ pa'[q] = pa[q])
    BY <1>1, <1>2, <1>3 DEF CowTypeOK, Whole
  <1>7. \A q \in Procs, b \in Pages : pc[q] \in Whole => pa[q][b] # NoFrame
    BY DEF CowInv, Shape, Mapped, MappedAt
  <1> QED
    BY <1>1, <1>5, <1>6, <1>7, NotSeen

\* cowalloc is not seen, whether it finds memory or not.
LEMMA FaultNotSeen ==
    ASSUME CowInv, CowInv', NEW p \in Procs, (\E a \in Pages : Fault(p, a)) \/ cowalloc(p)
    PROVE  Memory' = Memory
  <1>1. CowTypeOK /\ CowTypeOK' /\ Shape /\ Sharing /\ Exact(Held, refcnt)
    BY DEF CowInv, Shape
  <1>2. \A q \in Procs : pc'[q] \in Whole <=> pc[q] \in Whole
    <2>1. pc[p] \in Whole /\ \E w \in Whole : pc' = [pc EXCEPT ![p] = w]
      BY DEF Fault, cowalloc, CowOwn, CowAlloc, CowFails, CowCopy, CowRemap, Goto, Whole
    <2> QED
      BY <1>1, <2>1 DEF CowTypeOK
  <1>3. \A q \in Procs, b \in Pages : pc[q] \in Whole => pa[q][b] \in Frames /\ pa[q][b] # NoFrame
    BY NotNew, CowAssumption
  <1>4. CASE (\E a \in Pages : Fault(p, a)) \/ CowFails(p)
    <2>1. pa' = pa /\ content' = content
      BY <1>4 DEF Fault, CowFails, pagetables
    <2> QED
      BY <1>1, <1>2, <2>1, NotSeen
  <1>5. CASE CowOwn(p)
    <2>1. pa' = pa /\ content' = content
      BY <1>5, CowOwnStep DEF CowOwn
    <2> QED
      BY <1>1, <1>2, <2>1, NotSeen
  <1>6. CASE \E f \in Frames : CowAlloc(p, f)
    <2>1. PICK f \in Frames : CowAlloc(p, f)
      BY <1>6
    <2>2. refcnt[f] = 0 /\ content' = [content EXCEPT ![f] = Junk] /\ pa' = pa
      BY <2>1 DEF CowAlloc, kalloc, pagetables
    <2>3. \A q \in Procs, b \in Pages : pa[q][b] # f
      BY <1>1, <2>2, NoReference
    <2>4. \A e \in Frames : e # f => content'[e] = content[e]
      BY <1>1, <2>2 DEF CowTypeOK
    <2> QED
      BY <1>1, <1>2, <1>3, <2>2, <2>3, <2>4, NotSeen
  <1>7. CASE CowCopy(p)
    <2> DEFINE f == newpage[p]
    <2>1. pc[p] = "copy" /\ content' = [content EXCEPT ![f] = content[pa[p][i[p]]]] /\ pa' = pa
      BY <1>7 DEF CowCopy, pagetables
    <2>2. f \in Frames /\ \A q \in Procs, b \in Pages : pa[q][b] # f
      BY <1>1, <2>1 DEF Shape, AtPage, CowTypeOK, Sharing, NewAlone
    <2> HIDE DEF f
    <2>3. \A e \in Frames : e # f => content'[e] = content[e]
      BY <1>1, <2>1 DEF CowTypeOK
    <2> QED
      BY <1>1, <1>2, <1>3, <2>1, <2>2, <2>3, NotSeen
  <1>8. CASE CowRemap(p)
    <2> DEFINE a == i[p]
               g == newpage[p]
    <2>1. pc[p] = "remap" /\ pa' = [pa EXCEPT ![p][a] = g] /\ kfree(pa[p][a])
      BY <1>8 DEF CowRemap, SetPTE
    <2>2. a \in Pages /\ g # NoFrame /\ content[g] = content[pa[p][a]] /\ pa[p][a] # NoFrame
      BY <1>1, <2>1, RemapsData, CowAssumption DEF Shape, AtPage, Sharing, Copied
    <2>3. ~BeingCounted(p, a)
      BY <1>1, <2>1, AllCounted
    <2>4. /\ \A r \in Procs, b \in Pages : (r # p \/ b # a) /\ pa[r][b] # NoFrame => content'[pa[r][b]] = content[pa[r][b]]
          /\ content'[g] = content[g]
      BY <2>1, <2>2, <2>3, FreeKeeps
    <2> HIDE DEF a, g
    <2>5. pa'[p][a] = g /\ \A r \in Procs, b \in Pages : r # p \/ b # a => pa'[r][b] = pa[r][b]
      BY <1>1, <2>1, <2>2 DEF CowTypeOK
    <2>6. ASSUME NEW q \in Procs, NEW b \in Pages, pc[q] \in Whole PROVE content'[pa'[q][b]] = content[pa[q][b]]
      <3>1. CASE q = p /\ b = a
        BY <2>2, <2>4, <2>5, <3>1
      <3>2. CASE q # p \/ b # a
        BY <1>3, <2>4, <2>5, <2>6, <3>2
      <3> QED
        BY <3>1, <3>2
    <2> QED
      BY <1>1, <1>2, <2>6, NotSeen
  <1> QED
    BY <1>4, <1>5, <1>6, <1>7, <1>8 DEF cowalloc

\* fork returns: the child has the memory of its parent.
LEMMA ForkSeen ==
    ASSUME CowInv, CowInv', NEW p \in Procs, CopyDone(p) PROVE \E c \in Procs : PM!AFork(p, c)
  <1> DEFINE c == child[p]
  <1>1. CowTypeOK /\ CowTypeOK' /\ Families /\ Mapped
    BY DEF CowInv, Shape
  <1>2. /\ pc[p] = "map" /\ i[p] = NPages /\ pc' = [pc EXCEPT ![p] = "run", ![c] = "run"]
        /\ pa' = pa /\ content' = content
    BY DEF CopyDone, pagetables
  <1>3. c \in Procs /\ pc[c] = "born"
    BY <1>1, <1>2 DEF Families
  <1>4. \A a \in Pages : pa[c][a] = pa[p][a]
    BY <1>1, <1>2, CowAssumption DEF Mapped, MappedAt, Pages
  <1> HIDE DEF c
  <1>5. /\ pc'[p] = "run" /\ pc'[c] = "run" /\ \A q \in Procs : q \notin {p, c} => pc'[q] = pc[q]
    BY <1>1, <1>2, <1>3 DEF CowTypeOK
  <1>6. Memory[p] # NoProc /\ Memory[c] = NoProc
    BY <1>2, <1>3, MemoryFacts DEF MemoryIs, Whole
  <1>7. \A q \in Procs : q # c => Memory'[q] = Memory[q]
    <2> SUFFICES ASSUME NEW q \in Procs, q # c PROVE Memory'[q] = Memory[q]
      OBVIOUS
    <2>1. pc'[q] \in Whole <=> pc[q] \in Whole
      BY <1>2, <1>5 DEF Whole
    <2> QED
      BY <1>1, <1>2, <2>1, SeenSame
  <1>8. Memory'[c] = Memory[p]
    <2>1. Memory'[c] = [a \in Pages |-> content[pa[c][a]]]
      <3>1. pc'[c] \in Whole
        BY <1>5 DEF Whole
      <3>2. Memory'[c] = [a \in Pages |-> content'[pa'[c][a]]]
        BY <1>1, <1>3, <3>1, MemoryValue
      <3> QED
        BY <1>2, <3>2
    <2>2. Memory[p] = [a \in Pages |-> content[pa[p][a]]]
      BY <1>1, <1>2, MemoryValue DEF Whole
    <2>3. [a \in Pages |-> content[pa[c][a]]] = [a \in Pages |-> content[pa[p][a]]]
      BY <1>4
    <2> QED
      BY <2>1, <2>2, <2>3
  <1>9. Memory = [q \in Procs |-> Memory[q]] /\ Memory' = [q \in Procs |-> Memory'[q]]
    BY <1>1, MemoryValue
  <1>10. Memory' = [Memory EXCEPT ![c] = Memory[p]]
    BY <1>3, <1>7, <1>8, <1>9
  <1> QED
    BY <1>3, <1>6, <1>10 DEF PM!AFork

\* exit: the memory is gone at once, though its pages are freed one by one.
LEMMA ExitSeen ==
    ASSUME CowInv, CowInv', NEW p \in Procs, Exit(p) \/ Exited(p) PROVE PM!AExit(p) \/ Memory' = Memory
  <1>1. CowTypeOK /\ CowTypeOK' /\ Shape
    BY DEF CowInv, Shape
  <1>2. CASE Exited(p)
    <2>1. pc[p] = "exit" /\ pc' = [pc EXCEPT ![p] = "dead"] /\ pa' = pa /\ content' = content
      BY <1>2 DEF Exited, Goto, pagetables
    <2>2. \A q \in Procs : pc'[q] \in Whole <=> pc[q] \in Whole
      BY <1>1, <2>1 DEF CowTypeOK, Whole
    <2> QED
      BY <1>1, <2>1, <2>2, NotSeen
  <1>3. CASE Exit(p)
    <2> DEFINE a == IF pc[p] = "run" THEN 0 ELSE i[p]
    <2>1. /\ pc[p] \in {"run", "exit"} /\ pc' = [pc EXCEPT ![p] = "exit"] /\ a \in Pages
          /\ pa' = [pa EXCEPT ![p][a] = NoFrame] /\ kfree(pa[p][a])
      BY <1>1, <1>3, CowAssumption DEF Exit, Goto, Unmap, SetPTE, Pages, CowTypeOK
    <2>2. pa[p][a] # NoFrame
      BY <1>1, <1>3, <2>1, CowAssumption DEF Exit, Shape, Mapped, MappedAt, Whole, Pages, CowTypeOK
    <2> HIDE DEF a
    <2>3. ~BeingCounted(p, a)
      BY <1>1, <2>1, AllCounted
    <2>4. \A r \in Procs, b \in Pages : (r # p \/ b # a) /\ pa[r][b] # NoFrame => content'[pa[r][b]] = content[pa[r][b]]
      BY <2>1, <2>2, <2>3, FreeKeeps
    <2>5. pc'[p] = "exit" /\ \A q \in Procs : q # p => pc'[q] = pc[q] /\ pa'[q] = pa[q]
      BY <1>1, <2>1 DEF CowTypeOK
    <2>6. \A q \in Procs, b \in Pages : pc[q] \in Whole => pa[q][b] # NoFrame
      BY DEF CowInv, Shape, Mapped, MappedAt
    <2>7. \A q \in Procs : q # p => Memory'[q] = Memory[q]
      <3> SUFFICES ASSUME NEW q \in Procs, q # p PROVE Memory'[q] = Memory[q]
        OBVIOUS
      <3> QED
        BY <1>1, <2>4, <2>5, <2>6, SeenSame
    <2>8. Memory'[p] = NoProc
      BY <1>1, <2>5, MemoryValue DEF Whole
    <2>9. Memory = [q \in Procs |-> Memory[q]] /\ Memory' = [q \in Procs |-> Memory'[q]]
      BY <1>1, MemoryValue
    <2>10. CASE Memory[p] # NoProc
      <3>1. Memory' = [Memory EXCEPT ![p] = NoProc]
        BY <2>7, <2>8, <2>9
      <3> QED
        BY <2>10, <3>1 DEF PM!AExit
    <2>11. CASE Memory[p] = NoProc
      BY <2>7, <2>8, <2>9, <2>11
    <2> QED
      BY <2>10, <2>11
  <1> QED
    BY <1>2, <1>3

\* m with v in place a.
Wrote(m, a, v) == [m EXCEPT ![a] = v]

\* Who sees a write to a frame: those who have it at that page.
LEMMA WriteSeen ==
    ASSUME CowInv, CowInv', NEW p \in Procs, NEW a \in Pages, NEW v \in Values, pc[p] = "run",
           content' = Wrote(content, pa[p][a], v), pa' = pa, pc' = pc, NEW q \in Procs
    PROVE  Memory'[q] = IF pc[q] \in Whole /\ pa[q][a] = pa[p][a] THEN Wrote(Memory[q], a, v) ELSE Memory[q]
  <1> DEFINE f == pa[p][a]
  <1>1. CowTypeOK /\ CowTypeOK' /\ Sharing
    BY DEF CowInv, Shape
  <1>2. pa' = pa /\ pc' = pc /\ content' = [content EXCEPT ![f] = v]
    BY DEF Wrote
  <1>3. f \in Frames
    BY NotNew DEF Whole
  <1>c. pa[p][a] = f
    OBVIOUS
  <1> HIDE DEF f
  <1>4. content'[f] = v /\ \A e \in Frames : e # f => content'[e] = content[e]
    BY <1>1, <1>2, <1>3 DEF CowTypeOK
  <1>5. CASE pc[q] \notin Whole
    BY <1>1, <1>2, <1>5, SeenSame
  <1>6. CASE pc[q] \in Whole
    <2>1. \A b \in Pages : pa[q][b] \in Frames /\ pa[q][b] # NoFrame
      BY <1>6, NotNew, CowAssumption
    <2>2. \A b \in Pages : pa[q][b] = f => b = a
      BY <1>1, <1>c, <2>1 DEF Sharing, SamePage
    <2>3. CASE pa[q][a] # f
      <3>1. \A b \in Pages : content'[pa'[q][b]] = content[pa[q][b]]
        BY <1>2, <1>4, <2>1, <2>2, <2>3
      <3> QED
        BY <1>1, <1>2, <1>c, <2>3, <3>1, SeenSame
    <2>4. CASE pa[q][a] = f
      <3>1. Memory'[q] = [b \in Pages |-> content'[pa[q][b]]] /\ Memory[q] = [b \in Pages |-> content[pa[q][b]]]
        BY <1>1, <1>2, <1>6, MemoryValue
      <3>2. \A b \in Pages : content'[pa[q][b]] = IF b = a THEN v ELSE content[pa[q][b]]
        BY <1>4, <2>1, <2>2, <2>4
      <3>3. Memory'[q] = Wrote(Memory[q], a, v)
        BY <3>1, <3>2 DEF Wrote
      <3> QED
        BY <1>6, <1>c, <2>4, <3>3
    <2> QED
      BY <2>3, <2>4
  <1> QED
    BY <1>5, <1>6

\* A store: nobody else sees it.
LEMMA StoreSeen ==
    ASSUME CowInv, CowInv', NEW p \in Procs, NEW a \in Pages, NEW v \in Values, Store(p, a, v) PROVE PM!AWrite(p, a, v)
  <1>1. /\ pc[p] = "run" /\ writable[p][a] /\ content' = Wrote(content, pa[p][a], v) /\ pa' = pa /\ pc' = pc
    BY DEF Store, pagetables, Wrote
  <1>2. CowTypeOK /\ CowTypeOK' /\ \A q \in Procs : pa[q][a] = pa[p][a] => q = p
    BY <1>1 DEF CowInv, Shape, Sharing, WritableAlone
  <1>3. \A q \in Procs : Memory'[q] = IF q = p THEN Wrote(Memory[q], a, v) ELSE Memory[q]
    <2> SUFFICES ASSUME NEW q \in Procs PROVE Memory'[q] = IF q = p THEN Wrote(Memory[q], a, v) ELSE Memory[q]
      OBVIOUS
    <2>1. Memory'[q] = IF pc[q] \in Whole /\ pa[q][a] = pa[p][a] THEN Wrote(Memory[q], a, v) ELSE Memory[q]
      BY <1>1, WriteSeen
    <2>2. pc[q] \in Whole /\ pa[q][a] = pa[p][a] <=> q = p
      BY <1>1, <1>2 DEF Whole
    <2> QED
      BY <2>1, <2>2
  <1>4. Memory = [q \in Procs |-> Memory[q]] /\ Memory' = [q \in Procs |-> Memory'[q]]
    BY <1>2, MemoryValue
  <1>5. Memory' = [Memory EXCEPT ![p] = [Memory[p] EXCEPT ![a] = v]]
    BY <1>3, <1>4 DEF Wrote
  <1>6. Memory[p] # NoProc
    BY <1>1, MemoryFacts DEF MemoryIs, Whole
  <1> QED
    BY <1>5, <1>6 DEF PM!AWrite

\* A copyout to a page of the program: those who share it see it.
LEMMA copyoutSeen ==
    ASSUME CowInv, CowInv', NEW p \in Procs, NEW a \in Pages, NEW v \in Values, copyout(p, a, v)
    PROVE  a \in Text /\ \E seen \in SUBSET Procs : PM!AWriteReadOnly(seen, a, v)
  <1> DEFINE seen == {q \in Procs : pc[q] \in Whole /\ pa[q][a] = pa[p][a]}
  <1>1. /\ pc[p] = "run" /\ content' = Wrote(content, pa[p][a], v) /\ pa' = pa /\ pc' = pc
    BY DEF copyout, pagetables, Wrote
  <1>2. CowTypeOK /\ CowTypeOK' /\ a \in Text
    BY copyoutStep DEF CowInv, Shape
  <1>3. \A q \in Procs : Memory'[q] = IF q \in seen THEN Wrote(Memory[q], a, v) ELSE Memory[q]
    <2> SUFFICES ASSUME NEW q \in Procs PROVE Memory'[q] = IF q \in seen THEN Wrote(Memory[q], a, v) ELSE Memory[q]
      OBVIOUS
    <2>1. Memory'[q] = IF pc[q] \in Whole /\ pa[q][a] = pa[p][a] THEN Wrote(Memory[q], a, v) ELSE Memory[q]
      BY <1>1, WriteSeen
    <2> QED
      BY <2>1
  <1>4. Memory' = [q \in Procs |-> Memory'[q]]
    BY <1>2, MemoryValue
  <1>5. \A q \in seen : Memory[q] # NoProc
    BY MemoryFacts DEF MemoryIs
  <1> HIDE DEF seen
  <1>6. Memory' = [q \in Procs |-> IF q \in seen THEN Wrote(Memory[q], a, v) ELSE Memory[q]]
    BY <1>3, <1>4
  <1>7. PM!AWriteReadOnly(seen, a, v)
    BY <1>5, <1>6 DEF PM!AWriteReadOnly, Wrote
  <1>8. seen \in SUBSET Procs
    BY DEF seen
  <1> QED
    BY <1>2, <1>7, <1>8

\* One process has a memory at the start.
LEMMA InitSeen == Init => PM!AInit
  <1> SUFFICES ASSUME NEW p \in Procs, NEW f \in Placements, NEW v \in Values, ExecLeft(p, f, v) PROVE PM!AInit
    BY DEF Init
  <1>1. /\ pa = [q \in Procs |-> IF q = p THEN f ELSE [a \in Pages |-> NoFrame]]
        /\ content = [g \in Frames |-> IF \E a \in Pages : f[a] = g THEN v ELSE Junk]
        /\ pc = [q \in Procs |-> IF q = p THEN "run" ELSE "dead"] /\ f \in [Pages -> Frames]
    BY DEF ExecLeft, Placements
  <1> DEFINE m == [a \in Pages |-> v]
  <1>2. [a \in Pages |-> content[pa[p][a]]] = m
    BY <1>1
  <1>3. Memory = [q \in Procs |-> IF q = p THEN m ELSE NoProc]
    BY <1>1, <1>2 DEF Memory
  <1>4. m \in [Pages -> Values]
    OBVIOUS
  <1> HIDE DEF m
  <1> QED
    BY <1>3, <1>4 DEF PM!AInit

\* Every step is a step of the private memories, or none of them changes.
LEMMA NextSeen == CowInv /\ CowInv' /\ [Next]_vars => [PM!ANext]_Memory
  <1> SUFFICES ASSUME CowInv, CowInv', [Next]_vars PROVE PM!ANext \/ Memory' = Memory
    OBVIOUS
  <1>1. CASE Next
    <2>1. PICK p \in Procs :
            \/ \E c \in Procs : Fork(p, c)
            \/ uvmcopy(p) \/ cowalloc(p) \/ Exit(p) \/ Exited(p)
            \/ \E a \in Pages : Fault(p, a)
            \/ \E a \in Pages, v \in Values : Store(p, a, v) \/ copyout(p, a, v)
      BY <1>1 DEF Next
    <2>2. CASE (\E c \in Procs : Fork(p, c)) \/ CopyMap(p) \/ CopyFails(p) \/ CopyCount(p) \/ Undone(p) \/ Undo(p)
      BY <2>2, ForkNotSeen, UndoNotSeen
    <2>3. CASE CopyDone(p)
      BY <2>3, ForkSeen DEF PM!ANext, PM!PrivateNext
    <2>4. CASE (\E a \in Pages : Fault(p, a)) \/ cowalloc(p)
      BY <2>4, FaultNotSeen
    <2>5. CASE Exit(p) \/ Exited(p)
      BY <2>5, ExitSeen DEF PM!ANext, PM!PrivateNext
    <2>6. CASE \E a \in Pages, v \in Values : Store(p, a, v)
      BY <2>6, StoreSeen DEF PM!ANext, PM!PrivateNext
    <2>7. CASE \E a \in Pages, v \in Values : copyout(p, a, v)
      BY <2>7, copyoutSeen DEF PM!ANext
    <2> QED
      BY <2>1, <2>2, <2>3, <2>4, <2>5, <2>6, <2>7 DEF uvmcopy
  <1>2. CASE UNCHANGED vars
    BY <1>2 DEF vars, pagetables, Memory
  <1> QED
    BY <1>1, <1>2

\* Copy-on-write cannot be noticed: the pages a process writes behave as a
\* memory of its own, whatever forks, faults, failed allocations and exits
\* interleave with its stores.
THEOREM PrivateMemoryRefinement == Spec => ImplementsPrivateMemory
  BY CowInvariant, InitSeen, NextSeen, PTL DEF Spec, ImplementsPrivateMemory, PM!ASpec
=============================================================================
