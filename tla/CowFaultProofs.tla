--------------------------- MODULE CowFaultProofs ---------------------------
\* The steps that give references back or move them keep the invariant of
\* CowForkProofs: unmapping, in exit and when fork fails, stores and cowalloc.
EXTENDS CowForkProofs

-----------------------------------------------------------------------------
\* uvmunmap.

\* kfree of a frame p has mapped: what anybody else has mapped, or cowalloc has
\* allocated, stays what it is.
LEMMA FreeKeeps ==
    ASSUME CowInv, NEW q \in Procs, NEW a \in Pages, pa[q][a] # NoFrame, ~BeingCounted(q, a), pc[q] # "count", kfree(pa[q][a])
    PROVE  /\ content' \in [Frames -> Values \cup {Junk}]
           /\ \A r \in Procs, b \in Pages : (r # q \/ b # a) /\ pa[r][b] # NoFrame => content'[pa[r][b]] = content[pa[r][b]]
           /\ \A r \in Procs : newpage[r] # NoFrame => newpage[r] # pa[q][a] /\ content'[newpage[r]] = content[newpage[r]]
  <1> DEFINE f == pa[q][a]
  <1>1. CowTypeOK /\ Shape /\ Sharing /\ Exact(Held, refcnt)
    BY DEF CowInv, Shape
  <1>2. content' = [content EXCEPT ![f] = IF refcnt[f] = 1 THEN Junk ELSE content[f]]
    BY DEF kfree
  <1>3. f \in Frames /\ pa[q][a] = f
    BY <1>1 DEF CowTypeOK
  <1> HIDE DEF f
  <1>4. /\ content' \in [Frames -> Values \cup {Junk}] /\ (refcnt[f] # 1 => content' = content)
        /\ \A e \in Frames : e # f => content'[e] = content[e]
    BY <1>1, <1>2, <1>3 DEF CowTypeOK
  <1>5. ASSUME NEW r \in Procs, NEW b \in Pages, r # q \/ b # a, pa[r][b] # NoFrame PROVE content'[pa[r][b]] = content[pa[r][b]]
    <2>1. pa[r][b] \in Frames
      BY <1>1, <1>5 DEF CowTypeOK
    <2>2. refcnt[f] = 1 => pa[r][b] # f
      BY <1>1, <1>3, <1>5, OneReference
    <2> QED
      BY <1>4, <2>1, <2>2
  <1>6. ASSUME NEW r \in Procs, newpage[r] # NoFrame PROVE newpage[r] # f /\ content'[newpage[r]] = content[newpage[r]]
    <2>1. newpage[r] \in Frames /\ newpage[r] # f
      BY <1>1, <1>3, <1>6 DEF CowTypeOK, Sharing, NewAlone
    <2> QED
      BY <1>4, <2>1
  <1> QED
    BY <1>3, <1>4, <1>5, <1>6

\* A page whose mapping is counted is unmapped and its frame loses a
\* reference; what others have mapped stays what it is.
LEMMA UnmapStep ==
    ASSUME CowInv, NEW q \in Procs, NEW a \in Pages, pa[q][a] # NoFrame, ~BeingCounted(q, a),
           pc[q] \notin {"count", "remap"}, Unmap(q, a), UNCHANGED <<child, newpage>>,
           \A r \in Procs : /\ pc'[r] = "count" <=> pc[r] = "count"
                            /\ pc[r] = "count" => i'[r] = i[r]
                            /\ pc'[r] = "remap" => pc[r] = "remap" /\ i'[r] = i[r]
    PROVE  /\ pa' \in [Procs -> [Pages -> Frames \cup {NoFrame}]] /\ pa'[q][a] = NoFrame
           /\ \A r \in Procs, b \in Pages : r # q \/ b # a => pa'[r][b] = pa[r][b]
           /\ \A r \in Procs \ {q} : pa'[r] = pa[r]
           /\ writable' \in [Procs -> [Pages -> BOOLEAN]] /\ cow' \in [Procs -> [Pages -> BOOLEAN]]
           /\ \A r \in Procs \ {q} : cow'[r] = cow[r]
           /\ refcnt' \in [Frames -> Nat] /\ content' \in [Frames -> Values \cup {Junk}]
           /\ \A r \in Procs, b \in Pages : (r # q \/ b # a) /\ pa[r][b] # NoFrame => content'[pa[r][b]] = content[pa[r][b]]
           /\ Sharing' /\ (CowTypeOK' => Exact(Held, refcnt)')
  <1> DEFINE f == pa[q][a]
  <1>0. NPages \in Nat /\ Pages = 0 .. NPages - 1
    BY CowAssumption DEF Pages
  <1>1. CowTypeOK /\ Families /\ AtPage /\ Mapped /\ Shape /\ Sharing /\ Exact(Held, refcnt)
    BY DEF CowInv, Shape
  <1>2. /\ pa' = [pa EXCEPT ![q][a] = NoFrame] /\ writable' = [writable EXCEPT ![q][a] = FALSE]
        /\ cow' = [cow EXCEPT ![q][a] = FALSE]
        /\ refcnt' = [refcnt EXCEPT ![f] = @ - 1]
        /\ content' = [content EXCEPT ![f] = IF refcnt[f] = 1 THEN Junk ELSE content[f]]
        /\ child' = child /\ newpage' = newpage
    BY DEF Unmap, SetPTE, kfree
  <1>3. f \in Frames /\ pa[q][a] = f /\ f # NoFrame
    BY <1>1 DEF CowTypeOK
  <1> HIDE DEF f
  <1>4. /\ pa' \in [Procs -> [Pages -> Frames \cup {NoFrame}]] /\ pa'[q][a] = NoFrame
        /\ \A r \in Procs, b \in Pages : r # q \/ b # a => pa'[r][b] = pa[r][b]
        /\ \A r \in Procs \ {q} : pa'[r] = pa[r]
    BY <1>1, <1>2 DEF CowTypeOK
  <1>5. /\ writable' \in [Procs -> [Pages -> BOOLEAN]] /\ cow' \in [Procs -> [Pages -> BOOLEAN]]
        /\ ~writable'[q][a] /\ ~cow'[q][a]
        /\ \A r \in Procs, b \in Pages : r # q \/ b # a => writable'[r][b] = writable[r][b] /\ cow'[r][b] = cow[r][b]
        /\ \A r \in Procs \ {q} : cow'[r] = cow[r]
    BY <1>1, <1>2, Zenon DEF CowTypeOK
  <1>6. HeldIs /\ Held \in HeldType /\ a \in 0 .. NPages /\ Held[q][a] = f
    BY <1>0, <1>1, <1>3, HeldFacts DEF HeldIs
  <1>7. /\ refcnt' \in [Frames -> Nat] /\ Put(Held, q, a, NoFrame) \in HeldType
        /\ Exact(Put(Held, q, a, NoFrame), refcnt')
    <2>1. refcnt \in [Frames -> Nat]
      BY <1>1 DEF CowTypeOK
    <2>2. Exact(Held, refcnt) /\ refcnt' = [refcnt EXCEPT ![f] = @ - 1]
      BY <1>1, <1>2
    <2>3. Held \in HeldType /\ a \in 0 .. NPages /\ f \in Frames /\ Held[q][a] = f /\ Exact(Held, refcnt)
      BY <1>3, <1>6, <2>2
    <2>4. Put(Held, q, a, NoFrame) \in HeldType
      BY <2>1, <2>3, DropRef, Zenon
    <2>5. [refcnt EXCEPT ![f] = @ - 1] \in [Frames -> Nat]
      BY <2>1, <2>3, DropRef, Zenon
    <2>6. Exact(Put(Held, q, a, NoFrame), [refcnt EXCEPT ![f] = @ - 1])
      BY <2>1, <2>3, DropRef, Zenon
    <2> QED
      BY <2>2, <2>4, <2>5, <2>6
  <1>8. /\ content' \in [Frames -> Values \cup {Junk}]
        /\ \A r \in Procs, b \in Pages : (r # q \/ b # a) /\ pa[r][b] # NoFrame => content'[pa[r][b]] = content[pa[r][b]]
        /\ \A r \in Procs : newpage[r] # NoFrame => content'[newpage[r]] = content[newpage[r]]
    BY FreeKeeps DEF Unmap
  <1>9. Sharing'
    <2>1. Kinds'
      <3>1. ASSUME NEW r \in Procs, NEW b \in Pages
            PROVE  IF pa'[r][b] = NoFrame \/ b \in Text THEN ~writable'[r][b] /\ ~cow'[r][b]
                   ELSE writable'[r][b] <=> ~cow'[r][b]
        <4>1. IF pa[r][b] = NoFrame \/ b \in Text THEN ~writable[r][b] /\ ~cow[r][b]
              ELSE writable[r][b] <=> ~cow[r][b]
          BY <1>1 DEF Sharing, Kinds
        <4>2. CASE r # q \/ b # a
          BY <1>4, <1>5, <4>1, <4>2
        <4>3. CASE r = q /\ b = a
          BY <1>4, <1>5, <4>3
        <4> QED
          BY <4>2, <4>3
      <3> QED
        BY <3>1 DEF Kinds
    <2>2. \A r \in Procs, b \in Pages : pa'[r][b] \in {NoFrame, pa[r][b]} /\ (writable'[r][b] => writable[r][b] /\ pa'[r][b] = pa[r][b])
      BY <1>4, <1>5
    <2>3. SamePage'
      BY <1>1, <2>2 DEF Sharing, SamePage
    <2>4. WritableAlone'
      <3> SUFFICES ASSUME NEW p \in Procs, NEW r \in Procs, NEW b \in Pages, writable'[p][b], pa'[r][b] = pa'[p][b]
                   PROVE  p = r
        BY DEF WritableAlone
      <3>1. writable[p][b] /\ pa'[p][b] = pa[p][b] /\ pa[p][b] # NoFrame
        BY <1>1, <2>2 DEF Sharing, Kinds
      <3> QED
        BY <1>1, <2>2, <3>1 DEF Sharing, WritableAlone
    <2>5. NewAlone'
      BY <1>1, <1>2, <2>2 DEF Sharing, NewAlone
    <2>6. Copied'
      <3> SUFFICES ASSUME NEW r \in Procs, pc'[r] = "remap" PROVE content'[newpage'[r]] = content'[pa'[r][i'[r]]]
        BY DEF Copied
      <3>1. pc[r] = "remap" /\ i'[r] = i[r] /\ r # q
        OBVIOUS
      <3>2. i[r] \in Pages /\ newpage[r] \in Frames /\ pa[r][i[r]] # NoFrame
        BY <1>1, <3>1 DEF AtPage, CowTypeOK, Mapped, MappedAt, Whole
      <3>3. content[newpage[r]] = content[pa[r][i[r]]]
        BY <1>1, <3>1 DEF Sharing, Copied
      <3>4. content'[newpage[r]] = content[newpage[r]] /\ content'[pa[r][i[r]]] = content[pa[r][i[r]]]
        BY <1>8, <3>1, <3>2, CowAssumption
      <3> QED
        BY <1>2, <1>4, <3>1, <3>3, <3>4
    <2> QED
      BY <2>1, <2>3, <2>4, <2>5, <2>6 DEF Sharing
  <1>10. ASSUME CowTypeOK' PROVE Exact(Held, refcnt)'
    <2>1. \A r \in Procs, b \in Pages : BeingCounted(r, b)' <=> BeingCounted(r, b)
      BY <1>2 DEF BeingCounted
    <2>2. HeldIs'
      BY <1>10, HeldFacts, PTL
    <2>3. ASSUME NEW r \in Procs, NEW b \in 0 .. NPages PROVE Held'[r][b] = IF r = q /\ b = a THEN NoFrame ELSE Held[r][b]
      <3>1. CASE b \in Pages
        <4>1. Held'[r][b] = IF BeingCounted(r, b) THEN NoFrame ELSE pa'[r][b]
          BY <2>1, <2>2, <3>1 DEF HeldIs
        <4>2. Held[r][b] = IF BeingCounted(r, b) THEN NoFrame ELSE pa[r][b]
          BY <1>6, <3>1 DEF HeldIs
        <4> QED
          BY <1>4, <3>1, <4>1, <4>2
      <3>2. CASE b = NPages
        <4>1. a # NPages
          BY <1>0
        <4> QED
          BY <1>2, <1>6, <2>2, <3>2, <4>1 DEF HeldIs
      <3> QED
        BY <1>0, <3>1, <3>2
    <2>4. Held' \in HeldType
      BY <2>2 DEF HeldIs
    <2>5. Held' = Put(Held, q, a, NoFrame)
      BY <1>6, <2>3, <2>4, OnePlace
    <2>6. Exact(Held', refcnt')
      BY <1>7, <2>5
    <2> QED
      BY <2>6 DEF Exact
  <1> QED
    BY <1>4, <1>5, <1>7, <1>8, <1>9, <1>10

\* The error path of uvmcopy unmaps a page of the child.
LEMMA UndoStep ==
    ASSUME CowInv, NEW p \in Procs, Undo(p) PROVE CowInv'
  <1> DEFINE c == child[p]
             a == i[p]
  <1>0. NPages \in Nat /\ Pages = 0 .. NPages - 1
    BY CowAssumption DEF Pages
  <1>1. CowTypeOK /\ Families /\ AtPage /\ Mapped /\ Shape
    BY DEF CowInv, Shape
  <1>2. pc[p] = "undo" /\ pa[c][a] # NoFrame /\ a \in Pages /\ a + 1 \in 0 .. NPages
    BY <1>0, <1>1 DEF Undo, CowTypeOK
  <1>3. /\ pc' \in [Procs -> Whole \cup {"dead", "born", "exit"}] /\ i' \in [Procs -> 0 .. NPages] /\ Families'
        /\ pc'[p] = "undo" /\ i'[p] = a + 1 /\ \A q \in Procs \ {p} : pc'[q] = pc[q] /\ i'[q] = i[q]
        /\ c \in Procs /\ pc[c] = "born" /\ c # p
        /\ \A q \in Procs : child[q] # p /\ (q # p => child[q] # c)
    BY <1>1, <1>2, ForkGoesOn DEF Undo, Forking
  <1>4. Unmap(c, a) /\ child' = child /\ newpage' = newpage
    BY DEF Undo
  <1>c. child[p] = c /\ i[p] = a
    OBVIOUS
  <1> HIDE DEF c, a
  <1>5. ~BeingCounted(c, a)
    BY <1>2, <1>3 DEF BeingCounted
  <1>6. /\ pa' \in [Procs -> [Pages -> Frames \cup {NoFrame}]] /\ pa'[c][a] = NoFrame
        /\ \A r \in Procs, b \in Pages : r # c \/ b # a => pa'[r][b] = pa[r][b]
        /\ \A r \in Procs \ {c} : pa'[r] = pa[r]
        /\ writable' \in [Procs -> [Pages -> BOOLEAN]] /\ cow' \in [Procs -> [Pages -> BOOLEAN]]
        /\ \A r \in Procs \ {c} : cow'[r] = cow[r]
        /\ refcnt' \in [Frames -> Nat] /\ content' \in [Frames -> Values \cup {Junk}]
        /\ Sharing' /\ (CowTypeOK' => Exact(Held, refcnt)')
    BY <1>2, <1>3, <1>4, <1>5, UnmapStep
  <1>7. CowTypeOK'
    BY <1>1, <1>3, <1>4, <1>6 DEF CowTypeOK
  <1>8. AtPage'
    <2> SUFFICES ASSUME NEW q \in Procs
                 PROVE  /\ pc'[q] \in {"count", "fault", "copy", "remap"} => i'[q] \in Pages
                        /\ pc'[q] \in {"fault", "copy", "remap"} => cow'[q][i'[q]]
                        /\ newpage'[q] # NoFrame <=> pc'[q] \in {"copy", "remap"}
      BY DEF AtPage
    <2>1. pc'[q] \in {"count", "fault", "copy", "remap"} => q \notin {p, c}
      BY <1>3
    <2>2. pc'[q] = pc[q]
      BY <1>2, <1>3
    <2> QED
      BY <1>1, <1>3, <1>4, <1>6, <2>1, <2>2, Zenon DEF AtPage
  <1>9. Mapped'
    <2>1. MappedAt("undo", a, pa[p], pa[c])
      BY <1>1, <1>2, <1>c DEF Mapped
    <2>2. ASSUME NEW b \in Pages, b < a + 1 PROVE pa'[c][b] = NoFrame
      <3>1. b = a \/ (b # a /\ b < a)
        BY <1>0, <1>2, <2>2
      <3> QED
        BY <1>3, <1>6, <2>1, <3>1, Zenon DEF MappedAt
    <2>3. ASSUME NEW b \in Pages, b >= a + 1, pa'[c][b] = NoFrame PROVE \A d \in Pages : d >= b => pa'[c][d] = NoFrame
      <3>1. b >= a /\ pa[c][b] = NoFrame
        BY <1>0, <1>2, <1>3, <1>6, <2>3
      <3>2. \A d \in Pages : d >= b => d # a /\ pa[c][d] = NoFrame
        BY <1>0, <1>2, <2>1, <2>3, <3>1 DEF MappedAt
      <3> QED
        BY <1>3, <1>6, <3>2
    <2>4. \A b \in Pages : pa'[p][b] # NoFrame
      BY <1>3, <1>6, <2>1 DEF MappedAt, Whole
    <2>5. MappedAt(pc'[p], i'[p], pa'[p], pa'[child'[p]])
      BY <1>3, <1>4, <1>c, <2>2, <2>3, <2>4 DEF MappedAt
    <2>6. MappedAt(pc'[c], i'[c], pa'[c], pa'[child'[c]])
      BY <1>3 DEF MappedAt, Whole
    <2>7. \A q \in Procs \ {p, c} : MappedAt(pc'[q], i'[q], pa'[q], pa'[child'[q]])
      BY <1>1, <1>3, <1>4, <1>6, MappedSame
    <2> QED
      BY <2>5, <2>6, <2>7 DEF Mapped
  <1> QED
    BY <1>3, <1>6, <1>7, <1>8, <1>9 DEF CowInv, Shape

\* exit unmaps the next page of the process.
LEMMA ExitStep ==
    ASSUME CowInv, NEW p \in Procs, Exit(p) PROVE CowInv'
  <1> DEFINE a == IF pc[p] = "run" THEN 0 ELSE i[p]
  <1>0. NPages \in Nat /\ Pages = 0 .. NPages - 1
    BY CowAssumption DEF Pages
  <1>1. CowTypeOK /\ Families /\ AtPage /\ Mapped /\ Shape
    BY DEF CowInv, Shape
  <1>2. pc[p] \in {"run", "exit"} /\ a \in Pages /\ a + 1 \in 0 .. NPages
    BY <1>0, <1>1, CowAssumption DEF Exit, CowTypeOK
  <1>3. /\ Unmap(p, a) /\ pc' = [pc EXCEPT ![p] = "exit"] /\ i' = [i EXCEPT ![p] = a + 1]
        /\ child' = child /\ newpage' = newpage
    BY DEF Exit, Goto
  <1>4. /\ pc[p] = "run" => a = 0 /\ \A b \in Pages : pa[p][b] # NoFrame
        /\ pc[p] = "exit" => \A b \in Pages : pa[p][b] = NoFrame <=> b < a
    BY <1>1 DEF Mapped, MappedAt, Whole
  <1> HIDE DEF a
  <1>5. /\ pc' \in [Procs -> Whole \cup {"dead", "born", "exit"}] /\ i' \in [Procs -> 0 .. NPages]
        /\ pc'[p] = "exit" /\ i'[p] = a + 1 /\ \A q \in Procs \ {p} : pc'[q] = pc[q] /\ i'[q] = i[q]
    BY <1>1, <1>2, <1>3 DEF CowTypeOK
  <1>6. Families' /\ \A q \in Procs : child[q] # p
    <2>1. Families'
      BY <1>1, <1>2, <1>3, FamiliesSame, Zenon DEF CowTypeOK, Forking
    <2> QED
      BY <1>1, <1>2, <2>1, CowAssumption DEF Families
  <1>7. pa[p][a] # NoFrame
    BY <1>0, <1>2, <1>4
  <1>8. /\ pa' \in [Procs -> [Pages -> Frames \cup {NoFrame}]] /\ pa'[p][a] = NoFrame
        /\ \A r \in Procs, b \in Pages : r # p \/ b # a => pa'[r][b] = pa[r][b]
        /\ \A r \in Procs \ {p} : pa'[r] = pa[r]
        /\ writable' \in [Procs -> [Pages -> BOOLEAN]] /\ cow' \in [Procs -> [Pages -> BOOLEAN]]
        /\ \A r \in Procs \ {p} : cow'[r] = cow[r]
        /\ refcnt' \in [Frames -> Nat] /\ content' \in [Frames -> Values \cup {Junk}]
        /\ Sharing' /\ (CowTypeOK' => Exact(Held, refcnt)')
    <2>1. ~BeingCounted(p, a)
      BY <1>1, <1>2, AllCounted
    <2> QED
      BY <1>2, <1>3, <1>5, <1>7, <2>1, UnmapStep
  <1>9. CowTypeOK'
    BY <1>1, <1>3, <1>5, <1>8 DEF CowTypeOK
  <1>10. AtPage'
    BY <1>1, <1>2, <1>3, <1>5, <1>8 DEF AtPage
  <1>11. Mapped'
    <2>1. ASSUME NEW b \in Pages PROVE pa'[p][b] = NoFrame <=> b < a + 1
      <3>1. a \in Int /\ b \in Int /\ (pa[p][b] = NoFrame <=> b < a)
        BY <1>0, <1>2, <1>4
      <3>2. CASE b = a
        BY <1>8, <3>1, <3>2
      <3>3. CASE b # a
        <4>1. pa'[p][b] = pa[p][b]
          BY <1>8, <3>3
        <4> QED
          BY <3>1, <3>3, <4>1
      <3> QED
        BY <3>2, <3>3
    <2>2. MappedAt(pc'[p], i'[p], pa'[p], pa'[child'[p]])
      BY <1>5, <2>1 DEF MappedAt, Whole
    <2>3. \A q \in Procs \ {p} : MappedAt(pc'[q], i'[q], pa'[q], pa'[child'[q]])
      BY <1>1, <1>3, <1>5, <1>6, <1>8, MappedSame, Zenon
    <2> QED
      BY <2>2, <2>3 DEF Mapped
  <1> QED
    BY <1>6, <1>8, <1>9, <1>10, <1>11 DEF CowInv, Shape

-----------------------------------------------------------------------------
\* Stores.

\* A frame is written and nothing else changes.
LEMMA WriteStep ==
    ASSUME CowInv, NEW f \in Frames, NEW v \in Values \cup {Junk}, content' = [content EXCEPT ![f] = v],
           UNCHANGED <<pagetables, refcnt, pc, child, i, newpage>>,
           \A r \in Procs : pc[r] = "remap" => newpage[r] # f /\ pa[r][i[r]] # f
    PROVE  CowInv'
  <1>0. /\ pa' = pa /\ writable' = writable /\ cow' = cow /\ refcnt' = refcnt /\ newpage' = newpage
        /\ pc' = pc /\ child' = child /\ i' = i
    BY DEF pagetables
  <1>1. CowTypeOK /\ Families /\ AtPage /\ Mapped /\ Sharing /\ Exact(Held, refcnt)
    BY DEF CowInv, Shape
  <1>2. CowTypeOK'
    BY <1>0, <1>1 DEF CowTypeOK
  <1>3. Families' /\ AtPage' /\ Mapped'
    BY <1>0, <1>1 DEF Families, AtPage, Mapped
  <1>4. Copied'
    <2> SUFFICES ASSUME NEW r \in Procs, pc[r] = "remap" PROVE content'[newpage[r]] = content'[pa[r][i[r]]]
      BY <1>0 DEF Copied
    <2>1. newpage[r] \in Frames /\ pa[r][i[r]] \in Frames
      BY <1>1 DEF CowTypeOK, AtPage, Mapped, MappedAt, Whole
    <2>2. content[newpage[r]] = content[pa[r][i[r]]]
      BY <1>1 DEF Sharing, Copied
    <2>3. \A e \in Frames : e # f => content'[e] = content[e]
      BY <1>1 DEF CowTypeOK
    <2> QED
      BY <2>1, <2>2, <2>3
  <1>5. Sharing'
    BY <1>0, <1>1, <1>4 DEF Sharing, Kinds, SamePage, WritableAlone, NewAlone
  <1>6. Held' = Held
    BY <1>0, HeldSame
  <1> QED
    BY <1>0, <1>1, <1>2, <1>3, <1>5, <1>6 DEF CowInv, Shape

\* What a running process has mapped is not what cowalloc has allocated.
LEMMA NotNew ==
    ASSUME CowInv, NEW p \in Procs, NEW a \in Pages, pc[p] \in Whole
    PROVE  pa[p][a] \in Frames /\ \A r \in Procs : newpage[r] # pa[p][a]
  <1>1. pa[p][a] \in Frames
    BY DEF CowInv, Shape, CowTypeOK, Mapped, MappedAt
  <1>2. pa[p][a] # NoFrame
    BY <1>1, CowAssumption
  <1> QED
    BY <1>1, <1>2 DEF CowInv, Sharing, NewAlone

\* A process that is about to change its page table has the page not from the program's text.
LEMMA RemapsData ==
    ASSUME CowInv, NEW r \in Procs, pc[r] \in {"fault", "copy", "remap"}
    PROVE  i[r] \in Pages /\ i[r] \notin Text /\ cow[r][i[r]] /\ ~writable[r][i[r]] /\ pa[r][i[r]] \in Frames
  <1>1. i[r] \in Pages /\ cow[r][i[r]] /\ pc[r] \in Whole
    BY DEF CowInv, Shape, AtPage, Whole
  <1>2. pa[r][i[r]] \in Frames
    BY <1>1, NotNew
  <1> QED
    BY <1>1, <1>2 DEF CowInv, Sharing, Kinds

\* A process writes to a page it may write to.
LEMMA StoreStep ==
    ASSUME CowInv, NEW p \in Procs, NEW a \in Pages, NEW v \in Values, Store(p, a, v) PROVE CowInv'
  <1>1. /\ pc[p] = "run" /\ writable[p][a] /\ content' = [content EXCEPT ![pa[p][a]] = v]
        /\ UNCHANGED <<pagetables, refcnt, pc, child, i, newpage>>
    BY DEF Store
  <1>2. pa[p][a] \in Frames /\ \A r \in Procs : newpage[r] # pa[p][a]
    BY <1>1, NotNew DEF Whole
  <1>3. ASSUME NEW r \in Procs, pc[r] = "remap" PROVE pa[r][i[r]] # pa[p][a]
    <2>1. i[r] \in Pages /\ pa[r][i[r]] # NoFrame
      BY <1>3, RemapsData, CowAssumption
    <2>2. r # p
      BY <1>1, <1>3
    <2> QED
      BY <1>1, <2>1, <2>2 DEF CowInv, Sharing, SamePage, WritableAlone
  <1> QED
    BY <1>1, <1>2, <1>3, WriteStep

\* The kernel writes to a page that is neither writable nor copy-on-write.
LEMMA copyoutStep ==
    ASSUME CowInv, NEW p \in Procs, NEW a \in Pages, NEW v \in Values, copyout(p, a, v) PROVE CowInv' /\ a \in Text
  <1>1. /\ pc[p] = "run" /\ ~writable[p][a] /\ ~cow[p][a] /\ content' = [content EXCEPT ![pa[p][a]] = v]
        /\ UNCHANGED <<pagetables, refcnt, pc, child, i, newpage>>
    BY DEF copyout
  <1>2. pa[p][a] \in Frames /\ \A r \in Procs : newpage[r] # pa[p][a]
    BY <1>1, NotNew DEF Whole
  <1>3. a \in Text
    BY <1>1, <1>2, CowAssumption DEF CowInv, Sharing, Kinds
  <1>4. ASSUME NEW r \in Procs, pc[r] = "remap" PROVE pa[r][i[r]] # pa[p][a]
    <2>1. i[r] \in Pages /\ pa[r][i[r]] # NoFrame /\ i[r] # a
      BY <1>3, <1>4, RemapsData, CowAssumption
    <2> QED
      BY <2>1 DEF CowInv, Sharing, SamePage
  <1> QED
    BY <1>1, <1>2, <1>3, <1>4, WriteStep

-----------------------------------------------------------------------------
\* cowalloc.

\* cowalloc goes on: only its process moves, and it keeps all its pages.
LEMMA FaultGoesOn ==
    ASSUME Shape, NEW p \in Procs, pc[p] \in {"fault", "copy", "remap"}, NEW w \in {"run", "copy", "remap"}, NEW a \in 0 .. NPages,
           Goto(p, w, a), child' = child, w # "run" => a \in Pages /\ cow'[p][a],
           pa' \in [Procs -> [Pages -> Frames \cup {NoFrame}]], writable' \in [Procs -> [Pages -> BOOLEAN]],
           cow' \in [Procs -> [Pages -> BOOLEAN]], refcnt' \in [Frames -> Nat],
           content' \in [Frames -> Values \cup {Junk}], newpage' \in [Procs -> Frames \cup {NoFrame}],
           \A r \in Procs \ {p} : pa'[r] = pa[r] /\ cow'[r] = cow[r] /\ newpage'[r] = newpage[r],
           \A b \in Pages : pa'[p][b] # NoFrame, newpage'[p] # NoFrame <=> w \in {"copy", "remap"}
    PROVE  /\ Shape' /\ pc'[p] = w /\ i'[p] = a
           /\ \A r \in Procs \ {p} : pc'[r] = pc[r] /\ i'[r] = i[r]
  <1>0. pc' = [pc EXCEPT ![p] = w] /\ i' = [i EXCEPT ![p] = a]
    BY DEF Goto
  <1>1. CowTypeOK /\ Families /\ AtPage /\ Mapped
    BY DEF Shape
  <1>2. pc'[p] = w /\ i'[p] = a /\ \A q \in Procs \ {p} : pc'[q] = pc[q] /\ i'[q] = i[q]
    BY <1>0, <1>1 DEF CowTypeOK
  <1>3. CowTypeOK'
    BY <1>0, <1>1 DEF CowTypeOK, Whole
  <1>4. Families' /\ \A q \in Procs : child[q] # p
    <2>1. Families'
      BY <1>0, <1>1, FamiliesSame DEF CowTypeOK, Forking
    <2> QED
      BY <1>1, <2>1, CowAssumption DEF Families
  <1>5. AtPage'
    <2> SUFFICES ASSUME NEW q \in Procs
                 PROVE  /\ pc'[q] \in {"count", "fault", "copy", "remap"} => i'[q] \in Pages
                        /\ pc'[q] \in {"fault", "copy", "remap"} => cow'[q][i'[q]]
                        /\ newpage'[q] # NoFrame <=> pc'[q] \in {"copy", "remap"}
      BY DEF AtPage
    <2>1. CASE q = p
      BY <1>2, <2>1
    <2>2. CASE q # p
      BY <1>1, <1>2, <2>2 DEF AtPage
    <2> QED
      BY <2>1, <2>2
  <1>6. Mapped'
    <2>1. MappedAt(pc'[p], i'[p], pa'[p], pa'[child'[p]])
      BY <1>2 DEF MappedAt
    <2>2. \A q \in Procs \ {p} : MappedAt(pc'[q], i'[q], pa'[q], pa'[child'[q]])
      BY <1>2, <1>4, MappedSame
    <2> QED
      BY <2>1, <2>2 DEF Mapped
  <1> QED
    BY <1>2, <1>3, <1>4, <1>5, <1>6 DEF Shape

\* The frame is not shared: the process may write to it.
LEMMA CowOwnStep ==
    ASSUME CowInv, NEW p \in Procs, CowOwn(p) PROVE CowInv' /\ pa' = pa
  <1> DEFINE a == i[p]
  <1>1. CowTypeOK /\ Shape /\ Sharing /\ Exact(Held, refcnt)
    BY DEF CowInv, Shape
  <1>2. /\ pc[p] = "fault" /\ refcnt[pa[p][a]] = 1 /\ Goto(p, "run", 0)
        /\ pa' = [pa EXCEPT ![p][a] = pa[p][a]] /\ writable' = [writable EXCEPT ![p][a] = TRUE]
        /\ cow' = [cow EXCEPT ![p][a] = FALSE]
        /\ refcnt' = refcnt /\ content' = content /\ child' = child /\ newpage' = newpage
    BY DEF CowOwn, NotShared, SetPTE
  <1>3. a \in Pages /\ a \notin Text /\ pa[p][a] \in Frames /\ pa[p][a] # NoFrame
    BY <1>2, RemapsData, CowAssumption
  <1>c. i[p] = a
    OBVIOUS
  <1> HIDE DEF a
  <1>4. pa' = pa
    BY <1>1, <1>2, <1>3 DEF CowTypeOK
  <1>5. /\ writable' \in [Procs -> [Pages -> BOOLEAN]] /\ cow' \in [Procs -> [Pages -> BOOLEAN]]
        /\ writable'[p][a] /\ ~cow'[p][a]
        /\ \A r \in Procs, b \in Pages : r # p \/ b # a => writable'[r][b] = writable[r][b] /\ cow'[r][b] = cow[r][b]
        /\ \A r \in Procs \ {p} : cow'[r] = cow[r]
    BY <1>1, <1>2, <1>3 DEF CowTypeOK
  <1>6. (\A r \in Procs, b \in Pages : pa[r][b] = pa[p][a] => r = p /\ b = a)
    <2>1. ~BeingCounted(p, a)
      BY <1>1, <1>2, AllCounted
    <2> QED
      BY <1>1, <1>2, <1>3, <2>1, OneReference
  <1>7. Shape' /\ pc'[p] = "run" /\ \A r \in Procs \ {p} : pc'[r] = pc[r] /\ i'[r] = i[r]
    <2>1. 0 \in 0 .. NPages /\ newpage[p] = NoFrame /\ \A b \in Pages : pa[p][b] # NoFrame
      BY <1>1, <1>2, CowAssumption DEF Shape, AtPage, Mapped, MappedAt, Whole
    <2>2. /\ pa' \in [Procs -> [Pages -> Frames \cup {NoFrame}]] /\ refcnt' \in [Frames -> Nat]
          /\ content' \in [Frames -> Values \cup {Junk}] /\ newpage' \in [Procs -> Frames \cup {NoFrame}]
      BY <1>1, <1>2, <1>4 DEF CowTypeOK
    <2>3. newpage'[p] = NoFrame /\ (\A b \in Pages : pa'[p][b] # NoFrame)
          /\ \A r \in Procs \ {p} : pa'[r] = pa[r] /\ cow'[r] = cow[r] /\ newpage'[r] = newpage[r]
      BY <1>2, <1>4, <1>5, <2>1
    <2> QED
      BY <1>1, <1>2, <1>5, <2>1, <2>2, <2>3, FaultGoesOn
  <1>8. Sharing'
    <2>1. Kinds'
      <3>1. ASSUME NEW r \in Procs, NEW b \in Pages
            PROVE  IF pa'[r][b] = NoFrame \/ b \in Text THEN ~writable'[r][b] /\ ~cow'[r][b]
                   ELSE writable'[r][b] <=> ~cow'[r][b]
        <4>1. IF pa[r][b] = NoFrame \/ b \in Text THEN ~writable[r][b] /\ ~cow[r][b]
              ELSE writable[r][b] <=> ~cow[r][b]
          BY <1>1 DEF Sharing, Kinds
        <4>2. CASE r # p \/ b # a
          BY <1>4, <1>5, <4>1, <4>2
        <4>3. CASE r = p /\ b = a
          BY <1>3, <1>4, <1>5, <4>3
        <4> QED
          BY <4>2, <4>3
      <3> QED
        BY <3>1 DEF Kinds
    <2>2. SamePage' /\ NewAlone'
      BY <1>1, <1>2, <1>4 DEF Sharing, SamePage, NewAlone
    <2>3. WritableAlone'
      <3> SUFFICES ASSUME NEW q \in Procs, NEW r \in Procs, NEW b \in Pages, writable'[q][b], pa[r][b] = pa[q][b]
                   PROVE  q = r
        BY <1>4 DEF WritableAlone
      <3>1. CASE q = p /\ b = a
        BY <1>6, <3>1
      <3>2. CASE ~(q = p /\ b = a)
        <4>1. writable[q][b]
          BY <1>5, <3>2
        <4> QED
          BY <1>1, <4>1 DEF Sharing, WritableAlone
      <3> QED
        BY <3>1, <3>2
    <2>4. Copied'
      BY <1>1, <1>2, <1>4, <1>7 DEF Sharing, Copied
    <2> QED
      BY <2>1, <2>2, <2>3, <2>4 DEF Sharing
  <1>9. Held' = Held
    BY <1>2, <1>4, <1>7, HeldSame
  <1> QED
    BY <1>1, <1>2, <1>4, <1>7, <1>8, <1>9 DEF CowInv

\* cowalloc allocates a frame that nobody has.
LEMMA CowAllocStep ==
    ASSUME CowInv, NEW p \in Procs, NEW f \in Frames, CowAlloc(p, f) PROVE CowInv'
  <1> DEFINE a == i[p]
  <1>0. NPages \in Nat /\ NPages \in 0 .. NPages /\ Pages = 0 .. NPages - 1 /\ NPages \notin Pages /\ f # NoFrame
    BY CowAssumption DEF Pages
  <1>1. CowTypeOK /\ Shape /\ Sharing /\ Exact(Held, refcnt)
    BY DEF CowInv, Shape
  <1>2. /\ pc[p] = "fault" /\ refcnt[f] = 0 /\ Goto(p, "copy", a)
        /\ refcnt' = [refcnt EXCEPT ![f] = 1] /\ content' = [content EXCEPT ![f] = Junk]
        /\ newpage' = [newpage EXCEPT ![p] = f]
        /\ pa' = pa /\ writable' = writable /\ cow' = cow /\ child' = child
    BY DEF CowAlloc, kalloc, pagetables
  <1>3. a \in Pages /\ cow[p][a] /\ a \in 0 .. NPages
    BY <1>0, <1>2, RemapsData
  <1> HIDE DEF a
  <1>4. (\A r \in Procs, b \in Pages : pa[r][b] # f) /\ \A r \in Procs : newpage[r] # f
    BY <1>1, <1>2, NoReference
  <1>5. newpage[p] = NoFrame /\ \A b \in Pages : pa[p][b] # NoFrame
    BY <1>1, <1>2 DEF Shape, AtPage, Mapped, MappedAt, Whole
  <1>6. /\ newpage' \in [Procs -> Frames \cup {NoFrame}] /\ newpage'[p] = f /\ \A r \in Procs \ {p} : newpage'[r] = newpage[r]
    BY <1>1, <1>2 DEF CowTypeOK
  <1>7. /\ refcnt' = [refcnt EXCEPT ![f] = @ + 1] /\ refcnt' \in [Frames -> Nat] /\ refcnt \in [Frames -> Nat]
        /\ content' \in [Frames -> Values \cup {Junk}] /\ \A e \in Frames : e # f => content'[e] = content[e]
    BY <1>1, <1>2 DEF CowTypeOK
  <1>8. Shape' /\ pc'[p] = "copy" /\ \A r \in Procs \ {p} : pc'[r] = pc[r] /\ i'[r] = i[r]
    <2>1. /\ pa' \in [Procs -> [Pages -> Frames \cup {NoFrame}]] /\ writable' \in [Procs -> [Pages -> BOOLEAN]]
          /\ cow' \in [Procs -> [Pages -> BOOLEAN]]
      BY <1>1, <1>2 DEF CowTypeOK
    <2>2. cow'[p][a] /\ newpage'[p] # NoFrame /\ (\A b \in Pages : pa'[p][b] # NoFrame)
          /\ \A r \in Procs \ {p} : pa'[r] = pa[r] /\ cow'[r] = cow[r] /\ newpage'[r] = newpage[r]
      BY <1>0, <1>2, <1>3, <1>5, <1>6
    <2> QED
      BY <1>1, <1>2, <1>3, <1>6, <1>7, <2>1, <2>2, FaultGoesOn
  <1>9. Sharing'
    <2>1. Kinds' /\ SamePage' /\ WritableAlone'
      BY <1>1, <1>2 DEF Sharing, Kinds, SamePage, WritableAlone
    <2>2. NewAlone'
      BY <1>1, <1>2, <1>4, <1>6 DEF Sharing, NewAlone
    <2>3. Copied'
      <3> SUFFICES ASSUME NEW r \in Procs, pc'[r] = "remap" PROVE content'[newpage'[r]] = content'[pa'[r][i'[r]]]
        BY DEF Copied
      <3>1. r # p /\ pc[r] = "remap" /\ i'[r] = i[r]
        BY <1>8
      <3>2. i[r] \in Pages /\ pa[r][i[r]] \in Frames /\ newpage[r] \in Frames
        BY <1>1, <3>1, RemapsData DEF Shape, AtPage, CowTypeOK
      <3>3. content[newpage[r]] = content[pa[r][i[r]]]
        BY <1>1, <3>1 DEF Sharing, Copied
      <3> QED
        BY <1>2, <1>4, <1>6, <1>7, <3>1, <3>2, <3>3
    <2> QED
      BY <2>1, <2>2, <2>3 DEF Sharing
  <1>10. Held' = Put(Held, p, NPages, f) /\ Held[p][NPages] = NoFrame /\ Held \in HeldType
    <2>1. \A q \in Procs, b \in Pages : BeingCounted(q, b)' <=> BeingCounted(q, b)
      BY <1>2, <1>8 DEF BeingCounted
    <2>2. HeldIs /\ Held \in HeldType
      BY <1>1, HeldFacts DEF HeldIs
    <2>3. HeldIs'
      BY <1>8, HeldFacts, PTL DEF Shape
    <2>4. ASSUME NEW q \in Procs, NEW b \in 0 .. NPages PROVE Held'[q][b] = IF q = p /\ b = NPages THEN f ELSE Held[q][b]
      <3>1. CASE b \in Pages
        BY <1>0, <1>2, <2>1, <2>2, <2>3, <3>1 DEF HeldIs
      <3>2. CASE b = NPages
        BY <1>6, <2>2, <2>3, <3>2 DEF HeldIs
      <3> QED
        BY <1>0, <3>1, <3>2
    <2>5. Held' \in HeldType
      BY <2>3 DEF HeldIs
    <2>6. Held' = Put(Held, p, NPages, f)
      BY <1>0, <2>2, <2>4, <2>5, OnePlace
    <2> QED
      BY <1>5, <2>2, <2>6 DEF HeldIs
  <1>11. Exact(Held', refcnt')
    <2>1. Exact(Put(Held, p, NPages, f), [refcnt EXCEPT ![f] = @ + 1])
      BY <1>0, <1>1, <1>7, <1>10, TakeRef
    <2> QED
      BY <1>7, <1>10, <2>1
  <1>12. Exact(Held, refcnt)'
    BY <1>11 DEF Exact
  <1> QED
    BY <1>8, <1>9, <1>12 DEF CowInv

\* memmove: the new frame gets what is in the old one.
LEMMA CowCopyStep ==
    ASSUME CowInv, NEW p \in Procs, CowCopy(p) PROVE CowInv'
  <1> DEFINE a == i[p]
             f == newpage[p]
  <1>1. CowTypeOK /\ Shape /\ Sharing /\ Exact(Held, refcnt)
    BY DEF CowInv, Shape
  <1>2. /\ pc[p] = "copy" /\ Goto(p, "remap", a) /\ content' = [content EXCEPT ![f] = content[pa[p][a]]]
        /\ pa' = pa /\ writable' = writable /\ cow' = cow /\ refcnt' = refcnt /\ child' = child /\ newpage' = newpage
    BY DEF CowCopy, pagetables
  <1>3. a \in Pages /\ cow[p][a] /\ a \in 0 .. NPages /\ pa[p][a] \in Frames
    BY <1>2, RemapsData, CowAssumption DEF Pages
  <1>4. f \in Frames /\ f # NoFrame
    BY <1>1, <1>2 DEF Shape, AtPage, CowTypeOK
  <1>c. newpage[p] = f
    OBVIOUS
  <1> HIDE DEF a, f
  <1>5. /\ content' \in [Frames -> Values \cup {Junk}] /\ content'[f] = content[pa[p][a]]
        /\ \A e \in Frames : e # f => content'[e] = content[e]
    BY <1>1, <1>2, <1>3, <1>4 DEF CowTypeOK
  <1>6. (\A r \in Procs, b \in Pages : pa[r][b] # f) /\ \A r \in Procs : r # p => newpage[r] # f
    BY <1>1, <1>4, <1>c DEF Sharing, NewAlone
  <1>7. Shape' /\ pc'[p] = "remap" /\ i'[p] = a /\ \A r \in Procs \ {p} : pc'[r] = pc[r] /\ i'[r] = i[r]
    <2>1. /\ pa' \in [Procs -> [Pages -> Frames \cup {NoFrame}]] /\ writable' \in [Procs -> [Pages -> BOOLEAN]]
          /\ cow' \in [Procs -> [Pages -> BOOLEAN]] /\ refcnt' \in [Frames -> Nat]
          /\ newpage' \in [Procs -> Frames \cup {NoFrame}]
      BY <1>1, <1>2 DEF CowTypeOK
    <2>2. \A b \in Pages : pa[p][b] # NoFrame
      BY <1>1, <1>2 DEF Shape, Mapped, MappedAt, Whole
    <2>3. cow'[p][a] /\ newpage'[p] # NoFrame /\ (\A b \in Pages : pa'[p][b] # NoFrame)
          /\ \A r \in Procs \ {p} : pa'[r] = pa[r] /\ cow'[r] = cow[r] /\ newpage'[r] = newpage[r]
      BY <1>2, <1>3, <1>4, <1>c, <2>2
    <2> QED
      BY <1>1, <1>2, <1>3, <1>5, <2>1, <2>3, FaultGoesOn
  <1>8. Sharing'
    <2>1. Kinds' /\ SamePage' /\ WritableAlone' /\ NewAlone'
      BY <1>1, <1>2 DEF Sharing, Kinds, SamePage, WritableAlone, NewAlone
    <2>2. Copied'
      <3> SUFFICES ASSUME NEW r \in Procs, pc'[r] = "remap" PROVE content'[newpage'[r]] = content'[pa'[r][i'[r]]]
        BY DEF Copied
      <3>1. CASE r = p
        BY <1>2, <1>3, <1>5, <1>6, <1>7, <1>c, <3>1
      <3>2. CASE r # p
        <4>1. pc[r] = "remap" /\ i'[r] = i[r]
          BY <1>7, <3>2
        <4>2. i[r] \in Pages /\ pa[r][i[r]] \in Frames /\ newpage[r] \in Frames
          BY <1>1, <4>1, RemapsData DEF Shape, AtPage, CowTypeOK
        <4>3. content[newpage[r]] = content[pa[r][i[r]]]
          BY <1>1, <4>1 DEF Sharing, Copied
        <4> QED
          BY <1>2, <1>5, <1>6, <3>2, <4>1, <4>2, <4>3
      <3> QED
        BY <3>1, <3>2
    <2> QED
      BY <2>1, <2>2 DEF Sharing
  <1>9. Held' = Held
    BY <1>2, <1>7, HeldSame
  <1> QED
    BY <1>1, <1>2, <1>7, <1>8, <1>9 DEF CowInv

\* A reference moves: the frame cowalloc has allocated is mapped instead of the
\* old one.
LEMMA MoveRef ==
    ASSUME NEW h \in HeldType, NEW r \in [Frames -> Nat], Exact(h, r), NEW q \in Procs, NEW a \in Pages,
           NEW f \in Frames, NEW g \in Frames, h[q][a] = f, h[q][NPages] = g, f # g
    PROVE  /\ [r EXCEPT ![f] = @ - 1] \in [Frames -> Nat]
           /\ Exact(Put(Put(Put(h, q, a, NoFrame), q, NPages, NoFrame), q, a, g), [r EXCEPT ![f] = @ - 1])
  <1>0. a \in 0 .. NPages /\ NPages \in 0 .. NPages /\ a # NPages
    BY CowAssumption DEF Pages
  <1> DEFINE h1 == Put(h, q, a, NoFrame)
             r1 == [r EXCEPT ![f] = @ - 1]
             h2 == Put(h1, q, NPages, NoFrame)
             r2 == [r1 EXCEPT ![g] = @ - 1]
  <1>1. h1 \in HeldType
    BY <1>0, DropRef
  <1>2. r1 \in [Frames -> Nat]
    BY <1>0, DropRef
  <1>3. Exact(h1, r1)
    BY <1>0, DropRef
  <1>4. h1[q][NPages] = g /\ h1[q][a] = NoFrame
    BY <1>0 DEF Put, HeldType, Row
  <1> HIDE DEF h1, r1
  <1>5. h2 \in HeldType
    BY <1>0, <1>1, <1>2, <1>3, <1>4, DropRef
  <1>6. r2 \in [Frames -> Nat] /\ r1[g] >= 1
    <2>1. r1[g] >= 1
      BY <1>0, <1>1, <1>2, <1>3, <1>4, DropRef
    <2> QED
      BY <1>2, <2>1
  <1>7. Exact(h2, r2)
    BY <1>0, <1>1, <1>2, <1>3, <1>4, DropRef
  <1>8. h2[q][a] = NoFrame
    BY <1>0, <1>1, <1>4 DEF Put, HeldType, Row
  <1>9. [r2 EXCEPT ![g] = @ + 1] = r1
    <2>1. r1[g] \in Nat /\ r2[g] = r1[g] - 1 /\ r2[g] + 1 = r1[g]
      BY <1>2
    <2>2. [r2 EXCEPT ![g] = r1[g]] = r1
      BY <1>2
    <2> QED
      BY <2>1, <2>2
  <1> HIDE DEF h2, r2
  <1>10. Exact(Put(h2, q, a, g), [r2 EXCEPT ![g] = @ + 1])
    BY <1>0, <1>5, <1>6, <1>7, <1>8, TakeRef
  <1>11. Exact(Put(h2, q, a, g), r1)
    BY <1>9, <1>10
  <1> QED
    BY <1>2, <1>11 DEF h1, h2, r1

\* cowalloc maps the new frame and lets go of the old one.
LEMMA CowRemapStep ==
    ASSUME CowInv, NEW p \in Procs, CowRemap(p) PROVE CowInv'
  <1> DEFINE a == i[p]
             f == pa[p][a]
             g == newpage[p]
  <1>0. NPages \in Nat /\ NPages \in 0 .. NPages /\ Pages = 0 .. NPages - 1 /\ NPages \notin Pages
    BY CowAssumption DEF Pages
  <1>1. CowTypeOK /\ Shape /\ Sharing /\ Exact(Held, refcnt)
    BY DEF CowInv, Shape
  <1>2. /\ pc[p] = "remap" /\ Goto(p, "run", 0) /\ kfree(f)
        /\ pa' = [pa EXCEPT ![p][a] = g] /\ writable' = [writable EXCEPT ![p][a] = TRUE]
        /\ cow' = [cow EXCEPT ![p][a] = FALSE] /\ newpage' = [newpage EXCEPT ![p] = NoFrame] /\ child' = child
    BY DEF CowRemap, SetPTE
  <1>3. a \in Pages /\ a \notin Text /\ f \in Frames /\ f # NoFrame /\ a \in 0 .. NPages /\ a # NPages
    BY <1>0, <1>2, RemapsData, CowAssumption
  <1>4. g \in Frames /\ g # NoFrame
    BY <1>1, <1>2 DEF Shape, AtPage, CowTypeOK
  <1>5. ~BeingCounted(p, a)
    BY <1>1, <1>2, AllCounted
  <1>6. /\ content' \in [Frames -> Values \cup {Junk}]
        /\ \A r \in Procs, b \in Pages : (r # p \/ b # a) /\ pa[r][b] # NoFrame => content'[pa[r][b]] = content[pa[r][b]]
        /\ \A r \in Procs : newpage[r] # NoFrame => newpage[r] # f /\ content'[newpage[r]] = content[newpage[r]]
    BY <1>2, <1>3, <1>5, FreeKeeps
  <1>c. i[p] = a /\ pa[p][a] = f /\ newpage[p] = g
    OBVIOUS
  <1> HIDE DEF a, f, g
  <1>7. /\ pa' \in [Procs -> [Pages -> Frames \cup {NoFrame}]] /\ pa'[p][a] = g
        /\ \A r \in Procs, b \in Pages : r # p \/ b # a => pa'[r][b] = pa[r][b]
        /\ \A r \in Procs \ {p} : pa'[r] = pa[r]
    BY <1>1, <1>2, <1>3, <1>4 DEF CowTypeOK
  <1>8. /\ writable' \in [Procs -> [Pages -> BOOLEAN]] /\ cow' \in [Procs -> [Pages -> BOOLEAN]]
        /\ writable'[p][a] /\ ~cow'[p][a]
        /\ \A r \in Procs, b \in Pages : r # p \/ b # a => writable'[r][b] = writable[r][b] /\ cow'[r][b] = cow[r][b]
        /\ \A r \in Procs \ {p} : cow'[r] = cow[r]
    BY <1>1, <1>2, <1>3 DEF CowTypeOK
  <1>9. /\ newpage' \in [Procs -> Frames \cup {NoFrame}] /\ newpage'[p] = NoFrame
        /\ \A r \in Procs \ {p} : newpage'[r] = newpage[r]
    BY <1>1, <1>2 DEF CowTypeOK
  <1>10. (\A r \in Procs, b \in Pages : pa[r][b] # g) /\ (\A r \in Procs : r # p => newpage[r] # g) /\ g # f
    BY <1>1, <1>3, <1>4, <1>c DEF Sharing, NewAlone
  <1>11. /\ HeldIs /\ Held \in HeldType /\ refcnt \in [Frames -> Nat] /\ Held[p][a] = f /\ Held[p][NPages] = g
    BY <1>1, <1>3, <1>5, <1>c, HeldFacts DEF HeldIs, CowTypeOK
  <1>12. /\ refcnt' \in [Frames -> Nat]
         /\ Exact(Put(Put(Put(Held, p, a, NoFrame), p, NPages, NoFrame), p, a, g), refcnt')
    <2>1. [refcnt EXCEPT ![f] = @ - 1] \in [Frames -> Nat]
      BY <1>1, <1>3, <1>4, <1>10, <1>11, MoveRef
    <2>2. Exact(Put(Put(Put(Held, p, a, NoFrame), p, NPages, NoFrame), p, a, g), [refcnt EXCEPT ![f] = @ - 1])
      BY <1>1, <1>3, <1>4, <1>10, <1>11, MoveRef
    <2> QED
      BY <1>2, <2>1, <2>2 DEF kfree
  <1>13. Shape' /\ pc'[p] = "run" /\ \A r \in Procs \ {p} : pc'[r] = pc[r] /\ i'[r] = i[r]
    <2>1. 0 \in 0 .. NPages
      BY <1>0
    <2>2. \A b \in Pages : pa[p][b] # NoFrame
      BY <1>1, <1>2 DEF Shape, Mapped, MappedAt, Whole
    <2>3. \A b \in Pages : pa'[p][b] # NoFrame
      BY <1>4, <1>7, <2>2
    <2> QED
      BY <1>1, <1>2, <1>6, <1>7, <1>8, <1>9, <1>12, <2>1, <2>3, FaultGoesOn
  <1>14. Sharing'
    <2>1. Kinds'
      <3>1. ASSUME NEW r \in Procs, NEW b \in Pages
            PROVE  IF pa'[r][b] = NoFrame \/ b \in Text THEN ~writable'[r][b] /\ ~cow'[r][b]
                   ELSE writable'[r][b] <=> ~cow'[r][b]
        <4>1. IF pa[r][b] = NoFrame \/ b \in Text THEN ~writable[r][b] /\ ~cow[r][b]
              ELSE writable[r][b] <=> ~cow[r][b]
          BY <1>1 DEF Sharing, Kinds
        <4>2. CASE r # p \/ b # a
          BY <1>7, <1>8, <4>1, <4>2
        <4>3. CASE r = p /\ b = a
          BY <1>3, <1>4, <1>7, <1>8, <4>3
        <4> QED
          BY <4>2, <4>3
      <3> QED
        BY <3>1 DEF Kinds
    <2>2. SamePage'
      <3> SUFFICES ASSUME NEW q \in Procs, NEW r \in Procs, NEW b \in Pages, NEW d \in Pages, pa'[q][b] = pa'[r][d], pa'[q][b] # NoFrame
                   PROVE  b = d
        BY DEF SamePage
      <3>1. CASE (q = p /\ b = a) \/ (r = p /\ d = a)
        BY <1>7, <1>10, <3>1
      <3>2. CASE ~(q = p /\ b = a) /\ ~(r = p /\ d = a)
        <4>1. pa'[q][b] = pa[q][b] /\ pa'[r][d] = pa[r][d]
          BY <1>7, <3>2
        <4>2. pa[q][b] = pa[r][d] /\ pa[q][b] # NoFrame
          BY <4>1
        <4>3. SamePage
          BY <1>1 DEF Sharing
        <4> QED
          BY <4>2, <4>3 DEF SamePage
      <3> QED
        BY <3>1, <3>2
    <2>3. WritableAlone'
      <3> SUFFICES ASSUME NEW q \in Procs, NEW r \in Procs, NEW b \in Pages, writable'[q][b], pa'[r][b] = pa'[q][b]
                   PROVE  q = r
        BY DEF WritableAlone
      <3>1. CASE b = a /\ p \in {q, r}
        BY <1>7, <1>10, <3>1
      <3>2. CASE ~(b = a /\ p \in {q, r})
        <4>1. writable[q][b] /\ pa'[q][b] = pa[q][b] /\ pa'[r][b] = pa[r][b]
          BY <1>7, <1>8, <3>2
        <4> QED
          BY <1>1, <4>1 DEF Sharing, WritableAlone
      <3> QED
        BY <3>1, <3>2
    <2>4. NewAlone'
      <3> SUFFICES ASSUME NEW r \in Procs, newpage'[r] # NoFrame
                   PROVE  /\ \A q \in Procs, b \in Pages : pa'[q][b] # newpage'[r]
                          /\ \A q \in Procs : newpage'[q] = newpage'[r] => r = q
        BY DEF NewAlone
      <3>1. r # p /\ newpage'[r] = newpage[r]
        BY <1>9
      <3>2. /\ \A q \in Procs, b \in Pages : pa[q][b] # newpage[r]
            /\ \A q \in Procs : newpage[q] = newpage[r] => r = q
        BY <1>1, <3>1 DEF Sharing, NewAlone
      <3> QED
        BY <1>7, <1>9, <1>10, <3>1, <3>2
    <2>5. Copied'
      <3> SUFFICES ASSUME NEW r \in Procs, pc'[r] = "remap" PROVE content'[newpage'[r]] = content'[pa'[r][i'[r]]]
        BY DEF Copied
      <3>1. r # p /\ pc[r] = "remap" /\ i'[r] = i[r]
        BY <1>13
      <3>2. i[r] \in Pages /\ pa[r][i[r]] # NoFrame /\ newpage[r] # NoFrame
        BY <1>1, <3>1, RemapsData, CowAssumption DEF Shape, AtPage
      <3>3. content[newpage[r]] = content[pa[r][i[r]]]
        BY <1>1, <3>1 DEF Sharing, Copied
      <3> QED
        BY <1>6, <1>7, <1>9, <3>1, <3>2, <3>3
    <2> QED
      BY <2>1, <2>2, <2>3, <2>4, <2>5 DEF Sharing
  <1>15. Held' = Put(Put(Put(Held, p, a, NoFrame), p, NPages, NoFrame), p, a, g)
    <2> DEFINE h2 == Put(Put(Held, p, a, NoFrame), p, NPages, NoFrame)
    <2>1. /\ h2 \in HeldType /\ h2[p][NPages] = NoFrame /\ h2[p][a] = NoFrame
          /\ \A q \in Procs, b \in 0 .. NPages : ~(q = p /\ b \in {a, NPages}) => h2[q][b] = Held[q][b]
      BY <1>0, <1>3, <1>11 DEF Put, HeldType, Row
    <2> HIDE DEF h2
    <2>2. HeldIs' /\ Held' \in HeldType
      <3>1. HeldIs'
        BY <1>13, HeldFacts, PTL DEF Shape
      <3> QED
        BY <3>1 DEF HeldIs
    <2>3. \A q \in Procs, b \in Pages : BeingCounted(q, b)' <=> BeingCounted(q, b)
      BY <1>2, <1>13 DEF BeingCounted
    <2>4. ASSUME NEW q \in Procs, NEW b \in 0 .. NPages PROVE Held'[q][b] = IF q = p /\ b = a THEN g ELSE h2[q][b]
      <3>1. CASE b \in Pages
        <4>1. Held'[q][b] = IF BeingCounted(q, b) THEN NoFrame ELSE pa'[q][b]
          BY <2>2, <2>3, <3>1 DEF HeldIs
        <4>2. CASE q = p /\ b = a
          BY <1>5, <1>7, <4>1, <4>2
        <4>3. CASE ~(q = p /\ b = a)
          <5>1. pa'[q][b] = pa[q][b] /\ h2[q][b] = Held[q][b]
            BY <1>0, <1>7, <2>1, <3>1, <4>3
          <5> QED
            BY <1>11, <3>1, <4>1, <4>3, <5>1 DEF HeldIs
        <4> QED
          BY <4>2, <4>3
      <3>2. CASE b = NPages
        <4>1. Held'[q][b] = newpage'[q] /\ Held[q][b] = newpage[q] /\ b # a
          BY <1>3, <1>11, <2>2, <3>2 DEF HeldIs
        <4> QED
          BY <1>9, <2>1, <3>2, <4>1
      <3> QED
        BY <1>0, <3>1, <3>2
    <2>5. Held' = Put(h2, p, a, g)
      BY <1>3, <2>1, <2>2, <2>4, OnePlace
    <2> QED
      BY <2>5 DEF h2
  <1>16. Exact(Held', refcnt')
    BY <1>12, <1>15
  <1>17. Exact(Held, refcnt)'
    BY <1>16 DEF Exact
  <1> QED
    BY <1>13, <1>14, <1>17 DEF CowInv
=============================================================================
