--------------------- MODULE GroupBorderAssigner_proof ---------------------
(***************************************************************************)
(* For every size of the grid, of the frame and of the padding, and any    *)
(* interleaving of the groups: no border, corner or pixel is rendered by   *)
(* two groups in one run of the pool, none is rendered before all of the   *)
(* data it needs is stored, and none is forgotten.                         *)
(*                                                                         *)
(* The argument looks at one corner at a time: of two groups that have     *)
(* passed it, only the later one can have seen the other (BInv).  The      *)
(* geometry then carries this from parts to pixels: the parts tile the     *)
(* frame, a group renders the parts available to it, and what depends on   *)
(* its data are the parts it touches.  Each part is decided at the corner  *)
(* where its groups meet, and waits for one of them or for the one that    *)
(* came last (FInv).                                                       *)
(***************************************************************************)
EXTENDS GroupBorderAssigner, NaturalInduction, TLAPS

\* The corners that a group has yet to visit in this run.
Ahead(g) == CASE pc[g] \in {"save", "tl"} -> {"tl", "tr", "br", "bl"}
              [] pc[g] = "tr" -> {"tr", "br", "bl"}
              [] pc[g] = "br" -> {"br", "bl"}
              [] pc[g] = "bl" -> {"bl"}
              [] OTHER -> {}

\* The corners that a group has visited in this run.
Passed(g) == IF pc[g] = "idle" THEN {} ELSE Sides \ Ahead(g)

\* The bit of g at its side s.
IsDone(g, s) == Opposite(s) \in counters_[Corner(g, s)]

\* A group that is about to report at a corner is not marked there.
UnmarkedAhead == \A g \in Groups : \A s \in Ahead(g) : ~IsDone(g, s)

\* What a group saw at a corner is still there.
SeenStays == \A g \in Groups : \A s \in Passed(g) :
               status[g][s] \subseteq counters_[Corner(g, s)]

\* Two groups did not both see each other at a corner they share.
OnlyTheLater ==
  \A g, h \in Groups : \A s \in Passed(g), t \in Passed(h) :
    g # h /\ Corner(g, s) = Corner(h, t)
      => ~(Opposite(s) \in status[h][t] /\ Opposite(t) \in status[g][s])

\* A frame that is drawn at once has no group drawn or marked before Flush().
UnmarkedBeforeFlush ==
  FullImage /\ ~flushed =>
    \A g \in Groups : pc[g] = "idle" /\ \A s \in Sides : ~IsDone(g, s)

BInv == TypeOK /\ UnmarkedAhead /\ SeenStays /\ OnlyTheLater /\ UnmarkedBeforeFlush

-----------------------------------------------------------------------------
\* Each side of a group is a corner of the grid, and a corner has one group at
\* each side.
LEMMA CornerFacts ==
  /\ \A g \in Groups : \A s \in Sides : Corner(g, s) \in Corners
  /\ \A s \in Sides : Opposite(s) \in Sides
  /\ \A s, t \in Sides : Opposite(s) = Opposite(t) => s = t
  /\ \A g, h \in Groups : \A s \in Sides : Corner(g, s) = Corner(h, s) => g = h
  /\ \A g \in Groups : \A s, t \in Sides : Corner(g, s) = Corner(g, t) => s = t
<1>1. \A g \in Groups : \A s \in Sides : Corner(g, s) \in Corners
  BY GridAssumption DEF Groups, Corners, Corner, Sides
<1>2. \A s \in Sides : Opposite(s) \in Sides
  BY DEF Sides, Opposite
<1>3. \A s, t \in Sides : Opposite(s) = Opposite(t) => s = t
  BY DEF Sides, Opposite
<1>4. \A g, h \in Groups : \A s \in Sides : Corner(g, s) = Corner(h, s) => g = h
  BY GridAssumption DEF Groups, Corner, Sides
<1>5. \A g \in Groups : \A s, t \in Sides : Corner(g, s) = Corner(g, t) => s = t
  BY GridAssumption DEF Groups, Corner, Sides
<1> QED BY <1>1, <1>2, <1>3, <1>4, <1>5

\* What lies outside of the frame is no side of a group.
LEMMA InitialFacts ==
  \A g \in Groups : \A s \in Sides :
    Opposite(s) \notin InitialCounter(Corner(g, s))
BY GridAssumption DEF Groups, Sides, Opposite, Corner, InitialCounter

\* ClearDone() resets all four bits of a group.
LEMMA ClearFacts ==
  ASSUME NEW S \in SUBSET Groups, NEW g \in S, NEW s \in Sides
  PROVE  Opposite(s) \in ClearedSides(S, Corner(g, s))
<1>1. g \in Groups
  OBVIOUS
<1>2. Opposite(Opposite(s)) = s
  BY DEF Sides, Opposite
<1>3. Opposite(s) \in Sides
  BY CornerFacts
<1> QED BY <1>1, <1>2, <1>3 DEF ClearedSides

\* The sides that are ahead of a group and those behind it are disjoint.
LEMMA PathFacts ==
  ASSUME NEW g \in Groups, pc[g] \in PC
  PROVE  /\ Ahead(g) \subseteq Sides /\ Passed(g) \subseteq Sides
         /\ Ahead(g) \cap Passed(g) = {}
         /\ pc[g] = "idle" => Ahead(g) = {} /\ Passed(g) = {}
         /\ pc[g] = "save" => Passed(g) = {}
         /\ Assigned(g) => Passed(g) = Sides
         /\ pc[g] \in Sides => pc[g] \in Ahead(g)
BY DEF PC, Ahead, Passed, Sides, Assigned

-----------------------------------------------------------------------------
\* A run of the pool begins: what is drawn is unmarked.
LEMMA RunStart ==
  ASSUME BInv, NEW S \in SUBSET Groups, StartRun(S),
         counters_' \in [Corners -> SUBSET Sides],
         complete' \in SUBSET Groups, flushed' \in BOOLEAN, stale' \in SUBSET Pixels,
         \A g \in S : \A s \in Sides : ~IsDone(g, s)',
         UnmarkedBeforeFlush'
  PROVE  BInv'
<1>1. TypeOK'
  BY DEF TypeOK, StartRun, PC, Sides
<1>2. \A g \in Groups : pc'[g] = IF g \in S THEN "save" ELSE "idle"
  BY DEF StartRun
<1>3. \A g \in Groups : Passed(g)' = {} /\ (g \notin S => Ahead(g)' = {})
                        /\ Ahead(g)' \subseteq Sides
  BY <1>2 DEF Passed, Ahead, Sides
<1>4. UnmarkedAhead'
  BY <1>3 DEF UnmarkedAhead
<1>5. SeenStays' /\ OnlyTheLater'
  BY <1>3 DEF SeenStays, OnlyTheLater
<1> QED BY <1>1, <1>4, <1>5 DEF BInv

\* ClearDone(S) unmarks S and marks nothing.
LEMMA Cleared ==
  ASSUME TypeOK, NEW S \in SUBSET Groups, ClearDone(S)
  PROVE  /\ counters_' \in [Corners -> SUBSET Sides]
         /\ \A g \in S : \A s \in Sides : ~IsDone(g, s)'
         /\ \A g \in Groups : \A s \in Sides : ~IsDone(g, s) => ~IsDone(g, s)'
<1>1. counters_' \in [Corners -> SUBSET Sides]
  BY DEF TypeOK, ClearDone
<1>2. \A k \in Corners : counters_'[k] = counters_[k] \ ClearedSides(S, k)
  BY DEF ClearDone
<1>3. \A g \in S : \A s \in Sides : ~IsDone(g, s)'
  BY <1>2, ClearFacts, CornerFacts DEF IsDone
<1>4. \A g \in Groups : \A s \in Sides : ~IsDone(g, s) => ~IsDone(g, s)'
  BY <1>2, CornerFacts DEF IsDone
<1> QED BY <1>1, <1>3, <1>4

\* The calls of the frame decoder that begin a run.
LEMMA CallStep ==
  ASSUME BInv, ~(FullImage /\ RepeatedFlush),
         \/ \E S \in SUBSET Groups : \E C \in SUBSET S : ProcessSections(S, C)
         \/ Flush
         \/ NextFrame
  PROVE  BInv'
<1> USE DEF BInv
<1>1. ASSUME NEW S \in SUBSET Groups, NEW C \in SUBSET S, ProcessSections(S, C)
      PROVE  BInv'
  <2> DEFINE clear == IF FullImage THEN Groups ELSE S
  <2>1. clear \in SUBSET Groups /\ ClearDone(clear)
    BY <1>1 DEF ProcessSections
  <2>2. PICK D \in SUBSET clear : StartRun(D)
    <3>1. CASE FullImage
      BY <1>1, <3>1 DEF ProcessSections
    <3>2. CASE ~FullImage
      BY <1>1, <3>2 DEF ProcessSections
    <3> QED BY <3>1, <3>2
  <2>3. /\ counters_' \in [Corners -> SUBSET Sides]
        /\ \A g \in clear : \A s \in Sides : ~IsDone(g, s)'
    BY <2>1, Cleared
  <2>4. UnmarkedBeforeFlush'
    <3>1. FullImage => \A g \in Groups : pc'[g] = "idle"
      BY <1>1 DEF ProcessSections, StartRun
    <3> QED BY <2>3, <3>1 DEF UnmarkedBeforeFlush
  <2>5. complete' \in SUBSET Groups /\ flushed' \in BOOLEAN /\ stale' \in SUBSET Pixels
    BY <1>1 DEF ProcessSections, TypeOK
  <2>6. D \in SUBSET Groups /\ \A g \in D : \A s \in Sides : ~IsDone(g, s)'
    BY <2>1, <2>2, <2>3
  <2> HIDE DEF clear, BInv
  <2> QED BY <2>2, <2>3, <2>4, <2>5, <2>6, RunStart
<1>2. ASSUME Flush PROVE BInv'
  <2> DEFINE S == IF FullImage THEN Groups ELSE Groups \ complete
  <2>1. S \in SUBSET Groups /\ StartRun(S)
    BY <1>2 DEF Flush
  <2>2. Groups \ complete \in SUBSET Groups /\ ClearDone(Groups \ complete)
    BY <1>2 DEF Flush
  <2>3. /\ counters_' \in [Corners -> SUBSET Sides]
        /\ \A g \in Groups \ complete : \A s \in Sides : ~IsDone(g, s)'
        /\ \A g \in Groups : \A s \in Sides : ~IsDone(g, s) => ~IsDone(g, s)'
    BY <2>2, Cleared
  <2>4. FullImage => ~flushed
    BY <1>2 DEF Flush
  <2>5. \A g \in S : \A s \in Sides : ~IsDone(g, s)'
    BY <2>3, <2>4 DEF UnmarkedBeforeFlush
  <2>6. /\ flushed' = TRUE
        /\ complete' \in SUBSET Groups /\ flushed' \in BOOLEAN /\ stale' \in SUBSET Pixels
    BY <1>2 DEF Flush, TypeOK
  <2>7. UnmarkedBeforeFlush'
    BY <2>6 DEF UnmarkedBeforeFlush
  <2> HIDE DEF S, BInv
  <2> QED BY <2>1, <2>3, <2>5, <2>6, <2>7, RunStart
<1>3. ASSUME NextFrame PROVE BInv'
  <2>1. {} \in SUBSET Groups /\ StartRun({})
    BY <1>3 DEF NextFrame
  <2>2. counters_' \in [Corners -> SUBSET Sides]
    BY <1>3 DEF NextFrame, InitialCounter, Sides
  <2>3. \A g \in Groups : \A s \in Sides : ~IsDone(g, s)'
    BY <1>3, InitialFacts, CornerFacts DEF NextFrame, IsDone
  <2>4. complete' \in SUBSET Groups /\ flushed' \in BOOLEAN /\ stale' \in SUBSET Pixels
    BY <1>3 DEF NextFrame
  <2>5. UnmarkedBeforeFlush'
    BY <2>1, <2>3 DEF UnmarkedBeforeFlush, StartRun
  <2>6. \A g \in {} : \A s \in Sides : ~IsDone(g, s)'
    OBVIOUS
  <2> HIDE DEF BInv
  <2> QED BY <2>1, <2>2, <2>4, <2>5, <2>6, RunStart
<1> QED BY <1>1, <1>2, <1>3

-----------------------------------------------------------------------------
\* A group stores its borders, or renders: no corner is touched.
LEMMA LocalStep ==
  ASSUME BInv, NEW g \in Groups, SaveBorders(g) \/ RenderRects(g)
  PROVE  BInv'
<1> USE DEF BInv
<1>1. /\ UNCHANGED <<counters_, status, complete, flushed>>
      /\ pc' = [pc EXCEPT ![g] = pc'[g]]
      /\ \/ pc[g] = "save" /\ pc'[g] = "tl"
         \/ pc[g] = "render" /\ pc'[g] = "rendered"
  BY DEF SaveBorders, RenderRects, TypeOK
<1>2. stale' \in SUBSET Pixels
  BY DEF SaveBorders, RenderRects, TypeOK, Influence, Reach, Pixels
<1>3. TypeOK'
  BY <1>1, <1>2 DEF TypeOK, PC, Sides
<1>4. \A h \in Groups : Ahead(h)' = Ahead(h) /\ Passed(h)' = Passed(h)
  <2>1. Ahead(g)' = Ahead(g) /\ Passed(g)' = Passed(g)
    BY <1>1 DEF Ahead, Passed, Sides
  <2>2. \A h \in Groups \ {g} : pc'[h] = pc[h]
    BY <1>1 DEF TypeOK
  <2>3. \A h \in Groups \ {g} : Ahead(h)' = Ahead(h) /\ Passed(h)' = Passed(h)
    BY <2>2 DEF Ahead, Passed
  <2> QED BY <2>1, <2>3
<1>5. UnmarkedAhead'
  BY <1>1, <1>4 DEF UnmarkedAhead, IsDone
<1>6. SeenStays'
  BY <1>1, <1>4 DEF SeenStays
<1>7. OnlyTheLater'
  BY <1>1, <1>4 DEF OnlyTheLater
<1>8. UnmarkedBeforeFlush'
  BY <1>1 DEF UnmarkedBeforeFlush
<1> QED BY <1>3, <1>5, <1>6, <1>7, <1>8

\* A group marks itself at a corner.  It sees whoever came before; nobody who
\* came before has seen it.
LEMMA FetchStep ==
  ASSUME BInv, NEW g \in Groups, FetchStatus(g)
  PROVE  BInv'
<1> USE DEF BInv
<1> DEFINE s == pc[g]
           k == Corner(g, s)
           bits == counters_[k] \cup {Opposite(s)}
<1>1. /\ s \in Sides /\ k \in Corners /\ Opposite(s) \in Sides
      /\ bits \in SUBSET Sides
  BY CornerFacts DEF FetchStatus, TypeOK
<1>2. /\ counters_' = [counters_ EXCEPT ![k] = bits]
      /\ status' = [status EXCEPT ![g][s] = bits]
      /\ pc' = [pc EXCEPT ![g] = NextSide(s)]
      /\ UNCHANGED <<complete, flushed, stale>>
  BY DEF FetchStatus
<1>3. /\ counters_'[k] = bits
      /\ \A j \in Corners : counters_[j] \subseteq counters_'[j]
      /\ \A j \in Corners \ {k} : counters_'[j] = counters_[j]
      /\ status'[g][s] = bits
      /\ \A t \in Sides \ {s} : status'[g][t] = status[g][t]
      /\ \A h \in Groups \ {g} : status'[h] = status[h]
  BY <1>1, <1>2 DEF TypeOK
<1>4. TypeOK'
  <2>1. NextSide(s) \in PC
    BY <1>1 DEF NextSide, PC, Sides
  <2>2. pc' \in [Groups -> PC] /\ counters_' \in [Corners -> SUBSET Sides]
    BY <1>1, <1>2, <2>1 DEF TypeOK
  <2>3. status' \in [Groups -> [Sides -> SUBSET Sides]]
    BY <1>1, <1>2 DEF TypeOK
  <2> QED BY <1>2, <2>2, <2>3 DEF TypeOK
<1>5. /\ Ahead(g)' = Ahead(g) \ {s} /\ Passed(g)' = Passed(g) \cup {s}
      /\ s \in Ahead(g)
  <2>1. pc'[g] = NextSide(s)
    BY <1>2 DEF TypeOK
  <2> QED BY <1>1, <2>1 DEF Ahead, Passed, Sides, NextSide
<1>6. \A h \in Groups \ {g} : Ahead(h)' = Ahead(h) /\ Passed(h)' = Passed(h)
  <2>1. \A h \in Groups \ {g} : pc'[h] = pc[h]
    BY <1>2 DEF TypeOK
  <2> QED BY <2>1 DEF Ahead, Passed
<1>7. \A h \in Groups : /\ Ahead(h) \subseteq Sides /\ Passed(h) \subseteq Sides
                         /\ Ahead(h) \cap Passed(h) = {}
  BY PathFacts DEF TypeOK
<1>8. \A h \in Groups : \A t \in Sides :
        IsDone(h, t)' /\ ~IsDone(h, t) => h = g /\ t = s
  <2> SUFFICES ASSUME NEW h \in Groups, NEW t \in Sides,
                      IsDone(h, t)', ~IsDone(h, t)
               PROVE  h = g /\ t = s
    OBVIOUS
  <2>1. Corner(h, t) = k /\ Opposite(t) = Opposite(s)
    BY <1>3, CornerFacts DEF IsDone
  <2>2. t = s
    BY <1>1, <2>1, CornerFacts
  <2> QED BY <1>1, <2>1, <2>2, CornerFacts
<1>9. UnmarkedAhead'
  BY <1>5, <1>6, <1>7, <1>8 DEF UnmarkedAhead
<1>10. SeenStays'
  <2> SUFFICES ASSUME NEW h \in Groups, NEW t \in Passed(h)'
               PROVE  status'[h][t] \subseteq counters_'[Corner(h, t)]
    BY DEF SeenStays
  <2>1. CASE h = g /\ t = s
    BY <1>3, <2>1
  <2>2. CASE ~(h = g /\ t = s)
    <3>1. t \in Passed(h) /\ t \in Sides /\ Corner(h, t) \in Corners
      BY <1>5, <1>6, <1>7, <2>2, CornerFacts
    <3>2. status'[h][t] = status[h][t]
      BY <1>3, <2>2, <3>1
    <3> QED BY <1>3, <3>1, <3>2 DEF SeenStays
  <2> QED BY <2>1, <2>2
<1>11. \A h \in Groups \ {g} : \A t \in Passed(h) :
         Corner(h, t) = k => Opposite(s) \notin status[h][t]
  BY <1>5 DEF SeenStays, UnmarkedAhead, IsDone
<1>12. OnlyTheLater'
  <2> SUFFICES ASSUME NEW h1 \in Groups, NEW h2 \in Groups,
                      NEW t1 \in Passed(h1)', NEW t2 \in Passed(h2)',
                      h1 # h2, Corner(h1, t1) = Corner(h2, t2)
               PROVE  ~(/\ Opposite(t1) \in status'[h2][t2]
                        /\ Opposite(t2) \in status'[h1][t1])
    BY DEF OnlyTheLater
  <2>1. CASE h1 = g /\ t1 = s
    <3>1. h2 # g /\ t2 \in Passed(h2) /\ status'[h2] = status[h2]
      BY <1>3, <1>6, <2>1
    <3> QED BY <1>11, <2>1, <3>1
  <2>2. CASE h2 = g /\ t2 = s
    <3>1. h1 # g /\ t1 \in Passed(h1) /\ status'[h1] = status[h1]
      BY <1>3, <1>6, <2>2
    <3> QED BY <1>11, <2>2, <3>1
  <2>3. CASE ~(h1 = g /\ t1 = s) /\ ~(h2 = g /\ t2 = s)
    <3>1. t1 \in Passed(h1) /\ t2 \in Passed(h2) /\ t1 \in Sides /\ t2 \in Sides
      BY <1>5, <1>6, <1>7, <2>3
    <3>2. status'[h1][t1] = status[h1][t1] /\ status'[h2][t2] = status[h2][t2]
      BY <1>3, <2>3, <3>1
    <3> QED BY <3>1, <3>2 DEF OnlyTheLater
  <2> QED BY <2>1, <2>2, <2>3
<1>13. UnmarkedBeforeFlush'
  BY <1>1, <1>2 DEF UnmarkedBeforeFlush, Sides
<1> QED BY <1>4, <1>9, <1>10, <1>12, <1>13

-----------------------------------------------------------------------------
\* BInv holds at first, and every step preserves it.
LEMMA InitBInv == Init => BInv
<1> SUFFICES ASSUME Init PROVE BInv
  OBVIOUS
<1>1. TypeOK
  BY DEF Init, TypeOK, PC, Sides, InitialCounter
<1>2. \A g \in Groups : /\ pc[g] = "idle" /\ Ahead(g) = {} /\ Passed(g) = {}
                         /\ \A s \in Sides : ~IsDone(g, s)
  <2>1. \A g \in Groups : pc[g] = "idle" /\ Ahead(g) = {} /\ Passed(g) = {}
    BY DEF Init, Ahead, Passed, Sides
  <2>2. \A g \in Groups : \A s \in Sides : ~IsDone(g, s)
    BY InitialFacts, CornerFacts DEF Init, IsDone
  <2> QED BY <2>1, <2>2
<1> QED BY <1>1, <1>2 DEF BInv, UnmarkedAhead, SeenStays, OnlyTheLater,
                          UnmarkedBeforeFlush

\* Calls of the frame decoder and steps of the groups preserve BInv.
LEMMA NextBInv ==
  ASSUME ~(FullImage /\ RepeatedFlush), BInv, [Next]_vars
  PROVE  BInv'
<1>1. CASE UNCHANGED vars
  BY <1>1 DEF vars, BInv, TypeOK, UnmarkedAhead, SeenStays, OnlyTheLater,
              UnmarkedBeforeFlush, IsDone, Ahead, Passed
<1>2. CASE Next
  <2>1. CASE \E g \in Groups : SaveBorders(g) \/ FetchStatus(g) \/ RenderRects(g)
    BY <2>1, LocalStep, FetchStep
  <2>2. CASE \/ \E S \in SUBSET Groups : \E C \in SUBSET S : ProcessSections(S, C)
             \/ Flush
             \/ NextFrame
    BY <2>2, CallStep
  <2> QED BY <1>2, <2>1, <2>2 DEF Next
<1> QED BY <1>1, <1>2

\* Only one group sees all of a corner, and of the two groups at a border only
\* one sees the other where the border is decided.
LEMMA OneHandler == BInv => HandledOnce
<1> SUFFICES ASSUME BInv, NEW g \in Groups, NEW h \in Groups,
                    Assigned(g), Assigned(h), g # h,
                    NEW p \in Available(g), NEW q \in Available(h),
                    Shared(g, p) = Shared(h, q)
             PROVE  FALSE
  BY DEF HandledOnce
<1>1. Passed(g) = Sides /\ Passed(h) = Sides
  BY PathFacts DEF BInv, TypeOK
<1>2. ASSUME NEW s \in Sides, NEW t \in Sides, Corner(g, s) = Corner(h, t)
      PROVE  ~(Opposite(s) \in status[h][t] /\ Opposite(t) \in status[g][s])
  BY <1>1, <1>2 DEF BInv, OnlyTheLater
<1> DEFINE CornerParts == {<<0, 0>>, <<2, 0>>, <<2, 2>>, <<0, 2>>}
           side(r) == CASE r = <<0, 0>> -> "tl" [] r = <<2, 0>> -> "tr"
                        [] r = <<2, 2>> -> "br" [] r = <<0, 2>> -> "bl"
<1>3. /\ p \in CornerParts => status[g][side(p)] = Sides
      /\ p = <<1, 0>> => "tr" \in status[g]["tl"]
      /\ p = <<0, 1>> => "bl" \in status[g]["tl"]
      /\ p = <<2, 1>> => "br" \in status[g]["tr"]
      /\ p = <<1, 2>> => "br" \in status[g]["bl"]
      /\ p \in CornerParts \cup {<<1, 1>>, <<1, 0>>, <<0, 1>>, <<2, 1>>, <<1, 2>>}
  BY DEF Available
<1>4. /\ q \in CornerParts => status[h][side(q)] = Sides
      /\ q = <<1, 0>> => "tr" \in status[h]["tl"]
      /\ q = <<0, 1>> => "bl" \in status[h]["tl"]
      /\ q = <<2, 1>> => "br" \in status[h]["tr"]
      /\ q = <<1, 2>> => "br" \in status[h]["bl"]
      /\ q \in CornerParts \cup {<<1, 1>>, <<1, 0>>, <<0, 1>>, <<2, 1>>, <<1, 2>>}
  BY DEF Available
<1>5. PICK x \in Int, y \in Int, u \in Int, v \in Int : g = <<x, y>> /\ h = <<u, v>>
  BY GridAssumption DEF Groups
<1>6. 2 * x + p[1] = 2 * u + q[1] /\ 2 * y + p[2] = 2 * v + q[2]
  BY <1>5 DEF Shared
<1> DEFINE Parts == CornerParts \cup {<<1, 1>>, <<1, 0>>, <<0, 1>>, <<2, 1>>, <<1, 2>>}
<1>7. /\ p[1] \in 0..2 /\ p[2] \in 0..2 /\ p = <<p[1], p[2]>>
       /\ q[1] \in 0..2 /\ q[2] \in 0..2 /\ q = <<q[1], q[2]>>
  <2>1. \A r \in Parts : r[1] \in 0..2 /\ r[2] \in 0..2 /\ r = <<r[1], r[2]>>
    OBVIOUS
  <2> QED BY <1>3, <1>4, <2>1
<1>8. (p[1] = 1 <=> q[1] = 1) /\ (p[2] = 1 <=> q[2] = 1)
  <2>1. \A a, b \in Int : \A m, n \in 0..2 : 2 * a + m = 2 * b + n => (m = 1 <=> n = 1)
    OBVIOUS
  <2> QED BY <1>5, <1>6, <1>7, <2>1
<1>9. p # q
  <2> SUFFICES ASSUME p = q PROVE FALSE
    OBVIOUS
  <2>1. 2 * x + p[1] = 2 * u + p[1] /\ 2 * y + p[2] = 2 * v + p[2]
    BY <1>6
  <2>2. x = u /\ y = v
    <3>1. \A a, b, n \in Int : 2 * a + n = 2 * b + n => a = b
      OBVIOUS
    <3>2. p[1] \in Int /\ p[2] \in Int
      BY <1>7
    <3> QED BY <1>5, <2>1, <3>1, <3>2
  <2> QED BY <1>5, <2>2
<1>10. CASE p \in CornerParts
  <2>1. q \in CornerParts
    <3>1. p[1] # 1 /\ p[2] # 1
      BY <1>10
    <3>2. q[1] \in {0, 2} /\ q[2] \in {0, 2}
      BY <1>7, <1>8, <3>1
    <3> QED BY <1>7, <3>2
  <2>2. side(p) \in Sides /\ side(q) \in Sides
    BY <1>10, <2>1 DEF Sides
  <2>3. Corner(g, side(p)) = Corner(h, side(q))
    BY <1>5, <1>6, <1>10, <2>1 DEF Corner
  <2>4. Opposite(side(p)) \in Sides /\ Opposite(side(q)) \in Sides
    BY <2>2, CornerFacts
  <2>5. status[g][side(p)] = Sides /\ status[h][side(q)] = Sides
    BY <1>3, <1>4, <1>10, <2>1
  <2> HIDE DEF side, CornerParts
  <2> QED BY <1>2, <2>2, <2>3, <2>4, <2>5
<1>11. CASE p = <<1, 1>>
  <2>1. q[1] = 1 /\ q[2] = 1
    BY <1>11, <1>8
  <2> QED BY <1>11, <1>7, <1>9, <2>1
<1>12. CASE p = <<1, 0>>
  <2>1. q = <<1, 2>>
    <3>1. q[1] = 1 /\ q[2] \in {0, 2}
      BY <1>12, <1>7, <1>8
    <3> QED BY <1>12, <1>7, <1>9, <3>1
  <2>2. x = u /\ y = v + 1
    BY <1>5, <1>6, <1>12, <2>1
  <2>3. Corner(g, "tl") = Corner(h, "bl")
    BY <1>5, <2>2 DEF Corner
  <2> QED BY <1>2, <1>3, <1>4, <1>12, <2>1, <2>3 DEF Sides, Opposite
<1>13. CASE p = <<1, 2>>
  <2>1. q = <<1, 0>>
    <3>1. q[1] = 1 /\ q[2] \in {0, 2}
      BY <1>13, <1>7, <1>8
    <3> QED BY <1>13, <1>7, <1>9, <3>1
  <2>2. x = u /\ v = y + 1
    BY <1>5, <1>6, <1>13, <2>1
  <2>3. Corner(g, "bl") = Corner(h, "tl")
    BY <1>5, <2>2 DEF Corner
  <2> QED BY <1>2, <1>3, <1>4, <1>13, <2>1, <2>3 DEF Sides, Opposite
<1>14. CASE p = <<0, 1>>
  <2>1. q = <<2, 1>>
    <3>1. q[2] = 1 /\ q[1] \in {0, 2}
      BY <1>14, <1>7, <1>8
    <3> QED BY <1>14, <1>7, <1>9, <3>1
  <2>2. x = u + 1 /\ y = v
    BY <1>5, <1>6, <1>14, <2>1
  <2>3. Corner(g, "tl") = Corner(h, "tr")
    BY <1>5, <2>2 DEF Corner
  <2> QED BY <1>2, <1>3, <1>4, <1>14, <2>1, <2>3 DEF Sides, Opposite
<1>15. CASE p = <<2, 1>>
  <2>1. q = <<0, 1>>
    <3>1. q[2] = 1 /\ q[1] \in {0, 2}
      BY <1>15, <1>7, <1>8
    <3> QED BY <1>15, <1>7, <1>9, <3>1
  <2>2. u = x + 1 /\ y = v
    BY <1>5, <1>6, <1>15, <2>1
  <2>3. Corner(g, "tr") = Corner(h, "tl")
    BY <1>5, <2>2 DEF Corner
  <2> QED BY <1>2, <1>3, <1>4, <1>15, <2>1, <2>3 DEF Sides, Opposite
<1> QED BY <1>3, <1>10, <1>11, <1>12, <1>13, <1>14, <1>15

-----------------------------------------------------------------------------
\* Unless a frame that is drawn at once is flushed twice without new input, no
\* border or corner between groups is handled by two of them: for every size
\* of the frame and every interleaving of the atomic operations of GroupDone().
THEOREM BordersHandledOnce ==
  ASSUME ~(FullImage /\ RepeatedFlush)
  PROVE  Spec => []HandledOnce
<1>1. Init => BInv
  BY InitBInv
<1>2. BInv /\ [Next]_vars => BInv'
  BY NextBInv
<1>3. BInv => HandledOnce
  BY OneHandler
<1> QED BY <1>1, <1>2, <1>3, PTL DEF Spec

\* Under the same condition the assertion of GroupDone() holds: a group that
\* reports at a corner is not yet marked there.
THEOREM GroupsReportOnce ==
  ASSUME ~(FullImage /\ RepeatedFlush)
  PROVE  Spec => []ReportsOnce
<1>1. Init => BInv
  BY InitBInv
<1>2. BInv /\ [Next]_vars => BInv'
  BY NextBInv
<1>3. BInv => ReportsOnce
  BY PathFacts DEF BInv, TypeOK, UnmarkedAhead, IsDone, ReportsOnce
<1> QED BY <1>1, <1>2, <1>3, PTL DEF Spec
-----------------------------------------------------------------------------
(* The geometry of one dimension: n groups, size pixels, borders of pad.    *)

Fits(n, size, pad) ==
  /\ n \in Nat \ {0} /\ size \in Nat /\ pad \in Nat /\ 2 * pad <= GroupDim
  /\ size >= (n - 1) * GroupDim + 1 /\ size <= n * GroupDim

\* The border between groups i - 1 and i reaches from Lo to Hi; there is none at
\* the edges of the frame.
Lo(i, n, size, pad) == IF i = 0 THEN 0 ELSE IF i = n THEN size ELSE i * GroupDim - pad
Hi(i, n, size, pad) ==
  IF i = 0 THEN 0 ELSE IF i = n THEN size ELSE MinOf(size, i * GroupDim + pad)

\* The parts in the numbering of Shared(): even ones are borders, odd ones centres.
Edge(k, n, size, pad) ==
  IF k % 2 = 0 THEN Lo(k \div 2, n, size, pad) ELSE Hi(k \div 2, n, size, pad)
InPart(x, q, n, size, pad) ==
  /\ q \in 0..2 * n
  /\ Edge(q, n, size, pad) <= x /\ x < Edge(q + 1, n, size, pad)

LEMMA FrameFits ==
  Fits(XGroups, XSize, PadX) /\ Fits(YGroups, YSize, PadY)
<1>1. \A n \in Nat \ {0} : (n - 1) * GroupDim + 1 \in Nat
  BY GeometryAssumption
<1> QED BY <1>1, GridAssumption, GeometryAssumption DEF Fits

LEMMA Products ==
  ASSUME NEW i \in Nat, NEW j \in Nat, i <= j
  PROVE  /\ i * GroupDim \in Nat /\ j * GroupDim \in Nat
         /\ i * GroupDim <= j * GroupDim
         /\ (i + 1) * GroupDim = i * GroupDim + GroupDim
         /\ i > 0 => i * GroupDim >= GroupDim
BY GeometryAssumption

LEMMA LoHi ==
  ASSUME NEW n, NEW size, NEW pad, Fits(n, size, pad), NEW i \in 0..n
  PROVE  /\ Lo(i, n, size, pad) \in Nat /\ Hi(i, n, size, pad) \in Nat
         /\ Lo(i, n, size, pad) <= Hi(i, n, size, pad)
         /\ Hi(i, n, size, pad) <= size
         /\ i < n => Hi(i, n, size, pad) <= Lo(i + 1, n, size, pad)
<1> DEFINE G == GroupDim
           a == i * G
           b == (n - 1) * G
<1>1. /\ n \in Nat \ {0} /\ size \in Nat /\ pad \in Nat /\ 2 * pad <= G /\ size >= b + 1
      /\ i \in Nat /\ n - 1 \in Nat /\ G \in Nat \ {0}
  BY GeometryAssumption DEF Fits
<1>2. /\ a \in Nat /\ b \in Nat /\ (i + 1) * G = a + G
      /\ i > 0 => a >= G
      /\ i < n => a <= b
  <2>1. i <= i /\ n - 1 <= n - 1 /\ (i < n => i <= n - 1)
    BY <1>1
  <2> QED BY <1>1, <2>1, Products
<1> HIDE DEF a, b, G
<1>3. /\ Lo(i, n, size, pad) = IF i = 0 THEN 0 ELSE IF i = n THEN size ELSE a - pad
      /\ Hi(i, n, size, pad) = IF i = 0 THEN 0 ELSE IF i = n THEN size ELSE MinOf(size, a + pad)
      /\ Lo(i + 1, n, size, pad) = IF i + 1 = 0 THEN 0 ELSE IF i + 1 = n THEN size ELSE a + G - pad
  <2>1. i * GroupDim = a
    BY DEF a, G
  <2>2. (i + 1) * GroupDim = a + G
    BY <1>2 DEF G
  <2>3. Lo(i, n, size, pad) = IF i = 0 THEN 0 ELSE IF i = n THEN size ELSE a - pad
    BY <2>1 DEF Lo
  <2>4. Hi(i, n, size, pad) = IF i = 0 THEN 0 ELSE IF i = n THEN size ELSE MinOf(size, a + pad)
    BY <2>1 DEF Hi
  <2>5. Lo(i + 1, n, size, pad) = IF i + 1 = 0 THEN 0 ELSE IF i + 1 = n THEN size ELSE a + G - pad
    BY <1>1, <1>2, <2>2 DEF Lo
  <2> QED BY <2>3, <2>4, <2>5
<1>4. CASE i = 0
  BY <1>1, <1>2, <1>3, <1>4
<1>5. CASE i = n
  BY <1>1, <1>2, <1>3, <1>5
<1>6. CASE i # 0 /\ i # n
  <2>1. i > 0 /\ i < n
    BY <1>1, <1>6
  <2> QED BY <1>1, <1>2, <1>3, <2>1 DEF MinOf
<1> QED BY <1>4, <1>5, <1>6

LEMMA Halves ==
  ASSUME NEW k \in Nat
  PROVE  /\ (2 * k) % 2 = 0 /\ (2 * k) \div 2 = k
         /\ (2 * k + 1) % 2 = 1 /\ (2 * k + 1) \div 2 = k
         /\ k \div 2 \in Nat
         /\ k = 2 * (k \div 2) \/ k = 2 * (k \div 2) + 1
OBVIOUS

LEMMA EdgesInOrder ==
  ASSUME NEW n, NEW size, NEW pad, Fits(n, size, pad)
  PROVE  /\ \A k \in 0..2 * n + 1 : Edge(k, n, size, pad) \in Nat
         /\ \A k, l \in 0..2 * n + 1 :
              k <= l => Edge(k, n, size, pad) <= Edge(l, n, size, pad)
         /\ Edge(0, n, size, pad) = 0 /\ Edge(2 * n + 1, n, size, pad) = size
<1> DEFINE e(k) == Edge(k, n, size, pad)
<1>0. n \in Nat \ {0}
  BY DEF Fits
<1>1. \A i \in Nat : e(2 * i) = Lo(i, n, size, pad) /\ e(2 * i + 1) = Hi(i, n, size, pad)
  BY Halves DEF Edge
<1>2. ASSUME NEW k \in 0..2 * n + 1
      PROVE  e(k) \in Nat /\ (k < 2 * n + 1 => e(k) <= e(k + 1))
  <2>1. PICK i \in Nat : k = 2 * i \/ k = 2 * i + 1
    BY <1>0, Halves
  <2>2. i \in 0..n
    BY <1>0, <2>1
  <2>3. /\ Lo(i, n, size, pad) \in Nat /\ Hi(i, n, size, pad) \in Nat
        /\ Lo(i, n, size, pad) <= Hi(i, n, size, pad)
        /\ i < n => Hi(i, n, size, pad) <= Lo(i + 1, n, size, pad)
    BY <2>2, LoHi
  <2> HIDE DEF e
  <2>4. CASE k = 2 * i
    BY <1>1, <2>3, <2>4
  <2>5. CASE k = 2 * i + 1
    <3>1. k + 1 = 2 * (i + 1) /\ i + 1 \in Nat
      BY <2>5
    <3>2. e(k + 1) = Lo(i + 1, n, size, pad)
      BY <1>1, <3>1
    <3> QED BY <1>0, <1>1, <2>3, <2>5, <3>2
  <2> QED BY <2>1, <2>4, <2>5
<1>3. ASSUME NEW k \in 0..2 * n + 1
      PROVE  \A l \in 0..2 * n + 1 : k <= l => e(k) <= e(l)
  <2> DEFINE S == {d \in Nat : k + d <= 2 * n + 1 => e(k) <= e(k + d)}
  <2> HIDE DEF e
  <2>1. 0 \in S
    BY <1>0, <1>2
  <2>2. ASSUME NEW d \in Nat, d \in S PROVE d + 1 \in S
    <3> SUFFICES ASSUME k + (d + 1) <= 2 * n + 1 PROVE e(k) <= e(k + (d + 1))
      OBVIOUS
    <3> DEFINE j == k + d
    <3>1. j \in 0..2 * n + 1 /\ j < 2 * n + 1 /\ j + 1 = k + (d + 1) /\ j + 1 \in 0..2 * n + 1
      BY <1>0
    <3>2. e(k) <= e(j)
      BY <1>0, <2>2, <3>1
    <3> HIDE DEF j
    <3>3. e(j) <= e(j + 1) /\ e(j) \in Nat /\ e(j + 1) \in Nat /\ e(k) \in Nat
      BY <1>2, <3>1
    <3>4. e(k) <= e(j + 1)
      BY <3>2, <3>3
    <3> QED BY <3>1, <3>4
  <2> HIDE DEF S
  <2>3. Nat \subseteq S
    BY <2>1, <2>2, SetInduction
  <2> SUFFICES ASSUME NEW l \in 0..2 * n + 1, k <= l PROVE e(k) <= e(l)
    OBVIOUS
  <2>4. l - k \in Nat /\ k + (l - k) = l /\ l <= 2 * n + 1
    BY <1>0
  <2>5. l - k \in S
    BY <2>3, <2>4
  <2>6. k + (l - k) <= 2 * n + 1 => e(k) <= e(k + (l - k))
    BY <2>5 DEF S
  <2> QED BY <2>4, <2>6
<1>4. e(0) = 0 /\ e(2 * n + 1) = size
  <2>1. 0 \in Nat /\ 2 * 0 = 0
    OBVIOUS
  <2>2. e(0) = Lo(0, n, size, pad) /\ e(2 * n + 1) = Hi(n, n, size, pad)
    BY <1>0, <1>1, <2>1
  <2> QED BY <1>0, <2>2 DEF Lo, Hi
<1> QED BY <1>2, <1>3, <1>4

\* A pixel is in one part.
LEMMA PartIsUnique ==
  ASSUME NEW n, NEW size, NEW pad, Fits(n, size, pad), NEW x \in Int,
         NEW q, InPart(x, q, n, size, pad), NEW r, InPart(x, r, n, size, pad)
  PROVE  q = r
<1> DEFINE e(k) == Edge(k, n, size, pad)
<1>1. /\ n \in Nat \ {0} /\ q \in 0..2 * n /\ r \in 0..2 * n
      /\ e(q) <= x /\ x < e(q + 1) /\ e(r) <= x /\ x < e(r + 1)
  BY DEF Fits, InPart
<1>2. /\ q \in 0..2 * n + 1 /\ r \in 0..2 * n + 1
      /\ q + 1 \in 0..2 * n + 1 /\ r + 1 \in 0..2 * n + 1
  BY <1>1
<1>3. /\ \A k \in 0..2 * n + 1 : e(k) \in Nat
      /\ \A k, l \in 0..2 * n + 1 : k <= l => e(k) <= e(l)
  BY EdgesInOrder
<1> HIDE DEF e
<1>4. CASE q < r
  <2>1. q + 1 <= r
    BY <1>1, <1>4
  <2>2. e(q + 1) <= e(r) /\ e(q + 1) \in Nat /\ e(r) \in Nat
    BY <1>2, <1>3, <2>1
  <2> QED BY <1>1, <2>2
<1>5. CASE r < q
  <2>1. r + 1 <= q
    BY <1>1, <1>5
  <2>2. e(r + 1) <= e(q) /\ e(r + 1) \in Nat /\ e(q) \in Nat
    BY <1>2, <1>3, <2>1
  <2> QED BY <1>1, <2>2
<1> QED BY <1>1, <1>4, <1>5

\* Every pixel is in a part.
LEMMA PartExists ==
  ASSUME NEW n, NEW size, NEW pad, Fits(n, size, pad), NEW x \in 0..size-1
  PROVE  \E q : InPart(x, q, n, size, pad)
<1> DEFINE e(k) == Edge(k, n, size, pad)
           T == {k \in 0..2 * n + 1 : x < e(k)}
<1>1. n \in Nat \ {0} /\ size \in Nat
  BY DEF Fits
<1>2. /\ \A k \in 0..2 * n + 1 : e(k) \in Nat
      /\ e(0) = 0 /\ e(2 * n + 1) = size
  BY EdgesInOrder
<1> HIDE DEF e
<1>3. 2 * n + 1 \in T /\ T \subseteq Nat /\ 0 \notin T
  BY <1>1, <1>2
<1>4. PICK k \in T : \A l \in T : k <= l
  BY <1>3, SmallestElement
<1>5. k # 0 /\ k - 1 \in 0..2 * n /\ k - 1 \in 0..2 * n + 1 /\ (k - 1) + 1 = k
  BY <1>1, <1>3
<1>6. k - 1 \notin T
  BY <1>1, <1>4, <1>5
<1>7. e(k - 1) <= x
  BY <1>1, <1>2, <1>5, <1>6
<1>8. InPart(x, k - 1, n, size, pad)
  BY <1>5, <1>7 DEF InPart, e
<1> QED BY <1>8

\* The blocks of a frame cover it.
LEMMA BlocksCover ==
  ASSUME NEW size \in Nat
  PROVE  ((size + BlockDim - 1) \div BlockDim) * BlockDim >= size
<1> DEFINE m == size + BlockDim - 1
<1>1. BlockDim \in Int /\ BlockDim > 0 /\ m \in Int
  BY GeometryAssumption
<1>2. \A a, b \in Int : b > 0 => (a \div b) \in Int /\ (a \div b) * b > a - b
  OBVIOUS
<1>3. (m \div BlockDim) * BlockDim > m - BlockDim
  BY <1>1, <1>2
<1>4. m \div BlockDim \in Int
  BY <1>1, <1>2
<1> DEFINE d == m \div BlockDim
<1>5. d * BlockDim > m - BlockDim /\ d \in Int
  BY <1>3, <1>4
<1> HIDE DEF d
<1>6. d * BlockDim >= size
  <2> DEFINE e == d * BlockDim
  <2>1. e \in Int /\ e > m - BlockDim /\ m - BlockDim = size - 1
    BY <1>1, <1>5
  <2> HIDE DEF e
  <2>2. e >= size
    BY <1>1, <2>1
  <2> QED BY <2>2 DEF e
<1> QED BY <1>6 DEF d

\* The positions that bound the parts of a group are edges.
LEMMA PositionsAreEdges ==
  ASSUME NEW n, NEW size, NEW pad, Fits(n, size, pad), NEW i \in 0..n-1
  PROVE  \A c \in 0..3 : Positions(i, n, size, pad)[c + 1] = Edge(2 * i + c, n, size, pad)
<1> DEFINE G == GroupDim
           a == i * G
           blocks == (size + BlockDim - 1) \div BlockDim
           covered == blocks * BlockDim
           end == MinOf(a + G, covered)
<1>1. /\ n \in Nat \ {0} /\ size \in Nat /\ pad \in Nat /\ 2 * pad <= G
      /\ i \in Nat /\ i + 1 \in Nat /\ n - 1 \in Nat /\ G \in Nat \ {0}
  BY GeometryAssumption DEF Fits
<1>2. /\ a \in Nat /\ (i + 1) * G = a + G
      /\ i > 0 => a >= G
      /\ i = 0 => a = 0
      /\ i + 1 < n => a + G <= (n - 1) * G
      /\ (n - 1) * G \in Nat
  <2>1. i <= i /\ (i + 1 < n => i + 1 <= n - 1) /\ n - 1 <= n - 1
    BY <1>1
  <2>2. i = 0 => i * G = 0
    BY <1>1
  <2> QED BY <1>1, <2>1, <2>2, Products
<1>3. size >= (n - 1) * G + 1 /\ size <= n * G
  BY DEF Fits
<1>4. covered \in Int /\ covered >= size
  <2>1. covered >= size
    BY <1>1, BlocksCover
  <2>2. blocks \in Int /\ BlockDim \in Nat
    BY <1>1, GeometryAssumption
  <2> HIDE DEF blocks
  <2> QED BY <2>1, <2>2
<1>5. Positions(i, n, size, pad) =
        <<IF a = 0 THEN 0 ELSE a - pad,
          IF a = 0 THEN 0 ELSE MinOf(size, a + pad),
          IF i + 1 = n THEN size ELSE end - pad,
          MinOf(size, end + pad)>>
  BY DEF Positions
<1>6. /\ Edge(2 * i, n, size, pad) = Lo(i, n, size, pad)
      /\ Edge(2 * i + 1, n, size, pad) = Hi(i, n, size, pad)
      /\ Edge(2 * i + 2, n, size, pad) = Lo(i + 1, n, size, pad)
      /\ Edge(2 * i + 3, n, size, pad) = Hi(i + 1, n, size, pad)
  <2>1. 2 * i + 2 = 2 * (i + 1) /\ 2 * i + 3 = 2 * (i + 1) + 1
    BY <1>1
  <2> QED BY <1>1, <2>1, Halves DEF Edge
<1>7. i # n /\ (a = 0 <=> i = 0)
  BY <1>1, <1>2
<1>8. /\ Lo(i, n, size, pad) = IF a = 0 THEN 0 ELSE a - pad
      /\ Hi(i, n, size, pad) = IF a = 0 THEN 0 ELSE MinOf(size, a + pad)
  BY <1>7 DEF Lo, Hi
<1>9. /\ Lo(i + 1, n, size, pad) = IF i + 1 = n THEN size ELSE end - pad
      /\ Hi(i + 1, n, size, pad) = MinOf(size, end + pad)
  <2>1. i + 1 # 0 /\ (i + 1) * GroupDim = a + G
    BY <1>1, <1>2
  <2> DEFINE b == a + G
  <2>2. /\ Lo(i + 1, n, size, pad) = IF i + 1 = n THEN size ELSE b - pad
        /\ Hi(i + 1, n, size, pad) = IF i + 1 = n THEN size ELSE MinOf(size, b + pad)
    BY <2>1 DEF Lo, Hi
  <2>3. b \in Nat /\ end = MinOf(b, covered)
    BY <1>1, <1>2
  <2>4. CASE i + 1 = n
    <3>1. size <= b
      BY <1>1, <1>2, <1>3, <2>4
    <3> HIDE DEF b, covered
    <3>2. end \in Int /\ end >= size
      BY <1>1, <1>4, <2>3, <3>1 DEF MinOf
    <3> HIDE DEF end
    <3>3. MinOf(size, end + pad) = size
      BY <1>1, <3>2 DEF MinOf
    <3> QED BY <2>2, <2>4, <3>3
  <2>5. CASE i + 1 # n
    <3>1. i + 1 < n
      BY <1>1, <2>5
    <3>2. b < size
      BY <1>1, <1>2, <1>3, <3>1
    <3> HIDE DEF b, covered
    <3>3. end = b
      BY <1>1, <1>4, <2>3, <3>2 DEF MinOf
    <3> QED BY <2>2, <2>5, <3>3
  <2> QED BY <2>4, <2>5
<1> HIDE DEF a, end
<1>10. \A c \in 0..3 : c = 0 \/ c = 1 \/ c = 2 \/ c = 3
  OBVIOUS
<1>11. 2 * i + 0 = 2 * i
  BY <1>1
<1> QED BY <1>5, <1>6, <1>8, <1>9, <1>10, <1>11

\* What a group influences are its three parts.
LEMMA ReachIsParts ==
  ASSUME NEW n, NEW size, NEW pad, Fits(n, size, pad), NEW i \in 0..n-1,
         NEW x \in Int, NEW q, InPart(x, q, n, size, pad)
  PROVE  x \in Reach(i, size, pad) <=> q \in 2 * i..2 * i + 2
<1> DEFINE G == GroupDim
           a == i * G
           e(k) == Edge(k, n, size, pad)
<1>1. /\ n \in Nat \ {0} /\ size \in Nat /\ pad \in Nat /\ 2 * pad <= G
      /\ i \in Nat /\ i + 1 \in Nat /\ G \in Nat \ {0} /\ size <= n * G
  BY GeometryAssumption DEF Fits
<1>2. /\ a \in Nat /\ (i + 1) * G = a + G
      /\ i > 0 => a >= G
      /\ i = 0 => a = 0
  <2>1. i <= i
    BY <1>1
  <2>2. i = 0 => i * G = 0
    BY <1>1
  <2> QED BY <1>1, <2>1, <2>2, Products
<1>3. /\ e(2 * i) = IF i = 0 THEN 0 ELSE a - pad
      /\ e(2 * i + 3) = IF i + 1 = n THEN size ELSE MinOf(size, a + G + pad)
  <2>1. 2 * i + 3 = 2 * (i + 1) + 1 /\ i # n /\ i + 1 # 0
    BY <1>1
  <2>2. e(2 * i) = Lo(i, n, size, pad) /\ e(2 * i + 3) = Hi(i + 1, n, size, pad)
    BY <1>1, <2>1, Halves DEF Edge
  <2>3. Lo(i, n, size, pad) = IF i = 0 THEN 0 ELSE a - pad
    BY <2>1 DEF Lo
  <2>4. Hi(i + 1, n, size, pad) = IF i + 1 = n THEN size ELSE MinOf(size, a + G + pad)
    BY <1>1, <1>2, <2>1 DEF Hi
  <2> QED BY <2>2, <2>3, <2>4
<1>4. /\ \A k \in 0..2 * n + 1 : e(k) \in Nat
      /\ \A k, l \in 0..2 * n + 1 : k <= l => e(k) <= e(l)
      /\ e(0) = 0 /\ e(2 * n + 1) = size
  BY EdgesInOrder
<1>5. /\ q \in 0..2 * n /\ e(q) <= x /\ x < e(q + 1)
      /\ q \in 0..2 * n + 1 /\ q + 1 \in 0..2 * n + 1
      /\ 2 * i \in 0..2 * n + 1 /\ 2 * i + 3 \in 0..2 * n + 1
      /\ 0 \in 0..2 * n + 1 /\ 2 * n + 1 \in 0..2 * n + 1
  BY <1>1 DEF InPart
<1>6. x \in Reach(i, size, pad) <=> x \in 0..size-1 /\ x >= a - pad /\ x < a + G + pad
  BY <1>1, <1>2 DEF Reach
<1> HIDE DEF e, a, G
<1>7. x \in 0..size - 1
  <2>1. /\ 0 <= q /\ q + 1 <= 2 * n + 1
    BY <1>1, <1>5
  <2>2. e(0) <= e(q) /\ e(q + 1) <= e(2 * n + 1) /\ e(q) \in Nat /\ e(q + 1) \in Nat
    BY <1>4, <1>5, <2>1
  <2> QED BY <1>1, <1>4, <1>5, <2>2
<1>8. ASSUME q \in 2 * i..2 * i + 2 PROVE x >= a - pad /\ x < a + G + pad
  <2>1. 2 * i <= q /\ q + 1 <= 2 * i + 3
    BY <1>1, <1>8
  <2>2. /\ e(2 * i) <= e(q) /\ e(q + 1) <= e(2 * i + 3)
        /\ e(q) \in Nat /\ e(q + 1) \in Nat /\ e(2 * i) \in Nat /\ e(2 * i + 3) \in Nat
    BY <1>4, <1>5, <2>1
  <2>3. e(2 * i) >= a - pad
    BY <1>1, <1>2, <1>3, <2>2
  <2>4. e(2 * i + 3) <= a + G + pad
    <3>1. i + 1 = n => size <= a + G
      BY <1>1, <1>2
    <3> QED BY <1>1, <1>2, <1>3, <2>2, <3>1 DEF MinOf
  <2> QED BY <1>1, <1>2, <1>5, <2>2, <2>3, <2>4
<1>9. ASSUME x >= a - pad, x < a + G + pad PROVE q \in 2 * i..2 * i + 2
  <2>1. CASE q < 2 * i
    <3>1. q + 1 <= 2 * i /\ i # 0
      BY <1>1, <1>5, <2>1
    <3>2. e(q + 1) <= e(2 * i) /\ e(q + 1) \in Nat
      BY <1>4, <1>5, <3>1
    <3>3. x < a - pad
      BY <1>1, <1>2, <1>3, <1>5, <3>1, <3>2
    <3> QED BY <1>1, <1>2, <1>9, <3>3
  <2>2. CASE q > 2 * i + 2
    <3>1. 2 * i + 3 <= q /\ i + 1 # n
      BY <1>1, <1>5, <2>2
    <3>2. e(2 * i + 3) <= e(q) /\ e(q) \in Nat
      BY <1>4, <1>5, <3>1
    <3>3. MinOf(size, a + G + pad) <= x
      BY <1>3, <1>4, <1>5, <3>1, <3>2
    <3> QED BY <1>1, <1>2, <1>7, <1>9, <3>3 DEF MinOf
  <2> QED BY <1>1, <1>5, <2>1, <2>2
<1> QED BY <1>6, <1>7, <1>8, <1>9

\* Between two of the positions of a group lie the parts between them.
LEMMA IntervalIsParts ==
  ASSUME NEW n, NEW size, NEW pad, Fits(n, size, pad), NEW i \in 0..n-1, NEW x,
         NEW a \in 0..3, NEW b \in 0..3
  PROVE  x \in Edge(2 * i + a, n, size, pad)..Edge(2 * i + b, n, size, pad) - 1
           <=> /\ x \in Int
               /\ \E c \in 0..2 : a <= c /\ c < b /\ InPart(x, 2 * i + c, n, size, pad)
<1> DEFINE e(k) == Edge(k, n, size, pad)
           f(c) == e(2 * i + c)
<1>1. n \in Nat \ {0} /\ i \in Nat
  BY DEF Fits
<1>2. \A c \in 0..3 : 2 * i + c \in 0..2 * n + 1
  BY <1>1
<1>3. \A k \in 0..2 * n + 1 : e(k) \in Nat
  BY EdgesInOrder
<1>4. \A k, l \in 0..2 * n + 1 : k <= l => e(k) <= e(l)
  BY EdgesInOrder
<1>5. \A c \in 0..3 : f(c) \in Nat
  BY <1>2, <1>3
<1>6. \A c, d \in 0..3 : c <= d => f(c) <= f(d)
  <2> SUFFICES ASSUME NEW c \in 0..3, NEW d \in 0..3, c <= d PROVE f(c) <= f(d)
    OBVIOUS
  <2>1. 2 * i + c <= 2 * i + d
    BY <1>1
  <2> HIDE DEF e
  <2> QED BY <1>2, <1>4, <2>1
<1>7. \A c \in 0..2 : InPart(x, 2 * i + c, n, size, pad) <=> f(c) <= x /\ x < f(c + 1)
  <2> SUFFICES ASSUME NEW c \in 0..2
               PROVE  InPart(x, 2 * i + c, n, size, pad) <=> f(c) <= x /\ x < f(c + 1)
    OBVIOUS
  <2>1. 2 * i + c \in 0..2 * n /\ (2 * i + c) + 1 = 2 * i + (c + 1)
    BY <1>1
  <2> QED BY <2>1 DEF InPart
<1> HIDE DEF e, f
<1>8. ASSUME x \in f(a)..f(b) - 1
      PROVE  x \in Int /\ \E c \in 0..2 : a <= c /\ c < b /\ f(c) <= x /\ x < f(c + 1)
  <2>1. x \in Int /\ f(a) <= x /\ x < f(b)
    BY <1>5, <1>8
  <2>2. a < b
    <3> SUFFICES ASSUME b <= a PROVE FALSE
      OBVIOUS
    <3>1. f(b) <= f(a) /\ f(a) \in Nat /\ f(b) \in Nat
      BY <1>5, <1>6
    <3> QED BY <2>1, <3>1
  <2>3. f(0) \in Nat /\ f(1) \in Nat /\ f(2) \in Nat /\ f(3) \in Nat
    BY <1>5
  <2>4. CASE x < f(a + 1)
    <3>1. a \in 0..2 /\ a <= a
      BY <2>2
    <3> QED BY <2>1, <2>2, <2>4, <3>1
  <2>5. CASE ~(x < f(a + 1)) /\ x < f(a + 2)
    <3>1. a + 1 \in 0..2 /\ a <= a + 1 /\ a + 1 < b /\ (a + 1) + 1 = a + 2
      <4>1. a + 1 # b
        BY <2>1, <2>5
      <4> QED BY <2>2, <4>1
    <3>2. f(a + 1) <= x
      <4>1. f(a + 1) \in Nat
        BY <1>5, <3>1
      <4> QED BY <2>1, <2>5, <4>1
    <3> QED BY <2>1, <2>5, <3>1, <3>2
  <2>6. CASE ~(x < f(a + 1)) /\ ~(x < f(a + 2))
    <3>1. a + 1 # b /\ a + 2 # b
      BY <2>1, <2>6
    <3>2. a + 2 \in 0..2 /\ a <= a + 2 /\ a + 2 < b /\ (a + 2) + 1 = b
      BY <2>2, <3>1
    <3>3. f(a + 2) <= x
      <4>1. f(a + 2) \in Nat
        BY <1>5, <3>2
      <4> QED BY <2>1, <2>6, <4>1
    <3> QED BY <2>1, <3>2, <3>3
  <2> QED BY <2>4, <2>5, <2>6
<1>9. ASSUME x \in Int, NEW c \in 0..2, a <= c, c < b, f(c) <= x, x < f(c + 1)
      PROVE  x \in f(a)..f(b) - 1
  <2>1. c \in 0..3 /\ c + 1 \in 0..3 /\ c + 1 <= b
    BY <1>9
  <2>2. f(a) <= f(c) /\ f(c + 1) <= f(b)
    BY <1>6, <1>9, <2>1
  <2>3. f(a) \in Nat /\ f(b) \in Nat /\ f(c) \in Nat /\ f(c + 1) \in Nat
    BY <1>5, <2>1
  <2> QED BY <1>9, <2>2, <2>3
<1>10. x \in f(a)..f(b) - 1
         <=> x \in Int /\ \E c \in 0..2 : a <= c /\ c < b /\ f(c) <= x /\ x < f(c + 1)
  BY <1>8, <1>9
<1> QED BY <1>7, <1>10 DEF e, f

\* A group has no gap in a row of its parts: whoever may render a corner on its
\* left side may render the border next to it.
LEMMA NoGap ==
  ASSUME NEW g \in Groups
  PROVE  /\ Available(g) \subseteq (0..2) \X (0..2)
         /\ \A r \in 0..2 : <<0, r>> \in Available(g) => <<1, r>> \in Available(g)
<1>1. Available(g) \subseteq (0..2) \X (0..2)
  BY DEF Available
<1>2. <<0, 0>> \in Available(g) => <<1, 0>> \in Available(g)
  <2>1. <<0, 0>> \in Available(g) => status[g]["tl"] = Sides
    BY DEF Available
  <2> QED BY <2>1 DEF Available, Sides
<1>3. <<1, 1>> \in Available(g)
  BY DEF Available
<1>4. <<0, 2>> \in Available(g) => <<1, 2>> \in Available(g)
  <2>1. <<0, 2>> \in Available(g) => status[g]["bl"] = Sides
    BY DEF Available
  <2> QED BY <2>1 DEF Available, Sides
<1>5. \A r \in 0..2 : r = 0 \/ r = 1 \/ r = 2
  OBVIOUS
<1> QED BY <1>1, <1>2, <1>3, <1>4, <1>5

\* A segment is what is available in its row.
LEMMA SegmentIsRow ==
  ASSUME NEW A, NEW r, <<0, r>> \in A => <<1, r>> \in A
  PROVE  /\ Segment(A, r)[1] \in 0..3 /\ Segment(A, r)[2] \in 0..3
         /\ \A c \in 0..2 : <<c, r>> \in A <=> /\ Segment(A, r)[1] <= c
                                              /\ c < Segment(A, r)[2]
<1> DEFINE xs == {x \in 0..2 : <<x, r>> \in A}
<1>1. CASE xs = {}
  <2>1. Segment(A, r) = <<3, 3>>
    BY <1>1 DEF Segment
  <2> QED BY <1>1, <2>1
<1>2. CASE xs # {}
  <2> DEFINE lo == CHOOSE x \in xs : \A z \in xs : x <= z
             hi == CHOOSE x \in xs : \A z \in xs : x >= z
  <2>1. Segment(A, r) = <<lo, 1 + hi>>
    BY <1>2 DEF Segment
  <2>2. (0 \in xs => 1 \in xs) /\ xs \subseteq 0..2
    OBVIOUS
  <2>3. \A c \in 0..2 : <<c, r>> \in A <=> c \in xs
    OBVIOUS
  <2> HIDE DEF xs
  <2>4. \A c \in 0..2 : c = 0 \/ c = 1 \/ c = 2
    OBVIOUS
  <2>5. 0 \in xs \/ 1 \in xs \/ 2 \in xs
    BY <1>2, <2>2, <2>4
  <2>6. \E x \in xs : \A z \in xs : x <= z
    BY <2>2, <2>5
  <2>7. \E x \in xs : \A z \in xs : x >= z
    BY <2>2, <2>5
  <2>8. lo \in xs /\ \A z \in xs : lo <= z
    BY <2>6
  <2>9. hi \in xs /\ \A z \in xs : hi >= z
    BY <2>7
  <2> HIDE DEF lo, hi
  <2>10. lo \in 0..2 /\ hi \in 0..2
    BY <2>2, <2>8, <2>9
  <2>11. \A c \in 0..2 : c \in xs <=> lo <= c /\ c < 1 + hi
    BY <2>2, <2>8, <2>9, <2>10
  <2> QED BY <2>1, <2>3, <2>10, <2>11
<1> QED BY <1>1, <1>2

\* The strips are the rows, each with its segment.
LEMMA StripsAreRows ==
  ASSUME NEW A
  PROVE  /\ \A t \in Strips(A) : /\ t[2] \in 0..2 /\ t[3] \in 1..3 /\ t[2] < t[3]
                                 /\ \A r \in t[2]..t[3]-1 : t[1] = Segment(A, r)
         /\ \A r \in 0..2 : \E t \in Strips(A) : t[2] <= r /\ r < t[3]
<1> DEFINE s(y) == Segment(A, y)
<1>1. \/ Strips(A) = {<<s(0), 0, 3>>} /\ s(0) = s(1) /\ s(1) = s(2)
      \/ Strips(A) = {<<s(0), 0, 2>>, <<s(2), 2, 3>>} /\ s(0) = s(1)
      \/ Strips(A) = {<<s(0), 0, 1>>, <<s(1), 1, 3>>} /\ s(1) = s(2)
      \/ Strips(A) = {<<s(0), 0, 1>>, <<s(1), 1, 2>>, <<s(2), 2, 3>>}
  <2> HIDE DEF s
  <2>0. Strips(A) =
         CASE s(0) = s(1) /\ s(1) = s(2) -> {<<s(0), 0, 3>>}
           [] s(0) = s(1) /\ s(1) # s(2) -> {<<s(0), 0, 2>>, <<s(2), 2, 3>>}
           [] s(0) # s(1) /\ s(1) = s(2) -> {<<s(0), 0, 1>>, <<s(1), 1, 3>>}
           [] OTHER -> {<<s(0), 0, 1>>, <<s(1), 1, 2>>, <<s(2), 2, 3>>}
    BY DEF Strips, s
  <2>1. CASE s(0) = s(1) /\ s(1) = s(2)
    BY <2>0, <2>1
  <2>2. CASE s(0) = s(1) /\ s(1) # s(2)
    BY <2>0, <2>2
  <2>3. CASE s(0) # s(1) /\ s(1) = s(2)
    BY <2>0, <2>3
  <2>4. CASE s(0) # s(1) /\ s(1) # s(2)
    BY <2>0, <2>4
  <2> QED BY <2>1, <2>2, <2>3, <2>4
<1> HIDE DEF s
<1>2. \A r \in 0..2 : r = 0 \/ r = 1 \/ r = 2
  OBVIOUS
<1>3. /\ \A t \in Strips(A) : /\ t[2] \in 0..2 /\ t[3] \in 1..3 /\ t[2] < t[3]
                              /\ \A r \in t[2]..t[3]-1 : t[1] = s(r)
      /\ \A r \in 0..2 : \E t \in Strips(A) : t[2] <= r /\ r < t[3]
  <2>1. CASE Strips(A) = {<<s(0), 0, 3>>} /\ s(0) = s(1) /\ s(1) = s(2)
    <3>1. \A r \in 0..3 - 1 : s(0) = s(r)
      BY <2>1
    <3> QED BY <2>1, <3>1
  <2>2. CASE Strips(A) = {<<s(0), 0, 2>>, <<s(2), 2, 3>>} /\ s(0) = s(1)
    <3>1. (\A r \in 0..2 - 1 : s(0) = s(r)) /\ (\A r \in 2..3 - 1 : s(2) = s(r))
      BY <2>2
    <3> QED BY <2>2, <3>1
  <2>3. CASE Strips(A) = {<<s(0), 0, 1>>, <<s(1), 1, 3>>} /\ s(1) = s(2)
    <3>1. (\A r \in 0..1 - 1 : s(0) = s(r)) /\ (\A r \in 1..3 - 1 : s(1) = s(r))
      BY <2>3
    <3> QED BY <2>3, <3>1
  <2>4. CASE Strips(A) = {<<s(0), 0, 1>>, <<s(1), 1, 2>>, <<s(2), 2, 3>>}
    <3>1. /\ \A r \in 0..1 - 1 : s(0) = s(r)
          /\ \A r \in 1..2 - 1 : s(1) = s(r)
          /\ \A r \in 2..3 - 1 : s(2) = s(r)
      OBVIOUS
    <3> QED BY <2>4, <3>1
  <2> QED BY <1>1, <2>1, <2>2, <2>3, <2>4
<1> QED BY <1>3 DEF s


-----------------------------------------------------------------------------
(* Parts and the corner at which their groups meet. *)

\* Pixel p is in part q of the frame.
PartOf(p, q) == /\ InPart(p[1], q[1], XGroups, XSize, PadX)
                /\ InPart(p[2], q[2], YGroups, YSize, PadY)

\* The corner that decides who renders part q, and the sides of that corner at
\* which the groups lie that q depends on.
Meeting(q) == <<q[1] \div 2, q[2] \div 2>>
Around(q) == {s \in Sides : /\ q[1] % 2 = 1 => s \in {"tr", "br"}
                            /\ q[2] % 2 = 1 => s \in {"br", "bl"}}

\* The corner of a group that decides about its part <<c, r>>.
SideOf(c, r) == IF r < 2 THEN IF c < 2 THEN "tl" ELSE "tr"
                         ELSE IF c < 2 THEN "bl" ELSE "br"

\* A group touches the parts Shared(g, <<c, r>>), and no others.
LEMMA TouchFacts ==
  ASSUME NEW g \in Groups
  PROVE  /\ \A c, r \in 0..2 :
              /\ SideOf(c, r) \in Sides
              /\ Corner(g, SideOf(c, r)) = Meeting(Shared(g, <<c, r>>))
              /\ Opposite(SideOf(c, r)) \in Around(Shared(g, <<c, r>>))
         /\ \A q \in Nat \X Nat : \A s \in Sides :
              Corner(g, s) = Meeting(q) /\ Opposite(s) \in Around(q)
                => \E c, r \in 0..2 : q = Shared(g, <<c, r>>) /\ SideOf(c, r) = s
<1>1. PICK x \in Nat, y \in Nat : g = <<x, y>>
  BY GridAssumption DEF Groups
<1>2. \A c \in 0..2 : c = 0 \/ c = 1 \/ c = 2
  OBVIOUS
<1>3. \A i \in Nat : /\ (2 * i + 0) \div 2 = i /\ (2 * i + 0) % 2 = 0
                     /\ (2 * i + 1) \div 2 = i /\ (2 * i + 1) % 2 = 1
                     /\ (2 * i + 2) \div 2 = i + 1 /\ (2 * i + 2) % 2 = 0
  OBVIOUS
<1>4. ASSUME NEW c \in 0..2, NEW r \in 0..2
      PROVE  /\ SideOf(c, r) \in Sides
             /\ Corner(g, SideOf(c, r)) = Meeting(Shared(g, <<c, r>>))
             /\ Opposite(SideOf(c, r)) \in Around(Shared(g, <<c, r>>))
  <2>1. Shared(g, <<c, r>>) = <<2 * x + c, 2 * y + r>>
    BY <1>1 DEF Shared
  <2>2. SideOf(c, r) \in Sides
    BY DEF SideOf, Sides
  <2>3. Corner(g, SideOf(c, r)) =
          <<IF c < 2 THEN x ELSE x + 1, IF r < 2 THEN y ELSE y + 1>>
    BY <1>1, <1>2 DEF SideOf, Corner
  <2>4. /\ (2 * x + c) \div 2 = IF c < 2 THEN x ELSE x + 1
        /\ (2 * y + r) \div 2 = IF r < 2 THEN y ELSE y + 1
        /\ (2 * x + c) % 2 = 1 <=> c = 1
        /\ (2 * y + r) % 2 = 1 <=> r = 1
    BY <1>1, <1>2, <1>3
  <2>5. Corner(g, SideOf(c, r)) = Meeting(Shared(g, <<c, r>>))
    BY <2>1, <2>3, <2>4 DEF Meeting
  <2>6. Opposite(SideOf(c, r)) \in Sides
    BY <2>2, CornerFacts
  <2>7. /\ c = 1 => Opposite(SideOf(c, r)) \in {"tr", "br"}
        /\ r = 1 => Opposite(SideOf(c, r)) \in {"br", "bl"}
    BY <1>2 DEF SideOf, Opposite
  <2>8. Opposite(SideOf(c, r)) \in Around(Shared(g, <<c, r>>))
    BY <2>1, <2>4, <2>6, <2>7 DEF Around
  <2> QED BY <2>2, <2>5, <2>8
<1>5. ASSUME NEW q \in Nat \X Nat, NEW s \in Sides,
             Corner(g, s) = Meeting(q), Opposite(s) \in Around(q)
      PROVE  \E c, r \in 0..2 : q = Shared(g, <<c, r>>) /\ SideOf(c, r) = s
  <2>1. PICK u \in Nat, v \in Nat : q = <<u, v>>
    OBVIOUS
  <2>2. Meeting(q) = <<u \div 2, v \div 2>>
    BY <2>1 DEF Meeting
  <2>3. /\ u % 2 = 1 => Opposite(s) \in {"tr", "br"}
        /\ v % 2 = 1 => Opposite(s) \in {"br", "bl"}
    BY <1>5, <2>1 DEF Around
  <2>4. /\ s \in {"tl", "bl"} => u \div 2 = x
        /\ s \in {"tr", "br"} => u \div 2 = x + 1 /\ u % 2 # 1
        /\ s \in {"tl", "tr"} => v \div 2 = y
        /\ s \in {"bl", "br"} => v \div 2 = y + 1 /\ v % 2 # 1
    <3>1. Corner(g, s) = <<u \div 2, v \div 2>>
      BY <1>5, <2>2
    <3>2. /\ s \in {"tl", "bl"} => u \div 2 = x
          /\ s \in {"tr", "br"} => u \div 2 = x + 1
          /\ s \in {"tl", "tr"} => v \div 2 = y
          /\ s \in {"bl", "br"} => v \div 2 = y + 1
      BY <1>1, <3>1 DEF Corner
    <3>3. /\ s \in {"tr", "br"} => Opposite(s) \notin {"tr", "br"}
          /\ s \in {"bl", "br"} => Opposite(s) \notin {"br", "bl"}
      BY DEF Opposite
    <3> QED BY <2>3, <3>2, <3>3
  <2>5. \A a, i \in Nat : /\ a \div 2 = i => a - 2 * i \in 0..1
                          /\ a \div 2 = i + 1 /\ a % 2 # 1 => a - 2 * i = 2
    OBVIOUS
  <2> DEFINE c == u - 2 * x
             r == v - 2 * y
  <2>6. /\ s \in {"tl", "bl"} => c \in 0..1
        /\ s \in {"tr", "br"} => c = 2
        /\ s \in {"tl", "tr"} => r \in 0..1
        /\ s \in {"bl", "br"} => r = 2
    BY <2>4, <2>5
  <2>7. u = 2 * x + c /\ v = 2 * y + r /\ c \in Int /\ r \in Int
    OBVIOUS
  <2> HIDE DEF c, r
  <2>8. c \in 0..2 /\ r \in 0..2
    BY <2>6 DEF Sides
  <2>9. SideOf(c, r) = s
    BY <2>6, <2>8 DEF SideOf, Sides
  <2>10. q = Shared(g, <<c, r>>)
    BY <1>1, <2>1, <2>7 DEF Shared
  <2> QED BY <2>8, <2>9, <2>10
<1> QED BY <1>4, <1>5

\* A part is available to a group that has seen all of the others around it.
LEMMA AvailableIsSeen ==
  ASSUME NEW g \in Groups, NEW c \in 0..2, NEW r \in 0..2
  PROVE  LET s == SideOf(c, r)
             bits == Around(Shared(g, <<c, r>>))
         IN  /\ <<c, r>> \in Available(g) => bits \ {Opposite(s)} \subseteq status[g][s]
             /\ /\ bits \subseteq status[g][s]
                /\ status[g][s] \subseteq Sides
                => <<c, r>> \in Available(g)
<1>1. PICK x \in Nat, y \in Nat : g = <<x, y>>
  BY GridAssumption DEF Groups
<1>2. /\ c = 0 \/ c = 1 \/ c = 2
      /\ r = 0 \/ r = 1 \/ r = 2
  OBVIOUS
<1>3. ((2 * x + c) % 2 = 1 <=> c = 1) /\ ((2 * y + r) % 2 = 1 <=> r = 1)
  BY <1>1, <1>2
<1>4. Around(Shared(g, <<c, r>>)) =
        {s \in Sides : /\ c = 1 => s \in {"tr", "br"}
                       /\ r = 1 => s \in {"br", "bl"}}
  BY <1>1, <1>3 DEF Around, Shared
<1> DEFINE s == SideOf(c, r)
           bits == Around(Shared(g, <<c, r>>))
<1>5. CASE c # 1 /\ r # 1
  <2>1. bits = Sides
    BY <1>4, <1>5
  <2>2. <<c, r>> \in Available(g) <=> status[g][s] = Sides
    <3>1. CASE c = 0 /\ r = 0
      <4>1. s = "tl"
        BY <3>1 DEF SideOf
      <4>2. <<0, 0>> \in Available(g) <=> status[g]["tl"] = Sides
        BY DEF Available
      <4> QED BY <3>1, <4>1, <4>2
    <3>2. CASE c = 2 /\ r = 0
      <4>1. s = "tr"
        BY <3>2 DEF SideOf
      <4>2. <<2, 0>> \in Available(g) <=> status[g]["tr"] = Sides
        BY DEF Available
      <4> QED BY <3>2, <4>1, <4>2
    <3>3. CASE c = 2 /\ r = 2
      <4>1. s = "br"
        BY <3>3 DEF SideOf
      <4>2. <<2, 2>> \in Available(g) <=> status[g]["br"] = Sides
        BY DEF Available
      <4> QED BY <3>3, <4>1, <4>2
    <3>4. CASE c = 0 /\ r = 2
      <4>1. s = "bl"
        BY <3>4 DEF SideOf
      <4>2. <<0, 2>> \in Available(g) <=> status[g]["bl"] = Sides
        BY DEF Available
      <4> QED BY <3>4, <4>1, <4>2
    <3> QED BY <1>2, <1>5, <3>1, <3>2, <3>3, <3>4
  <2> HIDE DEF s, bits
  <2>3. <<c, r>> \in Available(g) => bits \ {Opposite(s)} \subseteq status[g][s]
    BY <2>1, <2>2
  <2>4. bits \subseteq status[g][s] /\ status[g][s] \subseteq Sides => <<c, r>> \in Available(g)
    BY <2>1, <2>2
  <2> QED BY <2>3, <2>4 DEF s, bits
<1>6. CASE c = 1 /\ r = 1
  <2>1. bits = {"br"} /\ s = "tl" /\ Opposite(s) = "br"
    BY <1>4, <1>6 DEF Sides, SideOf, Opposite
  <2>2. <<1, 1>> \in Available(g)
    BY DEF Available
  <2> HIDE DEF s, bits
  <2>3. bits \ {Opposite(s)} \subseteq status[g][s]
    BY <2>1
  <2> QED BY <1>6, <2>2, <2>3 DEF s, bits
<1>7. CASE c = 1 /\ r # 1
  <2>1. bits = {"tr", "br"}
    BY <1>4, <1>7 DEF Sides
  <2>2. CASE r = 0
    <3>1. s = "tl" /\ Opposite(s) = "br"
      BY <1>7, <2>2 DEF SideOf, Opposite
    <3>2. <<1, 0>> \in Available(g) <=> "tr" \in status[g]["tl"]
      BY DEF Available
    <3> HIDE DEF s, bits
    <3>3. <<c, r>> \in Available(g) => bits \ {Opposite(s)} \subseteq status[g][s]
      BY <1>7, <2>1, <2>2, <3>1, <3>2
    <3>4. bits \subseteq status[g][s] /\ status[g][s] \subseteq Sides => <<c, r>> \in Available(g)
      BY <1>7, <2>1, <2>2, <3>1, <3>2
    <3> QED BY <3>3, <3>4 DEF s, bits
  <2>3. CASE r = 2
    <3>1. s = "bl" /\ Opposite(s) = "tr"
      BY <1>7, <2>3 DEF SideOf, Opposite
    <3>2. <<1, 2>> \in Available(g) <=> "br" \in status[g]["bl"]
      BY DEF Available
    <3> HIDE DEF s, bits
    <3>3. <<c, r>> \in Available(g) => bits \ {Opposite(s)} \subseteq status[g][s]
      BY <1>7, <2>1, <2>3, <3>1, <3>2
    <3>4. bits \subseteq status[g][s] /\ status[g][s] \subseteq Sides => <<c, r>> \in Available(g)
      BY <1>7, <2>1, <2>3, <3>1, <3>2
    <3> QED BY <3>3, <3>4 DEF s, bits
  <2> QED BY <1>2, <1>7, <2>2, <2>3
<1>8. CASE c # 1 /\ r = 1
  <2>1. bits = {"br", "bl"}
    BY <1>4, <1>8 DEF Sides
  <2>2. CASE c = 0
    <3>1. s = "tl" /\ Opposite(s) = "br"
      BY <1>8, <2>2 DEF SideOf, Opposite
    <3>2. <<0, 1>> \in Available(g) <=> "bl" \in status[g]["tl"]
      BY DEF Available
    <3> HIDE DEF s, bits
    <3>3. <<c, r>> \in Available(g) => bits \ {Opposite(s)} \subseteq status[g][s]
      BY <1>8, <2>1, <2>2, <3>1, <3>2
    <3>4. bits \subseteq status[g][s] /\ status[g][s] \subseteq Sides => <<c, r>> \in Available(g)
      BY <1>8, <2>1, <2>2, <3>1, <3>2
    <3> QED BY <3>3, <3>4 DEF s, bits
  <2>3. CASE c = 2
    <3>1. s = "tr" /\ Opposite(s) = "bl"
      BY <1>8, <2>3 DEF SideOf, Opposite
    <3>2. <<2, 1>> \in Available(g) <=> "br" \in status[g]["tr"]
      BY DEF Available
    <3> HIDE DEF s, bits
    <3>3. <<c, r>> \in Available(g) => bits \ {Opposite(s)} \subseteq status[g][s]
      BY <1>8, <2>1, <2>3, <3>1, <3>2
    <3>4. bits \subseteq status[g][s] /\ status[g][s] \subseteq Sides => <<c, r>> \in Available(g)
      BY <1>8, <2>1, <2>3, <3>1, <3>2
    <3> QED BY <3>3, <3>4 DEF s, bits
  <2> QED BY <1>2, <1>8, <2>2, <2>3
<1> QED BY <1>5, <1>6, <1>7, <1>8


\* A group renders the pixels of the parts available to it.
LEMMA RenderedIsParts ==
  ASSUME NEW g \in Groups, NEW p
  PROVE  p \in Rendered(g) <=>
           /\ p \in Int \X Int
           /\ \E c, r \in 0..2 : /\ <<c, r>> \in Available(g)
                                 /\ PartOf(p, Shared(g, <<c, r>>))
<1>1. PICK i \in 0..XGroups-1, j \in 0..YGroups-1 : g = <<i, j>>
  BY DEF Groups
<1> DEFINE A == Available(g)
           xpos == Positions(i, XGroups, XSize, PadX)
           ypos == Positions(j, YGroups, YSize, PadY)
           inX(x, c) == InPart(x, 2 * i + c, XGroups, XSize, PadX)
           inY(y, r) == InPart(y, 2 * j + r, YGroups, YSize, PadY)
<1>2. Fits(XGroups, XSize, PadX) /\ Fits(YGroups, YSize, PadY)
  BY FrameFits
<1>3. \A a \in 0..3 : /\ xpos[a + 1] = Edge(2 * i + a, XGroups, XSize, PadX)
                      /\ ypos[a + 1] = Edge(2 * j + a, YGroups, YSize, PadY)
  BY <1>2, PositionsAreEdges
<1>4. ASSUME NEW x, NEW a \in 0..3, NEW b \in 0..3
      PROVE  x \in xpos[a + 1]..xpos[b + 1] - 1
               <=> x \in Int /\ \E c \in 0..2 : a <= c /\ c < b /\ inX(x, c)
  BY <1>2, <1>3, IntervalIsParts
<1>5. ASSUME NEW x, NEW a \in 0..3, NEW b \in 0..3
      PROVE  x \in ypos[a + 1]..ypos[b + 1] - 1
               <=> x \in Int /\ \E c \in 0..2 : a <= c /\ c < b /\ inY(x, c)
  BY <1>2, <1>3, IntervalIsParts
<1>6. p \in Rendered(g) <=>
        \E t \in Strips(A) :
          p \in (xpos[t[1][1] + 1] .. xpos[t[1][2] + 1] - 1)
                  \X (ypos[t[2] + 1] .. ypos[t[3] + 1] - 1)
  <2>1. g[1] = i /\ g[2] = j
    BY <1>1
  <2> QED BY <2>1 DEF Rendered
<1>7. \A r \in 0..2 : <<0, r>> \in A => <<1, r>> \in A
  BY NoGap
<1>8. \A c, r \in 0..2 : PartOf(p, Shared(g, <<c, r>>)) <=> inX(p[1], c) /\ inY(p[2], r)
  BY <1>1 DEF PartOf, Shared
<1> HIDE DEF A, xpos, ypos, inX, inY
<1>9. /\ \A t \in Strips(A) : /\ t[2] \in 0..2 /\ t[3] \in 1..3 /\ t[2] < t[3]
                              /\ \A r \in t[2]..t[3]-1 : t[1] = Segment(A, r)
      /\ \A r \in 0..2 : \E t \in Strips(A) : t[2] <= r /\ r < t[3]
  BY StripsAreRows
<1>10. \A r \in 0..2 :
         /\ Segment(A, r)[1] \in 0..3 /\ Segment(A, r)[2] \in 0..3
         /\ \A c \in 0..2 : <<c, r>> \in A <=> /\ Segment(A, r)[1] <= c
                                              /\ c < Segment(A, r)[2]
  BY <1>7, SegmentIsRow
<1>11. ASSUME p \in Rendered(g)
       PROVE  p \in Int \X Int /\ \E c, r \in 0..2 : <<c, r>> \in A /\ inX(p[1], c) /\ inY(p[2], r)
  <2>1. PICK t \in Strips(A) :
          p \in (xpos[t[1][1] + 1] .. xpos[t[1][2] + 1] - 1)
                  \X (ypos[t[2] + 1] .. ypos[t[3] + 1] - 1)
    BY <1>6, <1>11
  <2>2. /\ t[2] \in 0..2 /\ t[3] \in 1..3 /\ t[2] < t[3]
        /\ \A r \in t[2]..t[3]-1 : t[1] = Segment(A, r)
    BY <1>9
  <2>3. t[1] = Segment(A, t[2])
    BY <2>2
  <2>4. t[1][1] \in 0..3 /\ t[1][2] \in 0..3 /\ t[2] \in 0..3 /\ t[3] \in 0..3
    BY <1>10, <2>2, <2>3
  <2>5. /\ p[1] \in xpos[t[1][1] + 1] .. xpos[t[1][2] + 1] - 1
        /\ p[2] \in ypos[t[2] + 1] .. ypos[t[3] + 1] - 1
        /\ p = <<p[1], p[2]>>
    BY <2>1
  <2>6. p[1] \in Int /\ \E c \in 0..2 : t[1][1] <= c /\ c < t[1][2] /\ inX(p[1], c)
    BY <1>4, <2>4, <2>5
  <2>7. p[2] \in Int /\ \E c \in 0..2 : t[2] <= c /\ c < t[3] /\ inY(p[2], c)
    BY <1>5, <2>4, <2>5
  <2>8. PICK c \in 0..2 : t[1][1] <= c /\ c < t[1][2] /\ inX(p[1], c)
    BY <2>6
  <2>9. PICK r \in 0..2 : t[2] <= r /\ r < t[3] /\ inY(p[2], r)
    BY <2>7
  <2>10. r \in t[2]..t[3]-1
    BY <2>4, <2>9
  <2>11. <<c, r>> \in A
    BY <1>10, <2>2, <2>8, <2>10
  <2>12. p \in Int \X Int
    BY <2>5, <2>6, <2>7
  <2> QED BY <2>8, <2>9, <2>11, <2>12
<1>12. ASSUME p \in Int \X Int, NEW c \in 0..2, NEW r \in 0..2,
              <<c, r>> \in A, inX(p[1], c), inY(p[2], r)
       PROVE  p \in Rendered(g)
  <2>1. PICK t \in Strips(A) : t[2] <= r /\ r < t[3]
    BY <1>9
  <2>2. /\ t[2] \in 0..3 /\ t[3] \in 0..3 /\ r \in t[2]..t[3]-1
    BY <1>9, <2>1
  <2>3. t[1] = Segment(A, r)
    BY <1>9, <2>2
  <2>4. /\ t[1][1] \in 0..3 /\ t[1][2] \in 0..3
        /\ t[1][1] <= c /\ c < t[1][2]
    BY <1>10, <1>12, <2>3
  <2>5. p[1] \in Int /\ p[2] \in Int /\ p = <<p[1], p[2]>>
    BY <1>12
  <2>6. p[1] \in xpos[t[1][1] + 1] .. xpos[t[1][2] + 1] - 1
    BY <1>4, <1>12, <2>4, <2>5
  <2>7. p[2] \in ypos[t[2] + 1] .. ypos[t[3] + 1] - 1
    BY <1>5, <1>12, <2>1, <2>2, <2>5
  <2> QED BY <1>6, <2>5, <2>6, <2>7
<1>13. p \in Rendered(g) <=>
         p \in Int \X Int /\ \E c, r \in 0..2 : <<c, r>> \in A /\ inX(p[1], c) /\ inY(p[2], r)
  BY <1>11, <1>12
<1> QED BY <1>8, <1>13 DEF A

\* What depends on the data of a group are the parts it touches.
LEMMA InfluenceIsParts ==
  ASSUME NEW g \in Groups, NEW p \in Int \X Int, NEW q, PartOf(p, q)
  PROVE  p \in Influence(g) <=>
           q[1] \in 2 * g[1]..2 * g[1] + 2 /\ q[2] \in 2 * g[2]..2 * g[2] + 2
<1>1. PICK i \in 0..XGroups-1, j \in 0..YGroups-1 : g = <<i, j>>
  BY DEF Groups
<1>2. /\ Fits(XGroups, XSize, PadX) /\ Fits(YGroups, YSize, PadY)
      /\ InPart(p[1], q[1], XGroups, XSize, PadX)
      /\ InPart(p[2], q[2], YGroups, YSize, PadY)
      /\ p[1] \in Int /\ p[2] \in Int /\ p = <<p[1], p[2]>>
  BY FrameFits DEF PartOf
<1>3. p[1] \in Reach(i, XSize, PadX) <=> q[1] \in 2 * i..2 * i + 2
  BY <1>2, ReachIsParts
<1>4. p[2] \in Reach(j, YSize, PadY) <=> q[2] \in 2 * j..2 * j + 2
  BY <1>2, ReachIsParts
<1>5. Influence(g) = Reach(i, XSize, PadX) \X Reach(j, YSize, PadY)
  BY <1>1 DEF Influence
<1>6. p \in Influence(g) <=> p[1] \in Reach(i, XSize, PadX) /\ p[2] \in Reach(j, YSize, PadY)
  BY <1>2, <1>5
<1> QED BY <1>1, <1>3, <1>4, <1>6

\* The part of a pixel, and the group's place in it.
LEMMA InfluenceIsTouch ==
  ASSUME NEW g \in Groups, NEW p \in Int \X Int, NEW q \in Nat \X Nat, PartOf(p, q)
  PROVE  p \in Influence(g) <=> \E c, r \in 0..2 : q = Shared(g, <<c, r>>)
<1>1. PICK x \in Nat, y \in Nat : g = <<x, y>>
  BY GridAssumption DEF Groups
<1>2. PICK u \in Nat, v \in Nat : q = <<u, v>>
  OBVIOUS
<1>3. p \in Influence(g) <=> u \in 2 * x..2 * x + 2 /\ v \in 2 * y..2 * y + 2
  BY <1>1, <1>2, InfluenceIsParts
<1>4. \A c, r \in 0..2 : q = Shared(g, <<c, r>>) <=> u = 2 * x + c /\ v = 2 * y + r
  BY <1>1, <1>2 DEF Shared
<1>5. u \in 2 * x..2 * x + 2 /\ v \in 2 * y..2 * y + 2
        => u - 2 * x \in 0..2 /\ v - 2 * y \in 0..2
           /\ u = 2 * x + (u - 2 * x) /\ v = 2 * y + (v - 2 * y)
  OBVIOUS
<1>6. \A c, r \in 0..2 : u = 2 * x + c /\ v = 2 * y + r
        => u \in 2 * x..2 * x + 2 /\ v \in 2 * y..2 * y + 2
  OBVIOUS
<1> QED BY <1>3, <1>4, <1>5, <1>6

\* A pixel of the frame is in one part.
LEMMA PixelHasPart ==
  ASSUME NEW p
  PROVE  /\ p \in Pixels => p \in Int \X Int /\ \E q \in Nat \X Nat : PartOf(p, q)
         /\ p \in Int \X Int =>
              \A q, r \in Nat \X Nat : PartOf(p, q) /\ PartOf(p, r) => q = r
<1>1. Fits(XGroups, XSize, PadX) /\ Fits(YGroups, YSize, PadY)
  BY FrameFits
<1>2. ASSUME p \in Pixels PROVE p \in Int \X Int /\ \E q \in Nat \X Nat : PartOf(p, q)
  <2>1. p[1] \in 0..XSize-1 /\ p[2] \in 0..YSize-1 /\ p = <<p[1], p[2]>>
    BY <1>2 DEF Pixels
  <2>2. PICK a : InPart(p[1], a, XGroups, XSize, PadX)
    BY <1>1, <2>1, PartExists
  <2>3. PICK b : InPart(p[2], b, YGroups, YSize, PadY)
    BY <1>1, <2>1, PartExists
  <2>4. a \in Nat /\ b \in Nat
    BY <2>2, <2>3, GridAssumption DEF InPart
  <2>5. PartOf(p, <<a, b>>)
    BY <2>2, <2>3 DEF PartOf
  <2>6. p[1] \in Int /\ p[2] \in Int
    BY <2>1, <1>1 DEF Fits
  <2> QED BY <2>1, <2>4, <2>5, <2>6
<1>3. ASSUME p \in Int \X Int, NEW q \in Nat \X Nat, NEW r \in Nat \X Nat,
             PartOf(p, q), PartOf(p, r)
      PROVE  q = r
  <2>1. p[1] \in Int /\ p[2] \in Int
    BY <1>3
  <2>2. q[1] = r[1]
    BY <1>1, <1>3, <2>1, PartIsUnique DEF PartOf
  <2>3. q[2] = r[2]
    BY <1>1, <1>3, <2>1, PartIsUnique DEF PartOf
  <2> QED BY <1>3, <2>2, <2>3
<1> QED BY <1>2, <1>3

LEMMA SharedType ==
  ASSUME NEW g \in Groups, NEW c \in 0..2, NEW r \in 0..2
  PROVE  Shared(g, <<c, r>>) \in Nat \X Nat
BY GridAssumption DEF Groups, Shared

\* No pixel is rendered by two groups, because no part is.
LEMMA OneRenderer == BInv => PixelsRenderedOnce
<1> SUFFICES ASSUME BInv, NEW g \in Groups, NEW h \in Groups,
                    Assigned(g), Assigned(h), g # h,
                    NEW p \in Rendered(g), p \in Rendered(h)
             PROVE  FALSE
  BY DEF PixelsRenderedOnce
<1>1. p \in Int \X Int
  BY RenderedIsParts
<1>2. PICK c \in 0..2, r \in 0..2 : <<c, r>> \in Available(g) /\ PartOf(p, Shared(g, <<c, r>>))
  BY RenderedIsParts
<1>3. PICK a \in 0..2, b \in 0..2 : <<a, b>> \in Available(h) /\ PartOf(p, Shared(h, <<a, b>>))
  BY RenderedIsParts
<1>4. Shared(g, <<c, r>>) \in Nat \X Nat /\ Shared(h, <<a, b>>) \in Nat \X Nat
  BY SharedType
<1>5. Shared(g, <<c, r>>) = Shared(h, <<a, b>>)
  BY <1>1, <1>2, <1>3, <1>4, PixelHasPart
<1>6. HandledOnce
  BY OneHandler
<1> QED BY <1>2, <1>3, <1>5, <1>6 DEF HandledOnce

\* A group that has yet to store its borders is not marked at any corner, so
\* that nobody has seen it and renders what depends on it.
LEMMA NobodyReadsAhead == BInv => NoTornBorder
<1> SUFFICES ASSUME BInv, NEW g \in Groups, NEW h \in Groups,
                    pc[g] = "render", pc[h] = "save",
                    NEW p \in Rendered(g), p \in Influence(h)
             PROVE  FALSE
  BY DEF NoTornBorder
<1>1. p \in Int \X Int
  BY RenderedIsParts
<1>2. PICK c \in 0..2, r \in 0..2 : <<c, r>> \in Available(g) /\ PartOf(p, Shared(g, <<c, r>>))
  BY RenderedIsParts
<1> DEFINE q == Shared(g, <<c, r>>)
           s == SideOf(c, r)
<1>3. q \in Nat \X Nat /\ PartOf(p, q)
  BY <1>2, SharedType
<1> HIDE DEF q
<1>4. PICK a \in 0..2, b \in 0..2 : q = Shared(h, <<a, b>>)
  BY <1>1, <1>3, InfluenceIsTouch
<1> DEFINE t == SideOf(a, b)
<1>5. /\ s \in Sides /\ Corner(g, s) = Meeting(q)
      /\ t \in Sides /\ Corner(h, t) = Meeting(q) /\ Opposite(t) \in Around(q)
  <2>1. s \in Sides /\ Corner(g, s) = Meeting(q)
    BY TouchFacts DEF q
  <2>2. t \in Sides /\ Corner(h, t) = Meeting(q) /\ Opposite(t) \in Around(q)
    BY <1>4, TouchFacts
  <2> QED BY <2>1, <2>2
<1>6. Around(q) \ {Opposite(s)} \subseteq status[g][s]
  BY <1>2, AvailableIsSeen DEF q
<1> HIDE DEF s, t
<1>7. g # h
  OBVIOUS
<1>8. s # t
  BY <1>5, <1>7, CornerFacts
<1>9. Opposite(t) # Opposite(s)
  BY <1>5, <1>8, CornerFacts
<1>10. Opposite(t) \in status[g][s]
  BY <1>5, <1>6, <1>9
<1>11. s \in Passed(g) /\ t \in Ahead(h)
  <2>1. Passed(g) = Sides
    BY PathFacts DEF BInv, TypeOK, Assigned
  <2>2. Ahead(h) = Sides
    BY DEF Ahead, Sides
  <2> QED BY <1>5, <2>1, <2>2
<1>12. Opposite(t) \in counters_[Meeting(q)]
  BY <1>5, <1>10, <1>11 DEF BInv, SeenStays
<1> QED BY <1>5, <1>11, <1>12 DEF BInv, UnmarkedAhead, IsDone

-----------------------------------------------------------------------------
\* The rectangles that GroupDone() hands out never overlap between two groups,
\* for every size of the frame and of the padding, also in the last group of a
\* row, which may be narrower than the padding.
THEOREM RectanglesAreDisjoint ==
  ASSUME ~(FullImage /\ RepeatedFlush)
  PROVE  Spec => []PixelsRenderedOnce
<1>1. Init => BInv
  BY InitBInv
<1>2. BInv /\ [Next]_vars => BInv'
  BY NextBInv
<1>3. BInv => PixelsRenderedOnce
  BY OneRenderer
<1> QED BY <1>1, <1>2, <1>3, PTL DEF Spec

\* No group renders from the border storage of one that has yet to store.
THEOREM BordersAreNotTorn ==
  ASSUME ~(FullImage /\ RepeatedFlush)
  PROVE  Spec => []NoTornBorder
<1>1. Init => BInv
  BY InitBInv
<1>2. BInv /\ [Next]_vars => BInv'
  BY NextBInv
<1>3. BInv => NoTornBorder
  BY NobodyReadsAhead
<1> QED BY <1>1, <1>2, <1>3, PTL DEF Spec


-----------------------------------------------------------------------------
(* Nothing falls between two groups. *)

\* What lies outside of the frame is marked for good.
OutsideMarked ==
  \A k \in Corners : \A b \in Sides :
    (\A g \in Groups : Corner(g, Opposite(b)) # k) => b \in counters_[k]

\* Some group is about to render part q: it saw all of the others around it.
Assignee(q) ==
  \E h \in Groups : \E s \in Sides :
    /\ Corner(h, s) = Meeting(q) /\ Opposite(s) \in Around(q)
    /\ s \in Passed(h) /\ pc[h] # "rendered"
    /\ Around(q) \subseteq status[h][s]

\* A part with a stale pixel waits for a group around it, or for its assignee.
StaleWaits ==
  \A p \in stale : \A q \in Nat \X Nat :
    PartOf(p, q) => ~(Around(q) \subseteq counters_[Meeting(q)]) \/ Assignee(q)

FInv == BInv /\ OutsideMarked /\ StaleWaits


\* Every part is touched by a group.
LEMMA PartHasGroup ==
  ASSUME NEW p, NEW q \in Nat \X Nat, PartOf(p, q)
  PROVE  \E g \in Groups : \E c, r \in 0..2 : q = Shared(g, <<c, r>>)
<1>1. PICK u \in Nat, v \in Nat : q = <<u, v>>
  OBVIOUS
<1>2. u \in 0..2 * XGroups /\ v \in 0..2 * YGroups
  BY <1>1 DEF PartOf, InPart
<1>3. \A n \in Nat \ {0} : \A a \in 0..2 * n : \E i \in 0..n-1 : \E c \in 0..2 : a = 2 * i + c
  <2> SUFFICES ASSUME NEW n \in Nat \ {0}, NEW a \in 0..2 * n
               PROVE  \E i \in 0..n-1 : \E c \in 0..2 : a = 2 * i + c
    OBVIOUS
  <2>1. CASE a = 2 * n
    <3>1. n - 1 \in 0..n-1 /\ a = 2 * (n - 1) + 2 /\ 2 \in 0..2
      BY <2>1
    <3> QED BY <3>1
  <2>2. CASE a # 2 * n
    <3>1. a \in Nat
      OBVIOUS
    <3>2. a \div 2 \in Nat /\ (a = 2 * (a \div 2) \/ a = 2 * (a \div 2) + 1)
      BY <3>1, Halves
    <3>3. a \div 2 \in 0..n-1
      BY <2>2, <3>2
    <3>4. 0 \in 0..2 /\ 1 \in 0..2 /\ 2 * (a \div 2) = 2 * (a \div 2) + 0
      BY <3>2
    <3> QED BY <3>2, <3>3, <3>4
  <2> QED BY <2>1, <2>2
<1>4. PICK i \in 0..XGroups-1, c \in 0..2 : u = 2 * i + c
  BY <1>2, <1>3, GridAssumption
<1>5. PICK j \in 0..YGroups-1, r \in 0..2 : v = 2 * j + r
  BY <1>2, <1>3, GridAssumption
<1>6. <<i, j>> \in Groups
  BY DEF Groups
<1>7. q = Shared(<<i, j>>, <<c, r>>)
  BY <1>1, <1>4, <1>5 DEF Shared
<1> QED BY <1>6, <1>7

\* A part that a group touches where it is not marked waits for that group.
LEMMA UnmarkedWaits ==
  ASSUME NEW g \in Groups, NEW q, NEW c \in 0..2, NEW r \in 0..2,
         q = Shared(g, <<c, r>>), \A s \in Sides : ~IsDone(g, s)
  PROVE  ~(Around(q) \subseteq counters_[Meeting(q)])
<1> DEFINE s == SideOf(c, r)
<1>1. s \in Sides /\ Corner(g, s) = Meeting(q) /\ Opposite(s) \in Around(q)
  BY TouchFacts
<1>2. ~IsDone(g, s)
  BY <1>1
<1> QED BY <1>1, <1>2 DEF IsDone

LEMMA UnmarkedWaitsNext ==
  ASSUME NEW g \in Groups, NEW q, NEW c \in 0..2, NEW r \in 0..2,
         q = Shared(g, <<c, r>>), \A s \in Sides : ~IsDone(g, s)'
  PROVE  ~(Around(q) \subseteq counters_'[Meeting(q)])
<1> DEFINE s == SideOf(c, r)
<1>1. s \in Sides /\ Corner(g, s) = Meeting(q) /\ Opposite(s) \in Around(q)
  BY TouchFacts
<1>2. ~IsDone(g, s)'
  BY <1>1
<1> QED BY <1>1, <1>2 DEF IsDone

\* Between runs nobody is about to render.
LEMMA NoAssignee ==
  ASSUME TypeOK, RunEnded, NEW q
  PROVE  ~Assignee(q)
<1>1. \A h \in Groups : pc[h] # "rendered" => Passed(h) = {}
  BY PathFacts DEF TypeOK, RunEnded
<1> QED BY <1>1 DEF Assignee

\* The counters of a new pipeline.
LEMMA OutsideInitially ==
  ASSUME NEW k \in Corners, NEW b \in Sides,
         \A g \in Groups : Corner(g, Opposite(b)) # k
  PROVE  b \in InitialCounter(k)
<1> SUFFICES ASSUME b \notin InitialCounter(k) PROVE FALSE
  OBVIOUS
<1>1. PICK x \in 0..XGroups, y \in 0..YGroups : k = <<x, y>>
  BY DEF Corners
<1>2. /\ x = 0 => b \notin {"tl", "bl"}
      /\ x = XGroups => b \notin {"tr", "br"}
      /\ y = 0 => b \notin {"tl", "tr"}
      /\ y = YGroups => b \notin {"bl", "br"}
  BY <1>1 DEF InitialCounter
<1>3. XGroups \in Nat \ {0} /\ YGroups \in Nat \ {0}
  BY GridAssumption
<1>4. CASE b = "tl"
  <2>1. x - 1 \in 0..XGroups-1 /\ y - 1 \in 0..YGroups-1 /\ (x - 1) + 1 = x /\ (y - 1) + 1 = y
    BY <1>2, <1>3, <1>4
  <2>2. <<x - 1, y - 1>> \in Groups
    BY <2>1 DEF Groups
  <2>3. Corner(<<x - 1, y - 1>>, Opposite(b)) = k
    BY <1>1, <1>4, <2>1 DEF Corner, Opposite
  <2> QED BY <2>2, <2>3
<1>5. CASE b = "tr"
  <2>1. x \in 0..XGroups-1 /\ y - 1 \in 0..YGroups-1 /\ (y - 1) + 1 = y
    BY <1>2, <1>3, <1>5
  <2>2. <<x, y - 1>> \in Groups
    BY <2>1 DEF Groups
  <2>3. Corner(<<x, y - 1>>, Opposite(b)) = k
    BY <1>1, <1>5, <2>1 DEF Corner, Opposite
  <2> QED BY <2>2, <2>3
<1>6. CASE b = "br"
  <2>1. x \in 0..XGroups-1 /\ y \in 0..YGroups-1
    BY <1>2, <1>3, <1>6
  <2>2. <<x, y>> \in Groups
    BY <2>1 DEF Groups
  <2>3. Corner(<<x, y>>, Opposite(b)) = k
    BY <1>1, <1>6, <2>1 DEF Corner, Opposite
  <2> QED BY <2>2, <2>3
<1>7. CASE b = "bl"
  <2>1. x - 1 \in 0..XGroups-1 /\ y \in 0..YGroups-1 /\ (x - 1) + 1 = x
    BY <1>2, <1>3, <1>7
  <2>2. <<x - 1, y>> \in Groups
    BY <2>1 DEF Groups
  <2>3. Corner(<<x - 1, y>>, Opposite(b)) = k
    BY <1>1, <1>7, <2>1 DEF Corner, Opposite
  <2> QED BY <2>2, <2>3
<1> QED BY <1>4, <1>5, <1>6, <1>7 DEF Sides

LEMMA PartMeets ==
  ASSUME NEW p, NEW q \in Nat \X Nat, PartOf(p, q)
  PROVE  Meeting(q) \in Corners
<1>1. PICK g \in Groups, c \in 0..2, r \in 0..2 : q = Shared(g, <<c, r>>)
  BY PartHasGroup
<1>2. SideOf(c, r) \in Sides /\ Corner(g, SideOf(c, r)) = Meeting(q)
  BY <1>1, TouchFacts
<1> QED BY <1>2, CornerFacts

\* A call that only unmarks groups between two runs.
LEMMA ClearStep ==
  ASSUME FInv, RunEnded, NEW S \in SUBSET Groups, ClearDone(S), stale' = stale
  PROVE  OutsideMarked' /\ StaleWaits'
<1>1. \A k \in Corners : counters_'[k] = counters_[k] \ ClearedSides(S, k)
  BY DEF ClearDone
<1>2. OutsideMarked'
  <2> SUFFICES ASSUME NEW k \in Corners, NEW b \in Sides,
                      \A g \in Groups : Corner(g, Opposite(b)) # k
               PROVE  b \in counters_'[k]
    BY DEF OutsideMarked
  <2>1. b \in counters_[k]
    BY DEF FInv, OutsideMarked
  <2>2. b \notin ClearedSides(S, k)
    BY DEF ClearedSides
  <2> QED BY <1>1, <2>1, <2>2
<1>3. StaleWaits'
  <2> SUFFICES ASSUME NEW p \in stale, NEW q \in Nat \X Nat, PartOf(p, q)
               PROVE  ~(Around(q) \subseteq counters_'[Meeting(q)])
    BY DEF StaleWaits
  <2>1. ~(Around(q) \subseteq counters_[Meeting(q)])
    BY NoAssignee DEF FInv, BInv, StaleWaits
  <2>2. Meeting(q) \in Corners
    BY PartMeets
  <2> QED BY <1>1, <2>1, <2>2
<1> QED BY <1>2, <1>3

\* A new pipeline.
LEMMA FreshStep ==
  ASSUME NextFrame
  PROVE  OutsideMarked' /\ StaleWaits'
<1>1. \A k \in Corners : counters_'[k] = InitialCounter(k)
  BY DEF NextFrame
<1>2. OutsideMarked'
  <2> SUFFICES ASSUME NEW k \in Corners, NEW b \in Sides,
                      \A g \in Groups : Corner(g, Opposite(b)) # k
               PROVE  b \in counters_'[k]
    BY DEF OutsideMarked
  <2> QED BY <1>1, OutsideInitially
<1>3. \A g \in Groups : \A s \in Sides : ~IsDone(g, s)'
  BY <1>1, InitialFacts, CornerFacts DEF IsDone
<1>4. StaleWaits'
  <2> SUFFICES ASSUME NEW p, NEW q \in Nat \X Nat, PartOf(p, q)
               PROVE  ~(Around(q) \subseteq counters_'[Meeting(q)])
    BY DEF StaleWaits
  <2>1. PICK g \in Groups, c \in 0..2, r \in 0..2 : q = Shared(g, <<c, r>>)
    BY PartHasGroup
  <2> QED BY <1>3, <2>1, UnmarkedWaitsNext
<1> QED BY <1>2, <1>4

LEMMA InitFInv == Init => FInv
<1> SUFFICES ASSUME Init PROVE FInv
  OBVIOUS
<1>1. \A k \in Corners : counters_[k] = InitialCounter(k)
  BY DEF Init
<1>2. OutsideMarked
  BY <1>1, OutsideInitially DEF OutsideMarked
<1>3. \A g \in Groups : \A s \in Sides : ~IsDone(g, s)
  BY <1>1, InitialFacts, CornerFacts DEF IsDone
<1>4. StaleWaits
  <2> SUFFICES ASSUME NEW p, NEW q \in Nat \X Nat, PartOf(p, q)
               PROVE  ~(Around(q) \subseteq counters_[Meeting(q)])
    BY DEF StaleWaits
  <2>1. PICK g \in Groups, c \in 0..2, r \in 0..2 : q = Shared(g, <<c, r>>)
    BY PartHasGroup
  <2> QED BY <1>3, <2>1, UnmarkedWaits
<1> QED BY <1>2, <1>4, InitBInv DEF FInv

\* A group stores its borders: what depends on it waits for it to report.
LEMMA SaveStep ==
  ASSUME FInv, NEW g \in Groups, SaveBorders(g)
  PROVE  OutsideMarked' /\ StaleWaits'
<1>1. /\ counters_' = counters_ /\ status' = status
      /\ pc[g] = "save" /\ pc' = [pc EXCEPT ![g] = "tl"]
      /\ stale' = stale \cup Influence(g)
  BY DEF SaveBorders
<1>2. OutsideMarked'
  BY <1>1 DEF FInv, OutsideMarked
<1>3. \A h \in Groups : Passed(h) \subseteq Passed(h)' /\ (pc[h] # "rendered" => pc'[h] # "rendered")
  <2>1. \A h \in Groups \ {g} : pc'[h] = pc[h]
    BY <1>1 DEF FInv, BInv, TypeOK
  <2>2. pc'[g] = "tl"
    BY <1>1 DEF FInv, BInv, TypeOK
  <2>3. Passed(g) = {}
    BY <1>1 DEF Passed, Ahead, Sides
  <2>4. \A h \in Groups \ {g} : Passed(h)' = Passed(h)
    BY <2>1 DEF Passed, Ahead
  <2> QED BY <2>1, <2>2, <2>3, <2>4
<1>4. \A q : Assignee(q) => Assignee(q)'
  BY <1>1, <1>3 DEF Assignee
<1>5. StaleWaits'
  <2> SUFFICES ASSUME NEW p \in stale', NEW q \in Nat \X Nat, PartOf(p, q)
               PROVE  ~(Around(q) \subseteq counters_[Meeting(q)]) \/ Assignee(q)'
    BY <1>1 DEF StaleWaits
  <2>1. CASE p \in stale
    BY <1>4, <2>1 DEF FInv, StaleWaits
  <2>2. CASE p \in Influence(g)
    <3>1. p \in Int \X Int
      BY <2>2, GeometryAssumption DEF Influence, Reach
    <3>2. PICK c \in 0..2, r \in 0..2 : q = Shared(g, <<c, r>>)
      BY <2>2, <3>1, InfluenceIsTouch
    <3>3. \A s \in Sides : ~IsDone(g, s)
      <4>1. Ahead(g) = Sides
        BY <1>1 DEF Ahead, Sides
      <4> QED BY <4>1 DEF FInv, BInv, UnmarkedAhead
    <3> QED BY <3>2, <3>3, UnmarkedWaits
  <2> QED BY <1>1, <2>1, <2>2
<1> QED BY <1>2, <1>5

\* A group marks itself: it may be the last around a part, and then renders it.
LEMMA MarkStep ==
  ASSUME FInv, NEW g \in Groups, FetchStatus(g)
  PROVE  OutsideMarked' /\ StaleWaits'
<1> DEFINE s == pc[g]
           k == Corner(g, s)
           bits == counters_[k] \cup {Opposite(s)}
<1>0. TypeOK
  BY DEF FInv, BInv
<1>1. s \in Sides /\ k \in Corners /\ Opposite(s) \in Sides
  BY CornerFacts DEF FetchStatus
<1>2. /\ counters_' = [counters_ EXCEPT ![k] = bits]
      /\ status' = [status EXCEPT ![g][s] = bits]
      /\ pc' = [pc EXCEPT ![g] = NextSide(s)]
      /\ stale' = stale
  BY DEF FetchStatus
<1>3. /\ counters_'[k] = bits
      /\ \A j \in Corners : counters_[j] \subseteq counters_'[j]
      /\ \A j \in Corners \ {k} : counters_'[j] = counters_[j]
      /\ status'[g][s] = bits
      /\ \A t \in Sides \ {s} : status'[g][t] = status[g][t]
      /\ \A h \in Groups \ {g} : status'[h] = status[h]
  BY <1>0, <1>1, <1>2 DEF TypeOK
<1>4. OutsideMarked'
  BY <1>3 DEF FInv, OutsideMarked
<1>5. pc'[g] = NextSide(s) /\ \A h \in Groups \ {g} : pc'[h] = pc[h]
  BY <1>0, <1>2 DEF TypeOK
<1>6. /\ s \in Passed(g)' /\ s \notin Passed(g) /\ Passed(g) \subseteq Passed(g)'
      /\ pc'[g] # "rendered"
  BY <1>1, <1>5 DEF Ahead, Passed, Sides, NextSide
<1>7. \A h \in Groups \ {g} : Passed(h)' = Passed(h)
  BY <1>5 DEF Ahead, Passed
<1> HIDE DEF k, bits, s
<1>8. \A q : Assignee(q) => Assignee(q)'
  <2> SUFFICES ASSUME NEW q, Assignee(q) PROVE Assignee(q)'
    OBVIOUS
  <2>1. PICK h \in Groups, t \in Sides :
          /\ Corner(h, t) = Meeting(q) /\ Opposite(t) \in Around(q)
          /\ t \in Passed(h) /\ pc[h] # "rendered"
          /\ Around(q) \subseteq status[h][t]
    BY DEF Assignee
  <2>2. t \in Passed(h)' /\ pc'[h] # "rendered"
    BY <1>5, <1>6, <1>7, <2>1
  <2>3. status'[h][t] = status[h][t]
    BY <1>3, <1>6, <2>1
  <2> QED BY <2>1, <2>2, <2>3 DEF Assignee
<1>9. StaleWaits'
  <2> SUFFICES ASSUME NEW p \in stale, NEW q \in Nat \X Nat, PartOf(p, q),
                      Around(q) \subseteq counters_'[Meeting(q)]
               PROVE  Assignee(q)'
    BY <1>2 DEF StaleWaits
  <2>1. CASE Around(q) \subseteq counters_[Meeting(q)]
    BY <1>8, <2>1 DEF FInv, StaleWaits
  <2>2. CASE ~(Around(q) \subseteq counters_[Meeting(q)])
    <3>1. Meeting(q) \in Corners
      BY PartMeets
    <3>2. Meeting(q) = k
      BY <1>3, <2>2, <3>1
    <3>3. Opposite(s) \in Around(q)
      <4>1. counters_'[k] = counters_[k] \cup {Opposite(s)}
        BY <1>3 DEF bits
      <4> QED BY <2>2, <3>2, <4>1
    <3>4. Corner(g, s) = Meeting(q)
      BY <3>2 DEF k
    <3>5. Around(q) \subseteq status'[g][s]
      BY <1>3, <3>2
    <3> QED BY <1>1, <1>6, <3>3, <3>4, <3>5 DEF Assignee
  <2> QED BY <2>1, <2>2
<1> QED BY <1>4, <1>9

\* A group renders all that was left to it.
LEMMA RenderStep ==
  ASSUME FInv, NEW g \in Groups, RenderRects(g)
  PROVE  OutsideMarked' /\ StaleWaits'
<1>0. TypeOK
  BY DEF FInv, BInv
<1>1. /\ counters_' = counters_ /\ status' = status
      /\ pc[g] = "render" /\ pc' = [pc EXCEPT ![g] = "rendered"]
      /\ stale' = stale \ Rendered(g)
  BY DEF RenderRects
<1>2. OutsideMarked'
  BY <1>1 DEF FInv, OutsideMarked
<1>3. \A h \in Groups \ {g} : pc'[h] = pc[h]
  BY <1>0, <1>1 DEF TypeOK
<1>4. \A h \in Groups \ {g} : Passed(h)' = Passed(h)
  BY <1>3 DEF Passed, Ahead
<1>5. StaleWaits'
  <2> SUFFICES ASSUME NEW p \in stale', NEW q \in Nat \X Nat, PartOf(p, q),
                      Around(q) \subseteq counters_[Meeting(q)]
               PROVE  Assignee(q)'
    BY <1>1 DEF StaleWaits
  <2>1. p \in stale /\ p \notin Rendered(g)
    BY <1>1
  <2>2. p \in Int \X Int
    <3>1. p \in Pixels
      BY <1>0, <2>1 DEF TypeOK
    <3> QED BY <3>1, PixelHasPart
  <2>3. Assignee(q)
    BY <2>1 DEF FInv, StaleWaits
  <2>4. PICK h \in Groups, t \in Sides :
          /\ Corner(h, t) = Meeting(q) /\ Opposite(t) \in Around(q)
          /\ t \in Passed(h) /\ pc[h] # "rendered"
          /\ Around(q) \subseteq status[h][t]
    BY <2>3 DEF Assignee
  <2>5. h # g
    <3> SUFFICES ASSUME h = g PROVE FALSE
      OBVIOUS
    <3>1. PICK c \in 0..2, r \in 0..2 : q = Shared(g, <<c, r>>) /\ SideOf(c, r) = t
      BY <2>4, TouchFacts
    <3>2. status[g][t] \subseteq Sides
      BY <1>0 DEF TypeOK
    <3>3. <<c, r>> \in Available(g)
      BY <2>4, <3>1, <3>2, AvailableIsSeen
    <3>4. PartOf(p, Shared(g, <<c, r>>))
      BY <3>1
    <3>5. p \in Rendered(g)
      BY <2>2, <3>3, <3>4, RenderedIsParts
    <3> QED BY <2>1, <3>5
  <2>6. t \in Passed(h)' /\ pc'[h] # "rendered" /\ status'[h] = status[h]
    BY <1>1, <1>3, <1>4, <2>4, <2>5
  <2> QED BY <2>4, <2>6 DEF Assignee
<1> QED BY <1>2, <1>5

\* Every step preserves FInv.
LEMMA NextFInv ==
  ASSUME ~(FullImage /\ RepeatedFlush), FInv, [Next]_vars
  PROVE  FInv'
<1>1. BInv'
  BY NextBInv DEF FInv
<1>2. OutsideMarked' /\ StaleWaits'
  <2>1. CASE UNCHANGED vars
    BY <2>1 DEF vars, FInv, OutsideMarked, StaleWaits, Assignee, Passed, Ahead
  <2>2. ASSUME NEW S \in SUBSET Groups, NEW C \in SUBSET S, ProcessSections(S, C)
        PROVE  OutsideMarked' /\ StaleWaits'
    <3> DEFINE D == IF FullImage THEN Groups ELSE S
    <3>1. D \in SUBSET Groups /\ ClearDone(D) /\ RunEnded /\ stale' = stale
      BY <2>2 DEF ProcessSections
    <3> HIDE DEF D
    <3> QED BY <3>1, ClearStep
  <2>3. CASE Flush
    <3> DEFINE D == Groups \ complete
    <3>1. D \in SUBSET Groups /\ ClearDone(D) /\ RunEnded /\ stale' = stale
      BY <2>3 DEF Flush
    <3> HIDE DEF D
    <3> QED BY <3>1, ClearStep
  <2>4. CASE NextFrame
    BY <2>4, FreshStep
  <2>5. ASSUME NEW g \in Groups, SaveBorders(g) \/ FetchStatus(g) \/ RenderRects(g)
        PROVE  OutsideMarked' /\ StaleWaits'
    BY <2>5, SaveStep, MarkStep, RenderStep
  <2> QED BY <2>1, <2>2, <2>3, <2>4, <2>5 DEF Next
<1> QED BY <1>1, <1>2 DEF FInv

\* Between runs nobody is left to render: a part with a stale pixel waits for a
\* group around it.
LEMMA StaleIsExplained == FInv => FreshAfterRun
<1> SUFFICES ASSUME FInv, RunEnded, NEW p \in stale
             PROVE  \E g \in Groups : p \in Influence(g) /\ ~Done(g)
  BY DEF FreshAfterRun
<1>0. TypeOK
  BY DEF FInv, BInv
<1>1. p \in Pixels
  BY <1>0 DEF TypeOK
<1>2. p \in Int \X Int
  BY <1>1, PixelHasPart
<1>3. PICK q \in Nat \X Nat : PartOf(p, q)
  BY <1>1, PixelHasPart
<1>4. ~(Around(q) \subseteq counters_[Meeting(q)])
  BY <1>0, <1>3, NoAssignee DEF FInv, StaleWaits
<1>5. PICK b \in Around(q) : b \notin counters_[Meeting(q)]
  BY <1>4
<1>6. b \in Sides /\ Meeting(q) \in Corners
  BY <1>3, PartMeets DEF Around
<1>7. PICK g \in Groups : Corner(g, Opposite(b)) = Meeting(q)
  BY <1>5, <1>6 DEF FInv, OutsideMarked
<1>8. Opposite(b) \in Sides /\ Opposite(Opposite(b)) = b
  BY <1>6 DEF Sides, Opposite
<1>9. \E c, r \in 0..2 : q = Shared(g, <<c, r>>)
  BY <1>5, <1>7, <1>8, TouchFacts
<1>10. p \in Influence(g)
  BY <1>2, <1>3, <1>9, InfluenceIsTouch
<1>11. ~Done(g)
  BY <1>5, <1>7, <1>8 DEF Done
<1> QED BY <1>10, <1>11

\* After every run of the pool each pixel shows the latest data of its groups,
\* or one of them has more to come.  Nothing is lost between two groups: for
\* every frame, every choice of the groups to draw and every interleaving.
THEOREM NothingLostBetweenGroups ==
  ASSUME ~(FullImage /\ RepeatedFlush)
  PROVE  Spec => []FreshAfterRun
<1>1. Init => FInv
  BY InitFInv
<1>2. FInv /\ [Next]_vars => FInv'
  BY NextFInv
<1>3. FInv => FreshAfterRun
  BY StaleIsExplained
<1> QED BY <1>1, <1>2, <1>3, PTL DEF Spec

\* The types hold also when a frame that is drawn at once is flushed twice.
THEOREM TypeCorrect == Spec => []TypeOK
<1>1. Init => TypeOK
  BY InitBInv DEF BInv
<1>2. ASSUME TypeOK, [Next]_vars PROVE TypeOK'
  <2>1. CASE UNCHANGED vars
    BY <1>2, <2>1 DEF vars, TypeOK
  <2>2. ASSUME NEW S \in SUBSET Groups, StartRun(S)
        PROVE  /\ pc' \in [Groups -> PC]
               /\ status' \in [Groups -> [Sides -> SUBSET Sides]]
    BY <2>2 DEF StartRun, PC
  <2>3. ASSUME NEW S \in SUBSET Groups, NEW C \in SUBSET S, ProcessSections(S, C)
        PROVE  TypeOK'
    <3>1. \E D \in SUBSET Groups : StartRun(D)
      BY <2>3 DEF ProcessSections
    <3>2. counters_' \in [Corners -> SUBSET Sides]
      BY <1>2, <2>3 DEF ProcessSections, ClearDone, TypeOK
    <3>3. complete' \in SUBSET Groups /\ flushed' \in BOOLEAN /\ stale' \in SUBSET Pixels
      BY <1>2, <2>3 DEF ProcessSections, TypeOK
    <3> QED BY <2>2, <3>1, <3>2, <3>3 DEF TypeOK
  <2>4. CASE Flush
    <3>1. \E D \in SUBSET Groups : StartRun(D)
      BY <2>4 DEF Flush
    <3>2. counters_' \in [Corners -> SUBSET Sides]
      BY <1>2, <2>4 DEF Flush, ClearDone, TypeOK
    <3>3. complete' \in SUBSET Groups /\ flushed' \in BOOLEAN /\ stale' \in SUBSET Pixels
      BY <1>2, <2>4 DEF Flush, TypeOK
    <3> QED BY <2>2, <3>1, <3>2, <3>3 DEF TypeOK
  <2>5. CASE NextFrame
    <3>1. {} \in SUBSET Groups /\ StartRun({})
      BY <2>5 DEF NextFrame
    <3>2. counters_' \in [Corners -> SUBSET Sides]
      BY <2>5 DEF NextFrame, InitialCounter, Sides
    <3>3. complete' \in SUBSET Groups /\ flushed' \in BOOLEAN /\ stale' \in SUBSET Pixels
      BY <2>5 DEF NextFrame
    <3> QED BY <2>2, <3>1, <3>2, <3>3 DEF TypeOK
  <2>6. ASSUME NEW g \in Groups, SaveBorders(g) \/ RenderRects(g) PROVE TypeOK'
    <3>1. stale' \in SUBSET Pixels
      BY <1>2, <2>6 DEF SaveBorders, RenderRects, TypeOK, Influence, Reach, Pixels
    <3>2. pc' \in [Groups -> PC]
      BY <1>2, <2>6 DEF SaveBorders, RenderRects, TypeOK, PC, Sides
    <3>3. UNCHANGED <<counters_, status, complete, flushed>>
      BY <2>6 DEF SaveBorders, RenderRects
    <3> QED BY <1>2, <3>1, <3>2, <3>3 DEF TypeOK
  <2>7. ASSUME NEW g \in Groups, FetchStatus(g) PROVE TypeOK'
    <3>1. pc[g] \in Sides /\ Opposite(pc[g]) \in Sides /\ Corner(g, pc[g]) \in Corners
      BY <2>7, CornerFacts DEF FetchStatus
    <3>2. NextSide(pc[g]) \in PC
      BY <3>1 DEF NextSide, PC, Sides
    <3>3. pc' \in [Groups -> PC]
      BY <1>2, <2>7, <3>2 DEF FetchStatus, TypeOK
    <3>4. counters_' \in [Corners -> SUBSET Sides]
      BY <1>2, <2>7, <3>1 DEF FetchStatus, TypeOK
    <3>5. status' \in [Groups -> [Sides -> SUBSET Sides]]
      BY <1>2, <2>7, <3>1 DEF FetchStatus, TypeOK
    <3>6. UNCHANGED <<complete, flushed, stale>>
      BY <2>7 DEF FetchStatus
    <3> QED BY <1>2, <3>3, <3>4, <3>5, <3>6 DEF TypeOK
  <2> QED BY <1>2, <2>1, <2>3, <2>4, <2>5, <2>6, <2>7 DEF Next
<1> QED BY <1>1, <1>2, PTL DEF Spec
=============================================================================
