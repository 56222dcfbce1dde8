------------------------ MODULE GroupBorderAssigner ------------------------
(***************************************************************************)
(* How the groups of a frame are drawn: lib/jxl/dec_group_border.{h,cc},   *)
(* ProcessBuffers() of low_memory_render_pipeline.cc and the two callers   *)
(* in dec_frame.cc that mark groups as not done and draw them.             *)
(*                                                                         *)
(* Groups are decoded in parallel.  Filters read pixels of the neighbours, *)
(* so that a group stores its borders, marks itself at its four corners,   *)
(* one atomic operation each, and renders what no other group will: its    *)
(* centre, and the borders and corners for which it came last.  Every such *)
(* operation is an action; up to NumThreads groups are under way.          *)
(*                                                                         *)
(* A group is its position <<x, y>>, a corner the position of the group at *)
(* its bottom right, and the bits of a counter are a set.                  *)
(***************************************************************************)
EXTENDS Integers, FiniteSets

CONSTANTS XGroups, YGroups,   \* frame_dim_.xsize_groups, ysize_groups
          XSize, YSize,       \* frame_dim_.xsize, ysize
          GroupDim, BlockDim, \* frame_dim_.group_dim, kBlockDim
          PadX, PadY,         \* group_border_
          NumThreads,         \* threads of the pool
          FullImage,          \* modular_frame_decoder_.UsesFullImage()
          RepeatedFlush       \* the application flushes again without new input

ASSUME GridAssumption == XGroups \in Nat \ {0} /\ YGroups \in Nat \ {0}
ASSUME NumThreadsAssumption == NumThreads \in Nat \ {0}
ASSUME FlagsAssumption == FullImage \in BOOLEAN /\ RepeatedFlush \in BOOLEAN
\* FrameDimensions::Set, and borders that fit into a group.
ASSUME GeometryAssumption ==
  /\ GroupDim \in Nat \ {0} /\ BlockDim \in Nat \ {0} /\ GroupDim % BlockDim = 0
  /\ PadX \in Nat /\ PadY \in Nat /\ 2 * PadX <= GroupDim /\ 2 * PadY <= GroupDim
  /\ XSize \in (XGroups - 1) * GroupDim + 1 .. XGroups * GroupDim
  /\ YSize \in (YGroups - 1) * GroupDim + 1 .. YGroups * GroupDim

Groups == (0..XGroups-1) \X (0..YGroups-1)
Corners == (0..XGroups) \X (0..YGroups)
Sides == {"tl", "tr", "br", "bl"}

VARIABLES
  counters_,  \* for each corner, the positions around it that are done
  pc,         \* what each group does in the current run of the pool
  status,     \* the values fetched by GroupDone, by side of the group
  complete,   \* groups with all of their passes decoded
  flushed,    \* no ProcessSections() since the last Flush()
  stale       \* pixels not rendered since the data they depend on was stored

vars == <<counters_, pc, status, complete, flushed, stale>>

\* "save": the group is decoded and stores its borders.  "tl" .. "bl": its
\* next atomic operation is the one at that corner.  "rendered": its task is
\* over.  "idle": it takes no part in this run.
PC == {"idle", "save", "render", "rendered"} \cup Sides

Pixels == (0..XSize-1) \X (0..YSize-1)

TypeOK ==
  /\ counters_ \in [Corners -> SUBSET Sides]
  /\ pc \in [Groups -> PC]
  /\ status \in [Groups -> [Sides -> SUBSET Sides]]
  /\ complete \in SUBSET Groups
  /\ flushed \in BOOLEAN
  /\ stale \in SUBSET Pixels

-----------------------------------------------------------------------------
(* Groups and corners. *)

Corner(g, s) == CASE s = "tl" -> g
                  [] s = "tr" -> <<g[1] + 1, g[2]>>
                  [] s = "br" -> <<g[1] + 1, g[2] + 1>>
                  [] s = "bl" -> <<g[1], g[2] + 1>>

\* The group at side s of a corner has that corner at the opposite side.
Opposite(s) == CASE s = "tl" -> "br" [] s = "tr" -> "bl"
                 [] s = "br" -> "tl" [] s = "bl" -> "tr"

\* Init: what lies outside of the frame counts as done.
InitialCounter(k) ==
  (IF k[1] = 0 THEN {"tl", "bl"} ELSE {}) \cup
  (IF k[1] = XGroups THEN {"tr", "br"} ELSE {}) \cup
  (IF k[2] = 0 THEN {"tl", "tr"} ELSE {}) \cup
  (IF k[2] = YGroups THEN {"bl", "br"} ELSE {})

ClearedSides_TopOnly(S, k) ==                                      \* faulty
  {s \in {"tl", "tr"} : \E g \in S : Corner(g, Opposite(s)) = k}
\* The bits of corner k that ClearDone() resets for the groups S.
ClearedSides(S, k) ==
  {s \in Sides : \E g \in S : Corner(g, Opposite(s)) = k}

ClearDone(S) ==
  counters_' = [k \in Corners |-> counters_[k] \ ClearedSides(S, k)]

-----------------------------------------------------------------------------
(* The parts of the image that GroupDone() hands out: <<1, 1>> is the       *)
(* centre of the group, the others are the borders and corners around it.   *)

Available_BordersByOtherCorner(g) ==                               \* faulty
  {<<1, 1>>} \cup
  {p \in {<<0, 0>>, <<2, 0>>, <<2, 2>>, <<0, 2>>} :
     status[g][CASE p = <<0, 0>> -> "tl" [] p = <<2, 0>> -> "tr"
                 [] p = <<2, 2>> -> "br" [] p = <<0, 2>> -> "bl"] = Sides} \cup
  (IF "tl" \in status[g]["tr"] THEN {<<1, 0>>} ELSE {}) \cup
  (IF "bl" \in status[g]["tl"] THEN {<<0, 1>>} ELSE {}) \cup
  (IF "br" \in status[g]["tr"] THEN {<<2, 1>>} ELSE {}) \cup
  (IF "br" \in status[g]["bl"] THEN {<<1, 2>>} ELSE {})

\* available_parts_mask: a corner when all four groups are done, a border when
\* the group across is, as seen at its left or top corner.
Available(g) ==
  {<<1, 1>>} \cup
  {p \in {<<0, 0>>, <<2, 0>>, <<2, 2>>, <<0, 2>>} :
     status[g][CASE p = <<0, 0>> -> "tl" [] p = <<2, 0>> -> "tr"
                 [] p = <<2, 2>> -> "br" [] p = <<0, 2>> -> "bl"] = Sides} \cup
  (IF "tr" \in status[g]["tl"] THEN {<<1, 0>>} ELSE {}) \cup
  (IF "bl" \in status[g]["tl"] THEN {<<0, 1>>} ELSE {}) \cup
  (IF "br" \in status[g]["tr"] THEN {<<2, 1>>} ELSE {}) \cup
  (IF "br" \in status[g]["bl"] THEN {<<1, 2>>} ELSE {})

\* A part in a numbering that all groups share: even coordinates are borders.
Shared(g, p) == <<2 * g[1] + p[1], 2 * g[2] + p[2]>>

MinOf(a, b) == IF a < b THEN a ELSE b

Positions_CentreToTheEdge(i, n, size, pad) ==                      \* faulty
  LET start == i * GroupDim
      blocks == (size + BlockDim - 1) \div BlockDim
      end == MinOf(start + GroupDim, blocks * BlockDim)
  IN  <<IF start = 0 THEN 0 ELSE start - pad,
        IF start = 0 THEN 0 ELSE MinOf(size, start + pad),
        IF i + 1 = n THEN size ELSE end,
        MinOf(size, end + pad)>>
\* xpos (or ypos): the four positions that bound the three parts of group i
\* out of n, in a frame of size pixels.
Positions(i, n, size, pad) ==
  LET start == i * GroupDim
      blocks == (size + BlockDim - 1) \div BlockDim
      end == MinOf(start + GroupDim, blocks * BlockDim)
  IN  <<IF start = 0 THEN 0 ELSE start - pad,
        IF start = 0 THEN 0 ELSE MinOf(size, start + pad),
        IF i + 1 = n THEN size ELSE end - pad,
        MinOf(size, end + pad)>>

Segment_Narrow(avail, y) ==                                        \* faulty
  LET xs == {x \in 0..2 : <<x, y>> \in avail}
  IN  IF xs = {} THEN <<3, 3>>
      ELSE LET first == CHOOSE x \in xs : \A z \in xs : x <= z
           IN  <<first, first + 1>>
\* horizontal_segments[y]; <<3, 3>> is kNoSegment.
Segment(avail, y) ==
  LET xs == {x \in 0..2 : <<x, y>> \in avail}
  IN  IF xs = {} THEN <<3, 3>>
      ELSE <<CHOOSE x \in xs : \A z \in xs : x <= z,
             1 + CHOOSE x \in xs : \A z \in xs : x >= z>>

\* rects_to_finalize: strips with equal segments are merged.
Strips(avail) ==
  LET s(y) == Segment(avail, y)
  IN  CASE s(0) = s(1) /\ s(1) = s(2) -> {<<s(0), 0, 3>>}
        [] s(0) = s(1) /\ s(1) # s(2) -> {<<s(0), 0, 2>>, <<s(2), 2, 3>>}
        [] s(0) # s(1) /\ s(1) = s(2) -> {<<s(0), 0, 1>>, <<s(1), 1, 3>>}
        [] OTHER -> {<<s(0), 0, 1>>, <<s(1), 1, 2>>, <<s(2), 2, 3>>}

\* The pixels that a group renders.
Rendered(g) ==
  LET xpos == Positions(g[1], XGroups, XSize, PadX)
      ypos == Positions(g[2], YGroups, YSize, PadY)
  IN  UNION {(xpos[t[1][1] + 1] .. xpos[t[1][2] + 1] - 1)
               \X (ypos[t[2] + 1] .. ypos[t[3] + 1] - 1) : t \in Strips(Available(g))}

Reach_Unclipped(i, size, pad) ==                                   \* faulty
  {n \in 0..size : n >= i * GroupDim - pad /\ n < (i + 1) * GroupDim + pad}
\* The pixels that depend on data of g: the padding of the stages is at most
\* group_border_.
Reach(i, size, pad) == {n \in 0..size-1 : /\ n >= i * GroupDim - pad
                                          /\ n < (i + 1) * GroupDim + pad}
Influence(g) == Reach(g[1], XSize, PadX) \X Reach(g[2], YSize, PadY)

-----------------------------------------------------------------------------
Init ==
  /\ counters_ = [k \in Corners |-> InitialCounter(k)]
  /\ pc = [g \in Groups |-> "idle"]
  /\ status = [g \in Groups |-> [s \in Sides |-> {}]]
  /\ complete = {}
  /\ flushed = FALSE
  /\ stale = Pixels

\* RunOnPool returned, and the next call of the frame decoder may come.
RunEnded == \A g \in Groups : pc[g] \in {"idle", "rendered"}

\* A run of the pool that draws the groups of S.
StartRun(S) ==
  /\ pc' = [g \in Groups |-> IF g \in S THEN "save" ELSE "idle"]
  /\ status' = [g \in Groups |-> [s \in Sides |-> {}]]

\* FrameDecoder::ProcessSections() with new passes for the groups of S, of
\* which those in C become complete: these are drawn and, for modular frames,
\* the others too, unless the frame is drawn by FinalizeDecoding() only.
ProcessSections(S, C) ==
  /\ RunEnded
  /\ complete # Groups /\ S \cap complete = {}
  /\ ClearDone(IF FullImage THEN Groups ELSE S)
  /\ IF FullImage THEN StartRun({}) ELSE \E D \in {C, S} : StartRun(D)
  /\ complete' = complete \cup C
  /\ flushed' = FALSE
  /\ UNCHANGED stale

\* FrameDecoder::Flush() draws the groups that are not complete, or all of
\* them through ModularFrameDecoder::FinalizeDecoding().  It is also the end
\* of FinalizeFrame(), once all groups are complete.
Flush ==
  /\ RunEnded
  /\ flushed => RepeatedFlush /\ complete # Groups
  /\ ClearDone(Groups \ complete)
  /\ StartRun(IF FullImage THEN Groups ELSE Groups \ complete)
  /\ flushed' = TRUE
  /\ UNCHANGED <<complete, stale>>

\* PreparePipeline() makes a new pipeline for the next frame.
NextFrame ==
  /\ RunEnded
  /\ complete = Groups /\ flushed
  /\ counters_' = [k \in Corners |-> InitialCounter(k)]
  /\ StartRun({})
  /\ complete' = {}
  /\ flushed' = FALSE
  /\ stale' = Pixels

\* Groups whose task has begun and is not over.
UnderWay == {g \in Groups : pc[g] \in Sides \cup {"render"}}

\* ProcessBuffers(): the borders of the group are in the border storage.
SaveBorders(g) ==
  /\ pc[g] = "save"
  /\ Cardinality(UnderWay) < NumThreads
  /\ pc' = [pc EXCEPT ![g] = "tl"]
  /\ stale' = stale \cup Influence(g)
  /\ UNCHANGED <<counters_, status, complete, flushed>>

NextSide(s) == CASE s = "tl" -> "tr" [] s = "tr" -> "br"
                 [] s = "br" -> "bl" [] s = "bl" -> "render"

\* fetch_status: the atomic fetch_or of GroupDone() at one corner.
FetchStatus(g) ==
  /\ pc[g] \in Sides
  /\ LET k == Corner(g, pc[g])
         bits == counters_[k] \cup {Opposite(pc[g])}
     IN  /\ counters_' = [counters_ EXCEPT ![k] = bits]
         /\ status' = [status EXCEPT ![g][pc[g]] = bits]
  /\ pc' = [pc EXCEPT ![g] = NextSide(pc[g])]
  /\ UNCHANGED <<complete, flushed, stale>>

\* LoadBorders() and RenderRect() for the rectangles of GroupDone().
RenderRects(g) ==
  /\ pc[g] = "render"
  /\ pc' = [pc EXCEPT ![g] = "rendered"]
  /\ stale' = stale \ Rendered(g)
  /\ UNCHANGED <<counters_, status, complete, flushed>>

Next ==
  \/ \E S \in SUBSET Groups : \E C \in SUBSET S : ProcessSections(S, C)
  \/ Flush
  \/ NextFrame
  \/ \E g \in Groups : SaveBorders(g) \/ FetchStatus(g) \/ RenderRects(g)

Spec == Init /\ [][Next]_vars

-----------------------------------------------------------------------------
\* The group has passed all of its corners in this run.
Assigned(g) == pc[g] \in {"render", "rendered"}

\* The comment above GroupDone(): the groups agree on who is the last.  No two
\* of them handle the same border or corner, ...
HandledOnce ==
  \A g, h \in Groups :
    Assigned(g) /\ Assigned(h) /\ g # h
      => {Shared(g, p) : p \in Available(g)} \cap
         {Shared(h, p) : p \in Available(h)} = {}

\* ... and what is in the same rectangles of two groups is never rendered twice.
PixelsRenderedOnce ==
  \A g, h \in Groups :
    Assigned(g) /\ Assigned(h) /\ g # h => Rendered(g) \cap Rendered(h) = {}

\* All of the corners of the group know that it is done.
Done(g) == \A s \in Sides : Opposite(s) \in counters_[Corner(g, s)]

\* When a run of the pool is over, every pixel whose contributing groups are
\* all done shows their latest data: nothing falls between two groups, however
\* their atomic operations interleave and whichever groups were drawn before.
FreshAfterRun ==
  RunEnded => \A p \in stale : \E g \in Groups : p \in Influence(g) /\ ~Done(g)

\* A group renders from the border storage only what the group across has
\* finished storing and will not overwrite in this run.
NoTornBorder ==
  \A g, h \in Groups :
    pc[g] = "render" /\ pc[h] = "save" => Rendered(g) \cap Influence(h) = {}

\* The assertion in fetch_status: a group that reports was not done before.
ReportsOnce ==
  \A g \in Groups :
    pc[g] \in Sides => Opposite(pc[g]) \notin counters_[Corner(g, pc[g])]
=============================================================================
