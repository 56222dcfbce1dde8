------------------------- MODULE FrameSkipping_proof -------------------------
(***************************************************************************)
(* Proofs about FrameSkipping, for every set of images and any number of   *)
(* skips and rewinds.                                                      *)
(*                                                                         *)
(* The argument for ShownIntact: there is always a set N of frames that    *)
(* holds all frames yet to be displayed and, of each frame in N that is    *)
(* yet to be decoded, the frames it reads; the slots that hold a frame of  *)
(* N hold it intact, and no frame of N is skipped.  Each request to skip   *)
(* intersects N with what GetFrameDependencies() returns.                  *)
(***************************************************************************)
EXTENDS FrameSkipping, NaturalInduction, FiniteSetTheorems, TLAPS

\* The frames that are decoded or skipped.
Completed == IF frame_stage = "kHeader" THEN internal_frames ELSE internal_frames - 1

\* The frame in slot s after frame i, if none is skipped, or 0.
Stored(s, i) == Max({0} \cup {j \in 1..i : s \in SavedAs(j)})

NumStills(i) == Cardinality({j \in 1..i : LastOfStill(j)})

PositionInv ==
  /\ external_frames = NumStills(internal_frames)
  /\ internal_frames = 0 => ~is_last_total /\ frame_stage = "kHeader"
  /\ internal_frames > 0 => /\ is_last_total <=> IsLast(internal_frames)
                            /\ is_last_of_still <=> LastOfStill(internal_frames)
  /\ frame_stage = "kFull" => Wants("FULL_IMAGE")
  /\ stage = "kInited" => internal_frames = 0 /\ ~in_call

TablesInv ==
  /\ TablesTrue
  /\ Len(frame_external_to_internal) >= external_frames
  /\ internal_frames > 0 /\ ~LastOfStill(internal_frames)
       => Len(frame_external_to_internal) > external_frames
  /\ rewinds = 0 /\ stage = "kInited" =>
       /\ frame_references = <<>> /\ frame_saved_as = <<>>
       /\ frame_external_to_internal = <<>> /\ frame_required = <<>>

\* A slot holds a frame that was decoded and is saved there.
SlotsInv ==
  \A s \in Slots : reference_frames[s] # 0 =>
    /\ reference_frames[s] <= Completed
    /\ s \in SavedAs(reference_frames[s])

ShownInv == \A k \in DOMAIN shown : /\ shown[k].frame \in intact
                                    /\ shown[k].frame <= Completed

Needed(N) ==
  /\ \A i \in N : i > Completed =>
       \A s \in References(i) : Stored(s, i - 1) \in N \cup {0}
  /\ \A i \in internal_frames+1..Len(image) :
       Still(i) > external_frames + skip_frames => i \in N
  /\ \A s \in Slots : Stored(s, Completed) \in N =>
       /\ reference_frames[s] = Stored(s, Completed)
       /\ Stored(s, Completed) \in intact
  /\ \A i \in N : /\ i > internal_frames /\ i <= Len(frame_required)
                  /\ Still(i) <= external_frames + skip_frames
                  => frame_required[i]
  /\ frame_stage # "kHeader" /\ ~skipping_frame => internal_frames \in N

NeedInv == Wants("FULL_IMAGE") \/ internal_frames = 0 =>
             \E N \in SUBSET (1..Len(image)) : Needed(N)

IInv == TypeOK /\ PositionInv /\ TablesInv /\ SlotsInv /\ ShownInv /\ NeedInv
-----------------------------------------------------------------------------
(* Largest elements and recursion. *)

\* Max(), of a bounded set of numbers.
LEMMA MaxOf ==
  ASSUME NEW m \in Nat, NEW T, T \subseteq 0..m, T # {}
  PROVE  Max(T) \in T /\ \A y \in T : y <= Max(T)
<1> DEFINE U == {m - y : y \in T}
<1>1. U \subseteq Nat /\ U # {}
  <2>1. PICK y \in T : TRUE
    OBVIOUS
  <2>2. m - y \in U
    OBVIOUS
  <2>3. \A z \in U : z \in Nat
    OBVIOUS
  <2> QED BY <2>2, <2>3
<1>2. PICK z \in U : \A w \in U : z <= w
  BY <1>1, SmallestElement
<1>3. PICK x \in T : z = m - x
  OBVIOUS
<1>4. \A y \in T : x >= y
  <2> SUFFICES ASSUME NEW y \in T PROVE x >= y
    OBVIOUS
  <2>1. m - y \in U
    OBVIOUS
  <2>2. m - x <= m - y
    BY <1>2, <1>3, <2>1
  <2> QED BY <2>2
<1>5. \E a \in T : \A y \in T : a >= y
  BY <1>4
<1>6. Max(T) \in T /\ \A y \in T : Max(T) >= y
  BY <1>5 DEF Max
<1> QED BY <1>6

\* What a slot holds after frame i, in a decode that skips nothing.
LEMMA StoredFacts ==
  ASSUME NEW s, NEW i \in Nat
  PROVE  /\ Stored(s, i) \in 0..i
         /\ Stored(s, i) # 0 => s \in SavedAs(Stored(s, i))
         /\ \A j \in 1..i : s \in SavedAs(j) => j <= Stored(s, i)
<1> DEFINE T == {0} \cup {j \in 1..i : s \in SavedAs(j)}
<1>1. T \subseteq 0..i /\ T # {}
  OBVIOUS
<1>2. Max(T) \in T /\ \A y \in T : y <= Max(T)
  BY <1>1, MaxOf
<1>3. Stored(s, i) = Max(T)
  BY DEF Stored
<1> QED BY <1>2, <1>3

LEMMA StoredStep ==
  ASSUME NEW s, NEW i \in Nat \ {0}
  PROVE  Stored(s, i) = IF s \in SavedAs(i) THEN i ELSE Stored(s, i - 1)
<1>1. /\ Stored(s, i) \in 0..i
      /\ Stored(s, i) # 0 => s \in SavedAs(Stored(s, i))
      /\ \A j \in 1..i : s \in SavedAs(j) => j <= Stored(s, i)
  BY StoredFacts
<1>2. /\ Stored(s, i - 1) \in 0..i - 1
      /\ Stored(s, i - 1) # 0 => s \in SavedAs(Stored(s, i - 1))
      /\ \A j \in 1..i - 1 : s \in SavedAs(j) => j <= Stored(s, i - 1)
  BY StoredFacts
<1> QED BY <1>1, <1>2

LEMMA StoredBetween ==
  ASSUME NEW s, NEW i \in Nat, NEW k \in Nat, k <= i, Stored(s, i) <= k
  PROVE  Stored(s, i) = Stored(s, k)
<1>1. /\ Stored(s, i) \in 0..i
      /\ Stored(s, i) # 0 => s \in SavedAs(Stored(s, i))
      /\ \A j \in 1..i : s \in SavedAs(j) => j <= Stored(s, i)
  BY StoredFacts
<1>2. /\ Stored(s, k) \in 0..k
      /\ Stored(s, k) # 0 => s \in SavedAs(Stored(s, k))
      /\ \A j \in 1..k : s \in SavedAs(j) => j <= Stored(s, k)
  BY StoredFacts
<1> QED BY <1>1, <1>2

\* The recursion in GetFrameDependencies(), and that it has a solution.
IsSeen(f, m, A, saved_as, references) ==
  f = [n \in 0..m |->
         IF n = 0 THEN A
         ELSE f[n-1] \cup UNION {Pushed(i, saved_as, references) : i \in f[n-1]}]

LEMMA SeenExists ==
  ASSUME NEW A, NEW saved_as, NEW references, NEW m \in Nat
  PROVE  \E f : IsSeen(f, m, A, saved_as, references)
<1> DEFINE P(i) == Pushed(i, saved_as, references)
           Solves(f, k) == f = [n \in 0..k |->
                              IF n = 0 THEN A ELSE f[n-1] \cup UNION {P(i) : i \in f[n-1]}]
           E == {k \in Nat : \E f : Solves(f, k)}
<1>1. 0 \in E
  <2> DEFINE f0 == [n \in 0..0 |-> A]
  <2>1. f0 = [n \in 0..0 |-> IF n = 0 THEN A
                             ELSE f0[n-1] \cup UNION {P(i) : i \in f0[n-1]}]
    OBVIOUS
  <2>2. Solves(f0, 0)
    BY <2>1
  <2> HIDE DEF Solves, f0
  <2>3. \E f : Solves(f, 0)
    BY <2>2
  <2> QED BY <2>3
<1>2. ASSUME NEW k \in Nat, k \in E PROVE k + 1 \in E
  <2>1. PICK f : Solves(f, k)
    BY <1>2
  <2> DEFINE g == [n \in 0..k + 1 |->
                     IF n = k + 1 THEN f[k] \cup UNION {P(i) : i \in f[k]} ELSE f[n]]
  <2> HIDE DEF P
  <2>2. ASSUME NEW n \in 0..k + 1
        PROVE  g[n] = IF n = 0 THEN A ELSE g[n-1] \cup UNION {P(i) : i \in g[n-1]}
    <3>1. CASE n = k + 1
      <4>1. g[n-1] = f[k] /\ n - 1 = k /\ n # 0
        BY <3>1
      <4>2. g[n] = f[k] \cup UNION {P(i) : i \in f[k]}
        BY <3>1
      <4> QED BY <4>1, <4>2
    <3>2. CASE n # k + 1
      <4>1. n \in 0..k /\ g[n] = f[n]
        BY <3>2
      <4>2. f[n] = IF n = 0 THEN A ELSE f[n-1] \cup UNION {P(i) : i \in f[n-1]}
        BY <2>1, <4>1
      <4>3. n # 0 => g[n-1] = f[n-1]
        BY <4>1
      <4> QED BY <4>1, <4>2, <4>3
    <3> QED BY <3>1, <3>2
  <2>3. g = [n \in 0..k + 1 |-> g[n]]
    OBVIOUS
  <2> HIDE DEF g
  <2>4. Solves(g, k + 1)
    BY <2>2, <2>3
  <2> HIDE DEF Solves
  <2>5. \E h : Solves(h, k + 1)
    BY <2>4
  <2> QED BY <2>5
<1>3. m \in E
  <2> HIDE DEF E
  <2> QED BY <1>1, <1>2, SetInduction
<1>4. PICK f : Solves(f, m)
  BY <1>3
<1>5. IsSeen(f, m, A, saved_as, references)
  BY <1>4 DEF IsSeen
<1> QED BY <1>5

\* The recursion computes all frames reached from those on the stack at first:
\* a frame only pushes frames before it, so that `index' rounds are enough.
LEMMA DependenciesClosed ==
  ASSUME NEW index \in Nat \ {0}, NEW saved_as, NEW references,
         StackAtFirst(index, saved_as) \subseteq 1..index,
         \A i \in 1..index : Pushed(i, saved_as, references) \subseteq 1..i-1
  PROVE  LET D == {index} \cup GetFrameDependencies(index, saved_as, references)
         IN  /\ D \subseteq 1..index
             /\ StackAtFirst(index, saved_as) \subseteq D
             /\ \A i \in D : Pushed(i, saved_as, references) \subseteq D
<1> DEFINE A == StackAtFirst(index, saved_as)
           P(i) == Pushed(i, saved_as, references)
           seen == CHOOSE f : IsSeen(f, index, A, saved_as, references)
<1>1. GetFrameDependencies(index, saved_as, references) = seen[index] \ {index}
  BY DEF GetFrameDependencies, IsSeen
<1>2. \E f : IsSeen(f, index, A, saved_as, references)
  BY SeenExists
<1>3. seen = [n \in 0..index |->
               IF n = 0 THEN A ELSE seen[n-1] \cup UNION {P(i) : i \in seen[n-1]}]
  <2>1. IsSeen(seen, index, A, saved_as, references)
    BY <1>2
  <2> HIDE DEF A, seen
  <2> QED BY <2>1 DEF IsSeen
<1>4. /\ seen[0] = A
      /\ \A n \in 1..index : seen[n] = seen[n-1] \cup UNION {P(i) : i \in seen[n-1]}
  <2> HIDE DEF P, A, seen
  <2>1. 0 \in 0..index /\ \A n \in 1..index : n \in 0..index /\ n # 0
    OBVIOUS
  <2> QED BY <1>3, <2>1
<1>5. index \in A
  BY DEF StackAtFirst
<1>a. /\ A \subseteq 1..index /\ \A i \in 1..index : P(i) \subseteq 1..i-1
  OBVIOUS
<1> HIDE DEF P, A, seen
\* Every frame i is found within index - i rounds.
<1> DEFINE Early(n) == seen[n] \subseteq 1..index /\ \A i \in seen[n] : i \in seen[index - i]
           Grows(n) == \A k \in 0..n : seen[k] \subseteq seen[n]
<1>6. \A n \in 0..index : Grows(n)
  <2> DEFINE G == {n \in Nat : n <= index => Grows(n)}
  <2>1. 0 \in G
    OBVIOUS
  <2>2. ASSUME NEW n \in Nat, n \in G PROVE n + 1 \in G
    <3> SUFFICES ASSUME n + 1 <= index, NEW k \in 0..n + 1 PROVE seen[k] \subseteq seen[n + 1]
      OBVIOUS
    <3>1. seen[n] \subseteq seen[n + 1]
      <4>1. n + 1 \in 1..index /\ (n + 1) - 1 = n
        OBVIOUS
      <4>2. seen[n + 1] = seen[n] \cup UNION {P(i) : i \in seen[n]}
        BY <1>4, <4>1
      <4> QED BY <4>2
    <3>2. Grows(n)
      BY <2>2
    <3>3. k \in 0..n \/ k = n + 1
      OBVIOUS
    <3> QED BY <3>1, <3>2, <3>3
  <2> HIDE DEF G
  <2>3. Nat \subseteq G
    BY <2>1, <2>2, SetInduction
  <2> QED BY <2>3 DEF G
<1>7. ASSUME NEW i \in 1..index, i \in seen[index - i], NEW j \in P(i)
      PROVE  j \in 1..index /\ j \in seen[index - j]
  <2>1. j \in 1..i-1
    BY <1>a
  <2>2. index - i + 1 \in 1..index /\ (index - i + 1) - 1 = index - i
    BY <2>1
  <2>3. j \in seen[index - i + 1]
    <3>1. seen[index - i + 1] = seen[index - i] \cup UNION {P(h) : h \in seen[index - i]}
      BY <1>4, <2>2
    <3> QED BY <1>7, <3>1
  <2>4. index - j \in 0..index /\ index - i + 1 \in 0..index - j
    BY <2>1
  <2>5. seen[index - i + 1] \subseteq seen[index - j]
    BY <1>6, <2>4
  <2> QED BY <2>1, <2>3, <2>5
<1>8. \A n \in 0..index : Early(n)
  <2> DEFINE G == {n \in Nat : n <= index => Early(n)}
  <2>1. 0 \in G
    <3>1. ASSUME NEW i \in seen[0] PROVE i \in 1..index /\ i \in seen[index - i]
      <4>1. i \in 1..index
        BY <1>4, <1>a
      <4>2. index - i \in 0..index /\ 0 \in 0..index - i
        BY <4>1
      <4>3. seen[0] \subseteq seen[index - i]
        BY <1>6, <4>2
      <4> QED BY <4>1, <4>3
    <3> QED BY <3>1
  <2>2. ASSUME NEW n \in Nat, n \in G PROVE n + 1 \in G
    <3> SUFFICES ASSUME n + 1 <= index PROVE Early(n + 1)
      OBVIOUS
    <3>1. Early(n)
      BY <2>2
    <3>2. n + 1 \in 1..index /\ (n + 1) - 1 = n
      OBVIOUS
    <3>3. seen[n + 1] = seen[n] \cup UNION {P(h) : h \in seen[n]}
      BY <1>4, <3>2
    <3>4. ASSUME NEW j \in seen[n + 1]
          PROVE  j \in 1..index /\ j \in seen[index - j]
      <4>1. CASE j \in seen[n]
        BY <3>1, <4>1
      <4>2. CASE j \notin seen[n]
        <5>1. PICK h \in seen[n] : j \in P(h)
          BY <3>3, <4>2
        <5>2. h \in 1..index /\ h \in seen[index - h]
          BY <3>1
        <5> QED BY <1>7, <5>1, <5>2
      <4> QED BY <4>1, <4>2
    <3> QED BY <3>4
  <2> HIDE DEF G
  <2>3. Nat \subseteq G
    BY <2>1, <2>2, SetInduction
  <2> QED BY <2>3 DEF G
<1>9. index \in 0..index /\ 0 \in 0..index
  OBVIOUS
<1>10. /\ seen[index] \subseteq 1..index
       /\ \A i \in seen[index] : i \in seen[index - i]
  BY <1>8, <1>9
<1>11. A \subseteq seen[index] /\ index \in seen[index]
  BY <1>4, <1>5, <1>6, <1>9
<1>12. ASSUME NEW i \in seen[index] PROVE P(i) \subseteq seen[index]
  <2> SUFFICES ASSUME NEW j \in P(i) PROVE j \in seen[index]
    OBVIOUS
  <2>1. j \in 1..index /\ j \in seen[index - j]
    BY <1>7, <1>10
  <2>2. index - j \in 0..index
    BY <2>1
  <2> QED BY <1>6, <1>9, <2>1, <2>2
<1>13. {index} \cup GetFrameDependencies(index, saved_as, references) = seen[index]
  BY <1>1, <1>11
<1> QED BY <1>10, <1>11, <1>12, <1>13 DEF A, P
-----------------------------------------------------------------------------
(* The image. *)

LEMMA ImageFacts ==
  ASSUME image \in Images
  PROVE  /\ Len(image) \in Nat \ {0} /\ image[Len(image)].type = "kRegularFrame"
         /\ \A i \in 1..Len(image) : /\ SavedAs(i) \subseteq Slots
                                     /\ References(i) \subseteq Slots
                                     /\ SlotsRead(i) \subseteq References(i)
<1>1. image \in Seq(Frame) /\ image # <<>> /\ image[Len(image)].type = "kRegularFrame"
  BY ImagesAssumption
<1>2. Len(image) \in Nat \ {0}
  BY <1>1
<1>3. ASSUME NEW i \in 1..Len(image)
      PROVE  /\ SavedAs(i) \subseteq Slots /\ References(i) \subseteq Slots
             /\ SlotsRead(i) \subseteq References(i)
  <2>1. image[i] \in Frame
    BY <1>1
  <2>2. /\ image[i].save_as_reference \in 0..3 /\ image[i].dc_level \in 1..4
        /\ image[i].blending \subseteq 0..3 /\ image[i].patches \subseteq Slots
    BY <2>1 DEF Frame
  <2>3. CanBeReferenced(i) => image[i].type # "kDCFrame"
    BY DEF CanBeReferenced
  <2>4. SavedAs(i) \subseteq Slots
    <3>1. CASE image[i].type = "kDCFrame"
      BY <2>2, <2>3, <3>1 DEF SavedAs, Slots
    <3>2. CASE CanBeReferenced(i)
      BY <2>2, <2>3, <3>2 DEF SavedAs, Slots
    <3>3. CASE image[i].type # "kDCFrame" /\ ~CanBeReferenced(i)
      BY <3>3 DEF SavedAs
    <3> QED BY <3>1, <3>2, <3>3
  <2>5. References(i) \subseteq Slots
    BY <2>2 DEF References, Slots
  <2>6. SlotsRead(i) \subseteq References(i)
    BY DEF SlotsRead, References
  <2> QED BY <2>4, <2>5, <2>6
<1> QED BY <1>1, <1>2, <1>3

\* A frame that cannot be referenced is in no slot.
LEMMA NotSaved ==
  ASSUME NEW i, ~CanBeReferenced(i), image[i].type # "kDCFrame"
  PROVE  SavedAs(i) = {}
BY DEF SavedAs

LEMMA StillsFinite ==
  ASSUME NEW i \in Nat
  PROVE  /\ IsFiniteSet({j \in 1..i : LastOfStill(j)})
         /\ NumStills(i) \in Nat
<1>1. IsFiniteSet(1..i)
  BY FS_Interval
<1>2. {j \in 1..i : LastOfStill(j)} \subseteq 1..i
  OBVIOUS
<1>3. IsFiniteSet({j \in 1..i : LastOfStill(j)})
  BY <1>1, <1>2, FS_Subset
<1> QED BY <1>3, FS_CardinalityType DEF NumStills

\* external_frames counts the stills that are over.
LEMMA StillStep ==
  /\ NumStills(0) = 0
  /\ \A i \in Nat : NumStills(i + 1) = IF LastOfStill(i + 1) THEN NumStills(i) + 1
                                                              ELSE NumStills(i)
  /\ \A i \in Nat \ {0} : Still(i) = 1 + NumStills(i - 1)
<1>1. NumStills(0) = 0
  <2>1. {j \in 1..0 : LastOfStill(j)} = {}
    OBVIOUS
  <2> QED BY <2>1, FS_EmptySet DEF NumStills
<1>2. ASSUME NEW i \in Nat
      PROVE  NumStills(i + 1) = IF LastOfStill(i + 1) THEN NumStills(i) + 1
                                                      ELSE NumStills(i)
  <2> DEFINE T == {j \in 1..i : LastOfStill(j)}
             U == {j \in 1..i + 1 : LastOfStill(j)}
  <2>1. IsFiniteSet(T) /\ NumStills(i) = Cardinality(T) /\ NumStills(i + 1) = Cardinality(U)
    BY StillsFinite DEF NumStills
  <2>2. CASE LastOfStill(i + 1)
    <3>1. U = T \cup {i + 1} /\ i + 1 \notin T
      BY <2>2
    <3> HIDE DEF T, U
    <3> QED BY <2>1, <2>2, <3>1, FS_AddElement
  <2>3. CASE ~LastOfStill(i + 1)
    <3>1. U = T
      BY <2>3
    <3> QED BY <2>1, <2>3, <3>1
  <2> QED BY <2>2, <2>3
<1>3. \A i \in Nat \ {0} : Still(i) = 1 + NumStills(i - 1)
  BY DEF Still, NumStills
<1> QED BY <1>1, <1>2, <1>3

LEMMA StillOrder ==
  ASSUME NEW i \in Nat, NEW k \in Nat, i <= k
  PROVE  NumStills(i) <= NumStills(k) /\ NumStills(i) \in Nat /\ NumStills(k) \in Nat
<1> DEFINE T == {j \in 1..i : LastOfStill(j)}
           U == {j \in 1..k : LastOfStill(j)}
<1>1. IsFiniteSet(U) /\ NumStills(i) = Cardinality(T) /\ NumStills(k) = Cardinality(U)
  BY StillsFinite DEF NumStills
<1>2. T \subseteq U
  OBVIOUS
<1> HIDE DEF T, U
<1> QED BY <1>1, <1>2, FS_Subset, StillsFinite

\* All frames of a still come after its first one.
LEMMA FirstComesFirst ==
  ASSUME NEW J \in Nat \ {0}, FirstOfStill(J), NEW i \in Nat \ {0}, Still(i) >= Still(J)
  PROVE  i >= J
<1> SUFFICES ASSUME i < J PROVE FALSE
  OBVIOUS
<1>1. LastOfStill(J - 1) /\ J - 2 \in Nat /\ i - 1 \in Nat /\ i - 1 <= J - 2
  BY DEF FirstOfStill
<1>2. (J - 2) + 1 = J - 1
  OBVIOUS
<1>3. NumStills(J - 1) = NumStills(J - 2) + 1
  BY <1>1, <1>2, StillStep
<1>4. NumStills(i - 1) <= NumStills(J - 2) /\ NumStills(i - 1) \in Nat /\ NumStills(J - 2) \in Nat
  BY <1>1, StillOrder
<1>5. Still(i) = 1 + NumStills(i - 1) /\ Still(J) = 1 + NumStills(J - 1)
  BY StillStep
<1> QED BY <1>3, <1>4, <1>5

\* What GetFrameDependencies() returns, from tables that are true, holds what the
\* frame and all frames after it need.
LEMMA RequiredFrames ==
  ASSUME image \in Images, TablesTrue,
         frame_references \in Seq(SUBSET Slots), frame_saved_as \in Seq(SUBSET Slots),
         Len(frame_references) = Len(frame_saved_as),
         NEW index \in 1..Len(image), index <= Len(frame_saved_as)
  PROVE  LET D == {index} \cup
                    GetFrameDependencies(index, frame_saved_as, frame_references)
         IN  /\ D \subseteq 1..index
             /\ \A s \in Slots : Stored(s, index) \in D \cup {0}
             /\ \A i \in D : \A s \in References(i) : Stored(s, i - 1) \in D \cup {0}
<1>0. index \in Nat \ {0}
  BY ImageFacts
<1>1. ASSUME NEW s, NEW i \in 0..index
      PROVE  Storage(frame_saved_as, s, i) = Stored(s, i)
  <2>1. \A j \in 1..i : frame_saved_as[j] = SavedAs(j)
    BY <1>0 DEF TablesTrue
  <2>2. {j \in 1..i : s \in frame_saved_as[j]} = {j \in 1..i : s \in SavedAs(j)}
    BY <2>1
  <2> QED BY <2>2 DEF Storage, Stored
<1>2. \A s, i : i \in 0..index => Stored(s, i) \in 0..i
  BY <1>0, StoredFacts
<1>3. StackAtFirst(index, frame_saved_as) \subseteq 1..index
  BY <1>0, <1>1, <1>2 DEF StackAtFirst
<1>4. ASSUME NEW i \in 1..index
      PROVE  /\ Pushed(i, frame_saved_as, frame_references) \subseteq 1..i-1
             /\ \A s \in References(i) : Stored(s, i - 1) \in
                  Pushed(i, frame_saved_as, frame_references) \cup {0}
  <2>1. CASE i = 1
    <3>1. \A s : Stored(s, 0) = 0
      BY <1>0, <1>2
    <3> QED BY <2>1, <3>1 DEF Pushed
  <2>2. CASE i # 1
    <3>1. i - 1 \in 0..index
      BY <1>0
    <3>2. \A s : Storage(frame_saved_as, s, i - 1) = Stored(s, i - 1)
      BY <1>1, <3>1
    <3>3. References(i) \subseteq frame_references[i]
      <4>1. References(i) \subseteq Slots
        BY <1>0, ImageFacts
      <4>2. i \in DOMAIN frame_references
        BY <1>0
      <4> QED BY <4>1, <4>2 DEF TablesTrue
    <3>4. Pushed(i, frame_saved_as, frame_references)
            = {Storage(frame_saved_as, s, i - 1) : s \in frame_references[i]} \ {0}
      BY <2>2 DEF Pushed
    <3>5. Pushed(i, frame_saved_as, frame_references) \subseteq 1..i-1
      BY <1>2, <3>1, <3>2, <3>4
    <3> QED BY <3>2, <3>3, <3>4, <3>5
  <2> QED BY <2>1, <2>2
<1> DEFINE D == {index} \cup GetFrameDependencies(index, frame_saved_as, frame_references)
<1>5. /\ D \subseteq 1..index
      /\ StackAtFirst(index, frame_saved_as) \subseteq D
      /\ \A i \in D : Pushed(i, frame_saved_as, frame_references) \subseteq D
  BY <1>0, <1>3, <1>4, DependenciesClosed
<1> HIDE DEF D
<1>6. \A s \in Slots : Stored(s, index) \in D \cup {0}
  <2> SUFFICES ASSUME NEW s \in Slots, Stored(s, index) # 0 PROVE Stored(s, index) \in D
    OBVIOUS
  <2>1. Stored(s, index) = Storage(frame_saved_as, s, index)
    BY <1>0, <1>1
  <2> QED BY <1>5, <2>1 DEF StackAtFirst
<1>7. \A i \in D : \A s \in References(i) : Stored(s, i - 1) \in D \cup {0}
  BY <1>4, <1>5
<1> QED BY <1>5, <1>6, <1>7 DEF D
-----------------------------------------------------------------------------
(* Types. *)

\* A table of the decoder grows by at most one entry.
LEMMA KnownFacts ==
  ASSUME NEW S, NEW table \in Seq(S), NEW i \in Nat, NEW v \in S
  PROVE  /\ Known(table, i, v) \in Seq(S)
         /\ Len(Known(table, i, v)) = IF i > Len(table) THEN Len(table) + 1 ELSE Len(table)
         /\ \A j \in 1..Len(table) : Known(table, i, v)[j] = table[j]
         /\ i > Len(table) => Known(table, i, v)[Len(table) + 1] = v
BY DEF Known

LEMMA InitType == Init => TypeOK
<1> SUFFICES ASSUME Init PROVE TypeOK
  OBVIOUS
<1>1. image \in Images /\ Len(image) \in Nat
  BY ImageFacts DEF Init
<1>2. reference_frames \in [Slots -> 0..Len(image)]
  BY <1>1 DEF Init
<1>3. /\ shown \in Seq([frame : 1..Len(image), external : 1..Len(image)])
      /\ frame_references \in Seq(SUBSET Slots) /\ frame_saved_as \in Seq(SUBSET Slots)
      /\ Len(frame_references) = Len(frame_saved_as) /\ 0 <= Len(frame_saved_as)
      /\ frame_external_to_internal \in Seq(1..Len(image))
      /\ frame_required \in Seq(BOOLEAN)
  BY DEF Init
<1>4. /\ in_call \in BOOLEAN /\ got_basic_info \in BOOLEAN /\ coalescing \in BOOLEAN
      /\ is_last_of_still \in BOOLEAN /\ is_last_total \in BOOLEAN
      /\ skipping_frame \in BOOLEAN /\ image_out_buffer_set \in BOOLEAN
  BY DEF Init
<1>5. /\ stage = "kInited" /\ frame_stage = "kHeader" /\ events_wanted = {}
      /\ orig_events_wanted = {} /\ internal_frames = 0 /\ external_frames = 0
      /\ skip_frames = 0 /\ intact = {} /\ rewinds = 0
  BY DEF Init
<1> QED BY <1>1, <1>2, <1>3, <1>4, <1>5, ImagesAssumption DEF TypeOK

LEMMA FreshType ==
  ASSUME TypeOK, Decoder0, image' = image,
         orig_events_wanted' \in SUBSET FrameEvents, coalescing' \in BOOLEAN,
         rewinds' \in 0..MaxRewinds,
         \/ UNCHANGED <<tables, frame_required>>
         \/ /\ frame_references' = <<>> /\ frame_saved_as' = <<>>
            /\ frame_external_to_internal' = <<>> /\ frame_required' = <<>>
  PROVE  TypeOK'
<1>1. Len(image) \in Nat /\ MaxSkip \in Nat
  BY ImageFacts, ImagesAssumption DEF TypeOK
<1>2. reference_frames' \in [Slots -> 0..Len(image)]
  BY <1>1 DEF Decoder0
<1>3. shown' \in Seq([frame : 1..Len(image), external : 1..Len(image)])
  BY DEF Decoder0
<1>4. /\ frame_references' \in Seq(SUBSET Slots) /\ frame_saved_as' \in Seq(SUBSET Slots)
      /\ Len(frame_references') = Len(frame_saved_as') /\ 0 <= Len(frame_saved_as')
      /\ frame_external_to_internal' \in Seq(1..Len(image))
      /\ frame_required' \in Seq(BOOLEAN)
  <2>1. CASE UNCHANGED <<tables, frame_required>>
    BY <2>1 DEF TypeOK, tables
  <2>2. CASE /\ frame_references' = <<>> /\ frame_saved_as' = <<>>
             /\ frame_external_to_internal' = <<>> /\ frame_required' = <<>>
    BY <2>2
  <2> QED BY <2>1, <2>2
<1>5. /\ in_call' \in BOOLEAN /\ got_basic_info' \in BOOLEAN
      /\ is_last_of_still' \in BOOLEAN /\ is_last_total' \in BOOLEAN
      /\ skipping_frame' \in BOOLEAN /\ image_out_buffer_set' \in BOOLEAN
  BY DEF Decoder0
<1>6. /\ stage' = "kInited" /\ frame_stage' = "kHeader" /\ events_wanted' = {}
      /\ internal_frames' = 0 /\ external_frames' = 0
      /\ skip_frames' = 0 /\ intact' = {}
  BY DEF Decoder0
<1>7. image' \in Images /\ Len(image') = Len(image)
  BY DEF TypeOK
<1> QED BY <1>1, <1>2, <1>3, <1>4, <1>5, <1>6, <1>7 DEF TypeOK

LEMMA RequiredType ==
  ASSUME TypeOK, NEW target \in 1..Len(frame_external_to_internal)
  PROVE  /\ frame_external_to_internal[target] \in 1..Len(image)
         /\ RequiredFor(target) \in Seq(BOOLEAN)
         /\ Len(RequiredFor(target)) = frame_external_to_internal[target]
<1>1. frame_external_to_internal[target] \in 1..Len(image) /\ Len(image) \in Nat
  BY ImageFacts DEF TypeOK
<1> DEFINE k == frame_external_to_internal[target]
           deps == GetFrameDependencies(k, frame_saved_as, frame_references)
<1>2. RequiredFor(target) = [i \in 1..k |-> i \in deps]
  BY DEF RequiredFor
<1>3. k \in Nat
  BY <1>1
<1> HIDE DEF k, deps
<1>4. RequiredFor(target) \in Seq(BOOLEAN) /\ Len(RequiredFor(target)) = k
  BY <1>2, <1>3
<1> QED BY <1>1, <1>4 DEF k

LEMMA SkipFramesType ==
  ASSUME TypeOK, NEW amount \in 1..MaxSkip, SkipFrames(amount)
  PROVE  TypeOK'
<1>1. skip_frames' \in 0..MaxSkip
  BY ImagesAssumption DEF SkipFrames, TypeOK
<1> DEFINE target == SkipTarget(skip_frames + amount)
<1>2. target \in Nat \ {0}
  BY ImagesAssumption, ImageFacts DEF SkipTarget, TypeOK
<1>3. \/ frame_required' = <<>>
      \/ target <= Len(frame_external_to_internal) /\ frame_required' = RequiredFor(target)
  BY DEF SkipFrames
<1> HIDE DEF target
<1>4. frame_required' \in Seq(BOOLEAN)
  <2>1. CASE frame_required' = <<>>
    BY <2>1
  <2>2. CASE target <= Len(frame_external_to_internal) /\ frame_required' = RequiredFor(target)
    <3>1. target \in 1..Len(frame_external_to_internal)
      BY <1>2, <2>2 DEF TypeOK
    <3> QED BY <2>2, <3>1, RequiredType
  <2> QED BY <1>3, <2>1, <2>2
<1>5. UNCHANGED <<settings, tables, position, output, skipping_frame, in_call, stage,
                  got_basic_info, events_wanted, frame_stage, image_out_buffer_set>>
  BY DEF SkipFrames
<1> QED BY <1>1, <1>4, <1>5 DEF TypeOK, settings, tables, position, output

\* The steps that read the codestream do not go beyond its last frame.
LEMMA NextFrameExists ==
  ASSUME TypeOK, PositionInv, FrameHeader
  PROVE  internal_frames + 1 \in 1..Len(image)
<1>1. ~is_last_total /\ internal_frames \in 0..Len(image) /\ Len(image) \in Nat \ {0}
  BY ImageFacts DEF FrameHeader, MoreFrames, TypeOK
<1>2. internal_frames # Len(image)
  BY <1>1 DEF PositionInv, IsLast
<1> QED BY <1>1, <1>2

LEMMA FrameHeaderType ==
  ASSUME TypeOK, PositionInv, FrameHeader
  PROVE  TypeOK'
<1> DEFINE i == internal_frames + 1
           e == external_frames + 1
<1>1. /\ i \in 1..Len(image) /\ i \in Nat /\ Len(image) \in Nat
      /\ internal_frames \in Nat /\ external_frames \in 0..internal_frames
  BY NextFrameExists, ImageFacts DEF TypeOK
<1>2. e \in Nat /\ e \in 1..i
  BY <1>1
<1>3. /\ internal_frames' = i /\ external_frames' \in {e, external_frames}
      /\ frame_external_to_internal' = Known(frame_external_to_internal, e, i)
      /\ frame_saved_as' = Known(frame_saved_as, i, SavedAs(i))
      /\ frame_references' = Known(frame_references, i, Slots)
  BY DEF FrameHeader, UnknownReferences
<1> HIDE DEF i, e
<1>4. SavedAs(i) \in SUBSET Slots
  BY <1>1, ImageFacts DEF TypeOK
<1>5. frame_external_to_internal' \in Seq(1..Len(image))
  BY <1>1, <1>2, <1>3, KnownFacts DEF TypeOK
<1>6. /\ frame_saved_as' \in Seq(SUBSET Slots)
      /\ Len(frame_saved_as') = IF i > Len(frame_saved_as) THEN Len(frame_saved_as) + 1
                                                           ELSE Len(frame_saved_as)
  <2> DEFINE T == SUBSET Slots
  <2>1. frame_saved_as \in Seq(T) /\ SavedAs(i) \in T
    BY <1>4 DEF TypeOK
  <2> HIDE DEF T
  <2>2. /\ frame_saved_as' \in Seq(T)
        /\ Len(frame_saved_as') = IF i > Len(frame_saved_as) THEN Len(frame_saved_as) + 1
                                                             ELSE Len(frame_saved_as)
    BY <1>1, <1>3, <2>1, KnownFacts
  <2> QED BY <2>2 DEF T
<1>7. /\ frame_references' \in Seq(SUBSET Slots)
      /\ Len(frame_references') = IF i > Len(frame_references) THEN Len(frame_references) + 1
                                                               ELSE Len(frame_references)
  <2> DEFINE T == SUBSET Slots
  <2>1. frame_references \in Seq(T) /\ Slots \in T
    BY DEF TypeOK
  <2> HIDE DEF T
  <2>2. /\ frame_references' \in Seq(T)
        /\ Len(frame_references') = IF i > Len(frame_references) THEN Len(frame_references) + 1
                                                                 ELSE Len(frame_references)
    BY <1>1, <1>3, <2>1, KnownFacts
  <2> QED BY <2>2 DEF T
<1>8. Len(frame_references') = Len(frame_saved_as') /\ i <= Len(frame_saved_as')
  BY <1>1, <1>6, <1>7 DEF TypeOK, i
<1>9. /\ is_last_total' \in BOOLEAN /\ is_last_of_still' \in BOOLEAN
      /\ skipping_frame' \in BOOLEAN /\ in_call' \in BOOLEAN
      /\ frame_stage' \in {"kHeader", "kTOC", "kFull"}
  BY DEF FrameHeader, IsLast, LastOfStill
<1>10. skip_frames' \in 0..MaxSkip
  BY ImagesAssumption DEF FrameHeader, FramesLeft, TypeOK
<1>11. external_frames' \in 0..internal_frames' /\ internal_frames' \in 0..Len(image)
  BY <1>1, <1>2, <1>3 DEF i, e
<1>12. UNCHANGED <<settings, frame_required, asked, output, stage, got_basic_info,
                   events_wanted, image_out_buffer_set>>
  BY DEF FrameHeader
<1>13. intact' \subseteq 1..internal_frames'
  BY <1>1, <1>3, <1>12 DEF TypeOK, output, i
<1> QED BY <1>3, <1>5, <1>6, <1>7, <1>8, <1>9, <1>10, <1>11, <1>12, <1>13
        DEF TypeOK, settings, output

LEMMA FrameFullType ==
  ASSUME TypeOK, PositionInv, FrameFull
  PROVE  TypeOK'
<1>1. /\ internal_frames \in 1..Len(image) /\ Len(image) \in Nat
      /\ internal_frames <= Len(frame_references)
  <2>1. internal_frames # 0
    BY DEF FrameFull, PositionInv
  <2> QED BY <2>1, ImageFacts DEF TypeOK
<1> DEFINE i == internal_frames
<1>2. References(i) \in SUBSET Slots /\ i \in DOMAIN frame_references
  BY <1>1, ImageFacts DEF TypeOK
<1>3. /\ frame_references' \in Seq(SUBSET Slots)
      /\ Len(frame_references') = Len(frame_references)
  BY <1>1, <1>2 DEF FrameFull, TypeOK
<1>4. reference_frames' \in [Slots -> 0..Len(image)]
  <2>1. reference_frames' = [s \in Slots |-> IF s \in SavedAs(i) THEN i ELSE reference_frames[s]]
    BY DEF FrameFull
  <2> QED BY <1>1, <2>1 DEF TypeOK
<1>5. intact' \subseteq 1..internal_frames
  BY <1>1 DEF FrameFull, TypeOK
<1>6. events_wanted' \subseteq orig_events_wanted
  BY DEF FrameFull, TypeOK
<1>7. shown' \in Seq([frame : 1..Len(image), external : 1..Len(image)])
  <2>1. CASE is_last_of_still
    <3>1. LastOfStill(i)
      BY <1>1, <2>1 DEF PositionInv
    <3>2. external_frames \in 1..Len(image)
      <4>1. i - 1 \in Nat /\ (i - 1) + 1 = i
        BY <1>1
      <4>2. NumStills(i) = NumStills(i - 1) + 1 /\ NumStills(i - 1) \in Nat
        BY <3>1, <4>1, StillStep, StillsFinite
      <4> QED BY <1>1, <4>2 DEF PositionInv, TypeOK
    <3>3. [frame |-> i, external |-> external_frames]
            \in [frame : 1..Len(image), external : 1..Len(image)]
      BY <1>1, <3>2
    <3> DEFINE T == [frame : 1..Len(image), external : 1..Len(image)]
               v == [frame |-> i, external |-> external_frames]
    <3>4. shown \in Seq(T) /\ v \in T
      BY <3>3 DEF TypeOK
    <3>5. shown' \in {Append(shown, v), shown}
      BY DEF FrameFull
    <3> HIDE DEF T, v
    <3>6. shown' \in Seq(T)
      BY <3>4, <3>5
    <3> QED BY <3>6 DEF T
  <2>2. CASE ~is_last_of_still
    BY <2>2 DEF FrameFull, TypeOK
  <2> QED BY <2>1, <2>2
<1>8. /\ frame_stage' = "kHeader" /\ in_call' \in BOOLEAN
      /\ image_out_buffer_set' \in BOOLEAN
      /\ UNCHANGED <<settings, frame_saved_as, frame_external_to_internal, position,
                     skipping, stage, got_basic_info>>
  BY DEF FrameFull
<1> QED BY <1>3, <1>4, <1>5, <1>6, <1>7, <1>8 DEF TypeOK, settings, position, skipping

LEMMA TypeStep ==
  ASSUME TypeOK, PositionInv, [Next]_vars
  PROVE  TypeOK'
<1> USE DEF settings, tables, position, skipping, output
<1>1. CASE Rewind
  <2>1. /\ Decoder0 /\ image' = image /\ orig_events_wanted' \in SUBSET FrameEvents
        /\ coalescing' \in BOOLEAN /\ rewinds' \in 0..MaxRewinds
        /\ UNCHANGED <<tables, frame_required>>
    BY <1>1, ImagesAssumption DEF Rewind, TypeOK
  <2> QED BY <2>1, FreshType
<1>2. CASE Reset
  <2>1. /\ Decoder0 /\ image' = image /\ orig_events_wanted' \in SUBSET FrameEvents
        /\ coalescing' \in BOOLEAN /\ rewinds' \in 0..MaxRewinds
        /\ frame_references' = <<>> /\ frame_saved_as' = <<>>
        /\ frame_external_to_internal' = <<>> /\ frame_required' = <<>>
    BY <1>2, ImagesAssumption DEF Reset, TypeOK
  <2> QED BY <2>1, FreshType
<1>3. CASE \E amount \in 1..MaxSkip : SkipFrames(amount)
  BY <1>3, SkipFramesType
<1>4. CASE FrameHeader
  BY <1>4, FrameHeaderType
<1>5. CASE FrameFull
  BY <1>5, FrameFullType
<1>6. ASSUME NEW events \in Subscriptions, SubscribeEvents(events) PROVE TypeOK'
  <2>1. events \subseteq FrameEvents
    BY DEF Subscriptions, FrameEvents
  <2> QED BY <1>6, <2>1 DEF SubscribeEvents, TypeOK
<1>7. ASSUME NEW b \in BOOLEAN, SetCoalescing(b) PROVE TypeOK'
  BY <1>7 DEF SetCoalescing, TypeOK
<1>8. CASE SetImageOutBuffer
  BY <1>8 DEF SetImageOutBuffer, TypeOK
<1>9. CASE ProcessInput
  BY <1>9 DEF ProcessInput, TypeOK
<1>10. CASE ReadBasicInfo
  BY <1>10 DEF ReadBasicInfo, TypeOK
<1>11. CASE NeedMoreInput
  BY <1>11 DEF NeedMoreInput, TypeOK
<1>12. CASE FrameTOC
  BY <1>12 DEF FrameTOC, TypeOK
<1>13. CASE NeedImageOutBuffer
  BY <1>13 DEF NeedImageOutBuffer, TypeOK
<1>14. CASE FrameProgression
  BY <1>14 DEF FrameProgression, TypeOK
<1>15. CASE CodestreamFinished
  BY <1>15 DEF CodestreamFinished, TypeOK
<1>16. CASE UNCHANGED vars
  BY <1>16 DEF vars, TypeOK
<1> QED BY <1>1, <1>2, <1>3, <1>4, <1>5, <1>6, <1>7, <1>8, <1>9, <1>10, <1>11, <1>12,
           <1>13, <1>14, <1>15, <1>16 DEF Next, Step
-----------------------------------------------------------------------------
(* Steps that decode nothing. *)

LEMMA SlotTypes ==
  ASSUME TypeOK
  PROVE  /\ \A s \in Slots : reference_frames[s] \in 0..Len(image)
         /\ \A s \in Slots : reference_frames[s] \in Nat
         /\ \A k \in DOMAIN shown : shown[k].frame \in Nat
<1>1. Len(image) \in Nat
  BY ImageFacts DEF TypeOK
<1>2. \A s \in Slots : reference_frames[s] \in 0..Len(image)
  BY DEF TypeOK
<1> DEFINE T == [frame : 1..Len(image), external : 1..Len(image)]
<1>3. ASSUME NEW k \in DOMAIN shown PROVE shown[k].frame \in Nat
  <2>1. shown \in Seq(T)
    BY DEF TypeOK
  <2> HIDE DEF T
  <2>2. shown[k] \in T
    BY <2>1
  <2> QED BY <1>1, <2>2 DEF T
<1> QED BY <1>1, <1>2, <1>3

\* The image stays, and with it all that is derived from it.
LEMMA SameImage ==
  ASSUME image' = image
  PROVE  /\ \A i : /\ SavedAs(i)' = SavedAs(i) /\ References(i)' = References(i)
                   /\ IsLast(i)' <=> IsLast(i)
         /\ \A s, i : Stored(s, i)' = Stored(s, i)
<1>1. \A i : IsLast(i)' <=> IsLast(i)
  BY DEF IsLast
<1>2. \A i : CanBeReferenced(i)' <=> CanBeReferenced(i)
  BY DEF CanBeReferenced, IsLast
<1>3. ASSUME NEW i PROVE SavedAs(i)' = SavedAs(i)
  <2>1. CanBeReferenced(i)' <=> CanBeReferenced(i)
    BY <1>2
  <2>2. CanBeReferenced(i) => image[i].type # "kDCFrame"
    BY DEF CanBeReferenced
  <2> QED BY <2>1, <2>2 DEF SavedAs
<1>4. \A i : References(i)' = References(i)
  BY DEF References
<1>5. \A s, i : Stored(s, i)' = Stored(s, i)
  BY <1>3 DEF Stored
<1> QED BY <1>1, <1>3, <1>4, <1>5

LEMMA SameStills ==
  ASSUME image' = image, coalescing' = coalescing
  PROVE  \A i : /\ LastOfStill(i)' <=> LastOfStill(i)
                /\ NumStills(i)' = NumStills(i)
                /\ Still(i)' = Still(i)
                /\ FirstOfStill(i)' <=> FirstOfStill(i)
<1>1. \A i : LastOfStill(i)' <=> LastOfStill(i)
  BY DEF LastOfStill, IsLast
<1>2. \A i : /\ NumStills(i)' = NumStills(i) /\ Still(i)' = Still(i)
             /\ FirstOfStill(i)' <=> FirstOfStill(i)
  BY <1>1 DEF NumStills, Still, FirstOfStill
<1> QED BY <1>1, <1>2

LEMMA SamePosition ==
  ASSUME image' = image, coalescing' = coalescing, internal_frames' = internal_frames
  PROVE  /\ NumStills(internal_frames)' = NumStills(internal_frames)
         /\ IsLast(internal_frames)' <=> IsLast(internal_frames)
         /\ LastOfStill(internal_frames)' <=> LastOfStill(internal_frames)
<1>1. \A i : LastOfStill(i)' <=> LastOfStill(i)
  BY SameStills
<1>2. NumStills(internal_frames)' = NumStills(internal_frames)
  BY <1>1 DEF NumStills
<1> QED BY <1>2 DEF IsLast, LastOfStill

LEMMA SameTables ==
  ASSUME image' = image, coalescing' = coalescing, UNCHANGED tables, TablesTrue
  PROVE  TablesTrue'
BY SameImage, SameStills DEF TablesTrue, tables

LEMMA SameNeed ==
  ASSUME NEW N, image' = image, coalescing' = coalescing,
         UNCHANGED <<internal_frames, external_frames, reference_frames, intact,
                     frame_required, skip_frames, skipping_frame>>,
         Completed' = Completed, frame_stage' # "kHeader" <=> frame_stage # "kHeader"
  PROVE  Needed(N)' <=> Needed(N)
<1>1. /\ \A s, i : Stored(s, i)' = Stored(s, i)
      /\ \A i : References(i)' = References(i) /\ Still(i)' = Still(i)
  BY SameImage, SameStills
<1>2. \A s : Stored(s, Completed)' = Stored(s, Completed)
  <2>1. \A i : SavedAs(i)' = SavedAs(i)
    BY SameImage
  <2> QED BY <2>1 DEF Stored
<1>3. \A i : (i > Completed)' <=> i > Completed
  OBVIOUS
<1>4. ASSUME NEW i PROVE \A s : Stored(s, i - 1)' = Stored(s, i - 1)
  BY <1>1
<1> QED BY <1>1, <1>2, <1>3, <1>4 DEF Needed

\* The invariants but the types.
Rest == PositionInv /\ TablesInv /\ SlotsInv /\ ShownInv /\ NeedInv

LEMMA QuietStep ==
  ASSUME TypeOK, Rest,
         UNCHANGED <<image, coalescing, rewinds, tables, position, skip_frames,
                     skipping_frame, frame_required, output, frame_stage>>,
         (Wants("FULL_IMAGE")' <=> Wants("FULL_IMAGE")) \/ internal_frames = 0,
         stage' = "kInited" => stage = "kInited" /\ ~in_call'
  PROVE  Rest'
<1>1. /\ UNCHANGED <<image, coalescing, rewinds, tables, position, skip_frames,
                     skipping_frame, frame_required, output, frame_stage>>
      /\ UNCHANGED <<internal_frames, external_frames, is_last_of_still, is_last_total,
                     frame_references, frame_saved_as, frame_external_to_internal,
                     reference_frames, intact, shown>>
      /\ Completed' = Completed
  BY DEF tables, position, output, Completed
<1>2. PositionInv'
  BY <1>1, SamePosition DEF Rest, PositionInv, Wants
<1>3. TablesInv'
  <2>1. TablesTrue'
    BY <1>1, SameTables DEF Rest, TablesInv, tables
  <2> QED BY <1>1, <2>1, SamePosition DEF Rest, TablesInv
<1>4. SlotsInv' /\ ShownInv'
  BY <1>1, SameImage DEF Rest, SlotsInv, ShownInv
<1>5. NeedInv'
  <2>1. ASSUME NEW N PROVE Needed(N)' <=> Needed(N)
    BY <1>1, SameNeed
  <2>2. Wants("FULL_IMAGE")' \/ internal_frames' = 0 => Wants("FULL_IMAGE") \/ internal_frames = 0
    BY <1>1
  <2> QED BY <1>1, <2>1, <2>2 DEF Rest, NeedInv
<1> QED BY <1>2, <1>3, <1>4, <1>5 DEF Rest

\* At the start of the codestream all frames can still be decoded.
Fresh ==
  /\ image \in Images /\ internal_frames = 0 /\ frame_stage = "kHeader"
  /\ external_frames = 0 /\ skip_frames \in Nat
  /\ frame_required = <<>> \/ skip_frames = 0

LEMMA FreshNeed == Fresh => NeedInv
<1> SUFFICES ASSUME Fresh PROVE NeedInv
  OBVIOUS
<1> DEFINE N == 1..Len(image)
<1>1. Completed = 0 /\ Len(image) \in Nat /\ N \in SUBSET (1..Len(image))
  BY ImageFacts DEF Fresh, Completed
<1>2. ASSUME NEW i \in N, NEW s PROVE Stored(s, i - 1) \in N \cup {0}
  <2>1. i - 1 \in Nat
    BY <1>1
  <2>2. Stored(s, i - 1) \in 0..i - 1
    BY <2>1, StoredFacts
  <2> QED BY <1>1, <2>1, <2>2
<1>3. \A s : Stored(s, 0) = 0
  BY StoredFacts
<1>4. ASSUME NEW i \in N, i <= Len(frame_required), Still(i) <= external_frames + skip_frames
      PROVE  FALSE
  <2>1. CASE frame_required = <<>>
    BY <1>1, <1>4, <2>1
  <2>2. CASE skip_frames = 0
    <3>1. i \in Nat \ {0} /\ i - 1 \in Nat
      BY <1>1
    <3>2. Still(i) = 1 + NumStills(i - 1) /\ NumStills(i - 1) \in Nat
      BY <3>1, StillStep, StillsFinite
    <3> QED BY <1>4, <2>2, <3>2 DEF Fresh
  <2> QED BY <2>1, <2>2 DEF Fresh
<1>5. Needed(N)
  BY <1>1, <1>2, <1>3, <1>4 DEF Needed, Fresh
<1> HIDE DEF N
<1> QED BY <1>1, <1>5 DEF NeedInv

LEMMA FreshNeedNext == Fresh' => NeedInv'
BY FreshNeed, PTL

LEMMA FreshStep ==
  ASSUME TypeOK, Decoder0, image' = image,
         \/ /\ frame_references' = <<>> /\ frame_saved_as' = <<>>
            /\ frame_external_to_internal' = <<>> /\ frame_required' = <<>>
         \/ UNCHANGED <<coalescing, tables>> /\ rewinds' # 0 /\ TablesTrue
  PROVE  Rest'
<1>1. /\ internal_frames' = 0 /\ external_frames' = 0 /\ frame_stage' = "kHeader"
      /\ ~is_last_total' /\ ~in_call' /\ skip_frames' = 0 /\ shown' = <<>>
      /\ \A s \in Slots : reference_frames'[s] = 0
  BY DEF Decoder0
<1>2. PositionInv'
  <2>1. NumStills(0)' = 0
    <3>1. {j \in 1..0 : LastOfStill(j)'} = {}
      OBVIOUS
    <3> QED BY <3>1, FS_EmptySet DEF NumStills
  <2>2. external_frames' = NumStills(internal_frames)'
    BY <1>1, <2>1 DEF NumStills
  <2> QED BY <1>1, <2>2 DEF PositionInv
<1>3. TablesInv'
  <2>1. CASE /\ frame_references' = <<>> /\ frame_saved_as' = <<>>
             /\ frame_external_to_internal' = <<>> /\ frame_required' = <<>>
    BY <1>1, <2>1 DEF TablesInv, TablesTrue
  <2>2. CASE UNCHANGED <<coalescing, tables>> /\ rewinds' # 0 /\ TablesTrue
    <3>1. TablesTrue'
      BY <2>2, SameImage, SameStills DEF TablesTrue, tables
    <3> QED BY <1>1, <2>2, <3>1 DEF TablesInv, TypeOK, tables
  <2> QED BY <2>1, <2>2
<1>4. SlotsInv' /\ ShownInv'
  BY <1>1 DEF SlotsInv, ShownInv
<1>5. NeedInv'
  <2>1. Fresh'
    BY <1>1 DEF Fresh, TypeOK
  <2> QED BY <2>1, FreshNeedNext
<1> QED BY <1>2, <1>3, <1>4, <1>5 DEF Rest

LEMMA InitRest == Init => Rest
<1> SUFFICES ASSUME Init PROVE Rest
  OBVIOUS
<1>1. /\ internal_frames = 0 /\ external_frames = 0 /\ frame_stage = "kHeader"
      /\ ~is_last_total /\ ~in_call /\ skip_frames = 0 /\ shown = <<>>
      /\ \A s \in Slots : reference_frames[s] = 0
      /\ frame_references = <<>> /\ frame_saved_as = <<>>
      /\ frame_external_to_internal = <<>> /\ frame_required = <<>>
      /\ image \in Images
  BY DEF Init
<1>2. PositionInv
  BY <1>1, StillStep DEF PositionInv
<1>3. TablesInv /\ SlotsInv /\ ShownInv
  BY <1>1 DEF TablesInv, TablesTrue, SlotsInv, ShownInv
<1>4. NeedInv
  BY <1>1, FreshNeed DEF Fresh
<1> QED BY <1>2, <1>3, <1>4 DEF Rest

\* The number of stills depends on coalescing, which is only set before the
\* decoder knows anything of the image.
LEMMA SetCoalescingStep ==
  ASSUME TypeOK, Rest, rewinds = 0, NEW b \in BOOLEAN, SetCoalescing(b)
  PROVE  Rest'
<1>1. /\ internal_frames = 0 /\ ~in_call /\ frame_required = <<>>
      /\ frame_references = <<>> /\ frame_saved_as = <<>>
      /\ frame_external_to_internal = <<>>
      /\ frame_stage = "kHeader" /\ ~is_last_total
  BY DEF Rest, SetCoalescing, PositionInv, TablesInv
<1>2. external_frames = 0
  BY <1>1 DEF TypeOK
<1>3. /\ internal_frames' = 0 /\ ~in_call' /\ frame_required' = <<>>
      /\ frame_references' = <<>> /\ frame_saved_as' = <<>>
      /\ frame_external_to_internal' = <<>> /\ external_frames' = 0
      /\ frame_stage' = "kHeader" /\ ~is_last_total'
      /\ image' = image /\ skip_frames' = skip_frames
      /\ UNCHANGED <<reference_frames, intact, shown>>
  BY <1>1, <1>2 DEF SetCoalescing, position, tables, skipping, output
<1>4. PositionInv'
  <2>1. NumStills(0)' = 0
    <3>1. {j \in 1..0 : LastOfStill(j)'} = {}
      OBVIOUS
    <3> QED BY <3>1, FS_EmptySet DEF NumStills
  <2>2. external_frames' = NumStills(internal_frames)'
    BY <1>3, <2>1 DEF NumStills
  <2> QED BY <1>3, <2>2 DEF PositionInv
<1>5. TablesInv'
  BY <1>3 DEF TablesInv, TablesTrue
<1>6. SlotsInv' /\ ShownInv'
  <2>1. Completed' = Completed
    BY <1>1, <1>3 DEF Completed
  <2> QED BY <1>3, <2>1, SameImage DEF Rest, SlotsInv, ShownInv
<1>7. NeedInv'
  <2>1. Fresh'
    BY <1>3 DEF Fresh, TypeOK
  <2> QED BY <2>1, FreshNeedNext
<1> QED BY <1>4, <1>5, <1>6, <1>7 DEF Rest

\* Stage kTOC: without a need for pixels the frame is over.
LEMMA FrameTOCStep ==
  ASSUME TypeOK, Rest, FrameTOC
  PROVE  Rest'
<1>1. /\ UNCHANGED <<image, coalescing, rewinds, frame_required, skip_frames,
                     skipping_frame, in_call, stage, events_wanted>>
      /\ UNCHANGED <<internal_frames, external_frames, is_last_of_still, is_last_total,
                     frame_references, frame_saved_as, frame_external_to_internal,
                     reference_frames, intact, shown>>
      /\ frame_stage = "kTOC" /\ internal_frames \in Nat \ {0}
      /\ frame_stage' = IF Wants("FULL_IMAGE") THEN "kFull" ELSE "kHeader"
      /\ Wants("FULL_IMAGE")' <=> Wants("FULL_IMAGE")
  <2>1. internal_frames # 0
    BY DEF FrameTOC, Rest, PositionInv
  <2>2. internal_frames \in Nat
    BY ImageFacts DEF TypeOK
  <2> QED BY <2>1, <2>2 DEF FrameTOC, settings, tables, position, skipping, output, Wants
<1>2. PositionInv'
  BY <1>1, SamePosition DEF Rest, PositionInv, Wants
<1>3. TablesInv'
  <2>1. TablesTrue'
    BY <1>1, SameTables DEF Rest, TablesInv, tables
  <2> QED BY <1>1, <2>1, SamePosition DEF Rest, TablesInv
<1>4. /\ Completed = internal_frames - 1 /\ Completed' \in {Completed, Completed + 1}
      /\ Wants("FULL_IMAGE") => Completed' = Completed
  BY <1>1 DEF Completed
<1>5. SlotsInv' /\ ShownInv'
  <2>1. \A n \in Nat : n <= Completed => n <= Completed'
    BY <1>1, <1>4
  <2>2. /\ \A s \in Slots : reference_frames[s] \in Nat
        /\ \A k \in DOMAIN shown : shown[k].frame \in Nat
    BY SlotTypes
  <2> QED BY <1>1, <2>1, <2>2, SameImage DEF Rest, SlotsInv, ShownInv
<1>6. NeedInv'
  <2>1. CASE Wants("FULL_IMAGE")
    <3>1. frame_stage' # "kHeader" /\ frame_stage # "kHeader" /\ Completed' = Completed
      BY <1>1, <1>4, <2>1
    <3>2. ASSUME NEW N PROVE Needed(N)' <=> Needed(N)
      BY <1>1, <3>1, SameNeed
    <3> QED BY <1>1, <2>1, <3>2 DEF Rest, NeedInv
  <2>2. CASE ~Wants("FULL_IMAGE")
    BY <1>1, <2>2 DEF NeedInv
  <2> QED BY <2>1, <2>2
<1> QED BY <1>2, <1>3, <1>5, <1>6 DEF Rest

\* The conditions on a set of needed frames after a step, without primed operators.
LEMMA NeededNext ==
  ASSUME NEW N, image' = image, coalescing' = coalescing, NEW c, c = Completed',
         \A i \in N : i > c => \A s \in References(i) : Stored(s, i - 1) \in N \cup {0},
         \A i \in internal_frames'+1..Len(image) :
           Still(i) > external_frames' + skip_frames' => i \in N,
         \A s \in Slots : Stored(s, c) \in N =>
           reference_frames'[s] = Stored(s, c) /\ Stored(s, c) \in intact',
         \A i \in N : /\ i > internal_frames' /\ i <= Len(frame_required')
                      /\ Still(i) <= external_frames' + skip_frames'
                      => frame_required'[i],
         frame_stage' # "kHeader" /\ ~skipping_frame' => internal_frames' \in N
  PROVE  Needed(N)'
<1>1. /\ \A s, i : Stored(s, i)' = Stored(s, i)
      /\ \A i : References(i)' = References(i) /\ Still(i)' = Still(i)
  BY SameImage, SameStills
<1>2. \A s : Stored(s, Completed)' = Stored(s, c)
  <2>1. \A i : SavedAs(i)' = SavedAs(i)
    BY SameImage
  <2> QED BY <2>1 DEF Stored
<1>3. \A i : (i > Completed)' <=> i > c
  OBVIOUS
<1> QED BY <1>1, <1>2, <1>3 DEF Needed

\* skip_frames grows: what is needed are the frame skipped to, all frames after
\* it, what GetFrameDependencies() says they need, and what the frame that has
\* started needs.
LEMMA SkipFramesStep ==
  ASSUME TypeOK, Rest, NEW amount \in 1..MaxSkip, SkipFrames(amount)
  PROVE  Rest'
<1>1. /\ UNCHANGED <<image, coalescing, rewinds, in_call, stage, events_wanted,
                     skipping_frame, frame_stage, tables>>
      /\ UNCHANGED <<internal_frames, external_frames, is_last_of_still, is_last_total,
                     frame_references, frame_saved_as, frame_external_to_internal,
                     reference_frames, intact, shown>>
      /\ Completed' = Completed
      /\ Wants("FULL_IMAGE")' <=> Wants("FULL_IMAGE")
  BY DEF SkipFrames, settings, tables, position, output, Completed, Wants
<1> DEFINE target == external_frames + skip_frames' + 1
           J == frame_external_to_internal[target]
           known == /\ target <= Len(frame_external_to_internal)
                    /\ J <= Len(frame_saved_as)
<1>2. /\ skip_frames' = skip_frames + amount /\ skip_frames \in Nat
      /\ skip_frames' \in Nat /\ skip_frames' >= skip_frames
      /\ frame_required' = IF known THEN RequiredFor(target) ELSE <<>>
      /\ external_frames \in Nat /\ internal_frames \in 0..Len(image) /\ Len(image) \in Nat
      /\ target \in Nat \ {0}
  <2>1. MaxSkip \in Nat
    BY ImagesAssumption
  <2>2. skip_frames' = skip_frames + amount /\ skip_frames \in Nat
    BY <2>1 DEF SkipFrames, TypeOK
  <2>3. frame_required' = IF known THEN RequiredFor(target) ELSE <<>>
    BY <2>2 DEF SkipFrames, SkipTarget
  <2>4. external_frames \in Nat /\ internal_frames \in 0..Len(image) /\ Len(image) \in Nat
    BY ImageFacts DEF TypeOK
  <2> QED BY <2>1, <2>2, <2>3, <2>4
<1>3. PositionInv'
  BY <1>1, SamePosition DEF Rest, PositionInv
<1>4. TablesInv'
  <2>1. TablesTrue'
    BY <1>1, SameTables DEF Rest, TablesInv
  <2>2. frame_external_to_internal = <<>> => frame_required' = <<>>
    BY <1>2
  <2> QED BY <1>1, <2>1, <2>2, SamePosition DEF Rest, TablesInv
<1>5. SlotsInv' /\ ShownInv'
  BY <1>1, SameImage DEF Rest, SlotsInv, ShownInv
<1>6. ASSUME Wants("FULL_IMAGE") \/ internal_frames = 0
      PROVE  \E M \in SUBSET (1..Len(image)) : Needed(M)'
  <2>1. PICK N \in SUBSET (1..Len(image)) : Needed(N)
    BY <1>6 DEF Rest, NeedInv
  <2> DEFINE c == Completed
  <2>2. /\ \A i \in N : i > c => \A s \in References(i) : Stored(s, i - 1) \in N \cup {0}
        /\ \A i \in internal_frames+1..Len(image) :
             Still(i) > external_frames + skip_frames => i \in N
        /\ \A s \in Slots : Stored(s, c) \in N =>
             reference_frames[s] = Stored(s, c) /\ Stored(s, c) \in intact
        /\ frame_stage # "kHeader" /\ ~skipping_frame => internal_frames \in N
    BY <2>1 DEF Needed
  <2>3. ASSUME NEW i \in 1..Len(image) PROVE Still(i) \in Nat /\ i \in Nat \ {0}
    <3>1. i \in Nat \ {0} /\ i - 1 \in Nat
      BY <1>2
    <3>2. NumStills(i - 1) \in Nat
      BY <3>1, StillsFinite
    <3>3. Still(i) = 1 + NumStills(i - 1)
      BY <3>1, StillStep
    <3> QED BY <3>1, <3>2, <3>3
  <2>4. \A i \in internal_frames+1..Len(image) :
             Still(i) > external_frames + skip_frames' => i \in N
    <3> SUFFICES ASSUME NEW i \in internal_frames+1..Len(image),
                        Still(i) > external_frames + skip_frames'
                 PROVE  i \in N
      OBVIOUS
    <3>1. i \in 1..Len(image)
      BY <1>2
    <3>2. Still(i) > external_frames + skip_frames
      BY <1>2, <2>3, <3>1
    <3> QED BY <2>2, <3>2
  <2> HIDE DEF c, target, J
  <2>5. CASE ~known
    <3>1. frame_required' = <<>>
      BY <1>2, <2>5
    <3>2. \A i \in N : ~(i <= Len(frame_required'))
      BY <1>2, <3>1
    <3>3. Needed(N)'
      BY <1>1, <2>2, <2>4, <3>2, NeededNext DEF c
    <3> QED BY <3>3
  <2>6. CASE known
    <3> DEFINE deps == GetFrameDependencies(J, frame_saved_as, frame_references)
               D == {J} \cup deps
    <3>1. J \in 1..Len(image) /\ target \in DOMAIN frame_external_to_internal
      BY <1>2, <2>6 DEF TypeOK, J
    <3>2. FirstOfStill(J) /\ Still(J) = target
      BY <3>1 DEF Rest, TablesInv, TablesTrue, J
    <3>3. J <= Len(frame_saved_as) /\ TablesTrue
      BY <2>6 DEF Rest, TablesInv
    <3>4. /\ D \subseteq 1..J
          /\ \A s \in Slots : Stored(s, J) \in D \cup {0}
          /\ \A i \in D : \A s \in References(i) : Stored(s, i - 1) \in D \cup {0}
      BY <3>1, <3>3, RequiredFrames DEF TypeOK
    <3>5. frame_required' = [i \in 1..J |-> i \in deps]
      BY <1>2, <2>6 DEF RequiredFor, J
    <3>6. J \in Nat \ {0} /\ Len(frame_required') = J /\ \A i \in 1..J : frame_required'[i] <=> i \in deps
      <4>1. J \in Nat \ {0}
        BY <1>2, <3>1
      <4> HIDE DEF deps
      <4>2. Len(frame_required') = J
        BY <3>5, <4>1
      <4> QED BY <3>5, <4>1, <4>2
    <3> HIDE DEF deps
    <3>d. \A i \in D : i = J \/ i \in deps
      OBVIOUS
    <3> HIDE DEF D
    <3> DEFINE F == IF frame_stage = "kHeader" THEN {}
                    ELSE {internal_frames} \cup
                         {Stored(s, internal_frames - 1) : s \in References(internal_frames)}
               M == {i \in N : i \in D \/ i >= J \/ i \in F}
    <3>7. \A i \in F : i <= internal_frames /\ (i > c => i = internal_frames)
      <4>1. CASE frame_stage = "kHeader"
        BY <4>1
      <4>2. CASE frame_stage # "kHeader"
        <5>1. internal_frames \in Nat \ {0} /\ internal_frames - 1 \in Nat
          BY <1>2, <4>2 DEF Rest, PositionInv
        <5>2. c = internal_frames - 1
          BY <4>2 DEF c, Completed
        <5>3. \A s : Stored(s, internal_frames - 1) \in 0..internal_frames - 1
          BY <5>1, StoredFacts
        <5>4. \A s : /\ Stored(s, internal_frames - 1) <= internal_frames
                     /\ ~(Stored(s, internal_frames - 1) > c)
          BY <5>1, <5>2, <5>3
        <5>5. internal_frames <= internal_frames
          BY <5>1
        <5> QED BY <5>4, <5>5
      <4> QED BY <4>1, <4>2
    <3>8. ASSUME NEW i \in M, i > c, NEW s \in References(i)
          PROVE  Stored(s, i - 1) \in M \cup {0}
      <4> DEFINE x == Stored(s, i - 1)
      <4>1. i \in N /\ i \in 1..Len(image) /\ i \in Nat \ {0} /\ s \in Slots
        BY <1>2, ImageFacts DEF TypeOK
      <4>2. x \in N \cup {0} /\ x \in 0..i - 1
        <5>1. i - 1 \in Nat
          BY <4>1
        <5> QED BY <2>2, <3>8, <4>1, <5>1, StoredFacts
      <4> SUFFICES ASSUME x # 0 PROVE x \in D \/ x >= J \/ x \in F
        BY <4>2
      <4>3. CASE i \in D
        BY <3>4, <3>8, <4>3
      <4>4. CASE i >= J /\ i # J
        <5>1. J <= i - 1 /\ i - 1 \in Nat
          BY <3>6, <4>1, <4>4
        <5>2. x <= J => x = Stored(s, J)
          BY <3>6, <5>1, StoredBetween
        <5>3. x \in Nat
          BY <4>1, <4>2
        <5> QED BY <3>4, <3>6, <4>1, <5>2, <5>3
      <4>5. CASE i \in F
        <5>1. i = internal_frames /\ frame_stage # "kHeader"
          BY <3>7, <3>8, <4>5
        <5> QED BY <5>1
      <4>6. J \in D
        BY DEF D
      <4> QED BY <4>3, <4>4, <4>5, <4>6
    <3>9. ASSUME NEW i \in internal_frames+1..Len(image), Still(i) > external_frames + skip_frames'
          PROVE  i \in M
      <4>1. i \in N /\ i \in 1..Len(image) /\ i \in Nat \ {0}
        BY <1>2, <2>4, <3>9
      <4>2. Still(i) >= Still(J)
        BY <1>2, <2>3, <3>2, <3>9, <4>1 DEF target
      <4>3. i >= J
        BY <3>2, <3>6, <4>1, <4>2, FirstComesFirst
      <4> QED BY <4>1, <4>3
    <3>10. ASSUME NEW i \in M, i > internal_frames, i <= Len(frame_required'),
                  Still(i) <= external_frames + skip_frames'
           PROVE  frame_required'[i]
      <4>1. i \in 1..Len(image) /\ i \in Nat \ {0} /\ Still(i) \in Nat
        BY <1>2, <2>3
      <4>2. i # J
        BY <1>2, <3>2, <3>10, <4>1 DEF target
      <4>3. i <= J /\ i \in 1..J
        BY <3>6, <3>10, <4>1
      <4>4. i \notin F
        <5>1. internal_frames \in Nat /\ ~(i <= internal_frames)
          BY <1>2, <3>10, <4>1
        <5> HIDE DEF F
        <5> QED BY <3>7, <5>1
      <4>5. i \in D
        BY <3>6, <4>1, <4>2, <4>3, <4>4
      <4> QED BY <3>6, <3>d, <4>2, <4>3, <4>5
    <3>11. frame_stage # "kHeader" /\ ~skipping_frame => internal_frames \in M
      BY <2>2
    <3>12. M \subseteq N
      OBVIOUS
    <3> HIDE DEF M, F
    <3>13. PICK K \in SUBSET (1..Len(image)) : K = M
      BY <3>12
    <3>14. \A s \in Slots : Stored(s, c) \in K =>
             reference_frames'[s] = Stored(s, c) /\ Stored(s, c) \in intact'
      BY <1>1, <2>2, <3>12, <3>13
    <3>15. /\ \A i \in internal_frames'+1..Len(image) :
                Still(i) > external_frames' + skip_frames' => i \in K
           /\ \A i \in K : /\ i > internal_frames' /\ i <= Len(frame_required')
                           /\ Still(i) <= external_frames' + skip_frames'
                           => frame_required'[i]
           /\ frame_stage' # "kHeader" /\ ~skipping_frame' => internal_frames' \in K
      BY <1>1, <3>9, <3>10, <3>11, <3>13
    <3>16. c = Completed' /\ image' = image /\ coalescing' = coalescing
      BY <1>1 DEF c
    <3>17. \A i \in K : i > c => \A s \in References(i) : Stored(s, i - 1) \in K \cup {0}
      BY <3>8, <3>13
    <3>18. Needed(K)'
      BY <3>14, <3>15, <3>16, <3>17, NeededNext
    <3> QED BY <3>18
  <2> QED BY <2>5, <2>6
<1>7. NeedInv'
  BY <1>1, <1>6 DEF NeedInv
<1> QED BY <1>3, <1>4, <1>5, <1>7 DEF Rest
-----------------------------------------------------------------------------
(* Stage kHeader. *)

LEMMA NextPosition ==
  ASSUME image' = image, coalescing' = coalescing, NEW i, internal_frames' = i
  PROVE  /\ NumStills(internal_frames)' = NumStills(i)
         /\ IsLast(internal_frames)' <=> IsLast(i)
         /\ LastOfStill(internal_frames)' <=> LastOfStill(i)
<1>1. \A j : LastOfStill(j)' <=> LastOfStill(j)
  BY SameStills
<1>2. NumStills(internal_frames)' = NumStills(i)
  BY <1>1 DEF NumStills
<1> QED BY <1>2 DEF IsLast, LastOfStill

\* What the header of frame i changes.
LEMMA FrameHeaderFacts ==
  ASSUME TypeOK, Rest, FrameHeader, NEW i, i = internal_frames + 1
  PROVE  /\ i \in 1..Len(image) /\ Len(image) \in Nat /\ i \in Nat \ {0}
         /\ internal_frames \in Nat /\ internal_frames = i - 1 /\ external_frames \in Nat
         /\ Completed = i - 1 /\ frame_stage = "kHeader" /\ stage # "kInited"
         /\ internal_frames' = i /\ image' = image /\ coalescing' = coalescing
         /\ Still(i) = external_frames + 1 /\ external_frames = NumStills(i - 1)
         /\ external_frames' = NumStills(i)
         /\ external_frames' = IF LastOfStill(i) THEN external_frames + 1 ELSE external_frames
         /\ skip_frames \in Nat
         /\ skip_frames > 0 =>
              external_frames' + skip_frames' = external_frames + skip_frames
         /\ skip_frames = 0 => skip_frames' = 0
         /\ skipping_frame' <=> skip_frames > 0
         /\ (frame_stage' = "kTOC" /\ Completed' = i - 1)
            \/ (/\ frame_stage' = "kHeader" /\ Completed' = i
                /\ skip_frames > 0 /\ ~Referenceable(i))
<1>1. i \in 1..Len(image) /\ Len(image) \in Nat
  BY NextFrameExists, ImageFacts DEF Rest, TypeOK
<1>2. /\ internal_frames \in Nat /\ internal_frames = i - 1 /\ external_frames \in Nat
      /\ i \in Nat \ {0} /\ skip_frames \in Nat
  <2>1. /\ internal_frames \in 0..Len(image) /\ external_frames \in 0..internal_frames
        /\ skip_frames \in 0..MaxSkip /\ MaxSkip \in Nat
    BY ImagesAssumption DEF TypeOK
  <2> QED BY <1>1, <2>1
<1>3. /\ frame_stage = "kHeader" /\ in_call /\ internal_frames' = i
      /\ image' = image /\ coalescing' = coalescing
  BY DEF FrameHeader, settings
<1>4. stage # "kInited" /\ external_frames = NumStills(i - 1)
  BY <1>2, <1>3 DEF Rest, PositionInv
<1>5. Still(i) = external_frames + 1
  <2>1. Still(i) = 1 + NumStills(i - 1)
    BY <1>2, StillStep
  <2> QED BY <1>2, <1>4, <2>1
<1>6. external_frames' = IF LastOfStill(i) THEN external_frames + 1 ELSE external_frames
  BY DEF FrameHeader
<1>7. external_frames' = NumStills(i)
  <2>1. (i - 1) + 1 = i /\ i - 1 \in Nat
    BY <1>2
  <2>2. NumStills(i) = IF LastOfStill(i) THEN NumStills(i - 1) + 1 ELSE NumStills(i - 1)
    BY <2>1, StillStep
  <2> QED BY <1>4, <1>6, <2>2
<1>8. /\ skip_frames' = IF skip_frames > 0 THEN FramesLeft(LastOfStill(i)) ELSE 0
      /\ skipping_frame' = (skip_frames > 0)
      /\ frame_stage' = IF skip_frames > 0 /\ ~Referenceable(i) THEN "kHeader" ELSE "kTOC"
  BY DEF FrameHeader
<1>9. skip_frames > 0 => external_frames' + skip_frames' = external_frames + skip_frames
  BY <1>2, <1>6, <1>8 DEF FramesLeft
<1>10. /\ skip_frames = 0 => skip_frames' = 0
       /\ skipping_frame' <=> skip_frames > 0
  <2>1. skipping_frame' <=> skip_frames > 0
    BY <1>8
  <2>2. skip_frames = 0 => ~(skip_frames > 0)
    OBVIOUS
  <2> QED BY <1>8, <2>1, <2>2
<1>11. Completed = i - 1
  BY <1>2, <1>3 DEF Completed
<1>12. \/ frame_stage' = "kTOC" /\ Completed' = i - 1
       \/ /\ frame_stage' = "kHeader" /\ Completed' = i
          /\ skip_frames > 0 /\ ~Referenceable(i)
  <2>1. CASE skip_frames > 0 /\ ~Referenceable(i)
    BY <1>3, <1>8, <2>1 DEF Completed
  <2>2. CASE ~(skip_frames > 0 /\ ~Referenceable(i))
    BY <1>3, <1>8, <2>2 DEF Completed
  <2> QED BY <2>1, <2>2
<1> QED BY <1>1, <1>2, <1>3, <1>4, <1>5, <1>6, <1>7, <1>9, <1>10, <1>11, <1>12

LEMMA FrameHeaderTables ==
  ASSUME TypeOK, Rest, FrameHeader
  PROVE  PositionInv' /\ TablesInv'
<1>1. PICK i : i = internal_frames + 1
  OBVIOUS
<1>2. /\ i \in 1..Len(image) /\ Len(image) \in Nat /\ i \in Nat \ {0}
      /\ internal_frames \in Nat /\ internal_frames = i - 1 /\ external_frames \in Nat
      /\ stage # "kInited" /\ internal_frames' = i /\ image' = image /\ coalescing' = coalescing
      /\ Still(i) = external_frames + 1 /\ external_frames' = NumStills(i)
      /\ external_frames' = IF LastOfStill(i) THEN external_frames + 1 ELSE external_frames
      /\ frame_stage' \in {"kHeader", "kTOC"}
  BY <1>1, FrameHeaderFacts
<1>3. /\ NumStills(internal_frames)' = NumStills(i)
      /\ IsLast(internal_frames)' <=> IsLast(i)
      /\ LastOfStill(internal_frames)' <=> LastOfStill(i)
  BY <1>2, NextPosition
<1>4. /\ is_last_total' = IsLast(i) /\ is_last_of_still' = LastOfStill(i) /\ stage' = stage
      /\ frame_external_to_internal' = Known(frame_external_to_internal, external_frames + 1, i)
      /\ frame_saved_as' = Known(frame_saved_as, i, SavedAs(i))
      /\ frame_references' = Known(frame_references, i, Slots)
  BY <1>1 DEF FrameHeader, UnknownReferences
<1>5. PositionInv'
  <2>1. internal_frames' # 0 /\ stage' # "kInited" /\ frame_stage' # "kFull"
    BY <1>2, <1>4
  <2>2. external_frames' = NumStills(internal_frames)'
    BY <1>2, <1>3
  <2>3. /\ is_last_total' <=> IsLast(internal_frames)'
        /\ is_last_of_still' <=> LastOfStill(internal_frames)'
    BY <1>3, <1>4
  <2> QED BY <2>1, <2>2, <2>3 DEF PositionInv
<1> DEFINE m == Len(frame_saved_as)
           l == Len(frame_external_to_internal)
<1>6. /\ m \in Nat /\ Len(frame_references) = m /\ m >= i - 1
      /\ l \in Nat /\ l >= external_frames
      /\ frame_saved_as \in Seq(SUBSET Slots) /\ frame_references \in Seq(SUBSET Slots)
      /\ frame_external_to_internal \in Seq(1..Len(image))
      /\ SavedAs(i) \in SUBSET Slots
  BY <1>2, ImageFacts DEF Rest, TypeOK, TablesInv
<1>7. /\ Len(frame_references') = IF i > m THEN m + 1 ELSE m
      /\ \A j \in 1..m : frame_references'[j] = frame_references[j]
      /\ i > m => frame_references'[m + 1] = Slots
      /\ frame_references' \in Seq(SUBSET Slots)
  <2> DEFINE T == SUBSET Slots
  <2>1. frame_references \in Seq(T) /\ Slots \in T /\ i \in Nat
    BY <1>2, <1>6
  <2> HIDE DEF T
  <2> DEFINE n == Len(frame_references)
  <2>2. /\ Len(frame_references') = IF i > n THEN n + 1 ELSE n
        /\ \A j \in 1..n : frame_references'[j] = frame_references[j]
        /\ i > n => frame_references'[n + 1] = Slots
        /\ frame_references' \in Seq(T)
    BY <1>4, <2>1, KnownFacts
  <2>3. n = m
    BY <1>6
  <2> QED BY <2>2, <2>3 DEF T
<1>8. /\ Len(frame_saved_as') = IF i > m THEN m + 1 ELSE m
      /\ \A j \in 1..m : frame_saved_as'[j] = frame_saved_as[j]
      /\ i > m => frame_saved_as'[m + 1] = SavedAs(i)
  <2> DEFINE T == SUBSET Slots
  <2>1. frame_saved_as \in Seq(T) /\ SavedAs(i) \in T /\ i \in Nat
    BY <1>2, <1>6
  <2> HIDE DEF T
  <2> QED BY <1>4, <2>1, KnownFacts
<1>9. /\ Len(frame_external_to_internal') = IF external_frames + 1 > l THEN l + 1 ELSE l
      /\ \A j \in 1..l : frame_external_to_internal'[j] = frame_external_to_internal[j]
      /\ external_frames + 1 > l => frame_external_to_internal'[l + 1] = i
      /\ frame_external_to_internal' \in Seq(1..Len(image))
  <2> DEFINE T == 1..Len(image)
  <2>1. frame_external_to_internal \in Seq(T) /\ i \in T /\ external_frames + 1 \in Nat
    BY <1>2, <1>6
  <2> HIDE DEF T
  <2>2. /\ Len(frame_external_to_internal') = IF external_frames + 1 > l THEN l + 1 ELSE l
        /\ \A j \in 1..l : frame_external_to_internal'[j] = frame_external_to_internal[j]
        /\ external_frames + 1 > l => frame_external_to_internal'[l + 1] = i
        /\ frame_external_to_internal' \in Seq(T)
    BY <1>4, <2>1, KnownFacts
  <2> QED BY <2>2 DEF T
<1> HIDE DEF m, l
<1>10. ASSUME NEW j \in DOMAIN frame_references'
       PROVE  /\ frame_saved_as'[j] = SavedAs(j)
              /\ frame_references'[j] \in {References(j), Slots}
  <2>1. j \in 1..m \/ (i > m /\ j = m + 1)
    BY <1>6, <1>7
  <2>2. CASE j \in 1..m
    <3>1. j \in DOMAIN frame_references
      BY <1>6, <2>2
    <3> QED BY <1>7, <1>8, <2>2, <3>1 DEF Rest, TablesInv, TablesTrue
  <2>3. CASE i > m /\ j = m + 1
    <3>1. j = i
      BY <1>2, <1>6, <2>3
    <3> QED BY <1>7, <1>8, <2>3, <3>1
  <2> QED BY <2>1, <2>2, <2>3
<1>11. ASSUME NEW e \in DOMAIN frame_external_to_internal',
              NEW j, j = frame_external_to_internal'[e]
       PROVE  FirstOfStill(j) /\ Still(j) = e
  <2>1. e \in 1..l \/ (external_frames + 1 > l /\ e = l + 1)
    BY <1>2, <1>6, <1>9
  <2>2. CASE e \in 1..l
    <3>1. e \in DOMAIN frame_external_to_internal /\ j = frame_external_to_internal[e]
      BY <1>6, <1>9, <1>11, <2>2 DEF l
    <3> QED BY <3>1 DEF Rest, TablesInv, TablesTrue
  <2>3. CASE external_frames + 1 > l /\ e = l + 1
    <3>1. e = external_frames + 1 /\ j = i /\ ~(l > external_frames)
      BY <1>2, <1>6, <1>9, <1>11, <2>3
    <3>2. internal_frames = 0 \/ LastOfStill(internal_frames)
      BY <1>2, <3>1 DEF Rest, TablesInv, l
    <3>3. FirstOfStill(i)
      BY <1>1, <1>2, <3>2 DEF FirstOfStill
    <3> QED BY <1>2, <3>1, <3>3
  <2> QED BY <2>1, <2>2, <2>3
<1>12. TablesTrue'
  BY <1>2, <1>10, <1>11, SameImage, SameStills DEF TablesTrue
<1>13. Len(frame_external_to_internal') >= external_frames + 1
  BY <1>2, <1>6, <1>9
<1>14. /\ Len(frame_external_to_internal') >= external_frames'
       /\ ~LastOfStill(i) => Len(frame_external_to_internal') > external_frames'
  BY <1>2, <1>6, <1>9, <1>13
<1>15. TablesInv'
  BY <1>2, <1>3, <1>4, <1>12, <1>14 DEF TablesInv
<1> QED BY <1>5, <1>15

\* A frame that is skipped over is in no slot or not needed.
LEMMA SkippedOver ==
  ASSUME TypeOK, Rest, FrameHeader, NEW i, i = internal_frames + 1, NEW N, Needed(N),
         frame_stage' = "kHeader", NEW s \in SavedAs(i)
  PROVE  i \notin N
<1>1. /\ skip_frames > 0 /\ ~Referenceable(i) /\ Still(i) = external_frames + 1
      /\ external_frames \in Nat /\ skip_frames \in Nat /\ internal_frames \in Nat
      /\ i \in Nat \ {0}
  BY FrameHeaderFacts
<1>2. CanBeReferenced(i) \/ image[i].type = "kDCFrame"
  BY NotSaved
<1>3. i <= Len(frame_required) /\ ~frame_required[i]
  BY <1>1, <1>2 DEF Referenceable
<1>4. i > internal_frames /\ Still(i) <= external_frames + skip_frames
  BY <1>1
<1> QED BY <1>3, <1>4 DEF Needed

LEMMA FrameHeaderNeed ==
  ASSUME TypeOK, Rest, FrameHeader, NEW N \in SUBSET (1..Len(image)), Needed(N)
  PROVE  Needed(N)'
<1>1. PICK i : i = internal_frames + 1
  OBVIOUS
<1>2. /\ i \in 1..Len(image) /\ Len(image) \in Nat /\ i \in Nat \ {0}
      /\ internal_frames \in Nat /\ internal_frames = i - 1 /\ external_frames \in Nat
      /\ Completed = i - 1
      /\ internal_frames' = i /\ image' = image /\ coalescing' = coalescing
      /\ Still(i) = external_frames + 1
      /\ external_frames' = NumStills(i)
      /\ external_frames' = IF LastOfStill(i) THEN external_frames + 1 ELSE external_frames
      /\ skip_frames \in Nat
      /\ skip_frames > 0 => external_frames' + skip_frames' = external_frames + skip_frames
      /\ skip_frames = 0 => skip_frames' = 0
      /\ skipping_frame' <=> skip_frames > 0
      /\ \/ frame_stage' = "kTOC" /\ Completed' = i - 1
         \/ frame_stage' = "kHeader" /\ Completed' = i
  BY <1>1, FrameHeaderFacts
<1>3. /\ reference_frames' = reference_frames /\ intact' = intact
      /\ frame_required' = frame_required
  BY DEF FrameHeader, output
<1>4. /\ \A j \in N : j > i - 1 => \A s \in References(j) : Stored(s, j - 1) \in N \cup {0}
      /\ \A j \in i..Len(image) : Still(j) > external_frames + skip_frames => j \in N
      /\ \A s \in Slots : Stored(s, i - 1) \in N =>
           reference_frames[s] = Stored(s, i - 1) /\ Stored(s, i - 1) \in intact
      /\ \A j \in N : /\ j > i - 1 /\ j <= Len(frame_required)
                      /\ Still(j) <= external_frames + skip_frames
                      => frame_required[j]
  BY <1>1, <1>2 DEF Needed
<1>5. \A j \in 1..Len(image) :
        j \in Nat \ {0} /\ Still(j) = 1 + NumStills(j - 1) /\ NumStills(j - 1) \in Nat
  <2> SUFFICES ASSUME NEW j \in 1..Len(image)
               PROVE  j \in Nat \ {0} /\ Still(j) = 1 + NumStills(j - 1) /\ NumStills(j - 1) \in Nat
    OBVIOUS
  <2>1. j \in Nat \ {0} /\ j - 1 \in Nat
    BY <1>2
  <2>2. NumStills(j - 1) \in Nat
    BY <2>1, StillsFinite
  <2>3. Still(j) = 1 + NumStills(j - 1)
    BY <2>1, StillStep
  <2> QED BY <2>1, <2>2, <2>3
<1>6. external_frames' \in Nat /\ external_frames' >= external_frames
  BY <1>2
<1>7. external_frames + skip_frames <= external_frames' + skip_frames'
  BY <1>2, <1>6
<1> DEFINE c == Completed'
<1>8. c \in {i - 1, i}
  BY <1>2
<1>9. ASSUME NEW j \in N, j > c PROVE \A s \in References(j) : Stored(s, j - 1) \in N \cup {0}
  <2>1. j > i - 1
    BY <1>2, <1>8, <1>9
  <2> QED BY <1>4, <2>1
<1>10. ASSUME NEW j \in internal_frames'+1..Len(image), Still(j) > external_frames' + skip_frames'
       PROVE  j \in N
  <2>1. j \in i..Len(image) /\ j \in 1..Len(image)
    BY <1>2
  <2>2. skip_frames' \in Int
    BY <1>2, FrameHeaderType, ImagesAssumption DEF Rest, TypeOK
  <2> DEFINE a == external_frames + skip_frames
             b == external_frames' + skip_frames'
  <2>3. a \in Int /\ b \in Int
    <3>1. external_frames \in Int /\ skip_frames \in Int /\ external_frames' \in Int
      BY <1>2, <1>6
    <3> QED BY <2>2, <3>1
  <2>4. a <= b /\ Still(j) > b
    BY <1>7, <1>10
  <2>5. Still(j) \in Int
    BY <1>5, <2>1
  <2> HIDE DEF a, b
  <2>6. Still(j) > a
    BY <2>3, <2>4, <2>5
  <2>7. Still(j) > external_frames + skip_frames
    BY <2>6 DEF a
  <2> QED BY <1>4, <2>1, <2>7
<1>11. ASSUME NEW s \in Slots, Stored(s, c) \in N
       PROVE  reference_frames'[s] = Stored(s, c) /\ Stored(s, c) \in intact'
  <2>1. CASE c = i - 1
    BY <1>3, <1>4, <1>11, <2>1
  <2>2. CASE c = i /\ c # i - 1
    <3>1. frame_stage' = "kHeader"
      BY <1>2, <2>2
    <3>2. Stored(s, i) = IF s \in SavedAs(i) THEN i ELSE Stored(s, i - 1)
      BY <1>2, StoredStep
    <3>3. s \in SavedAs(i) => i \notin N
      BY <1>1, <3>1, SkippedOver
    <3>4. Stored(s, c) = Stored(s, i - 1)
      BY <1>11, <2>2, <3>2, <3>3
    <3> QED BY <1>3, <1>4, <1>11, <3>4
  <2> QED BY <1>8, <2>1, <2>2
<1>12. ASSUME NEW j \in N, j > internal_frames', j <= Len(frame_required'),
              Still(j) <= external_frames' + skip_frames'
       PROVE  frame_required'[j]
  <2>1. j \in 1..Len(image) /\ j > i /\ j \in Nat \ {0} /\ j > i - 1
    BY <1>2, <1>12
  <2>2. CASE skip_frames > 0
    <3>1. Still(j) <= external_frames + skip_frames
      BY <1>2, <1>12, <2>2
    <3> QED BY <1>3, <1>4, <1>12, <2>1, <3>1
  <2>3. CASE ~(skip_frames > 0)
    <3>1. skip_frames' = 0
      BY <1>2, <2>3
    <3>2. i <= j - 1 /\ j - 1 \in Nat /\ i \in Nat
      BY <1>2, <2>1
    <3>3. NumStills(i) <= NumStills(j - 1) /\ NumStills(i) \in Nat
      BY <3>2, StillOrder
    <3>4. FALSE
      BY <1>2, <1>5, <1>12, <2>1, <3>1, <3>3
    <3> QED BY <3>4
  <2> QED BY <2>2, <2>3
<1>13. ASSUME frame_stage' # "kHeader", ~skipping_frame' PROVE internal_frames' \in N
  <2>1. skip_frames = 0
    BY <1>2, <1>13
  <2>2. i \in i..Len(image) /\ Still(i) > external_frames + skip_frames
    BY <1>2, <2>1
  <2> QED BY <1>2, <1>4, <2>2
<1> HIDE DEF c
<1>14. c = Completed'
  BY DEF c
<1> QED BY <1>2, <1>9, <1>10, <1>11, <1>12, <1>13, <1>14, NeededNext

LEMMA FrameHeaderStep ==
  ASSUME TypeOK, Rest, FrameHeader
  PROVE  Rest'
<1>1. PositionInv' /\ TablesInv'
  BY FrameHeaderTables
<1>2. /\ image' = image /\ Completed \in Nat /\ Completed' \in {Completed, Completed + 1}
      /\ internal_frames' # 0
  <2>1. PICK i : i = internal_frames + 1
    OBVIOUS
  <2> QED BY <2>1, FrameHeaderFacts
<1>3. /\ UNCHANGED <<reference_frames, intact, shown>>
      /\ Wants("FULL_IMAGE")' <=> Wants("FULL_IMAGE")
  BY DEF FrameHeader, output, Wants
<1>4. \A n \in Nat : n <= Completed => n <= Completed'
  BY <1>2
<1>5. SlotsInv' /\ ShownInv'
  BY <1>2, <1>3, <1>4, SlotTypes, SameImage DEF Rest, SlotsInv, ShownInv
<1>6. ASSUME Wants("FULL_IMAGE")
      PROVE  \E N \in SUBSET (1..Len(image)) : Needed(N)'
  <2>1. PICK N \in SUBSET (1..Len(image)) : Needed(N)
    BY <1>6 DEF Rest, NeedInv
  <2>2. Needed(N)'
    BY <2>1, FrameHeaderNeed
  <2> QED BY <2>2
<1>7. NeedInv'
  BY <1>2, <1>3, <1>6 DEF NeedInv
<1> QED BY <1>1, <1>5, <1>7 DEF Rest
-----------------------------------------------------------------------------
(* Stage kFull. *)

\* A frame that is needed is decoded from the right slots.
LEMMA NeededReadsRight ==
  ASSUME TypeOK, SlotsInv, NEW N, Needed(N), NEW i \in N, i \in 1..Len(image),
         Completed = i - 1, NEW s \in SlotsRead(i)
  PROVE  RightContent(i, s)
<1>1. /\ s \in References(i) /\ s \in Slots /\ i \in Nat \ {0} /\ i - 1 \in Nat
      /\ i > Completed
  <2>1. Len(image) \in Nat /\ SlotsRead(i) \subseteq References(i) /\ References(i) \subseteq Slots
    BY ImageFacts DEF TypeOK
  <2> QED BY <2>1
<1> DEFINE j == Stored(s, i - 1)
<1>2. RightContent(i, s) <=> reference_frames[s] = j /\ (j = 0 \/ j \in intact)
  BY DEF RightContent, Stored
<1>3. j \in N \cup {0}
  BY <1>1 DEF Needed
<1>4. CASE j \in N
  <2>1. Stored(s, Completed) \in N /\ Stored(s, Completed) = j
    BY <1>4
  <2>2. reference_frames[s] = j /\ j \in intact
    BY <1>1, <2>1 DEF Needed
  <2> QED BY <1>2, <2>2
<1>5. CASE j = 0
  <2>1. \A k \in 1..i - 1 : s \in SavedAs(k) => k <= 0
    BY <1>1, <1>5, StoredFacts
  <2>2. reference_frames[s] \in Nat
    BY <1>1, SlotTypes
  <2>3. reference_frames[s] # 0 => FALSE
    BY <1>1, <2>1, <2>2 DEF SlotsInv
  <2> QED BY <1>2, <1>5, <2>3
<1> QED BY <1>3, <1>4, <1>5

LEMMA FrameFullStep ==
  ASSUME TypeOK, Rest, FrameFull
  PROVE  Rest'
<1>1. PICK i : i = internal_frames
  OBVIOUS
<1>2. /\ UNCHANGED <<image, coalescing, rewinds, stage, skip_frames, skipping_frame,
                     frame_required, frame_saved_as, frame_external_to_internal>>
      /\ UNCHANGED <<internal_frames, external_frames, is_last_of_still, is_last_total>>
      /\ frame_stage = "kFull" /\ frame_stage' = "kHeader" /\ in_call
      /\ frame_references' = [frame_references EXCEPT ![i] = References(i)]
      /\ reference_frames' =
           [s \in Slots |-> IF s \in SavedAs(i) THEN i ELSE reference_frames[s]]
      /\ intact' = IF \A s \in SlotsRead(i) : RightContent(i, s)
                   THEN intact \cup {i} ELSE intact \ {i}
      /\ \/ shown' = shown
         \/ /\ ~skipping_frame
            /\ shown' = Append(shown, [frame |-> i, external |-> external_frames])
  BY <1>1 DEF FrameFull, settings, position, skipping
<1>3. /\ i \in 1..Len(image) /\ Len(image) \in Nat /\ i \in Nat \ {0} /\ i - 1 \in Nat
      /\ Completed = i - 1 /\ Completed' = i /\ stage # "kInited" /\ Wants("FULL_IMAGE")
  <2>1. i # 0 /\ stage # "kInited" /\ Wants("FULL_IMAGE")
    BY <1>1, <1>2 DEF Rest, PositionInv
  <2>2. i \in 0..Len(image) /\ Len(image) \in Nat
    BY <1>1, ImageFacts DEF TypeOK
  <2>3. Completed = i - 1 /\ Completed' = i
    BY <1>1, <1>2 DEF Completed
  <2> QED BY <2>1, <2>2, <2>3
<1>4. PositionInv'
  BY <1>2, <1>3, SamePosition DEF Rest, PositionInv
<1>5. TablesInv'
  <2>1. ASSUME NEW j \in DOMAIN frame_references'
        PROVE  /\ frame_saved_as'[j] = SavedAs(j)
               /\ frame_references'[j] \in {References(j), Slots}
    <3>1. /\ j \in DOMAIN frame_references
          /\ frame_references'[j] = IF j = i THEN References(i) ELSE frame_references[j]
      BY <1>2 DEF TypeOK
    <3> QED BY <1>2, <3>1 DEF Rest, TablesInv, TablesTrue
  <2>2. TablesTrue'
    BY <1>2, <2>1, SameImage, SameStills DEF TablesTrue, Rest, TablesInv
  <2> QED BY <1>2, <1>3, <2>2, SamePosition DEF Rest, TablesInv
<1>6. SlotsInv'
  <2> SUFFICES ASSUME NEW s \in Slots, reference_frames'[s] # 0
               PROVE  /\ reference_frames'[s] <= i
                      /\ s \in SavedAs(reference_frames'[s])
    <3>1. ASSUME NEW s \in Slots
          PROVE  SavedAs(reference_frames[s])' = SavedAs(reference_frames'[s])
      <4>1. PICK n : n = reference_frames'[s]
        OBVIOUS
      <4> QED BY <1>2, <4>1 DEF SavedAs, CanBeReferenced, IsLast
    <3> QED BY <1>3, <3>1 DEF SlotsInv
  <2>1. CASE s \in SavedAs(i)
    BY <1>2, <1>3, <2>1
  <2>2. CASE s \notin SavedAs(i)
    <3>1. reference_frames'[s] = reference_frames[s] /\ reference_frames[s] \in Nat
      BY <1>2, <2>2, SlotTypes
    <3> QED BY <1>3, <3>1 DEF Rest, SlotsInv
  <2> QED BY <2>1, <2>2
<1>7. PICK N \in SUBSET (1..Len(image)) : Needed(N)
  BY <1>3 DEF Rest, NeedInv
<1>8. i \in N => i \in intact'
  <2> SUFFICES ASSUME i \in N PROVE i \in intact'
    OBVIOUS
  <2>1. \A s \in SlotsRead(i) : RightContent(i, s)
    BY <1>3, <1>7, NeededReadsRight DEF Rest
  <2> QED BY <1>2, <2>1
<1>9. \A n \in intact : n # i => n \in intact'
  BY <1>2
<1>10. ShownInv'
  <2> SUFFICES ASSUME NEW k \in DOMAIN shown' 
               PROVE  shown'[k].frame \in intact' /\ shown'[k].frame <= i
    BY <1>3 DEF ShownInv
  <2>1. ASSUME k \in DOMAIN shown, shown'[k] = shown[k]
        PROVE  shown'[k].frame \in intact' /\ shown'[k].frame <= i
    <3>1. shown[k].frame \in Nat /\ shown[k].frame \in intact /\ shown[k].frame <= i - 1
      BY <1>3, <2>1, SlotTypes DEF Rest, ShownInv
    <3>2. shown[k].frame # i /\ shown[k].frame <= i
      BY <1>3, <3>1
    <3> QED BY <1>9, <2>1, <3>1, <3>2
  <2>2. CASE shown' = shown
    BY <2>1, <2>2
  <2>3. CASE /\ ~skipping_frame
             /\ shown' = Append(shown, [frame |-> i, external |-> external_frames])
    <3> DEFINE v == [frame |-> i, external |-> external_frames]
               T == [frame : 1..Len(image), external : 1..Len(image)]
    <3>1. v.frame = i
      OBVIOUS
    <3>2. shown \in Seq(T) /\ shown' = Append(shown, v)
      BY <2>3 DEF TypeOK
    <3> HIDE DEF v, T
    <3>3. /\ k \in 1..Len(shown) + 1 /\ Len(shown) \in Nat /\ DOMAIN shown = 1..Len(shown)
          /\ k \in 1..Len(shown) => shown'[k] = shown[k]
          /\ k = Len(shown) + 1 => shown'[k] = v
      BY <3>2
    <3>4. CASE k \in 1..Len(shown)
      BY <2>1, <3>3, <3>4
    <3>5. CASE k = Len(shown) + 1
      <4>1. i \in N
        BY <1>1, <1>2, <1>7, <2>3 DEF Needed
      <4>2. i <= i
        BY <1>3
      <4> QED BY <1>8, <3>1, <3>3, <3>5, <4>1, <4>2
    <3> QED BY <3>3, <3>4, <3>5
  <2> QED BY <1>2, <2>2, <2>3
<1>11. Needed(N)'
  <2>1. /\ \A j \in N : j > i - 1 => \A s \in References(j) : Stored(s, j - 1) \in N \cup {0}
        /\ \A j \in internal_frames+1..Len(image) :
             Still(j) > external_frames + skip_frames => j \in N
        /\ \A s \in Slots : Stored(s, i - 1) \in N =>
             reference_frames[s] = Stored(s, i - 1) /\ Stored(s, i - 1) \in intact
        /\ \A j \in N : /\ j > internal_frames /\ j <= Len(frame_required)
                        /\ Still(j) <= external_frames + skip_frames
                        => frame_required[j]
    BY <1>3, <1>7 DEF Needed
  <2>2. ASSUME NEW j \in N, j > i
        PROVE  \A s \in References(j) : Stored(s, j - 1) \in N \cup {0}
    <3>1. j > i - 1
      BY <1>3, <2>2
    <3> QED BY <2>1, <3>1
  <2>3. ASSUME NEW s \in Slots, Stored(s, i) \in N
        PROVE  reference_frames'[s] = Stored(s, i) /\ Stored(s, i) \in intact'
    <3>1. Stored(s, i) = IF s \in SavedAs(i) THEN i ELSE Stored(s, i - 1)
      BY <1>3, StoredStep
    <3>2. CASE s \in SavedAs(i)
      BY <1>2, <1>8, <2>3, <3>1, <3>2
    <3>3. CASE s \notin SavedAs(i)
      <4>1. Stored(s, i) = Stored(s, i - 1) /\ Stored(s, i - 1) \in 0..i - 1
        BY <1>3, <3>1, <3>3, StoredFacts
      <4>2. Stored(s, i) # i
        BY <1>3, <4>1
      <4>3. reference_frames[s] = Stored(s, i) /\ Stored(s, i) \in intact
        BY <2>1, <2>3, <4>1
      <4>4. reference_frames'[s] = reference_frames[s]
        BY <1>2, <3>3
      <4> QED BY <1>9, <4>2, <4>3, <4>4
    <3> QED BY <3>2, <3>3
  <2>4. image' = image /\ coalescing' = coalescing /\ i = Completed'
    BY <1>2, <1>3
  <2>5. /\ \A j \in internal_frames'+1..Len(image) :
             Still(j) > external_frames' + skip_frames' => j \in N
        /\ \A j \in N : /\ j > internal_frames' /\ j <= Len(frame_required')
                        /\ Still(j) <= external_frames' + skip_frames'
                        => frame_required'[j]
        /\ frame_stage' = "kHeader"
    BY <1>2, <2>1
  <2> QED BY <2>2, <2>3, <2>4, <2>5, NeededNext
<1>12. NeedInv'
  BY <1>2, <1>11 DEF NeedInv
<1> QED BY <1>4, <1>5, <1>6, <1>10, <1>12 DEF Rest
-----------------------------------------------------------------------------
(* The theorems. *)

LEMMA RestStep ==
  ASSUME TypeOK, Rest, [Next]_vars
  PROVE  Rest'
<1> USE DEF settings, tables, position, skipping, output
<1>1. CASE Rewind
  <2>1. /\ Decoder0 /\ image' = image /\ UNCHANGED <<coalescing, tables>> /\ TablesTrue
    BY <1>1 DEF Rewind, Rest, TablesInv
  <2>2. rewinds' # 0
    BY <1>1, ImagesAssumption DEF Rewind, TypeOK
  <2> QED BY <2>1, <2>2, FreshStep
<1>2. CASE Reset
  <2>1. /\ Decoder0 /\ image' = image
        /\ frame_references' = <<>> /\ frame_saved_as' = <<>>
        /\ frame_external_to_internal' = <<>> /\ frame_required' = <<>>
    BY <1>2 DEF Reset
  <2> QED BY <2>1, FreshStep
<1>3. CASE \E amount \in 1..MaxSkip : SkipFrames(amount)
  BY <1>3, SkipFramesStep
<1>4. CASE FrameHeader
  BY <1>4, FrameHeaderStep
<1>5. CASE FrameFull
  BY <1>5, FrameFullStep
<1>6. CASE FrameTOC
  BY <1>6, FrameTOCStep
<1>7. CASE rewinds = 0 /\ \E b \in BOOLEAN : SetCoalescing(b)
  BY <1>7, SetCoalescingStep
<1>8. ASSUME NEW events \in Subscriptions, SubscribeEvents(events) PROVE Rest'
  <2>1. internal_frames = 0 /\ stage' = stage /\ ~in_call'
    BY <1>8 DEF SubscribeEvents, Rest, PositionInv
  <2>2. UNCHANGED <<image, coalescing, rewinds, tables, position, skip_frames,
                    skipping_frame, frame_required, output, frame_stage>>
    BY <1>8 DEF SubscribeEvents
  <2> QED BY <2>1, <2>2, QuietStep
<1>9. CASE SetImageOutBuffer \/ ReadBasicInfo \/ UNCHANGED vars
  <2>1. /\ UNCHANGED <<image, coalescing, rewinds, tables, position, skip_frames,
                       skipping_frame, frame_required, output, frame_stage>>
        /\ events_wanted' = events_wanted /\ stage' = stage /\ in_call' = in_call
    BY <1>9 DEF SetImageOutBuffer, ReadBasicInfo, vars
  <2>2. stage' = "kInited" => stage = "kInited" /\ ~in_call'
    BY <2>1 DEF Rest, PositionInv
  <2>3. Wants("FULL_IMAGE")' <=> Wants("FULL_IMAGE")
    BY <2>1 DEF Wants
  <2> QED BY <2>1, <2>2, <2>3, QuietStep
<1>10. CASE ProcessInput \/ NeedMoreInput \/ NeedImageOutBuffer \/ CodestreamFinished
  <2>1. /\ UNCHANGED <<image, coalescing, rewinds, tables, position, skip_frames,
                       skipping_frame, frame_required, output, frame_stage>>
        /\ events_wanted' = events_wanted
    BY <1>10 DEF ProcessInput, NeedMoreInput, NeedImageOutBuffer, CodestreamFinished
  <2>2. stage' # "kInited"
    <3>1. in_call => stage # "kInited"
      BY DEF Rest, PositionInv
    <3> QED BY <1>10, <3>1
         DEF ProcessInput, NeedMoreInput, NeedImageOutBuffer, CodestreamFinished
  <2>3. Wants("FULL_IMAGE")' <=> Wants("FULL_IMAGE")
    BY <2>1 DEF Wants
  <2> QED BY <2>1, <2>2, <2>3, QuietStep
<1>11. CASE FrameProgression
  <2>1. /\ UNCHANGED <<image, coalescing, rewinds, tables, position, skip_frames,
                       skipping_frame, frame_required, output, frame_stage>>
        /\ events_wanted' = events_wanted \ {"FRAME_PROGRESSION"}
    BY <1>11 DEF FrameProgression
  <2>2. stage' # "kInited"
    BY <1>11 DEF FrameProgression, Rest, PositionInv
  <2>3. Wants("FULL_IMAGE")' <=> Wants("FULL_IMAGE")
    BY <2>1 DEF Wants
  <2> QED BY <2>1, <2>2, <2>3, QuietStep
<1> QED BY <1>1, <1>2, <1>3, <1>4, <1>5, <1>6, <1>7, <1>8, <1>9, <1>10, <1>11
        DEF Next, Step

\* All parts of the invariant hold of every codestream and of every order of
\* calls of JxlDecoderProcessInput(), SkipFrames(), Rewind() and Reset().
THEOREM SkippingInvariant == Spec => []IInv
<1>1. Init => IInv
  BY InitType, InitRest DEF IInv, Rest
<1>2. IInv /\ [Next]_vars => IInv'
  <2> SUFFICES ASSUME IInv, [Next]_vars PROVE IInv'
    OBVIOUS
  <2>1. TypeOK /\ Rest /\ PositionInv
    BY DEF IInv, Rest
  <2>2. TypeOK'
    BY <2>1, TypeStep
  <2>3. Rest'
    BY <2>1, RestStep
  <2> QED BY <2>2, <2>3 DEF IInv, Rest
<1> QED BY <1>1, <1>2, PTL DEF Spec

\* The counters of JxlDecoderProcessCodestream() stay within the image, and the
\* tables that SkipFrames() indexes are long enough.
THEOREM TypeCorrect == Spec => []TypeOK
BY SkippingInvariant, PTL DEF IInv

\* What stage kHeader and stage kFull note in frame_references, frame_saved_as
\* and frame_external_to_internal is true of the codestream, over all rewinds.
THEOREM TablesAreTrue == Spec => []TablesTrue
<1>1. IInv => TablesTrue
  BY DEF IInv, TablesInv
<1> QED BY <1>1, SkippingInvariant, PTL

\* Every frame that JxlDecoderProcessInput() returns as JXL_DEC_FULL_IMAGE was
\* decoded from the references it has in a decode that skips nothing, whatever
\* GetFrameDependencies() and stage kHeader left out before it.
THEOREM ShownFramesIntact == Spec => []ShownIntact
<1>1. IInv => ShownIntact
  BY DEF IInv, ShownInv, ShownIntact
<1> QED BY <1>1, SkippingInvariant, PTL
-----------------------------------------------------------------------------
(* What is skipped is what the application asked for. *)

\* The requests that are not yet fulfilled are for the skip_frames stills after
\* the last one that started; a still is being skipped if it was asked for.
AskedInv ==
  /\ asked \subseteq 1..external_frames + skip_frames
  /\ external_frames+1..external_frames + skip_frames \subseteq asked
  /\ frame_stage # "kHeader" /\ is_last_of_still =>
       /\ external_frames > 0
       /\ skipping_frame <=> external_frames \in asked
  /\ "FULL_IMAGE" \in orig_events_wanted => Wants("FULL_IMAGE") \/ events_wanted = {}

AInv == AskedInv /\ SkipsWhatWasAsked

LEMMA AskedQuiet ==
  ASSUME AInv,
         UNCHANGED <<asked, external_frames, skip_frames, frame_stage, is_last_of_still,
                     skipping_frame, shown>>,
         "FULL_IMAGE" \in orig_events_wanted' =>
           Wants("FULL_IMAGE")' \/ events_wanted' = {},
         orig_events_wanted' = orig_events_wanted
         \/ (shown = <<>> /\ external_frames = 0 /\ frame_stage = "kHeader")
  PROVE  AInv'
<1>1. AskedInv'
  BY DEF AInv, AskedInv
<1>2. CASE orig_events_wanted' = orig_events_wanted
  BY <1>1, <1>2 DEF AInv, SkipsWhatWasAsked, Over
<1>3. CASE shown = <<>> /\ external_frames = 0 /\ frame_stage = "kHeader"
  <2>1. Over' = {} /\ shown' = <<>>
    BY <1>3 DEF Over
  <2> QED BY <1>1, <2>1 DEF AInv, SkipsWhatWasAsked
<1> QED BY <1>2, <1>3

LEMMA AskedFresh ==
  ASSUME Decoder0
  PROVE  AInv'
<1>1. /\ asked' = {} /\ external_frames' = 0 /\ skip_frames' = 0 /\ frame_stage' = "kHeader"
      /\ shown' = <<>> /\ events_wanted' = {}
  BY DEF Decoder0
<1>2. Over' = {}
  BY <1>1 DEF Over
<1> QED BY <1>1, <1>2 DEF AInv, AskedInv, SkipsWhatWasAsked

LEMMA AskedInit == Init => AInv
<1> SUFFICES ASSUME Init PROVE AInv
  OBVIOUS
<1>1. /\ asked = {} /\ external_frames = 0 /\ skip_frames = 0 /\ frame_stage = "kHeader"
      /\ shown = <<>> /\ events_wanted = {}
  BY DEF Init
<1>2. Over = {}
  BY <1>1 DEF Over
<1> QED BY <1>1, <1>2 DEF AInv, AskedInv, SkipsWhatWasAsked

\* SkipFrames() extends the request behind what it covers already.
LEMMA AskedSkipFrames ==
  ASSUME TypeOK, AInv, NEW amount \in 1..MaxSkip, SkipFrames(amount)
  PROVE  AInv'
<1>1. /\ external_frames \in Nat /\ skip_frames \in Nat /\ amount \in Nat
  BY ImageFacts, ImagesAssumption DEF TypeOK
<1>2. /\ UNCHANGED <<external_frames, frame_stage, is_last_of_still, skipping_frame,
                     shown, events_wanted, orig_events_wanted>>
      /\ skip_frames' = skip_frames + amount
      /\ asked' = asked \cup
           (Max(asked \cup {external_frames}) + 1 .. Max(asked \cup {external_frames}) + amount)
  BY DEF SkipFrames, settings, position, output
<1>3. Max(asked \cup {external_frames}) = external_frames + skip_frames
  <2> DEFINE T == asked \cup {external_frames}
             m == external_frames + skip_frames
  <2>1. m \in Nat /\ T \subseteq 0..m /\ T # {}
    BY <1>1 DEF AInv, AskedInv
  <2>2. m \in T
    BY <1>1 DEF AInv, AskedInv
  <2> HIDE DEF T, m
  <2>3. Max(T) \in T /\ \A y \in T : y <= Max(T)
    BY <2>1, MaxOf
  <2>4. Max(T) \in 0..m /\ m <= Max(T)
    BY <2>1, <2>2, <2>3
  <2>5. Max(T) = m
    BY <2>1, <2>4
  <2> QED BY <2>5 DEF T, m
<1>4. asked' = asked \cup
        (external_frames + skip_frames + 1 .. external_frames + skip_frames + amount)
  BY <1>2, <1>3
<1>5. AskedInv'
  <2>1. /\ asked' \subseteq 1..external_frames' + skip_frames'
        /\ external_frames'+1..external_frames' + skip_frames' \subseteq asked'
    <3> DEFINE b == external_frames + skip_frames
    <3>1. /\ b \in Nat /\ external_frames <= b /\ external_frames' + skip_frames' = b + amount
          /\ asked' = asked \cup (b + 1..b + amount)
          /\ asked \subseteq 1..b /\ external_frames+1..b \subseteq asked
      BY <1>1, <1>2, <1>4 DEF AInv, AskedInv
    <3> HIDE DEF b
    <3>2. asked' \subseteq 1..b + amount
      BY <1>1, <3>1
    <3>3. \A x \in external_frames+1..b + amount :
            x \in external_frames+1..b \/ x \in b + 1..b + amount
      BY <1>1, <3>1
    <3> QED BY <1>2, <3>1, <3>2, <3>3
  <2>2. external_frames > 0 => (external_frames \in asked' <=> external_frames \in asked)
    BY <1>1, <1>4
  <2>3. /\ frame_stage # "kHeader" /\ is_last_of_still =>
            /\ external_frames > 0
            /\ skipping_frame <=> external_frames \in asked'
        /\ "FULL_IMAGE" \in orig_events_wanted' => Wants("FULL_IMAGE")' \/ events_wanted' = {}
    BY <1>2, <2>2 DEF AInv, AskedInv, Wants
  <2> QED BY <1>2, <2>1, <2>3 DEF AskedInv
<1>6. Over' = Over /\ Over \subseteq 1..external_frames
  BY <1>1, <1>2 DEF Over
<1>7. Over \ asked' = Over \ asked
  BY <1>1, <1>4, <1>6
<1>8. SkipsWhatWasAsked'
  BY <1>2, <1>6, <1>7 DEF AInv, SkipsWhatWasAsked
<1> QED BY <1>5, <1>8 DEF AInv

\* The header of the last frame of a still starts the still.
LEMMA AskedFrameHeader ==
  ASSUME TypeOK, Rest, AInv, FrameHeader
  PROVE  AInv'
<1>1. PICK i : i = internal_frames + 1
  OBVIOUS
<1>2. /\ frame_stage = "kHeader" /\ external_frames \in Nat /\ skip_frames \in Nat
      /\ external_frames' = IF LastOfStill(i) THEN external_frames + 1 ELSE external_frames
      /\ skip_frames > 0 =>
           external_frames' + skip_frames' = external_frames + skip_frames
      /\ skip_frames = 0 => skip_frames' = 0
      /\ skipping_frame' <=> skip_frames > 0
      /\ frame_stage' = "kTOC" \/ (frame_stage' = "kHeader" /\ skip_frames > 0)
  BY <1>1, FrameHeaderFacts
<1>3. /\ UNCHANGED <<asked, shown, events_wanted, orig_events_wanted>>
      /\ is_last_of_still' = LastOfStill(i)
  BY <1>1 DEF FrameHeader, settings, output
<1>4. /\ asked \subseteq 1..external_frames + skip_frames
      /\ external_frames+1..external_frames + skip_frames \subseteq asked
  BY DEF AInv, AskedInv
<1>5. external_frames + 1 \in asked <=> skip_frames > 0
  BY <1>2, <1>4
<1>6. /\ asked \subseteq 1..external_frames' + skip_frames'
      /\ external_frames'+1..external_frames' + skip_frames' \subseteq asked
  <2>1. CASE skip_frames > 0
    <3>1. external_frames' + skip_frames' = external_frames + skip_frames
      BY <1>2, <2>1
    <3>2. external_frames' \in Nat /\ external_frames' >= external_frames
      BY <1>2
    <3> DEFINE b == external_frames + skip_frames
    <3>3. b \in Nat /\ external_frames'+1..b \subseteq external_frames+1..b
      BY <1>2, <3>2
    <3> QED BY <1>4, <3>1, <3>3
  <2>2. CASE skip_frames = 0
    <3>1. skip_frames' = 0 /\ asked \subseteq 1..external_frames
      BY <1>2, <1>4, <2>2
    <3> QED BY <1>2, <3>1
  <2> QED BY <1>2, <2>1, <2>2
<1>7. frame_stage' # "kHeader" /\ is_last_of_still' =>
        /\ external_frames' > 0
        /\ skipping_frame' <=> external_frames' \in asked
  BY <1>2, <1>3, <1>5
<1>8. AskedInv'
  BY <1>3, <1>6, <1>7 DEF AInv, AskedInv, Wants
<1>9. Over = 1..external_frames
  BY <1>2 DEF Over
<1>10. Over' = 1..(IF frame_stage' # "kHeader" /\ is_last_of_still'
                   THEN external_frames' - 1 ELSE external_frames')
  BY DEF Over
<1>11. Over' \ asked = Over \ asked
  <2>1. CASE ~LastOfStill(i)
    BY <1>2, <1>3, <1>9, <1>10, <2>1
  <2>2. CASE LastOfStill(i) /\ frame_stage' # "kHeader"
    <3>1. external_frames' - 1 = external_frames
      BY <1>2, <2>2
    <3> QED BY <1>3, <1>9, <1>10, <2>2, <3>1
  <2>3. CASE LastOfStill(i) /\ frame_stage' = "kHeader"
    <3>1. external_frames + 1 \in asked /\ Over' = 1..external_frames + 1
      BY <1>2, <1>5, <1>10, <2>3
    <3> QED BY <1>2, <1>9, <3>1
  <2> QED BY <2>1, <2>2, <2>3
<1>12. SkipsWhatWasAsked'
  BY <1>3, <1>11 DEF AInv, SkipsWhatWasAsked
<1> QED BY <1>8, <1>12 DEF AInv

\* Stage kFull returns the still unless it is being skipped.
LEMMA AskedFrameFull ==
  ASSUME TypeOK, Rest, AInv, FrameFull
  PROVE  AInv'
<1> DEFINE v == [frame |-> internal_frames, external |-> external_frames]
           T == [frame : 1..Len(image), external : 1..Len(image)]
<1>1. /\ UNCHANGED <<asked, external_frames, skip_frames, is_last_of_still,
                     skipping_frame, orig_events_wanted>>
      /\ frame_stage = "kFull" /\ frame_stage' = "kHeader"
      /\ events_wanted \subseteq events_wanted' /\ Wants("FULL_IMAGE")
      /\ shown' = IF is_last_of_still /\ ~skipping_frame THEN Append(shown, v) ELSE shown
  BY DEF FrameFull, settings, position, skipping, Rest, PositionInv
<1>2. Wants("FULL_IMAGE")'
  BY <1>1 DEF Wants
<1>3. AskedInv'
  BY <1>1, <1>2 DEF AInv, AskedInv
<1>4. external_frames \in Nat /\ shown \in Seq(T)
  BY ImageFacts DEF TypeOK
<1>5. Over' = 1..external_frames
  BY <1>1 DEF Over
<1>6. CASE ~is_last_of_still
  <2>1. Over' = Over /\ shown' = shown
    BY <1>1, <1>5, <1>6 DEF Over
  <2> QED BY <1>1, <1>3, <2>1 DEF AInv, SkipsWhatWasAsked
<1>7. CASE is_last_of_still
  <2>1. /\ Over = 1..external_frames - 1 /\ external_frames > 0
        /\ skipping_frame <=> external_frames \in asked
    BY <1>1, <1>7 DEF Over, AInv, AskedInv
  <2>2. Over' = Over \cup {external_frames}
    BY <1>4, <1>5, <2>1
  <2>3. CASE skipping_frame
    <3>1. shown' = shown /\ Over' \ asked = Over \ asked
      BY <1>1, <2>1, <2>2, <2>3
    <3> QED BY <1>1, <1>3, <3>1 DEF AInv, SkipsWhatWasAsked
  <2>4. CASE ~skipping_frame
    <3>0. v.external = external_frames
      OBVIOUS
    <3> HIDE DEF v, T
    <3>1. shown' = Append(shown, v)
      BY <1>1, <1>7, <2>4
    <3> DEFINE n == Len(shown)
    <3>2. /\ n \in Nat /\ DOMAIN shown = 1..n /\ DOMAIN shown' = 1..n + 1
          /\ \A k \in 1..n : shown'[k] = shown[k]
          /\ shown'[n + 1] = v
      BY <1>4, <3>1
    <3> HIDE DEF n
    <3> SUFFICES ASSUME "FULL_IMAGE" \in orig_events_wanted
                 PROVE  /\ {shown'[k].external : k \in DOMAIN shown'} = Over' \ asked
                        /\ \A k, l \in DOMAIN shown' :
                             k < l => shown'[k].external < shown'[l].external
      BY <1>1, <1>3 DEF AInv, SkipsWhatWasAsked
    <3>3. /\ {shown[k].external : k \in 1..n} = Over \ asked
          /\ \A k, l \in 1..n : k < l => shown[k].external < shown[l].external
      BY <3>2 DEF AInv, SkipsWhatWasAsked
    <3>4. {shown'[k].external : k \in 1..n + 1} =
            {shown[k].external : k \in 1..n} \cup {external_frames}
      <4>1. \A k \in 1..n + 1 : k \in 1..n \/ k = n + 1
        BY <3>2
      <4>2. n + 1 \in 1..n + 1 /\ \A k \in 1..n : k \in 1..n + 1
        BY <3>2
      <4> QED BY <3>0, <3>2, <4>1, <4>2
    <3>5. external_frames \notin asked
      BY <2>1, <2>4
    <3>6. {shown'[k].external : k \in DOMAIN shown'} = Over' \ asked
      BY <2>2, <3>2, <3>3, <3>4, <3>5
    <3>7. ASSUME NEW k \in 1..n + 1, NEW l \in 1..n + 1, k < l
          PROVE  shown'[k].external < shown'[l].external
      <4>1. k \in 1..n
        BY <3>2, <3>7
      <4>2. CASE l \in 1..n
        BY <3>2, <3>3, <3>7, <4>1, <4>2
      <4>3. CASE l = n + 1
        <5>1. shown[k].external \in Over
          BY <3>3, <4>1
        <5>2. shown[k].external < external_frames
          BY <1>4, <2>1, <5>1
        <5> QED BY <3>0, <3>2, <4>1, <4>3, <5>2
      <4> QED BY <3>2, <4>2, <4>3
    <3> QED BY <3>2, <3>6, <3>7
  <2> QED BY <2>3, <2>4
<1> QED BY <1>6, <1>7

LEMMA AskedFrameTOC ==
  ASSUME TypeOK, AInv, FrameTOC
  PROVE  AInv'
<1>1. /\ UNCHANGED <<asked, external_frames, skip_frames, is_last_of_still,
                     skipping_frame, shown, orig_events_wanted, events_wanted>>
      /\ frame_stage = "kTOC" /\ events_wanted # {}
      /\ frame_stage' = IF Wants("FULL_IMAGE") THEN "kFull" ELSE "kHeader"
  BY DEF FrameTOC, MoreFrames, Wants, settings, position, skipping, output
<1>2. AskedInv'
  BY <1>1 DEF AInv, AskedInv, Wants
<1>3. CASE Wants("FULL_IMAGE")
  <2>1. Over' = Over
    BY <1>1, <1>3 DEF Over
  <2> QED BY <1>1, <1>2, <2>1 DEF AInv, SkipsWhatWasAsked
<1>4. CASE ~Wants("FULL_IMAGE")
  <2>1. "FULL_IMAGE" \notin orig_events_wanted'
    BY <1>1, <1>4 DEF AInv, AskedInv
  <2> QED BY <1>2, <2>1 DEF AInv, SkipsWhatWasAsked
<1> QED BY <1>3, <1>4

LEMMA AskedStep ==
  ASSUME TypeOK, Rest, AInv, [Next]_vars
  PROVE  AInv'
<1> USE DEF settings, tables, position, skipping, output
<1>1. CASE Rewind \/ Reset
  BY <1>1, AskedFresh DEF Rewind, Reset
<1>2. CASE \E amount \in 1..MaxSkip : SkipFrames(amount)
  BY <1>2, AskedSkipFrames
<1>3. CASE FrameHeader
  BY <1>3, AskedFrameHeader
<1>4. CASE FrameFull
  BY <1>4, AskedFrameFull
<1>5. CASE FrameTOC
  BY <1>5, AskedFrameTOC
<1>6. CASE FrameProgression
  <2>1. /\ UNCHANGED <<asked, external_frames, skip_frames, frame_stage, is_last_of_still,
                       skipping_frame, shown, orig_events_wanted>>
        /\ events_wanted # {} /\ events_wanted' = events_wanted \ {"FRAME_PROGRESSION"}
    BY <1>6 DEF FrameProgression, MoreFrames, Wants
  <2>2. "FULL_IMAGE" \in orig_events_wanted' => Wants("FULL_IMAGE")'
    BY <2>1 DEF AInv, AskedInv, Wants
  <2> QED BY <2>1, <2>2, AskedQuiet
<1>7. ASSUME NEW events \in Subscriptions, SubscribeEvents(events) PROVE AInv'
  <2>1. /\ UNCHANGED <<asked, external_frames, skip_frames, frame_stage, is_last_of_still,
                       skipping_frame, shown>>
        /\ events_wanted' = orig_events_wanted' /\ stage = "kInited"
    BY <1>7 DEF SubscribeEvents
  <2>2. "FULL_IMAGE" \in orig_events_wanted' => Wants("FULL_IMAGE")'
    BY <2>1 DEF Wants
  <2>3. internal_frames = 0 /\ frame_stage = "kHeader"
    BY <2>1 DEF Rest, PositionInv
  <2>4. external_frames = 0
    BY <2>3 DEF TypeOK
  <2>5. shown = <<>>
    <3>1. Completed = 0
      BY <2>3 DEF Completed
    <3> DEFINE T == [frame : 1..Len(image), external : 1..Len(image)]
    <3>2. shown \in Seq(T) /\ \A x \in T : x.frame \in 1..Len(image)
      BY DEF TypeOK
    <3>3. Len(image) \in Nat
      BY ImageFacts DEF TypeOK
    <3> HIDE DEF T
    <3>4. \A k \in DOMAIN shown : shown[k].frame \in 1..Len(image)
      BY <3>2
    <3>5. \A k \in DOMAIN shown : FALSE
      BY <3>1, <3>3, <3>4 DEF Rest, ShownInv
    <3>6. Len(shown) \in Nat /\ DOMAIN shown = 1..Len(shown)
      BY <3>2
    <3>7. Len(shown) = 0
      BY <3>5, <3>6
    <3> QED BY <3>2, <3>7
  <2> QED BY <2>1, <2>2, <2>3, <2>4, <2>5, AskedQuiet
<1>8. CASE \/ ProcessInput \/ ReadBasicInfo \/ NeedMoreInput \/ NeedImageOutBuffer
           \/ CodestreamFinished \/ SetImageOutBuffer \/ UNCHANGED vars
           \/ \E b \in BOOLEAN : SetCoalescing(b)
  <2>1. UNCHANGED <<asked, external_frames, skip_frames, frame_stage, is_last_of_still,
                    skipping_frame, shown, events_wanted, orig_events_wanted>>
    BY <1>8 DEF ProcessInput, ReadBasicInfo, NeedMoreInput, NeedImageOutBuffer,
                CodestreamFinished, SetImageOutBuffer, SetCoalescing, vars
  <2>2. "FULL_IMAGE" \in orig_events_wanted' => Wants("FULL_IMAGE")' \/ events_wanted' = {}
    BY <2>1 DEF AInv, AskedInv, Wants
  <2> QED BY <2>1, <2>2, AskedQuiet
<1> QED BY <1>1, <1>2, <1>3, <1>4, <1>5, <1>6, <1>7, <1>8 DEF Next, Step

\* The stills that JxlDecoderProcessInput() returns are those it has passed and
\* JxlDecoderSkipFrames() was not asked to skip, each once and in order, however
\* requests, rewinds and the frames of a still interleave.
THEOREM SkipsExactlyWhatWasAsked == Spec => []SkipsWhatWasAsked
<1>1. Init => AInv
  BY AskedInit
<1>2. IInv /\ AInv /\ [Next]_vars => AInv'
  BY AskedStep DEF IInv, Rest
<1>3. AInv => SkipsWhatWasAsked
  BY DEF AInv
<1> QED BY <1>1, <1>2, <1>3, SkippingInvariant, PTL DEF Spec
=============================================================================
