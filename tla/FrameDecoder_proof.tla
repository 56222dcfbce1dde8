------------------------- MODULE FrameDecoder_proof -------------------------
(***************************************************************************)
(* Proofs about FrameDecoder, for any number of DC groups, groups, passes  *)
(* and threads, frames of a single section included.                       *)
(***************************************************************************)
EXTENDS FrameDecoder, FiniteSetTheorems, TLAPS

InCall == {"dc", "acGlobal", "ac"}             \* inside of ProcessSections()
Between == {"idle", "returned", "flush"}       \* outside of it
Done == {"kDone", "kDuplicate"}

\* Nothing that a section holds is decoded.
NothingDecoded(s) ==
  /\ s = DCGlobal => ~decoded_dc_global_
  /\ s = ACGlobal => ~decoded_ac_global_
  /\ \A i \in DCGroups : s = DCGroupSection(i) => i \notin decoded_dc_groups_
  /\ \A g \in Groups, p \in Passes :
       s = ACSection(g, p) => ~(p < decoded_passes_per_ac_group_[g])

\* The tasks of the pool and the storage of its threads.
TasksInv ==
  /\ phase \notin {"dc", "ac", "flush"} => todo = {}
  /\ phase \in {"ac", "flush"} => todo \subseteq Groups
  /\ phase = "dc" =>
       \A i \in todo : /\ i \in DCGroups /\ DCGroupSection(i) \in fresh
                       /\ i \notin decoded_dc_groups_ /\ decoded_dc_global_
  /\ \A t \in Threads : running[t] # NoGroup =>
       phase \in {"ac", "flush"} /\ t < num_threads /\ running[t] \notin todo
  /\ \A t, u \in Threads :
       t # u /\ running[t] # NoGroup => running[t] # running[u]
StorageInv == /\ group_dec_caches_ >= StorageSize(num_threads)
              /\ use_task_id_ <=> num_threads > NumGroups

\* What depends on what, and the render pipeline.
OrderInv ==
  /\ DependenciesMet
  /\ phase = "ac" => decoded_ac_global_
  /\ phase \notin {"none", "failed"} /\ finalized_dc_
       => render_pipeline /\ allocated_
  /\ phase = "flush" /\ caller = "api" => finalized_dc_

\* The history is what the state of the decoder says.
CountsInv ==
  /\ decodes[<<"dcGlobal">>] = IF decoded_dc_global_ THEN 1 ELSE 0
  /\ decodes[<<"acGlobal">>] = IF decoded_ac_global_ THEN 1 ELSE 0
  /\ \A i \in DCGroups :
       decodes[<<"dc", i>>] = IF i \in decoded_dc_groups_ THEN 1 ELSE 0
  /\ \A g \in Groups, p \in Passes :
       decodes[<<"ac", g, p>>] = IF p < decoded_passes_per_ac_group_[g] THEN 1 ELSE 0

\* Between calls a section is decoded completely or not at all, and
\* processed_section_ says which.
BetweenInv ==
  phase \in Between =>
    \A s \in Sections : /\ s \in processed_section_ => SectionDecoded(s)
                        /\ s \notin processed_section_ => NothingDecoded(s)

\* During a call the statuses say it.
CallInv ==
  phase \in InCall =>
    /\ processed_section_
         = fresh \cup {s \in Sections : section_status[s] = "kDuplicate"}
    /\ \A s \in Sections :
         /\ section_status[s] = "kDuplicate" => s \notin fresh /\ SectionDecoded(s)
         /\ section_status[s] \notin Done => NothingDecoded(s)
         /\ section_status[s] = "kDone" =>
              s \in fresh /\ (~SingleSection => SectionDecoded(s))

\* A section that holds the whole frame has the status "kDone" from its first
\* part on; its other parts follow in the same call.
SingleInv ==
  SingleSection /\ phase \in InCall /\ section_status[0] = "kDone" =>
    /\ decoded_dc_global_
    /\ phase = "dc" => has_error \/ decoded_dc_groups_ \cup todo = DCGroups
    /\ phase # "dc" => finalized_dc_
    /\ phase # "ac" => /\ ~decoded_ac_global_
                       /\ \A g \in Groups : decoded_passes_per_ac_group_[g] = 0
    /\ phase = "ac" => \/ has_error
                       \/ \A g \in Groups :
                            \/ g \in todo \/ \E t \in Threads : running[t] = g
                            \/ decoded_passes_per_ac_group_[g] = 1

\* What AfterSections reads.
ReturnedInv ==
  phase = "returned" =>
    /\ num_sections_done_ = NumDone
    /\ \A s \in Sections : s \in processed_section_ <=> section_status[s] \in Done

FinalInv ==
  /\ is_finalized_ => phase \in {"none", "flush", "finished", "failed"}
  /\ FinalizedIsComplete
  /\ can_return_dc => ~SingleSection

IInv == /\ TypeOK /\ TasksInv /\ StorageInv /\ OrderInv /\ CountsInv /\ BetweenInv
        /\ CallInv /\ SingleInv /\ ReturnedInv /\ FinalInv
-----------------------------------------------------------------------------
(* The numbering of the sections (toc.h). *)

USE SizesAssumption DEF DCGroups, Groups, Passes, Threads

\* Division with remainder, and its uniqueness.
LEMMA Division ==
  ASSUME NEW n \in Nat \ {0}
  PROVE  /\ \A a \in Nat : /\ a \div n \in Nat /\ a % n \in 0..n-1
                           /\ a = (a \div n) * n + (a % n)
         /\ \A p, q \in Nat, g, h \in 0..n-1 :
              p * n + g = q * n + h => p = q /\ g = h
<1>1. \A a \in Nat : /\ a \div n \in Nat /\ a % n \in 0..n-1
                     /\ a = (a \div n) * n + (a % n)
  BY SMT
<1>2. ASSUME NEW p \in Nat, NEW q \in Nat, p < q
      PROVE  q * n >= p * n + n
  <2>1. PICK d \in Nat : q = p + 1 + d
    <3>1. q = p + 1 + (q - p - 1) /\ q - p - 1 \in Nat
      BY <1>2
    <3> QED BY <3>1
  <2>2. q * n = p * n + n + d * n
    BY <2>1
  <2>3. d * n >= 0 /\ d * n \in Nat /\ p * n \in Nat
    BY SMT
  <2> QED BY <2>2, <2>3
<1>3. ASSUME NEW p \in Nat, NEW q \in Nat, NEW g \in 0..n-1, NEW h \in 0..n-1,
             p * n + g = q * n + h
      PROVE  p = q /\ g = h
  <2>1. p * n \in Nat /\ q * n \in Nat
    BY SMT
  <2>2. ~(p < q)
    BY <1>2, <1>3, <2>1
  <2>3. ~(q < p)
    BY <1>2, <1>3, <2>1
  <2>4. p = q
    BY <2>2, <2>3
  <2> QED BY <1>3, <2>1, <2>4
<1> QED BY <1>1, <1>3

\* A pass before the last one leaves room for a further row of groups.
LEMMA RowFits ==
  ASSUME NEW n \in Nat \ {0}, NEW m \in Nat \ {0}, NEW p \in 0..m-1, NEW g \in 0..n-1
  PROVE  p * n + g \in 0..n * m - 1
<1>1. PICK d \in Nat : m = p + 1 + d
  <2>1. m = p + 1 + (m - p - 1) /\ m - p - 1 \in Nat
    OBVIOUS
  <2> QED BY <2>1
<1>2. n * m = p * n + n + d * n
  BY <1>1
<1>3. d * n \in Nat /\ p * n \in Nat
  BY SMT
<1> QED BY <1>2, <1>3

\* And a number below the product is in some row.
LEMMA RowExists ==
  ASSUME NEW n \in Nat \ {0}, NEW m \in Nat \ {0}, NEW a \in 0..n * m - 1
  PROVE  \E p \in 0..m-1, g \in 0..n-1 : a = p * n + g
<1>0. n * m \in Nat
  BY SMT
<1>1. a \in Nat
  BY <1>0
<1>2. /\ a \div n \in Nat /\ a % n \in 0..n-1
      /\ a = (a \div n) * n + (a % n)
  BY <1>1, Division
<1>3. a \div n <= m - 1
  <2> SUFFICES ASSUME a \div n >= m PROVE FALSE
    BY <1>2
  <2>1. PICK d \in Nat : a \div n = m + d
    <3>1. a \div n = m + (a \div n - m) /\ a \div n - m \in Nat
      BY <1>2
    <3> QED BY <3>1
  <2>2. (a \div n) * n = n * m + d * n
    BY <2>1
  <2>3. d * n \in Nat
    BY SMT
  <2> QED BY <1>0, <1>1, <1>2, <2>2, <2>3
<1>4. a \div n \in 0..m-1 /\ a % n \in 0..n-1
  BY <1>2, <1>3
<1> WITNESS a \div n \in 0..m-1, a % n \in 0..n-1
<1> QED BY <1>2
\* A frame of one section.
LEMMA SingleFacts ==
  ASSUME SingleSection
  PROVE  /\ Sections = {0} /\ Groups = {0} /\ Passes = {0}
         /\ DCGlobal = 0 /\ ACGlobal = 0
         /\ \A i \in DCGroups : DCGroupSection(i) = 0
         /\ \A g \in Groups, p \in Passes : ACSection(g, p) = 0
BY DEF SingleSection, Sections, NumSections, DCGlobal, ACGlobal, DCGroupSection,
       ACSection

\* The other frames: every part has a section of its own.
LEMMA ManyFacts ==
  ASSUME ~SingleSection
  PROVE  /\ DCGlobal \in Sections /\ ACGlobal \in Sections /\ ACGlobal # DCGlobal
         /\ \A i \in DCGroups :
              /\ DCGroupSection(i) \in Sections
              /\ DCGroupSection(i) # DCGlobal /\ DCGroupSection(i) # ACGlobal
              /\ \A j \in DCGroups :
                   DCGroupSection(i) = DCGroupSection(j) => i = j
         /\ \A g \in Groups, p \in Passes :
              /\ ACSection(g, p) \in Sections
              /\ ACSection(g, p) # DCGlobal /\ ACSection(g, p) # ACGlobal
              /\ \A i \in DCGroups : ACSection(g, p) # DCGroupSection(i)
              /\ \A h \in Groups, q \in Passes :
                   ACSection(g, p) = ACSection(h, q) => g = h /\ p = q
<1>1. /\ DCGlobal = 0 /\ ACGlobal = NumDCGroups + 1
      /\ \A i \in DCGroups : DCGroupSection(i) = 1 + i
      /\ \A g \in Groups, p \in Passes :
           ACSection(g, p) = NumDCGroups + 2 + (p * NumGroups + g)
      /\ NumSections = 2 + NumDCGroups + NumGroups * NumPasses
  <2>1. \A g \in Groups, p \in Passes : p * NumGroups \in Nat
    BY SMT
  <2> QED BY <2>1 DEF DCGlobal, ACGlobal, DCGroupSection, ACSection, NumSections
<1>2. \A g \in Groups, p \in Passes :
        p * NumGroups + g \in 0..NumGroups * NumPasses - 1
  BY RowFits
<1>3. NumGroups * NumPasses \in Nat
  BY SMT
<1>4. ASSUME NEW i \in DCGroups
      PROVE  /\ DCGroupSection(i) \in Sections
             /\ DCGroupSection(i) # DCGlobal /\ DCGroupSection(i) # ACGlobal
             /\ \A j \in DCGroups : DCGroupSection(i) = DCGroupSection(j) => i = j
  BY <1>1, <1>3 DEF Sections
<1>5. ASSUME NEW g \in Groups, NEW p \in Passes
      PROVE  /\ ACSection(g, p) \in Sections
             /\ ACSection(g, p) # DCGlobal /\ ACSection(g, p) # ACGlobal
             /\ \A i \in DCGroups : ACSection(g, p) # DCGroupSection(i)
             /\ \A h \in Groups, q \in Passes :
                  ACSection(g, p) = ACSection(h, q) => g = h /\ p = q
  <2> DEFINE a == p * NumGroups + g
  <2>1. a \in 0..NumGroups * NumPasses - 1
    BY <1>2
  <2>2. ACSection(g, p) = NumDCGroups + 2 + a
    BY <1>1
  <2> HIDE DEF a
  <2>3. /\ ACSection(g, p) \in Sections
        /\ ACSection(g, p) # DCGlobal /\ ACSection(g, p) # ACGlobal
        /\ \A i \in DCGroups : ACSection(g, p) # DCGroupSection(i)
    BY <1>1, <1>3, <2>1, <2>2 DEF Sections
  <2>4. ASSUME NEW h \in Groups, NEW q \in Passes, ACSection(g, p) = ACSection(h, q)
        PROVE  g = h /\ p = q
    <3> DEFINE b == q * NumGroups + h
    <3>1. b \in 0..NumGroups * NumPasses - 1
      BY <1>2
    <3>2. ACSection(h, q) = NumDCGroups + 2 + b
      BY <1>1
    <3> HIDE DEF b
    <3>3. a = b
      BY <1>3, <2>1, <2>2, <2>4, <3>1, <3>2
    <3> QED BY <3>3, Division DEF a, b
  <2> QED BY <2>3, <2>4
<1>6. DCGlobal \in Sections /\ ACGlobal \in Sections /\ ACGlobal # DCGlobal
  BY <1>1, <1>3 DEF Sections
<1> QED BY <1>4, <1>5, <1>6

\* Every section holds something.
LEMMA NoEmptySection ==
  ASSUME NEW s \in Sections
  PROVE  \/ s = DCGlobal \/ s = ACGlobal
         \/ \E i \in DCGroups : s = DCGroupSection(i)
         \/ \E g \in Groups, p \in Passes : s = ACSection(g, p)
<1>1. CASE SingleSection
  BY <1>1, SingleFacts
<1>2. CASE ~SingleSection
  <2>1. NumGroups * NumPasses \in Nat
    BY SMT
  <2>2. s \in 0..(NumDCGroups + 1 + NumGroups * NumPasses)
    BY <1>2, <2>1 DEF Sections, NumSections
  <2>3. CASE s \in 1..NumDCGroups
    <3>1. s - 1 \in DCGroups /\ s = DCGroupSection(s - 1)
      BY <1>2, <2>3 DEF DCGroupSection
    <3> QED BY <3>1
  <2>4. CASE s > NumDCGroups + 1
    <3> DEFINE a == s - NumDCGroups - 2
    <3>1. a \in 0..NumGroups * NumPasses - 1
      BY <2>1, <2>2, <2>4
    <3>2. PICK p \in Passes, g \in Groups : a = p * NumGroups + g
      BY <3>1, RowExists
    <3>3. p * NumGroups \in Nat
      BY SMT
    <3>4. s = ACSection(g, p)
      BY <1>2, <2>1, <2>2, <3>2, <3>3 DEF ACSection, ACGlobal
    <3> QED BY <3>4
  <2>5. CASE s = 0 \/ s = NumDCGroups + 1
    BY <1>2, <2>5 DEF DCGlobal, ACGlobal
  <2> QED BY <2>1, <2>2, <2>3, <2>4, <2>5
<1> QED BY <1>1, <1>2

\* The sections of either kind of frame.
LEMMA SectionTypes ==
  /\ DCGlobal \in Sections /\ ACGlobal \in Sections
  /\ \A i \in DCGroups : DCGroupSection(i) \in Sections
  /\ \A g \in Groups, p \in Passes : ACSection(g, p) \in Sections
<1>1. CASE SingleSection
  BY <1>1, SingleFacts
<1>2. CASE ~SingleSection
  BY <1>2, ManyFacts
<1> QED BY <1>1, <1>2

\* Sections form a finite set of NumSections elements.
LEMMA SectionsFinite ==
  NumSections \in Nat /\ IsFiniteSet(Sections) /\ Cardinality(Sections) = NumSections
<1>1. NumGroups * NumPasses \in Nat
  BY SMT
<1>2. NumSections \in Nat
  BY <1>1 DEF NumSections
<1> QED BY <1>2, FS_Interval DEF Sections

\* A segment of n numbers.
LEMMA Segment ==
  ASSUME NEW d \in Nat, NEW n \in Nat
  PROVE  /\ IsFiniteSet(d..d + n - 1) /\ Cardinality(d..d + n - 1) = n
         /\ n # 0 => d + n - 1 \in d..d + n - 1
         /\ \A e \in d..d + n - 1 : n > 0
<1>1. d \in Int /\ d + n - 1 \in Int
  OBVIOUS
<1>2. /\ IsFiniteSet(d..d + n - 1)
      /\ Cardinality(d..d + n - 1)
           = IF d > d + n - 1 THEN 0 ELSE (d + n - 1) - d + 1
  BY <1>1, FS_Interval
<1>3. (IF d > d + n - 1 THEN 0 ELSE (d + n - 1) - d + 1) = n
  OBVIOUS
<1> QED BY <1>2, <1>3

\* NumACPasses() counts the passes from the first one that is not decoded up to
\* the first one that is not given.
LEMMA NewPasses ==
  ASSUME NEW g \in Groups, decoded_passes_per_ac_group_[g] \in 0..NumPasses
  PROVE  LET d == decoded_passes_per_ac_group_[g]
         IN  /\ NumACPasses(g) \in Nat /\ d + NumACPasses(g) \in 0..NumPasses
             /\ \A p \in d..d + NumACPasses(g) - 1 :
                  p \in Passes /\ ACSection(g, p) \in fresh
             /\ d < NumPasses /\ ACSection(g, d) \in fresh => NumACPasses(g) > 0
<1> DEFINE d == decoded_passes_per_ac_group_[g]
           K == {p \in Passes : /\ p >= d
                                /\ \A q \in d..p : ACSection(g, q) \in fresh}
           n == Cardinality(K)
<1>1. K \subseteq Passes /\ IsFiniteSet(Passes) /\ IsFiniteSet(K)
  <2>1. IsFiniteSet(Passes)
    BY FS_Interval
  <2> QED BY <2>1, FS_Subset
<1>2. n \in Nat
  BY <1>1, FS_CardinalityType
<1>3. ASSUME NEW p \in K PROVE p <= d + n - 1
  <2>1. d..p \subseteq K
    OBVIOUS
  <2>2. Cardinality(d..p) = p - d + 1
    BY FS_Interval
  <2>3. Cardinality(d..p) <= n
    BY <1>1, <2>1, FS_Subset
  <2> QED BY <1>2, <2>2, <2>3
<1>a. n = Cardinality(K) /\ d \in Nat
  OBVIOUS
<1>b. NumACPasses(g) = n
  BY DEF NumACPasses
<1> HIDE DEF n
<1>4. K = d..d + n - 1
  <2>1. K \subseteq d..d + n - 1
    BY <1>3
  <2>2. IsFiniteSet(d..d + n - 1) /\ Cardinality(d..d + n - 1) = n
    <3> HIDE DEF d
    <3> QED BY <1>a, <1>2, Segment
  <2> QED BY <1>a, <2>1, <2>2, FS_Subset
<1>6. d + n \in 0..NumPasses
  <2>1. CASE n = 0
    BY <2>1
  <2>2. CASE n # 0
    <3>1. d + n - 1 \in K
      <4> HIDE DEF d, K
      <4> QED BY <1>a, <1>2, <1>4, <2>2, Segment
    <3> QED BY <1>2, <3>1
  <2> QED BY <2>1, <2>2
<1>7. \A p \in d..d + n - 1 : p \in Passes /\ ACSection(g, p) \in fresh
  BY <1>4
<1>8. d < NumPasses /\ ACSection(g, d) \in fresh => n > 0
  <2> SUFFICES ASSUME d < NumPasses, ACSection(g, d) \in fresh PROVE n > 0
    OBVIOUS
  <2>1. d \in K
    OBVIOUS
  <2> HIDE DEF d, K
  <2> QED BY <1>a, <1>2, <1>4, <2>1, Segment
<1> QED BY <1>2, <1>b, <1>6, <1>7, <1>8
-----------------------------------------------------------------------------
(* The history of what was decoded. *)

\* The parts of a frame.
LEMMA PartsFacts ==
  /\ <<"dcGlobal">> \in Parts /\ <<"acGlobal">> \in Parts
  /\ \A i \in DCGroups : <<"dc", i>> \in Parts
  /\ \A g \in Groups, p \in Passes : <<"ac", g, p>> \in Parts
  /\ \A u \in Parts : \/ u = <<"dcGlobal">> \/ u = <<"acGlobal">>
                      \/ \E i \in DCGroups : u = <<"dc", i>>
                      \/ \E g \in Groups, p \in Passes : u = <<"ac", g, p>>
BY DEF Parts

\* Parts are told apart.
LEMMA PartsDiffer ==
  /\ <<"dcGlobal">> # <<"acGlobal">>
  /\ \A i \in DCGroups : /\ <<"dc", i>> # <<"dcGlobal">>
                         /\ <<"dc", i>> # <<"acGlobal">>
                         /\ \A j \in DCGroups : <<"dc", i>> = <<"dc", j>> => i = j
  /\ \A g \in Groups, p \in Passes :
       /\ <<"ac", g, p>> # <<"dcGlobal">>
       /\ <<"ac", g, p>> # <<"acGlobal">>
       /\ \A i \in DCGroups : <<"ac", g, p>> # <<"dc", i>>
<1>1. <<"dcGlobal">>[1] = "dcGlobal" /\ <<"acGlobal">>[1] = "acGlobal"
  OBVIOUS
<1>2. \A i \in DCGroups : <<"dc", i>>[1] = "dc"
  OBVIOUS
<1>3. \A g \in Groups, p \in Passes : <<"ac", g, p>>[1] = "ac"
  OBVIOUS
<1> QED BY <1>1, <1>2, <1>3

\* Decoding a part that was not decoded counts it once.
LEMMA DecodeNothing ==
  ASSUME decodes \in [Parts -> Nat], Decode({})
  PROVE  decodes' = decodes
BY DEF Decode

LEMMA DecodeType ==
  ASSUME decodes \in [Parts -> Nat], NEW S, Decode(S)
  PROVE  decodes' \in [Parts -> Nat]
BY DEF Decode

LEMMA DecodeParts ==
  ASSUME NEW S, Decode(S), NEW u \in Parts
  PROVE  decodes'[u] = IF u \in S THEN decodes[u] + 1 ELSE decodes[u]
BY DEF Decode

LEMMA CountsGlobal ==
  ASSUME CountsInv, ~decoded_dc_global_, decoded_dc_global_' = TRUE,
         Decode({<<"dcGlobal">>}),
         UNCHANGED <<decoded_dc_groups_, decoded_ac_global_,
                     decoded_passes_per_ac_group_>>
  PROVE  CountsInv'
<1> DEFINE S == {<<"dcGlobal">>}
<1>1. /\ <<"dcGlobal">> \in S /\ <<"acGlobal">> \notin S
      /\ \A i \in DCGroups : <<"dc", i>> \notin S
      /\ \A g \in Groups, p \in Passes : <<"ac", g, p>> \notin S
  BY PartsDiffer
<1>2. Decode(S)
  OBVIOUS
<1> HIDE DEF S
<1>3. /\ decodes'[<<"dcGlobal">>] = decodes[<<"dcGlobal">>] + 1
      /\ decodes'[<<"acGlobal">>] = decodes[<<"acGlobal">>]
      /\ \A i \in DCGroups : decodes'[<<"dc", i>>] = decodes[<<"dc", i>>]
      /\ \A g \in Groups, p \in Passes :
           decodes'[<<"ac", g, p>>] = decodes[<<"ac", g, p>>]
  BY <1>1, <1>2, PartsFacts, DecodeParts
<1> QED BY <1>3 DEF CountsInv

LEMMA CountsACGlobal ==
  ASSUME CountsInv, ~decoded_ac_global_, decoded_ac_global_' = TRUE,
         Decode({<<"acGlobal">>}),
         UNCHANGED <<decoded_dc_groups_, decoded_dc_global_,
                     decoded_passes_per_ac_group_>>
  PROVE  CountsInv'
<1> DEFINE S == {<<"acGlobal">>}
<1>1. /\ <<"acGlobal">> \in S /\ <<"dcGlobal">> \notin S
      /\ \A i \in DCGroups : <<"dc", i>> \notin S
      /\ \A g \in Groups, p \in Passes : <<"ac", g, p>> \notin S
  BY PartsDiffer
<1>2. Decode(S)
  OBVIOUS
<1> HIDE DEF S
<1>3. /\ decodes'[<<"acGlobal">>] = decodes[<<"acGlobal">>] + 1
      /\ decodes'[<<"dcGlobal">>] = decodes[<<"dcGlobal">>]
      /\ \A i \in DCGroups : decodes'[<<"dc", i>>] = decodes[<<"dc", i>>]
      /\ \A g \in Groups, p \in Passes :
           decodes'[<<"ac", g, p>>] = decodes[<<"ac", g, p>>]
  BY <1>1, <1>2, PartsFacts, DecodeParts
<1> QED BY <1>3 DEF CountsInv

LEMMA CountsDC ==
  ASSUME CountsInv, NEW i \in DCGroups, i \notin decoded_dc_groups_,
         decoded_dc_groups_' = decoded_dc_groups_ \cup {i},
         Decode({<<"dc", i>>}),
         UNCHANGED <<decoded_dc_global_, decoded_ac_global_,
                     decoded_passes_per_ac_group_>>
  PROVE  CountsInv'
<1> DEFINE S == {<<"dc", i>>}
<1>1. /\ <<"dcGlobal">> \notin S /\ <<"acGlobal">> \notin S
      /\ \A j \in DCGroups : <<"dc", j>> \in S <=> j = i
      /\ \A g \in Groups, p \in Passes : <<"ac", g, p>> \notin S
  BY PartsDiffer
<1>2. Decode(S)
  OBVIOUS
<1> HIDE DEF S
<1>3. /\ decodes'[<<"dcGlobal">>] = decodes[<<"dcGlobal">>]
      /\ decodes'[<<"acGlobal">>] = decodes[<<"acGlobal">>]
      /\ \A j \in DCGroups : decodes'[<<"dc", j>>]
                               = IF j = i THEN decodes[<<"dc", j>>] + 1
                                          ELSE decodes[<<"dc", j>>]
      /\ \A g \in Groups, p \in Passes :
           decodes'[<<"ac", g, p>>] = decodes[<<"ac", g, p>>]
  BY <1>1, <1>2, PartsFacts, DecodeParts
<1> QED BY <1>3 DEF CountsInv

LEMMA CountsAC ==
  ASSUME CountsInv, NEW g \in Groups, NEW n \in Nat, NEW S,
         decoded_passes_per_ac_group_ \in [Groups -> 0..NumPasses],
         decoded_passes_per_ac_group_[g] + n <= NumPasses,
         \A p \in decoded_passes_per_ac_group_[g]
                    ..decoded_passes_per_ac_group_[g] + n - 1 :
           ACSection(g, p) \in fresh,
         decoded_passes_per_ac_group_' =
           [decoded_passes_per_ac_group_ EXCEPT
              ![g] = decoded_passes_per_ac_group_[g] + n],
         S = {u \in Parts :
                /\ u[1] = "ac" /\ u[2] = g /\ ACSection(g, u[3]) \in fresh
                /\ u[3] \in decoded_passes_per_ac_group_[g]
                              ..decoded_passes_per_ac_group_[g] + n - 1},
         Decode(S),
         UNCHANGED <<decoded_dc_global_, decoded_ac_global_, decoded_dc_groups_>>
  PROVE  CountsInv'
<1> DEFINE d == decoded_passes_per_ac_group_[g]
<1>1. /\ <<"dcGlobal">> \notin S /\ <<"acGlobal">> \notin S
      /\ \A j \in DCGroups : <<"dc", j>> \notin S
  <2>1. <<"dcGlobal">>[1] # "ac" /\ <<"acGlobal">>[1] # "ac"
    OBVIOUS
  <2>2. \A j \in DCGroups : <<"dc", j>>[1] # "ac"
    OBVIOUS
  <2> QED BY <2>1, <2>2
<1>2. \A h \in Groups, p \in Passes :
        <<"ac", h, p>> \in S <=> h = g /\ p \in d..d + n - 1
  BY PartsFacts
<1>3. /\ decodes'[<<"dcGlobal">>] = decodes[<<"dcGlobal">>]
      /\ decodes'[<<"acGlobal">>] = decodes[<<"acGlobal">>]
      /\ \A j \in DCGroups : decodes'[<<"dc", j>>] = decodes[<<"dc", j>>]
  BY <1>1, PartsFacts, DecodeParts
<1>4. ASSUME NEW h \in Groups, NEW p \in Passes
      PROVE  decodes'[<<"ac", h, p>>]
               = IF p < decoded_passes_per_ac_group_'[h] THEN 1 ELSE 0
  <2>1. decodes'[<<"ac", h, p>>] = IF h = g /\ p \in d..d + n - 1
                                     THEN decodes[<<"ac", h, p>>] + 1
                                     ELSE decodes[<<"ac", h, p>>]
    <3>1. <<"ac", h, p>> \in Parts
      BY PartsFacts
    <3>2. decodes'[<<"ac", h, p>>] = IF <<"ac", h, p>> \in S
                                       THEN decodes[<<"ac", h, p>>] + 1
                                       ELSE decodes[<<"ac", h, p>>]
      BY <3>1, DecodeParts
    <3> QED BY <1>2, <3>2
  <2>2. decodes[<<"ac", h, p>>]
          = IF p < decoded_passes_per_ac_group_[h] THEN 1 ELSE 0
    BY DEF CountsInv
  <2>3. decoded_passes_per_ac_group_'[h]
          = IF h = g THEN d + n ELSE decoded_passes_per_ac_group_[h]
    OBVIOUS
  <2>4. d \in Nat
    OBVIOUS
  <2> QED BY <2>1, <2>2, <2>3, <2>4
<1> QED BY <1>3, <1>4 DEF CountsInv
-----------------------------------------------------------------------------
(* Types. *)

LEMMA InitType == Init => TypeOK
<1> SUFFICES ASSUME Init PROVE TypeOK
  OBVIOUS
<1>1. /\ section_status \in [Sections -> Status]
      /\ decodes \in [Parts -> Nat]
      /\ running \in [Threads -> Groups \cup {NoGroup}]
      /\ decoded_passes_per_ac_group_ \in [Groups -> 0..NumPasses]
  BY DEF Init, Status
<1>2. {decoded_dc_global_, decoded_ac_global_, finalized_dc_, is_finalized_,
       allocated_, allow_partial_frames_, allow_partial_dc_global_, can_return_dc,
       jpeg, render_pipeline, use_task_id_, has_error} \subseteq BOOLEAN
  BY DEF Init
<1> QED BY <1>1, <1>2, SectionsFinite DEF Init, TypeOK, Phases

LEMMA InitFrameType ==
  ASSUME TypeOK, InitFrame
  PROVE  TypeOK'
<1>1. /\ section_status' \in [Sections -> Status]
      /\ decodes' \in [Parts -> Nat]
      /\ running' \in [Threads -> Groups \cup {NoGroup}]
      /\ decoded_passes_per_ac_group_' \in [Groups -> 0..NumPasses]
  BY DEF InitFrame, Status, TypeOK
<1>2. {decoded_dc_global_', decoded_ac_global_', finalized_dc_', is_finalized_',
       allocated_', allow_partial_frames_', allow_partial_dc_global_',
       can_return_dc', jpeg', render_pipeline', use_task_id_', has_error'}
         \subseteq BOOLEAN
  BY DEF InitFrame, TypeOK
<1>a. max_passes_' \in 0..NumPasses
  <2>1. NumPasses \in 0..NumPasses
    OBVIOUS
  <2>2. max_passes_' = NumPasses \/ max_passes_' \in 0..NumPasses
    BY DEF InitFrame
  <2> QED BY <2>1, <2>2
<1>3. max_passes_' \in 0..NumPasses /\ caller' \in {"api", "file"}
      /\ todo' \subseteq DCGroups \cup Groups
  BY <1>a DEF InitFrame, TypeOK
<1> QED BY <1>1, <1>2, <1>3, SectionsFinite DEF InitFrame, TypeOK, Phases

LEMMA ProcessSectionsType ==
  ASSUME TypeOK, NEW S \in SUBSET Sections, ProcessSections(S)
  PROVE  TypeOK'
<1>1. section_status' \in [Sections -> Status]
  BY DEF ProcessSections, Status
<1>2. decodes' \in [Parts -> Nat]
  BY DecodeType DEF ProcessSections, TypeOK
<1>3. {decoded_dc_global_, decoded_dc_global_', has_error'} \subseteq BOOLEAN
  BY DEF ProcessSections, TypeOK
<1>4. /\ sections' = S /\ fresh' \subseteq S
      /\ processed_section_' \subseteq Sections
      /\ todo' \subseteq DCGroups \cup Groups
      /\ phase' \in {"dc", "failed"}
  BY DEF ProcessSections, TypeOK, Fail
<1>5. UNCHANGED <<decoded_dc_groups_, finalized_dc_, decoded_ac_global_,
                  decoded_passes_per_ac_group_, allocated_, render_pipeline,
                  num_sections_done_, is_finalized_, setup, storage, running>>
  BY DEF ProcessSections
<1> QED BY <1>1, <1>2, <1>3, <1>4, <1>5 DEF TypeOK, Phases, setup, storage

LEMMA ProcessDCGroupType ==
  ASSUME TypeOK, NEW i \in DCGroups, ProcessDCGroup(i)
  PROVE  TypeOK'
<1>1. section_status' \in [Sections -> Status]
  BY DEF ProcessDCGroup, TypeOK, Status
<1>2. decodes' \in [Parts -> Nat]
  BY DecodeType DEF ProcessDCGroup, TypeOK
<1>3. has_error' \in BOOLEAN
  BY DEF ProcessDCGroup, TypeOK
<1>4. decoded_dc_groups_' \subseteq DCGroups /\ todo' \subseteq DCGroups \cup Groups
  BY DEF ProcessDCGroup, TypeOK
<1>5. UNCHANGED <<processed_section_, decoded_dc_global_, finalized_dc_,
                 decoded_ac_global_, decoded_passes_per_ac_group_, allocated_,
                 render_pipeline, num_sections_done_, is_finalized_, setup,
                 storage, phase, sections, fresh, running>>
  BY DEF ProcessDCGroup
<1> QED BY <1>1, <1>2, <1>3, <1>4, <1>5 DEF TypeOK, setup, storage

\* The number of sections done is within its bounds.
LEMMA NumDoneType ==
  ASSUME sections \subseteq Sections
  PROVE  NumDone \in 0..NumSections
<1> DEFINE S == {s \in sections : section_status[s] \in {"kDone", "kDuplicate"}}
<1>1. S \subseteq Sections
  OBVIOUS
<1>2. IsFiniteSet(S) /\ Cardinality(S) <= NumSections
  BY <1>1, SectionsFinite, FS_Subset
<1>3. Cardinality(S) \in Nat
  BY <1>2, FS_CardinalityType
<1> QED BY <1>2, <1>3, SectionsFinite DEF NumDone

LEMMA ReturnType ==
  ASSUME TypeOK, ReturnTrue
  PROVE  /\ phase' = "returned" /\ processed_section_' \subseteq Sections
         /\ num_sections_done_' \in 0..NumSections
BY NumDoneType DEF ReturnTrue, TypeOK, UnmarkUndone

LEMMA FinalizeDCType ==
  ASSUME TypeOK, FinalizeDC
  PROVE  TypeOK'
<1>1. UNCHANGED <<decoded_dc_global_, decoded_dc_groups_, decoded_ac_global_,
                  decoded_passes_per_ac_group_, decodes, is_finalized_, setup,
                  storage, call>>
  BY DEF FinalizeDC, progress
<1>2. phase' \in Phases /\ processed_section_' \subseteq Sections
      /\ num_sections_done_' \in 0..NumSections
  BY ReturnType DEF FinalizeDC, progress, Fail, TypeOK, Phases
<1>3. {finalized_dc_', render_pipeline', allocated_'} \subseteq BOOLEAN
  <2>1. {finalized_dc_, render_pipeline, allocated_} \subseteq BOOLEAN
    BY DEF TypeOK
  <2> QED BY <2>1 DEF FinalizeDC, progress
<1> QED BY <1>1, <1>2, <1>3 DEF TypeOK, setup, storage, call

LEMMA StorageType ==
  ASSUME TypeOK, PrepareStorage \/ UNCHANGED storage
  PROVE  /\ group_dec_caches_' \in 0..NumThreads /\ num_threads' \in 0..NumThreads
         /\ use_task_id_' \in BOOLEAN
<1>1. CASE PrepareStorage
  BY <1>1 DEF PrepareStorage, StorageSize, TypeOK
<1>2. CASE UNCHANGED storage
  BY <1>2 DEF storage, TypeOK
<1> QED BY <1>1, <1>2

LEMMA ProcessACGlobalType ==
  ASSUME TypeOK, ProcessACGlobal
  PROVE  TypeOK'
<1>1. UNCHANGED <<decoded_dc_global_, decoded_dc_groups_, finalized_dc_,
                 decoded_passes_per_ac_group_, allocated_, render_pipeline,
                 is_finalized_, setup, sections, fresh, has_error, running>>
  BY DEF ProcessACGlobal
<1>2. phase' \in Phases /\ processed_section_' \subseteq Sections
      /\ num_sections_done_' \in 0..NumSections
  BY ReturnType DEF ProcessACGlobal, Fail, TypeOK, Phases
<1>3. decoded_ac_global_' \in BOOLEAN
  BY DEF ProcessACGlobal, TypeOK
<1>4. section_status' \in [Sections -> Status]
  BY DEF ProcessACGlobal, TypeOK, Status
<1>5. decodes' \in [Parts -> Nat]
  BY DecodeType DEF ProcessACGlobal, TypeOK
<1>6. /\ group_dec_caches_' \in 0..NumThreads /\ num_threads' \in 0..NumThreads
      /\ use_task_id_' \in BOOLEAN
  BY StorageType DEF ProcessACGlobal
<1>7. todo' \subseteq DCGroups \cup Groups
  BY DEF ProcessACGlobal, TypeOK
<1> QED BY <1>1, <1>2, <1>3, <1>4, <1>5, <1>6, <1>7 DEF TypeOK, setup

LEMMA GroupTasksType ==
  ASSUME TypeOK, NEW t \in Threads,
         (\E g \in Groups : StartGroup(t, g)) \/ DrawGroup(t)
  PROVE  TypeOK'
<1>1. UNCHANGED <<progress, num_sections_done_, is_finalized_, setup, storage,
                  phase, sections, fresh, section_status>>
  BY DEF StartGroup, DrawGroup
<1>2. running' \in [Threads -> Groups \cup {NoGroup}]
  BY DEF StartGroup, DrawGroup, TypeOK
<1>3. todo' \subseteq DCGroups \cup Groups
  BY DEF StartGroup, DrawGroup, TypeOK
<1>4. has_error' \in BOOLEAN
  BY DEF StartGroup, DrawGroup, TypeOK
<1> QED BY <1>1, <1>2, <1>3, <1>4 DEF TypeOK, progress, setup, storage

LEMMA ProcessACGroupType ==
  ASSUME TypeOK, NEW t \in Threads, ProcessACGroup(t)
  PROVE  TypeOK'
<1>1. UNCHANGED <<processed_section_, decoded_dc_global_, decoded_dc_groups_,
                 finalized_dc_, decoded_ac_global_, allocated_, render_pipeline,
                 num_sections_done_, is_finalized_, setup, storage, phase, sections,
                 fresh, todo>>
  BY DEF ProcessACGroup
<1>2. running' \in [Threads -> Groups \cup {NoGroup}]
  BY DEF ProcessACGroup, TypeOK
<1>3. running[t] \in Groups
  BY DEF ProcessACGroup, TypeOK
<1>4. decoded_passes_per_ac_group_' \in [Groups -> 0..NumPasses]
  <2>1. decoded_passes_per_ac_group_ \in [Groups -> 0..NumPasses]
    BY DEF TypeOK
  <2>2. decoded_passes_per_ac_group_[running[t]] + NumACPasses(running[t])
          \in 0..NumPasses
    BY <1>3, <2>1, NewPasses
  <2> QED BY <1>3, <2>1, <2>2 DEF ProcessACGroup
<1>5. section_status' \in [Sections -> Status]
  BY DEF ProcessACGroup, TypeOK, Status
<1>6. decodes' \in [Parts -> Nat]
  BY DecodeType DEF ProcessACGroup, TypeOK
<1>7. has_error' \in BOOLEAN
  BY DEF ProcessACGroup, TypeOK
<1> QED BY <1>1, <1>2, <1>4, <1>5, <1>6, <1>7 DEF TypeOK, setup, storage

LEMMA FinishSectionsType ==
  ASSUME TypeOK, FinishSections
  PROVE  TypeOK'
<1>1. UNCHANGED <<decoded_dc_global_, decoded_dc_groups_, finalized_dc_,
                 decoded_ac_global_, decoded_passes_per_ac_group_, allocated_,
                 render_pipeline, decodes, is_finalized_, setup, storage, call>>
  BY DEF FinishSections
<1>2. phase' \in Phases /\ processed_section_' \subseteq Sections
      /\ num_sections_done_' \in 0..NumSections
  BY ReturnType DEF FinishSections, Fail, TypeOK, Phases
<1> QED BY <1>1, <1>2 DEF TypeOK, setup, storage, call

LEMMA BeginFlushType ==
  ASSUME TypeOK, BeginFlush, is_finalized_' \in BOOLEAN
  PROVE  TypeOK'
<1>1. UNCHANGED <<processed_section_, decoded_dc_global_, decoded_dc_groups_,
                 finalized_dc_, decoded_ac_global_, decoded_passes_per_ac_group_,
                 render_pipeline, decodes, num_sections_done_, setup, sections,
                 fresh, section_status, running>>
  BY DEF BeginFlush
<1>2. phase' = "flush" /\ allocated_' = TRUE /\ has_error' = FALSE
      /\ todo' \subseteq Groups
  BY DEF BeginFlush, Incomplete
<1>3. /\ group_dec_caches_' \in 0..NumThreads /\ num_threads' \in 0..NumThreads
      /\ use_task_id_' \in BOOLEAN
  BY StorageType DEF BeginFlush, FlushStorage
<1>4. {allocated_', has_error'} \subseteq BOOLEAN
  BY <1>2
<1> QED BY <1>1, <1>2, <1>3, <1>4 DEF TypeOK, setup, Phases

LEMMA AfterSectionsType ==
  ASSUME TypeOK, AfterSections
  PROVE  TypeOK'
<1>1. is_finalized_' \in BOOLEAN
  BY DEF AfterSections, TypeOK
<1>2. CASE BeginFlush
  BY <1>1, <1>2, BeginFlushType
<1>3. CASE UNCHANGED <<progress, num_sections_done_, setup, storage, call>>
           /\ phase' \in Phases
  BY <1>1, <1>3 DEF TypeOK, progress, setup, storage, call
<1> QED BY <1>2, <1>3 DEF AfterSections, Fail, Phases

\* The variables of FrameDecoder keep their types.
LEMMA TypeStep ==
  ASSUME TypeOK, [Next]_vars
  PROVE  TypeOK'
<1>1. CASE FlushImage
  BY <1>1, BeginFlushType DEF FlushImage, TypeOK
<1>2. CASE FinishFlush
  BY <1>2 DEF FinishFlush, TypeOK, Phases, Fail, progress, setup, storage, call
<1>3. CASE UNCHANGED vars
  BY <1>3 DEF vars, TypeOK, progress, setup, storage, call
<1> QED BY <1>1, <1>2, <1>3, InitFrameType, ProcessSectionsType,
           ProcessDCGroupType, FinalizeDCType, ProcessACGlobalType,
           GroupTasksType, ProcessACGroupType, FinishSectionsType,
           AfterSectionsType
        DEF Next, Step
-----------------------------------------------------------------------------
(* Tasks and storage of the pool. *)

\* The storage is large enough for the threads that the pool announced.
LEMMA StorageStep ==
  ASSUME TypeOK, StorageInv, PrepareStorage \/ UNCHANGED storage
  PROVE  StorageInv'
<1>1. CASE PrepareStorage
  <2>1. PICK n \in 1..NumThreads :
          /\ num_threads' = n
          /\ group_dec_caches_' = IF StorageSize(n) > group_dec_caches_
                                    THEN StorageSize(n) ELSE group_dec_caches_
          /\ use_task_id_' = (n > NumGroups)
    BY <1>1 DEF PrepareStorage
  <2>2. use_task_id_' <=> num_threads' > NumGroups
    BY <2>1
  <2>3. StorageSize(num_threads)' = StorageSize(n) /\ StorageSize(n) \in Nat
    BY <2>1 DEF StorageSize
  <2>4. group_dec_caches_' >= StorageSize(n)
    BY <2>1, <2>3 DEF TypeOK
  <2> QED BY <2>2, <2>3, <2>4 DEF StorageInv
<1>2. CASE UNCHANGED storage
  BY <1>2 DEF storage, StorageInv, StorageSize
<1> QED BY <1>1, <1>2

LEMMA StorageNext ==
  ASSUME TypeOK, StorageInv, [Next]_vars
  PROVE  StorageInv'
<1>1. CASE InitFrame
  <2>1. group_dec_caches_' = 0 /\ use_task_id_' = FALSE /\ num_threads' = 0
    BY <1>1 DEF InitFrame
  <2>2. ~use_task_id_'
    BY <2>1
  <2>3. StorageSize(0) = 0 /\ ~(0 > NumGroups)
    BY DEF StorageSize
  <2>4. StorageSize(num_threads)' = 0
    BY <2>1, <2>3 DEF StorageSize
  <2> QED BY <2>1, <2>2, <2>3, <2>4 DEF StorageInv
<1>2. CASE ~InitFrame
  <2>1. PrepareStorage \/ UNCHANGED storage
    BY <1>2 DEF Next, Step, vars, ProcessSections, ProcessDCGroup, FinalizeDC,
       ProcessACGlobal, StartGroup, ProcessACGroup, FinishSections, FlushImage,
       AfterSections, BeginFlush, FlushStorage, DrawGroup, FinishFlush, storage
  <2> QED BY <2>1, StorageStep
<1> QED BY <1>1, <1>2

LEMMA InitTasks == Init => TasksInv /\ StorageInv
<1> SUFFICES ASSUME Init PROVE TasksInv /\ StorageInv
  OBVIOUS
<1>1. group_dec_caches_ = 0 /\ use_task_id_ = FALSE /\ num_threads = 0
  BY DEF Init
<1>2. ~use_task_id_
  BY <1>1
<1>3. StorageSize(num_threads) = 0 /\ ~(0 > NumGroups)
  BY <1>1 DEF StorageSize
<1>4. StorageInv
  BY <1>1, <1>2, <1>3 DEF StorageInv
<1>5. TasksInv
  BY DEF Init, TasksInv
<1> QED BY <1>4, <1>5

\* A step that starts or ends no task of a group, outside of the DC groups.
LEMMA TasksFrame ==
  ASSUME TypeOK, TasksInv, UNCHANGED running,
         phase' \notin {"dc"},
         phase' \notin {"ac", "flush"} => todo' = {},
         phase' \in {"ac", "flush"} => todo' \subseteq Groups,
         \A t \in Threads : running[t] = NoGroup
  PROVE  TasksInv'
BY DEF TasksInv

LEMMA NobodyRuns ==
  ASSUME TasksInv, phase \notin {"ac", "flush"}
  PROVE  \A t \in Threads : running[t] = NoGroup
BY DEF TasksInv

LEMMA TasksNext ==
  ASSUME TypeOK, TasksInv, BetweenInv, [Next]_vars
  PROVE  TasksInv'
<1>1. CASE InitFrame
  BY <1>1, NobodyRuns, TasksFrame DEF InitFrame, TasksInv
<1>2. CASE FlushImage
  <2>1. running' = running /\ phase' = "flush" /\ todo' \subseteq Groups
    BY <1>2 DEF FlushImage, BeginFlush, Incomplete
  <2>2. phase = "idle"
    BY <1>2 DEF FlushImage
  <2> QED BY <2>1, <2>2, NobodyRuns, TasksFrame
<1>3. CASE AfterSections
  <2>1. /\ running' = running
        /\ \/ phase' = "flush" /\ todo' \subseteq Groups
           \/ phase' \in {"finished", "failed", "idle"} /\ todo' = todo
    BY <1>3 DEF AfterSections, BeginFlush, Incomplete, Fail, call
  <2>2. phase = "returned" /\ todo = {}
    BY <1>3 DEF AfterSections, TasksInv
  <2> QED BY <2>1, <2>2, NobodyRuns, TasksFrame
<1>4. CASE FinishFlush \/ FinishSections
  <2>1. /\ running' = running /\ todo' = todo /\ todo = {}
        /\ \A t \in Threads : running[t] = NoGroup
        /\ phase' \in {"idle", "finished", "failed", "returned"}
    BY <1>4 DEF FinishFlush, FinishSections, PoolIsDone, Fail, ReturnTrue, call
  <2> QED BY <2>1, TasksFrame
<1>5. CASE FinalizeDC
  <2>1. /\ running' = running /\ todo' = todo /\ todo = {} /\ phase = "dc"
        /\ phase' \in {"acGlobal", "failed", "returned"}
    BY <1>5 DEF FinalizeDC, Fail, ReturnTrue, call
  <2> QED BY <2>1, NobodyRuns, TasksFrame
<1>6. CASE ProcessACGlobal
  <2>1. /\ running' = running /\ phase = "acGlobal" /\ todo = {}
        /\ \/ phase' = "ac" /\ todo' \subseteq Groups
           \/ phase' \in {"failed", "returned"} /\ todo' = todo
    BY <1>6 DEF ProcessACGlobal, Fail, ReturnTrue, TasksInv
  <2> QED BY <2>1, NobodyRuns, TasksFrame
<1>7. ASSUME NEW t \in Threads, NEW g \in Groups, StartGroup(t, g)
      PROVE  TasksInv'
  <2>1. /\ phase' = phase /\ phase \in {"ac", "flush"} /\ num_threads' = num_threads
        /\ t < num_threads /\ running[t] = NoGroup /\ g \in todo
        /\ todo' = todo \ {g} /\ g # NoGroup
    BY <1>7 DEF StartGroup, storage, NoGroup
  <2>2. /\ running'[t] = g
        /\ \A u \in Threads : u # t => running'[u] = running[u]
    BY <1>7 DEF StartGroup, TypeOK
  <2>3. todo \subseteq Groups
    BY <2>1 DEF TasksInv
  <2>4. \A u \in Threads : running[u] # NoGroup => running[u] # g
    BY <2>1 DEF TasksInv
  <2> QED BY <2>1, <2>2, <2>3, <2>4 DEF TasksInv
<1>8. ASSUME NEW t \in Threads, ProcessACGroup(t) \/ DrawGroup(t)
      PROVE  TasksInv'
  <2>1. /\ phase' = phase /\ phase \in {"ac", "flush"} /\ num_threads' = num_threads
        /\ todo' = todo
    BY <1>8 DEF ProcessACGroup, DrawGroup, storage
  <2>2. /\ running'[t] = NoGroup
        /\ \A u \in Threads : u # t => running'[u] = running[u]
    BY <1>8 DEF ProcessACGroup, DrawGroup, TypeOK
  <2> QED BY <2>1, <2>2 DEF TasksInv
<1>9. ASSUME NEW i \in DCGroups, ProcessDCGroup(i) PROVE TasksInv'
  <2>1. /\ phase' = phase /\ phase = "dc" /\ i \in todo /\ todo' = todo \ {i}
        /\ fresh' = fresh /\ decoded_dc_global_' = decoded_dc_global_
        /\ \/ decoded_dc_groups_' = decoded_dc_groups_ \cup {i}
           \/ decoded_dc_groups_' = decoded_dc_groups_
        /\ running' = running
    BY <1>9 DEF ProcessDCGroup
  <2>2. \A t \in Threads : running[t] = NoGroup
    BY <2>1, NobodyRuns
  <2> QED BY <2>1, <2>2 DEF TasksInv
<1>10. ASSUME NEW S \in SUBSET Sections, ProcessSections(S) PROVE TasksInv'
  <2>1. /\ running' = running /\ phase = "idle" /\ todo = {}
        /\ decoded_dc_groups_' = decoded_dc_groups_
    BY <1>10 DEF ProcessSections, TasksInv
  <2>2. \/ phase' = "failed" /\ todo' = todo
        \/ /\ phase' = "dc"
           /\ todo' = {i \in DCGroups : decoded_dc_global_' /\ DCGroupSection(i) \in fresh'}
    BY <1>10 DEF ProcessSections, Fail
  <2>3. \A t \in Threads : running[t] = NoGroup
    BY <2>1, NobodyRuns
  <2>4. CASE phase' = "failed"
    BY <2>1, <2>2, <2>3, <2>4, TasksFrame
  <2>5. CASE phase' = "dc"
    <3>1. ASSUME NEW i \in todo'
          PROVE  /\ i \in DCGroups /\ DCGroupSection(i) \in fresh'
                 /\ i \notin decoded_dc_groups_' /\ decoded_dc_global_'
      <4>1. i \in DCGroups /\ DCGroupSection(i) \in fresh' /\ decoded_dc_global_'
        BY <2>2, <2>5
      <4>2. DCGroupSection(i) \in Sections /\ DCGroupSection(i) \notin processed_section_
        BY <1>10, <4>1 DEF ProcessSections
      <4>3. NothingDecoded(DCGroupSection(i))
        BY <2>1, <4>2 DEF BetweenInv, Between
      <4> QED BY <2>1, <4>1, <4>3 DEF NothingDecoded
    <3> QED BY <2>1, <2>3, <2>5, <3>1 DEF TasksInv
  <2> QED BY <2>2, <2>4, <2>5
<1>11. CASE UNCHANGED vars
  BY <1>11 DEF vars, progress, storage, call, TasksInv
<1> QED BY <1>1, <1>2, <1>3, <1>4, <1>5, <1>6, <1>7, <1>8, <1>9, <1>10, <1>11
        DEF Next, Step

\* Two threads never share a cache.
LEMMA StorageIsPrivate ==
  ASSUME TypeOK, TasksInv, StorageInv
  PROVE  StoragePrivate
<1> SUFFICES ASSUME NEW t \in Threads, NEW u \in Threads,
                    running[t] # NoGroup, running[u] # NoGroup
             PROVE  /\ GetStorageLocation(t) < group_dec_caches_
                    /\ t # u => GetStorageLocation(t) # GetStorageLocation(u)
  BY DEF StoragePrivate
<1>1. /\ running[t] \in Groups /\ t < num_threads
      /\ t # u => running[t] # running[u]
      /\ num_threads \in Nat /\ group_dec_caches_ \in Nat
  BY DEF TypeOK, TasksInv
<1>2. CASE num_threads > NumGroups
  <2>1. /\ GetStorageLocation(t) = running[t] /\ GetStorageLocation(u) = running[u]
    BY <1>2 DEF StorageInv, GetStorageLocation
  <2>2. group_dec_caches_ >= NumGroups
    BY <1>1, <1>2 DEF StorageInv, StorageSize
  <2> QED BY <1>1, <2>1, <2>2
<1>3. CASE ~(num_threads > NumGroups)
  <2>1. /\ GetStorageLocation(t) = t /\ GetStorageLocation(u) = u
    BY <1>3 DEF StorageInv, GetStorageLocation
  <2>2. group_dec_caches_ >= num_threads
    BY <1>1, <1>3 DEF StorageInv, StorageSize
  <2> QED BY <1>1, <2>1, <2>2
<1> QED BY <1>2, <1>3
-----------------------------------------------------------------------------
(* Sections, statuses and what is decoded. *)

decoded == <<decoded_dc_global_, decoded_dc_groups_, decoded_ac_global_,
             decoded_passes_per_ac_group_>>

\* A step that decodes nothing.
LEMMA NothingNew ==
  ASSUME UNCHANGED decoded, NEW s
  PROVE  /\ SectionDecoded(s)' <=> SectionDecoded(s)
         /\ NothingDecoded(s)' <=> NothingDecoded(s)
BY DEF decoded, SectionDecoded, NothingDecoded

\* A section cannot be decoded and not decoded.
LEMMA DecodedOrNot ==
  ASSUME NEW s \in Sections, SectionDecoded(s), NothingDecoded(s)
  PROVE  FALSE
BY NoEmptySection DEF SectionDecoded, NothingDecoded

\* When a call returns, the sections with the status kDone or kDuplicate are
\* those that stay processed, and they are decoded completely.
Completed ==
  \A s \in Sections : section_status[s] \in Done => SectionDecoded(s)

LEMMA ReturnStep ==
  ASSUME TypeOK, CallInv, phase \in InCall, Completed, ReturnTrue,
         UNCHANGED decoded, UNCHANGED <<sections, section_status>>
  PROVE  BetweenInv' /\ ReturnedInv'
<1>1. ASSUME NEW s \in Sections
      PROVE  s \in processed_section_' <=> section_status[s] \in Done
  <2>1. /\ processed_section_'
             = processed_section_ \ {r \in sections :
                                       section_status[r] \in {"kSkipped", "kPartial"}}
        /\ processed_section_
             = fresh \cup {r \in Sections : section_status[r] = "kDuplicate"}
        /\ fresh \subseteq sections
        /\ section_status[s] \in Status
        /\ section_status[s] = "kDone" => s \in fresh
    BY DEF ReturnTrue, UnmarkUndone, CallInv, TypeOK
  <2> QED BY <2>1 DEF Done, Status
<1>2. ReturnedInv'
  <2>1. num_sections_done_' = NumDone'
    BY DEF ReturnTrue, NumDone
  <2> QED BY <1>1, <2>1 DEF ReturnedInv
<1>3. BetweenInv'
  <2>1. ASSUME NEW s \in Sections
        PROVE  /\ s \in processed_section_' => SectionDecoded(s)'
               /\ s \notin processed_section_' => NothingDecoded(s)'
    <3>1. section_status[s] \in Done => SectionDecoded(s)
      BY DEF Completed
    <3>2. section_status[s] \notin Done => NothingDecoded(s)
      BY DEF CallInv
    <3> QED BY <1>1, <3>1, <3>2, NothingNew
  <2> QED BY <2>1 DEF BetweenInv
<1> QED BY <1>2, <1>3

\* With a section for each part the statuses are exact at every moment.
LEMMA ManyCompleted ==
  ASSUME CallInv, phase \in InCall, ~SingleSection, TypeOK
  PROVE  Completed
BY DEF CallInv, Completed, Done

\* The invariants of the next group do not see a step that only moves tasks.
SectionsInv == BetweenInv /\ CallInv /\ ReturnedInv

LEMMA SectionsFrame ==
  ASSUME SectionsInv, UNCHANGED decoded,
         UNCHANGED <<processed_section_, section_status, sections, fresh,
                     num_sections_done_>>,
         phase' \in Between => phase \in Between,
         phase' \in InCall => phase \in InCall,
         phase' = "returned" => phase = "returned"
  PROVE  SectionsInv'
<1>1. BetweenInv'
  BY NothingNew DEF SectionsInv, BetweenInv
<1>2. CallInv'
  BY NothingNew DEF SectionsInv, CallInv
<1>3. ReturnedInv'
  BY DEF SectionsInv, ReturnedInv, NumDone
<1> QED BY <1>1, <1>2, <1>3 DEF SectionsInv

LEMMA ReturnedSections ==
  ASSUME TypeOK, CallInv, phase \in InCall, Completed, ReturnTrue,
         UNCHANGED decoded, UNCHANGED <<sections, section_status>>
  PROVE  SectionsInv'
<1>1. CallInv'
  BY DEF ReturnTrue, CallInv, InCall
<1> QED BY <1>1, ReturnStep DEF SectionsInv

\* ProcessSections() sorts the sections and decodes the global DC.
LEMMA ProcessSectionsStep ==
  ASSUME TypeOK, SectionsInv, CountsInv, NEW S \in SUBSET Sections,
         ProcessSections(S)
  PROVE  SectionsInv' /\ CountsInv'
<1> DEFINE new == {s \in S : s \notin processed_section_ /\ ~Capped(s)}
<1>1. /\ phase = "idle" /\ fresh' = new
      /\ processed_section_' = processed_section_ \cup new
      /\ UNCHANGED <<decoded_dc_groups_, decoded_ac_global_,
                     decoded_passes_per_ac_group_>>
      /\ phase' \in {"dc", "failed"}
  BY DEF ProcessSections, Fail
<1>2. \A s \in Sections : /\ s \in processed_section_ => SectionDecoded(s)
                          /\ s \notin processed_section_ => NothingDecoded(s)
  BY <1>1 DEF SectionsInv, BetweenInv, Between
<1>3. DCGlobal \in Sections /\ new \subseteq Sections
  BY SectionTypes
<1>4. DCGlobal \in new => ~decoded_dc_global_
  BY <1>2, <1>3 DEF NothingDecoded
<1> DEFINE Outcome(dcStatus) ==
             section_status' = [s \in Sections |->
               IF s = DCGlobal /\ s \in new THEN dcStatus
               ELSE IF s \in processed_section_ THEN "kDuplicate" ELSE "kSkipped"]
<1>5. \/ /\ phase' = "failed" /\ Decode({})
         /\ decoded_dc_global_' = decoded_dc_global_
      \/ /\ phase' = "dc" /\ Outcome("kDone") /\ Decode({<<"dcGlobal">>})
         /\ DCGlobal \in new /\ decoded_dc_global_' = TRUE
      \/ /\ phase' = "dc" /\ Outcome("kPartial") /\ Decode({})
         /\ DCGlobal \in new /\ decoded_dc_global_' = FALSE
      \/ /\ phase' = "dc" /\ Outcome("kSkipped") /\ Decode({})
         /\ DCGlobal \notin new /\ decoded_dc_global_' = decoded_dc_global_
  BY DEF ProcessSections, Fail
<1>6. BetweenInv' /\ ReturnedInv'
  BY <1>1 DEF BetweenInv, ReturnedInv, Between
<1>7. CASE decoded_dc_global_' = TRUE /\ DCGlobal \in new /\ Outcome("kDone")
           /\ Decode({<<"dcGlobal">>}) /\ phase' = "dc"
  <2>1. CountsInv'
    BY <1>1, <1>4, <1>7, CountsGlobal
  <2>2. ASSUME NEW s \in Sections
        PROVE  /\ section_status'[s] = "kDuplicate"
                    => s \notin new /\ s \in processed_section_ /\ SectionDecoded(s)'
               /\ s \in processed_section_ => section_status'[s] = "kDuplicate"
               /\ section_status'[s] \notin Done => NothingDecoded(s)'
               /\ section_status'[s] = "kDone" =>
                    s \in new /\ (~SingleSection => SectionDecoded(s)')
    <3>1. CASE s = DCGlobal
      <4>1. section_status'[s] = "kDone" /\ s \in new
        BY <1>7, <3>1
      <4>2. ~SingleSection => SectionDecoded(s)'
        BY <1>7, <3>1, ManyFacts DEF SectionDecoded
      <4> QED BY <4>1, <4>2 DEF Done
    <3>2. CASE s # DCGlobal
      <4>1. section_status'[s] = IF s \in processed_section_ THEN "kDuplicate"
                                                            ELSE "kSkipped"
        BY <1>7, <3>2
      <4>2. /\ SectionDecoded(s)' <=> SectionDecoded(s)
            /\ NothingDecoded(s)' <=> NothingDecoded(s)
        BY <1>1, <3>2 DEF SectionDecoded, NothingDecoded
      <4> QED BY <1>2, <4>1, <4>2 DEF Done
    <3> QED BY <3>1, <3>2
  <2>3. CallInv'
    <3>1. processed_section_'
            = fresh' \cup {s \in Sections : section_status'[s] = "kDuplicate"}
      BY <1>1, <2>2 DEF TypeOK
    <3> HIDE DEF new
    <3> QED BY <1>1, <2>2, <3>1 DEF CallInv
  <2> QED BY <1>6, <2>1, <2>3 DEF SectionsInv
<1>8. CASE UNCHANGED decoded /\ Decode({})
           /\ (phase' = "failed" \/ (phase' = "dc" /\ \E x \in {"kPartial", "kSkipped"} : Outcome(x)))
  <2>1. CountsInv'
    <3>1. decodes' = decodes
      BY <1>8, DecodeNothing DEF TypeOK
    <3> QED BY <1>8, <3>1 DEF CountsInv, decoded
  <2>2. CASE phase' = "failed"
    BY <1>6, <2>1, <2>2 DEF SectionsInv, CallInv, InCall
  <2>3. CASE phase' = "dc" /\ \E x \in {"kPartial", "kSkipped"} : Outcome(x)
    <3>1. ASSUME NEW s \in Sections
          PROVE  /\ section_status'[s] = "kDuplicate" <=> s \in processed_section_
                 /\ section_status'[s] # "kDone"
                 /\ section_status'[s] \notin Done => s \notin processed_section_
      <4>1. section_status'[s] \in {"kPartial", "kSkipped", "kDuplicate"}
        BY <2>3
      <4>2. section_status'[s] = "kDuplicate" <=> s \in processed_section_
        BY <2>3
      <4> QED BY <4>1, <4>2 DEF Done
    <3>2. processed_section_'
            = fresh' \cup {s \in Sections : section_status'[s] = "kDuplicate"}
      BY <1>1, <3>1 DEF TypeOK
    <3>3. \A s \in Sections : s \in processed_section_ => s \notin new
      OBVIOUS
    <3> HIDE DEF new
    <3>4. CallInv'
      BY <1>1, <1>2, <1>8, <3>1, <3>2, <3>3, NothingNew DEF CallInv
    <3> QED BY <1>6, <2>1, <3>4 DEF SectionsInv
  <2> QED BY <1>8, <2>2, <2>3
<1>9. decoded_dc_global_' = FALSE /\ DCGlobal \in new
        => decoded_dc_global_' = decoded_dc_global_
  BY <1>4 DEF TypeOK
<1> HIDE DEF Outcome, new
<1> QED BY <1>1, <1>5, <1>7, <1>8, <1>9 DEF decoded

\* Sections of a call that are decoded get the status kDone.
LEMMA MarkDone ==
  ASSUME TypeOK, CallInv, phase \in InCall, phase' \in InCall, NEW D, D \subseteq fresh,
         \A s \in Sections : section_status'[s] = IF s \in D THEN "kDone"
                                                            ELSE section_status[s],
         UNCHANGED <<processed_section_, fresh>>,
         \A s \in Sections : s \notin D =>
           /\ SectionDecoded(s)' <=> SectionDecoded(s)
           /\ NothingDecoded(s)' <=> NothingDecoded(s),
         ~SingleSection => \A s \in D : SectionDecoded(s)'
  PROVE  SectionsInv'
<1>1. BetweenInv' /\ ReturnedInv'
  BY DEF BetweenInv, ReturnedInv, InCall, Between
<1>2. \A s \in Sections : s \in D => section_status[s] # "kDuplicate"
  BY DEF CallInv
<1>3. processed_section_'
        = fresh' \cup {s \in Sections : section_status'[s] = "kDuplicate"}
  BY <1>2 DEF CallInv
<1>4. ASSUME NEW s \in Sections
      PROVE  /\ section_status'[s] = "kDuplicate" => s \notin fresh' /\ SectionDecoded(s)'
             /\ section_status'[s] \notin Done => NothingDecoded(s)'
             /\ section_status'[s] = "kDone" =>
                  s \in fresh' /\ (~SingleSection => SectionDecoded(s)')
  <2>1. CASE s \in D
    <3>1. section_status'[s] = "kDone" /\ s \in fresh'
      BY <2>1
    <3> QED BY <2>1, <3>1 DEF Done
  <2>2. CASE s \notin D
    <3>1. section_status'[s] = section_status[s]
      BY <2>2
    <3> QED BY <2>2, <3>1 DEF CallInv
  <2> QED BY <2>1, <2>2
<1>5. CallInv'
  BY <1>3, <1>4 DEF CallInv
<1> QED BY <1>1, <1>5 DEF SectionsInv

LEMMA InitFrameSections ==
  ASSUME InitFrame
  PROVE  SectionsInv' /\ CountsInv' /\ SingleInv'
<1>1. /\ phase' = "idle" /\ processed_section_' = {} /\ ~decoded_dc_global_'
      /\ decoded_dc_groups_' = {} /\ ~decoded_ac_global_'
      /\ decoded_passes_per_ac_group_' = [g \in Groups |-> 0]
      /\ decodes' = [u \in Parts |-> 0]
  BY DEF InitFrame
<1>2. BetweenInv'
  <2>1. \A s \in Sections : NothingDecoded(s)'
    BY <1>1 DEF NothingDecoded
  <2> QED BY <1>1, <2>1 DEF BetweenInv
<1>3. CallInv' /\ ReturnedInv' /\ SingleInv'
  BY <1>1 DEF CallInv, ReturnedInv, SingleInv, InCall
<1>4. CountsInv'
  <2>1. /\ decodes'[<<"dcGlobal">>] = 0 /\ decodes'[<<"acGlobal">>] = 0
        /\ \A i \in DCGroups : decodes'[<<"dc", i>>] = 0
        /\ \A g \in Groups, p \in Passes : decodes'[<<"ac", g, p>>] = 0
    BY <1>1, PartsFacts
  <2> QED BY <1>1, <2>1 DEF CountsInv
<1> QED BY <1>2, <1>3, <1>4 DEF SectionsInv

LEMMA ProcessDCGroupSections ==
  ASSUME TypeOK, TasksInv, SectionsInv, CountsInv, NEW i \in DCGroups, ProcessDCGroup(i)
  PROVE  SectionsInv' /\ CountsInv'
<1>1. /\ phase = "dc" /\ phase' = phase /\ i \in todo
      /\ DCGroupSection(i) \in fresh /\ i \notin decoded_dc_groups_
      /\ UNCHANGED <<processed_section_, decoded_dc_global_, decoded_ac_global_,
                     decoded_passes_per_ac_group_, sections, fresh, num_sections_done_>>
  BY DEF ProcessDCGroup, TasksInv
<1>2. CASE UNCHANGED <<decoded_dc_groups_, section_status, decodes>>
  <2>1. CountsInv'
    BY <1>1, <1>2 DEF CountsInv
  <2> QED BY <1>1, <1>2, <2>1, SectionsFrame DEF decoded
<1>3. CASE /\ decoded_dc_groups_' = decoded_dc_groups_ \cup {i}
           /\ section_status' = [section_status EXCEPT ![DCGroupSection(i)] = "kDone"]
           /\ Decode({<<"dc", i>>})
  <2>1. CountsInv'
    BY <1>1, <1>3, CountsDC
  <2> DEFINE D == {DCGroupSection(i)}
  <2>2. CallInv /\ phase \in InCall /\ phase' \in InCall /\ D \subseteq fresh
    BY <1>1 DEF SectionsInv, InCall
  <2>3. \A s \in Sections : section_status'[s] = IF s \in D THEN "kDone"
                                                           ELSE section_status[s]
    BY <1>3 DEF TypeOK
  <2>4. ASSUME NEW s \in Sections, s \notin D
        PROVE  /\ SectionDecoded(s)' <=> SectionDecoded(s)
               /\ NothingDecoded(s)' <=> NothingDecoded(s)
    BY <1>1, <1>3, <2>4 DEF SectionDecoded, NothingDecoded
  <2>5. ~SingleSection => \A s \in D : SectionDecoded(s)'
    BY <1>3, ManyFacts DEF SectionDecoded
  <2>6. UNCHANGED <<processed_section_, fresh>>
    BY <1>1
  <2> HIDE DEF D
  <2>7. SectionsInv'
    BY <2>2, <2>3, <2>4, <2>5, <2>6, MarkDone
  <2> QED BY <2>1, <2>7
<1> QED BY <1>2, <1>3 DEF ProcessDCGroup

LEMMA FinalizeDCSections ==
  ASSUME TypeOK, SectionsInv, CountsInv, can_return_dc => ~SingleSection, FinalizeDC
  PROVE  SectionsInv' /\ CountsInv'
<1>1. /\ phase = "dc" /\ UNCHANGED decoded /\ decodes' = decodes
      /\ UNCHANGED <<sections, section_status, fresh>>
      /\ \/ /\ phase' \in {"failed", "acGlobal"}
            /\ UNCHANGED <<processed_section_, num_sections_done_>>
         \/ can_return_dc /\ ReturnTrue
  BY DEF FinalizeDC, Fail, progress, decoded, call
<1>2. CountsInv'
  BY <1>1 DEF CountsInv, decoded
<1>3. CASE /\ phase' \in {"failed", "acGlobal"}
           /\ UNCHANGED <<processed_section_, num_sections_done_>>
  <2>1. SectionsInv'
    BY <1>1, <1>3, SectionsFrame DEF InCall, Between
  <2> QED BY <1>2, <2>1
<1>4. CASE can_return_dc /\ ReturnTrue
  <2>1. CallInv /\ phase \in InCall /\ ~SingleSection
    BY <1>1, <1>4 DEF SectionsInv, InCall
  <2>2. Completed
    BY <2>1, ManyCompleted
  <2>3. SectionsInv'
    BY <1>1, <1>4, <2>1, <2>2, ReturnedSections
  <2> QED BY <1>2, <2>3
<1> QED BY <1>1, <1>3, <1>4

LEMMA ProcessACGlobalSections ==
  ASSUME TypeOK, SectionsInv, CountsInv, SingleInv, ProcessACGlobal
  PROVE  SectionsInv' /\ CountsInv'
<1>1. /\ phase = "acGlobal" /\ phase \in InCall /\ CallInv
      /\ UNCHANGED <<decoded_dc_global_, decoded_dc_groups_,
                     decoded_passes_per_ac_group_, sections, fresh>>
  BY DEF ProcessACGlobal, InCall, SectionsInv
<1>2. CASE /\ ACGlobalReady /\ decoded_ac_global_' = TRUE
           /\ section_status' = [section_status EXCEPT ![ACGlobal] = "kDone"]
           /\ Decode({<<"acGlobal">>}) /\ phase' = "ac"
           /\ UNCHANGED processed_section_
  <2>0. ~decoded_ac_global_ /\ ACGlobal \in fresh
    BY <1>2 DEF ACGlobalReady
  <2>1. CountsInv'
    BY <1>1, <1>2, <2>0, CountsACGlobal
  <2> DEFINE D == {ACGlobal}
  <2>2. phase' \in InCall /\ D \subseteq fresh
    BY <1>2, <2>0 DEF InCall
  <2>3. \A s \in Sections : section_status'[s] = IF s \in D THEN "kDone"
                                                           ELSE section_status[s]
    BY <1>2 DEF TypeOK
  <2>4. ASSUME NEW s \in Sections, s \notin D
        PROVE  /\ SectionDecoded(s)' <=> SectionDecoded(s)
               /\ NothingDecoded(s)' <=> NothingDecoded(s)
    BY <1>1, <2>4 DEF SectionDecoded, NothingDecoded
  <2>5. ~SingleSection => \A s \in D : SectionDecoded(s)'
    BY <1>2, ManyFacts DEF SectionDecoded
  <2>6. UNCHANGED <<processed_section_, fresh>>
    BY <1>1, <1>2
  <2> HIDE DEF D
  <2>7. SectionsInv'
    BY <1>1, <2>2, <2>3, <2>4, <2>5, <2>6, MarkDone
  <2> QED BY <2>1, <2>7
<1>3. CASE /\ UNCHANGED <<decoded_ac_global_, section_status, decodes,
                          processed_section_, num_sections_done_>>
           /\ phase' \in {"ac", "failed"}
  <2>1. CountsInv'
    BY <1>1, <1>3 DEF CountsInv
  <2>2. SectionsInv'
    BY <1>1, <1>3, SectionsFrame DEF decoded, InCall, Between
  <2> QED BY <2>1, <2>2
<1>4. CASE /\ ~ACGlobalReady /\ ~decoded_ac_global_ /\ ReturnTrue
           /\ UNCHANGED <<decoded_ac_global_, section_status, decodes>>
  <2>1. CountsInv'
    BY <1>1, <1>4 DEF CountsInv
  <2>2. CASE SingleSection
    <3>1. section_status[0] # "kDone"
      <4> SUFFICES ASSUME section_status[0] = "kDone" PROVE FALSE
        OBVIOUS
      <4>1. finalized_dc_
        BY <1>1, <2>2 DEF SingleInv
      <4>2. 0 \in fresh /\ ACGlobal = 0
        BY <1>1, <2>2, SingleFacts DEF CallInv
      <4> QED BY <1>4, <4>1, <4>2 DEF ACGlobalReady
    <3>2. Completed
      BY <1>1, <2>2, <3>1, SingleFacts DEF Completed, CallInv, Done
    <3> QED BY <1>1, <1>4, <2>1, <3>2, ReturnedSections DEF decoded
  <2>3. CASE ~SingleSection
    <3>1. Completed
      BY <1>1, <2>3, ManyCompleted
    <3> QED BY <1>1, <1>4, <2>1, <3>1, ReturnedSections DEF decoded
  <2> QED BY <2>2, <2>3
<1> QED BY <1>2, <1>3, <1>4 DEF ProcessACGlobal, Fail

LEMMA ProcessACGroupSections ==
  ASSUME TypeOK, TasksInv, SectionsInv, CountsInv, NEW t \in Threads, ProcessACGroup(t)
  PROVE  SectionsInv' /\ CountsInv'
<1> DEFINE g == running[t]
           d == decoded_passes_per_ac_group_[g]
           n == NumACPasses(g)
<1>1. /\ phase = "ac" /\ phase' = phase /\ CallInv /\ g \in Groups
      /\ phase \in InCall /\ phase' \in InCall
      /\ decoded_passes_per_ac_group_ \in [Groups -> 0..NumPasses]
      /\ UNCHANGED <<processed_section_, decoded_dc_global_, decoded_ac_global_,
                     decoded_dc_groups_, sections, fresh, num_sections_done_>>
  BY DEF ProcessACGroup, TypeOK, SectionsInv, InCall
<1>2. CASE UNCHANGED <<decoded_passes_per_ac_group_, section_status, decodes>>
  <2>1. CountsInv'
    BY <1>1, <1>2 DEF CountsInv
  <2> QED BY <1>1, <1>2, <2>1, SectionsFrame DEF decoded
<1>3. CASE /\ decoded_passes_per_ac_group_' =
                [decoded_passes_per_ac_group_ EXCEPT ![g] = d + n]
           /\ section_status' = [s \in Sections |->
                IF \E p \in d..d + n - 1 : s = ACSection(g, p)
                  THEN "kDone" ELSE section_status[s]]
           /\ Decode({u \in Parts : u[1] = "ac" /\ u[2] = g
                       /\ ACSection(g, u[3]) \in fresh /\ u[3] \in d..d + n - 1})
  <2>1. /\ n \in Nat /\ d \in 0..NumPasses /\ d + n \in 0..NumPasses
        /\ \A p \in d..d + n - 1 : p \in Passes /\ ACSection(g, p) \in fresh
    <3>1. decoded_passes_per_ac_group_[g] \in 0..NumPasses
      BY <1>1
    <3> QED BY <1>1, <3>1, NewPasses
  <2> DEFINE U == {u \in Parts :
                /\ u[1] = "ac" /\ u[2] = g /\ ACSection(g, u[3]) \in fresh
                /\ u[3] \in decoded_passes_per_ac_group_[g]
                              ..decoded_passes_per_ac_group_[g] + n - 1}
             D == {s \in Sections : \E p \in d..d + n - 1 : s = ACSection(g, p)}
  <2>2. Decode(U) /\ U = {u \in Parts :
                /\ u[1] = "ac" /\ u[2] = g /\ ACSection(g, u[3]) \in fresh
                /\ u[3] \in decoded_passes_per_ac_group_[g]
                              ..decoded_passes_per_ac_group_[g] + n - 1}
    <3>1. U = {u \in Parts : u[1] = "ac" /\ u[2] = g
                       /\ ACSection(g, u[3]) \in fresh /\ u[3] \in d..d + n - 1}
      OBVIOUS
    <3> QED BY <1>3, <3>1
  <2>3. CountsInv'
    <3>1. /\ decoded_passes_per_ac_group_[g] + n <= NumPasses
          /\ \A p \in decoded_passes_per_ac_group_[g]
                    ..decoded_passes_per_ac_group_[g] + n - 1 :
                ACSection(g, p) \in fresh
          /\ decoded_passes_per_ac_group_' =
               [decoded_passes_per_ac_group_ EXCEPT
                  ![g] = decoded_passes_per_ac_group_[g] + n]
      BY <1>3, <2>1
    <3>2. n \in Nat /\ g \in Groups
      BY <1>1, <2>1
    <3> HIDE DEF U, g, n
    <3> QED BY <1>1, <2>2, <3>1, <3>2, CountsAC
  <2>4. D \subseteq fresh
    BY <2>1
  <2>5. \A s \in Sections : section_status'[s] = IF s \in D THEN "kDone"
                                                           ELSE section_status[s]
    BY <1>3
  <2>6. ASSUME NEW h \in Groups
        PROVE  decoded_passes_per_ac_group_'[h]
                 = IF h = g THEN d + n ELSE decoded_passes_per_ac_group_[h]
    BY <1>1, <1>3
  <2>7. ASSUME NEW s \in Sections, s \notin D
        PROVE  /\ SectionDecoded(s)' <=> SectionDecoded(s)
               /\ NothingDecoded(s)' <=> NothingDecoded(s)
    <3>1. ASSUME NEW h \in Groups, NEW q \in Passes, s = ACSection(h, q)
          PROVE  q < decoded_passes_per_ac_group_'[h]
                   <=> q < decoded_passes_per_ac_group_[h]
      <4>1. CASE h = g
        <5>1. q \notin d..d + n - 1
          BY <2>7, <3>1, <4>1
        <5>2. decoded_passes_per_ac_group_'[h] = d + n
          BY <2>6, <4>1
        <5> HIDE DEF n, g
        <5>3. q \in Nat /\ d \in Nat /\ n \in Nat
          BY <2>1
        <5>4. decoded_passes_per_ac_group_[h] = d
          BY <4>1
        <5> HIDE DEF d
        <5> QED BY <5>1, <5>2, <5>3, <5>4
      <4>2. CASE h # g
        BY <2>6, <4>2
      <4> QED BY <4>1, <4>2
    <3> QED BY <1>1, <3>1 DEF SectionDecoded, NothingDecoded
  <2>8. ASSUME ~SingleSection, NEW s \in D
        PROVE  SectionDecoded(s)'
    <3>1. PICK p \in d..d + n - 1 : s = ACSection(g, p)
      OBVIOUS
    <3>2. p \in Passes /\ p < d + n
      BY <2>1
    <3>3. decoded_passes_per_ac_group_'[g] = d + n
      BY <1>1, <2>6
    <3>4. /\ s # DCGlobal /\ s # ACGlobal /\ \A i \in DCGroups : s # DCGroupSection(i)
          /\ \A h \in Groups, q \in Passes : s = ACSection(h, q) => g = h /\ p = q
      <4>1. g \in Groups
        BY <1>1
      <4> HIDE DEF g
      <4> QED BY <2>8, <3>1, <3>2, <4>1, ManyFacts
    <3> HIDE DEF g, n, d
    <3> QED BY <3>2, <3>3, <3>4 DEF SectionDecoded
  <2>9. UNCHANGED <<processed_section_, fresh>>
    BY <1>1
  <2> HIDE DEF D
  <2>10. SectionsInv'
    BY <1>1, <2>4, <2>5, <2>7, <2>8, <2>9, MarkDone
  <2> QED BY <2>3, <2>10
<1> QED BY <1>2, <1>3 DEF ProcessACGroup

LEMMA FinishSectionsSections ==
  ASSUME TypeOK, OrderInv, SectionsInv, CountsInv, SingleInv, FinishSections
  PROVE  SectionsInv' /\ CountsInv'
<1>1. /\ phase = "ac" /\ phase \in InCall /\ CallInv /\ PoolIsDone
      /\ UNCHANGED decoded /\ decodes' = decodes
      /\ UNCHANGED <<sections, section_status, fresh>>
  BY DEF FinishSections, InCall, SectionsInv, decoded, call
<1>2. CountsInv'
  BY <1>1 DEF CountsInv, decoded
<1>3. CASE has_error
  <2>1. phase' = "failed" /\ UNCHANGED <<processed_section_, num_sections_done_>>
    BY <1>3 DEF FinishSections, Fail
  <2>2. SectionsInv'
    BY <1>1, <2>1, SectionsFrame DEF InCall, Between
  <2> QED BY <1>2, <2>2
<1>4. CASE ~has_error
  <2>0. ReturnTrue
    BY <1>4 DEF FinishSections
  <2>1. CASE SingleSection
    <3>1. ASSUME section_status[0] = "kDone" PROVE SectionDecoded(0)
      <4>1. /\ decoded_dc_global_ /\ finalized_dc_
            /\ \A g \in Groups : \/ g \in todo \/ \E t \in Threads : running[t] = g
                                 \/ decoded_passes_per_ac_group_[g] = 1
        BY <1>1, <1>4, <2>1, <3>1 DEF SingleInv
      <4>2. \A g \in Groups : decoded_passes_per_ac_group_[g] = 1
        BY <1>1, <4>1 DEF PoolIsDone, NoGroup
      <4>3. decoded_ac_global_ /\ decoded_dc_groups_ = DCGroups
        BY <1>1, <4>1 DEF OrderInv, DependenciesMet
      <4>4. \A g \in Groups, p \in Passes : p < decoded_passes_per_ac_group_[g]
        BY <2>1, <4>2, SingleFacts
      <4> QED BY <4>1, <4>3, <4>4 DEF SectionDecoded
    <3>2. Completed
      BY <1>1, <2>1, <3>1, SingleFacts DEF Completed, CallInv, Done
    <3> QED BY <1>1, <1>2, <2>0, <3>2, ReturnedSections
  <2>2. CASE ~SingleSection
    <3>1. Completed
      BY <1>1, <2>2, ManyCompleted
    <3> QED BY <1>1, <1>2, <2>0, <3>1, ReturnedSections
  <2> QED BY <2>1, <2>2
<1> QED BY <1>3, <1>4

LEMMA SectionsNext ==
  ASSUME TypeOK, TasksInv, OrderInv, SectionsInv, CountsInv, SingleInv,
         can_return_dc => ~SingleSection, [Next]_vars
  PROVE  SectionsInv' /\ CountsInv'
<1>1. ASSUME UNCHANGED decoded, decodes' = decodes,
             UNCHANGED <<processed_section_, section_status, sections, fresh,
                         num_sections_done_>>,
             \/ phase' = phase
             \/ phase \in Between /\ phase' \in {"idle", "flush", "finished", "failed"}
      PROVE  SectionsInv' /\ CountsInv'
  <2>1. CountsInv'
    BY <1>1 DEF CountsInv, decoded
  <2>2. /\ phase' \in Between => phase \in Between
        /\ phase' \in InCall => phase \in InCall
        /\ phase' = "returned" => phase = "returned"
    BY <1>1 DEF InCall, Between
  <2>3. SectionsInv'
    BY <1>1, <2>2, SectionsFrame
  <2> QED BY <2>1, <2>3
<1>2. CASE InitFrame
  BY <1>2, InitFrameSections
<1>3. CASE FlushImage
  BY <1>1, <1>3 DEF FlushImage, BeginFlush, decoded, Between
<1>4. CASE AfterSections
  <2>1. phase = "returned" /\ phase' \in {"idle", "flush", "finished", "failed"}
    BY <1>4 DEF AfterSections, BeginFlush, Fail
  <2>2. /\ UNCHANGED decoded /\ decodes' = decodes
        /\ UNCHANGED <<processed_section_, section_status, sections, fresh,
                       num_sections_done_>>
    BY <1>4 DEF AfterSections, BeginFlush, decoded, progress, call
  <2> QED BY <1>1, <2>1, <2>2 DEF Between
<1>5. CASE FinishFlush
  BY <1>1, <1>5 DEF FinishFlush, Fail, decoded, progress, call, Between
<1>6. ASSUME NEW t \in Threads, NEW g \in Groups, StartGroup(t, g)
      PROVE  SectionsInv' /\ CountsInv'
  BY <1>1, <1>6 DEF StartGroup, decoded, progress
<1>7. ASSUME NEW t \in Threads, DrawGroup(t)
      PROVE  SectionsInv' /\ CountsInv'
  BY <1>1, <1>7 DEF DrawGroup, decoded, progress
<1>8. CASE UNCHANGED vars
  BY <1>1, <1>8 DEF vars, decoded, progress, call
<1>9. ASSUME NEW i \in DCGroups, ProcessDCGroup(i)
      PROVE  SectionsInv' /\ CountsInv'
  BY <1>9, ProcessDCGroupSections
<1>10. CASE FinalizeDC
  BY <1>10, FinalizeDCSections
<1>11. CASE ProcessACGlobal
  BY <1>11, ProcessACGlobalSections
<1>12. ASSUME NEW t \in Threads, ProcessACGroup(t)
       PROVE  SectionsInv' /\ CountsInv'
  BY <1>12, ProcessACGroupSections
<1>13. CASE FinishSections
  BY <1>13, FinishSectionsSections
<1>14. ASSUME NEW S \in SUBSET Sections, ProcessSections(S)
       PROVE  SectionsInv' /\ CountsInv'
  BY <1>14, ProcessSectionsStep
<1> QED BY <1>2, <1>3, <1>4, <1>5, <1>6, <1>7, <1>8, <1>9, <1>10, <1>11, <1>12,
           <1>13, <1>14 DEF Next, Step
-----------------------------------------------------------------------------
(* Frames of a single section. *)

\* A single section that this call decodes has the status kDone once the global
\* DC is decoded.
LEMMA SingleIsDone ==
  ASSUME TypeOK, CallInv, phase \in InCall, SingleSection, 0 \in fresh,
         decoded_dc_global_
  PROVE  section_status[0] = "kDone"
<1>1. 0 \in Sections /\ DCGlobal = 0
  BY SingleFacts
<1>2. section_status[0] \in Done
  BY <1>1 DEF CallInv, NothingDecoded
<1> QED BY <1>1, <1>2 DEF CallInv, Done

LEMMA SingleNext ==
  ASSUME TypeOK, TasksInv, OrderInv, SectionsInv, SingleInv, [Next]_vars
  PROVE  SingleInv'
<1> SUFFICES ASSUME SingleSection, phase' \in InCall, section_status'[0] = "kDone"
             PROVE  SingleInv'
  BY DEF SingleInv
<1>1. /\ 0 \in Sections /\ DCGlobal = 0 /\ ACGlobal = 0 /\ Groups = {0} /\ Passes = {0}
      /\ Sections = {0} /\ NumPasses = 1
      /\ \A i \in DCGroups : DCGroupSection(i) = 0
      /\ \A g \in Groups, p \in Passes : ACSection(g, p) = 0
  BY SingleFacts DEF SingleSection
<1>2. CASE InitFrame \/ FlushImage \/ AfterSections \/ FinishFlush \/ FinishSections
  <2>1. phase' \notin InCall
    BY <1>2 DEF InitFrame, FlushImage, AfterSections, FinishFlush, FinishSections,
                BeginFlush, Fail, ReturnTrue, InCall
  <2> QED BY <2>1
<1>3. ASSUME NEW S \in SUBSET Sections, ProcessSections(S) PROVE SingleInv'
  <2>1. /\ phase = "idle" /\ phase' = "dc"
        /\ UNCHANGED <<decoded_ac_global_, decoded_passes_per_ac_group_>>
    BY <1>3 DEF ProcessSections, Fail, InCall
  <2>2. /\ 0 \notin processed_section_ /\ 0 \in fresh' /\ decoded_dc_global_' = TRUE
        /\ todo' = {i \in DCGroups : DCGroupSection(i) \in fresh'}
    BY <1>1, <1>3, <2>1 DEF ProcessSections, Fail
  <2>3. NothingDecoded(0)
    BY <1>1, <2>1, <2>2 DEF SectionsInv, BetweenInv, Between
  <2>4. ~decoded_ac_global_ /\ \A g \in Groups : decoded_passes_per_ac_group_[g] = 0
    BY <1>1, <2>3 DEF NothingDecoded, TypeOK
  <2>5. todo' = DCGroups
    BY <1>1, <2>2
  <2>6. decoded_dc_groups_' \cup todo' = DCGroups
    BY <1>3, <2>5 DEF ProcessSections, TypeOK
  <2> QED BY <2>1, <2>2, <2>4, <2>6 DEF SingleInv
<1>4. ASSUME NEW i \in DCGroups, ProcessDCGroup(i) PROVE SingleInv'
  <2>1. /\ phase = "dc" /\ phase' = phase /\ i \in todo /\ todo' = todo \ {i}
        /\ \/ decoded_dc_groups_' = decoded_dc_groups_ \cup {i} /\ has_error' = has_error
           \/ has_error' = TRUE
        /\ UNCHANGED <<decoded_dc_global_, decoded_ac_global_,
                       decoded_passes_per_ac_group_>>
    BY <1>4 DEF ProcessDCGroup
  <2>2. 0 \in fresh /\ decoded_dc_global_
    BY <1>1, <2>1 DEF TasksInv
  <2>3. section_status[0] = "kDone"
    BY <2>1, <2>2, SingleIsDone DEF SectionsInv, InCall
  <2>4. /\ has_error \/ decoded_dc_groups_ \cup todo = DCGroups
        /\ ~decoded_ac_global_ /\ \A g \in Groups : decoded_passes_per_ac_group_[g] = 0
    BY <2>1, <2>3 DEF SingleInv, InCall
  <2>5. has_error' \/ decoded_dc_groups_' \cup todo' = DCGroups
    BY <2>1, <2>4
  <2> QED BY <2>1, <2>2, <2>4, <2>5 DEF SingleInv
<1>5. CASE FinalizeDC
  <2>1. /\ phase = "dc" /\ phase' = "acGlobal" /\ todo = {} /\ ~has_error
        /\ section_status' = section_status
        /\ UNCHANGED <<decoded_dc_global_, decoded_ac_global_,
                       decoded_passes_per_ac_group_>>
        /\ \/ finalized_dc_' = TRUE
           \/ finalized_dc_' = finalized_dc_ /\ ~(DCIsComplete /\ ~finalized_dc_)
    BY <1>5 DEF FinalizeDC, Fail, ReturnTrue, InCall, call, progress
  <2>2. /\ decoded_dc_global_ /\ decoded_dc_groups_ = DCGroups
        /\ ~decoded_ac_global_ /\ \A g \in Groups : decoded_passes_per_ac_group_[g] = 0
    BY <2>1 DEF SingleInv, InCall
  <2>3. finalized_dc_'
    BY <2>1, <2>2 DEF DCIsComplete
  <2> QED BY <2>1, <2>2, <2>3 DEF SingleInv
<1>6. CASE ProcessACGlobal
  <2>1. /\ phase = "acGlobal" /\ phase' = "ac"
        /\ todo' = {g \in Groups : NumACPasses(g) > 0}
        /\ \/ ACGlobalReady
           \/ decoded_ac_global_ /\ section_status' = section_status
        /\ UNCHANGED <<decoded_dc_global_, decoded_passes_per_ac_group_, finalized_dc_>>
    BY <1>6 DEF ProcessACGlobal, Fail, ReturnTrue, InCall
  <2>2. ACGlobalReady
    BY <2>1 DEF SingleInv, InCall
  <2>3. finalized_dc_ /\ 0 \in fresh
    BY <1>1, <2>2 DEF ACGlobalReady
  <2>4. decoded_dc_global_
    <3>1. decoded_dc_groups_ = DCGroups
      BY <2>1, <2>3 DEF OrderInv, DependenciesMet
    <3>2. DCGroups # {}
      <4>1. 0 \in DCGroups
        OBVIOUS
      <4> QED BY <4>1
    <3> QED BY <2>1, <3>1, <3>2 DEF OrderInv, DependenciesMet
  <2>5. section_status[0] = "kDone"
    BY <2>1, <2>3, <2>4, SingleIsDone DEF SectionsInv, InCall
  <2>6. \A g \in Groups : decoded_passes_per_ac_group_[g] = 0
    BY <2>1, <2>5 DEF SingleInv, InCall
  <2>7. \A g \in Groups : g \in todo'
    <3> SUFFICES ASSUME NEW g \in Groups PROVE NumACPasses(g) > 0
      BY <2>1
    <3>1. /\ decoded_passes_per_ac_group_[g] \in 0..NumPasses
          /\ decoded_passes_per_ac_group_[g] < NumPasses
          /\ ACSection(g, decoded_passes_per_ac_group_[g]) \in fresh
      BY <1>1, <2>3, <2>6
    <3> QED BY <3>1, NewPasses
  <2> QED BY <2>1, <2>3, <2>4, <2>7 DEF SingleInv
<1>7. ASSUME NEW t \in Threads, NEW g \in Groups, StartGroup(t, g) PROVE SingleInv'
  <2>1. /\ phase = "ac" /\ phase' = phase /\ running[t] = NoGroup /\ todo' = todo \ {g}
        /\ UNCHANGED <<decoded_dc_global_, finalized_dc_, decoded_passes_per_ac_group_,
                       has_error, section_status>>
    BY <1>7 DEF StartGroup, progress, InCall
  <2>2. /\ running'[t] = g
        /\ \A u \in Threads : u # t => running'[u] = running[u]
    BY <1>7 DEF StartGroup, TypeOK
  <2>3. /\ decoded_dc_global_ /\ finalized_dc_
        /\ \/ has_error
           \/ \A h \in Groups : \/ h \in todo \/ \E u \in Threads : running[u] = h
                                \/ decoded_passes_per_ac_group_[h] = 1
    BY <2>1 DEF SingleInv, InCall
  <2>4. ASSUME NEW h \in Groups, \E u \in Threads : running[u] = h
        PROVE  \E u \in Threads : running'[u] = h
    BY <2>1, <2>2, <2>4 DEF NoGroup
  <2>5. \/ has_error'
        \/ \A h \in Groups : \/ h \in todo' \/ \E u \in Threads : running'[u] = h
                             \/ decoded_passes_per_ac_group_'[h] = 1
    BY <2>1, <2>2, <2>3, <2>4
  <2> QED BY <2>1, <2>3, <2>5 DEF SingleInv
<1>8. ASSUME NEW t \in Threads, ProcessACGroup(t) PROVE SingleInv'
  <2> DEFINE g == running[t]
             d == decoded_passes_per_ac_group_[g]
             n == NumACPasses(g)
  <2>1. /\ phase = "ac" /\ phase' = phase /\ g \in Groups /\ d \in 0..NumPasses
        /\ UNCHANGED <<decoded_dc_global_, finalized_dc_, fresh>>
    BY <1>8 DEF ProcessACGroup, TypeOK
  <2>2. /\ n \in Nat /\ d + n \in 0..NumPasses
        /\ \A p \in d..d + n - 1 : p \in Passes /\ ACSection(g, p) \in fresh
        /\ d < NumPasses /\ ACSection(g, d) \in fresh => n > 0
    <3>1. decoded_passes_per_ac_group_[g] \in 0..NumPasses
      BY <2>1
    <3> QED BY <2>1, <3>1, NewPasses
  <2>3. /\ decoded_dc_global_ /\ finalized_dc_ /\ decoded_ac_global_
    <3>1. decoded_ac_global_ /\ finalized_dc_ /\ decoded_dc_groups_ = DCGroups
      BY <2>1 DEF OrderInv, DependenciesMet
    <3>2. 0 \in DCGroups
      OBVIOUS
    <3> QED BY <2>1, <3>1, <3>2 DEF OrderInv, DependenciesMet
  <2>4. \/ has_error'
        \/ /\ decoded_passes_per_ac_group_' =
                [decoded_passes_per_ac_group_ EXCEPT ![g] = d + n]
           /\ section_status' = [s \in Sections |->
                IF \E p \in d..d + n - 1 : s = ACSection(g, p)
                  THEN "kDone" ELSE section_status[s]]
    BY <1>8 DEF ProcessACGroup
  <2>5. CASE has_error'
    BY <2>1, <2>3, <2>5 DEF SingleInv
  <2>6. CASE /\ decoded_passes_per_ac_group_' =
                  [decoded_passes_per_ac_group_ EXCEPT ![g] = d + n]
             /\ section_status' = [s \in Sections |->
                  IF \E p \in d..d + n - 1 : s = ACSection(g, p)
                    THEN "kDone" ELSE section_status[s]]
    <3>1. 0 \in fresh
      <4>1. CASE \E p \in d..d + n - 1 : 0 = ACSection(g, p)
        BY <2>2, <4>1
      <4>2. CASE section_status[0] = "kDone"
        BY <1>1, <2>1, <4>2 DEF SectionsInv, CallInv, InCall
      <4> QED BY <1>1, <2>6, <4>1, <4>2
    <3>2. d + n = 1
      <4>1. CASE d = 0
        BY <1>1, <2>1, <2>2, <3>1, <4>1
      <4>2. CASE d # 0
        <5> HIDE DEF d, n
        <5> QED BY <1>1, <2>1, <2>2, <4>2
      <4> QED BY <4>1, <4>2
    <3>3. \A h \in Groups : decoded_passes_per_ac_group_'[h] = 1
      BY <1>1, <2>1, <2>6, <3>2 DEF TypeOK
    <3> QED BY <2>1, <2>3, <3>3 DEF SingleInv
  <2> QED BY <2>4, <2>5, <2>6
<1>9. ASSUME NEW t \in Threads, DrawGroup(t) PROVE SingleInv'
  BY <1>9 DEF DrawGroup, InCall
<1>10. CASE UNCHANGED vars
  BY <1>10 DEF vars, progress, call, SingleInv
<1> QED BY <1>2, <1>3, <1>4, <1>5, <1>6, <1>7, <1>8, <1>9, <1>10 DEF Next, Step
-----------------------------------------------------------------------------
(* The order of the parts, and the complete frame. *)

\* When all sections are done, by this call or an earlier one, there is
\* nothing left to decode.
LEMMA AllDoneIsEverything ==
  ASSUME TypeOK, SectionsInv, phase = "returned", HasDecodedAll
  PROVE  HasEverything
<1> DEFINE D == {s \in sections : section_status[s] \in Done}
<1>1. D \subseteq Sections /\ Cardinality(D) = NumSections
  <2>1. num_sections_done_ = NumDone /\ num_sections_done_ = NumSections
    BY DEF SectionsInv, ReturnedInv, HasDecodedAll
  <2> QED BY <2>1 DEF NumDone, Done, TypeOK
<1> HIDE DEF D
<1>2. D = Sections
  BY <1>1, SectionsFinite, FS_Subset
<1>3. \A s \in Sections : SectionDecoded(s)
  BY <1>2 DEF D, SectionsInv, ReturnedInv, BetweenInv, Between
<1>4. decoded_dc_global_ /\ decoded_ac_global_
  BY <1>3, SectionTypes DEF SectionDecoded, DCGlobal
<1>5. \A i \in DCGroups : i \in decoded_dc_groups_
  BY <1>3, SectionTypes DEF SectionDecoded
<1>6. ASSUME NEW g \in Groups
      PROVE  decoded_passes_per_ac_group_[g] >= max_passes_
  <2>1. NumPasses - 1 \in Passes
    OBVIOUS
  <2>2. NumPasses - 1 < decoded_passes_per_ac_group_[g]
    BY <1>3, <2>1, SectionTypes DEF SectionDecoded
  <2> QED BY <2>2 DEF TypeOK
<1> QED BY <1>4, <1>5, <1>6 DEF HasEverything, TypeOK

LEMMA OrderNext ==
  ASSUME TypeOK, TasksInv, OrderInv, SectionsInv, [Next]_vars
  PROVE  OrderInv'
<1>1. CASE InitFrame
  BY <1>1 DEF InitFrame, OrderInv, DependenciesMet
<1>2. CASE FlushImage
  <2>1. /\ phase = "idle" /\ phase' = "flush" /\ finalized_dc_ /\ allocated_' = TRUE
        /\ UNCHANGED decoded /\ UNCHANGED <<finalized_dc_, render_pipeline>>
    BY <1>2 DEF FlushImage, BeginFlush, HasDecodedDC, decoded
  <2> QED BY <2>1 DEF OrderInv, DependenciesMet, decoded
<1>3. CASE AfterSections
  <2>1. /\ phase = "returned" /\ UNCHANGED decoded
        /\ UNCHANGED <<finalized_dc_, render_pipeline, caller>>
        /\ allocated_ => allocated_'
        /\ phase' \in {"idle", "flush", "finished", "failed"}
        /\ phase' = "flush" /\ caller = "api" => HasDecodedAll
    BY <1>3 DEF AfterSections, BeginFlush, Fail, decoded, progress, setup
  <2>2. phase' = "flush" /\ caller = "api" => finalized_dc_
    <3>1. HasDecodedAll => decoded_ac_global_
      BY <2>1, AllDoneIsEverything DEF HasEverything
    <3> QED BY <2>1, <3>1 DEF OrderInv, DependenciesMet
  <2> QED BY <2>1, <2>2 DEF OrderInv, DependenciesMet, decoded
<1>4. CASE FinishFlush \/ FinishSections
  <2>1. /\ phase \in {"flush", "ac"} /\ UNCHANGED decoded
        /\ UNCHANGED <<finalized_dc_, render_pipeline, allocated_>>
        /\ phase' \in {"idle", "finished", "failed", "returned"}
    BY <1>4 DEF FinishFlush, FinishSections, Fail, ReturnTrue, decoded, progress
  <2> QED BY <2>1 DEF OrderInv, DependenciesMet, decoded
<1>5. CASE FinalizeDC
  <2>1. phase = "dc" /\ UNCHANGED decoded
    BY <1>5 DEF FinalizeDC, decoded, progress
  <2>2. CASE /\ UNCHANGED <<finalized_dc_, render_pipeline, allocated_>>
             /\ phase' \in {"failed", "acGlobal"}
    BY <2>1, <2>2 DEF OrderInv, DependenciesMet, decoded
  <2>3. CASE /\ DCIsComplete /\ ~finalized_dc_
             /\ finalized_dc_' /\ render_pipeline' /\ allocated_'
             /\ phase' \in {"returned", "acGlobal"}
    BY <2>1, <2>3 DEF OrderInv, DependenciesMet, decoded, DCIsComplete
  <2>4. CASE DCIsComplete /\ ~finalized_dc_ /\ phase' = "failed"
    BY <2>1, <2>4 DEF OrderInv, DependenciesMet, decoded, DCIsComplete
  <2> QED BY <1>5, <2>2, <2>3, <2>4 DEF FinalizeDC, Fail, ReturnTrue, progress
<1>6. CASE ProcessACGlobal
  <2>1. /\ phase = "acGlobal" /\ phase' \in {"ac", "failed", "returned"}
        /\ UNCHANGED <<decoded_dc_global_, decoded_dc_groups_, finalized_dc_,
                       decoded_passes_per_ac_group_, allocated_, render_pipeline>>
    BY <1>6 DEF ProcessACGlobal, Fail, ReturnTrue
  <2>2. CASE decoded_ac_global_' = decoded_ac_global_
    <3>1. phase' = "ac" => decoded_ac_global_'
      BY <1>6, <2>2 DEF ProcessACGlobal, Fail, ReturnTrue
    <3> QED BY <2>1, <2>2, <3>1 DEF OrderInv, DependenciesMet
  <2>3. CASE decoded_ac_global_' /\ ACGlobalReady
    BY <2>1, <2>3 DEF OrderInv, DependenciesMet, ACGlobalReady
  <2> QED BY <1>6, <2>2, <2>3 DEF ProcessACGlobal
<1>7. ASSUME NEW t \in Threads, \/ \E g \in Groups : StartGroup(t, g)
                                \/ DrawGroup(t)
      PROVE  OrderInv'
  <2>1. phase' = phase /\ UNCHANGED progress /\ UNCHANGED setup
    BY <1>7 DEF StartGroup, DrawGroup
  <2> QED BY <2>1 DEF OrderInv, DependenciesMet, progress, setup
<1>8. ASSUME NEW t \in Threads, ProcessACGroup(t) PROVE OrderInv'
  <2>1. /\ phase = "ac" /\ phase' = phase
        /\ UNCHANGED <<decoded_dc_global_, decoded_dc_groups_, finalized_dc_,
                       decoded_ac_global_, allocated_, render_pipeline>>
    BY <1>8 DEF ProcessACGroup
  <2> QED BY <2>1 DEF OrderInv, DependenciesMet
<1>9. ASSUME NEW i \in DCGroups, ProcessDCGroup(i) PROVE OrderInv'
  <2>1. /\ phase = "dc" /\ phase' = phase /\ i \in todo
        /\ \/ decoded_dc_groups_' = decoded_dc_groups_ \cup {i}
           \/ decoded_dc_groups_' = decoded_dc_groups_
        /\ UNCHANGED <<decoded_dc_global_, decoded_passes_per_ac_group_, finalized_dc_,
                       decoded_ac_global_, allocated_, render_pipeline>>
    BY <1>9 DEF ProcessDCGroup
  <2>2. decoded_dc_global_ /\ i \notin decoded_dc_groups_
    BY <2>1 DEF TasksInv
  <2>3. ~finalized_dc_
    BY <2>1, <2>2 DEF OrderInv, DependenciesMet
  <2> QED BY <2>1, <2>2, <2>3 DEF OrderInv, DependenciesMet
<1>10. ASSUME NEW S \in SUBSET Sections, ProcessSections(S) PROVE OrderInv'
  <2>1. /\ phase = "idle" /\ phase' \in {"dc", "failed"}
        /\ UNCHANGED <<decoded_dc_groups_, finalized_dc_, decoded_ac_global_,
                       decoded_passes_per_ac_group_, allocated_, render_pipeline>>
    BY <1>10 DEF ProcessSections, Fail
  <2>2. decoded_dc_global_ => decoded_dc_global_'
    <3>1. \/ decoded_dc_global_' = TRUE \/ decoded_dc_global_' = decoded_dc_global_
          \/ DCGlobal \notin processed_section_
      BY <1>10 DEF ProcessSections
    <3>2. DCGlobal \notin processed_section_ => ~decoded_dc_global_
      BY <2>1, SectionTypes DEF SectionsInv, BetweenInv, Between, NothingDecoded
    <3> QED BY <3>1, <3>2
  <2> QED BY <2>1, <2>2 DEF OrderInv, DependenciesMet
<1>11. CASE UNCHANGED vars
  BY <1>11 DEF vars, progress, setup, OrderInv, DependenciesMet
<1> QED BY <1>1, <1>2, <1>3, <1>4, <1>5, <1>6, <1>7, <1>8, <1>9, <1>10, <1>11
        DEF Next, Step

LEMMA FinalNext ==
  ASSUME TypeOK, SectionsInv, FinalInv, [Next]_vars
  PROVE  FinalInv'
<1>1. CASE InitFrame
  <2>1. ~is_finalized_'
    BY <1>1 DEF InitFrame
  <2>2. can_return_dc' => ~SingleSection
    BY <1>1 DEF InitFrame
  <2> QED BY <2>1, <2>2 DEF FinalInv, FinalizedIsComplete
<1>2. CASE AfterSections /\ is_finalized_' = TRUE
  <2>1. /\ phase = "returned" /\ UNCHANGED decoded /\ UNCHANGED setup
        /\ phase' \in {"flush", "finished", "failed"}
        /\ caller = "api" => HasDecodedAll
    <3>1. phase = "returned" /\ ~is_finalized_
      BY <1>2 DEF AfterSections, FinalInv
    <3> QED BY <1>2, <3>1 DEF AfterSections, BeginFlush, Fail, decoded, progress
  <2>2. caller = "api" => HasEverything
    BY <2>1, AllDoneIsEverything
  <2>3. caller' = "api" => HasEverything'
    BY <2>1, <2>2 DEF HasEverything, decoded, setup
  <2>4. can_return_dc' => ~SingleSection
    BY <2>1 DEF FinalInv, setup
  <2> QED BY <2>1, <2>3, <2>4 DEF FinalInv, FinalizedIsComplete
<1>3. ASSUME is_finalized_' = is_finalized_, UNCHANGED setup,
             is_finalized_ => /\ phase \in {"flush", "finished", "failed"}
                              /\ phase' \in {"flush", "finished", "failed"}
                              /\ UNCHANGED decoded
      PROVE  FinalInv'
  <2>1. can_return_dc' => ~SingleSection
    BY <1>3 DEF FinalInv, setup
  <2>2. CASE is_finalized_
    <3>1. caller = "api" => HasEverything
      BY <1>3, <2>2 DEF FinalInv, FinalizedIsComplete
    <3>2. caller' = "api" => HasEverything'
      BY <1>3, <2>2, <3>1 DEF HasEverything, decoded, setup
    <3> QED BY <1>3, <2>1, <2>2, <3>2 DEF FinalInv, FinalizedIsComplete
  <2>3. CASE ~is_finalized_
    BY <1>3, <2>1, <2>3 DEF FinalInv, FinalizedIsComplete
  <2> QED BY <2>2, <2>3
<1>4. CASE AfterSections /\ is_finalized_' # TRUE
  <2>1. is_finalized_' = is_finalized_ /\ UNCHANGED setup /\ phase = "returned"
    BY <1>4 DEF AfterSections
  <2> QED BY <1>3, <2>1 DEF FinalInv
<1>5. CASE FlushImage
  <2>1. is_finalized_' = is_finalized_ /\ UNCHANGED setup /\ phase = "idle"
    BY <1>5 DEF FlushImage, BeginFlush
  <2> QED BY <1>3, <2>1 DEF FinalInv
<1>6. CASE FinalizeDC \/ ProcessACGlobal \/ FinishSections
  <2>1. /\ is_finalized_' = is_finalized_ /\ UNCHANGED setup
        /\ phase \in {"dc", "acGlobal", "ac"}
    BY <1>6 DEF FinalizeDC, ProcessACGlobal, FinishSections
  <2> QED BY <1>3, <2>1 DEF FinalInv
<1>7. ASSUME NEW t \in Threads, ProcessACGroup(t) PROVE FinalInv'
  <2>1. is_finalized_' = is_finalized_ /\ UNCHANGED setup /\ phase = "ac"
    BY <1>7 DEF ProcessACGroup
  <2> QED BY <1>3, <2>1 DEF FinalInv
<1>8. ASSUME NEW i \in DCGroups, ProcessDCGroup(i) PROVE FinalInv'
  <2>1. is_finalized_' = is_finalized_ /\ UNCHANGED setup /\ phase = "dc"
    BY <1>8 DEF ProcessDCGroup
  <2> QED BY <1>3, <2>1 DEF FinalInv
<1>9. ASSUME NEW S \in SUBSET Sections, ProcessSections(S) PROVE FinalInv'
  <2>1. is_finalized_' = is_finalized_ /\ UNCHANGED setup /\ phase = "idle"
    BY <1>9 DEF ProcessSections
  <2> QED BY <1>3, <2>1 DEF FinalInv
<1>10. ASSUME NEW t \in Threads, \/ \E g \in Groups : StartGroup(t, g)
                                 \/ DrawGroup(t)
       PROVE  FinalInv'
  <2>1. /\ is_finalized_' = is_finalized_ /\ UNCHANGED setup /\ UNCHANGED decoded
        /\ phase' = phase /\ phase \in {"ac", "flush"}
    BY <1>10 DEF StartGroup, DrawGroup, progress, decoded
  <2> QED BY <1>3, <2>1 DEF FinalInv
<1>11. CASE FinishFlush
  <2>1. /\ is_finalized_' = is_finalized_ /\ UNCHANGED setup /\ UNCHANGED decoded
        /\ phase = "flush"
        /\ is_finalized_ => phase' \in {"finished", "failed"}
    BY <1>11 DEF FinishFlush, progress, decoded, Fail
  <2> QED BY <1>3, <2>1
<1>12. CASE UNCHANGED vars
  BY <1>12 DEF vars, progress, setup, FinalInv, FinalizedIsComplete, HasEverything
<1> QED BY <1>1, <1>2, <1>4, <1>5, <1>6, <1>7, <1>8, <1>9, <1>10, <1>11, <1>12
        DEF Next, Step
-----------------------------------------------------------------------------
(* The theorems. *)

LEMMA InitIInv == Init => IInv
<1> SUFFICES ASSUME Init PROVE IInv
  OBVIOUS
<1>1. /\ phase = "none" /\ is_finalized_ = TRUE /\ ~can_return_dc
      /\ ~decoded_dc_global_ /\ decoded_dc_groups_ = {} /\ ~decoded_ac_global_
      /\ decoded_passes_per_ac_group_ = [g \in Groups |-> 0]
      /\ decodes = [u \in Parts |-> 0]
  BY DEF Init
<1>2. TypeOK /\ TasksInv /\ StorageInv
  BY InitType, InitTasks
<1>3. OrderInv /\ BetweenInv /\ CallInv /\ SingleInv /\ ReturnedInv /\ FinalInv
  BY <1>1 DEF OrderInv, DependenciesMet, BetweenInv, CallInv, SingleInv, ReturnedInv,
              FinalInv, FinalizedIsComplete, InCall, Between
<1>4. CountsInv
  <2>1. /\ decodes[<<"dcGlobal">>] = 0 /\ decodes[<<"acGlobal">>] = 0
        /\ \A i \in DCGroups : decodes[<<"dc", i>>] = 0
        /\ \A g \in Groups, p \in Passes : decodes[<<"ac", g, p>>] = 0
    BY <1>1, PartsFacts
  <2> QED BY <1>1, <2>1 DEF CountsInv
<1> QED BY <1>2, <1>3, <1>4 DEF IInv

LEMMA NextKeepsIInv == IInv /\ [Next]_vars => IInv'
<1> SUFFICES ASSUME IInv, [Next]_vars PROVE IInv'
  OBVIOUS
<1>1. /\ TypeOK /\ TasksInv /\ StorageInv /\ OrderInv /\ CountsInv /\ SectionsInv
      /\ BetweenInv /\ SingleInv /\ FinalInv
      /\ (can_return_dc => ~SingleSection)
  BY DEF IInv, SectionsInv, FinalInv
<1>2. TypeOK' /\ StorageInv'
  BY <1>1, TypeStep, StorageNext
<1>3. TasksInv'
  BY <1>1, TasksNext
<1>4. SectionsInv' /\ CountsInv'
  BY <1>1, SectionsNext DEF FinalInv
<1>5. SingleInv' /\ OrderInv' /\ FinalInv'
  BY <1>1, SingleNext, OrderNext, FinalNext
<1> QED BY <1>2, <1>3, <1>4, <1>5 DEF IInv, SectionsInv

\* The inductive invariant of the frame decoder: the state of ProcessSections()
\* and the flags of the class agree with each other at every step of a call.
THEOREM DecoderInvariant == Spec => []IInv
BY InitIInv, NextKeepsIInv, PTL DEF Spec

\* The variables of FrameDecoder keep their types, for every size of frame.
THEOREM TypeCorrect == Spec => []TypeOK
<1>1. IInv => TypeOK
  BY DEF IInv
<1> QED BY <1>1, DecoderInvariant, PTL

\* GetStorageLocation(): threads that decode groups at the same time use
\* different caches, which PrepareStorage() has allocated, for every number of
\* threads, groups and runs of the pool.
THEOREM CachesArePrivate == Spec => []StoragePrivate
<1>1. IInv => StoragePrivate
  BY StorageIsPrivate DEF IInv
<1> QED BY <1>1, DecoderInvariant, PTL

\* FinalizeDC() and ProcessACGlobal(): no part of a frame is decoded before what
\* it depends on.
THEOREM PartsInOrder == Spec => []DependenciesMet
<1>1. IInv => DependenciesMet
  BY DEF IInv, OrderInv
<1> QED BY <1>1, DecoderInvariant, PTL

\* Groups are decoded and drawn with the render pipeline of PreparePipeline(),
\* except when DecodeFrame() flushes a file that ends before its DC.
THEOREM PipelineIsPrepared == Spec => []DrawsHavePipeline
<1>1. IInv => DrawsHavePipeline
  <2> SUFFICES ASSUME IInv, NEW t \in Threads, running[t] # NoGroup
               PROVE  \/ render_pipeline /\ allocated_
                      \/ caller = "file" /\ ~finalized_dc_
    BY DEF DrawsHavePipeline
  <2>1. phase \in {"ac", "flush"} /\ caller \in {"api", "file"}
    BY DEF IInv, TasksInv, TypeOK
  <2>2. finalized_dc_ => render_pipeline /\ allocated_
    BY <2>1 DEF IInv, OrderInv
  <2>3. phase = "ac" => finalized_dc_
    BY DEF IInv, OrderInv, DependenciesMet
  <2>4. phase = "flush" /\ caller = "api" => finalized_dc_
    BY DEF IInv, OrderInv
  <2> QED BY <2>1, <2>2, <2>3, <2>4
<1> QED BY <1>1, DecoderInvariant, PTL

\* ProcessSections(), called again with all that has arrived: every part is
\* decoded at most once, and the passes of a group from the first one on.
THEOREM PartsDecodedOnce == Spec => []DecodedOnceInOrder
<1>1. IInv => DecodedOnceInOrder
  <2> SUFFICES ASSUME CountsInv, TypeOK PROVE DecodedOnceInOrder
    BY DEF IInv
  <2>1. ASSUME NEW u \in Parts PROVE decodes[u] <= 1
    BY PartsFacts DEF CountsInv
  <2>2. ASSUME NEW g \in Groups, NEW p \in Passes
        PROVE  decodes[<<"ac", g, p>>] = 1 <=> p < decoded_passes_per_ac_group_[g]
    <3>1. decodes[<<"ac", g, p>>] = IF p < decoded_passes_per_ac_group_[g] THEN 1 ELSE 0
      BY DEF CountsInv
    <3> QED BY <3>1
  <2> QED BY <2>1, <2>2 DEF DecodedOnceInOrder
<1> QED BY <1>1, DecoderInvariant, PTL

\* MarkSections(): between two calls processed_section_ marks exactly the
\* sections that are decoded.
THEOREM ProcessedIsExact == Spec => []ProcessedAreDecoded
<1>1. IInv => ProcessedAreDecoded
  <2> SUFFICES ASSUME BetweenInv, TypeOK, phase \in {"idle", "returned"}
               PROVE  processed_section_ = {s \in Sections : SectionDecoded(s)}
    BY DEF IInv, ProcessedAreDecoded
  <2>1. ASSUME NEW s \in Sections
        PROVE  s \in processed_section_ <=> SectionDecoded(s)
    BY DecodedOrNot DEF BetweenInv, Between
  <2> QED BY <2>1 DEF TypeOK
<1> QED BY <1>1, DecoderInvariant, PTL

\* HasDecodedAll() and FinalizeFrame(): a frame that decode.cc finalizes has been
\* decoded completely.
THEOREM FinalizedFrames == Spec => []FinalizedIsComplete
<1>1. IInv => FinalizedIsComplete
  BY DEF IInv, FinalInv
<1> QED BY <1>1, DecoderInvariant, PTL
=============================================================================
