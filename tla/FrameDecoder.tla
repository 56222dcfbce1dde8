---------------------------- MODULE FrameDecoder ----------------------------
(***************************************************************************)
(* The decoding of one frame: class FrameDecoder (lib/jxl/dec_frame.{h,cc}) *)
(* and its two users, the stage kFull of ProcessCodestream() in decode.cc   *)
(* (caller = "api") and DecodeFrame() (caller = "file").                    *)
(*                                                                         *)
(* The sections of a frame arrive in any order and are given to             *)
(* ProcessSections() again and again, all that were received so far, until  *)
(* all are done.  DC and AC groups are decoded by a thread pool: each task  *)
(* is an action, and so is each sequential part of ProcessSections().       *)
(***************************************************************************)
EXTENDS Integers, FiniteSets

CONSTANTS NumDCGroups, NumGroups, NumPasses,   \* frame_dim_, passes.num_passes
          NumThreads         \* most threads that a run of pool_ has

ASSUME SizesAssumption ==
  /\ NumDCGroups \in Nat \ {0} /\ NumGroups \in Nat \ {0}
  /\ NumPasses \in Nat \ {0} /\ NumThreads \in Nat \ {0}

DCGroups == 0..NumDCGroups-1
Groups == 0..NumGroups-1
Passes == 0..NumPasses-1
Threads == 0..NumThreads-1
NoGroup == -1

\* toc.h: a frame with one group and one pass is a single section.
SingleSection == NumGroups = 1 /\ NumPasses = 1
DCGlobal == 0
DCGroupSection(i) == IF SingleSection THEN 0 ELSE 1 + i
ACGlobal == IF SingleSection THEN 0 ELSE NumDCGroups + 1
ACSection(g, p) == IF SingleSection THEN 0 ELSE ACGlobal + 1 + p * NumGroups + g
NumSections ==
  IF SingleSection THEN 1 ELSE 2 + NumDCGroups + NumGroups * NumPasses
Sections == 0..NumSections-1

\* What the sections hold: a single section holds one of each.
Parts == {<<"dcGlobal">>, <<"acGlobal">>} \cup ({"dc"} \X DCGroups)
           \cup ({"ac"} \X Groups \X Passes)

VARIABLES
  processed_section_, decoded_dc_global_, decoded_dc_groups_, finalized_dc_,
  decoded_ac_global_, decoded_passes_per_ac_group_, num_sections_done_,
  is_finalized_, allocated_, max_passes_, allow_partial_frames_,
  allow_partial_dc_global_,
  can_return_dc,              \* pause_at_progressive_ and a frame that allows it
  jpeg,                       \* decoded_->IsJPEG()
  render_pipeline,            \* PreparePipeline() was called for this frame
  caller,
  group_dec_caches_, use_task_id_,    \* storage of the threads: size and index
  num_threads,                \* of the last run of the pool
  phase,                      \* where the call under way is
  sections,                   \* the sections received: section_info
  fresh,                      \* those of them that this call decodes
  section_status, has_error,
  todo, running,              \* tasks of the run of the pool
  decodes                     \* history: how often each part was decoded

progress == <<processed_section_, decoded_dc_global_, decoded_dc_groups_,
              finalized_dc_, decoded_ac_global_, decoded_passes_per_ac_group_,
              allocated_, render_pipeline, decodes>>
setup == <<max_passes_, allow_partial_frames_, allow_partial_dc_global_,
           can_return_dc, jpeg, caller>>
storage == <<group_dec_caches_, use_task_id_, num_threads>>
call == <<sections, fresh, section_status, has_error, todo, running>>
vars == <<progress, num_sections_done_, is_finalized_, setup, storage, phase, call>>

Status == {"kDone", "kSkipped", "kDuplicate", "kPartial"}
Phases == {"none", "idle", "dc", "acGlobal", "ac", "returned", "flush",
           "finished", "failed"}

TypeOK ==
  /\ processed_section_ \subseteq Sections
  /\ decoded_dc_groups_ \subseteq DCGroups
  /\ {decoded_dc_global_, decoded_ac_global_, finalized_dc_, is_finalized_,
      allocated_, allow_partial_frames_, allow_partial_dc_global_, can_return_dc,
      jpeg, render_pipeline, use_task_id_, has_error} \subseteq BOOLEAN
  /\ decoded_passes_per_ac_group_ \in [Groups -> 0..NumPasses]
  /\ num_sections_done_ \in 0..NumSections
  /\ max_passes_ \in 0..NumPasses
  /\ group_dec_caches_ \in 0..NumThreads /\ num_threads \in 0..NumThreads
  /\ caller \in {"api", "file"}
  /\ phase \in Phases
  /\ fresh \subseteq sections /\ sections \subseteq Sections
  /\ section_status \in [Sections -> Status]
  /\ todo \subseteq DCGroups \cup Groups
  /\ running \in [Threads -> Groups \cup {NoGroup}]
  /\ decodes \in [Parts -> Nat]

-----------------------------------------------------------------------------
\* The constructor: no frame yet.
Init ==
  /\ processed_section_ = {} /\ decoded_dc_global_ = FALSE
  /\ decoded_dc_groups_ = {} /\ finalized_dc_ = TRUE
  /\ decoded_ac_global_ = FALSE
  /\ decoded_passes_per_ac_group_ = [g \in Groups |-> 0]
  /\ num_sections_done_ = 0 /\ is_finalized_ = TRUE /\ allocated_ = FALSE
  /\ max_passes_ = NumPasses /\ allow_partial_frames_ = FALSE
  /\ allow_partial_dc_global_ = FALSE /\ can_return_dc = FALSE /\ jpeg = FALSE
  /\ render_pipeline = FALSE
  /\ caller \in {"api", "file"}
  /\ group_dec_caches_ = 0 /\ use_task_id_ = FALSE /\ num_threads = 0
  /\ phase = "none"
  /\ sections = {} /\ fresh = {}
  /\ section_status = [s \in Sections |-> "kSkipped"]
  /\ has_error = FALSE /\ todo = {}
  /\ running = [t \in Threads |-> NoGroup]
  /\ decodes = [u \in Parts |-> 0]

\* InitFrame() of the next frame by a new FrameDecoder (its header and table of
\* contents are read).  decode.cc always allows partial frames, DecodeFrame()
\* has options, and may limit the passes.
InitFrame ==
  /\ phase \in {"none", "finished", "failed"}
  /\ phase' = "idle"
  /\ processed_section_' = {} /\ decoded_dc_global_' = FALSE
  /\ decoded_dc_groups_' = {} /\ finalized_dc_' = FALSE
  /\ decoded_ac_global_' = FALSE
  /\ decoded_passes_per_ac_group_' = [g \in Groups |-> 0]
  /\ num_sections_done_' = 0 /\ is_finalized_' = FALSE /\ allocated_' = FALSE
  /\ render_pipeline' = FALSE
  /\ \/ /\ caller = "api"
        /\ max_passes_' = NumPasses /\ can_return_dc' \in {FALSE, ~SingleSection}
        /\ allow_partial_frames_' = TRUE /\ allow_partial_dc_global_' = FALSE
     \/ /\ caller = "file"
        /\ max_passes_' \in 0..NumPasses /\ can_return_dc' = FALSE
        /\ allow_partial_frames_' \in BOOLEAN
        /\ allow_partial_dc_global_' \in {FALSE, allow_partial_frames_'}
  /\ jpeg' \in BOOLEAN
  /\ group_dec_caches_' = 0 /\ use_task_id_' = FALSE /\ num_threads' = 0
  /\ sections' = {} /\ fresh' = {} /\ has_error' = FALSE
  /\ section_status' = [s \in Sections |-> "kSkipped"]
  /\ decodes' = [u \in Parts |-> 0]
  /\ UNCHANGED <<caller, todo, running>>

\* A section of a pass that SetMaxPasses() excluded.
Capped(s) == /\ ~SingleSection /\ s > ACGlobal
             /\ (s - ACGlobal - 1) \div NumGroups >= max_passes_

\* The new passes of a group: those that continue what is decoded.
NumACPasses_AnyOrder(g) ==                                         \* faulty
  Cardinality({p \in Passes : /\ p >= decoded_passes_per_ac_group_[g]
                              /\ ACSection(g, p) \in fresh})
NumACPasses(g) ==
  Cardinality({p \in Passes :
    /\ p >= decoded_passes_per_ac_group_[g]
    /\ \A q \in decoded_passes_per_ac_group_[g]..p : ACSection(g, q) \in fresh})

Decode(parts) == decodes' = [u \in Parts |->
                               IF u \in parts THEN decodes[u] + 1 ELSE decodes[u]]

Fail == phase' = "failed"

UnmarkUndone_Never(status) == processed_section_                   \* faulty
UnmarkUndone(status) ==
  processed_section_ \ {s \in sections : status[s] \in {"kSkipped", "kPartial"}}

NumDone_NewOnly ==                                                 \* faulty
  Cardinality({s \in sections : section_status[s] = "kDone"})
NumDone ==
  Cardinality({s \in sections : section_status[s] \in {"kDone", "kDuplicate"}})

\* MarkSections(), and ProcessSections() returns true.
ReturnTrue ==
  /\ phase' = "returned"
  /\ processed_section_' = UnmarkUndone(section_status)
  /\ num_sections_done_' = NumDone

\* The sections that a caller may pass.  decode.cc passes all it has received,
\* in whatever order the table of contents puts them; DecodeFrame() calls once,
\* with what a truncated file contains.
MayPass(S) == IF caller = "api"
                THEN S # {} /\ sections \subseteq S
                ELSE sections = {} /\ (allow_partial_frames_ \/ S = Sections)

\* ProcessSections(): sorts the sections by what they hold, and ProcessDCGlobal().
ProcessSections(S) ==
  /\ phase = "idle"
  /\ MayPass(S)
  /\ LET new == {s \in S : s \notin processed_section_ /\ ~Capped(s)}
         given(status) ==
           section_status' = [s \in Sections |->
             IF s = DCGlobal /\ s \in new THEN status
             ELSE IF s \in processed_section_ THEN "kDuplicate" ELSE "kSkipped"]
         decoded(flag) ==
           /\ phase' = "dc"
           /\ decoded_dc_global_' = flag
           /\ todo' = {i \in DCGroups : flag /\ DCGroupSection(i) \in new}
     IN  /\ sections' = S
         /\ fresh' = new
         /\ processed_section_' = processed_section_ \cup new
         /\ \/ /\ DCGlobal \in new
               /\ decoded(TRUE) /\ given("kDone") /\ Decode({<<"dcGlobal">>})
            \/ /\ DCGlobal \in new    \* truncated
               /\ allow_partial_dc_global_
               /\ decoded(FALSE) /\ given("kPartial") /\ Decode({})
            \/ /\ DCGlobal \in new    \* a fatal error
               /\ Fail /\ given("kSkipped") /\ Decode({})
               /\ UNCHANGED <<decoded_dc_global_, todo>>
            \/ /\ DCGlobal \notin new
               /\ decoded(decoded_dc_global_) /\ given("kSkipped") /\ Decode({})
  /\ has_error' = FALSE
  /\ UNCHANGED <<decoded_dc_groups_, finalized_dc_, decoded_ac_global_,
                 decoded_passes_per_ac_group_, allocated_, render_pipeline,
                 num_sections_done_, is_finalized_, setup, storage, running>>

\* A task of "DecodeDCGroup".
ProcessDCGroup(i) ==
  /\ phase = "dc" /\ i \in todo
  /\ todo' = todo \ {i}
  /\ \/ /\ decoded_dc_groups_' = decoded_dc_groups_ \cup {i}
        /\ section_status' = [section_status EXCEPT ![DCGroupSection(i)] = "kDone"]
        /\ Decode({<<"dc", i>>})
        /\ UNCHANGED has_error
     \/ /\ has_error' = TRUE
        /\ UNCHANGED <<decoded_dc_groups_, section_status, decodes>>
  /\ UNCHANGED <<processed_section_, decoded_dc_global_, finalized_dc_,
                 decoded_ac_global_, decoded_passes_per_ac_group_, allocated_,
                 render_pipeline, num_sections_done_, is_finalized_, setup,
                 storage, phase, sections, fresh, running>>

DCIsComplete_Any == decoded_dc_groups_ # {}                        \* faulty
DCIsComplete == decoded_dc_groups_ = DCGroups

\* After the DC groups: PreparePipeline(), FinalizeDC(), AllocateOutput() and
\* the pause for a progressive step.
FinalizeDC ==
  /\ phase = "dc" /\ todo = {}
  /\ \/ /\ has_error
        /\ Fail
        /\ UNCHANGED <<progress, num_sections_done_>>
     \/ /\ ~has_error
        /\ ~(DCIsComplete /\ ~finalized_dc_)
        /\ phase' = "acGlobal"
        /\ UNCHANGED <<progress, num_sections_done_>>
     \/ /\ ~has_error
        /\ DCIsComplete /\ ~finalized_dc_
        /\ finalized_dc_' = TRUE /\ render_pipeline' = TRUE /\ allocated_' = TRUE
        /\ IF can_return_dc
             THEN ReturnTrue
             ELSE phase' = "acGlobal" /\ UNCHANGED <<processed_section_, num_sections_done_>>
        /\ UNCHANGED <<decoded_dc_global_, decoded_dc_groups_, decoded_ac_global_,
                       decoded_passes_per_ac_group_, decodes>>
     \/ /\ ~has_error         \* PreparePipeline() or AllocateOutput() fails
        /\ DCIsComplete /\ ~finalized_dc_
        /\ \E prepared \in BOOLEAN : /\ render_pipeline' = prepared
                                     /\ finalized_dc_' = prepared
        /\ Fail
        /\ UNCHANGED <<processed_section_, decoded_dc_global_, decoded_dc_groups_,
                       decoded_ac_global_, decoded_passes_per_ac_group_, allocated_,
                       decodes, num_sections_done_>>
  /\ UNCHANGED <<is_finalized_, setup, storage, call>>

\* The init function of a run: the pool tells how many threads it will use,
\* which may differ from the last run.
StorageSize(n) == IF n < NumGroups THEN n ELSE NumGroups
PrepareStorage ==
  \E n \in 1..NumThreads :
    /\ num_threads' = n
    /\ group_dec_caches_' =
         IF StorageSize(n) > group_dec_caches_ THEN StorageSize(n) ELSE group_dec_caches_
    /\ use_task_id_' = (n > NumGroups)

GetStorageLocation_ThreadOnly(t) == t                              \* faulty
GetStorageLocation(t) == IF use_task_id_ THEN running[t] ELSE t

ACGlobalReady == finalized_dc_ /\ ACGlobal \in fresh /\ ~decoded_ac_global_

\* ProcessACGlobal(), and the start of the run "DecodeGroup".
ProcessACGlobal ==
  /\ phase = "acGlobal"
  /\ \/ /\ ACGlobalReady
        /\ decoded_ac_global_' = TRUE
        /\ section_status' = [section_status EXCEPT ![ACGlobal] = "kDone"]
        /\ Decode({<<"acGlobal">>})
        /\ phase' = "ac"
        /\ PrepareStorage
        /\ todo' = {g \in Groups : NumACPasses(g) > 0}
        /\ UNCHANGED <<processed_section_, num_sections_done_>>
     \/ /\ ACGlobalReady
        /\ Fail
        /\ UNCHANGED <<decoded_ac_global_, section_status, decodes, storage, todo,
                       processed_section_, num_sections_done_>>
     \/ /\ ~ACGlobalReady /\ decoded_ac_global_
        /\ phase' = "ac"
        /\ PrepareStorage
        /\ todo' = {g \in Groups : NumACPasses(g) > 0}
        /\ UNCHANGED <<decoded_ac_global_, section_status, decodes,
                       processed_section_, num_sections_done_>>
     \/ /\ ~ACGlobalReady /\ ~decoded_ac_global_
        /\ ReturnTrue
        /\ UNCHANGED <<decoded_ac_global_, section_status, decodes, storage, todo>>
  /\ UNCHANGED <<decoded_dc_global_, decoded_dc_groups_, finalized_dc_,
                 decoded_passes_per_ac_group_, allocated_, render_pipeline,
                 is_finalized_, setup, sections, fresh, has_error, running>>

\* A thread of the pool takes a task of "DecodeGroup" or "ForceDrawGroup".
StartGroup(t, g) ==
  /\ phase \in {"ac", "flush"}
  /\ t < num_threads /\ running[t] = NoGroup /\ g \in todo
  /\ running' = [running EXCEPT ![t] = g]
  /\ todo' = todo \ {g}
  /\ UNCHANGED <<progress, num_sections_done_, is_finalized_, setup, storage, phase,
                 sections, fresh, section_status, has_error>>

\* ProcessACGroup() ends.
ProcessACGroup(t) ==
  /\ phase = "ac" /\ running[t] # NoGroup
  /\ running' = [running EXCEPT ![t] = NoGroup]
  /\ LET g == running[t]
         first_pass == decoded_passes_per_ac_group_[g]
         passes == first_pass..first_pass + NumACPasses(g) - 1
     IN  \/ /\ decoded_passes_per_ac_group_' = [decoded_passes_per_ac_group_ EXCEPT
                 ![g] = first_pass + NumACPasses(g)]
            /\ section_status' = [s \in Sections |->
                 IF \E p \in passes : s = ACSection(g, p) THEN "kDone"
                                                          ELSE section_status[s]]
            /\ Decode({u \in Parts : u[1] = "ac" /\ u[2] = g
                                     /\ ACSection(g, u[3]) \in fresh /\ u[3] \in passes})
            /\ UNCHANGED has_error
         \/ /\ has_error' = TRUE
            /\ UNCHANGED <<decoded_passes_per_ac_group_, section_status, decodes>>
  /\ UNCHANGED <<processed_section_, decoded_dc_global_, decoded_dc_groups_,
                 finalized_dc_, decoded_ac_global_, allocated_, render_pipeline,
                 num_sections_done_, is_finalized_, setup, storage, phase, sections,
                 fresh, todo>>

PoolIsDone == todo = {} /\ \A t \in Threads : running[t] = NoGroup

\* The end of ProcessSections().
FinishSections ==
  /\ phase = "ac" /\ PoolIsDone
  /\ IF has_error
       THEN Fail /\ UNCHANGED <<processed_section_, num_sections_done_>>
       ELSE ReturnTrue
  /\ UNCHANGED <<decoded_dc_global_, decoded_dc_groups_, finalized_dc_,
                 decoded_ac_global_, decoded_passes_per_ac_group_, allocated_,
                 render_pipeline, decodes, is_finalized_, setup, storage, call>>

-----------------------------------------------------------------------------
HasDecodedAll_AnyStatus == Cardinality(sections) = NumSections    \* faulty
HasDecodedAll == num_sections_done_ = NumSections

HasEverything ==
  /\ decoded_dc_global_ /\ decoded_ac_global_
  /\ decoded_dc_groups_ = DCGroups
  /\ \A g \in Groups : decoded_passes_per_ac_group_[g] >= max_passes_

\* The groups that Flush() draws although they are not complete.
Incomplete == {g \in Groups : decoded_passes_per_ac_group_[g] < NumPasses}

FlushStorage == IF Incomplete = {} THEN UNCHANGED storage ELSE PrepareStorage

\* Flush(): AllocateOutput() and the run "ForceDrawGroup".
BeginFlush ==
  /\ phase' = "flush"
  /\ allocated_' = TRUE
  /\ todo' = Incomplete
  /\ FlushStorage
  /\ has_error' = FALSE
  /\ UNCHANGED <<processed_section_, decoded_dc_global_, decoded_dc_groups_,
                 finalized_dc_, decoded_ac_global_, decoded_passes_per_ac_group_,
                 render_pipeline, decodes, num_sections_done_, setup, sections,
                 fresh, section_status, running>>

HasDecodedDC_Global == decoded_dc_global_                          \* faulty
HasDecodedDC == finalized_dc_

\* JxlDecoderFlushImage(), for a frame that Flush() does not leave alone.
FlushImage ==
  /\ caller = "api" /\ phase = "idle" /\ sections # {}
  /\ HasDecodedDC /\ ~jpeg
  /\ BeginFlush
  /\ UNCHANGED is_finalized_

\* The status checks of DecodeFrame(), with dparams.max_downsampling > 1 or not.
StatusesAccepted(downsampling) ==
  \A s \in sections :
    \/ section_status[s] \in {"kDone", "kPartial"}
    \/ section_status[s] = "kSkipped" /\ downsampling

\* The caller after ProcessSections(): the bit readers are closed, then
\* FinalizeFrame() or more input.
AfterSections ==
  /\ phase = "returned"
  /\ \E downsampling \in BOOLEAN :
       LET complete == IF caller = "api" THEN HasDecodedAll
                                         ELSE StatusesAccepted(downsampling)
       IN  \/ /\ complete
              /\ is_finalized_' = TRUE
              /\ ~jpeg /\ (HasEverything \/ allow_partial_frames_)
              /\ BeginFlush
           \/ /\ complete
              /\ is_finalized_' = TRUE
              /\ \/ jpeg /\ phase' = "finished"
                 \/ ~jpeg /\ ~HasEverything /\ ~allow_partial_frames_ /\ Fail
              /\ UNCHANGED <<progress, num_sections_done_, setup, storage, call>>
           \/ /\ ~complete
              /\ phase' = IF caller = "api" THEN "idle" ELSE "failed"
              /\ UNCHANGED <<progress, num_sections_done_, is_finalized_, setup,
                             storage, call>>
           \/ /\ Fail            \* a section was read past its end
              /\ UNCHANGED <<progress, num_sections_done_, is_finalized_, setup,
                             storage, call>>

\* A task of "ForceDrawGroup" ends: nothing is decoded.
DrawGroup(t) ==
  /\ phase = "flush" /\ running[t] # NoGroup
  /\ running' = [running EXCEPT ![t] = NoGroup]
  /\ has_error' \in {has_error, TRUE}
  /\ UNCHANGED <<progress, num_sections_done_, is_finalized_, setup, storage, phase,
                 sections, fresh, section_status, todo>>

\* Flush() returns, after FinalizeDecoding() of the modular decoder, to
\* FinalizeFrame() or to JxlDecoderFlushImage().
FinishFlush ==
  /\ phase = "flush" /\ PoolIsDone
  /\ \/ ~is_finalized_ /\ phase' = "idle"
     \/ is_finalized_ /\ ~has_error /\ phase' = "finished"
     \/ is_finalized_ /\ Fail
  /\ UNCHANGED <<progress, num_sections_done_, is_finalized_, setup, storage, call>>

\* JxlDecoderProcessInput() is called again after it returned JXL_DEC_ERROR:
\* stage is not kError, and the frame decoder is still there.
Retry ==
  /\ caller = "api"
  /\ phase = "failed" /\ ~is_finalized_
  /\ phase' = "idle"
  /\ UNCHANGED <<progress, num_sections_done_, is_finalized_, setup, storage, call>>

-----------------------------------------------------------------------------
Step ==
  \/ \E i \in DCGroups : ProcessDCGroup(i)
  \/ FinalizeDC \/ ProcessACGlobal \/ FinishSections \/ AfterSections \/ FinishFlush
  \/ \E t \in Threads : \/ \E g \in Groups : StartGroup(t, g)
                        \/ ProcessACGroup(t) \/ DrawGroup(t)

Next ==
  \/ InitFrame \/ FlushImage \/ Step
  \/ \E S \in SUBSET Sections : ProcessSections(S)

Spec == Init /\ [][Next]_vars

\* The pool and the calls make progress, the application calls again as long
\* as it has no answer, and sooner or later with more input.
Fairness == /\ WF_vars(Step)
            /\ SF_vars(\E S \in SUBSET Sections :
                         ProcessSections(S) /\ (S # sections \/ S = Sections))
FairSpec == Spec /\ Fairness

\* An application that goes on after JXL_DEC_ERROR.
RetrySpec == Init /\ [][Next \/ Retry]_vars

-----------------------------------------------------------------------------
\* Whatever the order in which sections arrive, a pause for a progressive
\* step, calls that bring nothing new and flushes in between: each part of the
\* frame is decoded once, and the passes of a group from the first one on.
DecodedOnceInOrder ==
  /\ \A u \in Parts : decodes[u] <= 1
  /\ \A g \in Groups, p \in Passes :
       decodes[<<"ac", g, p>>] = 1 <=> p < decoded_passes_per_ac_group_[g]

\* The comments in FinalizeDC() and ProcessACGlobal(): smoothing of the DC is
\* between all DC groups and all AC groups, and AC needs the global sections.
DependenciesMet ==
  phase # "none" =>
    /\ decoded_dc_groups_ # {} => decoded_dc_global_
    /\ finalized_dc_ => decoded_dc_groups_ = DCGroups
    /\ decoded_ac_global_ => finalized_dc_
    /\ (\E g \in Groups : decoded_passes_per_ac_group_[g] > 0) => decoded_ac_global_

\* All that a section holds is decoded.
SectionDecoded(s) ==
  /\ s = DCGlobal => decoded_dc_global_
  /\ s = ACGlobal => decoded_ac_global_
  /\ \A i \in DCGroups : s = DCGroupSection(i) => i \in decoded_dc_groups_
  /\ \A g \in Groups, p \in Passes :
       s = ACSection(g, p) => p < decoded_passes_per_ac_group_[g]

\* Between calls exactly the decoded sections are remembered as processed: one
\* that was skipped is tried again, one that is done is not.
ProcessedAreDecoded ==
  phase \in {"idle", "returned"} =>
    processed_section_ = {s \in Sections : SectionDecoded(s)}

\* The frame that decode.cc finalizes, with allow_partial_frames, and hands
\* out as JXL_DEC_FULL_IMAGE has been decoded completely.
FinalizedIsComplete ==
  caller = "api" /\ is_finalized_ /\ phase # "none" => HasEverything

\* Threads that decode at the same time use different caches, which exist.
StoragePrivate ==
  \A t, u \in Threads :
    running[t] # NoGroup /\ running[u] # NoGroup =>
      /\ GetStorageLocation(t) < group_dec_caches_
      /\ t # u => GetStorageLocation(t) # GetStorageLocation(u)

\* Groups are decoded or drawn only with a render pipeline for this frame.  The
\* exception is a truncated file that ends before its DC is complete.
DrawsHavePipeline ==
  (\E t \in Threads : running[t] # NoGroup)
    => \/ render_pipeline /\ allocated_
       \/ caller = "file" /\ ~finalized_dc_

\* Once all sections have arrived the frame is finished, or an error reported.
FrameEnds == (phase = "idle") ~> (phase \in {"finished", "failed"})
=============================================================================
