--------------------------- MODULE FrameSkipping ---------------------------
(***************************************************************************)
(* The frame loop of JxlDecoderProcessCodestream() in lib/jxl/decode.cc,   *)
(* with the calls an application makes between two calls of                *)
(* JxlDecoderProcessInput(): subscribe, set the output buffer, skip        *)
(* frames, rewind, reset.                                                  *)
(*                                                                         *)
(* A codestream is a sequence of internal frames. Each may be saved in     *)
(* one of eight slots and may use what earlier frames left in the slots.   *)
(* The last frame of a still is displayed; a still is an external frame.   *)
(* The decoder remembers over a rewind which frames use and fill which     *)
(* slots, so that it can skip what the frame skipped to does not need.     *)
(*                                                                         *)
(* Frames and vector elements are numbered from 1 here, from 0 in the      *)
(* code. The contents of a frame are abstracted: `intact' is the set of    *)
(* frames decoded, since the last rewind, from the same slot contents as   *)
(* in a decode that skips nothing.                                         *)
(***************************************************************************)
EXTENDS Naturals, Sequences, FiniteSetsExt

CONSTANTS Images,       \* the codestreams: sequences of frames
          MaxSkip,      \* most frames skipped since a rewind
          MaxRewinds    \* most rewinds since a reset

VARIABLES
  image,                       \* the codestream: a sequence of frames
  in_call,                     \* JxlDecoderProcessInput() has not returned
  stage, got_basic_info, events_wanted, orig_events_wanted, coalescing,
  internal_frames, external_frames, frame_stage,
  is_last_of_still, is_last_total, skip_frames, skipping_frame,
  frame_references, frame_saved_as, frame_external_to_internal, frame_required,
  image_out_buffer_set,
  reference_frames,            \* the slots of the PassesDecoderState
  intact,                      \* see above
  shown,                       \* external frames returned, since the rewind
  asked,                       \* external frames the application skips
  rewinds                      \* rewinds since a reset

settings == <<image, coalescing, orig_events_wanted, rewinds>>
tables == <<frame_references, frame_saved_as, frame_external_to_internal>>
position == <<internal_frames, external_frames, is_last_of_still, is_last_total>>
skipping == <<skip_frames, skipping_frame, frame_required, asked>>
output == <<reference_frames, intact, shown>>
vars == <<settings, tables, position, skipping, output, in_call, stage,
          got_basic_info, events_wanted, frame_stage, image_out_buffer_set>>

Slots == 0..7
FrameTypes == {"kRegularFrame", "kSkipProgressive", "kReferenceOnly", "kDCFrame"}
FrameEvents == {"FULL_IMAGE", "FRAME", "FRAME_PROGRESSION"}

\* A frame: its header fields, and the slots it uses through blending and
\* through patches or a DC frame.
Frame == [type : FrameTypes, duration : BOOLEAN, save_as_reference : 0..3,
          dc_level : 1..4, blending : SUBSET (0..3), patches : SUBSET Slots]

\* Only a regular frame can be the last one (is_last).
ASSUME ImagesAssumption ==
  /\ Images \subseteq {s \in Seq(Frame) : s # <<>> /\ s[Len(s)].type = "kRegularFrame"}
  /\ MaxSkip \in Nat /\ MaxRewinds \in Nat

TypeOK ==
  /\ image \in Images
  /\ in_call \in BOOLEAN /\ got_basic_info \in BOOLEAN
  /\ stage \in {"kInited", "kStarted", "kCodestreamFinished"}
  /\ events_wanted \subseteq orig_events_wanted
  /\ orig_events_wanted \subseteq FrameEvents
  /\ coalescing \in BOOLEAN
  /\ external_frames \in 0..internal_frames
  /\ internal_frames \in 0..Len(image)
  /\ frame_stage \in {"kHeader", "kTOC", "kFull"}
  /\ is_last_of_still \in BOOLEAN /\ is_last_total \in BOOLEAN
  /\ skip_frames \in 0..MaxSkip /\ skipping_frame \in BOOLEAN
  /\ frame_references \in Seq(SUBSET Slots)
  /\ frame_saved_as \in Seq(SUBSET Slots)
  /\ Len(frame_references) = Len(frame_saved_as)
  /\ internal_frames <= Len(frame_saved_as)
  /\ frame_external_to_internal \in Seq(1..Len(image))
  /\ frame_required \in Seq(BOOLEAN)
  /\ image_out_buffer_set \in BOOLEAN
  /\ reference_frames \in [Slots -> 0..Len(image)]
  /\ intact \subseteq 1..internal_frames
  /\ shown \in Seq([frame : 1..Len(image), external : 1..Len(image)])
  /\ rewinds \in 0..MaxRewinds

-----------------------------------------------------------------------------
(* Facts about a frame of the image.                                        *)

IsLast(i) == i = Len(image)

\* FrameHeader::CanBeReferenced()
CanBeReferenced(i) ==
  /\ ~IsLast(i)
  /\ image[i].type # "kDCFrame"
  /\ ~image[i].duration \/ image[i].save_as_reference # 0

\* FrameDecoder::SavedAs(): the slots a frame is stored in, at most one.
SavedAs(i) ==
  CASE image[i].type = "kDCFrame" -> {3 + image[i].dc_level}
    [] CanBeReferenced(i) -> {image[i].save_as_reference}
    [] OTHER -> {}

\* FrameDecoder::References(), of a frame of which all sections are decoded.
References(i) ==
  (IF image[i].type \in {"kRegularFrame", "kSkipProgressive"}
   THEN image[i].blending ELSE {}) \cup image[i].patches

\* The slots decoding a frame really reads: without coalescing the pipeline
\* has no blending stage (PreparePipeline()).
SlotsRead(i) == IF coalescing THEN References(i) ELSE image[i].patches

LastOfStill(i) ==
  \/ IsLast(i)
  \/ image[i].duration
  \/ ~coalescing /\ image[i].type = "kRegularFrame"

-----------------------------------------------------------------------------
(* GetFrameDependencies(): all frames that the frame `index' or any frame   *)
(* after it may need, from what is known of the frames up to `index'.       *)

\* storage[s][i]: the last frame stored in slot s at or before i, or 0.
Storage(saved_as, s, i) == Max({0} \cup {j \in 1..i : s \in saved_as[j]})

\* What is on the stack at first: the frame itself, and the frames in the
\* slots after it, which later frames may use.
StackAtFirst_FrameOnly(index, saved_as) == {index}                 \* faulty
StackAtFirst(index, saved_as) ==
  {index} \cup ({Storage(saved_as, s, index) : s \in Slots} \ {0})

\* What popping a frame pushes: the frames in the slots it references.
Pushed(i, saved_as, references) ==
  IF i = 1 THEN {} ELSE {Storage(saved_as, s, i - 1) : s \in references[i]} \ {0}

GetFrameDependencies(index, saved_as, references) ==
  LET seen[n \in 0..index] ==
        IF n = 0 THEN StackAtFirst(index, saved_as)
        ELSE seen[n-1] \cup UNION {Pushed(i, saved_as, references) : i \in seen[n-1]}
  IN  seen[index] \ {index}

-----------------------------------------------------------------------------
Decoder0 ==   \* JxlDecoderRewindDecodingState()
  /\ in_call' = FALSE /\ stage' = "kInited" /\ got_basic_info' = FALSE
  /\ events_wanted' = {}
  /\ internal_frames' = 0 /\ external_frames' = 0 /\ frame_stage' = "kHeader"
  /\ is_last_of_still' = FALSE /\ is_last_total' = FALSE
  /\ skip_frames' = 0 /\ skipping_frame' = FALSE
  /\ image_out_buffer_set' = FALSE
  /\ reference_frames' = [s \in Slots |-> 0]
  /\ intact' = {} /\ shown' = <<>> /\ asked' = {}

\* JxlDecoderCreate() and JxlDecoderReset()
Init ==
  /\ image \in Images
  /\ in_call = FALSE /\ stage = "kInited" /\ got_basic_info = FALSE
  /\ events_wanted = {} /\ orig_events_wanted = {} /\ coalescing = TRUE
  /\ internal_frames = 0 /\ external_frames = 0 /\ frame_stage = "kHeader"
  /\ is_last_of_still = FALSE /\ is_last_total = FALSE
  /\ skip_frames = 0 /\ skipping_frame = FALSE
  /\ frame_references = <<>> /\ frame_saved_as = <<>>
  /\ frame_external_to_internal = <<>> /\ frame_required = <<>>
  /\ image_out_buffer_set = FALSE
  /\ reference_frames = [s \in Slots |-> 0]
  /\ intact = {} /\ shown = <<>> /\ asked = {}
  /\ rewinds = 0

-----------------------------------------------------------------------------
(* The application, between two calls.                                      *)

\* JxlDecoderSubscribeEvents(), only before starting.
SubscribeEvents(events) ==
  /\ ~in_call /\ stage = "kInited"
  /\ events_wanted' = events /\ orig_events_wanted' = events
  /\ UNCHANGED <<image, coalescing, rewinds, tables, position, skipping, output,
                 in_call, stage, got_basic_info, frame_stage, image_out_buffer_set>>

\* JxlDecoderSetCoalescing(), only before starting.
SetCoalescing(b) ==
  /\ ~in_call /\ stage = "kInited"
  /\ coalescing' = b
  /\ UNCHANGED <<image, orig_events_wanted, rewinds, tables, position, skipping,
                 output, in_call, stage, got_basic_info, events_wanted,
                 frame_stage, image_out_buffer_set>>

\* JxlDecoderSetImageOutBuffer()
SetImageOutBuffer ==
  /\ ~in_call /\ got_basic_info /\ "FULL_IMAGE" \in orig_events_wanted
  /\ image_out_buffer_set' = TRUE
  /\ UNCHANGED <<settings, tables, position, skipping, output, in_call, stage,
                 got_basic_info, events_wanted, frame_stage>>

\* The frames required before a frame known from before a rewind.
RequiredFor(target) ==
  LET index == frame_external_to_internal[target]
      deps == GetFrameDependencies(index, frame_saved_as, frame_references)
  IN  [i \in 1..index |-> i \in deps]

\* The external frame that skipping leads to: the one after `external_frames'
\* that have started and the `amount' that are to be skipped.
SkipTarget(amount) == external_frames + amount + 1

\* JxlDecoderSkipFrames()
SkipFrames(amount) ==
  /\ ~in_call /\ skip_frames + amount <= MaxSkip /\ Cardinality(asked) + amount <= MaxSkip
  /\ skip_frames' = skip_frames + amount
  /\ LET target == SkipTarget(skip_frames + amount)
     IN  frame_required' = IF /\ target <= Len(frame_external_to_internal)
                              /\ frame_external_to_internal[target] <= Len(frame_saved_as)
                           THEN RequiredFor(target) ELSE <<>>
  \* What was asked for: the next frames that have not started and that no
  \* earlier request covers.
  /\ LET last == Max(asked \cup {external_frames})
     IN  asked' = asked \cup (last + 1 .. last + amount)
  /\ UNCHANGED <<settings, tables, position, output, skipping_frame, in_call, stage,
                 got_basic_info, events_wanted, frame_stage, image_out_buffer_set>>

\* JxlDecoderRewind() keeps the settings and the tables, and frame_required.
Rewind ==
  /\ ~in_call /\ stage # "kInited" /\ rewinds < MaxRewinds
  /\ Decoder0
  /\ rewinds' = rewinds + 1
  /\ UNCHANGED <<image, coalescing, orig_events_wanted, tables, frame_required>>

\* JxlDecoderReset()
Reset ==
  /\ ~in_call /\ stage # "kInited"
  /\ Decoder0
  /\ coalescing' = TRUE /\ orig_events_wanted' = {} /\ rewinds' = 0
  /\ frame_references' = <<>> /\ frame_saved_as' = <<>>
  /\ frame_external_to_internal' = <<>> /\ frame_required' = <<>>
  /\ UNCHANGED image

\* JxlDecoderProcessInput()
ProcessInput ==
  /\ ~in_call /\ stage # "kCodestreamFinished"
  /\ in_call' = TRUE /\ stage' = "kStarted"
  /\ UNCHANGED <<settings, tables, position, skipping, output, got_basic_info,
                 events_wanted, frame_stage, image_out_buffer_set>>

-----------------------------------------------------------------------------
(* JxlDecoderProcessCodestream().                                           *)

Wants(event) == event \in events_wanted

\* The loop goes on unless no frame event is wanted or the last frame is over.
MoreFrames ==
  /\ Wants("FULL_IMAGE") \/ Wants("FRAME")
  /\ ~(frame_stage = "kHeader" /\ is_last_total)

\* A frame to be displayed needs a buffer.
BufferMissing == ~image_out_buffer_set /\ is_last_of_still /\ ~skipping_frame

\* JxlDecoderReadBasicInfo() and JxlDecoderReadAllHeaders()
ReadBasicInfo ==
  /\ in_call /\ ~got_basic_info
  /\ got_basic_info' = TRUE
  /\ UNCHANGED <<settings, tables, position, skipping, output, in_call, stage,
                 events_wanted, frame_stage, image_out_buffer_set>>

\* The input at hand ends: JXL_DEC_NEED_MORE_INPUT.
NeedMoreInput ==
  /\ in_call
  /\ \/ ~got_basic_info
     \/ MoreFrames /\ ~(frame_stage = "kFull" /\ BufferMissing)
  /\ in_call' = FALSE
  /\ UNCHANGED <<settings, tables, position, skipping, output, stage,
                 got_basic_info, events_wanted, frame_stage, image_out_buffer_set>>

\* A frame that is being skipped must still be decoded if a later frame may
\* use it.
Referenceable(i) ==
  /\ CanBeReferenced(i) \/ image[i].type = "kDCFrame"
  /\ ~(i <= Len(frame_required) /\ ~frame_required[i])

\* A table keeps what it knows and grows by one entry for a new frame.
Known(table, i, value) == IF i > Len(table) THEN Append(table, value) ELSE table

\* Until a frame has been decoded it may reference every slot.
UnknownReferences_None == {}                                       \* faulty
UnknownReferences == Slots

\* skip_frames counts stills: it goes down with the last frame of each.
FramesLeft_EachInternal(last) == skip_frames - 1                   \* faulty
FramesLeft(last) == IF last THEN skip_frames - 1 ELSE skip_frames

\* Stage kHeader: parse the header, count the frame, decide about skipping.
FrameHeader ==
  /\ in_call /\ got_basic_info /\ MoreFrames /\ frame_stage = "kHeader"
  /\ LET i == internal_frames + 1
         e == external_frames + 1
         last == LastOfStill(i)
         skip == skip_frames > 0
         over == skip /\ ~Referenceable(i)
         event == ~over /\ Wants("FRAME") /\ last /\ ~skip
     IN  /\ is_last_total' = IsLast(i)
         /\ is_last_of_still' = last
         /\ internal_frames' = i
         /\ external_frames' = IF last THEN e ELSE external_frames
         /\ skipping_frame' = skip
         /\ skip_frames' = IF skip THEN FramesLeft(last) ELSE 0
         /\ frame_external_to_internal' = Known(frame_external_to_internal, e, i)
         /\ frame_saved_as' = Known(frame_saved_as, i, SavedAs(i))
         /\ frame_references' = Known(frame_references, i, UnknownReferences)
         /\ frame_stage' = IF over THEN "kHeader" ELSE "kTOC"
         /\ in_call' = ~event                        \* else JXL_DEC_FRAME
  /\ UNCHANGED <<settings, frame_required, asked, output, stage, got_basic_info,
                 events_wanted, image_out_buffer_set>>

\* Stage kTOC: a FrameDecoder, which is only used if pixels are wanted.
FrameTOC ==
  /\ in_call /\ MoreFrames /\ frame_stage = "kTOC"
  /\ frame_stage' = IF Wants("FULL_IMAGE") THEN "kFull" ELSE "kHeader"
  /\ UNCHANGED <<settings, tables, position, skipping, output, in_call, stage,
                 got_basic_info, events_wanted, image_out_buffer_set>>

\* Stage kFull without a buffer: JXL_DEC_NEED_IMAGE_OUT_BUFFER.
NeedImageOutBuffer ==
  /\ in_call /\ MoreFrames /\ frame_stage = "kFull" /\ BufferMissing
  /\ in_call' = FALSE
  /\ UNCHANGED <<settings, tables, position, skipping, output, stage,
                 got_basic_info, events_wanted, frame_stage, image_out_buffer_set>>

\* Stage kFull, the DC is decoded: JXL_DEC_FRAME_PROGRESSION.
FrameProgression ==
  /\ in_call /\ MoreFrames /\ frame_stage = "kFull" /\ ~BufferMissing
  /\ Wants("FRAME_PROGRESSION")
  /\ events_wanted' = events_wanted \ {"FRAME_PROGRESSION"}
  /\ in_call' = FALSE
  /\ UNCHANGED <<settings, tables, position, skipping, output, stage,
                 got_basic_info, frame_stage, image_out_buffer_set>>

\* A slot holds what it would hold if nothing had been skipped.
RightContent(i, s) ==
  LET j == Max({0} \cup {k \in 1..i-1 : s \in SavedAs(k)})
  IN  reference_frames[s] = j /\ (j = 0 \/ j \in intact)

\* Stages kFull and kFullOutput: all sections are decoded, the references are
\* noted, the frame is finalized and saved, and the last frame of a still is
\* written to the buffer and returned as JXL_DEC_FULL_IMAGE, unless skipped.
FrameFull ==
  /\ in_call /\ MoreFrames /\ frame_stage = "kFull" /\ ~BufferMissing
  /\ LET i == internal_frames
         full == is_last_of_still /\ Wants("FULL_IMAGE")
     IN  /\ frame_references' = [frame_references EXCEPT ![i] = References(i)]
         /\ reference_frames' =
              [s \in Slots |-> IF s \in SavedAs(i) THEN i ELSE reference_frames[s]]
         /\ intact' = IF \A s \in SlotsRead(i) : RightContent(i, s)
                      THEN intact \cup {i} ELSE intact \ {i}
         /\ events_wanted' = IF is_last_of_still
                             THEN events_wanted \cup (orig_events_wanted \cap FrameEvents)
                             ELSE events_wanted
         /\ image_out_buffer_set' = (image_out_buffer_set /\ ~full)
         /\ shown' = IF full /\ ~skipping_frame
                     THEN Append(shown, [frame |-> i, external |-> external_frames])
                     ELSE shown
         /\ in_call' = ~(full /\ ~skipping_frame)
  /\ frame_stage' = "kHeader"
  /\ UNCHANGED <<settings, frame_saved_as, frame_external_to_internal, position,
                 skipping, stage, got_basic_info>>

\* The loop ends: JXL_DEC_SUCCESS.
CodestreamFinished ==
  /\ in_call /\ got_basic_info /\ ~MoreFrames
  /\ stage' = "kCodestreamFinished" /\ in_call' = FALSE
  /\ UNCHANGED <<settings, tables, position, skipping, output, got_basic_info,
                 events_wanted, frame_stage, image_out_buffer_set>>

-----------------------------------------------------------------------------
\* The events an application subscribes to.
Subscriptions == {{"FULL_IMAGE"}, {"FRAME"}, FrameEvents}

Step ==
  \/ ProcessInput \/ ReadBasicInfo \/ NeedMoreInput \/ FrameHeader \/ FrameTOC
  \/ NeedImageOutBuffer \/ FrameProgression \/ FrameFull \/ CodestreamFinished

Next ==
  \/ Step
  \/ \E events \in Subscriptions : SubscribeEvents(events)
  \/ rewinds = 0 /\ \E b \in BOOLEAN : SetCoalescing(b)
  \/ SetImageOutBuffer
  \/ \E amount \in 1..MaxSkip : SkipFrames(amount)
  \/ Rewind
  \/ Reset

\* Applications that set coalescing once, before the first decode.
Spec == Init /\ [][Next]_vars

-----------------------------------------------------------------------------
(* Properties.                                                              *)

\* Every frame returned to the application was decoded from the same
\* references as in a decode without skipping: neither skipping, nor what a
\* rewind keeps, nor skipping again while skipping, leaves out a frame that a
\* displayed one needs (SkipFrames, GetFrameDependencies and stage kHeader).
ShownIntact == \A k \in DOMAIN shown : shown[k].frame \in intact

\* The external frames that have been decoded to the end.
Over == 1..(IF frame_stage # "kHeader" /\ is_last_of_still
            THEN external_frames - 1 ELSE external_frames)

\* The frames returned are those that have been reached and that the
\* application did not ask to skip, each once and in order, however the
\* requests to skip are placed between the calls (skip_frames and
\* external_frames agree on what a frame is).
SkipsWhatWasAsked ==
  "FULL_IMAGE" \in orig_events_wanted =>
    /\ {shown[k].external : k \in DOMAIN shown} = Over \ asked
    /\ \A k, l \in DOMAIN shown : k < l => shown[k].external < shown[l].external

\* The stills of the image: frame i is the first of a still, and the number
\* of the still.
FirstOfStill(i) == i = 1 \/ LastOfStill(i - 1)
Still(i) == 1 + Cardinality({j \in 1..i-1 : LastOfStill(j)})

\* What the decoder remembers of the image over a rewind is true of it, or
\* says that nothing is known: the tables of SkipFrames, GetFrameDependencies.
TablesTrue ==
  /\ \A i \in DOMAIN frame_references :
       /\ frame_saved_as[i] = SavedAs(i)
       /\ frame_references[i] \in {References(i), Slots}
  /\ \A e \in DOMAIN frame_external_to_internal :
       LET i == frame_external_to_internal[e] IN FirstOfStill(i) /\ Still(i) = e
=============================================================================
