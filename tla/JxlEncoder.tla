----------------------------- MODULE JxlEncoder -----------------------------
(***************************************************************************)
(* The encoder of lib/jxl/encode.cc: settings, the queue of frames and     *)
(* boxes, and JxlEncoderProcessOutput(), which encodes one of them after   *)
(* the other and hands out the bytes as far as there is room.              *)
(*                                                                         *)
(* A unit of output is a record. A box has a unit for its header and then  *)
(* its contents: units that say what they hold. An encoded frame and the   *)
(* headers of the codestream are two units and one, so that an output       *)
(* buffer may end inside a frame. What EncodeFrame() and the conversion of *)
(* pixels compute is left out: a frame may fail to encode. Brotli is       *)
(* external: a box may fail to be compressed.                              *)
(***************************************************************************)
EXTENDS Integers, Sequences, FiniteSetsExt, SequencesExt, JxlContainer

CONSTANTS
  MaxItems,    \* most frames and boxes that are added
  Rooms,       \* sizes of output buffers
  BoxKinds,    \* the boxes an application may add: type and compress_box
  JpegKinds,   \* JPEG files: the levels that the image and its ICC profile
               \* require, and whether it has the dimensions of a frame
  BasicInfos,  \* JxlBasicInfo: the level that is required for it, whether it
               \* can be written, whether it uses the original profile, its
               \* extra channels, and how far the call gets with it
  ColorEncodings \* color encodings and ICC profiles: the level that is required
               \* for them and whether they are valid

Levels == {-1, 5, 10}
ASSUME EncoderAssumption ==
  /\ MaxItems \in Nat /\ Rooms \subseteq Nat \ {0}
  /\ \A k \in BoxKinds : k.type \in STRING /\ k.compress \in BOOLEAN
  /\ JpegKinds \subseteq [level : Levels, icc_level : Levels, fits : BOOLEAN]
  /\ BasicInfos \subseteq
       [level : Levels, writable : BOOLEAN, original : BOOLEAN, extra : 0..1,
        until : {"size", "channels", "orientation", "end"}]
  /\ ColorEncodings \subseteq [level : Levels, valid : BOOLEAN]

VARIABLES
  \* Settings.
  use_container, use_boxes, codestream_level, store_jpeg_metadata,
  basic_info_set, color_encoding_set, xyb_encoded, num_extra_channels,
  \* Of the metadata, the level that basic information and color encoding
  \* require and whether WriteHeaders() and WriteICC() can write them.
  metadata,
  \* Queues.
  input_queue, num_queued_frames, num_queued_boxes, output_byte_queue,
  frames_closed,
  \* Progress: whether there is jpeg_metadata.
  jpeg_metadata, wrote_bytes, jxlp_counter,
  \* The call of JxlEncoderProcessOutput() in progress, the room it has and
  \* what it returned.
  pc, avail_out, status,
  \* For the properties: what was added, what was handed out, whether a frame
  \* or box was dropped because it failed, and whether the frames were closed
  \* while the last of them was still to be encoded.
  added, out, dropped, closed_in_time

levels == <<codestream_level, metadata>>
settings == <<use_container, use_boxes, store_jpeg_metadata>>
info == <<basic_info_set, color_encoding_set, xyb_encoded, num_extra_channels>>
queue == <<input_queue, num_queued_frames, num_queued_boxes>>
written == <<wrote_bytes, jxlp_counter>>
history == <<added, out, dropped, closed_in_time>>
call == <<pc, avail_out, status>>
vars == <<levels, settings, info, queue, output_byte_queue, frames_closed, jpeg_metadata,
          written, call, history>>

-----------------------------------------------------------------------------
(* Units of output.                                                         *)

Header(type, inner, size, last) ==
  [unit |-> "box", type |-> type, inner |-> inner, size |-> size, last |-> last,
   unbounded |-> FALSE]
Data(what, n, last) == [unit |-> "data", what |-> what, n |-> n, last |-> last]

CodestreamHeaders == <<Data("headers", 0, FALSE)>>
EncodedFrame(n, last) == <<Data("frame", n, last), Data("rest", n, last)>>

\* jxl::AppendBoxHeader(), followed by the contents.
Box(type, bytes) == <<Header(type, type, Len(bytes), FALSE)>> \o bytes
Signature == Box("JXL ", <<Data("signature", 0, FALSE)>>)
Ftyp == Box("ftyp", [k \in 1..3 |-> Data("brand", 0, FALSE)])

\* AppendJxlpBoxCounter()
Jxlp(counter, last, bytes) ==
  <<Header("jxlp", "jxlp", Len(bytes) + 1, last), Data("index", counter, last)>> \o bytes
Brob(type, bytes) ==
  <<Header("brob", type, Len(bytes) + 1, FALSE), Data("type", 0, FALSE)>> \o bytes

-----------------------------------------------------------------------------
(* Settings. Once bytes are written they are refused.                       *)

Between == pc = "Application"

UseContainer ==
  /\ Between /\ ~wrote_bytes
  /\ use_container' \in BOOLEAN
  /\ UNCHANGED <<levels, use_boxes, store_jpeg_metadata, info, queue, output_byte_queue,
                 frames_closed, jpeg_metadata, written, call, history>>

UseBoxes ==
  /\ Between /\ ~wrote_bytes
  /\ use_boxes' = TRUE
  /\ UNCHANGED <<levels, use_container, store_jpeg_metadata, info, queue, output_byte_queue,
                 frames_closed, jpeg_metadata, written, call, history>>

StoreJPEGMetadata ==
  /\ Between /\ ~wrote_bytes
  /\ store_jpeg_metadata' \in BOOLEAN
  /\ UNCHANGED <<levels, use_container, use_boxes, info, queue, output_byte_queue, frames_closed,
                 jpeg_metadata, written, call, history>>

SetCodestreamLevel ==
  /\ Between /\ ~wrote_bytes
  /\ codestream_level' \in {5, 10}
  /\ UNCHANGED <<metadata, settings, info, queue, output_byte_queue, frames_closed,
                 jpeg_metadata, written, call, history>>

Part(level, writable) == [level |-> level, writable |-> writable]

\* VerifyLevelSettings(): -1 if no level suffices.
VerifyLevelSettings(m) ==
  IF -1 \in {m.info.level, m.color.level} THEN -1 ELSE Max({m.info.level, m.color.level})

LevelRefused ==
  \/ codestream_level = 5 /\ VerifyLevelSettings(metadata) # 5
  \/ codestream_level = 10 /\ VerifyLevelSettings(metadata) = -1
HeadersFail == ~metadata.info.writable \/ ~metadata.color.writable

\* Nothing is written unless the headers of the codestream can be.
Refused == ~wrote_bytes /\ (LevelRefused \/ HeadersFail)

\* JxlEncoderSetBasicInfo(). It sets one field after the other and may fail in
\* between: for the bit depth, with the size set; for the alpha channel or the
\* level it needs, with the channels set; for the orientation; and after all of
\* them for the level, which VerifyLevelSettings() checks last.
SetBasicInfo(b) ==
  /\ Between
  /\ num_extra_channels' = IF b.until = "size" THEN num_extra_channels ELSE b.extra
  /\ xyb_encoded' = IF b.until \in {"size", "channels"} THEN xyb_encoded ELSE ~b.original
  /\ basic_info_set' = (basic_info_set \/ b.until = "end")
  /\ metadata' =
       [metadata EXCEPT !.info = Part(b.level, IF b.until = "end" THEN b.writable ELSE @.writable)]
  /\ UNCHANGED <<codestream_level, settings, color_encoding_set, queue, output_byte_queue, frames_closed,
                 jpeg_metadata, written, call, history>>

\* JxlEncoderSetColorEncoding() or JxlEncoderSetICCProfile(). Of something that
\* is no profile SetICC() leaves an unknown color encoding, which cannot be
\* written.
SetColorEncoding(c) ==
  /\ Between /\ ~color_encoding_set
  /\ color_encoding_set' = c.valid
  /\ metadata' = [metadata EXCEPT !.color = IF c.valid THEN Part(c.level, TRUE) ELSE Part(5, FALSE)]
  /\ UNCHANGED <<codestream_level, settings, basic_info_set, xyb_encoded, num_extra_channels, queue,
                 output_byte_queue, frames_closed, jpeg_metadata, written, call, history>>

-----------------------------------------------------------------------------
(* The queue.                                                               *)

Enqueue(item) == /\ input_queue' = Append(input_queue, item)
                 /\ added' = Append(added, item)

\* An item: a frame, which may lack extra channels; or a box.
Frame(ready) ==
  [kind |-> "frame", n |-> Len(added) + 1, ready |-> ready,
   type |-> "none", compress |-> FALSE]
QueuedBox(k) ==
  [kind |-> "box", n |-> Len(added) + 1, ready |-> TRUE,
   type |-> k.type, compress |-> k.compress]

\* The pixels may hold the only extra channel, as interleaved alpha.
AddImageFrame(alpha) ==
  /\ Between /\ Len(added) < MaxItems
  /\ alpha => num_extra_channels > 0
  /\ basic_info_set /\ (color_encoding_set \/ xyb_encoded) /\ ~frames_closed
  /\ Enqueue(Frame(alpha \/ num_extra_channels = 0))
  /\ num_queued_frames' = num_queued_frames + 1
  /\ UNCHANGED <<levels, settings, info, num_queued_boxes, output_byte_queue, frames_closed,
                 jpeg_metadata, written, call, out, dropped, closed_in_time>>

\* Without color encoding or basic information, those of the JPEG are taken;
\* without the level for them the frame is refused then, but not when it is added
\* again. The data of a JPEG that is refused for its dimensions is kept.
AddJPEGFrame(j) ==
  /\ Between /\ Len(added) < MaxItems /\ ~frames_closed
  /\ xyb_encoded' = (xyb_encoded /\ basic_info_set)
  /\ basic_info_set' = TRUE
  /\ metadata' =
       [info |-> IF basic_info_set THEN metadata.info ELSE Part(j.level, TRUE),
        color |-> IF color_encoding_set THEN metadata.color ELSE Part(j.icc_level, TRUE)]
  /\ num_extra_channels' = IF basic_info_set THEN num_extra_channels ELSE 0
  /\ LET required == VerifyLevelSettings(metadata')
         accepted == /\ ~xyb_encoded'
                     /\ basic_info_set \/ (required # -1 /\ codestream_level >= required)
         fits == j.fits \/ ~basic_info_set
     IN  /\ jpeg_metadata' = (jpeg_metadata \/ (accepted /\ store_jpeg_metadata))
         /\ IF accepted /\ fits
            THEN /\ Enqueue(Frame(num_extra_channels' = 0))
                 /\ num_queued_frames' = num_queued_frames + 1
            ELSE UNCHANGED <<input_queue, num_queued_frames, added>>
  /\ UNCHANGED <<codestream_level, settings, color_encoding_set, num_queued_boxes, output_byte_queue,
                 frames_closed, written, call, out, dropped, closed_in_time>>

\* JxlEncoderSetExtraChannelBuffer(), for the frame that was added last, which
\* has the channel.
SetExtraChannelBuffer ==
  /\ Between /\ basic_info_set /\ color_encoding_set /\ ~frames_closed
  /\ num_extra_channels > 0
  /\ input_queue # <<>> /\ Last(input_queue).kind = "frame" /\ ~Last(input_queue).ready
  /\ input_queue' = [input_queue EXCEPT ![Len(input_queue)].ready = TRUE]
  /\ added' = [added EXCEPT ![Len(added)].ready = TRUE]
  /\ UNCHANGED <<levels, settings, info, num_queued_frames, num_queued_boxes, output_byte_queue,
                 frames_closed, jpeg_metadata, written, call, out, dropped, closed_in_time>>

AddBox(k) ==
  /\ Between /\ Len(added) < MaxItems /\ use_boxes
  /\ k.compress => k.type \notin {"jxlx", "jbrd", "brob"}
  /\ Enqueue(QueuedBox(k))
  /\ num_queued_boxes' = num_queued_boxes + 1
  /\ UNCHANGED <<levels, settings, info, num_queued_frames, output_byte_queue, frames_closed,
                 jpeg_metadata, written, call, out, dropped, closed_in_time>>

CloseFrames ==
  /\ Between /\ ~frames_closed
  /\ frames_closed' = TRUE
  /\ closed_in_time' = (num_queued_frames > 0)
  /\ UNCHANGED <<levels, settings, info, queue, output_byte_queue, jpeg_metadata,
                 written, call, added, out, dropped>>

-----------------------------------------------------------------------------
(* JxlEncoderStruct::RefillOutputByteQueue()                                *)

MustUseContainer ==
  use_container \/ codestream_level # 5 \/ store_jpeg_metadata \/ use_boxes

\* Whether the headers of the codestream get a box of their own, before
\* metadata and the jbrd box.
PartialHeader(item) ==
  ~wrote_bytes /\ MustUseContainer /\ (store_jpeg_metadata \/ (use_boxes /\ item.kind # "frame"))

\* What is written before the first item.
Beginning(item) ==
  IF wrote_bytes \/ ~MustUseContainer THEN <<>>
  ELSE Signature \o Ftyp
       \o (IF codestream_level # 5 THEN Box("jxll", <<Data("level", 0, FALSE)>>) ELSE <<>>)
       \o (IF PartialHeader(item) THEN Jxlp(jxlp_counter, FALSE, CodestreamHeaders) ELSE <<>>)
       \o (IF store_jpeg_metadata /\ jpeg_metadata
           THEN Box("jbrd", <<Data("jbrd", 0, FALSE)>>) ELSE <<>>)

\* The headers, if they are to be written with the first frame; and the index
\* of the next jxlp box.
Pending(item) == IF wrote_bytes \/ PartialHeader(item) THEN <<>> ELSE CodestreamHeaders
Counter(item) == IF PartialHeader(item) THEN jxlp_counter + 1 ELSE jxlp_counter

LastFrame == frames_closed /\ num_queued_frames = 1

Refilling == /\ pc = "Output" /\ avail_out > 0 /\ output_byte_queue = <<>> /\ input_queue # <<>>

\* The item stays in the queue and the next call tries again.
RefuseToBegin ==
  /\ Refilling /\ Refused
  /\ pc' = "Application" /\ status' = "ERROR" /\ avail_out' = 0
  /\ UNCHANGED <<levels, settings, info, queue, output_byte_queue, frames_closed, jpeg_metadata, written,
                 history>>

\* jxlc for a codestream that is complete and was not begun, else jxlp.
WholeCodestream_Last(item) == LastFrame                             \* faulty
WholeCodestream(item) == LastFrame /\ Counter(item) = 0

\* A frame without all its extra channels is refused and EncodeFrame() may fail:
\* then the headers that were to be written with it are lost.
EncodeQueuedFrame(fails) ==
  /\ Refilling /\ ~Refused
  /\ LET item == Head(input_queue)
         bytes == Pending(item) \o EncodedFrame(item.n, LastFrame)
         ok == item.ready /\ ~fails
         boxed == ok /\ MustUseContainer
     IN  /\ item.kind = "frame"
         /\ output_byte_queue' =
              Beginning(item) \o
                (CASE ~ok -> <<>>
                   [] ok /\ ~MustUseContainer -> bytes
                   [] boxed /\ WholeCodestream(item) -> Box("jxlc", bytes)
                   [] OTHER -> Jxlp(Counter(item), LastFrame, bytes))
         /\ jxlp_counter' = Counter(item) + (IF boxed /\ ~WholeCodestream(item) THEN 1 ELSE 0)
         /\ dropped' = (dropped \/ ~ok)
         /\ IF ok THEN UNCHANGED call
            ELSE pc' = "Application" /\ status' = "ERROR" /\ avail_out' = 0
  /\ wrote_bytes' = TRUE
  /\ input_queue' = Tail(input_queue) /\ num_queued_frames' = num_queued_frames - 1
  /\ UNCHANGED <<levels, settings, info, num_queued_boxes, frames_closed, jpeg_metadata, added, out,
                 closed_in_time>>

WriteQueuedBox(fails) ==
  /\ Refilling /\ ~Refused
  /\ LET item == Head(input_queue)
         contents == <<Data("contents", item.n, FALSE)>>
     IN  /\ item.kind = "box"
         /\ fails => item.compress
         /\ output_byte_queue' =
              Beginning(item) \o
                (CASE fails -> <<>>
                   [] ~fails /\ item.compress -> Brob(item.type, contents)
                   [] OTHER -> Box(item.type, contents))
         /\ jxlp_counter' = Counter(item)
  /\ wrote_bytes' = TRUE
  /\ input_queue' = Tail(input_queue) /\ num_queued_boxes' = num_queued_boxes - 1
  /\ dropped' = (dropped \/ fails)
  /\ IF fails THEN pc' = "Application" /\ status' = "ERROR" /\ avail_out' = 0
     ELSE UNCHANGED call
  /\ UNCHANGED <<levels, settings, info, num_queued_frames, frames_closed, jpeg_metadata, added, out,
                 closed_in_time>>

-----------------------------------------------------------------------------
(* JxlEncoderProcessOutput()                                                *)

ProcessOutput(room) ==
  /\ Between
  /\ pc' = "Output" /\ avail_out' = room
  /\ UNCHANGED <<levels, settings, info, queue, output_byte_queue, frames_closed, jpeg_metadata, written,
                 status, history>>

ToCopy_Whole ==                                                     \* faulty
  IF Len(output_byte_queue) > avail_out THEN 0 ELSE Len(output_byte_queue)
ToCopy == Min({avail_out, Len(output_byte_queue)})

NotCopied_Cleared == <<>>                                           \* faulty
NotCopied == SubSeq(output_byte_queue, ToCopy + 1, Len(output_byte_queue))

CopyOut ==
  /\ pc = "Output" /\ avail_out > 0 /\ output_byte_queue # <<>>
  /\ out' = out \o SubSeq(output_byte_queue, 1, ToCopy)
  /\ output_byte_queue' = NotCopied
  /\ avail_out' = avail_out - ToCopy
  /\ UNCHANGED <<levels, settings, info, queue, frames_closed, jpeg_metadata, written, pc, status, added,
                 dropped, closed_in_time>>

ReturnOutput ==
  /\ pc = "Output"
  /\ avail_out = 0 \/ (output_byte_queue = <<>> /\ input_queue = <<>>)
  /\ pc' = "Application" /\ avail_out' = 0
  /\ status' = IF output_byte_queue # <<>> \/ input_queue # <<>>
               THEN "NEED_MORE_OUTPUT" ELSE "SUCCESS"
  /\ UNCHANGED <<levels, settings, info, queue, output_byte_queue, frames_closed, jpeg_metadata, written,
                 history>>

-----------------------------------------------------------------------------
\* JxlEncoderCreate()
Init ==
  /\ use_container = FALSE /\ use_boxes = FALSE /\ codestream_level = 5
  /\ store_jpeg_metadata = FALSE
  /\ basic_info_set = FALSE /\ color_encoding_set = FALSE /\ xyb_encoded = TRUE
  /\ num_extra_channels = 0
  /\ metadata = [info |-> Part(5, TRUE), color |-> Part(5, TRUE)]
  /\ input_queue = <<>> /\ num_queued_frames = 0 /\ num_queued_boxes = 0
  /\ output_byte_queue = <<>> /\ frames_closed = FALSE
  /\ jpeg_metadata = FALSE /\ wrote_bytes = FALSE /\ jxlp_counter = 0
  /\ pc = "Application" /\ avail_out = 0 /\ status = "SUCCESS"
  /\ added = <<>> /\ out = <<>> /\ dropped = FALSE /\ closed_in_time = FALSE

Settings ==
  \/ UseContainer \/ UseBoxes \/ StoreJPEGMetadata \/ SetCodestreamLevel
  \/ \E c \in ColorEncodings : SetColorEncoding(c)
  \/ \E b \in BasicInfos : SetBasicInfo(b)

Adding ==
  \/ \E alpha \in BOOLEAN : AddImageFrame(alpha)
  \/ \E j \in JpegKinds : AddJPEGFrame(j)
  \/ SetExtraChannelBuffer
  \/ \E k \in BoxKinds : AddBox(k)
  \/ CloseFrames

Output ==
  \/ \E room \in Rooms : ProcessOutput(room)
  \/ \E fails \in BOOLEAN : EncodeQueuedFrame(fails) \/ WriteQueuedBox(fails)
  \/ CopyOut \/ RefuseToBegin \/ ReturnOutput

Next == Settings \/ Adding \/ Output
Spec == Init /\ [][Next]_vars

\* An application goes on calling JxlEncoderProcessOutput(), and each call goes
\* on until it returns.
FairSpec == Spec /\ WF_vars(Output)

-----------------------------------------------------------------------------
\* The fields of JxlEncoderStruct have their types, there is never less room
\* than none, and the counters agree with the queue.
CountOf(kind) == Len(SelectSeq(input_queue, LAMBDA i : i.kind = kind))
TypeOK ==
  /\ {use_container, use_boxes, store_jpeg_metadata, basic_info_set, color_encoding_set,
      xyb_encoded, jpeg_metadata, frames_closed, wrote_bytes, dropped,
      closed_in_time} \subseteq BOOLEAN
  /\ codestream_level \in {5, 10}
  /\ metadata \in [{"info", "color"} -> [level : Levels, writable : BOOLEAN]]
  /\ num_extra_channels \in 0..1
  /\ num_queued_frames = CountOf("frame") /\ num_queued_boxes = CountOf("box")
  /\ jxlp_counter \in 0..Len(added) + 1
  /\ pc \in {"Application", "Output"} /\ avail_out \in 0..Max(Rooms)
  /\ status \in {"SUCCESS", "ERROR", "NEED_MORE_OUTPUT"}

\* Where the frames and boxes that were added begin in a sequence of units.
Begins(units) ==
  {i \in DOMAIN units : units[i].unit = "data" /\ units[i].what \in {"frame", "contents"}}

\* Every frame and every box is written once and in the order in which it was
\* added, however the output is cut and whenever it is asked for; only a frame
\* or box that failed is missing.
QueuedInOrder ==
  LET units == out \o output_byte_queue
      items == {units[i].n : i \in Begins(units)}
      waiting == {input_queue[k].n : k \in DOMAIN input_queue}
  IN  /\ \A i, j \in Begins(units) : i < j => units[i].n < units[j].n
      /\ \A k, l \in DOMAIN input_queue : k < l => input_queue[k].n < input_queue[l].n
      /\ \A m \in items, n \in waiting : m < n
      /\ items \cup waiting \subseteq 1..Len(added)
      /\ ~dropped => items \cup waiting = 1..Len(added)

\* The boxes of a file, found by their sizes as a reader finds them. A size
\* that does not lead to a box leads nowhere.
BoxAt(units) ==
  LET at[k \in 1..Len(units) + 1] ==
        IF k = 1 THEN 1
        ELSE IF at[k-1] \in DOMAIN units /\ units[at[k-1]].unit = "box"
             THEN at[k-1] + 1 + units[at[k-1]].size ELSE 0
  IN  at
NumBoxes(units) == Len(SelectSeq(units, LAMBDA u : u.unit = "box"))
BoxesOf(units) == [k \in 1..NumBoxes(units) |-> units[BoxAt(units)[k]]]
Readable(units) ==
  /\ \A k \in 1..NumBoxes(units) : BoxAt(units)[k] \in DOMAIN units
  /\ BoxAt(units)[NumBoxes(units) + 1] = Len(units) + 1

\* The codestream that the frames ask for.
Frames == SelectSeq(added, LAMBDA i : i.kind = "frame")
WantedCodestream ==
  CodestreamHeaders \o
  FlattenSeq([k \in DOMAIN Frames |-> EncodedFrame(Frames[k].n, k = Len(Frames))])
CodestreamIn(units) ==
  SelectSeq(units, LAMBDA u : u.unit = "data" /\ u.what \in {"headers", "frame", "rest"})
IndicesIn(units) ==
  LET index == SelectSeq(units, LAMBDA u : u.unit = "data" /\ u.what = "index")
  IN  [k \in DOMAIN index |-> index[k].n]

\* The box in which the first frame begins.
FirstFrameBox(units) ==
  LET first == Min({i \in DOMAIN units : units[i].unit = "data" /\ units[i].what = "frame"})
  IN  Max({k \in 1..NumBoxes(units) : BoxAt(units)[k] < first})

\* The application closed the frames in time and has taken all output.
Finished ==
  /\ pc = "Application" /\ input_queue = <<>> /\ output_byte_queue = <<>>
  /\ frames_closed /\ closed_in_time /\ ~dropped

\* Whatever the order of frames and boxes and the settings, the file is as the
\* format wants it: its boxes have the sizes their headers say and stand in
\* the right order, jxlp boxes are numbered and only the last is marked, and
\* the codestream is the headers and all frames, of which only the last is
\* marked.
FileComplete ==
  Finished =>
    /\ CodestreamIn(out) = WantedCodestream
    /\ \/ ~MustUseContainer /\ out = WantedCodestream
       \/ /\ MustUseContainer /\ Readable(out)
          /\ WellFormedBoxes(BoxesOf(out), FirstFrameBox(out))
          /\ \A k \in DOMAIN IndicesIn(out) : IndicesIn(out)[k] = k - 1

\* Once no more frames can come, everything that was added is written, however
\* little room each call has and whatever fails to encode. Only while the
\* metadata needs another level, or cannot be written itself, is nothing
\* written; all of it is once the application has corrected that.
EverythingWritten ==
  frames_closed ~> (input_queue = <<>> /\ output_byte_queue = <<>>) \/ Refused
=============================================================================
