----------------------------- MODULE BoxReader -----------------------------
(***************************************************************************)
(* How JxlDecoderProcessInput() in lib/jxl/decode.cc reads a file: the box *)
(* loop HandleBoxes(), the codestream collected from jxlc and jxlp boxes,  *)
(* the contents of boxes given to the application (box_content_decoder.cc),*)
(* and the JPEG rebuilt from a jbrd box, the first frame and the Exif and  *)
(* XMP boxes (decode_to_jpeg.h). The application gives the input and takes *)
(* the output in pieces of any size.                                       *)
(*                                                                         *)
(* The unit of size is four bytes: a box header has two or four units, the *)
(* index of a jxlp box and the inner type of a brob box one. A unit of     *)
(* data is represented by its offset in the file, so that what the decoder *)
(* hands on can be compared with what the file holds. The codestream is    *)
(* reduced to one frame and to the sizes at which its parts are complete:  *)
(* previews, further frames and the sections of a frame are in             *)
(* FrameSkipping and FrameDecoder.                                         *)
(***************************************************************************)
EXTENDS Integers, Sequences, FiniteSetsExt, SequencesExt, JxlContainer

CONSTANTS
  Sessions,         \* the files an application may read, and its settings
  MaxChunk,         \* most units added to the input at once
  BoxBufferSizes, JpegBufferSizes,
  BasicInfoSize, HeadersSize, FrameHeaderSize, CodestreamSize,
                    \* how much of the codestream each part needs
  JpegFieldsSize,   \* what a jbrd box holds before its compressed part
  JpegSize          \* size of the JPEG

BoxTypes == {"JXL ", "ftyp", "jxlc", "jxlp", "jbrd", "brob", "misc", "none"} \cup Meta
Events == {"BASIC_INFO", "FRAME", "FULL_IMAGE", "BOX", "JPEG_RECONSTRUCTION"}

\* A box of a file: its type and the type inside a brob box, whether a jxlp
\* box is the last, whether it extends to the end of the file, its sizes,
\* and the sizes of the metadata that a jbrd box expects.
FileBox == [type : BoxTypes, inner : BoxTypes, last : BOOLEAN,
            unbounded : BOOLEAN, header : {0, 2, 4}, size : Nat,
            expects : [Meta -> Nat]]

\* A file is a container, of boxes that have a header and a type and of which
\* only the last can extend to the end of the file, or a codestream.
ContainerBoxes(B) ==
  \A i \in DOMAIN B : B[i].type # "none" /\ B[i].header > 0 /\ (B[i].unbounded => i = Len(B))
IsFile(f) ==
  /\ f.container \in BOOLEAN /\ f.boxes \in Seq(FileBox)
  /\ f.container => ContainerBoxes(f.boxes)
  /\ ~f.container => /\ Len(f.boxes) = 1 /\ f.boxes[1].type = "none"
                     /\ f.boxes[1].header = 0 /\ f.boxes[1].unbounded

ASSUME SessionsAssumption ==
  \A s \in Sessions :
    IsFile(s.file) /\ s.wanted \subseteq Events /\ s.decompress \in BOOLEAN
ASSUME SizesAssumption ==
  /\ {BasicInfoSize, HeadersSize, FrameHeaderSize, CodestreamSize} \subseteq Nat
  /\ 1 <= BasicInfoSize /\ BasicInfoSize <= HeadersSize
  /\ HeadersSize <= FrameHeaderSize /\ FrameHeaderSize <= CodestreamSize
  /\ HeadersSize < CodestreamSize
  /\ MaxChunk \in Nat \ {0} /\ {JpegSize, JpegFieldsSize} \subseteq Nat
  /\ BoxBufferSizes \cup JpegBufferSizes \subseteq Nat \ {0}

VARIABLES
  \* The application: the file, how much of it was given as input, and how
  \* much of that has to be given again.
  file, sent, unread,
  \* The input: offset of the next unit, or -1 for a null pointer.
  next_in, avail_in, input_closed,
  \* Progress and settings.
  stage, got_signature, have_container, last_codestream_seen,
  events_wanted, orig_events_wanted, decompress_boxes,
  \* The current box.
  file_pos, box_stage, box_count, box,
  \* Contents for the application: its buffer, the JxlBoxContentDecoder, what
  \* it wrote of the current box, and whether the application took it all.
  box_buffer, box_content_decoder, box_out, taken,
  \* Metadata and JPEG reconstruction.
  store, metadata, metadata_decoder, recon_size, recon_output_jpeg,
  jpeg_decoder, ib_jpeg_data,
  \* The codestream.
  codestream_copy, progress, image_out_buffer_set,
  \* Where the code is, what it returned, and the events so far.
  pc, result, status, events

application == <<file, sent, unread>>
input == <<next_in, avail_in, input_closed>>
settings == <<orig_events_wanted, decompress_boxes>>
boxes == <<file_pos, box_stage, box_count, box>>
contents == <<box_buffer, box_content_decoder, box_out, taken>>
stored == <<store, metadata, metadata_decoder>>
jpeg == <<recon_size, recon_output_jpeg, jpeg_decoder, ib_jpeg_data>>
codestream == <<codestream_copy, progress, image_out_buffer_set>>
seen == <<stage, got_signature, have_container, last_codestream_seen, events_wanted>>
vars == <<application, input, settings, boxes, contents, stored, jpeg, codestream,
          seen, pc, result, status, events>>

-----------------------------------------------------------------------------
(* The file as the format defines it.                                       *)

\* Offsets at which the boxes of a file end.
Ends(f) ==
  LET end[i \in 0..Len(f.boxes)] ==
        IF i = 0 THEN 0 ELSE end[i-1] + f.boxes[i].header + f.boxes[i].size
  IN  end
FileSize(f) == Ends(f)[Len(f.boxes)]

Run(from, n) == [k \in 1..n |-> from + k - 1]
Rest(s) == SubSeq(s, 2, Len(s))
Contents(f, i) == Run(Ends(f)[i] - f.boxes[i].size, f.boxes[i].size)

\* The units of the codestream: all of a jxlc box or of a bare file, and a
\* jxlp box without its index.
CodestreamIn(f, i) ==
  CASE f.boxes[i].type \in {"jxlc", "none"} -> Contents(f, i)
    [] f.boxes[i].type = "jxlp" -> Rest(Contents(f, i))
    [] OTHER -> <<>>
CodestreamOf(f) == FlattenSeq([i \in DOMAIN f.boxes |-> CodestreamIn(f, i)])

\* Brotli: each compressed unit stands for two others.
Inflate(s) == FlattenSeq([k \in DOMAIN s |-> <<-2 * s[k] - 1, -2 * s[k] - 2>>])

\* The contents of a box without compression.
Plain(f, i) ==
  IF f.boxes[i].type = "brob" THEN Inflate(Rest(Contents(f, i))) ELSE Contents(f, i)

\* A file as the format wants it: the codestream is all there and the jbrd box
\* comes before its first frame. The metadata that the jbrd box expects is in
\* the first Exif and the first XMP box.
FrameBox(f) ==
  Min({i \in DOMAIN f.boxes :
         Len(FlattenSeq([k \in 1..i |-> CodestreamIn(f, k)])) > HeadersSize})
WellFormed(f) ==
  /\ Len(CodestreamOf(f)) = CodestreamSize
  /\ f.container =>
       /\ WellFormedBoxes(f.boxes, FrameBox(f))
       /\ \A i \in OfType(f.boxes, "jbrd"), m \in Meta : f.boxes[i].expects[m] > 0 =>
            /\ Holding(f.boxes, m) # {}
            /\ Len(Plain(f, Min(Holding(f.boxes, m)))) = f.boxes[i].expects[m]

-----------------------------------------------------------------------------
(* Helpers of the decoder.                                                  *)

Min2(a, b) == IF a <= b THEN a ELSE b

\* The input bytes, from next_in.
Input == Run(next_in, avail_in)

\* JxlDecoder::AdvanceInput()
AdvanceInput(n) ==
  /\ next_in' = next_in + n /\ avail_in' = avail_in - n /\ file_pos' = file_pos + n

\* JxlDecoder::JbrdNeedMoreBoxes()
JbrdNeedMoreBoxes == \E m \in Meta : store[m] < 2 /\ recon_size[m] > 0

\* JxlDecoder::CanUseMoreCodestreamInput()
CanUseMoreCodestreamInput == stage # "kCodestreamFinished"

\* What JxlDecoderProcessInput() makes of the status of HandleBoxes().
Checked(st) ==
  CASE st = "NEED_MORE_INPUT" /\ input_closed -> "ERROR"
    [] st = "SUCCESS" /\ CanUseMoreCodestreamInput /\ ~last_codestream_seen -> "NEED_MORE_INPUT"
    [] st = "SUCCESS" /\ CanUseMoreCodestreamInput /\ last_codestream_seen -> "ERROR"
    [] st = "SUCCESS" /\ ~CanUseMoreCodestreamInput /\ JbrdNeedMoreBoxes -> "ERROR"
    [] OTHER -> st

Return(st) ==
  /\ pc' = "Application"
  /\ status' = Checked(st)
  /\ events' = IF st \in Events THEN Append(events, st) ELSE events
  /\ UNCHANGED result

\* The next iteration of the loop of HandleBoxes(): between boxes there are no
\* contents to output or store.
Goto(where) == pc' = where /\ UNCHANGED <<result, status, events>>
Continue == Goto(IF box_stage' = "kHeader" THEN "Reconstruct" ELSE "OutputBox")

-----------------------------------------------------------------------------
(* JxlBoxContentDecoder. `pos' is the position in the box, which may be     *)
(* ahead of file_pos; `inflated' is what Brotli holds and has not written.  *)

StartBox(brob, until_eof, size) ==
  [brob_decode |-> brob, header_done |-> FALSE, box_until_eof |-> until_eof,
   remaining |-> IF until_eof THEN 0 ELSE size, pos |-> 0, inflated |-> <<>>]

\* BrotliDecoderDecompressStream(), external: takes what there is of the
\* stream, writes as much as fits. The stream fills the rest of the box.
BrotliDecompress(d, bytes, room) ==
  LET left == file.boxes[box_count].size - d.pos
      n == Min2(Len(bytes), left)
      all == d.inflated \o Inflate(SubSeq(bytes, 1, n))
      k == Min2(Len(all), room)
  IN  [dec |-> [d EXCEPT !.pos = @ + n, !.inflated = SubSeq(all, k + 1, Len(all)),
                         !.remaining = IF d.box_until_eof THEN @ ELSE @ - n],
       out |-> SubSeq(all, 1, k),
       result |-> CASE k < Len(all) -> "BOX_NEED_MORE_OUTPUT"
                    [] k = Len(all) /\ n < left -> "NEED_MORE_INPUT"
                    [] OTHER -> "SUCCESS"]

ReadRaw(d, bytes, room) ==
  LET can_read == IF d.box_until_eof THEN Len(bytes) ELSE Min2(Len(bytes), d.remaining)
      n == Min2(can_read, room)
      remaining == IF d.box_until_eof THEN 0 ELSE d.remaining - n
  IN  [dec |-> [d EXCEPT !.pos = @ + n, !.remaining = remaining],
       out |-> SubSeq(bytes, 1, n),
       result |-> CASE n < can_read -> "BOX_NEED_MORE_OUTPUT"
                    [] n = can_read /\ remaining > 0 -> "NEED_MORE_INPUT"
                    [] OTHER -> "SUCCESS"]

\* JxlBoxContentDecoder::Process()
Ahead_Ignored(d) == 0                                               \* faulty
Ahead(d) == d.pos - (file_pos - box.begin)

Process(d, room) ==
  LET ahead == Ahead(d)
      bytes == Run(next_in + ahead, avail_in - ahead)
  IN  CASE ~d.brob_decode -> ReadRaw(d, bytes, room)
        [] d.brob_decode /\ d.header_done -> BrotliDecompress(d, bytes, room)
        [] d.brob_decode /\ ~d.header_done /\ bytes = <<>> ->
             [dec |-> d, out |-> <<>>, result |-> "NEED_MORE_INPUT"]
        [] d.brob_decode /\ ~d.header_done /\ bytes # <<>> /\ ~d.box_until_eof /\ d.remaining < 1 ->
             [dec |-> d, out |-> <<>>, result |-> "ERROR"]
        [] OTHER ->
             BrotliDecompress([d EXCEPT !.pos = @ + 1, !.header_done = TRUE,
                                !.remaining = IF d.box_until_eof THEN @ ELSE @ - 1],
                              Tail(bytes), room)

-----------------------------------------------------------------------------
(* JxlDecoderProcessInput() up to the box loop.                             *)

SignatureSize == IF file.container THEN 3 ELSE 1

\* Units that were released must have been given again before a call.
ProcessInput ==
  /\ pc = "Application" /\ status \notin {"SUCCESS", "ERROR", "ABORT"}
  /\ unread = 0
  /\ UNCHANGED <<application, input, settings, boxes, stored, jpeg, codestream, events_wanted,
                 box_buffer, box_content_decoder, box_out>>
  /\ stage' = IF stage = "kInited" THEN "kStarted" ELSE stage
  /\ taken' = (taken /\ box_buffer.current)
  /\ \/ /\ got_signature
        /\ Continue
        /\ UNCHANGED <<got_signature, have_container, last_codestream_seen>>
     \/ /\ ~got_signature /\ avail_in >= SignatureSize
        /\ got_signature' = TRUE
        /\ have_container' = file.container
        /\ last_codestream_seen' = (last_codestream_seen \/ ~file.container)
        /\ Continue
     \/ /\ ~got_signature /\ avail_in < SignatureSize
        /\ Return(IF input_closed THEN "ERROR" ELSE "NEED_MORE_INPUT")
        /\ UNCHANGED <<got_signature, have_container, last_codestream_seen>>

-----------------------------------------------------------------------------
(* The part of HandleBoxes() that every iteration begins with.              *)

\* Write what there is of the current box to the application's buffer.
OutputBox ==
  /\ pc = "OutputBox"
  /\ \/ /\ "BOX" \in events_wanted /\ box_buffer.current
        /\ LET r == Process(box_content_decoder, box_buffer.size - box_buffer.pos)
           IN  /\ box_content_decoder' = r.dec
               /\ box_out' = box_out \o r.out
               /\ box_buffer' = [box_buffer EXCEPT !.pos = @ + Len(r.out)]
               /\ IF r.result \in {"SUCCESS", "NEED_MORE_INPUT"}
                  THEN Goto("StoreMetadata") ELSE Return(r.result)
     \/ /\ ~("BOX" \in events_wanted /\ box_buffer.current)
        /\ Goto("StoreMetadata")
        /\ UNCHANGED <<box_content_decoder, box_out, box_buffer>>
  /\ UNCHANGED <<application, input, settings, boxes, stored, jpeg, codestream, seen, taken>>

\* Store the contents of an Exif or XMP box for the JPEG. The vector they are
\* stored in grows until they fit.
Unlimited == 2 * FileSize(file)
Storing == \E m \in Meta : store[m] = 1
StoreMetadata ==
  /\ pc = "StoreMetadata"
  /\ \/ /\ Storing
        /\ LET m == IF store["Exif"] = 1 THEN "Exif" ELSE "xml "
               r == Process(metadata_decoder, Unlimited)
               all == metadata[m] \o r.out
               wait == box.unbounded /\ Len(all) < recon_size[m]
           IN  /\ metadata_decoder' = r.dec
               /\ metadata' = [metadata EXCEPT ![m] = all]
               /\ store' = IF r.result = "SUCCESS" /\ ~wait
                           THEN [k \in Meta |-> IF store[k] = 1 THEN 2 ELSE store[k]]
                           ELSE store
               /\ IF r.result = "ERROR" THEN Return("ERROR") ELSE Goto("Reconstruct")
     \/ /\ ~Storing
        /\ Goto("Reconstruct")
        /\ UNCHANGED stored
  /\ UNCHANGED <<application, input, settings, boxes, contents, jpeg, codestream, seen>>

\* JxlToJpegDecoder::SetExif(), SetXmp(): the sizes must be the expected ones.
SetMetadata ==
  /\ pc = "Reconstruct" /\ recon_output_jpeg = "kSettingMetadata" /\ ~JbrdNeedMoreBoxes
  /\ \/ /\ \A m \in Meta : recon_size[m] > 0 => Len(metadata[m]) = recon_size[m]
        /\ recon_output_jpeg' = "kOutputting"
        /\ Goto("Reconstruct")
     \/ /\ \E m \in Meta : recon_size[m] > 0 /\ Len(metadata[m]) # recon_size[m]
        /\ Return("ERROR")
        /\ UNCHANGED recon_output_jpeg
  /\ UNCHANGED <<application, input, settings, boxes, contents, stored, codestream, seen,
                 recon_size, jpeg_decoder, ib_jpeg_data>>

\* JxlToJpegDecoder::WriteOutput(): all of the JPEG, or nothing that counts.
WriteOutput ==
  /\ pc = "Reconstruct" /\ recon_output_jpeg = "kOutputting" /\ ~JbrdNeedMoreBoxes
  /\ \/ /\ jpeg_decoder.avail_size < JpegSize
        /\ Return("JPEG_NEED_MORE_OUTPUT")
        /\ UNCHANGED jpeg
     \/ /\ jpeg_decoder.avail_size >= JpegSize
        /\ jpeg_decoder' = [jpeg_decoder EXCEPT !.avail_size = @ - JpegSize]
        /\ recon_output_jpeg' = "kFinished"
        /\ ib_jpeg_data' = FALSE
        /\ IF "FULL_IMAGE" \in events_wanted THEN Return("FULL_IMAGE") ELSE Goto("Stage")
        /\ UNCHANGED recon_size
  /\ UNCHANGED <<application, input, settings, boxes, contents, stored, codestream, seen>>

NoReconstruction ==
  /\ pc = "Reconstruct"
  /\ recon_output_jpeg \in {"kNone", "kFinished"} \/ JbrdNeedMoreBoxes
  /\ Goto("Stage")
  /\ UNCHANGED <<application, input, settings, boxes, contents, stored, jpeg, codestream, seen>>

-----------------------------------------------------------------------------
(* The stages of HandleBoxes().                                             *)

\* BoxStage::kHeader of a file that is a codestream only.
StartCodestream ==
  /\ pc = "Stage" /\ box_stage = "kHeader" /\ ~have_container
  /\ IF stage = "kCodestreamFinished"
     THEN Return("SUCCESS") /\ UNCHANGED boxes
     ELSE /\ box_stage' = "kCodestream"
          /\ box' = [box EXCEPT !.unbounded = TRUE]
          /\ Continue
          /\ UNCHANGED <<file_pos, box_count>>
  /\ UNCHANGED <<application, input, settings, contents, stored, jpeg, codestream, seen>>

\* BoxStage::kHeader without input: the end of the file, or more boxes.
AtBoxEnd ==
  /\ pc = "Stage" /\ box_stage = "kHeader" /\ have_container /\ avail_in = 0
  /\ Return(IF \/ stage # "kCodestreamFinished"
               \/ JbrdNeedMoreBoxes
               \/ ~input_closed /\ "BOX" \in events_wanted
            THEN "NEED_MORE_INPUT" ELSE "SUCCESS")
  /\ UNCHANGED <<application, input, settings, boxes, contents, stored, jpeg, codestream, seen>>

\* What stands in the file where the decoder expects a header.
HeaderAt(p) ==
  LET at == {i \in DOMAIN file.boxes : Ends(file)[i-1] = p}
  IN  IF at # {} THEN file.boxes[Min(at)]
      ELSE [type |-> "none", inner |-> "none", last |-> FALSE, unbounded |-> FALSE,
            header |-> 2, size |-> 0, expects |-> [m \in Meta |-> 0]]

StageOf(type) ==
  CASE type = "ftyp" -> "kFtyp"
    [] type = "jxlc" -> "kCodestream"
    [] type = "jxlp" -> "kPartialCodestream"
    [] type = "jbrd" /\ "JPEG_RECONSTRUCTION" \in orig_events_wanted -> "kJpegRecon"
    [] OTHER -> "kSkip"

\* Which metadata the code starts to store: only the first box of a type.
StartsStoring_Always(h) ==                                          \* faulty
  {m \in Meta : "JPEG_RECONSTRUCTION" \in orig_events_wanted /\ Inner(h) = m}
StartsStoring(h) ==
  {m \in Meta : "JPEG_RECONSTRUCTION" \in orig_events_wanted /\ store[m] = 0 /\ Inner(h) = m}

ReadBoxHeader ==
  /\ pc = "Stage" /\ box_stage = "kHeader" /\ have_container /\ avail_in > 0
  /\ LET h == HeaderAt(next_in)
         second == box_count = 1
         brob == h.type = "brob"
         rejected == \/ h.type = "jxlc" /\ last_codestream_seen
                     \/ StageOf(h.type) = "kJpegRecon" /\ "JPEG_RECONSTRUCTION" \notin events_wanted
     IN  \/ /\ avail_in < h.header + (IF brob THEN 1 ELSE 0)
            /\ Return("NEED_MORE_INPUT")
            /\ UNCHANGED <<input, boxes, contents, stored, last_codestream_seen>>
         \/ /\ avail_in >= h.header + (IF brob THEN 1 ELSE 0)
            /\ second # (h.type = "ftyp")
            /\ box_count' = box_count + 1
            /\ Return("ERROR")
            /\ UNCHANGED <<input, file_pos, box_stage, box, contents, stored, last_codestream_seen>>
         \/ /\ avail_in >= h.header + (IF brob THEN 1 ELSE 0)
            /\ second = (h.type = "ftyp")
            /\ box_count' = box_count + 1
            /\ AdvanceInput(h.header) /\ UNCHANGED input_closed
            /\ box' = [begin |-> file_pos', unbounded |-> h.unbounded,
                       end |-> IF h.unbounded THEN 0 ELSE file_pos' + h.size,
                       size |-> IF h.unbounded THEN 0 ELSE h.size]
            /\ store' = [m \in Meta |-> IF m \in StartsStoring(h) THEN 1 ELSE store[m]]
            /\ metadata' = [m \in Meta |-> IF m \in StartsStoring(h) THEN <<>> ELSE metadata[m]]
            /\ metadata_decoder' = IF \E m \in Meta : store'[m] = 1
                                   THEN StartBox(brob, h.unbounded, h.size) ELSE metadata_decoder
            /\ box_content_decoder' = IF "BOX" \in events_wanted
                                      THEN StartBox(decompress_boxes /\ brob, h.unbounded, h.size)
                                      ELSE box_content_decoder
            /\ last_codestream_seen' = (last_codestream_seen \/ h.type = "jxlc")
            /\ box_stage' = IF rejected THEN box_stage ELSE StageOf(h.type)
            /\ box_out' = <<>> /\ taken' = FALSE
            /\ CASE rejected -> Return("ERROR") /\ UNCHANGED box_buffer
                 [] ~rejected /\ "BOX" \in events_wanted ->
                      Return("BOX") /\ box_buffer' = [box_buffer EXCEPT !.event = TRUE, !.current = FALSE]
                 [] OTHER -> Continue /\ UNCHANGED box_buffer
  /\ UNCHANGED <<application, settings, jpeg, codestream, stage, got_signature, have_container,
                 events_wanted>>

ReadFtyp ==
  /\ pc = "Stage" /\ box_stage = "kFtyp"
  /\ \/ /\ box.size < 3
        /\ Return("ERROR") /\ UNCHANGED <<input, boxes>>
     \/ /\ box.size >= 3 /\ avail_in < 1
        /\ Return("NEED_MORE_INPUT") /\ UNCHANGED <<input, boxes>>
     \/ /\ box.size >= 3 /\ avail_in >= 1
        /\ AdvanceInput(1) /\ UNCHANGED <<input_closed, box_count, box>>
        /\ box_stage' = "kSkip"
        /\ Continue
  /\ UNCHANGED <<application, settings, contents, stored, jpeg, codestream, seen>>

\* The index of a jxlp box.
ReadPartialCodestream ==
  /\ pc = "Stage" /\ box_stage = "kPartialCodestream"
  /\ \/ /\ last_codestream_seen
        /\ Return("ERROR") /\ UNCHANGED <<input, boxes, last_codestream_seen>>
     \/ /\ ~last_codestream_seen /\ avail_in < 1
        /\ Return("NEED_MORE_INPUT") /\ UNCHANGED <<input, boxes, last_codestream_seen>>
     \/ /\ ~last_codestream_seen /\ avail_in >= 1 /\ ~box.unbounded /\ box.size < 1
        /\ Return("ERROR") /\ UNCHANGED <<input, boxes, last_codestream_seen>>
     \/ /\ ~last_codestream_seen /\ avail_in >= 1 /\ (box.unbounded \/ box.size >= 1)
        /\ last_codestream_seen' = file.boxes[box_count].last
        /\ AdvanceInput(1) /\ UNCHANGED <<input_closed, box_count, box>>
        /\ box_stage' = "kCodestream"
        /\ Continue
  /\ UNCHANGED <<application, settings, contents, stored, jpeg, codestream,
                 stage, got_signature, have_container, events_wanted>>

SkipBox ==
  /\ pc = "Stage" /\ box_stage = "kSkip"
  /\ \/ /\ box.unbounded
        /\ Return(IF input_closed \/ ~box_buffer.set THEN "SUCCESS" ELSE "NEED_MORE_INPUT")
        /\ UNCHANGED <<input, boxes>>
     \/ /\ ~box.unbounded /\ avail_in < box.end - file_pos
        /\ AdvanceInput(avail_in) /\ UNCHANGED <<input_closed, box_stage, box_count, box>>
        /\ Return("NEED_MORE_INPUT")
     \/ /\ ~box.unbounded /\ avail_in >= box.end - file_pos
        /\ AdvanceInput(box.end - file_pos) /\ UNCHANGED <<input_closed, box_count, box>>
        /\ box_stage' = "kHeader"
        /\ Continue
  /\ UNCHANGED <<application, settings, contents, stored, jpeg, codestream, seen>>

-----------------------------------------------------------------------------
(* JxlToJpegDecoder::Process(), BoxStage::kJpegRecon.                       *)

\* DecodeJPEGData(): complete, cut inside the fields it begins with, or wrong,
\* as is what is cut in the compressed part. What is empty is not complete.
DecodeJPEGData(bytes) ==
  LET jbrd == {Contents(file, i) : i \in {j \in DOMAIN file.boxes : file.boxes[j].type = "jbrd"}}
  IN  CASE bytes # <<>> /\ bytes \in jbrd -> "complete"
        [] Len(bytes) < JpegFieldsSize /\ \E c \in jbrd : IsStrictPrefix(bytes, c) -> "partial"
        [] OTHER -> "fatal"

\* JxlToJpegDecoder::StartBox(). It never clears box_until_eof_.
StartJpegBox(d) ==
  [d EXCEPT !.inside_box = TRUE, !.buffer = <<>>,
            !.box_until_eof = @ \/ box.unbounded,
            !.box_size = IF box.unbounded THEN @ ELSE box.size]

\* How much of the input belongs to the box; the code's subtraction is
\* unsigned.
JpegInput_All(d) == avail_in                                        \* faulty
JpegInput(d) ==
  IF d.box_until_eof \/ Len(d.buffer) > d.box_size THEN avail_in
  ELSE Min2(avail_in, d.box_size - Len(d.buffer))

ReadJpegRecon ==
  /\ pc = "Stage" /\ box_stage = "kJpegRecon"
  /\ LET d == IF jpeg_decoder.inside_box THEN jpeg_decoder ELSE StartJpegBox(jpeg_decoder)
         n == JpegInput(d)
         bytes == d.buffer \o SubSeq(Input, 1, n)
         full == d.box_until_eof \/ Len(bytes) = d.box_size
         decoded == DecodeJPEGData(bytes)
         kept == [d EXCEPT !.buffer = bytes]
     IN  /\ AdvanceInput(n) /\ UNCHANGED <<input_closed, box_count, box>>
         /\ \/ /\ full /\ decoded = "complete"
               /\ jpeg_decoder' = [kept EXCEPT !.inside_box = FALSE, !.jpeg_data = TRUE]
               /\ recon_size' = HeaderAt(box.begin - file.boxes[box_count].header).expects
               /\ box_stage' = "kHeader"
               /\ events_wanted' = events_wanted \ {"JPEG_RECONSTRUCTION"}
               /\ IF "JPEG_RECONSTRUCTION" \in events_wanted
                  THEN Return("JPEG_RECONSTRUCTION") ELSE Continue
            \/ /\ ~(full /\ decoded = "complete")
               /\ jpeg_decoder' = kept
               /\ Return(CASE ~d.box_until_eof /\ Len(bytes) > d.box_size -> "ABORT"
                           [] full /\ (decoded = "fatal" \/ ~d.box_until_eof) -> "ERROR"
                           [] OTHER -> "NEED_MORE_INPUT")
               /\ UNCHANGED <<recon_size, box_stage, events_wanted>>
  /\ UNCHANGED <<application, settings, contents, stored, codestream, recon_output_jpeg,
                 ib_jpeg_data, stage, got_signature, have_container, last_codestream_seen>>

-----------------------------------------------------------------------------
(* BoxStage::kCodestream and JxlDecoderProcessCodestream().                 *)

\* avail_codestream: the part of the input that belongs to the box.
AvailCodestream_Unbounded == avail_in                               \* faulty
AvailCodestream ==
  IF box.unbounded THEN avail_in ELSE Min2(avail_in, box.end - file_pos)

\* What JxlDecoderProcessCodestream() sees: the copy, if there is one.
Codestream ==
  IF codestream_copy # <<>> THEN codestream_copy ELSE SubSeq(Input, 1, AvailCodestream)

\* A copy once begun takes the input at once.
EnterCodestream ==
  /\ pc = "Stage" /\ box_stage = "kCodestream"
  /\ \/ /\ codestream_copy # <<>>
        /\ codestream_copy' = codestream_copy \o SubSeq(Input, 1, AvailCodestream)
        /\ AdvanceInput(AvailCodestream)
     \/ /\ codestream_copy = <<>>
        /\ UNCHANGED <<codestream_copy, next_in, avail_in, file_pos>>
  /\ Goto("Codestream")
  /\ UNCHANGED <<application, settings, contents, stored, jpeg, seen, input_closed, box_stage,
                 box_count, box, progress, image_out_buffer_set>>

CodestreamResult(r) == pc' = "CodestreamResult" /\ result' = r /\ UNCHANGED <<status, events>>
FramesWanted == events_wanted \cap {"FRAME", "FULL_IMAGE"} # {}

\* How much of the codestream the next step needs.
Needed ==
  CASE progress = "start" -> BasicInfoSize
    [] progress = "basic_info" -> HeadersSize
    [] progress \in {"kHeader", "kTOC"} -> FrameHeaderSize
    [] progress = "kFull" -> CodestreamSize
    [] OTHER -> 0
Enough == Len(Codestream) >= Needed

DecodingCodestream == <<application, input, settings, boxes, contents, stored, codestream_copy,
                        got_signature, have_container, last_codestream_seen>>

\* JxlDecoderReadBasicInfo(), JxlDecoderReadAllHeaders()
ReadHeaders ==
  /\ pc = "Codestream" /\ Enough
  /\ \/ /\ progress = "start" /\ progress' = "basic_info"
     \/ /\ progress = "basic_info" /\ "BASIC_INFO" \notin events_wanted /\ progress' = "kHeader"
  /\ Goto("Codestream")
  /\ UNCHANGED <<DecodingCodestream, jpeg, stage, events_wanted, image_out_buffer_set>>

ReturnBasicInfo ==
  /\ pc = "Codestream" /\ progress = "basic_info" /\ "BASIC_INFO" \in events_wanted
  /\ events_wanted' = events_wanted \ {"BASIC_INFO"}
  /\ CodestreamResult("BASIC_INFO")
  /\ UNCHANGED <<DecodingCodestream, jpeg, stage, progress, image_out_buffer_set>>

\* FrameStage::kHeader
ReadFrameHeader ==
  /\ pc = "Codestream" /\ progress = "kHeader" /\ FramesWanted /\ Enough
  /\ progress' = "kTOC"
  /\ IF "FRAME" \in events_wanted THEN CodestreamResult("FRAME") ELSE Goto("Codestream")
  /\ UNCHANGED <<DecodingCodestream, jpeg, stage, events_wanted, image_out_buffer_set>>

\* FrameStage::kTOC, with JxlToJpegDecoder::SetImageBundleJpegData()
StartFrame ==
  /\ pc = "Codestream" /\ progress = "kTOC" /\ FramesWanted /\ Enough
  /\ LET move == jpeg_decoder.out /\ jpeg_decoder.jpeg_data
     IN  /\ ib_jpeg_data' = (ib_jpeg_data \/ move)
         /\ jpeg_decoder' = [jpeg_decoder EXCEPT !.jpeg_data = @ /\ ~move]
  /\ progress' = IF "FULL_IMAGE" \in events_wanted THEN "kFull" ELSE "last"
  /\ Goto("Codestream")
  /\ UNCHANGED <<DecodingCodestream, stage, events_wanted, image_out_buffer_set,
                 recon_size, recon_output_jpeg>>

NeedImageOutBuffer == ~image_out_buffer_set /\ (~jpeg_decoder.out \/ ~ib_jpeg_data)

\* FrameStage::kFull and kFullOutput. The image may be rebuilt as a JPEG.
DecodeFrame ==
  /\ pc = "Codestream" /\ progress = "kFull"
  /\ \/ /\ NeedImageOutBuffer
        /\ CodestreamResult("NEED_IMAGE_OUT_BUFFER")
        /\ UNCHANGED <<progress, events_wanted, image_out_buffer_set, recon_output_jpeg>>
     \/ /\ ~NeedImageOutBuffer /\ Enough
        /\ progress' = "last"
        /\ events_wanted' = events_wanted \cup (orig_events_wanted \cap {"FULL_IMAGE", "FRAME"})
        /\ IF jpeg_decoder.out /\ ib_jpeg_data
           THEN recon_output_jpeg' = "kSettingMetadata" /\ UNCHANGED image_out_buffer_set
           ELSE image_out_buffer_set' = FALSE /\ UNCHANGED recon_output_jpeg
        /\ CodestreamResult("FULL_IMAGE")
  /\ UNCHANGED <<DecodingCodestream, stage, recon_size, jpeg_decoder, ib_jpeg_data>>

FinishCodestream ==
  /\ pc = "Codestream"
  /\ progress = "last" \/ (progress = "kHeader" /\ ~FramesWanted)
  /\ stage' = "kCodestreamFinished"
  /\ CodestreamResult("SUCCESS")
  /\ UNCHANGED <<DecodingCodestream, jpeg, progress, events_wanted, image_out_buffer_set>>

CodestreamTooShort ==
  /\ pc = "Codestream" /\ ~Enough
  /\ progress = "basic_info" => "BASIC_INFO" \notin events_wanted
  /\ progress \in {"kHeader", "kTOC"} => FramesWanted
  /\ progress = "kFull" => ~NeedImageOutBuffer
  /\ CodestreamResult("NEED_MORE_INPUT")
  /\ UNCHANGED <<DecodingCodestream, jpeg, stage, progress, events_wanted, image_out_buffer_set>>

\* The rest of BoxStage::kCodestream.
StageAtBoxEnd_Same == box_stage                                     \* faulty
StageAtBoxEnd == "kHeader"

\* Boxes after the codestream that are needed, or wanted.
MoreBoxes_NotForEvents ==                                           \* faulty
  JbrdNeedMoreBoxes \/ (~box.unbounded /\ ~last_codestream_seen /\ CanUseMoreCodestreamInput)
MoreBoxes ==
  \/ JbrdNeedMoreBoxes
  \/ ~box.unbounded /\ ("BOX" \in events_wanted \/ (~last_codestream_seen /\ CanUseMoreCodestreamInput))

CopyAndReadOn ==
  /\ pc = "CodestreamResult" /\ result = "NEED_MORE_INPUT"
  /\ \/ /\ codestream_copy = <<>>
        /\ codestream_copy' = SubSeq(Input, 1, AvailCodestream)
        /\ AdvanceInput(AvailCodestream)
     \/ /\ codestream_copy # <<>>
        /\ UNCHANGED <<codestream_copy, next_in, avail_in, file_pos>>
  /\ IF file_pos' = box.end
     THEN box_stage' = StageAtBoxEnd /\ Continue
     ELSE Return("NEED_MORE_INPUT") /\ UNCHANGED box_stage
  /\ UNCHANGED <<application, settings, contents, stored, jpeg, seen, input_closed, box_count,
                 box, progress, image_out_buffer_set>>

AfterCodestream ==
  /\ pc = "CodestreamResult" /\ result = "SUCCESS"
  /\ IF MoreBoxes
     THEN box_stage' = "kSkip" /\ Continue /\ UNCHANGED <<next_in, avail_in, file_pos>>
     ELSE AdvanceInput(avail_in) /\ Return("SUCCESS") /\ UNCHANGED box_stage
  /\ UNCHANGED <<application, settings, contents, stored, jpeg, codestream, seen, input_closed,
                 box_count, box>>

CodestreamEvent ==
  /\ pc = "CodestreamResult" /\ result \notin {"SUCCESS", "NEED_MORE_INPUT"}
  /\ UNCHANGED <<application, input, settings, boxes, contents, stored, jpeg, codestream, seen>>
  /\ IF result = "FULL_IMAGE" /\ recon_output_jpeg # "kNone" THEN Continue ELSE Return(result)

-----------------------------------------------------------------------------
(* The application, between two calls.                                      *)

Between == pc = "Application" /\ status \notin {"SUCCESS", "ERROR", "ABORT"}

\* JxlDecoderSetInput(), with the units returned by JxlDecoderReleaseInput()
\* first.
SetInput(n) ==
  /\ Between /\ next_in = -1 /\ ~input_closed
  /\ sent + n <= FileSize(file)
  /\ next_in' = sent - unread /\ avail_in' = unread + n
  /\ sent' = sent + n /\ unread' = 0
  /\ UNCHANGED <<file, input_closed, settings, boxes, contents, stored, jpeg, codestream, seen,
                 pc, result, status, events>>

ReleaseInput ==
  /\ Between /\ next_in # -1 /\ ~input_closed
  /\ unread' = avail_in /\ next_in' = -1 /\ avail_in' = 0
  /\ UNCHANGED <<file, sent, input_closed, settings, boxes, contents, stored, jpeg, codestream,
                 seen, pc, result, status, events>>

\* JxlDecoderCloseInput(), when all input is set or none is left.
CloseInput ==
  /\ Between /\ ~input_closed /\ unread = 0
  /\ input_closed' = TRUE
  /\ UNCHANGED <<application, next_in, avail_in, settings, boxes, contents, stored, jpeg,
                 codestream, seen, pc, result, status, events>>

\* JxlDecoderSetBoxBuffer(), directly after a box event, or when the buffer
\* was full and was released.
SetBoxBuffer(size) ==
  /\ Between /\ ~box_buffer.set /\ box_buffer.event
  /\ status = "BOX" \/ status = "BOX_NEED_MORE_OUTPUT"
  /\ box_buffer' = [box_buffer EXCEPT !.set = TRUE, !.current = TRUE, !.size = size, !.pos = 0]
  /\ taken' = (taken \/ status = "BOX")
  /\ UNCHANGED <<application, input, settings, boxes, stored, jpeg, codestream, seen, pc, result,
                 status, events, box_content_decoder, box_out>>

ReleaseBoxBuffer ==
  /\ Between /\ box_buffer.set
  /\ status = "BOX_NEED_MORE_OUTPUT" \/ (status = "BOX" /\ ~box_buffer.current)
  /\ box_buffer' = [box_buffer EXCEPT !.set = FALSE, !.current = FALSE, !.size = 0]
  /\ UNCHANGED <<application, input, settings, boxes, stored, jpeg, codestream, seen, pc, result,
                 status, events, box_content_decoder, box_out, taken>>

\* JxlDecoderSetJPEGBuffer() and JxlDecoderReleaseJPEGBuffer()
SetJPEGBuffer(size) ==
  /\ Between /\ ~jpeg_decoder.out
  /\ status \in {"JPEG_RECONSTRUCTION", "JPEG_NEED_MORE_OUTPUT"}
  /\ jpeg_decoder' = [jpeg_decoder EXCEPT !.out = TRUE, !.avail_size = size]
  /\ UNCHANGED <<application, input, settings, boxes, contents, stored, codestream, seen, pc,
                 result, status, events, recon_size, recon_output_jpeg, ib_jpeg_data>>

ReleaseJPEGBuffer ==
  /\ Between /\ jpeg_decoder.out /\ status = "JPEG_NEED_MORE_OUTPUT"
  /\ jpeg_decoder' = [jpeg_decoder EXCEPT !.out = FALSE, !.avail_size = 0]
  /\ UNCHANGED <<application, input, settings, boxes, contents, stored, codestream, seen, pc,
                 result, status, events, recon_size, recon_output_jpeg, ib_jpeg_data>>

SetImageOutBuffer ==
  /\ Between /\ status = "NEED_IMAGE_OUT_BUFFER" /\ ~image_out_buffer_set
  /\ image_out_buffer_set' = TRUE
  /\ UNCHANGED <<application, input, settings, boxes, contents, stored, jpeg, seen, pc,
                 result, status, events, codestream_copy, progress>>

-----------------------------------------------------------------------------
Box0 == [begin |-> 0, end |-> 0, size |-> 0, unbounded |-> FALSE]
BoxBuffer0 == [set |-> FALSE, current |-> FALSE, event |-> FALSE, size |-> 0, pos |-> 0]
Jpeg0 == [inside_box |-> FALSE, box_until_eof |-> FALSE, box_size |-> 0, buffer |-> <<>>,
          jpeg_data |-> FALSE, out |-> FALSE, avail_size |-> 0]

\* JxlDecoderCreate(), JxlDecoderSubscribeEvents() and
\* JxlDecoderSetDecompressBoxes()
Init ==
  /\ \E s \in Sessions : /\ file = s.file /\ decompress_boxes = s.decompress
                         /\ orig_events_wanted = s.wanted /\ events_wanted = s.wanted
  /\ sent = 0 /\ unread = 0
  /\ next_in = -1 /\ avail_in = 0 /\ input_closed = FALSE
  /\ stage = "kInited" /\ got_signature = FALSE /\ have_container = FALSE
  /\ last_codestream_seen = FALSE
  /\ file_pos = 0 /\ box_stage = "kHeader" /\ box_count = 0 /\ box = Box0
  /\ box_buffer = BoxBuffer0 /\ box_out = <<>> /\ taken = FALSE
  /\ box_content_decoder = StartBox(FALSE, FALSE, 0)
  /\ metadata_decoder = StartBox(FALSE, FALSE, 0)
  /\ store = [m \in Meta |-> 0] /\ metadata = [m \in Meta |-> <<>>]
  /\ recon_size = [m \in Meta |-> 0] /\ recon_output_jpeg = "kNone"
  /\ jpeg_decoder = Jpeg0 /\ ib_jpeg_data = FALSE
  /\ codestream_copy = <<>> /\ progress = "start" /\ image_out_buffer_set = FALSE
  /\ pc = "Application" /\ result = "" /\ status = "" /\ events = <<>>

\* JxlDecoderReset() and the settings for another file. The decoder of the jbrd
\* box keeps its state.
Reset ==
  /\ pc = "Application"
  /\ \E s \in Sessions : /\ file' = s.file /\ decompress_boxes' = s.decompress
                         /\ orig_events_wanted' = s.wanted /\ events_wanted' = s.wanted
  /\ sent' = 0 /\ unread' = 0
  /\ next_in' = -1 /\ avail_in' = 0 /\ input_closed' = FALSE
  /\ stage' = "kInited" /\ got_signature' = FALSE /\ have_container' = FALSE
  /\ last_codestream_seen' = FALSE
  /\ file_pos' = 0 /\ box_stage' = "kHeader" /\ box_count' = 0 /\ box' = Box0
  /\ box_buffer' = BoxBuffer0 /\ box_out' = <<>> /\ taken' = FALSE
  /\ store' = [m \in Meta |-> 0] /\ metadata' = [m \in Meta |-> <<>>]
  /\ recon_size' = [m \in Meta |-> 0] /\ recon_output_jpeg' = "kNone"
  /\ ib_jpeg_data' = FALSE
  /\ codestream_copy' = <<>> /\ progress' = "start" /\ image_out_buffer_set' = FALSE
  /\ result' = "" /\ status' = "" /\ events' = <<>>
  /\ UNCHANGED <<box_content_decoder, metadata_decoder, jpeg_decoder, pc>>

HandleBoxes ==
  \/ OutputBox \/ StoreMetadata \/ SetMetadata \/ WriteOutput \/ NoReconstruction
  \/ StartCodestream \/ AtBoxEnd \/ ReadBoxHeader \/ ReadFtyp \/ ReadPartialCodestream
  \/ SkipBox \/ ReadJpegRecon \/ EnterCodestream
  \/ ReadHeaders \/ ReturnBasicInfo \/ ReadFrameHeader \/ StartFrame \/ DecodeFrame
  \/ FinishCodestream \/ CodestreamTooShort
  \/ CopyAndReadOn \/ AfterCodestream \/ CodestreamEvent

Application ==
  \/ \E n \in 0..MaxChunk : SetInput(n)
  \/ ReleaseInput \/ CloseInput
  \/ \E size \in BoxBufferSizes : SetBoxBuffer(size)
  \/ \E size \in JpegBufferSizes : SetJPEGBuffer(size)
  \/ ReleaseBoxBuffer \/ ReleaseJPEGBuffer \/ SetImageOutBuffer

\* An application stops at the end and at the first error.
Stopped == pc = "Application" /\ status \in {"SUCCESS", "ERROR", "ABORT"} /\ UNCHANGED vars

Next == ProcessInput \/ HandleBoxes \/ Application \/ Stopped

\* The thread that called JxlDecoderProcessInput() goes on until it returns.
Spec == Init /\ [][Next]_vars /\ WF_vars(HandleBoxes)

\* The decoder is reset and used again.
ResetSpec == Init /\ [][Next \/ Reset]_vars

-----------------------------------------------------------------------------
Statuses == Events \cup {"", "SUCCESS", "ERROR", "ABORT", "NEED_MORE_INPUT",
                         "NEED_IMAGE_OUT_BUFFER", "BOX_NEED_MORE_OUTPUT", "JPEG_NEED_MORE_OUTPUT"}

\* The file, the input and the state of the decoder are what the types in
\* decode.cc allow, and the decoder does not read past its input.
TypeOK ==
  /\ file \in {s.file : s \in Sessions} /\ sent \in 0..FileSize(file) /\ unread \in 0..sent
  /\ next_in \in -1..sent /\ avail_in \in 0..sent /\ input_closed \in BOOLEAN
  /\ stage \in {"kInited", "kStarted", "kCodestreamFinished"}
  /\ {got_signature, have_container, last_codestream_seen, decompress_boxes,
      ib_jpeg_data, image_out_buffer_set, taken} \subseteq BOOLEAN
  /\ events_wanted \subseteq orig_events_wanted
  /\ box_stage \in {"kHeader", "kFtyp", "kSkip", "kCodestream", "kPartialCodestream", "kJpegRecon"}
  /\ file_pos \in 0..sent /\ box_count \in 0..Len(file.boxes)
  /\ box_buffer.pos \in 0..Max(BoxBufferSizes)
  /\ store \in [Meta -> 0..2] /\ recon_size \in [Meta -> Nat]
  /\ \A m \in Meta : metadata[m] \in Seq(Int)
  /\ recon_output_jpeg \in {"kNone", "kSettingMetadata", "kOutputting", "kFinished"}
  /\ progress \in {"start", "basic_info", "kHeader", "kTOC", "kFull", "last"}
  /\ pc \in {"Application", "OutputBox", "StoreMetadata", "Reconstruct", "Stage", "Codestream",
             "CodestreamResult"}
  /\ status \in Statuses /\ result \in Statuses

\* However the input is cut, what JxlDecoderProcessCodestream() sees until it
\* has finished is a prefix of the codestream: each byte of the jxlc or jxlp
\* boxes once, in order, and nothing of other boxes.
CodestreamInOrder ==
  pc = "Codestream" /\ CanUseMoreCodestreamInput => IsPrefix(Codestream, CodestreamOf(file))

\* The contents of a box for an application.
Expected(f, i) == IF decompress_boxes THEN Plain(f, i) ELSE Contents(f, i)

\* An application that gives a buffer whenever it is asked for one has all of
\* a box when the next box or the end is reached. A codestream box up to the
\* end of the file is left out: reading stops with the codestream.
BoxEnds == box_count' # box_count \/ status' = "SUCCESS"
BoxOutputComplete ==
  [][ taken /\ pc # "Application" /\ BoxEnds /\ sent = FileSize(file)
        /\ (box.unbounded => box_stage = "kSkip")
      => box_out = Expected(file, box_count) ]_vars

\* Every call returns: the loop of HandleBoxes() never turns without progress.
EveryCallReturns == pc # "Application" ~> pc = "Application"

\* The JPEG is written with the metadata of the first Exif and XMP boxes,
\* wherever they stand in the file: all of a box, or as much as the jbrd box
\* expects of one that extends to the end of the file.
MetadataComplete ==
  recon_output_jpeg \in {"kOutputting", "kFinished"} =>
    \A m \in Meta : recon_size[m] > 0 =>
      LET first == Min(Holding(file.boxes, m))
      IN  /\ Len(metadata[m]) = recon_size[m] /\ IsPrefix(metadata[m], Plain(file, first))
          /\ ~file.boxes[first].unbounded => metadata[m] = Plain(file, first)

\* A file that is as the format wants it is never rejected, however it is cut,
\* unless the input was closed before its end. One kind of file is an exception:
\* when metadata for the JPEG is in a box up to the end of the file and only a
\* part of it was given, BoxStage::kSkip returns JXL_DEC_SUCCESS for a box that
\* the application does not read, and JxlDecoderProcessInput() makes it an
\* error, although the code that stores the box means to wait for the rest.
EndlessMetadata ==
  box.unbounded /\ \E m \in Meta : store[m] = 1 /\ Len(metadata[m]) < recon_size[m]
NoSpuriousError ==
  status \in {"ERROR", "ABORT"} /\ WellFormed(file) =>
    sent < FileSize(file) /\ (input_closed \/ EndlessMetadata)

\* On success everything subscribed to has been returned, once: the image,
\* and an event for each box of the file if boxes were wanted, even if the file
\* is not as the format wants it.
Count(e) == Cardinality({k \in DOMAIN events : events[k] = e})
AllEventsReturned ==
  /\ \A e \in Events \ {"BOX"} : Count(e) <= 1
  /\ status = "SUCCESS" /\ sent = FileSize(file) =>
       /\ \A e \in orig_events_wanted \cap {"BASIC_INFO", "FRAME", "FULL_IMAGE"} : Count(e) = 1
       /\ "BOX" \in orig_events_wanted /\ file.container => Count("BOX") = Len(file.boxes)
=============================================================================
