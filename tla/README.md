# A TLA+ model of libjxl's concurrent and incremental parts

libjxl encodes and decodes JPEG XL images. Most of its code is arithmetic on
pixels, which tests cover well. This project models the part that tests cover
badly: how threads share the work of a frame, how a frame is put together from
sections that arrive in any order, how files are read and written in pieces of
any size, and what happens when an application calls the library in an order
nobody wrote a test for.

## The system

| Part | State it keeps | Operations | What is hard |
|---|---|---|---|
| `ThreadParallelRunner` (`lib/threads/thread_parallel_runner_internal.*`) | mutex, two condition variables, `workers_ready_`, `worker_start_command_`, atomics `num_reserved_` and `depth_`, `data_func_`/`jpegxl_opaque_` | constructor, `Runner`, `RunOnEachThread`, `ThreadFunc`, `RunRange`, destructor | a barrier used again by every call, waits without predicate, chunks sized from stale values, re-entrance |
| `ResizeableParallelRunner` (`lib/threads/resizable_parallel_runner.cc`) | mutex, two condition variables, `num_running_workers_`, `num_desired_workers_`, `max_running_workers_`, `next_task_`, `end_task_`, `func_` | `SetNumThreads`, `Run`, `WorkerBody`, `DequeueTasks`, destructor | late workers, resizing while workers are about to wait, lost wake-ups |
| `ThreadPool` (`lib/jxl/base/data_parallel.*`) | pointers only | `Run` | it is the contract of `parallel_runner.h`: init once, every task once, return after the last |
| `GroupBorderAssigner` and `LowMemoryRenderPipeline::ProcessBuffers` | one atomic counter per corner of the grid of groups, shared border storage | `Init`, `ClearDone`, `GroupDone`, saving and loading borders, rendering rectangles | neighbours decide without a lock who renders a border; groups are drawn again for every pass and flush |
| `FrameDecoder` (`lib/jxl/dec_frame.*`) | `processed_section_`, decoded DC and AC groups and passes, `finalized_dc_`, `num_sections_done_`, per-thread caches | `InitFrame`, `ProcessSections`, `Flush`, `FinalizeFrame` | sections in any order and in pieces, errors between two updates, a pause after the DC, flushes, pools that change size |
| `JxlDecoder`, frame loop (`lib/jxl/decode.cc`) | `events_wanted`, `frame_stage`, counts of internal and external frames, tables kept over a rewind, `skip_frames`, `frame_required` | `ProcessInput`, `SubscribeEvents`, `SetCoalescing`, `SetImageOutBuffer`, `SkipFrames`, `Rewind`, `Reset` | skips at any moment, stale tables, frames needed by others |
| `JxlDecoder`, boxes and JPEG reconstruction (`decode.cc`, `box_content_decoder.cc`, `decode_to_jpeg.*`) | `next_in`/`avail_in`, `file_pos`, `box_stage`, `codestream_copy`, box buffers and two content decoders, `store_exif`, `recon_output_jpeg`, the `jbrd` decoder | `HandleBoxes`, `SetInput`, `ReleaseInput`, `CloseInput`, box, JPEG and image buffers, `Reset` | input and output in pieces of any size, boxes in any order, three readers of one input at different positions |
| `JxlEncoder` (`lib/jxl/encode.cc`) | settings, `input_queue`, `output_byte_queue`, `wrote_bytes`, `jxlp_counter`, `frames_closed`, `jpeg_metadata` | `AddImageFrame`, `AddJPEGFrame`, `AddBox`, `CloseFrames`, `ProcessOutput`, settings | output in pieces, order of calls, what goes into which box |
| Entropy coding (`ans_common.*`, `enc_ans.*`, `dec_ans.h`) | ANS state, LZ77 window, copy under way | `InitAliasTable`, `PutSymbol`, `WriteTokens`, `ReadHybridUint`, `Save`, `Restore` | exact inverse of each other, checkpoints |
| `ICCReader` (`icc_codec.*`) | `i_`, `bits_to_skip_`, `decompressed_`, symbol reader | `Init`, `Process`, `Reset` | reads past the end and takes it back |
| Other codecs, transforms, colour, metrics, tools | none between calls | | numerical |

The application calls `JxlDecoder`. The box loop hands the codestream on, which
begins with the headers and an ICC profile; the frame loop makes one
`FrameDecoder` per frame, which runs its groups on a `ThreadPool`, that is, on
one of the runners. Each group that a task has decoded goes through the render
pipeline, where `GroupBorderAssigner` decides what the task renders. The models
follow these layers. Each relies on what the one below promises and no more: the
tasks in `FrameDecoder` and `GroupBorderAssigner` may run on any thread in any
order, one at a time per thread id, which is what `ParallelRun` says of a runner;
`FrameSkipping` and `FrameDecoder` get more of the codestream at any moment,
which is what `BoxReader` shows of the bytes.
`JxlEncoder` writes the files: it and `BoxReader` share one definition of a
proper file, `WellFormedBoxes` of `JxlContainer`. The encoder is shown to write
no other, the decoder to reject none of them.

## Modules

| Module | Models |
|---|---|
| `ParallelRun` | what `lib/include/jxl/parallel_runner.h` promises to one caller: the abstract specification of both runners |
| `ThreadParallelRunner` | the fixed pool; one action per critical section or atomic operation |
| `ResizableParallelRunner` | the resizable pool; likewise |
| `GroupBorderAssigner` | corner counters, border storage, rendered rectangles, and the calls that clear and draw groups |
| `FrameDecoder` | one frame from `InitFrame` to `FinalizeFrame`, for both of its users |
| `FrameSkipping` | the frame loop of `decode.cc` with skipping, rewinding and resetting |
| `JxlContainer` | the boxes of a file, as the format defines them |
| `BoxReader` | `JxlDecoderProcessInput` and its box loop, box contents, JPEG reconstruction |
| `JxlEncoder` | the encoder's queue, files and output |
| `AnsCoding` | alias tables, ANS and hybrid integers, as operators |
| `IccReader` | an ICC profile written as tokens and read in pieces |
| `MC...` | constants for TLC |
| `..._proof` | theorems about `ThreadParallelRunner`, `ResizableParallelRunner`, `GroupBorderAssigner`, `FrameDecoder`, `FrameSkipping`, `BoxReader` and `JxlEncoder` |
| `NaturalInduction` | induction on natural numbers for the proofs |

Definitions whose name has a suffix and that are marked `faulty` are mutants:
plausible errors in the definition that follows, each of which the named
property detects. `PROJECT.json` lists them. Every module with state has a
`TypeOK`, except `IccReader`; TLC evaluates it in the runs of
`ThreadParallelRunner` and `GroupBorderAssigner`, in the others it documents the
state and serves the proofs.

**ThreadParallelRunner.** `pc[c]` is where a thread that calls `Runner()` is,
`wpc[w]` where a worker is. The mutex is implicit: a critical section is one
step, and a wait splits it in two. `Enter` is the increment of `depth_`,
`Publish` the writes before `StartWorkers`, `StartWorkers`/`NotifyWorkers` the
command and the notification, `WorkersReadyBarrier` the check, with
`CallerSpuriousWakeup` for its wait. `ReportReady`, `ReadCommand`,
`LoadReserved`, `ReserveChunk`, `BeginTasks` and `FinishTask` are the worker.
Numbers are computed modulo `Modulus` in the place of 2^32. `opaque[w]` is the
call whose closure a worker uses. The calls of `init` may fail.

**ResizableParallelRunner.** One owner, which runs or resizes, and the workers.
Every condition variable may wake up spuriously, since the code waits in loops.

**GroupBorderAssigner.** A group is a position, a counter a set of positions
around a corner. `SaveBorders`, four times `FetchStatus` and `RenderRects` are
one task. `stale` is the set of pixels not rendered since the data they depend
on was stored; `Rendered(g)` follows the code's positions, segments and strips.
`ProcessSections` and `Flush` are the callers, with the groups they clear.

**FrameDecoder.** `phase` is the place inside a call. `ProcessSections(S)` is
the part up to `ProcessDCGlobal`, and `ProcessDCGroup`, `FinalizeDC`,
`ProcessACGlobal`, `StartGroup`/`ProcessACGroup` and `FinishSections` are what
follows. `caller` is `"api"` for the stage `kFull` of `decode.cc`, which calls
again with all the sections it has, or `"file"` for `DecodeFrame`, which calls
once. Sections hold no data: any task may fail, and `decodes` counts how often
each part was decoded.

**FrameSkipping.** Images are sequences of frames with the header fields that
matter: type, duration, slot saved to, slots used. Frames count from 1.
`intact` holds the frames decoded from the slot contents they would have
without skipping, `asked` the external frames that the application asked to
skip. Sections, previews and errors inside a frame are left to `FrameDecoder`.

**BoxReader.** The unit of size is four bytes, and a unit of data is its offset
in the file, so that every output can be compared with the file. `pc` is the
place in a call: the output of the current box (`OutputBox`), metadata for the
JPEG (`StoreMetadata`), the JPEG itself (`SetMetadata`, `WriteOutput`), then the
box stage, and inside the stage `kCodestream` `JxlDecoderProcessCodestream`,
reduced to one frame and the sizes at which its parts are complete. `Goto`,
`Continue` and `Return` are the control of the loop; `Checked` is what
`JxlDecoderProcessInput` makes of the result. `box_content_decoder` and
`metadata_decoder` are two instances of `JxlBoxContentDecoder`, which may be
ahead of `file_pos`. Brotli is external: a compressed unit stands for two others.
Of `DecodeJPEGData` only the verdict is modelled: a `jbrd` box is complete, cut in
the fields it begins with (`JpegFieldsSize`), for which the code waits, or
neither; what is cut in its Brotli part counts as corrupted. Between calls the
application sets, releases and closes the input and gives buffers where the API asks for them; it calls again only once it has given
back the input it released, and it stops at the first error.

**JxlEncoder.** A unit of output is a record that says what it holds: the header
of a box, the headers of the codestream, one of the two parts of a frame, the
contents of a box. `EncodeQueuedFrame` and `WriteQueuedBox` are
`RefillOutputByteQueue` for the two kinds of items, with everything that it
writes before the first item (`Beginning`); `RefuseToBegin` is its early returns,
for the level and for headers that `WriteHeaders` or `WriteICC` cannot write,
which leave everything as it is. `metadata` is reduced to what these returns ask:
the level that the basic information and the color encoding require, and whether
each can be written. `SetBasicInfo` may be called at any time and fails half-way
where the code does. `CopyOut` is the other branch of the loop of
`ProcessOutput`. Of `EncodeFrame` only its success is modelled: it may fail, as
may Brotli. `added`, `out`, `dropped` and `closed_in_time` are history. Frame settings only
matter to `EncodeFrame`. `boxes_closed` is set by the code and never read.

**AnsCoding.** Pure operators with the widths as parameters. `Reassign` is one
turn of the loop of `InitAliasTable` with its two stacks, `Entry` what the code
makes of the result, `Lookup` and `PutSymbol` the decoder's and the encoder's
side. `ExactFor` is the promise of the comment in `ans_common.h`.

**IccReader.** `Written(s)` is what `WriteTokens` makes of a profile, given as
literals and LZ77 matches: any parse of it, since `ApplyLZ77` chooses by cost.
Reading is one action per value. `Peek` gives zeros
past the end, as `BitReader` does, so that what is read there is what the code
would read; only `AllReadsWithinBounds` tells. The LZ77 window is not
initialized in the code and filled arbitrarily here. `Implausible` is the check at
`icc_codec.cc:368`, and `TooDense` says the same of what was written, from the
lengths of its tokens and not from where the reader stands. The encoder forces prefix
codes for profiles (`enc_icc_codec.cc:423`), but the format and the reader allow
ANS: both are modelled. Contexts are reduced from 41 to three, a prefix code has
words of equal length, and `HeaderBits` stands for the size and the histograms.
In the code a truncated header is recognised since the zeros read for it make
`DecodeHistograms` fail and `decode.cc:996` asks for bounds first. Profiles of
at most `kPreambleSize` (22) values are left out: for them `Init` sets
`bits_to_skip_` without a check (`icc_codec.cc:338`), so that values read past
the end would be kept, but no ICC profile is that short.

## What TLC checks

| Run | Shows |
|---|---|
| `thread_pool` | two threads and two workers: the barrier is reusable (`WorkersReadyBetweenRuns`), one thread drives it (`OneDriver`), no task outlives its call (`NoTaskAfterReturn`), the contract holds (`RefinesParallelRun`), no wake-up is lost (`EveryCallReturns`) |
| `thread_pool_no_workers` | the sequential fallback keeps the contract |
| `thread_pool_spurious` | **violated**: with spurious wake-ups of workers a task may outlive its call |
| `resizable` | up to three workers: accounting of running threads (`RunningCount`), resizing (`PoolHasDesiredSize`), contract, no lost wake-up |
| `group_borders` | 2x2 groups, three threads, several passes, flushes and frames: no border handled or rendered twice, nothing left out when a run ends (`FreshAfterRun`), no border read while it is rewritten (`NoTornBorder`), the assertion of `fetch_status` (`ReportsOnce`) |
| `frame_sections` | sections in any order and number of calls: each part decoded once and in order, dependencies met, `processed_section_` is exact between calls, a finalized frame is complete, caches are private, drawing has a pipeline, and the frame ends |
| `frame_retry` | **violated**: calling on after an error returns a frame that was not decoded |
| `frame_skipping` | skips anywhere, then a rewind and skips again: displayed frames have their references (`ShownIntact`), exactly what was asked is skipped (`SkipsWhatWasAsked`), the tables kept are true (`TablesTrue`) |
| `box_reader` | files of every kind in pieces: the codestream is handed on once and in order (`CodestreamInOrder`), the JPEG gets the whole of the right metadata (`MetadataComplete`), the application the whole of each box (`BoxOutputComplete`) and every event once (`AllEventsReturned`), a proper file is rejected only if it is cut (`NoSpuriousError`), and every call returns (`EveryCallReturns`) |
| `box_reader_reset` | **violated**: a decoder that is reset inside a `jbrd` box rejects the same file |
| `encoder` | frames, JPEGs and boxes in any order, with any settings, refused ones and ones set half-way included: written once and in order (`QueuedInOrder`), to a proper file with a whole codestream (`FileComplete`), and with frames closed all of it in the end, unless nothing was written and the headers are refused (`EverythingWritten`) |
| `icc_profiles` | alias tables count exactly (`AliasTablesExact`), a profile read in pieces is the one that was written (`ProfileIntact`), rejected if and only if it is written in too few bits, however it comes (`RejectedIfTooDense`), and complete with its last bit (`NeverStarved`) |

Deadlock is checked in all of them; an application that has finished is a
stuttering step (`Stopped`, `Stop`).

### Findings

1. *Spurious wake-ups* (`thread_parallel_runner_internal.cc:156`). A worker that
   has reported and wakes up before the barrier has reset the command obeys it
   again and reports twice, so that `Runner()` returns while another worker is
   still in its task. The comment on `WorkersReadyBarrier` says spurious
   wake-ups are handled safely. `ThreadParallelRunner!Spec` leaves them out for
   workers, `SpuriousSpec` has them.
2. *Calling on after an error* (`decode.cc:2118`). Nothing assigns `kError`, and
   the sections of the failed call stay marked as processed, so the next call
   counts them as done and returns the frame. Outside of `RetrySpec` an
   application stops at the first error, as the documentation asks.
3. *Reset inside a `jbrd` box* (`decode.cc:710`). `JxlDecoderReset` leaves
   `jpeg_decoder` as it is, although `decode.h:101` promises that all state is
   reset. A decoder that is used again appends the next `jbrd` box to what it has
   of the old one. `BoxReader!Spec` has one file per decoder, `ResetSpec` more.

### Known divergences that no run checks

In the decoder:
- *Repeated flush* (`dec_group_border.cc:81`). `Flush()` clears only incomplete
  groups, but a frame that uses the full image draws all of them, and the
  assertion fails on a second flush without new input. `GroupBorderAssigner`
  excludes it with `~(FullImage /\ RepeatedFlush)`.
- *Truncated file* (`dec_frame.cc:978`). Without all of the DC there is no render
  pipeline, but `FinalizeFrame()` draws. `DrawsHavePipeline` excludes that case.
- *Coalescing after a rewind* (`decode.cc:760`). The table of external frames
  counts the stills of the old setting, so that a later skip may drop a frame that
  is needed. `FrameSkipping` has applications that set coalescing once.
- *Progression of skipped frames* (`decode.cc:1512`). The event is not tied to
  `skipping_frame`, unlike the other three, although `decode.h:315` says that
  skipped frames raise no events.
- `JxlDecoderRewind` sets `events_wanted` to 0, while `decode.h:306` says that
  subscribed events are kept. In the model the application subscribes again.
- *Last codestream box* (`decode.cc:2020`). A codestream box up to the end of the
  file is not output completely, since reading stops with the codestream;
  `decode.h:279` says that the buffer has all of it on success. `BoxOutputComplete`
  leaves it out.
- *Unbounded metadata* (`decode.cc:2077`). When an Exif or XMP box that the `jbrd`
  box expects is the last and unbounded, and comes in pieces, the comment at
  `decode.cc:1752` says that this is treated as if more input was needed, but the
  stage `kSkip` then returns success, unless a box buffer is set, and
  `JxlDecoderProcessInput` makes of it an error about missing metadata boxes
  (`decode.cc:2163`). `NoSpuriousError` makes this one exception
  (`EndlessMetadata`); the file `JpegEndless` of the run has such a box. The
  exact form of the exception came out of the proof: everywhere else a wait for
  metadata ends.
- `box_event` is never set back to false, so a box buffer may be set long after
  the event; `decode.cc:2011` tests a condition that cannot hold there.
- *Profiles that compress well* (`icc_codec.cc:371`). At every multiple of 65536
  values `ICCReader::Process` returns "Corrupted stream" if it has used fewer bytes
  than a 256th of that. `WriteICC` has no such limit: `ApplyLZ77` makes matches as
  long as the profile is (`enc_ans.cc:1235`), so that a long run of equal values
  takes a few bytes, and what it wrote is not read. The tests assert that it is
  (`icc_codec_test.cc:23`), for smaller profiles. The run `icc_profiles` has such a
  profile; `RejectedIfTooDense` says that it is always rejected, and no other.

In the encoder:
- Exif and XMP boxes are not added for JPEG reconstruction, although
  `encode.h:626` says they are when needed; the application has to add them.
- The first frame takes the headers of the codestream with it when it fails
  (`encode.cc:306`); `FileComplete` leaves out sessions in which something failed.
- Frames that are closed after the last one was encoded leave a codestream
  without a last frame. `FileComplete` asks for `closed_in_time`.
- A JPEG that is refused for its level sets the basic information, and is
  accepted when it is added again; one that is refused for its dimensions leaves
  its `jpeg_metadata`, and of two JPEG frames the `jbrd` box is that of the last.
  All this is in the model.
- *Headers that cannot be written* (`encode.cc:242`). `JxlEncoderSetBasicInfo`
  takes some values unchecked that `WriteHeaders` refuses (`min_nits` above
  `intensity_target`), and an invalid profile leaves an unknown color encoding
  when `JxlEncoderSetICCProfile` fails. Every `ProcessOutput` then returns an error
  and takes nothing from the queue, until the application sets something else.
  `EverythingWritten` exempts this as it does a level that is too low (`Refused`).
- `JxlEncoderSetBasicInfo` changes the size, the channels and the orientation
  before it fails for what follows them, with or without `basic_info_set`, and it
  is accepted after frames were added and bytes written. This is in the model.
- `JxlEncoderReset` keeps `store_jpeg_metadata`, `jpeg_metadata` and the Brotli
  effort (`encode.cc:1045`). It is not in the model.
- `JxlEncoderSetExtraChannelBuffer` takes the last item of the queue for a frame
  (`encode.cc:1385`) even if it is a box, and indexes its channels as they were when the frame was
  added, although they may have been increased since. In the model it is only
  called for a frame that lacks its channel.

### Bounds

- *Runners*: two calling threads give re-entrance, two workers the race for the
  barrier and for chunks, ranges of 16 tasks chunks of more than one task.
  `MaxDepth` bounds nested calls, `Modulus` leaves room for one reservation per
  worker beyond the end of a range, which is the room the code has at 2^32.
- *Groups*: 2x2 groups have one inner corner with four groups, borders in both
  directions and every outer edge. Sizes 5x5 with groups of 4 make the last
  groups partial, and a border of 2 is wider than the last group.
- *Frame*: two DC groups, two groups and two passes are the least in which one
  part of each kind can precede or follow another; three threads exceed the
  groups, two do not exceed them, so both ways of choosing a cache occur.
- *Images*: three frames of six kinds and four of three kinds contain chains of
  two references, stills of several frames, overwritten slots and DC frames; two
  skipped frames and one rewind allow skipping during skipping on both passes.
- *Files to read*: `MCSessions` has a bare codestream, large headers, a
  codestream in three parts of which one is empty, metadata before, between and
  after codestream boxes, compressed or twice, and nine improper files. `MaxChunk`
  of two units is less than any header, so every header, index and content is
  cut at every place; a box buffer of two units is smaller than most boxes, and
  a JPEG buffer is once too small. The run has 430,364 states. The codestream has three units: a part for
  the headers, one for the frame header and one for the frame.
- *Files to write*: three items are the least with a first, a middle and a last
  frame, or a box in any place among frames. A room of seven units ends inside
  the signature, inside frames and between boxes. Of the ways to be refused the
  instance has a JPEG and information above the level, information that cannot be
  written, and a call of `SetBasicInfo` that fails at the orientation, all of them
  before, between and after items and corrected again. The other places where
  `SetBasicInfo` fails and invalid profiles are in the module and in the theorems
  about it, but would make the instance too large. It has 1,673,226 states.
- *Profiles*: tables of 16 for eight symbols, words of five bits, windows of four
  values with checkpoints every three: matches reach as far as the window, the
  saved part wraps around, and copies are under way at checkpoints. 1481
  distributions are all that have frequencies 0, 1, 2 and 5 and use the symbols
  of the profile. `SanityInterval` of six values, two checkpoints, and `MaxExpansion`
  of one value per byte let one profile of 15 values fail the check after twelve
  of them and the others pass it. States have ten bits, so that every frequency meets the limits
  of the reciprocal.

### Fairness

`ThreadParallelRunner` and `ResizableParallelRunner` assume weak fairness of
each thread's own steps: the operating system schedules every runnable thread,
and tasks return. Nothing forces an application to call. `FrameDecoder` assumes
weak fairness of the steps inside a call, which follows from the runners, and
strong fairness of a call that brings new sections or all of them: an
application that still has input gives it to the decoder. Without the second
assumption no frame ends, since the decoder only acts when it is called.
`BoxReader` assumes only that a thread inside a call goes on (`HandleBoxes`).
`JxlEncoder!FairSpec` assumes in addition that an application calls
`ProcessOutput` again and again, as it must to get its file. `IccReader` has no
liveness property: `NeverStarved` and the absence of deadlock say the same.

## What is proved

TLAPS checks these for every value of the constants, from the named assumptions
of the modules (sizes are positive, ranges are pairs of numbers of the code's
width, an image ends with a displayed frame, a frame's size fits its grid of
groups, a file is a sequence of boxes of which only the last can be without an
end). Nothing is assumed about how many threads, groups, sections, frames, boxes
or items there are, nor about the pieces in which input and output are given.

| Module | Theorem | States |
|---|---|---|
| `ThreadParallelRunner_proof` | `InductiveInvariant`, `TypeCorrect` | `IInv`, `TypeOK` |
| | `WorkersAreReady`, `OneDriverAtATime`, `NoTaskOutlivesItsCall` | `WorkersReadyBetweenRuns`, `OneDriver`, `NoTaskAfterReturn` |
| | `ChunksPartitionTheRange` | `RunInv`: chunks are disjoint and reservations do not wrap |
| | `Refinement` | `RefinesParallelRun` |
| `ResizableParallelRunner_proof` | `PoolInvariant`, `TypeCorrect` | `IInv`, `TypeOK` |
| | `RunningThreadsCounted`, `PoolIsDesiredSize` | `RunningCount`, `PoolHasDesiredSize` |
| | `RangeInvariant` | `RInv`: `next_task_` does not wrap |
| | `Refinement` | `RefinesParallelRun` |
| `GroupBorderAssigner_proof` | `TypeCorrect` | `TypeOK` |
| | `BordersHandledOnce`, `GroupsReportOnce` | `HandledOnce`, `ReportsOnce` |
| | `RectanglesAreDisjoint`, `BordersAreNotTorn`, `NothingLostBetweenGroups` | `PixelsRenderedOnce`, `NoTornBorder`, `FreshAfterRun` |
| `FrameDecoder_proof` | `DecoderInvariant`, `TypeCorrect` | `IInv`, `TypeOK` |
| | `PartsDecodedOnce`, `PartsInOrder`, `ProcessedIsExact`, `FinalizedFrames` | `DecodedOnceInOrder`, `DependenciesMet`, `ProcessedAreDecoded`, `FinalizedIsComplete` |
| | `CachesArePrivate`, `PipelineIsPrepared` | `StoragePrivate`, `DrawsHavePipeline` |
| `FrameSkipping_proof` | `SkippingInvariant`, `TypeCorrect` | `IInv`, `TypeOK` |
| | `TablesAreTrue`, `ShownFramesIntact`, `SkipsExactlyWhatWasAsked` | `TablesTrue`, `ShownIntact`, `SkipsWhatWasAsked` |
| `BoxReader_proof` | `ReadsWhereItStands`, `ContentsFollowInput` | `PInv`, `PInv /\ DInv` |
| | `CodestreamInOrderAlways`, `MetadataCompleteAlways`, `BoxOutputCompleteAlways` | `CodestreamInOrder`, `MetadataComplete`, `BoxOutputComplete` |
| | `AllEventsReturnedAlways`, `NoSpuriousErrorAlways` | `AllEventsReturned`, `NoSpuriousError` |
| `JxlEncoder_proof` | `EncoderInvariant`, `QueueKeepsOrder` | `EInv`, `QueuedInOrder` |

**ThreadParallelRunner.** `NoTaskAfterReturn` and `WorkersReadyBetweenRuns` are
not inductive by themselves: whether the barrier may open depends on how many
workers have reported, which depends on which command they obey and who drives.
`IInv` adds what every caller has published at each point (`CallerInv`), that
one caller drives and what `depth_` says about it (`DriverInv`), where the
workers are at each point of the driver and that `workers_ready_` counts those
that reported (`WorkerInv`), and that a worker at work has a proper range
(`RangeInv`). `NoTaskOutlivesItsCall` needs in addition that `jpegxl_opaque_` is
the closure of the driver (`OpaqueInv`). `RunInv` is about the guided schedule:
a chunk is at most `Largest(r)` tasks long whatever value of `num_reserved_` it
was sized from, the chunks under way are disjoint, and `num_reserved_` passes the
end of the range by at most one chunk and one more of each worker that is
through. The last part needs room above the range, `RangesLeaveRoom`: with less
of it the additions of `RunRange` would wrap around modulo 2^32 and tasks could
run twice. The ranges in libjxl count groups, rows and threads and leave that
room by far; so do the ranges of the runs. `Refinement` follows step by step:
`LoadReserved`, the barrier and the steps of other callers leave what the creator
sees unchanged, `ReserveChunk` keeps the set of tasks yet to begin, and each
beginning, end, `init` and return is the step of `ParallelRun` of that name. All
of this is about `Spec`, without spurious wake-ups of workers (finding 1).

**ResizableParallelRunner.** `IInv` joins `RunningCount` with who may be
dequeuing at each point of the owner (`DequeueInv`) and which threads exist and
were told to quit (`PoolInv`). The refinement needs in addition that the range,
the number told to `init()` and the number of helpers belong together
(`RangeInv`) and that each thread moves `next_task_` past the end at most once
(`OvershootInv`), which asks for room of one number per thread
(`RangesLeaveRoom` of that module). Spurious wake-ups are included.

**GroupBorderAssigner.** All but `TypeCorrect` are under
`~(FullImage /\ RepeatedFlush)`, which excludes exactly the repeated flush
described under "Known divergences". The inductive invariant `BInv` says that a
group under way has not marked the corners ahead of it, that what a group has
seen at a corner stays there, that of two groups at a corner only the later has
seen the other, and that groups about to be flushed are unmarked. For the pixels
the proof cuts the frame into parts (insides of groups, edges, corners), shows
that the parts tile the frame for every size, group size and padding, that a
group renders whole parts, namely those that `GroupDone` gives it, and that the
pixels which depend on a group are the parts it touches. `FreshAfterRun` needs
one more invariant, `StaleWaits`: a part with a stale pixel waits for a group
around it that has not reported, or for an assignee that has seen all of them
and is yet to render.

**FrameDecoder.** None of the properties is inductive. `IInv` relates the flags
of the class, the statuses of the current call, `processed_section_`, the tasks
of the pool and the history `decodes`: `CountsInv` (the history is what the
flags say), `BetweenInv` and `CallInv` (a section is decoded completely or not at
all, and where that is recorded, between calls and during one), `SingleInv` (a
frame of one section, which is marked before its parts are decoded),
`ReturnedInv`, `TasksInv`, `StorageInv`, `OrderInv`, `FinalInv`. The numbering of
the sections in `toc.h` is shown to be one to one.

**FrameSkipping.** For `ShownIntact` it is not enough to look at the frames in
the slots. The invariant `NeedInv` says that there is a set of frames with all
that are yet to be displayed and, of each of its frames yet to be decoded, the
frames it reads; that the slots hold intact what they hold of it; and that none
of it is skipped. Each request to skip intersects the set with what
`GetFrameDependencies` returns, which the proof shows to be closed under
references, by induction on the frames. `SkipsExactlyWhatWasAsked` has an
invariant of its own on the requests that are not yet fulfilled (`AskedInv`).

**BoxReader.** The theorems hold for every file that is a sequence of boxes
(`IsFile`), proper or not; only `NoSpuriousError` asks for `WellFormed`. The
sizes at which the parts of the codestream are complete may be any that
increase, with at least one unit of frame after the headers
(`SizesAssumption`). Four layers of invariants rest on each other:

- `PInv`, where the decoder stands. The input is what was sent and not consumed
  (`InputInv`); the fields of the current box are those of the file and
  `file_pos` lies in it (`HeaderInv`); each stage stands in a box of its type
  (`StageInv`); the buffer of the `jbrd` decoder is its box up to `file_pos`
  (`JpegInv`); `codestream_copy` is the codestream of the boxes before and of
  this one up to `file_pos` (`CopyInv`), from which `CodestreamInOrder` follows.
- `DInv`, what was written. Each of the two content decoders has written, or
  holds in Brotli, exactly the `Text` of the box up to its own position
  (`Reads`), which is never behind `file_pos`; after its turn it has caught up
  with the input or with the end of the box (`Done`). So when the next header is
  read, the application has the box (`OutputInv`) and the metadata is stored
  (`StoredInv`). `ReconInv` says that a JPEG under way has all that its `jbrd`
  box expects.
- `EInv`, what was returned. Which events are still wanted tells which were
  returned or are about to be (`OnceInv`, `FrameInv`, `ImageInv`); a JPEG is
  written before the loop goes on or waits for boxes (`WaitingInv`); success
  comes with the end of the codestream and, if boxes are wanted, of the file
  (`DoneInv`).
- `SInv`, why an error means that the file is not proper or cut. The end of the
  codestream was seen in a box that ends it (`LastInv`); a `jbrd` box was read
  at most once, and the sizes expected are its own (`JbrdInv`); outside of
  codestream boxes there is not yet enough of the codestream for the next step,
  and a copy once begun has taken all the input (`ShortInv`); metadata in a box
  without an end is stored until there is as much as expected (`MetaInv`). Then
  each step that can return an error is taken in turn: a wait with the input
  closed stands before the end of a box that is in the file, hence the input is
  short; a wait at the end of the boxes has the whole codestream and the first
  Exif and XMP boxes behind it, hence does not occur; the rejections of
  `ReadBoxHeader`, `ReadFtyp`, `ReadPartialCodestream` and the `jbrd` decoder
  contradict `WellFormed`.

The lemmas underneath are about offsets of boxes (`EndsMonotonic`,
`EndsIncrease`), runs of offsets, `FlattenSeq` and Brotli's `Inflate`, each by
induction on a length. All of it is about `Spec`, without `Reset` (finding 3).

**JxlEncoder.** `EInv`: the items in the queue carry the numbers after those that
were taken from it, and the items in what was written or waits to be copied are
among those taken, in order, and all of them unless one failed. Everything that
`RefillOutputByteQueue` writes is cut into pieces that hold no item or just one.

**Induction.** The library's induction theorems have an operator as a parameter,
which the provers cannot instantiate. `NaturalInduction` states induction for a
set, from the well-foundedness of `<`.

Only model-checked:
- all liveness, which is out of this prover's reach: `EveryCallReturns`,
  `EverythingWritten`, and that a frame ends;
- `FileComplete`, `AliasTablesExact` and the other properties of `IccReader`, which rest
  on what a recursive function or a fold computes for every input.

## Plan

1. Done: runners, group borders, frame decoder, frame loop, boxes and JPEG
   reconstruction, encoder, entropy coding of profiles, and the proofs above.
2. Left for later: padding, shifts and border sizes of `LowMemoryRenderPipeline`,
   which `GroupBorderAssigner` takes as constants; the Lehmer code of `toc.cc`;
   `FrameDecoder` composed with `GroupBorderAssigner`, so that the condition on
   repeated flushes is derived and not a constant.

## Not modelled

Fields and headers, modular and VarDCT coding, the choice of histograms and of
LZ77 matches, splines, noise, colour management and the structure of ICC
profiles, the JPEG codec, quality metrics: arithmetic without state between
calls, of which TLC could only check toy instances. The SIMD kernels of the
render pipeline, `SimpleRenderPipeline` and padding outside of the image. The
tools, plugins, examples, profiler and file codecs, which are input and output
around the library. They are most of the repository's lines, so that the
modelled code is a small share of them; it is nearly all of the code that keeps
state between calls or between threads. Memory order weaker than sequential
consistency: `fetch_or` and `fetch_add` are single steps, and the runners'
other shared fields are guarded by a mutex or written before it is taken.
