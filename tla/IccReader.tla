----------------------------- MODULE IccReader -----------------------------
(***************************************************************************)
(* ICC profiles in a codestream: WriteTokens() of enc_ans.cc writes one as *)
(* literals and LZ77 matches, and ICCReader (icc_codec.cc) reads it with   *)
(* an ANSSymbolReader (dec_ans.h) while the codestream comes in pieces.     *)
(* Reading runs past the end, where bits are zero, and on noticing it goes *)
(* back to a checkpoint, to continue there when there is more input.       *)
(*                                                                         *)
(* The profile is what PredictICC() made of it, as a sequence of numbers.  *)
(* Its size and the histograms are HeaderBits bits that are all that a     *)
(* truncated header can be told from (in the code, by what it makes of the *)
(* zeros that follow: see README.md).                                       *)
(***************************************************************************)
EXTENDS AnsCoding

CONSTANTS
  Sessions,       \* profiles, with their codes, that are read one after the other
  kMaxCheckpointInterval, kWindowSize, kPreambleSize,
  HeaderBits, BitsPerByte,
  SanityInterval, \* 0x10000: how often Process() looks at how dense the stream is
  MaxExpansion,   \* 256: the values that a byte may stand for
  Chunks,         \* bytes that come at a time
  IccHeaderSize,  \* kICCHeaderSize: the values in one context
  MinLength,      \* lz77.min_length
  MinSymbol       \* lz77.min_symbol

ASSUME IccAssumption ==
  /\ 0 < kMaxCheckpointInterval /\ kMaxCheckpointInterval <= kWindowSize
  /\ 2 <= kPreambleSize /\ 0 < HeaderBits /\ 0 < MinLength
  /\ 0 < SanityInterval /\ SanityInterval % kMaxCheckpointInterval = 0

VARIABLES
  files,                     \* the codestream that is read, and what is read later
  avail,                     \* how many bits of it came
  pos,                       \* the BitReader's position in the current call
  bits_to_skip, i, decompressed,                   \* ICCReader
  state, num_to_copy, copy_pos, num_decoded, window,   \* ANSSymbolReader
  checkpoint,                \* Checkpoint and saved_i
  pc

reader == <<state, num_to_copy, copy_pos, num_decoded, window>>
vars == <<files, avail, pos, bits_to_skip, i, decompressed, reader, checkpoint, pc>>

-----------------------------------------------------------------------------
(* What is written.                                                         *)

Byte(value) == value % 8

\* ICCANSContext(), with two kinds of bytes, and the context map.
Context(at, b1, b2) == IF at <= IccHeaderSize THEN 0 ELSE (b1 + b2) % 2
DistanceContext == 2
ContextAt(values, at) ==
  Context(at, IF at > 0 THEN values[at] ELSE 0, IF at > 1 THEN values[at - 1] ELSE 0)

Configs == <<HybridUintConfig(1, 0, 1), HybridUintConfig(1, 1, 0), HybridUintConfig(0, 0, 0)>>
ConfigOf(context) == Configs[context + 1]
LengthConfig == HybridUintConfig(0, 0, 0)

\* ApplyLZ77() finds matches as its cost model has it: here, any parse. A match
\* takes length values from distance values back, and may overlap what it makes.
Literal(value) == [value |-> value, length |-> 0, distance |-> 0]
Match(length, distance) == [value |-> 0, length |-> length, distance |-> distance]
Extend(values, item) ==
  values \o (IF item.length = 0 THEN <<item.value>>
             ELSE [k \in 1..item.length |->
                     values[Len(values) - item.distance + 1 + ((k - 1) % item.distance)]])
Values(parse) == FoldLeft(Extend, <<>>, parse)

\* The Token objects of a profile: the symbol and the bits that follow it.
Token(context, encoded, offset) ==
  [context |-> context, symbol |-> encoded.token + offset, bits |-> encoded.bits]
Tokens(parse) ==
  FlattenSeq([k \in DOMAIN parse |->
    LET before == Values(SubSeq(parse, 1, k - 1))
        context == ContextAt(before, Len(before))
        item == parse[k]
    IN  IF item.length = 0
        THEN <<Token(context, Encode(ConfigOf(context), item.value), 0)>>
        ELSE <<Token(context, Encode(LengthConfig, item.length - MinLength), MinSymbol),
               Token(DistanceContext, Encode(ConfigOf(DistanceContext), item.distance - 1), 0)>>])

\* WriteTokens(). A prefix code is one of words of equal length here; with ANS
\* the last token is put first and the state is written at the front.
PrefixWord(symbol) == ToBits(symbol, LogAlphaSize)
PutToken(infos, token, written) ==
  LET put == PutSymbol(written.state, infos[token.context + 1][token.symbol])
  IN  [state |-> put.state, bits |-> put.bits \o token.bits \o written.bits]
WriteTokens(tokens, use_prefix_code, infos) ==
  LET written == FoldRight(LAMBDA token, w : PutToken(infos, token, w), tokens,
                           [state |-> InitialState, bits |-> <<>>])
  IN  IF use_prefix_code
      THEN FlattenSeq([k \in DOMAIN tokens |-> PrefixWord(tokens[k].symbol) \o tokens[k].bits])
      ELSE ToBits(written.state, 2 * WordBits) \o written.bits

\* The bits that a profile's first n values take: those that are not left for
\* the items behind the last one that has to be read for them.
ItemsFor(parse, n) ==
  Min({m \in DOMAIN parse : Len(Values(SubSeq(parse, 1, m))) >= n})
TokensBehind(parse, n) ==
  SubSeq(Tokens(parse), 1 + Len(Tokens(SubSeq(parse, 1, ItemsFor(parse, n)))), Len(Tokens(parse)))
BitsLeft(s, infos, n) ==
  Len(WriteTokens(TokensBehind(s.parse, n), s.use_prefix_code, infos))
    - (IF s.use_prefix_code THEN 0 ELSE 2 * WordBits)

\* Some beginning of a profile is written in fewer bits than Process() allows.
TooDense(s, infos, stream) ==
  \E n \in 1..Len(Values(s.parse)) - 1 :
    /\ n % SanityInterval = 0
    /\ n * BitsPerByte > MaxExpansion * (Len(stream) - BitsLeft(s, infos, n))

\* A codestream: the profile, and what it is written with and as.
WrittenWith(s, tables, infos, stream) ==
  [profile |-> Values(s.parse), use_prefix_code |-> s.use_prefix_code,
   histograms |-> s.histograms, alias_tables |-> tables, stream |-> stream,
   too_dense |-> TooDense(s, infos, stream)]
WriteWith(s, tables, infos) ==
  WrittenWith(s, tables, infos,
              ToBits(0, HeaderBits) \o WriteTokens(Tokens(s.parse), s.use_prefix_code, infos))
WithTables(s, tables) ==
  WriteWith(s, tables, <<EncodingInfo(s.histograms[1], tables[1]),
                         EncodingInfo(s.histograms[2], tables[2]),
                         EncodingInfo(s.histograms[3], tables[3])>>)
Written(s) ==
  WithTables(s, <<InitAliasTable(s.histograms[1]), InitAliasTable(s.histograms[2]),
                  InitAliasTable(s.histograms[3])>>)

file == Head(files)
enc_size == Len(file.profile)

\* All of the stream, in bytes.
EndOfInput ==
  BitsPerByte * ((Len(file.stream) + BitsPerByte - 1) \div BitsPerByte)

-----------------------------------------------------------------------------
(* ANSSymbolReader                                                          *)

\* BitReader: past the end there are zeros, and so is the padding.
Peek(at, n) ==
  FromBits([k \in 1..n |-> IF at + k <= Min({avail, Len(file.stream)})
                           THEN file.stream[at + k] ELSE 0])
AllReadsWithinBounds_Strict == pos < avail                          \* faulty
AllReadsWithinBounds == pos <= avail

\* The fields of an ANSSymbolReader and the position it reads from.
Current == [state |-> state, num_to_copy |-> num_to_copy, copy_pos |-> copy_pos,
            num_decoded |-> num_decoded, window |-> window, pos |-> pos]

TakeANS(r, ans) ==
  [value |-> ans.value, r |-> [r EXCEPT !.state = ans.state, !.pos = r.pos + ans.nbits]]
ReadSymbol(r, context) ==
  IF file.use_prefix_code
  THEN [value |-> Peek(r.pos, LogAlphaSize), r |-> [r EXCEPT !.pos = r.pos + LogAlphaSize]]
  ELSE TakeANS(r, ReadSymbolANS(file.alias_tables[context + 1], r.state, Peek(r.pos, WordBits)))

\* The number for a token, and the position behind its bits.
ReadHybridUintConfig(r, config, token) ==
  [value |-> Decode(config, token, Peek(r.pos, ExtraBits(config, token))),
   r |-> [r EXCEPT !.pos = r.pos + ExtraBits(config, token)]]

Remember(value, r) ==
  [value |-> value,
   r |-> [r EXCEPT !.window[r.num_decoded % kWindowSize] = value,
                   !.num_decoded = r.num_decoded + 1]]
CopyValue(r) ==
  Remember(r.window[r.copy_pos % kWindowSize],
           [r EXCEPT !.copy_pos = r.copy_pos + 1, !.num_to_copy = r.num_to_copy - 1])

\* Without anything to copy from, zeros are copied.
StartCopy(length, distance, r) ==
  [r EXCEPT !.num_to_copy = length, !.copy_pos = r.num_decoded - distance,
            !.window = IF distance > 0 THEN @
                       ELSE [k \in DOMAIN @ |-> IF k < length THEN 0 ELSE @[k]]]

\* The distance follows the length.
TakeDistance(length, read) ==
  StartCopy(length, Min({read.value + 1, read.r.num_decoded, kWindowSize}), read.r)
ReadDistance(length, symbol) ==
  TakeDistance(length, ReadHybridUintConfig(symbol.r, ConfigOf(DistanceContext), symbol.value))
TakeLength(read) ==
  CopyValue(ReadDistance(read.value + MinLength, ReadSymbol(read.r, DistanceContext)))

\* ReadHybridUintClustered()
TakeLiteral(read) == Remember(read.value, read.r)
TakeToken(symbol, context) ==
  IF symbol.value >= MinSymbol
  THEN TakeLength(ReadHybridUintConfig(symbol.r, LengthConfig, symbol.value - MinSymbol))
  ELSE TakeLiteral(ReadHybridUintConfig(symbol.r, ConfigOf(context), symbol.value))
ReadHybridUint(r, context) ==
  IF r.num_to_copy > 0 THEN CopyValue(r) ELSE TakeToken(ReadSymbol(r, context), context)

\* Save() and Restore(): of the window, only what may be overwritten before
\* the next checkpoint.
Overwritten(n) == {(n + k) % kWindowSize : k \in 0..kMaxCheckpointInterval - 1}
Save(r, at) ==
  [state |-> r.state, num_to_copy |-> r.num_to_copy, copy_pos |-> r.copy_pos,
   num_decoded |-> r.num_decoded,
   window |-> [k \in Overwritten(r.num_decoded) |-> r.window[k]], i |-> at]

RestoreWindow_Kept == window                                        \* faulty
RestoreWindow ==
  [k \in DOMAIN window |-> IF k \in Overwritten(checkpoint.num_decoded)
                           THEN checkpoint.window[k] ELSE window[k]]
Restore ==
  /\ state' = checkpoint.state /\ num_decoded' = checkpoint.num_decoded
  /\ num_to_copy' = checkpoint.num_to_copy /\ copy_pos' = checkpoint.copy_pos
  /\ window' = RestoreWindow
  /\ i' = checkpoint.i

-----------------------------------------------------------------------------
(* ICCReader                                                                *)

\* decompressed_[i_++] = ans_reader_.ReadHybridUint()
TakeValue(read) ==
  /\ decompressed' = [decompressed EXCEPT ![i + 1] = Byte(read.value)]
  /\ i' = i + 1
  /\ state' = read.r.state /\ num_to_copy' = read.r.num_to_copy
  /\ copy_pos' = read.r.copy_pos /\ num_decoded' = read.r.num_decoded
  /\ window' = read.r.window /\ pos' = read.r.pos
ReadValue == TakeValue(ReadHybridUint(Current, ContextAt(decompressed, i)))

\* Init(), for the first time: the header, and the reader that is made with
\* the state that follows. The window it allocates is not initialized.
InitHeader ==
  /\ pc = "Idle" /\ bits_to_skip = 0
  /\ IF avail < HeaderBits THEN UNCHANGED <<pc, pos, i, decompressed, reader>>
     ELSE /\ pc' = "Preamble" /\ i' = 0
          /\ decompressed' = [k \in 1..enc_size |-> 0]
          /\ IF file.use_prefix_code
             THEN state' = InitialState /\ pos' = HeaderBits
             ELSE /\ state' = Peek(HeaderBits, 2 * WordBits)
                  /\ pos' = HeaderBits + 2 * WordBits
          /\ num_to_copy' = 0 /\ copy_pos' = 0 /\ num_decoded' = 0
          /\ \E fill \in 0..1 : window' = [k \in 0..kWindowSize - 1 |-> fill]
  /\ UNCHANGED <<files, avail, bits_to_skip, checkpoint>>

ReadPreamble ==
  /\ pc = "Preamble" /\ i < kPreambleSize
  /\ ReadValue
  /\ UNCHANGED <<files, avail, bits_to_skip, checkpoint, pc>>

\* What Process() begins with.
BeginProcess ==
  /\ bits_to_skip' = pos' /\ checkpoint' = Save(Current, i) /\ pc' = "Process"
  /\ UNCHANGED <<files, avail, i, decompressed, reader>>

\* The values of the preamble were read, possibly past the end.
EndPreamble ==
  /\ pc = "Preamble" /\ i = kPreambleSize
  /\ UNCHANGED pos
  /\ \/ AllReadsWithinBounds /\ BeginProcess
     \/ /\ ~AllReadsWithinBounds
        /\ pc' = "Idle"
        /\ UNCHANGED <<files, avail, bits_to_skip, i, decompressed, reader, checkpoint>>

\* Init(), later.
InitAgain ==
  /\ pc = "Idle" /\ bits_to_skip > 0
  /\ pos' = bits_to_skip
  /\ BeginProcess

\* Whether a value is the first after a checkpoint.
CheckpointDue == i % kMaxCheckpointInterval = 0

\* After SanityInterval values, and again, so few bits were used that Process()
\* gives up: "Corrupted stream".
Implausible ==
  /\ i > 0 /\ i % SanityInterval = 0
  /\ i * BitsPerByte > MaxExpansion * pos

\* check_and_restore(), when bits were missing.
GoBack ==
  /\ Restore /\ pc' = "Idle"
  /\ UNCHANGED <<files, avail, pos, bits_to_skip, decompressed, checkpoint>>

Process ==
  /\ pc = "Process"
  /\ \/ /\ i < enc_size /\ ~CheckpointDue
        /\ ReadValue
        /\ UNCHANGED <<files, avail, bits_to_skip, checkpoint, pc>>
     \/ /\ i < enc_size /\ CheckpointDue /\ AllReadsWithinBounds
        /\ checkpoint' = Save(Current, i) /\ bits_to_skip' = pos
        /\ \/ ~Implausible /\ ReadValue /\ UNCHANGED pc
           \/ /\ Implausible /\ pc' = "Corrupted"
              /\ UNCHANGED <<pos, i, decompressed, reader>>
        /\ UNCHANGED <<files, avail>>
     \/ (i = enc_size \/ CheckpointDue) /\ ~AllReadsWithinBounds /\ GoBack
     \/ /\ i = enc_size /\ AllReadsWithinBounds
        /\ bits_to_skip' = pos
        /\ pc' = IF state = InitialState THEN "Done" ELSE "Corrupted"
        /\ UNCHANGED <<files, avail, pos, i, decompressed, reader, checkpoint>>

-----------------------------------------------------------------------------
(* The decoder around it.                                                   *)

\* More of the codestream comes between two calls.
Supply ==
  /\ pc = "Idle" /\ avail < EndOfInput
  /\ \E n \in Chunks : avail' = Min({avail + n * BitsPerByte, EndOfInput})
  /\ UNCHANGED <<files, pos, bits_to_skip, i, decompressed, reader, checkpoint, pc>>

\* Rewinding or resetting the decoder: ICCReader::Reset(). The same codestream
\* or another one is read from its start.
Reset_Resumes ==                                                    \* faulty
  /\ pc \in {"Idle", "Done", "Corrupted"} /\ Len(files) > 1
  /\ files' = Tail(files) /\ avail' = 0 /\ pc' = "Idle"
  /\ decompressed' = [k \in 1..Len(files[2].profile) |-> 0]
  /\ UNCHANGED <<pos, bits_to_skip, i, reader, checkpoint>>
Reset ==
  /\ pc \in {"Idle", "Done", "Corrupted"} /\ Len(files) > 1
  /\ files' = Tail(files) /\ avail' = 0 /\ pc' = "Idle"
  /\ bits_to_skip' = 0 /\ decompressed' = <<>>
  /\ UNCHANGED <<pos, i, reader, checkpoint>>

Init ==
  /\ \E s \in Sessions : files = [k \in DOMAIN s |-> Written(s[k])]
  /\ avail = 0 /\ pos = 0 /\ bits_to_skip = 0 /\ i = 0 /\ decompressed = <<>>
  /\ state = InitialState /\ num_to_copy = 0 /\ copy_pos = 0 /\ num_decoded = 0
  /\ window = [k \in 0..kWindowSize - 1 |-> 0]
  /\ checkpoint = [i |-> 0] /\ pc = "Idle"

Read == InitHeader \/ ReadPreamble \/ EndPreamble \/ InitAgain \/ Process
\* All profiles are read, or found corrupted.
Stop == pc \in {"Done", "Corrupted"} /\ Len(files) = 1 /\ UNCHANGED vars

Next == Read \/ Supply \/ Reset \/ Stop
Spec == Init /\ [][Next]_vars

-----------------------------------------------------------------------------
\* The tables that the profile is written and read with are what ans_common.h
\* promises.
AliasTablesExact ==
  pc = "Idle" /\ avail = 0 =>
    \A k \in DOMAIN file.histograms : ExactFor(file.alias_tables[k], file.histograms[k])

\* Whatever was read beyond the end and however often, what the reader keeps
\* between two calls is a true beginning of the profile, and at the end all of
\* it.
ProfileIntact ==
  /\ pc = "Idle" /\ bits_to_skip > 0 =>
       \A k \in 1..i : decompressed[k] = file.profile[k]
  /\ pc = "Done" => decompressed = file.profile

\* A profile that was written properly is read, however it comes, unless some
\* beginning of it takes so few bits that Process() holds it to be corrupted;
\* then it is never read, however it comes. WriteICC() has no such limit, so that
\* what it writes of a profile that compresses well cannot be read.
RejectedIfTooDense ==
  /\ pc = "Corrupted" => file.too_dense
  /\ pc = "Done" => ~file.too_dense

\* With all of the codestream there, the reader never asks for more of it: it
\* waits for the last bit of the profile and for nothing beyond.
NeverStarved ==
  [][avail = EndOfInput /\ pc \in {"Preamble", "Process"} => pc' # "Idle"]_vars
=============================================================================
