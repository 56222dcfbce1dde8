----------------------------- MODULE AnsCoding -----------------------------
(***************************************************************************)
(* The entropy coding of lib/jxl: alias tables (ans_common.cc), the ANS    *)
(* coder and the table it writes with (enc_ans.cc), the step of the ANS    *)
(* decoder and hybrid integers (dec_ans.h). The widths are parameters; the *)
(* code has ANS_LOG_TAB_SIZE = 12, words of 16 bits and states of 32.      *)
(***************************************************************************)
EXTENDS Integers, Sequences, FiniteSetsExt, SequencesExt

CONSTANTS
  ANS_LOG_TAB_SIZE,
  WordBits,         \* bits that are moved between a state and the stream
  ANS_SIGNATURE,
  LogAlphaSize      \* log_alpha_size: logarithm of the size of alias tables

ASSUME AnsAssumption ==
  /\ {ANS_LOG_TAB_SIZE, WordBits, LogAlphaSize} \subseteq Nat
  /\ LogAlphaSize <= ANS_LOG_TAB_SIZE /\ ANS_LOG_TAB_SIZE <= WordBits
  /\ ANS_SIGNATURE \in 1..2^WordBits - 1

ANS_TAB_SIZE == 2^ANS_LOG_TAB_SIZE
EntrySize == 2^(ANS_LOG_TAB_SIZE - LogAlphaSize)
Symbols == 0..2^LogAlphaSize - 1
InitialState == ANS_SIGNATURE * 2^WordBits

\* A number without its low bits, and these bits.
Shift(value, n) == value \div 2^n
Mask(value, n) == value % 2^n

\* Numbers as bits, the lowest first.
ToBits(value, n) == [k \in 1..n |-> Mask(Shift(value, k - 1), 1)]
FromBits(bits) == SumSet({bits[k] * 2^(k-1) : k \in DOMAIN bits})

Log2Floor(value) == Max({n \in 0..value : 2^n <= value})

-----------------------------------------------------------------------------
(* Alias tables.                                                            *)

\* Symbols that do not occur in a distribution have frequency 0. One in which
\* none does stands for symbol 0.
Frequencies(distribution) ==
  IF \A s \in Symbols : distribution[s] = 0
  THEN [distribution EXCEPT ![0] = ANS_TAB_SIZE] ELSE distribution

\* One turn of the loop that fills the entry on top of the one stack from the
\* entry on top of the other.
Reassign_OldOffset(t) ==                                            \* faulty
  IF t.overfull = <<>> THEN t ELSE
  LET over == Last(t.overfull)
      under == Last(t.underfull)
      left == t.cutoffs[over] - (EntrySize - t.cutoffs[under])
  IN  [cutoffs |-> [t.cutoffs EXCEPT ![over] = left],
       right_value |-> [t.right_value EXCEPT ![under] = over],
       offsets1 |-> [t.offsets1 EXCEPT ![under] = t.cutoffs[over]],
       overfull |-> IF left > EntrySize THEN t.overfull ELSE Front(t.overfull),
       underfull |-> IF left < EntrySize THEN Append(Front(t.underfull), over)
                     ELSE Front(t.underfull)]

Reassign(t) ==
  IF t.overfull = <<>> THEN t ELSE
  LET over == Last(t.overfull)
      under == Last(t.underfull)
      left == t.cutoffs[over] - (EntrySize - t.cutoffs[under])
  IN  [cutoffs |-> [t.cutoffs EXCEPT ![over] = left],
       right_value |-> [t.right_value EXCEPT ![under] = over],
       offsets1 |-> [t.offsets1 EXCEPT ![under] = left],
       overfull |-> IF left > EntrySize THEN t.overfull ELSE Front(t.overfull),
       underfull |-> IF left < EntrySize THEN Append(Front(t.underfull), over)
                     ELSE Front(t.underfull)]

\* Every turn fills one entry for good.
Reassigned(freq) ==
  LET ascending == [k \in 1..Cardinality(Symbols) |-> k - 1]
  IN  FoldLeft(LAMBDA t, k : Reassign(t),
               [cutoffs |-> freq,
                right_value |-> [s \in Symbols |-> 0], offsets1 |-> [s \in Symbols |-> 0],
                overfull |-> SelectSeq(ascending, LAMBDA s : freq[s] > EntrySize),
                underfull |-> SelectSeq(ascending, LAMBDA s : freq[s] < EntrySize)],
               ascending)

\* A distribution with one symbol does not change the state.
SingleSymbolTable(sym) ==
  [i \in Symbols |-> [cutoff |-> 0, right_value |-> sym, offsets1 |-> EntrySize * i,
                      freq0 |-> 0, freq1 |-> ANS_TAB_SIZE]]

\* The entries, from what the loop left.
Entry(i, freq, t) ==
  IF t.cutoffs[i] = EntrySize
  THEN [cutoff |-> 0, right_value |-> i, offsets1 |-> 0, freq0 |-> freq[i], freq1 |-> freq[i]]
  ELSE [cutoff |-> t.cutoffs[i], right_value |-> t.right_value[i],
        offsets1 |-> t.offsets1[i] - t.cutoffs[i],
        freq0 |-> freq[i], freq1 |-> freq[t.right_value[i]]]
Entries(freq, t) == [i \in Symbols |-> Entry(i, freq, t)]

TableFor(freq) ==
  IF \E s \in Symbols : freq[s] = ANS_TAB_SIZE
  THEN SingleSymbolTable(CHOOSE s \in Symbols : freq[s] = ANS_TAB_SIZE)
  ELSE Entries(freq, Reassigned(freq))
InitAliasTable(distribution) == TableFor(Frequencies(distribution))

\* AliasTable::Lookup()
Side(entry, i, pos) ==
  IF pos >= entry.cutoff
  THEN [value |-> entry.right_value, offset |-> entry.offsets1 + pos, freq |-> entry.freq1]
  ELSE [value |-> i, offset |-> pos, freq |-> entry.freq0]
Lookup(table, value) ==
  Side(table[value \div EntrySize], value \div EntrySize, value % EntrySize)

\* What ans_common.h promises of a table: each symbol occurs as often as the
\* distribution says, and a lookup tells its occurrences apart by numbers from
\* 0 on.
ExactFor(table, distribution) ==
  \A s \in Symbols :
    LET found == {value \in 0..ANS_TAB_SIZE - 1 : Lookup(table, value).value = s}
    IN  /\ Cardinality(found) = Frequencies(distribution)[s]
        /\ {Lookup(table, value).offset : value \in found}
             = 0..Frequencies(distribution)[s] - 1
        /\ \A value \in found : Lookup(table, value).freq = Frequencies(distribution)[s]

-----------------------------------------------------------------------------
(* ANS.                                                                     *)

Precision == 2 * WordBits + ANS_LOG_TAB_SIZE    \* RECIPROCAL_PRECISION

\* ANSBuildInfoTable(): of equal lookups the last one is kept.
Reciprocal(freq) == (2^Precision + freq - 1) \div freq
EncodingInfo(distribution, table) ==
  [s \in Symbols |->
    LET freq == Frequencies(distribution)[s]
        at(offset) == {i \in 0..ANS_TAB_SIZE - 1 : Lookup(table, i).value = s
                                                   /\ Lookup(table, i).offset = offset}
    IN  [freq |-> freq, ifreq |-> IF freq = 0 THEN 1 ELSE Reciprocal(freq),
         reverse_map |-> [offset \in 0..freq - 1 |->
                           IF at(offset) = {} THEN 0 ELSE Max(at(offset))]]]

\* ANSCoder::PutSymbol(). Division is multiplication with a reciprocal, in
\* twice the width of a state.
Quotient(state, t) == Shift(Mask(state * t.ifreq, 4 * WordBits), Precision)
Put(state, t) ==
  Quotient(state, t) * ANS_TAB_SIZE + t.reverse_map[state - Quotient(state, t) * t.freq]
PutSymbol(state, t) ==
  IF Shift(state, 2 * WordBits - ANS_LOG_TAB_SIZE) >= t.freq
  THEN [state |-> Put(Shift(state, WordBits), t), bits |-> ToBits(Mask(state, WordBits), WordBits)]
  ELSE [state |-> Put(state, t), bits |-> <<>>]

\* ANSSymbolReader::ReadSymbolANSWithoutRefill(); next is the next word.
Normalize(value, state, next) ==
  IF state < 2^WordBits
  THEN [value |-> value, nbits |-> WordBits, state |-> state * 2^WordBits + next]
  ELSE [value |-> value, nbits |-> 0, state |-> state]
TakeSymbol(symbol, state, next) ==
  Normalize(symbol.value, symbol.freq * Shift(state, ANS_LOG_TAB_SIZE) + symbol.offset, next)
ReadSymbolANS(table, state, next) ==
  TakeSymbol(Lookup(table, Mask(state, ANS_LOG_TAB_SIZE)), state, next)

-----------------------------------------------------------------------------
(* Hybrid integers: a token, and bits that are written as they are.         *)

HybridUintConfig(split_exponent, msb_in_token, lsb_in_token) ==
  [split_exponent |-> split_exponent, msb |-> msb_in_token, lsb |-> lsb_in_token]

\* HybridUintConfig::Encode()
Encode(c, value) ==
  LET n == Log2Floor(value)
      m == value - 2^n
      nbits == n - c.msb - c.lsb
  IN  IF value < 2^c.split_exponent THEN [token |-> value, bits |-> <<>>]
      ELSE [token |-> 2^c.split_exponent + (n - c.split_exponent) * 2^(c.msb + c.lsb)
                        + Shift(m, n - c.msb) * 2^c.lsb + Mask(m, c.lsb),
            bits |-> ToBits(Mask(Shift(value, c.lsb), nbits), nbits)]

\* ANSSymbolReader::ReadHybridUintConfig(): how many bits follow a token, and
\* the number they make.
ExtraBits(c, token) ==
  IF token < 2^c.split_exponent THEN 0
  ELSE Mask(c.split_exponent - (c.msb + c.lsb)
              + Shift(token - 2^c.split_exponent, c.msb + c.lsb), 5)
Decode(c, token, bits) ==
  IF token < 2^c.split_exponent THEN token
  ELSE ((2^c.msb + Mask(Shift(token, c.lsb), c.msb)) * 2^ExtraBits(c, token) + bits) * 2^c.lsb
         + Mask(token, c.lsb)
=============================================================================
