-------------------------- MODULE BoxReader_proof --------------------------
(***************************************************************************)
(* Proofs about BoxReader, for every set of files and settings and input   *)
(* and output in pieces of any size.                                       *)
(***************************************************************************)
EXTENDS BoxReader, NaturalInduction, SequenceTheorems, FiniteSetTheorems, TLAPS

Files == {s.file : s \in Sessions}
Final == {"SUCCESS", "ERROR", "ABORT"}
Live == pc # "Application" \/ status \notin Final

\* The box that is read: the only one of a bare codestream has no header.
Cur == IF file.container THEN box_count ELSE 1

\* The input is what was sent and is not consumed.
InputInv ==
  /\ file \in Files /\ sent \in 0..FileSize(file) /\ unread \in Nat
  /\ next_in \in Int /\ avail_in \in Nat /\ file_pos \in Nat
  /\ next_in = -1 => avail_in = 0 /\ file_pos + unread = sent
  /\ next_in # -1 => next_in = file_pos /\ file_pos + avail_in = sent /\ unread = 0
  /\ pc # "Application" => unread = 0

\* The fields of the current box are those of the file.
HeaderInv ==
  /\ pc # "Application" => got_signature
  /\ got_signature => have_container = file.container
  /\ ~got_signature => box_stage = "kHeader" /\ ~have_container /\ box_count = 0
  /\ box_count \in Nat /\ box \in [begin : Nat, end : Nat, size : Nat, unbounded : BOOLEAN]
  /\ ~file.container => /\ box_count = 0 /\ box.begin = 0 /\ box.end = 0 /\ box.size = 0
  /\ Live /\ box_stage = "kHeader" =>
       box_count \in 0..Len(file.boxes) /\ file_pos = Ends(file)[box_count]
  /\ Live /\ box_stage # "kHeader" =>
       /\ Cur \in 1..Len(file.boxes)
       /\ box.begin = Ends(file)[Cur] - file.boxes[Cur].size
       /\ box.unbounded = file.boxes[Cur].unbounded
       /\ ~box.unbounded => box.end = Ends(file)[Cur] /\ box.size = file.boxes[Cur].size
       /\ box.unbounded => box.end = 0 /\ box.size = 0
       /\ box.begin <= file_pos /\ file_pos <= Ends(file)[Cur]

\* Where the codestream begins in the current box.
CodestreamBegin == box.begin + (IF file.boxes[Cur].type = "jxlp" THEN 1 ELSE 0)

StageInv ==
  /\ box_stage \in {"kHeader", "kFtyp", "kSkip", "kCodestream", "kPartialCodestream", "kJpegRecon"}
  /\ pc \in {"Codestream", "CodestreamResult"} => box_stage = "kCodestream"
  /\ pc = "CodestreamResult" /\ result = "SUCCESS" => stage = "kCodestreamFinished"
  /\ Live =>
       /\ ~file.container => box_stage \in {"kHeader", "kCodestream", "kSkip"}
       /\ box_stage = "kFtyp" => file.boxes[Cur].type = "ftyp" /\ file_pos = box.begin
       /\ box_stage = "kPartialCodestream" =>
            file.boxes[Cur].type = "jxlp" /\ file_pos = box.begin
       /\ box_stage = "kCodestream" =>
            file.boxes[Cur].type \in {"jxlc", "jxlp", "none"} /\ CodestreamBegin <= file_pos
       /\ box_stage = "kJpegRecon" => file.boxes[Cur].type = "jbrd"
       /\ box_stage = "kSkip" => \/ stage = "kCodestreamFinished"
                                 \/ file.boxes[Cur].type \notin {"jxlc", "jxlp", "none"}

\* The jbrd box is collected from its beginning.
JpegInv ==
  /\ jpeg_decoder \in [inside_box : BOOLEAN, box_until_eof : BOOLEAN, box_size : Nat, buffer : Seq(Int),
                       jpeg_data : BOOLEAN, out : BOOLEAN, avail_size : Nat]
  /\ Live =>
    /\ jpeg_decoder.box_until_eof => box_count = Len(file.boxes)
    /\ jpeg_decoder.inside_box => box_stage = "kJpegRecon"
    /\ box_stage = "kJpegRecon" =>
         IF jpeg_decoder.inside_box
         THEN /\ jpeg_decoder.buffer = Run(box.begin, file_pos - box.begin)
              /\ jpeg_decoder.box_until_eof = box.unbounded
              /\ ~box.unbounded => jpeg_decoder.box_size = box.size
         ELSE file_pos = box.begin /\ ~jpeg_decoder.box_until_eof

\* The codestream of the first boxes of a file.
Pieces(f) == [i \in DOMAIN f.boxes |-> CodestreamIn(f, i)]
Before(f, i) == FlattenSeq(SubSeq(Pieces(f), 1, i))

\* codestream_copy is the codestream up to file_pos.
CopyInv ==
  Live /\ CanUseMoreCodestreamInput =>
    /\ box_stage = "kHeader" => codestream_copy = Before(file, box_count)
    /\ box_stage = "kCodestream" =>
         codestream_copy = Before(file, Cur - 1) \o Run(CodestreamBegin, file_pos - CodestreamBegin)
    /\ box_stage \notin {"kHeader", "kCodestream"} =>
         codestream_copy = Before(file, Cur - 1)

PInv == InputInv /\ HeaderInv /\ StageInv /\ JpegInv /\ CopyInv
-----------------------------------------------------------------------------
(* Sequences: FlattenSeq(), prefixes and runs of offsets. *)

IsFlat(f, s) == f = [i \in 1..Len(s) |-> IF i = 1 THEN s[i] ELSE f[i-1] \o s[i]]

LEMMA FlatExists ==
  ASSUME NEW T, NEW s \in Seq(T)
  PROVE  \E f : IsFlat(f, s)
<1> DEFINE Solves(f, k) == f = [i \in 1..k |-> IF i = 1 THEN s[i] ELSE f[i-1] \o s[i]]
           E == {k \in Nat : \E f : Solves(f, k)}
<1>1. 0 \in E
  <2> DEFINE f0 == [i \in 1..0 |-> 0]
  <2>1. f0 = [i \in 1..0 |-> IF i = 1 THEN s[i] ELSE f0[i-1] \o s[i]]
    OBVIOUS
  <2>2. Solves(f0, 0)
    BY <2>1
  <2> HIDE DEF Solves, f0
  <2>3. \E f : Solves(f, 0)
    BY <2>2
  <2> QED BY <2>3
<1>2. ASSUME NEW k \in Nat, k \in E PROVE k + 1 \in E
  <2>1. PICK f : Solves(f, k)
    BY <1>2
  <2> DEFINE last == IF k + 1 = 1 THEN s[k + 1] ELSE f[k] \o s[k + 1]
             g == [i \in 1..k + 1 |-> IF i = k + 1 THEN last ELSE f[i]]
  <2>2. ASSUME NEW i \in 1..k + 1
        PROVE  g[i] = IF i = 1 THEN s[i] ELSE g[i-1] \o s[i]
    <3>1. CASE i = k + 1
      <4>1. i # 1 => g[i-1] = f[k]
        BY <3>1
      <4>2. g[i] = last
        BY <3>1
      <4> QED BY <3>1, <4>1, <4>2
    <3>2. CASE i # k + 1
      <4>1. i \in 1..k /\ g[i] = f[i]
        BY <3>2
      <4>2. f[i] = IF i = 1 THEN s[i] ELSE f[i-1] \o s[i]
        BY <2>1, <4>1
      <4>3. i # 1 => g[i-1] = f[i-1]
        BY <4>1
      <4> QED BY <4>1, <4>2, <4>3
    <3> QED BY <3>1, <3>2
  <2>3. g = [i \in 1..k + 1 |-> g[i]]
    OBVIOUS
  <2> HIDE DEF g
  <2>4. Solves(g, k + 1)
    BY <2>2, <2>3
  <2> HIDE DEF Solves
  <2>5. \E h : Solves(h, k + 1)
    BY <2>4
  <2> QED BY <2>5
<1>3. Nat \subseteq E
  <2> HIDE DEF E
  <2> QED BY <1>1, <1>2, SetInduction
<1>4. Len(s) \in E
  BY <1>3, LenProperties
<1>5. PICK f : Solves(f, Len(s))
  BY <1>4
<1>6. IsFlat(f, s)
  BY <1>5 DEF IsFlat
<1> QED BY <1>6

\* The last value of the recursion in FlattenSeq(), and its type.
LEMMA FlattenIsLast ==
  ASSUME NEW S, NEW s \in Seq(Seq(S)), Len(s) # 0
  PROVE  \E f : /\ IsFlat(f, s) /\ FlattenSeq(s) = f[Len(s)]
                /\ \A i \in 1..Len(s) : f[i] \in Seq(S)
<1> DEFINE f == CHOOSE g : IsFlat(g, s)
<1>1. IsFlat(f, s)
  BY FlatExists
<1>2. FlattenSeq(s) = f[Len(s)]
  BY DEF FlattenSeq, IsFlat
<1> HIDE DEF f
<1>3. Len(s) \in Nat /\ \A i \in 1..Len(s) : s[i] \in Seq(S)
  BY LenProperties, ElementOfSeq
<1> DEFINE G == {n \in Nat : n + 1 <= Len(s) => f[n + 1] \in Seq(S)}
<1>4. 0 \in G
  <2> SUFFICES ASSUME 1 <= Len(s) PROVE f[1] \in Seq(S)
    OBVIOUS
  <2>1. 1 \in 1..Len(s)
    BY <1>3
  <2>2. f[1] = s[1]
    BY <1>1, <2>1 DEF IsFlat
  <2> QED BY <1>3, <2>1, <2>2
<1>5. ASSUME NEW n \in Nat, n \in G PROVE n + 1 \in G
  <2> SUFFICES ASSUME (n + 1) + 1 <= Len(s) PROVE f[(n + 1) + 1] \in Seq(S)
    OBVIOUS
  <2>1. /\ (n + 1) + 1 \in 1..Len(s) /\ (n + 1) + 1 # 1 /\ ((n + 1) + 1) - 1 = n + 1
        /\ n + 1 <= Len(s)
    BY <1>3
  <2>2. f[(n + 1) + 1] = f[n + 1] \o s[(n + 1) + 1]
    BY <1>1, <2>1 DEF IsFlat
  <2>3. f[n + 1] \in Seq(S) /\ s[(n + 1) + 1] \in Seq(S)
    BY <1>3, <1>5, <2>1
  <2> QED BY <2>2, <2>3, ConcatProperties
<1>6. Nat \subseteq G
  <2> HIDE DEF G
  <2> QED BY <1>4, <1>5, SetInduction
<1>7. ASSUME NEW i \in 1..Len(s) PROVE f[i] \in Seq(S)
  <2>1. i - 1 \in Nat /\ (i - 1) + 1 = i /\ i <= Len(s)
    BY <1>3
  <2>2. i - 1 \in G
    BY <1>6, <2>1
  <2> QED BY <2>1, <2>2
<1> QED BY <1>1, <1>2, <1>7

LEMMA FlattenEmpty == FlattenSeq(<<>>) = <<>>
BY DEF FlattenSeq

LEMMA FlattenType ==
  ASSUME NEW S, NEW s \in Seq(Seq(S))
  PROVE  FlattenSeq(s) \in Seq(S)
<1>1. CASE s = <<>>
  BY <1>1, FlattenEmpty, EmptySeq
<1>2. CASE s # <<>>
  <2>1. Len(s) \in Nat \ {0}
    BY <1>2, EmptySeq
  <2>2. PICK f : FlattenSeq(s) = f[Len(s)] /\ \A i \in 1..Len(s) : f[i] \in Seq(S)
    BY <2>1, FlattenIsLast
  <2>3. Len(s) \in 1..Len(s)
    BY <2>1
  <2> QED BY <2>2, <2>3
<1> QED BY <1>1, <1>2

LEMMA FlattenAppend ==
  ASSUME NEW S, NEW s \in Seq(Seq(S)), NEW x \in Seq(S)
  PROVE  FlattenSeq(Append(s, x)) = FlattenSeq(s) \o x
<1> DEFINE t == Append(s, x)
           n == Len(s)
<1>1. /\ t \in Seq(Seq(S)) /\ Len(t) = n + 1 /\ \A i \in 1..n : t[i] = s[i]
      /\ t[n + 1] = x /\ n \in Nat
  BY AppendProperties, LenProperties
<1> HIDE DEF t
<1>2. Len(t) # 0
  BY <1>1
<1>3. PICK g : IsFlat(g, t) /\ FlattenSeq(t) = g[n + 1]
  BY <1>1, <1>2, FlattenIsLast
<1>4. CASE n = 0
  <2>1. s = <<>>
    BY <1>4, EmptySeq
  <2>2. g[1] = t[1]
    <3>1. 1 \in 1..Len(t)
      BY <1>1
    <3> QED BY <1>3, <3>1 DEF IsFlat
  <2>3. FlattenSeq(t) = x
    BY <1>1, <1>3, <1>4, <2>2
  <2>4. <<>> \o x = x
    BY ConcatEmptySeq
  <2> QED BY <2>1, <2>3, <2>4, FlattenEmpty DEF t
<1>5. CASE n # 0
  <2>1. PICK f : IsFlat(f, s) /\ FlattenSeq(s) = f[n]
    BY <1>5, FlattenIsLast
  <2> DEFINE G == {k \in Nat : k + 1 <= n => f[k + 1] = g[k + 1]}
  <2> HIDE DEF n
  <2>2. /\ \A i \in 1..n : f[i] = IF i = 1 THEN s[i] ELSE f[i-1] \o s[i]
        /\ \A i \in 1..n + 1 : g[i] = IF i = 1 THEN t[i] ELSE g[i-1] \o t[i]
    BY <1>1, <1>3, <2>1 DEF IsFlat, n
  <2>3. 0 \in G
    <3> SUFFICES ASSUME 0 + 1 <= n PROVE f[0 + 1] = g[0 + 1]
      OBVIOUS
    <3>1. 1 \in 1..n /\ 1 \in 1..n + 1 /\ 0 + 1 = 1
      BY <1>1
    <3> QED BY <1>1, <2>2, <3>1
  <2>4. ASSUME NEW k \in Nat, k \in G PROVE k + 1 \in G
    <3> SUFFICES ASSUME (k + 1) + 1 <= n PROVE f[(k + 1) + 1] = g[(k + 1) + 1]
      OBVIOUS
    <3> DEFINE i == (k + 1) + 1
    <3>1. i \in 1..n /\ i \in 1..n + 1 /\ i # 1 /\ i - 1 = k + 1 /\ k + 1 <= n
      BY <1>1
    <3>2. f[k + 1] = g[k + 1]
      BY <2>4, <3>1
    <3> HIDE DEF i
    <3>3. f[i] = f[k + 1] \o s[i] /\ g[i] = g[k + 1] \o t[i] /\ s[i] = t[i]
      BY <1>1, <2>2, <3>1
    <3>4. f[i] = g[i]
      BY <3>2, <3>3
    <3> QED BY <3>4 DEF i
  <2>5. Nat \subseteq G
    <3> HIDE DEF G
    <3> QED BY <2>3, <2>4, SetInduction
  <2>6. n - 1 \in Nat /\ (n - 1) + 1 = n /\ n <= n /\ n + 1 \in 1..n + 1 /\ n + 1 # 1 /\ (n + 1) - 1 = n
    BY <1>1, <1>5
  <2>7. n - 1 \in G
    BY <2>5, <2>6
  <2>8. f[n] = g[n]
    BY <2>6, <2>7
  <2>9. g[n + 1] = g[n] \o t[n + 1]
    BY <2>2, <2>6
  <2>10. FlattenSeq(t) = FlattenSeq(s) \o x
    BY <1>1, <1>3, <2>1, <2>8, <2>9
  <2> QED BY <2>10 DEF t
<1> QED BY <1>4, <1>5
\* The concatenation of the first i sequences.
LEMMA FlattenStep ==
  ASSUME NEW S, NEW s \in Seq(Seq(S)), NEW i \in 1..Len(s)
  PROVE  /\ FlattenSeq(SubSeq(s, 1, i)) = FlattenSeq(SubSeq(s, 1, i - 1)) \o s[i]
         /\ FlattenSeq(SubSeq(s, 1, i - 1)) \in Seq(S) /\ FlattenSeq(SubSeq(s, 1, i)) \in Seq(S)
<1>1. Len(s) \in Nat /\ \A k \in 1..Len(s) : s[k] \in Seq(S)
  BY LenProperties, ElementOfSeq
<1> DEFINE p == SubSeq(s, 1, i - 1)
           q == SubSeq(s, 1, i)
<1>2. p \in Seq(Seq(S)) /\ q \in Seq(Seq(S)) /\ s[i] \in Seq(S)
  <2>1. \A k \in 1..i - 1 : s[k] \in Seq(S)
    BY <1>1
  <2>2. \A k \in 1..i : s[k] \in Seq(S)
    BY <1>1
  <2> QED BY <1>1, <2>1, <2>2, SubSeqProperties
<1>3. q = p \o <<s[i]>>
  <2>1. 1 \in 1..Len(s) /\ i \in 1..Len(s)
    BY <1>1
  <2> QED BY <2>1, SubSeqRecursiveSecond
<1> HIDE DEF p, q
<1>4. Append(p, s[i]) = p \o <<s[i]>>
  BY <1>2, AppendIsConcat
<1>5. FlattenSeq(q) = FlattenSeq(p) \o s[i]
  BY <1>2, <1>3, <1>4, FlattenAppend
<1>6. FlattenSeq(p) \in Seq(S) /\ FlattenSeq(q) \in Seq(S)
  BY <1>2, FlattenType
<1> QED BY <1>5, <1>6 DEF p, q

Extends(S, v, w) == \E r \in Seq(S) : v = w \o r

LEMMA ExtendsPart ==
  ASSUME NEW S, NEW v, NEW w, NEW x \in Seq(S), NEW y \in Seq(S), w = x \o y, Extends(S, v, w)
  PROVE  Extends(S, v, x)
<1>1. PICK r \in Seq(S) : v = w \o r
  BY DEF Extends
<1>2. v = (x \o y) \o r
  BY <1>1, Zenon
<1>3. v = x \o (y \o r)
  BY <1>2
<1>4. y \o r \in Seq(S)
  BY ConcatProperties
<1> DEFINE q == y \o r
<1>5. v = x \o q
  BY <1>3, Zenon
<1> HIDE DEF q
<1> QED BY <1>4, <1>5 DEF q, Extends

\* It is followed by the others.
LEMMA FlattenRest ==
  ASSUME NEW S, NEW s \in Seq(Seq(S)), NEW i \in 0..Len(s)
  PROVE  Extends(S, FlattenSeq(s), FlattenSeq(SubSeq(s, 1, i)))
<1> DEFINE F(k) == FlattenSeq(SubSeq(s, 1, k))
           n == Len(s)
           G == {d \in Nat : d <= n => Extends(S, F(n), F(n - d))}
<1>1. n \in Nat
  BY LenProperties
<1>2. F(n) = FlattenSeq(s) /\ F(n) \in Seq(S)
  BY SubSeqFull, FlattenType
<1>3. 0 \in G
  <2>1. F(n) = F(n) \o <<>> /\ <<>> \in Seq(S)
    BY <1>2, ConcatEmptySeq, EmptySeq
  <2>2. n - 0 = n
    BY <1>1
  <2> HIDE DEF F, n
  <2>3. Extends(S, F(n), F(n))
    BY <2>1 DEF Extends
  <2> QED BY <2>2, <2>3
<1>4. ASSUME NEW d \in Nat, d \in G PROVE d + 1 \in G
  <2> HIDE DEF F
  <2> SUFFICES ASSUME d + 1 <= n PROVE Extends(S, F(n), F(n - (d + 1)))
    OBVIOUS
  <2> DEFINE k == n - d
  <2>1. k \in 1..Len(s) /\ k - 1 = n - (d + 1) /\ d <= n
    BY <1>1
  <2>2. Extends(S, F(n), F(k))
    BY <1>4, <2>1
  <2>3. F(k) = F(k - 1) \o s[k] /\ F(k - 1) \in Seq(S) /\ s[k] \in Seq(S)
    <3> HIDE DEF k
    <3> QED BY <2>1, FlattenStep, ElementOfSeq DEF F
  <2> HIDE DEF k
  <2>4. Extends(S, F(n), F(k - 1))
    BY <2>2, <2>3, ExtendsPart
  <2> QED BY <2>1, <2>4
<1>5. Nat \subseteq G
  <2> HIDE DEF G
  <2> QED BY <1>3, <1>4, SetInduction
<1>6. n - i \in Nat /\ n - i <= n /\ n - (n - i) = i
  BY <1>1
<1>7. n - i \in G
  BY <1>5, <1>6
<1> HIDE DEF F
<1>8. Extends(S, F(n), F(i))
  BY <1>6, <1>7
<1> QED BY <1>2, <1>8 DEF F

LEMMA PrefixOfConcat ==
  ASSUME NEW S, NEW s \in Seq(S), NEW t \in Seq(S)
  PROVE  IsPrefix(s, s \o t)
<1> DEFINE u == s \o t
<1>1. u \in Seq(S) /\ Len(u) = Len(s) + Len(t) /\ \A i \in 1..Len(s) : u[i] = s[i]
  BY ConcatProperties, LenProperties
<1>2. Len(s) \in Nat /\ Len(t) \in Nat
  BY LenProperties
<1> HIDE DEF u
<1> DEFINE a == SubSeq(s, 1, Len(s))
           b == SubSeq(u, 1, Len(s))
<1>3. a = s
  BY SubSeqFull
<1>4. \A i \in 1..Len(s) : u[i] \in S
  BY <1>1, ElementOfSeq
<1>5. b \in Seq(S) /\ Len(b) = Len(s) /\ \A i \in 1..Len(s) : b[i] = s[i]
  <2>1. /\ b \in Seq(S) /\ Len(b) = IF 1 <= Len(s) THEN Len(s) - 1 + 1 ELSE 0
        /\ \A i \in 1..Len(s) - 1 + 1 : b[i] = u[1 + i - 1]
    BY <1>2, <1>4, SubSeqProperties
  <2> QED BY <1>1, <1>2, <2>1
<1> HIDE DEF a, b
<1>6. b = s
  BY <1>5, SeqEqual
<1>7. Len(s) <= Len(u)
  BY <1>1, <1>2
<1> QED BY <1>3, <1>6, <1>7 DEF IsPrefix, a, b, u

LEMMA RunFacts ==
  ASSUME NEW a \in Int, NEW n \in Nat
  PROVE  /\ Run(a, n) \in Seq(Int) /\ Len(Run(a, n)) = n
         /\ \A k \in 1..n : Run(a, n)[k] = a + k - 1
<1>1. Run(a, n) \in [1..n -> Int]
  BY DEF Run
<1>2. Run(a, n) \in Seq(Int)
  BY <1>1, SeqDef
<1>3. Len(Run(a, n)) = n
  BY <1>1, <1>2, LenProperties
<1> QED BY <1>2, <1>3 DEF Run

\* A sequence that holds consecutive offsets is a run.
LEMMA IsRun ==
  ASSUME NEW s \in Seq(Int), NEW a \in Int, \A k \in 1..Len(s) : s[k] = a + k - 1
  PROVE  s = Run(a, Len(s))
<1>1. Len(s) \in Nat
  BY LenProperties
<1>2. /\ Run(a, Len(s)) \in Seq(Int) /\ Len(Run(a, Len(s))) = Len(s)
      /\ \A k \in 1..Len(s) : Run(a, Len(s))[k] = a + k - 1
  BY <1>1, RunFacts
<1> DEFINE r == Run(a, Len(s))
<1> HIDE DEF r
<1>3. r \in Seq(Int) /\ Len(s) = Len(r) /\ \A k \in 1..Len(s) : s[k] = r[k]
  BY <1>2 DEF r
<1>4. s = r
  BY <1>3, SeqEqual
<1> QED BY <1>4 DEF r

LEMMA EmptyRun ==
  ASSUME NEW a \in Int
  PROVE  Run(a, 0) = <<>>
<1>1. Run(a, 0) \in Seq(Int) /\ Len(Run(a, 0)) = 0
  BY RunFacts
<1> QED BY <1>1, EmptySeq

LEMMA RunConcat ==
  ASSUME NEW a \in Int, NEW m \in Nat, NEW b \in Int, NEW n \in Nat, b = a + m
  PROVE  Run(a, m) \o Run(b, n) = Run(a, m + n)
<1> DEFINE p == Run(a, m)
           q == Run(b, n)
<1>1. /\ p \in Seq(Int) /\ Len(p) = m /\ \A k \in 1..m : p[k] = a + k - 1
      /\ q \in Seq(Int) /\ Len(q) = n /\ \A k \in 1..n : q[k] = b + k - 1
  BY RunFacts
<1> HIDE DEF p, q
<1>2. /\ p \o q \in Seq(Int) /\ Len(p \o q) = m + n
      /\ \A k \in 1..m + n : (p \o q)[k] = IF k <= m THEN p[k] ELSE q[k - m]
  BY <1>1, ConcatProperties
<1>3. ASSUME NEW k \in 1..m + n PROVE (p \o q)[k] = a + k - 1
  <2>1. CASE k <= m
    BY <1>1, <1>2, <2>1
  <2>2. CASE ~(k <= m)
    <3>1. k - m \in 1..n /\ b + (k - m) - 1 = a + k - 1
      BY <2>2
    <3> QED BY <1>1, <1>2, <2>2, <3>1
  <2> QED BY <2>1, <2>2
<1>4. p \o q = Run(a, m + n)
  BY <1>2, <1>3, IsRun
<1> QED BY <1>4 DEF p, q

LEMMA RunPart ==
  ASSUME NEW a \in Int, NEW n \in Nat, NEW i \in Nat \ {0}, NEW j \in Nat, j <= n, i <= j + 1
  PROVE  SubSeq(Run(a, n), i, j) = Run(a + i - 1, j - i + 1)
<1> DEFINE p == Run(a, n)
           q == SubSeq(p, i, j)
<1>1. p \in Seq(Int) /\ Len(p) = n /\ \A k \in 1..n : p[k] = a + k - 1
  BY RunFacts
<1> HIDE DEF p
<1>2. \A k \in i..j : p[k] \in Int
  BY <1>1
<1>3. /\ q \in Seq(Int) /\ Len(q) = IF i <= j THEN j - i + 1 ELSE 0
      /\ \A k \in 1..j - i + 1 : q[k] = p[i + k - 1]
  BY <1>2, SubSeqProperties
<1> HIDE DEF q
<1>4. Len(q) = j - i + 1
  BY <1>3
<1>5. ASSUME NEW k \in 1..Len(q) PROVE q[k] = (a + i - 1) + k - 1
  <2>1. i + k - 1 \in 1..n
    BY <1>4
  <2> QED BY <1>1, <1>3, <1>4, <2>1
<1>6. q = Run(a + i - 1, j - i + 1)
  BY <1>3, <1>4, <1>5, IsRun
<1> QED BY <1>6 DEF q, p

LEMMA RunsEqual ==
  ASSUME NEW a \in Int, NEW m \in Nat, NEW b \in Int, NEW n \in Nat, Run(a, m) = Run(b, n), m > 0
  PROVE  a = b /\ m = n
<1>1. /\ Len(Run(a, m)) = m /\ \A k \in 1..m : Run(a, m)[k] = a + k - 1
      /\ Len(Run(b, n)) = n /\ \A k \in 1..n : Run(b, n)[k] = b + k - 1
  BY RunFacts
<1>2. m = n /\ 1 \in 1..m
  BY <1>1
<1>3. Run(a, m)[1] = a + 1 - 1 /\ Run(b, n)[1] = b + 1 - 1
  BY <1>1, <1>2
<1> QED BY <1>2, <1>3
-----------------------------------------------------------------------------
(* The boxes of a file. *)

IsEnds(e, f) ==
  e = [i \in 0..Len(f.boxes) |->
         IF i = 0 THEN 0 ELSE e[i-1] + f.boxes[i].header + f.boxes[i].size]

LEMMA FileBoxes ==
  ASSUME NEW f, IsFile(f)
  PROVE  /\ Len(f.boxes) \in Nat /\ DOMAIN f.boxes = 1..Len(f.boxes)
         /\ \A i \in 1..Len(f.boxes) : /\ f.boxes[i] \in FileBox
                                       /\ f.boxes[i].header \in Nat /\ f.boxes[i].size \in Nat
                                       /\ f.boxes[i].unbounded \in BOOLEAN
                                       /\ f.boxes[i].last \in BOOLEAN
                                       /\ f.boxes[i].unbounded => i = Len(f.boxes)
                                       /\ f.container => f.boxes[i].header > 0
<1>1. f.boxes \in Seq(FileBox)
  BY DEF IsFile
<1>2. /\ Len(f.boxes) \in Nat /\ DOMAIN f.boxes = 1..Len(f.boxes)
      /\ \A i \in 1..Len(f.boxes) : f.boxes[i] \in FileBox
  BY <1>1, LenProperties, ElementOfSeq
<1>3. \A b \in FileBox : /\ b.header \in Nat /\ b.size \in Nat
                         /\ b.unbounded \in BOOLEAN /\ b.last \in BOOLEAN
  BY DEF FileBox
<1>4. ASSUME NEW i \in 1..Len(f.boxes)
      PROVE  /\ f.boxes[i].unbounded => i = Len(f.boxes)
             /\ f.container => f.boxes[i].header > 0
  <2>1. CASE f.container
    <3>1. i \in DOMAIN f.boxes
      BY <1>2
    <3>2. \A k \in DOMAIN f.boxes : /\ f.boxes[k].unbounded => k = Len(f.boxes)
                                    /\ f.boxes[k].header > 0
      <4>1. ContainerBoxes(f.boxes)
        BY <2>1 DEF IsFile
      <4> QED BY <4>1 DEF ContainerBoxes
    <3> QED BY <3>1, <3>2
  <2>2. CASE ~f.container
    <3>1. Len(f.boxes) = 1
      BY <2>2 DEF IsFile
    <3>2. i = 1
      BY <3>1
    <3> QED BY <2>2, <3>1, <3>2
  <2> QED BY <2>1, <2>2
<1> QED BY <1>2, <1>3, <1>4

LEMMA EndsExists ==
  ASSUME NEW f, IsFile(f)
  PROVE  \E e : IsEnds(e, f)
<1> DEFINE Solves(e, k) == e = [i \in 0..k |->
                              IF i = 0 THEN 0 ELSE e[i-1] + f.boxes[i].header + f.boxes[i].size]
           E == {k \in Nat : \E e : Solves(e, k)}
<1>1. 0 \in E
  <2> DEFINE e0 == [i \in 0..0 |-> 0]
  <2>1. e0 = [i \in 0..0 |-> IF i = 0 THEN 0 ELSE e0[i-1] + f.boxes[i].header + f.boxes[i].size]
    OBVIOUS
  <2>2. Solves(e0, 0)
    BY <2>1
  <2> HIDE DEF Solves, e0
  <2>3. \E e : Solves(e, 0)
    BY <2>2
  <2> QED BY <2>3
<1>2. ASSUME NEW k \in Nat, k \in E PROVE k + 1 \in E
  <2>1. PICK e : Solves(e, k)
    BY <1>2
  <2> DEFINE last == e[k] + f.boxes[k + 1].header + f.boxes[k + 1].size
             g == [i \in 0..k + 1 |-> IF i = k + 1 THEN last ELSE e[i]]
  <2>2. ASSUME NEW i \in 0..k + 1
        PROVE  g[i] = IF i = 0 THEN 0 ELSE g[i-1] + f.boxes[i].header + f.boxes[i].size
    <3>1. CASE i = k + 1
      <4>1. i # 0 /\ g[i-1] = e[k]
        BY <3>1
      <4>2. g[i] = last
        BY <3>1
      <4> QED BY <3>1, <4>1, <4>2
    <3>2. CASE i # k + 1
      <4>1. i \in 0..k /\ g[i] = e[i]
        BY <3>2
      <4>2. e[i] = IF i = 0 THEN 0 ELSE e[i-1] + f.boxes[i].header + f.boxes[i].size
        BY <2>1, <4>1
      <4>3. i # 0 => g[i-1] = e[i-1]
        BY <4>1
      <4> QED BY <4>1, <4>2, <4>3
    <3> QED BY <3>1, <3>2
  <2>3. g = [i \in 0..k + 1 |-> g[i]]
    OBVIOUS
  <2> HIDE DEF g
  <2>4. Solves(g, k + 1)
    BY <2>2, <2>3
  <2> HIDE DEF Solves
  <2>5. \E h : Solves(h, k + 1)
    BY <2>4
  <2> QED BY <2>5
<1>3. Nat \subseteq E
  <2> HIDE DEF E
  <2> QED BY <1>1, <1>2, SetInduction
<1>4. Len(f.boxes) \in E
  BY <1>3, FileBoxes
<1>5. PICK e : Solves(e, Len(f.boxes))
  BY <1>4
<1>6. IsEnds(e, f)
  BY <1>5 DEF IsEnds
<1> QED BY <1>6

\* Where boxes begin and end.
LEMMA EndsFacts ==
  ASSUME NEW f, IsFile(f)
  PROVE  /\ Ends(f)[0] = 0
         /\ \A i \in 1..Len(f.boxes) :
              Ends(f)[i] = Ends(f)[i-1] + f.boxes[i].header + f.boxes[i].size
         /\ \A i \in 0..Len(f.boxes) : Ends(f)[i] \in Nat
<1> DEFINE e == CHOOSE g : IsEnds(g, f)
           n == Len(f.boxes)
<1>1. Ends(f) = e
  BY DEF Ends, IsEnds
<1>2. IsEnds(e, f)
  BY EndsExists
<1> HIDE DEF e
<1>3. n \in Nat
  BY FileBoxes
<1>4. /\ e[0] = 0
      /\ \A i \in 1..n : e[i] = e[i-1] + f.boxes[i].header + f.boxes[i].size
  BY <1>2, <1>3 DEF IsEnds
<1> DEFINE G == {i \in Nat : i <= n => e[i] \in Nat}
<1>5. 0 \in G
  BY <1>4
<1>6. ASSUME NEW i \in Nat, i \in G PROVE i + 1 \in G
  <2> SUFFICES ASSUME i + 1 <= n PROVE e[i + 1] \in Nat
    OBVIOUS
  <2>1. i + 1 \in 1..n /\ (i + 1) - 1 = i /\ i <= n
    BY <1>3
  <2>2. e[i + 1] = e[i] + f.boxes[i + 1].header + f.boxes[i + 1].size
    BY <1>4, <2>1
  <2>3. f.boxes[i + 1].header \in Nat /\ f.boxes[i + 1].size \in Nat
    BY <2>1, FileBoxes
  <2>4. e[i] \in Nat
    BY <1>6, <2>1
  <2> QED BY <2>2, <2>3, <2>4
<1>7. Nat \subseteq G
  <2> HIDE DEF G
  <2> QED BY <1>5, <1>6, SetInduction
<1>8. \A i \in 0..n : e[i] \in Nat
  BY <1>3, <1>7
<1> QED BY <1>1, <1>4, <1>8

LEMMA EndsMonotonic ==
  ASSUME NEW f, IsFile(f), NEW i \in 0..Len(f.boxes), NEW j \in i..Len(f.boxes)
  PROVE  Ends(f)[i] <= Ends(f)[j]
<1> DEFINE e == Ends(f)
           n == Len(f.boxes)
<1>1. n \in Nat
  BY FileBoxes
<1>2. /\ \A k \in 1..n : e[k] = e[k-1] + f.boxes[k].header + f.boxes[k].size
      /\ \A k \in 0..n : e[k] \in Nat
  BY EndsFacts
<1> HIDE DEF e
<1> DEFINE G == {d \in Nat : i + d <= n => e[i] <= e[i + d]}
<1>3. 0 \in G
  <2>1. i + 0 = i /\ i \in 0..n
    BY <1>1
  <2> QED BY <1>2, <2>1
<1>4. ASSUME NEW d \in Nat, d \in G PROVE d + 1 \in G
  <2> SUFFICES ASSUME i + (d + 1) <= n PROVE e[i] <= e[i + (d + 1)]
    OBVIOUS
  <2> DEFINE k == i + (d + 1)
  <2>1. k \in 1..n /\ k - 1 = i + d /\ i + d <= n /\ i + d \in 0..n /\ k \in 0..n /\ i \in 0..n
    BY <1>1
  <2>2. e[i] <= e[i + d]
    BY <1>4, <2>1
  <2> HIDE DEF k, n, G
  <2>3. e[k] = e[i + d] + f.boxes[k].header + f.boxes[k].size
    BY <1>2, <2>1
  <2>4. f.boxes[k].header \in Nat /\ f.boxes[k].size \in Nat
    BY <2>1, FileBoxes DEF n
  <2>5. e[i] \in Nat /\ e[i + d] \in Nat
    BY <1>2, <2>1
  <2>6. e[i] <= e[k]
    <3>1. \A a, b, h, z \in Nat : a <= b => a <= b + h + z
      OBVIOUS
    <3> QED BY <2>2, <2>3, <2>4, <2>5, <3>1
  <2> QED BY <2>6 DEF k
<1>5. Nat \subseteq G
  <2> HIDE DEF G
  <2> QED BY <1>3, <1>4, SetInduction
<1>6. j - i \in Nat /\ i + (j - i) = j /\ j <= n
  BY <1>1
<1>7. j - i \in G
  BY <1>5, <1>6
<1>8. e[i] <= e[j]
  BY <1>6, <1>7
<1> QED BY <1>8 DEF e

\* Different boxes of a container begin at different offsets.
LEMMA EndsIncrease ==
  ASSUME NEW f, IsFile(f), f.container, NEW i \in 0..Len(f.boxes), NEW j \in 0..Len(f.boxes), i < j
  PROVE  Ends(f)[i] < Ends(f)[j]
<1>1. i + 1 \in 1..Len(f.boxes) /\ i + 1 \in 0..Len(f.boxes) /\ j \in i + 1..Len(f.boxes) /\ (i + 1) - 1 = i
  BY FileBoxes
<1>2. Ends(f)[i + 1] <= Ends(f)[j]
  BY <1>1, EndsMonotonic
<1>3. Ends(f)[i + 1] = Ends(f)[i] + f.boxes[i + 1].header + f.boxes[i + 1].size
  BY <1>1, EndsFacts
<1>4. f.boxes[i + 1].header \in Nat /\ f.boxes[i + 1].size \in Nat /\ f.boxes[i + 1].header > 0
  BY <1>1, FileBoxes
<1>5. Ends(f)[i] \in Nat /\ Ends(f)[i + 1] \in Nat /\ Ends(f)[j] \in Nat
  BY <1>1, EndsFacts
<1> QED BY <1>2, <1>3, <1>4, <1>5

\* The box whose header stands where another box of a container ends.
LEMMA HeaderAtEnd ==
  ASSUME IsFile(file), file.container, NEW i \in 0..Len(file.boxes) - 1
  PROVE  i + 1 \in 1..Len(file.boxes) /\ HeaderAt(Ends(file)[i]) = file.boxes[i + 1]
<1> DEFINE at == {k \in DOMAIN file.boxes : Ends(file)[k-1] = Ends(file)[i]}
<1>1. Len(file.boxes) \in Nat /\ DOMAIN file.boxes = 1..Len(file.boxes)
  BY FileBoxes
<1>2. i + 1 \in 1..Len(file.boxes) /\ (i + 1) - 1 = i /\ i \in 0..Len(file.boxes)
  BY <1>1
<1>3. ASSUME NEW k \in at PROVE k = i + 1
  <2>1. k \in 1..Len(file.boxes) /\ k - 1 \in 0..Len(file.boxes) /\ Ends(file)[k-1] = Ends(file)[i]
    BY <1>1
  <2>2. Ends(file)[i] \in Nat
    BY <1>2, EndsFacts
  <2>3. ~(k - 1 < i)
    <3>1. SUFFICES ASSUME k - 1 < i PROVE FALSE
      OBVIOUS
    <3>2. Ends(file)[k-1] < Ends(file)[i]
      BY <1>2, <2>1, <3>1, EndsIncrease
    <3> QED BY <2>1, <2>2, <3>2
  <2>4. ~(i < k - 1)
    <3>1. SUFFICES ASSUME i < k - 1 PROVE FALSE
      OBVIOUS
    <3>2. Ends(file)[i] < Ends(file)[k-1]
      BY <1>2, <2>1, <3>1, EndsIncrease
    <3> QED BY <2>1, <2>2, <3>2
  <2> QED BY <1>2, <2>1, <2>3, <2>4
<1>4. i + 1 \in at
  BY <1>1, <1>2
<1>5. at = {i + 1}
  BY <1>3, <1>4
<1> HIDE DEF at
<1>6. Min(at) = i + 1
  BY <1>2, <1>5 DEF Min
<1>7. at # {}
  BY <1>4
<1>8. HeaderAt(Ends(file)[i]) = file.boxes[Min(at)]
  BY <1>7 DEF HeaderAt, at
<1> QED BY <1>2, <1>6, <1>8

\* The contents of a box and the codestream in it.
LEMMA ContentsFacts ==
  ASSUME NEW f, IsFile(f), NEW i \in 1..Len(f.boxes)
  PROVE  /\ f.boxes[i].size \in Nat /\ Ends(f)[i] - f.boxes[i].size \in Nat
         /\ Ends(f)[i - 1] + f.boxes[i].header = Ends(f)[i] - f.boxes[i].size
         /\ Ends(f)[i - 1] \in Nat /\ Ends(f)[i] \in Nat /\ Ends(f)[i] <= FileSize(f)
         /\ f.boxes[i].header \in Nat
<1>1. f.boxes[i].size \in Nat /\ f.boxes[i].header \in Nat /\ Len(f.boxes) \in Nat
  BY FileBoxes
<1>2. i - 1 \in 0..Len(f.boxes) /\ i \in 0..Len(f.boxes) /\ Len(f.boxes) \in i..Len(f.boxes)
  BY <1>1
<1>3. Ends(f)[i] \in Nat /\ Ends(f)[i - 1] \in Nat
  BY <1>2, EndsFacts
<1>4. Ends(f)[i] = Ends(f)[i - 1] + f.boxes[i].header + f.boxes[i].size
  BY EndsFacts
<1>5. Ends(f)[i] <= FileSize(f)
  BY <1>2, EndsMonotonic DEF FileSize
<1> QED BY <1>1, <1>3, <1>4, <1>5

LEMMA CodestreamInFacts ==
  ASSUME NEW f, IsFile(f), NEW i \in 1..Len(f.boxes), NEW begin, begin = Ends(f)[i] - f.boxes[i].size
  PROVE  /\ CodestreamIn(f, i) \in Seq(Int)
         /\ f.boxes[i].type \in {"jxlc", "none"} => CodestreamIn(f, i) = Run(begin, f.boxes[i].size)
         /\ f.boxes[i].type = "jxlp" /\ f.boxes[i].size >= 1 =>
              CodestreamIn(f, i) = Run(begin + 1, f.boxes[i].size - 1)
         /\ f.boxes[i].type \notin {"jxlc", "jxlp", "none"} => CodestreamIn(f, i) = <<>>
<1> DEFINE n == f.boxes[i].size
           t == f.boxes[i].type
<1>1. n \in Nat /\ begin \in Nat
  BY ContentsFacts
<1>2. Contents(f, i) = Run(begin, n)
  BY DEF Contents
<1> HIDE DEF n
<1>0. begin \in Int
  BY <1>1
<1>3. Run(begin, n) \in Seq(Int) /\ Len(Run(begin, n)) = n
  BY <1>0, <1>1, RunFacts
<1>4. n >= 1 => Rest(Run(begin, n)) = Run(begin + 1, n - 1)
  <2>1. SUFFICES ASSUME n >= 1 PROVE SubSeq(Run(begin, n), 2, n) = Run(begin + 1, n - 1)
    BY <1>3 DEF Rest
  <2>2. 2 \in Nat \ {0} /\ n <= n /\ 2 <= n + 1 /\ begin \in Int
    BY <1>1, <2>1
  <2>3. SubSeq(Run(begin, n), 2, n) = Run(begin + 2 - 1, n - 2 + 1)
    BY <1>1, <2>2, RunPart
  <2>4. begin + 2 - 1 = begin + 1 /\ n - 2 + 1 = n - 1
    BY <1>1
  <2> QED BY <2>3, <2>4
<1>5. Rest(Run(begin, n)) \in Seq(Int)
  <2>1. \A k \in 2..n : Run(begin, n)[k] \in Int
    BY <1>1, <1>3, ElementOfSeq
  <2>2. SubSeq(Run(begin, n), 2, n) \in Seq(Int)
    BY <1>1, <2>1, SubSeqProperties
  <2> QED BY <1>3, <2>2 DEF Rest
<1>6. CodestreamIn(f, i) = IF t \in {"jxlc", "none"} THEN Run(begin, n)
                           ELSE IF t = "jxlp" THEN Rest(Run(begin, n)) ELSE <<>>
  BY <1>2 DEF CodestreamIn
<1> HIDE DEF t
<1>7. <<>> \in Seq(Int)
  BY EmptySeq
<1>8. CodestreamIn(f, i) \in Seq(Int)
  BY <1>3, <1>5, <1>6, <1>7
<1>9. t \in {"jxlc", "none"} => CodestreamIn(f, i) = Run(begin, n)
  BY <1>6
<1>10. t = "jxlp" /\ n >= 1 => CodestreamIn(f, i) = Run(begin + 1, n - 1)
  BY <1>4, <1>6
<1>11. t \notin {"jxlc", "jxlp", "none"} => CodestreamIn(f, i) = <<>>
  BY <1>6
<1> QED BY <1>8, <1>9, <1>10, <1>11 DEF t, n

LEMMA PiecesFacts ==
  ASSUME NEW f, IsFile(f)
  PROVE  /\ Pieces(f) \in Seq(Seq(Int)) /\ Len(Pieces(f)) = Len(f.boxes)
         /\ \A i \in 1..Len(f.boxes) : Pieces(f)[i] = CodestreamIn(f, i)
<1>1. Len(f.boxes) \in Nat /\ DOMAIN f.boxes = 1..Len(f.boxes)
  BY FileBoxes
<1>2. \A i \in 1..Len(f.boxes) : CodestreamIn(f, i) \in Seq(Int)
  BY CodestreamInFacts
<1>3. Pieces(f) \in [1..Len(f.boxes) -> Seq(Int)]
  BY <1>1, <1>2 DEF Pieces
<1>4. Pieces(f) \in Seq(Seq(Int))
  BY <1>1, <1>3, SeqDef
<1>5. Len(Pieces(f)) = Len(f.boxes)
  BY <1>1, <1>3, <1>4, LenProperties
<1> QED BY <1>1, <1>4, <1>5 DEF Pieces

\* The codestream of the first boxes: nothing, then box after box.
LEMMA BeforeFacts ==
  ASSUME NEW f, IsFile(f)
  PROVE  /\ Before(f, 0) = <<>>
         /\ \A i \in 0..Len(f.boxes) : /\ Before(f, i) \in Seq(Int)
                                       /\ Extends(Int, CodestreamOf(f), Before(f, i))
         /\ \A i \in 1..Len(f.boxes) : Before(f, i) = Before(f, i - 1) \o CodestreamIn(f, i)
<1> DEFINE p == Pieces(f)
           n == Len(f.boxes)
<1>1. p \in Seq(Seq(Int)) /\ Len(p) = n /\ n \in Nat /\ \A i \in 1..n : p[i] = CodestreamIn(f, i)
  BY PiecesFacts, FileBoxes
<1>2. CodestreamOf(f) = FlattenSeq(p)
  BY DEF CodestreamOf, Pieces
<1> HIDE DEF p
<1>3. Before(f, 0) = <<>>
  <2>1. SubSeq(p, 1, 0) = <<>>
    BY <1>1, SubSeqEmpty
  <2> QED BY <2>1, FlattenEmpty DEF Before, p
<1>4. ASSUME NEW i \in 1..n
      PROVE  /\ Before(f, i) \in Seq(Int) /\ Before(f, i - 1) \in Seq(Int)
             /\ Before(f, i) = Before(f, i - 1) \o CodestreamIn(f, i)
  <2>1. /\ FlattenSeq(SubSeq(p, 1, i)) = FlattenSeq(SubSeq(p, 1, i - 1)) \o p[i]
        /\ FlattenSeq(SubSeq(p, 1, i - 1)) \in Seq(Int) /\ FlattenSeq(SubSeq(p, 1, i)) \in Seq(Int)
    BY <1>1, FlattenStep
  <2> QED BY <1>1, <2>1 DEF Before, p
<1>5. ASSUME NEW i \in 0..n PROVE Before(f, i) \in Seq(Int)
  <2>1. CASE i = 0
    BY <1>3, <2>1, EmptySeq
  <2>2. CASE i # 0
    <3>1. i \in 1..n
      BY <2>2
    <3> QED BY <1>4, <3>1
  <2> QED BY <2>1, <2>2
<1>6. ASSUME NEW i \in 0..n PROVE Extends(Int, CodestreamOf(f), Before(f, i))
  <2>1. Extends(Int, FlattenSeq(p), FlattenSeq(SubSeq(p, 1, i)))
    BY <1>1, FlattenRest
  <2> QED BY <1>2, <2>1 DEF Before, p
<1> QED BY <1>3, <1>4, <1>5, <1>6
-----------------------------------------------------------------------------
(* Every step preserves the invariant. *)

LEMMA TheFile ==
  ASSUME InputInv
  PROVE  IsFile(file)
BY SessionsAssumption DEF InputInv, Files

LEMMA InitPInv ==
  ASSUME Init
  PROVE  PInv
<1>1. PICK s \in Sessions : file = s.file
  BY DEF Init
<1>2. file \in Files
  BY <1>1 DEF Files
<1>3. IsFile(file)
  BY <1>1, SessionsAssumption
<1>4. Ends(file)[0] = 0 /\ FileSize(file) \in Nat /\ Len(file.boxes) \in Nat /\ Before(file, 0) = <<>>
  <2>1. Len(file.boxes) \in Nat
    BY <1>3, FileBoxes
  <2>2. Len(file.boxes) \in 0..Len(file.boxes)
    BY <2>1
  <2> QED BY <1>3, <2>1, <2>2, EndsFacts, BeforeFacts DEF FileSize
<1>5. /\ sent = 0 /\ unread = 0 /\ next_in = -1 /\ avail_in = 0 /\ file_pos = 0
      /\ box_stage = "kHeader" /\ box_count = 0 /\ box = Box0 /\ ~got_signature /\ ~have_container
      /\ jpeg_decoder = Jpeg0 /\ codestream_copy = <<>> /\ pc = "Application"
  BY DEF Init
<1>6. InputInv
  BY <1>2, <1>4, <1>5 DEF InputInv
<1>7. HeaderInv
  BY <1>4, <1>5 DEF HeaderInv, Box0
<1>8. StageInv
  BY <1>5 DEF StageInv
<1>9. JpegInv
  <2>1. Jpeg0 \in [inside_box : BOOLEAN, box_until_eof : BOOLEAN, box_size : Nat, buffer : Seq(Int),
                   jpeg_data : BOOLEAN, out : BOOLEAN, avail_size : Nat]
    BY EmptySeq DEF Jpeg0
  <2>2. ~Jpeg0.inside_box /\ ~Jpeg0.box_until_eof
    BY DEF Jpeg0
  <2> QED BY <1>5, <2>1, <2>2 DEF JpegInv
<1>10. CopyInv
  BY <1>4, <1>5 DEF CopyInv
<1> QED BY <1>6, <1>7, <1>8, <1>9, <1>10 DEF PInv

JpegDecoders ==
  [inside_box : BOOLEAN, box_until_eof : BOOLEAN, box_size : Nat, buffer : Seq(Int),
   jpeg_data : BOOLEAN, out : BOOLEAN, avail_size : Nat]

\* Two states of the decoder of the jbrd box differ only in its output.
SameBox(d, e) ==
  /\ d.inside_box = e.inside_box /\ d.box_until_eof = e.box_until_eof
  /\ d.box_size = e.box_size /\ d.buffer = e.buffer

\* A step that reads nothing.
Quiet ==
  /\ UNCHANGED <<application, next_in, avail_in, boxes, codestream_copy, got_signature, have_container>>
  /\ jpeg_decoder' \in JpegDecoders /\ SameBox(jpeg_decoder', jpeg_decoder)
  /\ stage' = stage \/ stage' = "kCodestreamFinished"
  /\ pc' # "Application" => got_signature /\ unread = 0
  /\ pc' \in {"Codestream", "CodestreamResult"} => box_stage = "kCodestream"
  /\ pc' = "CodestreamResult" /\ result' = "SUCCESS" => stage' = "kCodestreamFinished"

LEMMA QuietStep ==
  ASSUME PInv, Live, Quiet
  PROVE  PInv'
<1> USE DEF PInv, Quiet, application, boxes
<1>0. Cur' = Cur /\ CodestreamBegin' = CodestreamBegin
  BY DEF Cur, CodestreamBegin
<1>1. InputInv'
  BY DEF InputInv
<1>2. HeaderInv'
  BY <1>0 DEF HeaderInv
<1>3. StageInv'
  BY <1>0 DEF StageInv
<1>4. JpegInv'
  <2>1. jpeg_decoder' \in JpegDecoders
    OBVIOUS
  <2>2. JpegInv
    OBVIOUS
  <2>3. /\ jpeg_decoder'.box_until_eof => box_count' = Len(file'.boxes)
        /\ jpeg_decoder'.inside_box => box_stage' = "kJpegRecon"
        /\ box_stage' = "kJpegRecon" =>
             IF jpeg_decoder'.inside_box
             THEN /\ jpeg_decoder'.buffer = Run(box'.begin, file_pos' - box'.begin)
                  /\ jpeg_decoder'.box_until_eof = box'.unbounded
                  /\ ~box'.unbounded => jpeg_decoder'.box_size = box'.size
             ELSE file_pos' = box'.begin /\ ~jpeg_decoder'.box_until_eof
    BY <2>2 DEF JpegInv, SameBox
  <2> QED BY <2>1, <2>3 DEF JpegInv, JpegDecoders
<1>5. CopyInv'
  BY <1>0 DEF CopyInv, CanUseMoreCodestreamInput
<1> QED BY <1>1, <1>2, <1>3, <1>4, <1>5

\* A call that is inside HandleBoxes(), or an application between two calls.
LEMMA LiveFacts ==
  ASSUME PInv
  PROVE  /\ pc # "Application" => Live /\ got_signature /\ unread = 0
         /\ Between => Live /\ pc = "Application"
         /\ pc \in {"Codestream", "CodestreamResult"} => box_stage = "kCodestream"
         /\ jpeg_decoder \in JpegDecoders
BY DEF PInv, Live, Between, HeaderInv, InputInv, StageInv, JpegInv, JpegDecoders, Final

QuietInCall ==
  \/ OutputBox \/ StoreMetadata \/ SetMetadata \/ WriteOutput \/ NoReconstruction \/ AtBoxEnd
  \/ ReadHeaders \/ ReturnBasicInfo \/ ReadFrameHeader \/ StartFrame \/ DecodeFrame
  \/ FinishCodestream \/ CodestreamTooShort \/ CodestreamEvent

QuietBetween ==
  \/ CloseInput
  \/ \E size \in BoxBufferSizes : SetBoxBuffer(size)
  \/ \E size \in JpegBufferSizes : SetJPEGBuffer(size)
  \/ ReleaseBoxBuffer \/ ReleaseJPEGBuffer \/ SetImageOutBuffer

LEMMA ContinuePc ==
  ASSUME Continue
  PROVE  pc' \in {"Reconstruct", "OutputBox"}
BY DEF Continue, Goto

LEMMA JpegOutput ==
  ASSUME NEW d \in JpegDecoders, NEW o \in BOOLEAN, NEW n \in Nat, NEW b \in BOOLEAN
  PROVE  /\ [d EXCEPT !.out = o, !.avail_size = n] \in JpegDecoders
         /\ SameBox([d EXCEPT !.out = o, !.avail_size = n], d)
         /\ [d EXCEPT !.avail_size = n] \in JpegDecoders /\ SameBox([d EXCEPT !.avail_size = n], d)
         /\ [d EXCEPT !.jpeg_data = b] \in JpegDecoders /\ SameBox([d EXCEPT !.jpeg_data = b], d)
BY DEF JpegDecoders, SameBox

LEMMA QuietInCallStep ==
  ASSUME PInv, QuietInCall
  PROVE  PInv'
<1> USE DEF application, input, seen, jpeg, codestream, DecodingCodestream, Return, Goto, CodestreamResult
<1>0. /\ pc # "Application" => Live /\ got_signature /\ unread = 0
      /\ pc \in {"Codestream", "CodestreamResult"} => box_stage = "kCodestream"
      /\ jpeg_decoder \in JpegDecoders
  BY LiveFacts
<1>00. SameBox(jpeg_decoder, jpeg_decoder)
  BY DEF SameBox
<1>1. CASE OutputBox
  BY <1>0, <1>00, <1>1, QuietStep DEF OutputBox, Quiet
<1>2. CASE StoreMetadata
  BY <1>0, <1>00, <1>2, QuietStep DEF StoreMetadata, Quiet
<1>3. CASE SetMetadata
  BY <1>0, <1>00, <1>3, QuietStep DEF SetMetadata, Quiet
<1>4. CASE WriteOutput
  <2>1. jpeg_decoder' \in JpegDecoders /\ SameBox(jpeg_decoder', jpeg_decoder)
    <3>1. CASE UNCHANGED jpeg_decoder
      BY <1>0, <1>00, <3>1
    <3>2. CASE jpeg_decoder.avail_size >= JpegSize
               /\ jpeg_decoder' = [jpeg_decoder EXCEPT !.avail_size = @ - JpegSize]
      <4>1. jpeg_decoder.avail_size - JpegSize \in Nat
        BY <1>0, <3>2, SizesAssumption DEF JpegDecoders
      <4> QED BY <1>0, <3>2, <4>1, JpegOutput
    <3> QED BY <1>4, <3>1, <3>2 DEF WriteOutput
  <2> QED BY <1>0, <1>4, <2>1, QuietStep DEF WriteOutput, Quiet
<1>5. CASE NoReconstruction
  BY <1>0, <1>00, <1>5, QuietStep DEF NoReconstruction, Quiet
<1>6. CASE AtBoxEnd
  BY <1>0, <1>00, <1>6, QuietStep DEF AtBoxEnd, Quiet
<1>7. CASE ReadHeaders
  BY <1>0, <1>00, <1>7, QuietStep DEF ReadHeaders, Quiet
<1>8. CASE ReturnBasicInfo
  BY <1>0, <1>00, <1>8, QuietStep DEF ReturnBasicInfo, Quiet
<1>9. CASE ReadFrameHeader
  BY <1>0, <1>00, <1>9, QuietStep DEF ReadFrameHeader, Quiet
<1>10. CASE StartFrame
  <2>1. jpeg_decoder' \in JpegDecoders /\ SameBox(jpeg_decoder', jpeg_decoder)
    <3>1. PICK b \in BOOLEAN : jpeg_decoder' = [jpeg_decoder EXCEPT !.jpeg_data = b]
      BY <1>10 DEF StartFrame
    <3> QED BY <1>0, <3>1, JpegOutput
  <2> QED BY <1>0, <1>10, <2>1, QuietStep DEF StartFrame, Quiet
<1>11. CASE DecodeFrame
  BY <1>0, <1>00, <1>11, QuietStep DEF DecodeFrame, Quiet
<1>12. CASE FinishCodestream
  BY <1>0, <1>00, <1>12, QuietStep DEF FinishCodestream, Quiet
<1>13. CASE CodestreamTooShort
  BY <1>0, <1>00, <1>13, QuietStep DEF CodestreamTooShort, Quiet
<1>14. CASE CodestreamEvent
  <2>1. pc' \in {"Reconstruct", "OutputBox", "Application"}
    BY <1>14, ContinuePc DEF CodestreamEvent
  <2> QED BY <1>0, <1>00, <1>14, <2>1, QuietStep DEF CodestreamEvent, Quiet
<1> QED BY <1>1, <1>2, <1>3, <1>4, <1>5, <1>6, <1>7, <1>8, <1>9, <1>10, <1>11, <1>12, <1>13,
           <1>14 DEF QuietInCall

LEMMA QuietBetweenStep ==
  ASSUME PInv, QuietBetween
  PROVE  PInv'
<1> USE DEF application, input, seen, jpeg, codestream
<1>0. /\ Between => Live /\ pc = "Application"
      /\ jpeg_decoder \in JpegDecoders
  BY LiveFacts
<1>00. SameBox(jpeg_decoder, jpeg_decoder)
  BY DEF SameBox
<1>1. CASE CloseInput
  BY <1>0, <1>00, <1>1, QuietStep DEF CloseInput, Quiet
<1>2. ASSUME NEW size \in BoxBufferSizes, SetBoxBuffer(size) PROVE PInv'
  BY <1>0, <1>00, <1>2, QuietStep DEF SetBoxBuffer, Quiet
<1>3. ASSUME NEW size \in JpegBufferSizes, SetJPEGBuffer(size) PROVE PInv'
  <2>1. size \in Nat
    BY SizesAssumption
  <2>2. jpeg_decoder' \in JpegDecoders /\ SameBox(jpeg_decoder', jpeg_decoder)
    BY <1>0, <1>3, <2>1, JpegOutput DEF SetJPEGBuffer
  <2> QED BY <1>0, <1>3, <2>2, QuietStep DEF SetJPEGBuffer, Quiet
<1>4. CASE ReleaseBoxBuffer
  BY <1>0, <1>00, <1>4, QuietStep DEF ReleaseBoxBuffer, Quiet
<1>5. CASE ReleaseJPEGBuffer
  <2>2. jpeg_decoder' \in JpegDecoders /\ SameBox(jpeg_decoder', jpeg_decoder)
    BY <1>0, <1>5, JpegOutput DEF ReleaseJPEGBuffer
  <2> QED BY <1>0, <1>5, <2>2, QuietStep DEF ReleaseJPEGBuffer, Quiet
<1>6. CASE SetImageOutBuffer
  BY <1>0, <1>00, <1>6, QuietStep DEF SetImageOutBuffer, Quiet
<1> QED BY <1>1, <1>2, <1>3, <1>4, <1>5, <1>6 DEF QuietBetween

BoxRecords == [begin : Nat, end : Nat, size : Nat, unbounded : BOOLEAN]
BoxStages == {"kHeader", "kFtyp", "kSkip", "kCodestream", "kPartialCodestream", "kJpegRecon"}

\* The decoder reads no more than there is.
LEMMA AdvanceFacts ==
  ASSUME InputInv, pc # "Application", NEW n \in 0..avail_in, AdvanceInput(n), UNCHANGED application
  PROVE  InputInv' /\ file_pos' = file_pos + n /\ file_pos' <= FileSize(file)
<1>0. FileSize(file) \in Nat
  <2>1. IsFile(file)
    BY TheFile
  <2>2. Len(file.boxes) \in 0..Len(file.boxes)
    BY <2>1, FileBoxes
  <2> QED BY <2>1, <2>2, EndsFacts DEF FileSize
<1>1. file_pos + avail_in = sent /\ unread = 0 /\ sent <= FileSize(file)
  BY <1>0 DEF InputInv
<1>2. file' = file /\ sent' = sent /\ unread' = unread
  BY DEF application
<1>3. next_in' = next_in + n /\ avail_in' = avail_in - n /\ file_pos' = file_pos + n
  BY DEF AdvanceInput
<1>4. avail_in \in Nat /\ file_pos \in Nat /\ next_in \in Int
  BY DEF InputInv
<1>5. avail_in' \in Nat /\ file_pos' \in Nat /\ next_in' \in Int /\ file_pos' + avail_in' = sent'
  BY <1>1, <1>2, <1>3, <1>4
<1>6. CASE next_in = -1
  <2>1. n = 0
    BY <1>6 DEF InputInv
  <2> QED BY <1>1, <1>2, <1>3, <1>4, <1>5, <1>6, <2>1 DEF InputInv
<1>7. CASE next_in # -1
  <2>1. next_in' = file_pos' /\ next_in' # -1
    BY <1>3, <1>4, <1>7 DEF InputInv
  <2>2. InputInv'
    BY <1>1, <1>2, <1>5, <2>1 DEF InputInv
  <2> QED BY <1>0, <1>1, <1>2, <1>3, <1>4, <1>5, <2>2
<1> QED BY <1>6, <1>7

\* The current box.
LEMMA CurFacts ==
  ASSUME PInv, Live, box_stage # "kHeader"
  PROVE  /\ IsFile(file) /\ Len(file.boxes) \in Nat /\ Cur \in 1..Len(file.boxes)
         /\ file.boxes[Cur].size \in Nat /\ Ends(file)[Cur] \in Nat
         /\ file.container => Cur = box_count
         /\ ~file.container => box.unbounded
         /\ box \in BoxRecords /\ box.begin = Ends(file)[Cur] - file.boxes[Cur].size
         /\ box.unbounded = file.boxes[Cur].unbounded
         /\ ~box.unbounded => box.end = Ends(file)[Cur] /\ box.size = file.boxes[Cur].size
         /\ box.unbounded => box.end = 0 /\ box.size = 0
         /\ box.unbounded => Cur = Len(file.boxes) /\ Ends(file)[Cur] = FileSize(file)
         /\ box.begin <= file_pos /\ file_pos <= Ends(file)[Cur]
         /\ file_pos \in Nat /\ avail_in \in Nat
<1>1. IsFile(file)
  BY TheFile DEF PInv
<1>2. Len(file.boxes) \in Nat /\ Cur \in 1..Len(file.boxes)
  BY <1>1, FileBoxes DEF PInv, HeaderInv
<1>3. file.boxes[Cur].size \in Nat /\ Ends(file)[Cur] \in Nat
  BY <1>1, <1>2, ContentsFacts
<1>4. file.container => Cur = box_count
  BY DEF Cur
<1>5. /\ box \in BoxRecords /\ box.begin = Ends(file)[Cur] - file.boxes[Cur].size
      /\ box.unbounded = file.boxes[Cur].unbounded
      /\ ~box.unbounded => box.end = Ends(file)[Cur] /\ box.size = file.boxes[Cur].size
      /\ box.unbounded => box.end = 0 /\ box.size = 0
      /\ box.begin <= file_pos /\ file_pos <= Ends(file)[Cur]
  BY DEF PInv, HeaderInv, BoxRecords
<1>6. ~file.container => box.unbounded
  <2>1. SUFFICES ASSUME ~file.container PROVE box.unbounded
    OBVIOUS
  <2>2. Cur = 1 /\ file.boxes[1].unbounded
    BY <1>1, <2>1 DEF Cur, IsFile
  <2> QED BY <1>5, <2>2
<1>7. box.unbounded => Cur = Len(file.boxes) /\ Ends(file)[Cur] = FileSize(file)
  <2>1. file.boxes[Cur].unbounded => Cur = Len(file.boxes)
    BY <1>1, <1>2, FileBoxes
  <2> QED BY <1>5, <2>1 DEF FileSize
<1>8. file_pos \in Nat /\ avail_in \in Nat
  BY DEF PInv, InputInv
<1> QED BY <1>1, <1>2, <1>3, <1>4, <1>5, <1>6, <1>7, <1>8

\* A step that reads on in the current box.
LEMMA InBoxStep ==
  ASSUME PInv, pc # "Application", box_stage # "kHeader", box_stage' # "kHeader",
         NEW n \in 0..avail_in, AdvanceInput(n), file_pos + n <= Ends(file)[Cur],
         UNCHANGED <<application, box_count, box, got_signature, have_container>>
  PROVE  InputInv' /\ HeaderInv' /\ Cur' = Cur /\ CodestreamBegin' = CodestreamBegin
<1>1. Live /\ got_signature
  BY LiveFacts
<1>2. InputInv' /\ file_pos' = file_pos + n
  BY AdvanceFacts DEF PInv
<1>3. Cur' = Cur /\ CodestreamBegin' = CodestreamBegin
  BY DEF Cur, CodestreamBegin, application
<1>4. box.begin <= file_pos' /\ file_pos' <= Ends(file)[Cur]
  <2>1. box.begin <= file_pos /\ file_pos \in Nat /\ box.begin \in Nat
    BY <1>1, CurFacts DEF BoxRecords
  <2> QED BY <1>2, <2>1
<1>5. HeaderInv'
  BY <1>1, <1>2, <1>3, <1>4 DEF PInv, HeaderInv, application
<1> QED BY <1>2, <1>3, <1>5

\* A step that reads up to the end of the current box.
LEMMA NextBoxStep ==
  ASSUME PInv, pc # "Application", box_stage # "kHeader", box_stage' = "kHeader", file.container,
         NEW n \in 0..avail_in, AdvanceInput(n), file_pos + n = Ends(file)[Cur],
         UNCHANGED <<application, box_count, box, got_signature, have_container, stage>>,
         pc' \notin {"Codestream", "CodestreamResult"},
         jpeg_decoder' \in JpegDecoders, ~jpeg_decoder'.inside_box,
         jpeg_decoder'.box_until_eof => box_count = Len(file.boxes),
         CanUseMoreCodestreamInput => codestream_copy' = Before(file, Cur)
  PROVE  PInv'
<1>1. Live /\ got_signature
  BY LiveFacts
<1>2. InputInv' /\ file_pos' = file_pos + n
  BY AdvanceFacts DEF PInv
<1>3. Cur = box_count /\ box_count \in 1..Len(file.boxes) /\ Len(file.boxes) \in Nat
  BY <1>1, CurFacts
<1>4. box_count \in 0..Len(file.boxes)
  BY <1>3
<1>5. HeaderInv'
  BY <1>1, <1>2, <1>3, <1>4 DEF PInv, HeaderInv, application
<1>6. StageInv'
  BY DEF StageInv
<1>7. JpegInv'
  BY DEF JpegInv, JpegDecoders, application
<1>8. CopyInv'
  BY <1>3 DEF CopyInv, CanUseMoreCodestreamInput, application
<1> QED BY <1>2, <1>5, <1>6, <1>7, <1>8 DEF PInv

\* A step after which the application stops.
LEMMA FinalStep ==
  ASSUME PInv, pc # "Application", pc' = "Application", status' \in Final, InputInv',
         UNCHANGED <<application, got_signature, have_container>>,
         box_count' \in Nat, box' \in BoxRecords, box_stage' \in BoxStages,
         jpeg_decoder' \in JpegDecoders,
         ~file.container => UNCHANGED <<box_count, box>>
  PROVE  PInv'
<1>1. ~Live'
  BY DEF Live
<1>2. HeaderInv'
  BY <1>1, LiveFacts DEF PInv, HeaderInv, application, BoxRecords
<1>3. StageInv'
  BY <1>1 DEF StageInv, BoxStages
<1>4. JpegInv'
  BY <1>1 DEF JpegInv, JpegDecoders
<1>5. CopyInv'
  BY <1>1 DEF CopyInv
<1> QED BY <1>2, <1>3, <1>4, <1>5 DEF PInv

\* JxlDecoderProcessInput() up to the box loop, and the input of the application.
LEMMA ProcessInputStep ==
  ASSUME PInv, ProcessInput
  PROVE  PInv'
<1> USE DEF application, input, boxes, jpeg, codestream
<1>0. Live /\ unread = 0
  BY DEF ProcessInput, Live, Final
<1>1. /\ UNCHANGED <<file, sent, unread, next_in, avail_in, file_pos, box_stage, box_count, box,
                     jpeg_decoder, codestream_copy>>
      /\ stage' = IF stage = "kInited" THEN "kStarted" ELSE stage
  BY DEF ProcessInput
<1>2. pc' \in {"Application", "Reconstruct", "OutputBox"}
  BY ContinuePc DEF ProcessInput, Return
<1>3. /\ pc' # "Application" => got_signature'
      /\ \/ UNCHANGED <<got_signature, have_container>>
         \/ ~got_signature /\ got_signature' /\ have_container' = file.container
  BY DEF ProcessInput, Return
<1>4. Cur' = Cur /\ CodestreamBegin' = CodestreamBegin
  BY <1>1 DEF Cur, CodestreamBegin
<1>5. InputInv'
  BY <1>0, <1>1 DEF PInv, InputInv
<1>6. HeaderInv'
  BY <1>0, <1>1, <1>2, <1>3, <1>4 DEF PInv, HeaderInv
<1>7. StageInv'
  BY <1>0, <1>1, <1>2, <1>4 DEF PInv, StageInv
<1>8. JpegInv'
  BY <1>0, <1>1 DEF PInv, JpegInv
<1>9. CopyInv'
  BY <1>0, <1>1, <1>4 DEF PInv, CopyInv, CanUseMoreCodestreamInput
<1> QED BY <1>5, <1>6, <1>7, <1>8, <1>9 DEF PInv

LEMMA InputStep ==
  ASSUME PInv, (\E n \in 0..MaxChunk : SetInput(n)) \/ ReleaseInput
  PROVE  PInv'
<1> USE DEF boxes, jpeg, codestream, seen
<1>1. Live /\ pc = "Application"
  BY LiveFacts DEF SetInput, ReleaseInput
<1>2. UNCHANGED <<file, file_pos, box_stage, box_count, box, jpeg_decoder, codestream_copy, stage,
                  got_signature, have_container, pc, status, result>>
  BY DEF SetInput, ReleaseInput
<1>3. InputInv'
  <2>0. FileSize(file) \in Nat
    <3>1. IsFile(file)
      BY TheFile DEF PInv
    <3>2. Len(file.boxes) \in 0..Len(file.boxes)
      BY <3>1, FileBoxes
    <3> QED BY <3>1, <3>2, EndsFacts DEF FileSize
  <2>1. ASSUME NEW n \in 0..MaxChunk, SetInput(n) PROVE InputInv'
    <3>1. n \in Nat
      BY SizesAssumption
    <3>2. /\ next_in = -1 /\ sent + n <= FileSize(file) /\ next_in' = sent - unread
          /\ avail_in' = unread + n /\ sent' = sent + n /\ unread' = 0
      BY <2>1 DEF SetInput
    <3>3. file \in Files /\ sent \in Nat /\ unread \in Nat /\ file_pos \in Nat /\ file_pos + unread = sent
      BY <2>0, <3>2 DEF PInv, InputInv
    <3>4. /\ next_in' = file_pos /\ next_in' # -1 /\ next_in' \in Int /\ avail_in' \in Nat
          /\ file_pos + avail_in' = sent' /\ sent' \in 0..FileSize(file)
      BY <2>0, <3>1, <3>2, <3>3
    <3> QED BY <1>2, <3>2, <3>3, <3>4 DEF InputInv
  <2>2. ASSUME ReleaseInput PROVE InputInv'
    BY <1>1, <1>2, <2>2 DEF PInv, InputInv, ReleaseInput
  <2> QED BY <2>1, <2>2
<1>4. Cur' = Cur /\ CodestreamBegin' = CodestreamBegin
  BY <1>2 DEF Cur, CodestreamBegin
<1>6. HeaderInv'
  BY <1>1, <1>2, <1>4 DEF PInv, HeaderInv
<1>7. StageInv'
  BY <1>1, <1>2, <1>4 DEF PInv, StageInv
<1>8. JpegInv'
  BY <1>1, <1>2 DEF PInv, JpegInv
<1>9. CopyInv'
  BY <1>1, <1>2, <1>4 DEF PInv, CopyInv, CanUseMoreCodestreamInput
<1> QED BY <1>3, <1>6, <1>7, <1>8, <1>9 DEF PInv

LEMMA ReadFtypStep ==
  ASSUME PInv, ReadFtyp
  PROVE  PInv'
<1> USE DEF application, input, boxes, jpeg, codestream, seen
<1>0. pc # "Application" /\ Live /\ box_stage = "kFtyp" /\ jpeg_decoder \in JpegDecoders
  BY LiveFacts DEF ReadFtyp
<1>00. SameBox(jpeg_decoder, jpeg_decoder)
  BY DEF SameBox
<1>1. CASE UNCHANGED <<input, boxes>> /\ pc' = "Application"
  BY <1>0, <1>00, <1>1, QuietStep DEF ReadFtyp, Quiet
<1>2. CASE /\ box.size >= 3 /\ avail_in >= 1 /\ AdvanceInput(1) /\ UNCHANGED <<input_closed, box_count, box>>
           /\ box_stage' = "kSkip" /\ Continue
  <2>1. ~box.unbounded /\ box.size = file.boxes[Cur].size /\ box.begin = Ends(file)[Cur] - box.size
    <3>1. box.unbounded \in BOOLEAN /\ (box.unbounded => box.size = 0)
      BY <1>0, CurFacts DEF BoxRecords
    <3>2. ~box.unbounded
      BY <1>2, <3>1
    <3> QED BY <1>0, <3>2, CurFacts
  <2>2. /\ file.container /\ file.boxes[Cur].type = "ftyp" /\ file_pos = box.begin
        /\ Ends(file)[Cur] \in Nat /\ avail_in \in Nat /\ file_pos \in Nat /\ box.size \in Nat
    BY <1>0, <2>1, CurFacts DEF PInv, StageInv, BoxRecords
  <2>3. file_pos + 1 <= Ends(file)[Cur] /\ 1 \in 0..avail_in
    BY <1>2, <2>1, <2>2
  <2>4. UNCHANGED <<application, box_count, box, got_signature, have_container, stage, jpeg_decoder,
                    codestream_copy>>
    BY <1>2 DEF ReadFtyp
  <2>5. InputInv' /\ HeaderInv' /\ Cur' = Cur
    BY <1>0, <1>2, <2>3, <2>4, InBoxStep
  <2>6. pc' \in {"Reconstruct", "OutputBox"}
    BY <1>2, ContinuePc
  <2>7. StageInv'
    BY <1>0, <1>2, <2>2, <2>4, <2>5, <2>6 DEF StageInv
  <2>8. JpegInv'
    BY <1>0, <1>2, <2>4 DEF PInv, JpegInv
  <2>9. CopyInv'
    BY <1>0, <1>2, <2>4, <2>5 DEF PInv, CopyInv, CanUseMoreCodestreamInput
  <2> QED BY <2>5, <2>7, <2>8, <2>9 DEF PInv
<1> QED BY <1>1, <1>2 DEF ReadFtyp, Return

LEMMA ReadPartialCodestreamStep ==
  ASSUME PInv, ReadPartialCodestream
  PROVE  PInv'
<1> USE DEF application, input, boxes, jpeg, codestream
<1>0. /\ pc # "Application" /\ Live /\ box_stage = "kPartialCodestream" /\ got_signature /\ unread = 0
      /\ jpeg_decoder \in JpegDecoders
  BY LiveFacts DEF ReadPartialCodestream
<1>00. SameBox(jpeg_decoder, jpeg_decoder)
  BY DEF SameBox
<1>1. CASE UNCHANGED <<input, boxes>> /\ pc' = "Application"
  BY <1>0, <1>00, <1>1, QuietStep DEF ReadPartialCodestream, Quiet
<1>2. CASE /\ avail_in >= 1 /\ (box.unbounded \/ box.size >= 1)
           /\ AdvanceInput(1) /\ UNCHANGED <<input_closed, box_count, box>>
           /\ box_stage' = "kCodestream" /\ Continue
  <2>1. /\ IsFile(file) /\ Cur \in 1..Len(file.boxes) /\ Len(file.boxes) \in Nat
        /\ file.boxes[Cur].type = "jxlp" /\ file_pos = box.begin
        /\ Ends(file)[Cur] \in Nat /\ avail_in \in Nat /\ file_pos \in Nat /\ box.size \in Nat
        /\ file.boxes[Cur].size \in Nat /\ box.begin = Ends(file)[Cur] - file.boxes[Cur].size
        /\ ~box.unbounded => box.size = file.boxes[Cur].size
        /\ box.unbounded => Ends(file)[Cur] = FileSize(file)
    BY <1>0, CurFacts DEF PInv, StageInv, BoxRecords
  <2>2. 1 \in 0..avail_in
    BY <1>2, <2>1
  <2>3. file_pos + 1 <= Ends(file)[Cur]
    <3>1. CASE box.unbounded
      <4>1. UNCHANGED application
        BY DEF ReadPartialCodestream
      <4>2. file_pos' = file_pos + 1 /\ file_pos' <= FileSize(file)
        BY <1>0, <1>2, <2>2, <4>1, AdvanceFacts DEF PInv
      <4> QED BY <2>1, <3>1, <4>2
    <3>2. CASE ~box.unbounded
      BY <1>2, <2>1, <3>2
    <3> QED BY <3>1, <3>2
  <2>4. UNCHANGED <<application, box_count, box, got_signature, have_container, stage, jpeg_decoder,
                    codestream_copy>>
    BY <1>2 DEF ReadPartialCodestream
  <2>5. InputInv' /\ HeaderInv' /\ Cur' = Cur /\ CodestreamBegin' = CodestreamBegin
    BY <1>0, <1>2, <2>2, <2>3, <2>4, InBoxStep
  <2>6. pc' \in {"Reconstruct", "OutputBox"}
    BY <1>2, ContinuePc
  <2>7. file_pos' = file_pos + 1 /\ CodestreamBegin = file_pos + 1
    BY <1>2, <2>1 DEF AdvanceInput, CodestreamBegin
  <2>8. StageInv'
    BY <1>0, <1>2, <2>1, <2>4, <2>5, <2>6, <2>7 DEF PInv, StageInv
  <2>9. JpegInv'
    BY <1>0, <1>2, <2>4 DEF PInv, JpegInv
  <2>10. CopyInv'
    <3>1. SUFFICES ASSUME CanUseMoreCodestreamInput
                   PROVE  codestream_copy = Before(file, Cur - 1) \o Run(CodestreamBegin, file_pos' - CodestreamBegin)
      BY <1>2, <2>4, <2>5 DEF CopyInv, CanUseMoreCodestreamInput
    <3>2. codestream_copy = Before(file, Cur - 1)
      BY <1>0, <3>1 DEF PInv, CopyInv
    <3>3. file_pos' - CodestreamBegin = 0 /\ CodestreamBegin \in Int
      BY <2>1, <2>7
    <3>4. Run(CodestreamBegin, file_pos' - CodestreamBegin) = <<>>
      BY <3>3, EmptyRun
    <3>5. Cur - 1 \in 0..Len(file.boxes)
      BY <2>1
    <3>6. Before(file, Cur - 1) \in Seq(Int)
      BY <2>1, <3>5, BeforeFacts
    <3> QED BY <3>2, <3>4, <3>6, ConcatEmptySeq
  <2> QED BY <2>5, <2>8, <2>9, <2>10 DEF PInv
<1> QED BY <1>1, <1>2 DEF ReadPartialCodestream, Return

LEMMA SkipBoxStep ==
  ASSUME PInv, SkipBox
  PROVE  PInv'
<1> USE DEF application, input, boxes, jpeg, codestream, seen
<1>0. /\ pc # "Application" /\ Live /\ box_stage = "kSkip" /\ got_signature /\ unread = 0
      /\ jpeg_decoder \in JpegDecoders
  BY LiveFacts DEF SkipBox
<1>00. SameBox(jpeg_decoder, jpeg_decoder)
  BY DEF SameBox
<1>1. CASE UNCHANGED <<input, boxes>> /\ pc' = "Application"
  BY <1>0, <1>00, <1>1, QuietStep DEF SkipBox, Quiet
<1>2. /\ IsFile(file) /\ Cur \in 1..Len(file.boxes) /\ Len(file.boxes) \in Nat
      /\ Ends(file)[Cur] \in Nat /\ avail_in \in Nat /\ file_pos \in Nat
      /\ file_pos <= Ends(file)[Cur]
      /\ ~box.unbounded => file.container /\ box.end = Ends(file)[Cur]
  BY <1>0, CurFacts
<1>3. UNCHANGED <<application, got_signature, have_container, stage, jpeg_decoder, codestream_copy>>
  BY DEF SkipBox
<1>4. CASE /\ ~box.unbounded /\ avail_in < box.end - file_pos
           /\ AdvanceInput(avail_in) /\ UNCHANGED <<input_closed, box_stage, box_count, box>>
           /\ pc' = "Application"
  <2>1. avail_in \in 0..avail_in /\ file_pos + avail_in <= Ends(file)[Cur]
    BY <1>2, <1>4
  <2>2. InputInv' /\ HeaderInv' /\ Cur' = Cur
    BY <1>0, <1>3, <1>4, <2>1, InBoxStep
  <2>3. StageInv'
    BY <1>0, <1>3, <1>4, <2>2 DEF PInv, StageInv
  <2>4. JpegInv'
    BY <1>0, <1>3, <1>4 DEF PInv, JpegInv
  <2>5. CopyInv'
    BY <1>0, <1>3, <1>4, <2>2 DEF PInv, CopyInv, CanUseMoreCodestreamInput
  <2> QED BY <2>2, <2>3, <2>4, <2>5 DEF PInv
<1>5. CASE /\ ~box.unbounded /\ avail_in >= box.end - file_pos
           /\ AdvanceInput(box.end - file_pos) /\ UNCHANGED <<input_closed, box_count, box>>
           /\ box_stage' = "kHeader" /\ Continue
  <2>1. /\ box.end - file_pos \in 0..avail_in /\ file_pos + (box.end - file_pos) = Ends(file)[Cur]
        /\ file.container
    BY <1>2, <1>5
  <2>2. pc' \in {"Reconstruct", "OutputBox"}
    BY <1>5, ContinuePc
  <2>3. ~jpeg_decoder.inside_box /\ (jpeg_decoder.box_until_eof => box_count = Len(file.boxes))
    BY <1>0 DEF PInv, JpegInv
  <2>4. CanUseMoreCodestreamInput => codestream_copy = Before(file, Cur)
    <3>1. SUFFICES ASSUME CanUseMoreCodestreamInput PROVE codestream_copy = Before(file, Cur)
      OBVIOUS
    <3>2. codestream_copy = Before(file, Cur - 1) /\ file.boxes[Cur].type \notin {"jxlc", "jxlp", "none"}
      BY <1>0, <3>1 DEF PInv, CopyInv, StageInv, CanUseMoreCodestreamInput
    <3>3. CodestreamIn(file, Cur) = <<>>
      BY <1>2, <3>2, CodestreamInFacts
    <3>4. Cur - 1 \in 0..Len(file.boxes)
      BY <1>2
    <3>5. Before(file, Cur) = Before(file, Cur - 1) \o CodestreamIn(file, Cur)
      BY <1>2, BeforeFacts
    <3>6. Before(file, Cur - 1) \in Seq(Int)
      BY <1>2, <3>4, BeforeFacts
    <3> QED BY <3>2, <3>3, <3>5, <3>6, ConcatEmptySeq
  <2> QED BY <1>0, <1>3, <1>5, <2>1, <2>2, <2>3, <2>4, NextBoxStep
<1> QED BY <1>1, <1>4, <1>5 DEF SkipBox, Return

\* What is appended from the input continues what was read.
LEMMA InputPart ==
  ASSUME InputInv, pc # "Application", NEW n \in 0..avail_in
  PROVE  SubSeq(Input, 1, n) = Run(file_pos, n)
<1>1. next_in \in Int /\ avail_in \in Nat /\ file_pos \in Int /\ n \in Nat /\ 1 \in Nat \ {0}
      /\ n <= avail_in /\ 1 <= n + 1
  BY DEF InputInv
<1>2. SubSeq(Run(next_in, avail_in), 1, n) = Run(next_in + 1 - 1, n - 1 + 1)
  BY <1>1, RunPart
<1>3. next_in + 1 - 1 = next_in /\ n - 1 + 1 = n
  BY <1>1
<1>4. SubSeq(Input, 1, n) = Run(next_in, n)
  BY <1>2, <1>3 DEF Input
<1>5. CASE next_in = -1
  <2>1. n = 0
    BY <1>5 DEF InputInv
  <2> QED BY <1>1, <1>4, <2>1, EmptyRun
<1>6. CASE next_in # -1
  BY <1>4, <1>6 DEF InputInv
<1> QED BY <1>5, <1>6

IsConcat(c, p, q) == c = p \o q

LEMMA RunAppend ==
  ASSUME NEW p \in Seq(Int), NEW a \in Int, NEW m \in Nat, NEW b \in Int, NEW n \in Nat, b = a + m,
         NEW c, IsConcat(c, p, Run(a, m))
  PROVE  IsConcat(c \o Run(b, n), p, Run(a, m + n))
<1> DEFINE x == Run(a, m)
           y == Run(b, n)
           z == Run(a, m + n)
<1>1. x \o y = z
  BY RunConcat
<1>2. c = p \o x
  BY DEF IsConcat
<1> HIDE DEF x, y, z
<1>3. c \o y = (p \o x) \o y
  BY <1>2, Zenon
<1>4. (p \o x) \o y = p \o (x \o y)
  OBVIOUS
<1>5. p \o (x \o y) = p \o z
  BY <1>1, Zenon
<1>6. c \o y = p \o z
  BY <1>3, <1>4, <1>5, Zenon
<1> QED BY <1>6 DEF y, z, IsConcat

\* The part of the input that belongs to the codestream box.
LEMMA AvailCodestreamFacts ==
  ASSUME PInv, Live, box_stage = "kCodestream", pc # "Application"
  PROVE  AvailCodestream \in 0..avail_in /\ file_pos + AvailCodestream <= Ends(file)[Cur]
<1>1. /\ avail_in \in Nat /\ file_pos \in Nat /\ Ends(file)[Cur] \in Nat /\ file_pos <= Ends(file)[Cur]
      /\ box.unbounded => Ends(file)[Cur] = FileSize(file)
      /\ ~box.unbounded => box.end = Ends(file)[Cur]
  BY CurFacts
<1>2. CASE box.unbounded
  <2>1. AvailCodestream = avail_in
    BY <1>2 DEF AvailCodestream
  <2>2. file_pos + avail_in = sent /\ sent <= FileSize(file)
    BY <1>1, <1>2 DEF PInv, InputInv
  <2> QED BY <1>1, <1>2, <2>1, <2>2
<1>3. CASE ~box.unbounded
  BY <1>1, <1>3 DEF AvailCodestream, Min2
<1> QED BY <1>2, <1>3

\* The codestream of the current box that is in the copy.
LEMMA CopyFacts ==
  ASSUME PInv, Live, box_stage = "kCodestream", CanUseMoreCodestreamInput
  PROVE  /\ Before(file, Cur - 1) \in Seq(Int) /\ CodestreamBegin \in Nat
         /\ file_pos - CodestreamBegin \in Nat
         /\ codestream_copy = Before(file, Cur - 1) \o Run(CodestreamBegin, file_pos - CodestreamBegin)
<1>1. IsFile(file) /\ Cur \in 1..Len(file.boxes) /\ Len(file.boxes) \in Nat /\ box.begin \in Nat /\ file_pos \in Nat
  BY CurFacts DEF BoxRecords
<1>2. Cur - 1 \in 0..Len(file.boxes)
  BY <1>1
<1>3. Before(file, Cur - 1) \in Seq(Int)
  BY <1>1, <1>2, BeforeFacts
<1>4. CodestreamBegin \in Nat
  BY <1>1 DEF CodestreamBegin
<1>5. CodestreamBegin <= file_pos
  BY DEF PInv, StageInv
<1> QED BY <1>1, <1>3, <1>4, <1>5 DEF PInv, CopyInv

\* All of the codestream of a box.
LEMMA CodestreamBoxEnd ==
  ASSUME NEW f, IsFile(f), NEW i \in 1..Len(f.boxes), f.boxes[i].type \in {"jxlc", "jxlp", "none"},
         NEW b, b = Ends(f)[i] - f.boxes[i].size + (IF f.boxes[i].type = "jxlp" THEN 1 ELSE 0),
         b <= Ends(f)[i]
  PROVE  Before(f, i) = Before(f, i - 1) \o Run(b, Ends(f)[i] - b)
<1> DEFINE n == f.boxes[i].size
           e == Ends(f)[i]
<1>1. n \in Nat /\ e \in Nat
  BY ContentsFacts
<1>2. CodestreamIn(f, i) = Run(b, e - b)
  <2>1. CASE f.boxes[i].type = "jxlp"
    <3>1. n >= 1 /\ b = (e - n) + 1 /\ e - b = n - 1
      BY <1>1, <2>1
    <3>2. CodestreamIn(f, i) = Run((e - n) + 1, n - 1)
      BY <2>1, <3>1, CodestreamInFacts
    <3> QED BY <3>1, <3>2
  <2>2. CASE f.boxes[i].type # "jxlp"
    <3>1. b = e - n /\ e - b = n
      BY <1>1, <2>2
    <3>2. CodestreamIn(f, i) = Run(e - n, n)
      BY <2>2, CodestreamInFacts
    <3> QED BY <3>1, <3>2
  <2> QED BY <2>1, <2>2
<1>3. Before(f, i) = Before(f, i - 1) \o CodestreamIn(f, i)
  BY BeforeFacts
<1> QED BY <1>2, <1>3

\* A step in a codestream box that takes part of the input into the copy.
LEMMA CopyStep ==
  ASSUME PInv, Live, pc # "Application", box_stage = "kCodestream", NEW n \in 0..avail_in,
         codestream_copy' = codestream_copy \o SubSeq(Input, 1, n), CanUseMoreCodestreamInput,
         file_pos' = file_pos + n
  PROVE  codestream_copy' = Before(file, Cur - 1)
                              \o Run(CodestreamBegin, file_pos' - CodestreamBegin)
<1> DEFINE p == Before(file, Cur - 1)
           a == CodestreamBegin
           m == file_pos - CodestreamBegin
<1>1. p \in Seq(Int) /\ a \in Int /\ m \in Nat /\ codestream_copy = p \o Run(a, m)
  BY CopyFacts
<1>2. n \in Nat /\ file_pos \in Int /\ file_pos = a + m /\ m + n = file_pos' - CodestreamBegin
  <2>1. file_pos \in Nat /\ CodestreamBegin \in Nat /\ avail_in \in Nat
    BY CopyFacts DEF PInv, InputInv
  <2> QED BY <2>1
<1>3. SubSeq(Input, 1, n) = Run(file_pos, n)
  BY InputPart DEF PInv
<1> HIDE DEF p, a, m
<1>4. IsConcat(codestream_copy, p, Run(a, m))
  BY <1>1 DEF IsConcat
<1>5. IsConcat(codestream_copy \o Run(file_pos, n), p, Run(a, m + n))
  BY <1>1, <1>2, <1>4, RunAppend
<1>6. codestream_copy' = p \o Run(a, m + n)
  BY <1>3, <1>5, Zenon DEF IsConcat
<1> QED BY <1>2, <1>6 DEF p, a

LEMMA EnterCodestreamStep ==
  ASSUME PInv, EnterCodestream
  PROVE  PInv'
<1> USE DEF application, input, boxes, jpeg, codestream, seen, Goto
<1>0. /\ pc # "Application" /\ Live /\ box_stage = "kCodestream" /\ got_signature /\ unread = 0
      /\ jpeg_decoder \in JpegDecoders
  BY LiveFacts DEF EnterCodestream
<1>1. CASE UNCHANGED <<codestream_copy, next_in, avail_in, file_pos>>
  <2>1. SameBox(jpeg_decoder, jpeg_decoder)
    BY DEF SameBox
  <2> QED BY <1>0, <1>1, <2>1, QuietStep DEF EnterCodestream, Quiet
<1>2. CASE /\ codestream_copy' = codestream_copy \o SubSeq(Input, 1, AvailCodestream)
           /\ AdvanceInput(AvailCodestream)
  <2> DEFINE n == AvailCodestream
  <2>1. n \in 0..avail_in /\ file_pos + n <= Ends(file)[Cur]
    BY <1>0, AvailCodestreamFacts
  <2>2. /\ UNCHANGED <<application, box_stage, box_count, box, got_signature, have_container, stage,
                       jpeg_decoder>>
        /\ pc' = "Codestream"
    BY DEF EnterCodestream
  <2>3. codestream_copy' = codestream_copy \o SubSeq(Input, 1, n) /\ AdvanceInput(n)
    BY <1>2
  <2> HIDE DEF n
  <2>4. InputInv' /\ HeaderInv' /\ Cur' = Cur /\ CodestreamBegin' = CodestreamBegin
    BY <1>0, <2>1, <2>2, <2>3, InBoxStep
  <2>5. file_pos' = file_pos + n /\ CodestreamBegin <= file_pos'
    <3>1. CodestreamBegin <= file_pos /\ file_pos \in Nat /\ avail_in \in Nat /\ CodestreamBegin \in Nat
      <4>1. box.begin \in Nat /\ file_pos \in Nat /\ avail_in \in Nat
        BY <1>0, CurFacts DEF BoxRecords
      <4> QED BY <1>0, <4>1 DEF PInv, StageInv, CodestreamBegin
    <3>2. file_pos' = file_pos + n
      BY <2>3 DEF AdvanceInput
    <3> QED BY <2>1, <3>1, <3>2
  <2>6. StageInv'
    BY <1>0, <2>2, <2>4, <2>5 DEF PInv, StageInv
  <2>7. JpegInv'
    BY <1>0, <2>2 DEF PInv, JpegInv
  <2>8. CopyInv'
    <3>1. SUFFICES ASSUME CanUseMoreCodestreamInput
                   PROVE  codestream_copy' = Before(file, Cur - 1)
                            \o Run(CodestreamBegin, file_pos' - CodestreamBegin)
      BY <1>0, <2>2, <2>4 DEF CopyInv, CanUseMoreCodestreamInput
    <3> QED BY <1>0, <2>1, <2>3, <2>5, <3>1, CopyStep
  <2> QED BY <2>4, <2>6, <2>7, <2>8 DEF PInv
<1> QED BY <1>1, <1>2 DEF EnterCodestream

\* A step that reads codestream and stays in the box or leaves it at its end.
LEMMA CopyAndReadOnStep ==
  ASSUME PInv, CopyAndReadOn
  PROVE  PInv'
<1> USE DEF application, input, jpeg, codestream, seen
<1>0. /\ pc # "Application" /\ Live /\ box_stage = "kCodestream" /\ got_signature /\ unread = 0
      /\ jpeg_decoder \in JpegDecoders
  BY LiveFacts DEF CopyAndReadOn
<1>1. /\ UNCHANGED <<application, box_count, box, got_signature, have_container, stage, jpeg_decoder>>
      /\ IF file_pos' = box.end
         THEN box_stage' = "kHeader" /\ Continue
         ELSE pc' = "Application" /\ UNCHANGED box_stage
  BY DEF CopyAndReadOn, StageAtBoxEnd, Return
<1>2. PICK n \in 0..avail_in :
         /\ file_pos + n <= Ends(file)[Cur] /\ AdvanceInput(n)
         /\ CanUseMoreCodestreamInput =>
              codestream_copy' = Before(file, Cur - 1)
                                   \o Run(CodestreamBegin, file_pos' - CodestreamBegin)
  <2>1. CASE codestream_copy = <<>> /\ codestream_copy' = SubSeq(Input, 1, AvailCodestream)
               /\ AdvanceInput(AvailCodestream)
    <3> DEFINE n == AvailCodestream
    <3>1. n \in 0..avail_in /\ file_pos + n <= Ends(file)[Cur]
      BY <1>0, AvailCodestreamFacts
    <3>2. AdvanceInput(n) /\ codestream_copy' = SubSeq(Input, 1, n)
      BY <2>1
    <3> HIDE DEF n
    <3>3. codestream_copy' = codestream_copy \o SubSeq(Input, 1, n)
      <4>1. SubSeq(Input, 1, n) = Run(file_pos, n)
        BY <1>0, <3>1, InputPart DEF PInv
      <4>2. n \in Nat /\ file_pos \in Int
        BY <3>1 DEF PInv, InputInv
      <4>3. Run(file_pos, n) \in Seq(Int)
        BY <4>2, RunFacts
      <4> QED BY <2>1, <3>2, <4>1, <4>3, ConcatEmptySeq
    <3>4. CanUseMoreCodestreamInput =>
              codestream_copy' = Before(file, Cur - 1)
                                   \o Run(CodestreamBegin, file_pos' - CodestreamBegin)
      BY <1>0, <3>1, <3>2, <3>3, CopyStep DEF AdvanceInput
    <3> QED BY <3>1, <3>2, <3>4
  <2>2. CASE UNCHANGED <<codestream_copy, next_in, avail_in, file_pos>>
    <3>1. avail_in \in Nat /\ file_pos \in Nat /\ next_in \in Int /\ file_pos <= Ends(file)[Cur]
      BY <1>0, CurFacts DEF PInv, InputInv
    <3>2. 0 \in 0..avail_in /\ file_pos + 0 = file_pos /\ AdvanceInput(0)
      BY <2>2, <3>1 DEF AdvanceInput
    <3>3. CanUseMoreCodestreamInput =>
              codestream_copy' = Before(file, Cur - 1)
                                   \o Run(CodestreamBegin, file_pos' - CodestreamBegin)
      <4>1. file_pos' = file_pos /\ codestream_copy' = codestream_copy
        BY <2>2
      <4> QED BY <1>0, <4>1, CopyFacts
    <3> QED BY <3>1, <3>2, <3>3
  <2> QED BY <2>1, <2>2 DEF CopyAndReadOn
<1>3. file_pos' = file_pos + n
  BY <1>2 DEF AdvanceInput
<1>4. /\ IsFile(file) /\ Len(file.boxes) \in Nat /\ Cur \in 1..Len(file.boxes) /\ Ends(file)[Cur] \in Nat
      /\ file_pos \in Nat /\ avail_in \in Nat /\ box.begin \in Nat
      /\ box.begin = Ends(file)[Cur] - file.boxes[Cur].size
      /\ box.begin <= file_pos
      /\ file.container => Cur = box_count
      /\ ~file.container => box.unbounded
      /\ box.unbounded => box.end = 0
      /\ ~box.unbounded => box.end = Ends(file)[Cur]
      /\ file.boxes[Cur].type \in {"jxlc", "jxlp", "none"} /\ CodestreamBegin <= file_pos
  BY <1>0, CurFacts DEF BoxRecords, PInv, StageInv
<1>5. CASE file_pos' # box.end
  <2>1. box_stage' = box_stage /\ pc' = "Application"
    BY <1>1, <1>5
  <2>2. InputInv' /\ HeaderInv' /\ Cur' = Cur /\ CodestreamBegin' = CodestreamBegin
    BY <1>0, <1>1, <1>2, <2>1, InBoxStep
  <2>3. CodestreamBegin <= file_pos'
    BY <1>2, <1>3, <1>4 DEF CodestreamBegin
  <2>4. StageInv'
    BY <1>0, <1>1, <2>1, <2>2, <2>3 DEF PInv, StageInv
  <2>5. JpegInv'
    BY <1>0, <1>1, <2>1 DEF PInv, JpegInv
  <2>6. CopyInv'
    <3>1. SUFFICES ASSUME CanUseMoreCodestreamInput
                   PROVE  codestream_copy' = Before(file, Cur - 1)
                            \o Run(CodestreamBegin, file_pos' - CodestreamBegin)
      BY <1>0, <1>1, <2>1, <2>2 DEF CopyInv, CanUseMoreCodestreamInput
    <3> QED BY <1>2, <3>1
  <2> QED BY <2>2, <2>4, <2>5, <2>6 DEF PInv
<1>6. CASE file_pos' = box.end /\ ~box.unbounded
  <2>1. box_stage' = "kHeader" /\ Continue
    BY <1>1, <1>6
  <2>2. pc' \in {"Reconstruct", "OutputBox"}
    BY <2>1, ContinuePc
  <2>3. file.container /\ file_pos + n = Ends(file)[Cur]
    BY <1>3, <1>4, <1>6
  <2>4. ~jpeg_decoder.inside_box /\ (jpeg_decoder.box_until_eof => box_count = Len(file.boxes))
    BY <1>0 DEF PInv, JpegInv
  <2>5. CanUseMoreCodestreamInput => codestream_copy' = Before(file, Cur)
    <3>1. CodestreamBegin <= Ends(file)[Cur]
      BY <1>2, <1>3, <1>4, <2>3 DEF CodestreamBegin
    <3>2. CodestreamBegin = Ends(file)[Cur] - file.boxes[Cur].size
                              + (IF file.boxes[Cur].type = "jxlp" THEN 1 ELSE 0)
      BY <1>4 DEF CodestreamBegin
    <3>3. Before(file, Cur) = Before(file, Cur - 1) \o Run(CodestreamBegin, Ends(file)[Cur] - CodestreamBegin)
      <4> DEFINE b == CodestreamBegin
                 i == Cur
      <4>1. /\ b = Ends(file)[i] - file.boxes[i].size + (IF file.boxes[i].type = "jxlp" THEN 1 ELSE 0)
            /\ b <= Ends(file)[i] /\ i \in 1..Len(file.boxes) /\ IsFile(file)
            /\ file.boxes[i].type \in {"jxlc", "jxlp", "none"}
        BY <1>4, <3>1, <3>2
      <4> HIDE DEF b, i
      <4>2. Before(file, i) = Before(file, i - 1) \o Run(b, Ends(file)[i] - b)
        BY <4>1, CodestreamBoxEnd
      <4> QED BY <4>2 DEF b, i
    <3>4. SUFFICES ASSUME CanUseMoreCodestreamInput PROVE codestream_copy' = Before(file, Cur)
      OBVIOUS
    <3>5. codestream_copy' = Before(file, Cur - 1) \o Run(CodestreamBegin, file_pos' - CodestreamBegin)
      BY <1>2, <3>4
    <3>6. file_pos' = Ends(file)[Cur]
      BY <1>3, <2>3
    <3> QED BY <3>3, <3>5, <3>6
  <2> QED BY <1>0, <1>1, <1>2, <2>1, <2>2, <2>3, <2>4, <2>5, NextBoxStep
<1>7. CASE file_pos' = box.end /\ box.unbounded
  <2>1. n = 0 /\ file_pos = 0 /\ file_pos' = 0 /\ box.begin = 0
    BY <1>2, <1>3, <1>4, <1>7
  <2>2. ~file.container
    <3>1. SUFFICES ASSUME file.container PROVE FALSE
      OBVIOUS
    <3>2. /\ Ends(file)[Cur - 1] + file.boxes[Cur].header = box.begin /\ Ends(file)[Cur - 1] \in Nat
          /\ file.boxes[Cur].header \in Nat
      BY <1>4, ContentsFacts
    <3>3. file.boxes[Cur].header > 0
      BY <1>4, <3>1, FileBoxes
    <3> QED BY <2>1, <3>2, <3>3
  <2>3. box_stage' = "kHeader" /\ Continue
    BY <1>1, <1>7
  <2>4. pc' \in {"Reconstruct", "OutputBox"}
    BY <2>3, ContinuePc
  <2>5. InputInv'
    BY <1>0, <1>1, <1>2, AdvanceFacts DEF PInv
  <2>6. box_count = 0 /\ Ends(file)[0] = 0 /\ Before(file, 0) = <<>>
    BY <1>4, <2>2, EndsFacts, BeforeFacts DEF PInv, HeaderInv
  <2>7. HeaderInv'
    BY <1>0, <1>1, <1>4, <2>1, <2>2, <2>3, <2>6 DEF PInv, HeaderInv
  <2>8. StageInv'
    BY <1>1, <2>2, <2>3, <2>4 DEF StageInv
  <2>9. JpegInv'
    BY <1>0, <1>1, <2>3 DEF PInv, JpegInv
  <2>10. CopyInv'
    <3>1. SUFFICES ASSUME CanUseMoreCodestreamInput PROVE codestream_copy' = Before(file, 0)
      BY <1>1, <2>3, <2>6 DEF CopyInv, CanUseMoreCodestreamInput
    <3>2. Cur = 1 /\ CodestreamBegin = 0
      <4>1. Cur = 1 /\ file.boxes[1].type = "none"
        BY <1>4, <2>2 DEF Cur, IsFile
      <4> QED BY <2>1, <4>1 DEF CodestreamBegin
    <3>3. codestream_copy' = Before(file, 0) \o Run(0, 0)
      BY <1>2, <2>1, <3>1, <3>2
    <3>4. Run(0, 0) = <<>>
      BY EmptyRun
    <3>5. <<>> \in Seq(Int)
      BY EmptySeq
    <3> QED BY <2>6, <3>3, <3>4, <3>5, ConcatEmptySeq
  <2> QED BY <2>5, <2>7, <2>8, <2>9, <2>10 DEF PInv
<1> QED BY <1>5, <1>6, <1>7

LEMMA AfterCodestreamStep ==
  ASSUME PInv, AfterCodestream
  PROVE  PInv'
<1> USE DEF application, input, jpeg, codestream, seen
<1>0. /\ pc # "Application" /\ Live /\ box_stage = "kCodestream" /\ got_signature /\ unread = 0
      /\ jpeg_decoder \in JpegDecoders /\ stage = "kCodestreamFinished"
  BY LiveFacts DEF AfterCodestream, PInv, StageInv
<1>1. UNCHANGED <<application, box_count, box, got_signature, have_container, stage, jpeg_decoder>>
  BY DEF AfterCodestream
<1>2. CASE MoreBoxes
  <2>1. box_stage' = "kSkip" /\ Continue /\ UNCHANGED <<next_in, avail_in, file_pos>>
    BY <1>2 DEF AfterCodestream
  <2>2. avail_in \in Nat /\ file_pos \in Nat /\ next_in \in Int /\ file_pos <= Ends(file)[Cur]
    BY <1>0, CurFacts DEF PInv, InputInv
  <2>3. 0 \in 0..avail_in /\ file_pos + 0 <= Ends(file)[Cur] /\ AdvanceInput(0)
    BY <2>1, <2>2 DEF AdvanceInput
  <2>4. InputInv' /\ HeaderInv' /\ Cur' = Cur
    BY <1>0, <1>1, <2>1, <2>3, InBoxStep
  <2>5. pc' \in {"Reconstruct", "OutputBox"}
    BY <2>1, ContinuePc
  <2>6. StageInv'
    BY <1>0, <1>1, <2>1, <2>4, <2>5 DEF PInv, StageInv
  <2>7. JpegInv'
    BY <1>0, <1>1, <2>1 DEF PInv, JpegInv
  <2>8. CopyInv'
    BY <1>0, <1>1 DEF CopyInv, CanUseMoreCodestreamInput
  <2> QED BY <2>4, <2>6, <2>7, <2>8 DEF PInv
<1>3. CASE ~MoreBoxes
  <2>1. AdvanceInput(avail_in) /\ Return("SUCCESS") /\ UNCHANGED box_stage
    BY <1>3 DEF AfterCodestream
  <2>2. Checked("SUCCESS") \in Final
    BY <1>0 DEF Checked, CanUseMoreCodestreamInput, Final
  <2>3. status' \in Final /\ pc' = "Application"
    BY <2>1, <2>2 DEF Return
  <2>4. avail_in \in 0..avail_in /\ box \in BoxRecords /\ box_count \in Nat
    BY <1>0, CurFacts DEF PInv, HeaderInv
  <2>5. InputInv'
    BY <1>0, <1>1, <2>1, <2>4, AdvanceFacts DEF PInv
  <2>6. box_stage' \in BoxStages
    BY <1>0, <2>1 DEF BoxStages
  <2> QED BY <1>0, <1>1, <2>3, <2>4, <2>5, <2>6, FinalStep
<1> QED BY <1>2, <1>3

LEMMA StartCodestreamStep ==
  ASSUME PInv, StartCodestream
  PROVE  PInv'
<1> USE DEF application, input, jpeg, codestream, seen
<1>0. /\ pc # "Application" /\ Live /\ box_stage = "kHeader" /\ got_signature /\ unread = 0
      /\ jpeg_decoder \in JpegDecoders /\ ~have_container
  BY LiveFacts DEF StartCodestream
<1>1. UNCHANGED <<application, next_in, avail_in, got_signature, have_container, stage, jpeg_decoder,
                  codestream_copy>>
  BY DEF StartCodestream
<1>2. CASE stage = "kCodestreamFinished"
  <2>1. SameBox(jpeg_decoder, jpeg_decoder)
    BY DEF SameBox
  <2>2. UNCHANGED boxes /\ pc' = "Application"
    BY <1>2 DEF StartCodestream, Return
  <2> QED BY <1>0, <1>1, <2>1, <2>2, QuietStep DEF Quiet
<1>3. CASE stage # "kCodestreamFinished"
  <2>1. /\ box_stage' = "kCodestream" /\ box' = [box EXCEPT !.unbounded = TRUE] /\ Continue
        /\ UNCHANGED <<file_pos, box_count>>
    BY <1>3 DEF StartCodestream
  <2>2. pc' \in {"Reconstruct", "OutputBox"}
    BY <2>1, ContinuePc
  <2>3. /\ ~file.container /\ box_count = 0 /\ box.begin = 0 /\ box.end = 0 /\ box.size = 0
        /\ box \in BoxRecords /\ file_pos = Ends(file)[0]
    BY <1>0 DEF PInv, HeaderInv, BoxRecords
  <2>4. box' \in BoxRecords /\ box'.begin = 0 /\ box'.end = 0 /\ box'.size = 0 /\ box'.unbounded
    BY <2>1, <2>3 DEF BoxRecords
  <2>5. /\ IsFile(file) /\ Len(file.boxes) = 1 /\ file.boxes[1].type = "none"
        /\ file.boxes[1].header = 0 /\ file.boxes[1].unbounded
    BY <2>3, TheFile DEF PInv, IsFile
  <2>6. 1 \in 1..Len(file.boxes)
    BY <2>5
  <2>7. /\ Ends(file)[0] = 0 /\ Ends(file)[1] = file.boxes[1].size
        /\ file.boxes[1].size \in Nat /\ Ends(file)[1] - file.boxes[1].size = 0
    <3>1. Ends(file)[0] = 0
      BY <2>5, EndsFacts
    <3>2. /\ file.boxes[1].size \in Nat /\ Ends(file)[1 - 1] + file.boxes[1].header = Ends(file)[1] - file.boxes[1].size
          /\ Ends(file)[1] \in Nat
      BY <2>5, <2>6, ContentsFacts
    <3> QED BY <2>5, <3>1, <3>2
  <2>8. Cur' = 1 /\ CodestreamBegin' = 0
    BY <1>1, <2>3, <2>4, <2>5 DEF Cur, CodestreamBegin
  <2>9. InputInv'
    BY <1>0, <1>1, <2>1 DEF PInv, InputInv
  <2>10. HeaderInv'
    <3>1. file'.boxes[Cur'].unbounded = TRUE
      BY <1>1, <2>5, <2>8, FileBoxes, <2>6
    <3>2. box'.unbounded = TRUE
      BY <2>4 DEF BoxRecords
    <3>3. /\ pc' # "Application" => got_signature'
          /\ got_signature' /\ have_container' = file'.container
          /\ box_count' \in Nat /\ box' \in [begin : Nat, end : Nat, size : Nat, unbounded : BOOLEAN]
          /\ box_count' = 0 /\ box'.begin = 0 /\ box'.end = 0 /\ box'.size = 0
      BY <1>0, <1>1, <2>1, <2>3, <2>4 DEF PInv, HeaderInv, BoxRecords
    <3>4. /\ Cur' \in 1..Len(file'.boxes)
          /\ box'.begin = Ends(file')[Cur'] - file'.boxes[Cur'].size
          /\ box'.begin <= file_pos' /\ file_pos' <= Ends(file')[Cur']
      BY <1>1, <2>1, <2>3, <2>4, <2>6, <2>7, <2>8
    <3> QED BY <2>1, <3>1, <3>2, <3>3, <3>4 DEF HeaderInv
  <2>11. StageInv'
    BY <1>1, <2>1, <2>2, <2>3, <2>5, <2>7, <2>8 DEF StageInv
  <2>12. JpegInv'
    BY <1>0, <1>1, <2>1 DEF PInv, JpegInv
  <2>13. CopyInv'
    <3>1. codestream_copy = Before(file, 0) /\ Before(file, 0) = <<>>
      BY <1>0, <1>3, <2>3, <2>5, BeforeFacts DEF PInv, CopyInv, CanUseMoreCodestreamInput
    <3>2. Run(0, 0) = <<>> /\ <<>> \in Seq(Int)
      BY EmptyRun, EmptySeq
    <3>3. codestream_copy = Before(file, 0) \o Run(0, 0)
      BY <3>1, <3>2, ConcatEmptySeq
    <3>4. file_pos' - CodestreamBegin' = 0 /\ Cur' - 1 = 0
      BY <2>1, <2>3, <2>7, <2>8
    <3> QED BY <1>1, <2>1, <2>8, <3>3, <3>4 DEF CopyInv
  <2> QED BY <2>9, <2>10, <2>11, <2>12, <2>13 DEF PInv
<1> QED BY <1>2, <1>3

LEMMA ReadBoxHeaderStep ==
  ASSUME PInv, ReadBoxHeader
  PROVE  PInv'
<1> USE DEF application, jpeg, codestream
<1> DEFINE h == HeaderAt(next_in)
           need == h.header + (IF h.type = "brob" THEN 1 ELSE 0)
           i == box_count
<1>0. /\ pc # "Application" /\ Live /\ box_stage = "kHeader" /\ got_signature /\ unread = 0
      /\ jpeg_decoder \in JpegDecoders /\ have_container /\ avail_in > 0
  BY LiveFacts DEF ReadBoxHeader
<1>1. UNCHANGED <<application, got_signature, have_container, stage, jpeg_decoder, codestream_copy>>
  BY DEF ReadBoxHeader
<1>2. /\ file.container /\ IsFile(file) /\ box_count \in Nat /\ box \in BoxRecords
      /\ file_pos = Ends(file)[i] /\ i \in 0..Len(file.boxes) /\ Len(file.boxes) \in Nat
      /\ next_in = file_pos /\ avail_in \in Nat /\ file_pos \in Nat /\ file_pos + avail_in = sent
  <2>1. IsFile(file) /\ Len(file.boxes) \in Nat
    BY TheFile, FileBoxes DEF PInv
  <2>2. next_in = file_pos /\ avail_in \in Nat /\ file_pos \in Nat /\ file_pos + avail_in = sent
    BY <1>0 DEF PInv, InputInv
  <2>3. /\ file.container /\ box_count \in Nat /\ box \in BoxRecords
        /\ file_pos = Ends(file)[i] /\ i \in 0..Len(file.boxes)
    <3>1. have_container = file.container
      BY <1>0 DEF PInv, HeaderInv
    <3>2. file.container \in BOOLEAN
      BY <2>1 DEF IsFile
    <3> QED BY <1>0, <3>1, <3>2 DEF PInv, HeaderInv, BoxRecords
  <2> QED BY <2>1, <2>2, <2>3
<1>3. i \in 0..Len(file.boxes) - 1
  <2>1. SUFFICES ASSUME i = Len(file.boxes) PROVE FALSE
    BY <1>2
  <2>2. file_pos = FileSize(file) /\ sent <= FileSize(file)
    BY <1>2, <2>1 DEF FileSize, PInv, InputInv
  <2> QED BY <1>0, <1>2, <2>2
<1>4. i + 1 \in 1..Len(file.boxes) /\ h = file.boxes[i + 1]
  BY <1>2, <1>3, HeaderAtEnd
<1> HIDE DEF h
<1>5. CASE UNCHANGED <<input, boxes>> /\ pc' = "Application"
  <2>1. SameBox(jpeg_decoder, jpeg_decoder)
    BY DEF SameBox
  <2> QED BY <1>0, <1>1, <1>5, <2>1, QuietStep DEF Quiet, input
<1>6. CASE /\ box_count' = box_count + 1 /\ Return("ERROR")
           /\ UNCHANGED <<input, file_pos, box_stage, box>>
  <2>1. status' \in Final /\ pc' = "Application"
    BY <1>6 DEF Return, Checked, Final
  <2>2. InputInv'
    BY <1>0, <1>1, <1>6 DEF PInv, InputInv, input
  <2>3. box_count' \in Nat /\ box_stage' \in BoxStages
    BY <1>0, <1>2, <1>6 DEF BoxStages
  <2> QED BY <1>0, <1>1, <1>2, <1>6, <2>1, <2>2, <2>3, FinalStep
<1> DEFINE rejected == \/ h.type = "jxlc" /\ last_codestream_seen
                       \/ StageOf(h.type) = "kJpegRecon" /\ "JPEG_RECONSTRUCTION" \notin events_wanted
<1>7. CASE /\ avail_in >= need /\ box_count' = box_count + 1 /\ AdvanceInput(h.header)
           /\ box' = [begin |-> file_pos', unbounded |-> h.unbounded,
                      end |-> IF h.unbounded THEN 0 ELSE file_pos' + h.size,
                      size |-> IF h.unbounded THEN 0 ELSE h.size]
           /\ box_stage' = IF rejected THEN box_stage ELSE StageOf(h.type)
           /\ \/ rejected /\ Return("ERROR")
              \/ ~rejected /\ Return("BOX")
              \/ ~rejected /\ Continue
  <2>1. /\ h.header \in Nat /\ h.size \in Nat /\ h.unbounded \in BOOLEAN
        /\ Ends(file)[i + 1] \in Nat /\ Ends(file)[i] \in Nat
        /\ Ends(file)[i] + h.header = Ends(file)[i + 1] - h.size
    <3>1. (i + 1) - 1 = i
      BY <1>2
    <3>2. /\ file.boxes[i + 1].size \in Nat /\ file.boxes[i + 1].header \in Nat
          /\ Ends(file)[(i + 1) - 1] + file.boxes[i + 1].header = Ends(file)[i + 1] - file.boxes[i + 1].size
          /\ Ends(file)[(i + 1) - 1] \in Nat /\ Ends(file)[i + 1] \in Nat
      BY <1>2, <1>4, ContentsFacts
    <3>3. file.boxes[i + 1].unbounded \in BOOLEAN
      BY <1>2, <1>4, FileBoxes
    <3> QED BY <1>4, <3>1, <3>2, <3>3
  <2>2. h.header \in 0..avail_in
    BY <1>2, <1>7, <2>1
  <2>3. InputInv' /\ file_pos' = file_pos + h.header
    BY <1>0, <1>1, <1>7, <2>2, AdvanceFacts DEF PInv
  <2>4. file_pos' = Ends(file)[i + 1] - h.size /\ file_pos' \in Nat
    BY <1>2, <2>1, <2>3
  <2>5. /\ box' \in BoxRecords /\ box_count' \in Nat
        /\ box'.begin = file_pos' /\ box'.unbounded = h.unbounded
        /\ ~h.unbounded => box'.end = Ends(file)[i + 1] /\ box'.size = h.size
        /\ h.unbounded => box'.end = 0 /\ box'.size = 0
    <3>1. file_pos' + h.size = Ends(file)[i + 1]
      BY <2>1, <2>4
    <3> DEFINE e == file_pos' + h.size
               u == h.unbounded
               p == file_pos'
               z == h.size
               b == [begin |-> p, unbounded |-> u, end |-> IF u THEN 0 ELSE e, size |-> IF u THEN 0 ELSE z]
    <3>2. box' = b /\ u \in BOOLEAN /\ e \in Nat /\ p \in Nat /\ z \in Nat
      BY <1>7, <2>1, <2>4
    <3> HIDE DEF e, u, p, z
    <3>3. /\ b \in BoxRecords /\ b.begin = p /\ b.unbounded = u
          /\ ~u => b.end = e /\ b.size = z
          /\ u => b.end = 0 /\ b.size = 0
      BY <3>2 DEF BoxRecords
    <3> HIDE DEF b
    <3>4. box_count' \in Nat
      BY <1>2, <1>7
    <3> QED BY <3>1, <3>2, <3>3, <3>4 DEF e, u, p, z
  <2>6. StageOf(h.type) \in BoxStages \ {"kHeader"}
    BY DEF StageOf, BoxStages
  <2>7. CASE rejected
    <3>1. Return("ERROR") /\ box_stage' = box_stage
      BY <1>7, <2>7
    <3>2. status' \in Final /\ pc' = "Application"
      BY <3>1 DEF Return, Checked, Final
    <3>3. box_stage' \in BoxStages
      BY <1>0, <3>1 DEF BoxStages
    <3> QED BY <1>0, <1>1, <1>2, <2>3, <2>5, <3>2, <3>3, FinalStep
  <2>8. CASE ~rejected
    <3>1. box_stage' = StageOf(h.type)
      BY <1>7, <2>8
    <3>2. pc' \in {"Application", "Reconstruct", "OutputBox"}
      BY <1>7, <2>8, ContinuePc DEF Return
    <3>3. Cur' = i + 1 /\ file'.boxes[Cur'] = h /\ file' = file /\ Cur' - 1 = i
      BY <1>1, <1>2, <1>4, <1>7 DEF Cur
    <3>4. HeaderInv'
      <4>1. /\ got_signature' /\ have_container' = file'.container /\ file'.container
            /\ box_count' \in Nat /\ box' \in [begin : Nat, end : Nat, size : Nat, unbounded : BOOLEAN]
            /\ box_stage' # "kHeader"
        BY <1>0, <1>1, <1>2, <2>5, <2>6, <3>1 DEF PInv, HeaderInv, BoxRecords
      <4>2. /\ Cur' \in 1..Len(file'.boxes)
            /\ box'.begin = Ends(file')[Cur'] - file'.boxes[Cur'].size
            /\ box'.begin <= file_pos' /\ file_pos' <= Ends(file')[Cur']
        BY <1>4, <2>1, <2>4, <2>5, <3>3
      <4>3. /\ box'.unbounded = file'.boxes[Cur'].unbounded
            /\ ~box'.unbounded => box'.end = Ends(file')[Cur'] /\ box'.size = file'.boxes[Cur'].size
            /\ box'.unbounded => box'.end = 0 /\ box'.size = 0
        BY <2>5, <3>3
      <4> QED BY <4>1, <4>2, <4>3 DEF HeaderInv
    <3>5. StageInv'
      <4>1. h.type # "none"
        <5>1. ContainerBoxes(file.boxes) /\ i + 1 \in DOMAIN file.boxes
          BY <1>2, <1>4, FileBoxes DEF IsFile
        <5> QED BY <1>4, <5>1 DEF ContainerBoxes
      <4>2. /\ box_stage' \in BoxStages
            /\ box_stage' = "kFtyp" => h.type = "ftyp"
            /\ box_stage' = "kPartialCodestream" => h.type = "jxlp"
            /\ box_stage' = "kCodestream" => h.type = "jxlc"
            /\ box_stage' = "kJpegRecon" => h.type = "jbrd"
            /\ box_stage' = "kSkip" => h.type \notin {"jxlc", "jxlp", "none"}
        BY <2>6, <3>1, <4>1 DEF StageOf
      <4>3. box_stage' = "kCodestream" => CodestreamBegin' <= file_pos'
        BY <2>4, <2>5, <3>3, <4>2 DEF CodestreamBegin
      <4> QED BY <1>1, <1>2, <2>5, <3>2, <3>3, <4>2, <4>3 DEF StageInv, BoxStages
    <3>6. ~jpeg_decoder.inside_box /\ ~jpeg_decoder.box_until_eof
      BY <1>0, <1>2, <1>3 DEF PInv, JpegInv, JpegDecoders
    <3>7. JpegInv'
      BY <1>0, <1>1, <2>5, <3>6 DEF JpegInv, JpegDecoders
    <3>8. CopyInv'
      <4>1. SUFFICES ASSUME CanUseMoreCodestreamInput
                     PROVE  /\ codestream_copy = Before(file, i)
                            /\ box_stage' = "kCodestream" =>
                                 codestream_copy = Before(file, i)
                                   \o Run(CodestreamBegin', file_pos' - CodestreamBegin')
        BY <1>1, <2>6, <3>1, <3>3 DEF CopyInv, CanUseMoreCodestreamInput
      <4>2. codestream_copy = Before(file, i)
        BY <1>0, <4>1 DEF PInv, CopyInv
      <4>3. Before(file, i) \in Seq(Int)
        BY <1>2, BeforeFacts
      <4>4. SUFFICES ASSUME box_stage' = "kCodestream"
                     PROVE  Before(file, i) = Before(file, i)
                              \o Run(CodestreamBegin', file_pos' - CodestreamBegin')
        BY <4>2
      <4>5. CodestreamBegin' = file_pos' /\ CodestreamBegin' \in Int /\ file_pos' - CodestreamBegin' = 0
        <5>1. h.type = "jxlc"
          BY <3>1, <4>4 DEF StageOf
        <5> QED BY <2>4, <2>5, <3>3, <5>1 DEF CodestreamBegin
      <4>6. Run(CodestreamBegin', file_pos' - CodestreamBegin') = <<>>
        BY <4>5, EmptyRun
      <4> QED BY <4>3, <4>6, ConcatEmptySeq
    <3> QED BY <2>3, <3>4, <3>5, <3>7, <3>8 DEF PInv
  <2> QED BY <2>7, <2>8
<1>8. \/ UNCHANGED <<input, boxes>> /\ Return("NEED_MORE_INPUT")
      \/ /\ box_count' = box_count + 1 /\ Return("ERROR")
         /\ UNCHANGED <<input, file_pos, box_stage, box>>
      \/ /\ avail_in >= need /\ box_count' = box_count + 1 /\ AdvanceInput(h.header)
         /\ box' = [begin |-> file_pos', unbounded |-> h.unbounded,
                    end |-> IF h.unbounded THEN 0 ELSE file_pos' + h.size,
                    size |-> IF h.unbounded THEN 0 ELSE h.size]
         /\ box_stage' = IF rejected THEN box_stage ELSE StageOf(h.type)
         /\ \/ rejected /\ Return("ERROR")
            \/ ~rejected /\ Return("BOX")
            \/ ~rejected /\ Continue
  BY Zenon DEF ReadBoxHeader, h
<1> QED BY <1>5, <1>6, <1>7, <1>8 DEF Return

\* The bytes of a jbrd box that extends to the end of the file are complete
\* only at its end.
LEMMA JpegComplete ==
  ASSUME IsFile(file), NEW i \in 1..Len(file.boxes), file.boxes[i].unbounded,
         NEW b, b = Ends(file)[i] - file.boxes[i].size, NEW p \in Nat, b <= p, p <= Ends(file)[i],
         DecodeJPEGData(Run(b, p - b)) = "complete"
  PROVE  p = Ends(file)[i]
<1> DEFINE r == Run(b, p - b)
<1>1. /\ Len(file.boxes) \in Nat /\ DOMAIN file.boxes = 1..Len(file.boxes) /\ i = Len(file.boxes)
      /\ b \in Nat /\ file.boxes[i].size \in Nat /\ Ends(file)[i] \in Nat
      /\ Ends(file)[i - 1] + file.boxes[i].header = b /\ Ends(file)[i - 1] \in Nat /\ file.boxes[i].header \in Nat
  BY FileBoxes, ContentsFacts
<1>2. r # <<>> /\ \E j \in DOMAIN file.boxes : r = Contents(file, j)
  <2> HIDE DEF r
  <2>1. DecodeJPEGData(r) = "complete"
    BY DEF r
  <2>2. /\ r # <<>>
        /\ r \in {Contents(file, k) : k \in {j \in DOMAIN file.boxes : file.boxes[j].type = "jbrd"}}
    BY <2>1 DEF DecodeJPEGData
  <2> QED BY <2>2
<1>3. PICK j \in 1..Len(file.boxes) : r = Contents(file, j)
  BY <1>1, <1>2
<1>4. /\ file.boxes[j].size \in Nat /\ Ends(file)[j] - file.boxes[j].size \in Nat
      /\ Ends(file)[j] \in Nat
  BY ContentsFacts
<1>5. p - b \in Nat /\ p - b > 0 /\ b \in Int
  <2>1. p - b # 0
    <3>1. SUFFICES ASSUME p - b = 0 PROVE FALSE
      OBVIOUS
    <3>2. r = Run(b, 0) /\ b \in Int
      BY <1>1, <3>1
    <3> QED BY <1>2, <3>2, EmptyRun
  <2> QED BY <1>1, <2>1
<1>6. b = Ends(file)[j] - file.boxes[j].size /\ p - b = file.boxes[j].size
  <2> DEFINE c == Ends(file)[j] - file.boxes[j].size
             m == p - b
             n == file.boxes[j].size
  <2>1. Run(b, m) = Run(c, n) /\ c \in Int /\ n \in Nat /\ m \in Nat /\ m > 0 /\ b \in Int
    BY <1>3, <1>4, <1>5 DEF Contents
  <2> HIDE DEF c, m, n
  <2>2. b = c /\ m = n
    BY <2>1, RunsEqual
  <2> QED BY <2>2 DEF c, m, n
<1>7. p = Ends(file)[j] /\ b < p
  BY <1>1, <1>4, <1>5, <1>6
<1>8. j = i
  <2>1. SUFFICES ASSUME j # i PROVE FALSE
    OBVIOUS
  <2>2. j \in 0..Len(file.boxes) /\ i - 1 \in j..Len(file.boxes)
    BY <1>1, <2>1
  <2>3. Ends(file)[j] <= Ends(file)[i - 1]
    BY <2>2, EndsMonotonic
  <2> QED BY <1>1, <1>4, <1>7, <2>3
<1> QED BY <1>7, <1>8

LEMMA JpegBuffer ==
  ASSUME NEW d \in JpegDecoders, NEW s \in Seq(Int), NEW b \in BOOLEAN
  PROVE  LET k == [d EXCEPT !.buffer = s]
             c == [k EXCEPT !.inside_box = FALSE, !.jpeg_data = TRUE]
         IN  /\ k \in JpegDecoders /\ k.buffer = s /\ k.inside_box = d.inside_box
             /\ k.box_until_eof = d.box_until_eof /\ k.box_size = d.box_size
             /\ c \in JpegDecoders /\ ~c.inside_box /\ c.box_until_eof = d.box_until_eof
BY DEF JpegDecoders

LEMMA StartJpegBoxFacts ==
  ASSUME NEW d \in JpegDecoders, box \in BoxRecords
  PROVE  LET s == StartJpegBox(d)
         IN  /\ s \in JpegDecoders /\ s.inside_box /\ s.buffer = <<>>
             /\ s.box_until_eof = (d.box_until_eof \/ box.unbounded)
             /\ ~box.unbounded => s.box_size = box.size
<1>1. <<>> \in Seq(Int)
  BY EmptySeq
<1>2. box.unbounded \in BOOLEAN /\ box.size \in Nat
  BY DEF BoxRecords
<1> DEFINE u == d.box_until_eof \/ box.unbounded
           z == IF box.unbounded THEN d.box_size ELSE box.size
<1>3. StartJpegBox(d) = [d EXCEPT !.inside_box = TRUE, !.buffer = <<>>, !.box_until_eof = u, !.box_size = z]
  BY DEF StartJpegBox, JpegDecoders
<1>4. u \in BOOLEAN /\ z \in Nat
  BY <1>2 DEF JpegDecoders
<1>5. u = (d.box_until_eof \/ box.unbounded) /\ (~box.unbounded => z = box.size)
  OBVIOUS
<1> HIDE DEF u, z
<1>6. LET s == [d EXCEPT !.inside_box = TRUE, !.buffer = <<>>, !.box_until_eof = u, !.box_size = z]
      IN  s \in JpegDecoders /\ s.inside_box /\ s.buffer = <<>> /\ s.box_until_eof = u /\ s.box_size = z
  BY <1>1, <1>4 DEF JpegDecoders
<1> QED BY <1>3, <1>5, <1>6

LEMMA ReadJpegReconStep ==
  ASSUME PInv, ReadJpegRecon
  PROVE  PInv'
<1> USE DEF application, codestream
<1> DEFINE d == IF jpeg_decoder.inside_box THEN jpeg_decoder ELSE StartJpegBox(jpeg_decoder)
           n == JpegInput(d)
           bytes == d.buffer \o SubSeq(Input, 1, n)
           full == d.box_until_eof \/ Len(bytes) = d.box_size
           kept == [d EXCEPT !.buffer = bytes]
<1>0. /\ pc # "Application" /\ Live /\ box_stage = "kJpegRecon" /\ got_signature /\ unread = 0
      /\ jpeg_decoder \in JpegDecoders
  BY LiveFacts DEF ReadJpegRecon
<1>1. /\ UNCHANGED <<application, got_signature, have_container, stage, codestream_copy, box_count, box>>
      /\ AdvanceInput(n)
      /\ \/ /\ full /\ DecodeJPEGData(bytes) = "complete"
            /\ jpeg_decoder' = [kept EXCEPT !.inside_box = FALSE, !.jpeg_data = TRUE]
            /\ box_stage' = "kHeader"
            /\ pc' = "Application" \/ Continue
         \/ /\ jpeg_decoder' = kept /\ UNCHANGED box_stage /\ pc' = "Application"
  BY Zenon DEF ReadJpegRecon, Return
<1>2. /\ IsFile(file) /\ Len(file.boxes) \in Nat /\ Cur \in 1..Len(file.boxes)
      /\ file.boxes[Cur].size \in Nat /\ Ends(file)[Cur] \in Nat
      /\ file.container => Cur = box_count
      /\ box \in BoxRecords /\ box.begin = Ends(file)[Cur] - file.boxes[Cur].size
      /\ box.unbounded = file.boxes[Cur].unbounded
      /\ ~box.unbounded => box.size = file.boxes[Cur].size
      /\ box.unbounded => Cur = Len(file.boxes) /\ Ends(file)[Cur] = FileSize(file)
      /\ box.begin <= file_pos /\ file_pos <= Ends(file)[Cur]
      /\ file_pos \in Nat /\ avail_in \in Nat /\ box.begin \in Nat /\ box.unbounded \in BOOLEAN
  BY <1>0, CurFacts DEF BoxRecords
<1>3. file.container /\ file.boxes[Cur].type = "jbrd"
  BY <1>0 DEF PInv, StageInv
<1>4. /\ d \in JpegDecoders /\ d.inside_box /\ d.buffer = Run(box.begin, file_pos - box.begin)
      /\ d.box_until_eof = box.unbounded /\ (~box.unbounded => d.box_size = box.size)
  <2>1. CASE jpeg_decoder.inside_box
    <3>1. d = jpeg_decoder
      BY <2>1
    <3> HIDE DEF d
    <3> QED BY <1>0, <2>1, <3>1 DEF PInv, JpegInv
  <2>2. CASE ~jpeg_decoder.inside_box
    <3>1. d = StartJpegBox(jpeg_decoder)
      BY <2>2
    <3>2. file_pos = box.begin /\ ~jpeg_decoder.box_until_eof
      BY <1>0, <2>2 DEF PInv, JpegInv
    <3> HIDE DEF d
    <3>3. /\ d \in JpegDecoders /\ d.inside_box /\ d.buffer = <<>>
          /\ d.box_until_eof = (jpeg_decoder.box_until_eof \/ box.unbounded)
          /\ ~box.unbounded => d.box_size = box.size
      BY <1>0, <1>2, <3>1, StartJpegBoxFacts
    <3>4. Run(box.begin, file_pos - box.begin) = <<>>
      <4>1. file_pos - box.begin = 0 /\ box.begin \in Int
        BY <1>2, <3>2
      <4> QED BY <4>1, EmptyRun
    <3>5. (jpeg_decoder.box_until_eof \/ box.unbounded) = box.unbounded
      BY <1>2, <3>2
    <3> QED BY <3>3, <3>4, <3>5
  <2> QED BY <2>1, <2>2
<1> HIDE DEF d
<1>5. file_pos - box.begin \in Nat /\ Len(d.buffer) = file_pos - box.begin
  <2>1. file_pos - box.begin \in Nat /\ box.begin \in Int
    BY <1>2
  <2> QED BY <1>4, <2>1, RunFacts
<1>6. n \in 0..avail_in /\ file_pos + n <= Ends(file)[Cur]
  <2>1. CASE box.unbounded
    <3>1. n = avail_in
      BY <1>4, <2>1 DEF JpegInput
    <3>2. file_pos + avail_in = sent /\ sent <= FileSize(file)
      BY <1>0, <1>2, <2>1 DEF PInv, InputInv
    <3> QED BY <1>2, <2>1, <3>1, <3>2
  <2>2. CASE ~box.unbounded
    <3>1. ~(Len(d.buffer) > d.box_size) /\ d.box_size = file.boxes[Cur].size
      BY <1>2, <1>4, <1>5, <2>2
    <3>2. n = Min2(avail_in, d.box_size - Len(d.buffer))
      BY <1>2, <1>4, <2>2, <3>1 DEF JpegInput
    <3>3. \A a, b, e, p, z \in Nat :
            b = e - z /\ b <= p /\ p <= e =>
              Min2(a, z - (p - b)) \in 0..a /\ p + Min2(a, z - (p - b)) <= e
      BY DEF Min2
    <3> HIDE DEF n
    <3>4. n = Min2(avail_in, file.boxes[Cur].size - (file_pos - box.begin))
      BY <1>5, <3>1, <3>2
    <3> QED BY <1>2, <3>3, <3>4
  <2> QED BY <2>1, <2>2
<1>7. file_pos' = file_pos + n
  BY <1>1 DEF AdvanceInput
<1>8. bytes = Run(box.begin, file_pos' - box.begin)
  <2>1. SubSeq(Input, 1, n) = Run(file_pos, n)
    BY <1>0, <1>6, InputPart DEF PInv
  <2> DEFINE m == file_pos - box.begin
             a == box.begin
  <2>2. m \in Nat /\ n \in Nat /\ a \in Int /\ file_pos \in Int /\ file_pos = a + m /\ m + n = file_pos' - a
    BY <1>2, <1>5, <1>6, <1>7
  <2>3. bytes = Run(a, m) \o Run(file_pos, n)
    BY <1>4, <2>1
  <2> HIDE DEF m, a, n, bytes
  <2>4. Run(a, m) \o Run(file_pos, n) = Run(a, m + n)
    BY <2>2, RunConcat
  <2> QED BY <2>2, <2>3, <2>4 DEF a
<1>9. bytes \in Seq(Int) /\ Len(bytes) = file_pos' - box.begin
  <2>1. file_pos' - box.begin \in Nat /\ box.begin \in Int
    BY <1>2, <1>6, <1>7
  <2> HIDE DEF bytes
  <2> QED BY <1>8, <2>1, RunFacts
<1> HIDE DEF n, bytes
<1>10. CASE /\ full /\ DecodeJPEGData(bytes) = "complete"
            /\ jpeg_decoder' = [kept EXCEPT !.inside_box = FALSE, !.jpeg_data = TRUE]
            /\ box_stage' = "kHeader"
            /\ pc' = "Application" \/ Continue
  <2>1. pc' \notin {"Codestream", "CodestreamResult"}
    BY <1>10, ContinuePc
  <2>2. file_pos' = Ends(file)[Cur]
    <3>1. CASE box.unbounded
      <4> DEFINE i == Cur
                 b == box.begin
                 p == file_pos'
      <4>1. /\ IsFile(file) /\ i \in 1..Len(file.boxes) /\ file.boxes[i].unbounded
            /\ b = Ends(file)[i] - file.boxes[i].size /\ p \in Nat /\ b <= p /\ p <= Ends(file)[i]
            /\ DecodeJPEGData(Run(b, p - b)) = "complete"
        BY <1>2, <1>6, <1>7, <1>8, <1>10, <3>1
      <4> HIDE DEF i, b, p
      <4>2. p = Ends(file)[i]
        BY <4>1, JpegComplete
      <4> QED BY <4>2 DEF p, i
    <3>2. CASE ~box.unbounded
      <4>1. Len(bytes) = file.boxes[Cur].size
        BY <1>2, <1>4, <1>10, <3>2
      <4>2. \A b, e, p, z \in Nat : b = e - z /\ z = p - b => p = e
        OBVIOUS
      <4>3. file.boxes[Cur].size = file_pos' - box.begin /\ file_pos' \in Nat
        BY <1>2, <1>6, <1>7, <1>9, <4>1
      <4> QED BY <1>2, <4>2, <4>3
    <3> QED BY <3>1, <3>2
  <2>3. file_pos + n = Ends(file)[Cur]
    BY <1>7, <2>2
  <2>4. /\ jpeg_decoder' \in JpegDecoders /\ ~jpeg_decoder'.inside_box
        /\ jpeg_decoder'.box_until_eof => box_count = Len(file.boxes)
    <3>1. /\ jpeg_decoder' \in JpegDecoders /\ ~jpeg_decoder'.inside_box
          /\ jpeg_decoder'.box_until_eof = d.box_until_eof
      BY <1>4, <1>9, <1>10, JpegBuffer
    <3> QED BY <1>2, <1>3, <1>4, <3>1
  <2>5. CanUseMoreCodestreamInput => codestream_copy' = Before(file, Cur)
    <3>1. SUFFICES ASSUME CanUseMoreCodestreamInput PROVE codestream_copy = Before(file, Cur)
      BY <1>1
    <3>2. codestream_copy = Before(file, Cur - 1)
      BY <1>0, <3>1 DEF PInv, CopyInv
    <3>3. CodestreamIn(file, Cur) = <<>>
      BY <1>2, <1>3, CodestreamInFacts
    <3>4. Cur - 1 \in 0..Len(file.boxes)
      BY <1>2
    <3>5. Before(file, Cur) = Before(file, Cur - 1) \o CodestreamIn(file, Cur)
      BY <1>2, BeforeFacts
    <3>6. Before(file, Cur - 1) \in Seq(Int)
      BY <1>2, <3>4, BeforeFacts
    <3> QED BY <3>2, <3>3, <3>5, <3>6, ConcatEmptySeq
  <2>6. AdvanceInput(n) /\ UNCHANGED <<application, got_signature, have_container, stage, box_count, box>>
    BY <1>1
  <2> QED BY <1>0, <1>3, <1>6, <1>10, <2>1, <2>3, <2>4, <2>5, <2>6, NextBoxStep
<1>11. CASE jpeg_decoder' = kept /\ UNCHANGED box_stage /\ pc' = "Application"
  <2>1. InputInv' /\ HeaderInv' /\ Cur' = Cur
    BY <1>0, <1>1, <1>6, <1>11, InBoxStep
  <2>2. StageInv'
    BY <1>0, <1>1, <1>3, <1>11, <2>1 DEF StageInv
  <2>3. JpegInv'
    <3>1. /\ jpeg_decoder' \in JpegDecoders /\ jpeg_decoder'.inside_box /\ jpeg_decoder'.buffer = bytes
          /\ jpeg_decoder'.box_until_eof = box.unbounded
          /\ ~box.unbounded => jpeg_decoder'.box_size = box.size
      <4>1. /\ kept \in JpegDecoders /\ kept.buffer = bytes /\ kept.inside_box = d.inside_box
            /\ kept.box_until_eof = d.box_until_eof /\ kept.box_size = d.box_size
        BY <1>4, <1>9, JpegBuffer
      <4> HIDE DEF kept
      <4> QED BY <1>4, <1>11, <4>1
    <3>2. jpeg_decoder'.buffer = Run(box'.begin, file_pos' - box'.begin) /\ box' = box
      BY <1>1, <1>8, <3>1
    <3>3. box.unbounded => box_count = Len(file.boxes)
      BY <1>2, <1>3
    <3> QED BY <1>0, <1>1, <1>11, <3>1, <3>2, <3>3 DEF JpegInv, JpegDecoders
  <2>4. CopyInv'
    BY <1>0, <1>1, <1>11, <2>1 DEF PInv, CopyInv, CanUseMoreCodestreamInput
  <2> QED BY <2>1, <2>2, <2>3, <2>4 DEF PInv
<1> QED BY <1>1, <1>10, <1>11

-----------------------------------------------------------------------------
(* The theorems about the codestream. *)

LEMMA PInvStep ==
  ASSUME PInv, [Next]_vars
  PROVE  PInv'
<1>1. CASE ProcessInput
  BY <1>1, ProcessInputStep
<1>2. CASE HandleBoxes
  BY <1>2, QuietInCallStep, StartCodestreamStep, ReadBoxHeaderStep, ReadFtypStep, SkipBoxStep,
     ReadPartialCodestreamStep, ReadJpegReconStep, EnterCodestreamStep, CopyAndReadOnStep,
     AfterCodestreamStep
     DEF HandleBoxes, QuietInCall
<1>3. CASE Application
  BY <1>3, InputStep, QuietBetweenStep DEF Application, QuietBetween
<1>4. CASE UNCHANGED vars
  <2>1. UNCHANGED <<file, sent, unread, next_in, avail_in, file_pos, box_stage, box_count, box, stage,
                    jpeg_decoder, codestream_copy, got_signature, have_container, pc, status, result>>
    BY <1>4 DEF vars, application, input, boxes, jpeg, codestream, seen
  <2>2. Cur' = Cur /\ CodestreamBegin' = CodestreamBegin /\ Live' = Live
    BY <2>1 DEF Cur, CodestreamBegin, Live
  <2>3. InputInv'
    BY <2>1 DEF PInv, InputInv
  <2>4. HeaderInv'
    BY <2>1, <2>2 DEF PInv, HeaderInv
  <2>5. StageInv'
    BY <2>1, <2>2 DEF PInv, StageInv
  <2>6. JpegInv'
    BY <2>1, <2>2 DEF PInv, JpegInv
  <2>7. CopyInv'
    BY <2>1, <2>2 DEF PInv, CopyInv, CanUseMoreCodestreamInput
  <2> QED BY <2>3, <2>4, <2>5, <2>6, <2>7 DEF PInv
<1> QED BY <1>1, <1>2, <1>3, <1>4 DEF Next, Stopped

\* What is read of a codestream box up to q, after the boxes before it, is the
\* beginning of the codestream.
LEMMA CodestreamPart ==
  ASSUME NEW f, IsFile(f), NEW i \in 1..Len(f.boxes), f.boxes[i].type \in {"jxlc", "jxlp", "none"},
         NEW b, b = Ends(f)[i] - f.boxes[i].size + (IF f.boxes[i].type = "jxlp" THEN 1 ELSE 0),
         NEW q \in Nat, b <= q, q <= Ends(f)[i],
         NEW c, IsConcat(c, Before(f, i - 1), Run(b, q - b))
  PROVE  IsPrefix(c, CodestreamOf(f))
<1> DEFINE e == Ends(f)[i]
           p == Before(f, i - 1)
           w == Before(f, i)
           u == Run(q, e - q)
           m == q - b
           n == e - q
<1>1. e \in Nat /\ f.boxes[i].size \in Nat /\ e - f.boxes[i].size \in Nat /\ Len(f.boxes) \in Nat
  BY ContentsFacts, FileBoxes
<1>2. /\ b \in Nat /\ m \in Nat /\ n \in Nat /\ b + m = q /\ m + n = e - b
      /\ b \in Int /\ q \in Int /\ b <= e
  <2>1. b \in Nat /\ q <= e
    BY <1>1
  <2> HIDE DEF e
  <2>2. \A x, y, z \in Nat : x <= y /\ y <= z =>
          /\ y - x \in Nat /\ z - y \in Nat /\ x + (y - x) = y /\ (y - x) + (z - y) = z - x
          /\ x \in Int /\ y \in Int /\ x <= z
    OBVIOUS
  <2> QED BY <1>1, <2>1, <2>2
<1>3. i - 1 \in 0..Len(f.boxes) /\ i \in 0..Len(f.boxes)
  BY <1>1
<1>4. /\ p \in Seq(Int) /\ w \in Seq(Int) /\ CodestreamOf(f) \in Seq(Int)
      /\ Extends(Int, CodestreamOf(f), w)
  <2>1. p \in Seq(Int) /\ w \in Seq(Int) /\ Extends(Int, CodestreamOf(f), w)
    BY <1>3, BeforeFacts
  <2>2. Pieces(f) \in Seq(Seq(Int)) /\ CodestreamOf(f) = FlattenSeq(Pieces(f))
    BY PiecesFacts DEF CodestreamOf, Pieces
  <2> QED BY <2>1, <2>2, FlattenType
<1>5. IsConcat(w, p, Run(b, e - b))
  BY <1>2, CodestreamBoxEnd DEF IsConcat
<1> HIDE DEF e, p, w, m, n
<1>6. u = Run(q, n)
  BY DEF n
<1>7. IsConcat(c, p, Run(b, m))
  BY DEF p, m
<1>8. IsConcat(c \o Run(q, n), p, Run(b, m + n))
  BY <1>2, <1>4, <1>7, RunAppend
<1> HIDE DEF u
<1>9. w = c \o u
  <2>1. c \o u = p \o Run(b, m + n)
    BY <1>6, <1>8, Zenon DEF IsConcat
  <2>2. w = p \o Run(b, m + n)
    BY <1>2, <1>5 DEF IsConcat
  <2> QED BY <2>1, <2>2, Zenon
<1>10. c \in Seq(Int) /\ u \in Seq(Int)
  <2>1. Run(b, m) \in Seq(Int) /\ Run(q, n) \in Seq(Int)
    BY <1>2, RunFacts
  <2>2. p \o Run(b, m) \in Seq(Int)
    BY <1>4, <2>1, ConcatProperties
  <2> QED BY <1>6, <1>7, <2>1, <2>2 DEF IsConcat
<1>11. Extends(Int, CodestreamOf(f), c)
  BY <1>4, <1>9, <1>10, ExtendsPart
<1>12. PICK r \in Seq(Int) : CodestreamOf(f) = c \o r
  BY <1>11 DEF Extends
<1> QED BY <1>10, <1>12, PrefixOfConcat

LEMMA PInvCodestream ==
  ASSUME PInv
  PROVE  CodestreamInOrder
<1> SUFFICES ASSUME pc = "Codestream", CanUseMoreCodestreamInput
             PROVE  IsPrefix(Codestream, CodestreamOf(file))
  BY DEF CodestreamInOrder
<1>1. Live /\ box_stage = "kCodestream" /\ pc # "Application"
  BY LiveFacts
<1>2. /\ IsFile(file) /\ Cur \in 1..Len(file.boxes) /\ file_pos \in Nat /\ avail_in \in Nat
      /\ file_pos <= Ends(file)[Cur]
      /\ file.boxes[Cur].type \in {"jxlc", "jxlp", "none"} /\ CodestreamBegin <= file_pos
      /\ box.begin = Ends(file)[Cur] - file.boxes[Cur].size
  BY <1>1, CurFacts DEF PInv, StageInv
<1> DEFINE i == Cur
           b == CodestreamBegin
           p == Before(file, i - 1)
<1>3. /\ p \in Seq(Int) /\ b \in Nat /\ file_pos - b \in Nat
      /\ IsConcat(codestream_copy, p, Run(b, file_pos - b))
  BY <1>1, CopyFacts DEF IsConcat
<1>4. /\ i \in 1..Len(file.boxes) /\ file.boxes[i].type \in {"jxlc", "jxlp", "none"}
      /\ b = Ends(file)[i] - file.boxes[i].size + (IF file.boxes[i].type = "jxlp" THEN 1 ELSE 0)
      /\ b <= file_pos /\ file_pos <= Ends(file)[i]
  BY <1>2 DEF CodestreamBegin
<1>5. CASE codestream_copy # <<>>
  <2>1. Codestream = codestream_copy
    BY <1>5 DEF Codestream
  <2> HIDE DEF i, b
  <2>2. IsPrefix(codestream_copy, CodestreamOf(file))
    BY <1>2, <1>3, <1>4, CodestreamPart
  <2> QED BY <2>1, <2>2
<1>6. CASE codestream_copy = <<>>
  <2> DEFINE n == AvailCodestream
             q == file_pos + n
             m == file_pos - b
  <2>1. n \in 0..avail_in /\ q <= Ends(file)[i]
    BY <1>1, AvailCodestreamFacts
  <2>2. Codestream = SubSeq(Input, 1, n)
    BY <1>6 DEF Codestream
  <2>3. SubSeq(Input, 1, n) = Run(file_pos, n)
    BY <1>1, <2>1, InputPart DEF PInv
  <2> HIDE DEF n, i, b, p
  <2>4. n \in Nat /\ q \in Nat /\ b <= q /\ m \in Nat /\ file_pos = b + m /\ m + n = q - b
        /\ b \in Int /\ file_pos \in Int
    BY <1>2, <1>3, <1>4, <2>1
  <2> HIDE DEF q, m
  <2>5. IsConcat(codestream_copy, p, Run(b, m))
    BY <1>3 DEF m
  <2>6. IsConcat(codestream_copy \o Run(file_pos, n), p, Run(b, m + n))
    BY <1>3, <2>4, <2>5, RunAppend
  <2>7. codestream_copy \o Run(file_pos, n) = Run(file_pos, n)
    <3>1. Run(file_pos, n) \in Seq(Int)
      BY <2>4, RunFacts
    <3> QED BY <1>6, <3>1, ConcatEmptySeq
  <2>8. IsConcat(Codestream, p, Run(b, q - b))
    BY <2>2, <2>3, <2>4, <2>6, <2>7
  <2> QED BY <1>2, <1>4, <2>1, <2>4, <2>8, CodestreamPart DEF p
<1> QED BY <1>5, <1>6

\* However the input is cut, released and given again, the decoder is at the
\* place in the file that its variables say: file_pos, box_contents_begin,
\* box_contents_end and box_stage of decode.cc agree with the boxes of the file,
\* the jbrd box is collected from its first byte, and codestream_copy is the
\* codestream up to file_pos.
THEOREM ReadsWhereItStands == Spec => []PInv
<1>1. Init => PInv
  BY InitPInv
<1>2. PInv /\ [Next]_vars => PInv'
  BY PInvStep
<1> QED BY <1>1, <1>2, PTL DEF Spec

\* What JxlDecoderProcessCodestream() sees until the codestream is finished is
\* a prefix of the codestream, whatever boxes the file has.
THEOREM CodestreamInOrderAlways == Spec => []CodestreamInOrder
<1>1. PInv => CodestreamInOrder
  BY PInvCodestream
<1> QED BY <1>1, ReadsWhereItStands, PTL

-----------------------------------------------------------------------------
(* What Brotli makes of a run. *)

Pair(x) == <<-2 * x - 1, -2 * x - 2>>
Pairs(s) == [k \in DOMAIN s |-> Pair(s[k])]

LEMMA PairFacts ==
  ASSUME NEW x \in Int
  PROVE  Pair(x) \in Seq(Int) /\ Len(Pair(x)) = 2
BY DEF Pair

LEMMA PairsFacts ==
  ASSUME NEW s \in Seq(Int)
  PROVE  /\ Pairs(s) \in Seq(Seq(Int)) /\ Len(Pairs(s)) = Len(s)
         /\ \A k \in 1..Len(s) : Pairs(s)[k] = Pair(s[k])
         /\ Inflate(s) = FlattenSeq(Pairs(s))
<1>1. DOMAIN s = 1..Len(s) /\ Len(s) \in Nat /\ \A k \in 1..Len(s) : s[k] \in Int
  BY LenProperties, ElementOfSeq
<1>2. \A k \in 1..Len(s) : Pair(s[k]) \in Seq(Int)
  BY <1>1, PairFacts
<1>3. Pairs(s) \in [1..Len(s) -> Seq(Int)]
  BY <1>1, <1>2 DEF Pairs
<1>4. Pairs(s) \in Seq(Seq(Int))
  <2> DEFINE n == Len(s)
             P == Pairs(s)
             T == Seq(Int)
  <2>1. n \in Nat /\ P \in [1..n -> T]
    BY <1>1, <1>3
  <2> HIDE DEF n, P, T
  <2>2. P \in Seq(T)
    BY <2>1, SeqDef
  <2> QED BY <2>2 DEF P, T
<1>5. Len(Pairs(s)) = Len(s)
  BY <1>1, <1>3, <1>4, LenProperties
<1>6. Inflate(s) = FlattenSeq(Pairs(s))
  BY Zenon DEF Inflate, Pairs, Pair
<1> QED BY <1>1, <1>4, <1>5, <1>6 DEF Pairs

LEMMA InflateAppend ==
  ASSUME NEW s \in Seq(Int), NEW x \in Int
  PROVE  /\ Inflate(Append(s, x)) = Inflate(s) \o Pair(x)
         /\ Inflate(s) \in Seq(Int)
<1> DEFINE t == Append(s, x)
           p == Pair(x)
           P == Pairs(s)
           Q == Pairs(t)
           R == Append(P, p)
<1>1. /\ t \in Seq(Int) /\ Len(t) = Len(s) + 1 /\ t[Len(s) + 1] = x /\ Len(s) \in Nat
      /\ \A k \in 1..Len(s) : t[k] = s[k]
  BY AppendProperties, LenProperties
<1>2. p \in Seq(Int)
  BY PairFacts
<1> HIDE DEF t, p
<1>3. P \in Seq(Seq(Int)) /\ Len(P) = Len(s) /\ (\A k \in 1..Len(s) : P[k] = Pair(s[k])) /\ Inflate(s) = FlattenSeq(P)
  BY PairsFacts
<1>4. Q \in Seq(Seq(Int)) /\ Len(Q) = Len(t) /\ (\A k \in 1..Len(t) : Q[k] = Pair(t[k])) /\ Inflate(t) = FlattenSeq(Q)
  BY <1>1, PairsFacts
<1> HIDE DEF P, Q
<1>5. /\ R \in Seq(Seq(Int)) /\ Len(R) = Len(s) + 1 /\ R[Len(s) + 1] = p
      /\ \A k \in 1..Len(s) : R[k] = P[k]
  BY <1>2, <1>3, AppendProperties
<1>6. FlattenSeq(R) = FlattenSeq(P) \o p
  BY <1>2, <1>3, FlattenAppend
<1> HIDE DEF R
<1>7. ASSUME NEW k \in 1..Len(Q) PROVE Q[k] = R[k]
  <2>1. CASE k = Len(s) + 1
    BY <1>1, <1>4, <1>5, <2>1 DEF p
  <2>2. CASE k \in 1..Len(s)
    BY <1>1, <1>3, <1>4, <1>5, <2>2
  <2> QED BY <1>1, <1>4, <2>1, <2>2
<1>8. Len(Q) = Len(R)
  BY <1>1, <1>4, <1>5
<1>9. Q = R
  BY <1>4, <1>5, <1>7, <1>8, SeqEqual
<1>10. Inflate(t) = Inflate(s) \o p
  BY <1>3, <1>4, <1>6, <1>9, Zenon
<1>11. Inflate(s) \in Seq(Int)
  BY <1>3, FlattenType
<1> QED BY <1>10, <1>11 DEF t, p

LEMMA InflateEmpty == Inflate(<<>>) = <<>>
<1>1. <<>> \in Seq(Int) /\ Len(<<>>) = 0
  BY EmptySeq
<1>2. Pairs(<<>>) \in Seq(Seq(Int)) /\ Len(Pairs(<<>>)) = Len(<<>>) /\ Inflate(<<>>) = FlattenSeq(Pairs(<<>>))
  BY <1>1, PairsFacts
<1>3. Pairs(<<>>) = <<>>
  BY <1>1, <1>2, EmptySeq
<1> QED BY <1>2, <1>3, FlattenEmpty

\* Compressed data that is joined stands for what its parts stand for.
LEMMA InflateFacts ==
  ASSUME NEW s \in Seq(Int)
  PROVE  Inflate(s) \in Seq(Int) /\ Len(Inflate(s)) = 2 * Len(s)
<1> DEFINE G == {n \in Nat : \A t \in Seq(Int) : Len(t) = n => Len(Inflate(t)) = 2 * n}
<1>1. 0 \in G
  <2>1. \A t \in Seq(Int) : Len(t) = 0 => t = <<>>
    BY EmptySeq
  <2>2. Len(Inflate(<<>>)) = 0
    BY InflateEmpty, EmptySeq
  <2> QED BY <2>1, <2>2
<1>2. ASSUME NEW n \in Nat, n \in G PROVE n + 1 \in G
  <2> SUFFICES ASSUME NEW t \in Seq(Int), Len(t) = n + 1 PROVE Len(Inflate(t)) = 2 * (n + 1)
    OBVIOUS
  <2>1. PICK u \in Seq(Int), x \in Int : t = Append(u, x) /\ Len(u) = n
    <3> DEFINE u == SubSeq(t, 1, n)
               x == t[n + 1]
    <3>1. n + 1 \in 1..Len(t) /\ \A i \in 1..n : t[i] \in Int
      BY ElementOfSeq
    <3>2. x \in Int
      BY <3>1, ElementOfSeq
    <3>3. u \in Seq(Int) /\ Len(u) = n /\ \A i \in 1..n : u[i] = t[i]
      <4>1. /\ u \in Seq(Int) /\ Len(u) = IF 1 <= n THEN n - 1 + 1 ELSE 0
            /\ \A i \in 1..n - 1 + 1 : u[i] = t[1 + i - 1]
        BY <3>1, SubSeqProperties
      <4> QED BY <4>1
    <3> HIDE DEF u, x
    <3>4. Append(u, x) = t
      <4> DEFINE w == Append(u, x)
      <4>1. w \in Seq(Int) /\ Len(w) = n + 1 /\ w[n + 1] = x /\ \A i \in 1..n : w[i] = u[i]
        BY <3>2, <3>3, AppendProperties
      <4> HIDE DEF w
      <4>2. ASSUME NEW i \in 1..Len(w) PROVE w[i] = t[i]
        <5>1. CASE i = n + 1
          BY <4>1, <5>1 DEF x
        <5>2. CASE i \in 1..n
          BY <3>3, <4>1, <5>2
        <5> QED BY <4>1, <5>1, <5>2
      <4>3. w = t
        BY <4>1, <4>2, SeqEqual
      <4> QED BY <4>3 DEF w
    <3> QED BY <3>2, <3>3, <3>4
  <2>2. Inflate(t) = Inflate(u) \o Pair(x) /\ Inflate(u) \in Seq(Int)
    BY <2>1, InflateAppend
  <2>3. Len(Inflate(u)) = 2 * n
    BY <1>2, <2>1
  <2>4. Pair(x) \in Seq(Int) /\ Len(Pair(x)) = 2
    BY PairFacts
  <2> DEFINE v == Inflate(u)
             p == Pair(x)
             w == Inflate(t)
  <2> HIDE DEF v, p, w
  <2>5. w = v \o p /\ v \in Seq(Int) /\ p \in Seq(Int) /\ Len(v) = 2 * n /\ Len(p) = 2
    BY <2>2, <2>3, <2>4 DEF v, p, w
  <2>6. Len(v \o p) = Len(v) + Len(p)
    BY <2>5, ConcatProperties
  <2>7. Len(w) = 2 * n + 2
    BY <2>5, <2>6, Zenon
  <2> QED BY <2>7 DEF w
<1>3. Nat \subseteq G
  <2> HIDE DEF G
  <2> QED BY <1>1, <1>2, SetInduction
<1>4. Len(s) \in Nat
  BY LenProperties
<1>5. Len(Inflate(s)) = 2 * Len(s)
  BY <1>3, <1>4
<1>6. Inflate(s) \in Seq(Int)
  BY InflateAppend, 0 \in Int
<1> QED BY <1>5, <1>6

\* The first part of a run and the rest of it.
LEMMA InflateRun ==
  ASSUME NEW a \in Int, NEW m \in Nat, NEW b \in Int, NEW n \in Nat, b = a + m
  PROVE  IsConcat(Inflate(Run(a, m + n)), Inflate(Run(a, m)), Inflate(Run(b, n)))
<1> DEFINE A == Inflate(Run(a, m))
           G == {k \in Nat : Inflate(Run(a, m + k)) = A \o Inflate(Run(b, k))}
<1>0. A \in Seq(Int) /\ \A k \in Nat : Inflate(Run(b, k)) \in Seq(Int)
  BY RunFacts, InflateFacts
<1> HIDE DEF A
<1>1. 0 \in G
  <2>1. m + 0 = m /\ Run(b, 0) = <<>>
    BY EmptyRun
  <2>2. A \o <<>> = A
    BY <1>0, ConcatEmptySeq
  <2> QED BY <2>1, <2>2, InflateEmpty DEF A
<1>2. ASSUME NEW k \in Nat, k \in G PROVE k + 1 \in G
  <2> DEFINE x == b + k
             B == Inflate(Run(b, k))
             C == Inflate(Run(a, m + k))
             p == Pair(x)
  <2>1. x \in Int /\ m + k \in Nat /\ (m + k) + 1 = m + (k + 1) /\ a + (m + k) = x /\ k + 1 \in Nat
    OBVIOUS
  <2> HIDE DEF x
  <2>2. Run(a, m + (k + 1)) = Append(Run(a, m + k), x) /\ Run(b, k + 1) = Append(Run(b, k), x)
    <3>1. ASSUME NEW e \in Int, NEW j \in Nat, e + j = x PROVE Run(e, j + 1) = Append(Run(e, j), x)
      <4> DEFINE r == Run(e, j + 1)
                 q == Run(e, j)
                 w == Append(q, x)
      <4>1. r \in Seq(Int) /\ Len(r) = j + 1 /\ \A i \in 1..j + 1 : r[i] = e + i - 1
        <5>1. j + 1 \in Nat
          OBVIOUS
        <5> QED BY <5>1, RunFacts
      <4>2. q \in Seq(Int) /\ Len(q) = j /\ \A i \in 1..j : q[i] = e + i - 1
        BY RunFacts
      <4> HIDE DEF r, q
      <4>3. w \in Seq(Int) /\ Len(w) = j + 1 /\ w[j + 1] = x /\ \A i \in 1..j : w[i] = q[i]
        BY <2>1, <4>2, AppendProperties
      <4> HIDE DEF w
      <4>4. ASSUME NEW i \in 1..Len(r) PROVE r[i] = w[i]
        <5>1. CASE i = j + 1
          BY <3>1, <4>1, <4>3, <5>1
        <5>2. CASE i \in 1..j
          BY <4>1, <4>2, <4>3, <5>2
        <5> QED BY <4>1, <5>1, <5>2
      <4>5. r = w
        BY <4>1, <4>3, <4>4, SeqEqual
      <4> QED BY <4>5 DEF r, q, w
    <3>2. b + k = x
      BY DEF x
    <3>3. Run(b, k + 1) = Append(Run(b, k), x)
      BY <3>1, <3>2
    <3>4. Run(a, (m + k) + 1) = Append(Run(a, m + k), x)
      BY <2>1, <3>1
    <3> QED BY <2>1, <3>3, <3>4
  <2>3. Run(a, m + k) \in Seq(Int) /\ Run(b, k) \in Seq(Int)
    BY <2>1, RunFacts
  <2>4. Inflate(Run(a, m + (k + 1))) = C \o p /\ Inflate(Run(b, k + 1)) = B \o p
    BY <2>1, <2>2, <2>3, InflateAppend
  <2>5. C = A \o B /\ B \in Seq(Int) /\ p \in Seq(Int)
    BY <1>0, <1>2, <2>1, PairFacts
  <2> DEFINE E == Inflate(Run(a, m + (k + 1)))
             F == Inflate(Run(b, k + 1))
  <2>6. E = C \o p /\ F = B \o p
    BY <2>4
  <2> HIDE DEF B, C, E, F, p
  <2>7. E = (A \o B) \o p
    BY <2>5, <2>6, Zenon
  <2>8. (A \o B) \o p = A \o (B \o p)
      <3>1. A \in Seq(Int) /\ B \in Seq(Int) /\ p \in Seq(Int)
      BY <1>0, <2>5
    <3> QED BY <3>1
  <2>9. E = A \o F
    BY <2>6, <2>7, <2>8, Zenon
  <2> QED BY <2>1, <2>9 DEF E, F
<1>3. Nat \subseteq G
  <2> HIDE DEF G
  <2> QED BY <1>1, <1>2, SetInduction
<1>4. Inflate(Run(a, m + n)) = A \o Inflate(Run(b, n))
  BY <1>3
<1> QED BY <1>4, Zenon DEF A, IsConcat

-----------------------------------------------------------------------------
(* The contents of boxes. *)

ContentDecoders ==
  [brob_decode : BOOLEAN, header_done : BOOLEAN, box_until_eof : BOOLEAN, remaining : Nat, pos : Nat,
   inflated : Seq(Int)]

\* What the first p units of a box that begins at b stand for.
Text(b, brob, p) ==
  IF brob THEN (IF p = 0 THEN <<>> ELSE Inflate(Run(b + 1, p - 1))) ELSE Run(b, p)

\* A decoder of a box b of size z has written what it has read, of an input
\* that is there from lo to hi.
Reads(d, out, brob, b, z, lo, hi) ==
  /\ d \in ContentDecoders /\ out \in Seq(Int)
  /\ d.brob_decode = brob /\ d.box_until_eof = b.unbounded
  /\ d.pos <= z /\ (~b.unbounded => d.remaining = z - d.pos)
  /\ lo <= b.begin + d.pos /\ b.begin + d.pos <= hi
  /\ IsConcat(Text(b.begin, brob, d.pos), out, d.inflated)
  /\ ~brob => d.inflated = <<>>
  /\ brob => b.begin + 1 <= hi /\ (d.header_done <=> d.pos > 0)

\* It has read all there is.
Done(d, b, z, hi) == (d.pos = z \/ b.begin + d.pos = hi) /\ d.inflated = <<>>

LEMMA TextFacts ==
  ASSUME NEW b \in Nat, NEW brob \in BOOLEAN, NEW p \in Nat
  PROVE  Text(b, brob, p) \in Seq(Int)
<1>1. b \in Int /\ b + 1 \in Int
  OBVIOUS
<1>2. CASE ~brob
  BY <1>1, <1>2, RunFacts DEF Text
<1>3. CASE brob /\ p = 0
  BY <1>3, EmptySeq DEF Text
<1>4. CASE brob /\ p # 0
  <2>1. p - 1 \in Nat
    BY <1>4
  <2>2. Inflate(Run(b + 1, p - 1)) \in Seq(Int)
    BY <1>1, <2>1, RunFacts, InflateFacts
  <2> QED BY <1>4, <2>2 DEF Text
<1> QED BY <1>2, <1>3, <1>4

\* What n more units add.
Added(b, brob, p, n) ==
  IF brob THEN Inflate(Run(b + p, n)) ELSE Run(b + p, n)

LEMMA TextAdded ==
  ASSUME NEW b \in Nat, NEW brob \in BOOLEAN, NEW p \in Nat, NEW n \in Nat, brob => p > 0
  PROVE  /\ IsConcat(Text(b, brob, p + n), Text(b, brob, p), Added(b, brob, p, n))
         /\ Added(b, brob, p, n) \in Seq(Int)
<1>1. b \in Int /\ b + 1 \in Int /\ b + p \in Int /\ p + n \in Nat
  OBVIOUS
<1>2. CASE ~brob
  <2>1. Run(b, p) \o Run(b + p, n) = Run(b, p + n)
    BY <1>1, RunConcat
  <2>2. Run(b + p, n) \in Seq(Int)
    BY <1>1, RunFacts
  <2> QED BY <1>2, <2>1, <2>2, Zenon DEF Text, Added, IsConcat
<1>3. CASE brob
  <2>1. p - 1 \in Nat /\ p + n # 0 /\ p # 0 /\ (p + n) - 1 = (p - 1) + n /\ b + p = (b + 1) + (p - 1)
    BY <1>3
  <2>2. IsConcat(Inflate(Run(b + 1, (p - 1) + n)), Inflate(Run(b + 1, p - 1)), Inflate(Run(b + p, n)))
    BY <1>1, <2>1, InflateRun
  <2>3. Inflate(Run(b + p, n)) \in Seq(Int)
    BY <1>1, RunFacts, InflateFacts
  <2>4. Text(b, brob, p + n) = Inflate(Run(b + 1, (p - 1) + n)) /\ Text(b, brob, p) = Inflate(Run(b + 1, p - 1))
    BY <1>3, <2>1 DEF Text
  <2>5. Added(b, brob, p, n) = Inflate(Run(b + p, n))
    BY <1>3 DEF Added
  <2> QED BY <2>2, <2>3, <2>4, <2>5, Zenon
<1> QED BY <1>2, <1>3

\* The text of a part of a box is a prefix of the text of the box.
LEMMA TextPrefix ==
  ASSUME NEW b \in Nat, NEW brob \in BOOLEAN, NEW p \in Nat, NEW q \in Nat, p <= q
  PROVE  IsPrefix(Text(b, brob, p), Text(b, brob, q))
<1>1. CASE brob => p > 0
  <2> DEFINE n == q - p
  <2>1. n \in Nat /\ p + n = q
    OBVIOUS
  <2> HIDE DEF n
  <2> DEFINE x == Text(b, brob, p)
             y == Text(b, brob, p + n)
             z == Added(b, brob, p, n)
  <2>2. IsConcat(y, x, z) /\ z \in Seq(Int)
    BY <1>1, <2>1, TextAdded
  <2>3. x \in Seq(Int)
    BY TextFacts
  <2>4. y = Text(b, brob, q)
    BY <2>1
  <2> HIDE DEF x, y, z
  <2>5. IsPrefix(x, x \o z)
    BY <2>2, <2>3, PrefixOfConcat
  <2>6. y = x \o z
    BY <2>2 DEF IsConcat
  <2>7. IsPrefix(x, y)
    BY <2>5, <2>6, Zenon
  <2> QED BY <2>4, <2>7 DEF x
<1>2. CASE brob /\ p = 0
  <2> DEFINE y == Text(b, brob, q)
  <2>1. Text(b, brob, p) = <<>>
    BY <1>2 DEF Text
  <2>2. y \in Seq(Int) /\ <<>> \in Seq(Int)
    BY TextFacts, EmptySeq
  <2> HIDE DEF y
  <2>3. <<>> \o y = y
    BY <2>2, ConcatEmptySeq
  <2>4. IsPrefix(<<>>, <<>> \o y)
    BY <2>2, PrefixOfConcat
  <2>5. IsPrefix(<<>>, y)
    BY <2>3, <2>4, Zenon
  <2> QED BY <2>1, <2>5 DEF y
<1> QED BY <1>1, <1>2

\* All of a box.
LEMMA TextOfBox ==
  ASSUME NEW f, IsFile(f), NEW i \in 1..Len(f.boxes), NEW b, b = Ends(f)[i] - f.boxes[i].size
  PROVE  /\ b \in Nat /\ f.boxes[i].size \in Nat
         /\ Text(b, FALSE, f.boxes[i].size) = Contents(f, i)
         /\ Text(b, f.boxes[i].type = "brob", f.boxes[i].size) = Plain(f, i)
<1> DEFINE n == f.boxes[i].size
<1>1. b \in Nat /\ n \in Nat
  BY ContentsFacts
<1>2. Contents(f, i) = Run(b, n)
  BY DEF Contents
<1>3. Text(b, FALSE, n) = Contents(f, i)
  BY <1>2 DEF Text
<1>4. CASE f.boxes[i].type # "brob"
  BY <1>1, <1>3, <1>4 DEF Plain
<1>5. CASE f.boxes[i].type = "brob"
  <2>1. Plain(f, i) = Inflate(Rest(Run(b, n)))
    BY <1>2, <1>5 DEF Plain
  <2>0. b \in Int
    BY <1>1
  <2>2. Len(Run(b, n)) = n /\ b \in Int
    <3> HIDE DEF n
    <3> QED BY <1>1, <2>0, RunFacts
  <2>3. CASE n = 0
    <3>1. Run(b, n) = <<>>
      BY <2>2, <2>3, EmptyRun
    <3>2. Rest(<<>>) = <<>>
      BY EmptySeq, SubSeqProperties DEF Rest
    <3> QED BY <1>1, <1>3, <1>5, <2>1, <2>3, <3>1, <3>2, InflateEmpty DEF Text
  <2>4. CASE n # 0
    <3>1. 2 \in Nat \ {0} /\ n <= n /\ 2 <= n + 1 /\ b + 2 - 1 = b + 1 /\ n - 2 + 1 = n - 1
      BY <1>1, <2>4
    <3>2. SubSeq(Run(b, n), 2, n) = Run(b + 2 - 1, n - 2 + 1)
      BY <1>1, <2>2, <3>1, RunPart
    <3>3. Rest(Run(b, n)) = Run(b + 1, n - 1)
      BY <2>2, <3>1, <3>2 DEF Rest
    <3>4. Text(b, TRUE, n) = Inflate(Run(b + 1, n - 1))
      BY <2>4 DEF Text
    <3>5. (f.boxes[i].type = "brob") = TRUE
      BY <1>5
    <3> QED BY <1>1, <1>3, <2>1, <3>3, <3>4, <3>5
  <2> QED BY <2>3, <2>4
<1> QED BY <1>4, <1>5

LEMMA Associative ==
  ASSUME NEW p \in Seq(Int), NEW q \in Seq(Int), NEW r \in Seq(Int)
  PROVE  p \o (q \o r) = (p \o q) \o r
OBVIOUS

\* Of what is held and what is added the first k units are written.
LEMMA WrittenPart ==
  ASSUME NEW u, NEW w, NEW out \in Seq(Int), NEW held \in Seq(Int), NEW v \in Seq(Int),
         IsConcat(u, out, held), IsConcat(w, u, v), NEW all, IsConcat(all, held, v), NEW k \in 0..Len(all)
  PROVE  /\ all \in Seq(Int) /\ Len(all) = Len(held) + Len(v)
         /\ SubSeq(all, 1, k) \in Seq(Int) /\ Len(SubSeq(all, 1, k)) = k
         /\ SubSeq(all, k + 1, Len(all)) \in Seq(Int)
         /\ k = Len(all) => SubSeq(all, k + 1, Len(all)) = <<>>
         /\ IsConcat(w, out \o SubSeq(all, 1, k), SubSeq(all, k + 1, Len(all)))
<1> DEFINE x == SubSeq(all, 1, k)
           y == SubSeq(all, k + 1, Len(all))
<1>0. all = held \o v
  BY DEF IsConcat
<1>1. all \in Seq(Int) /\ Len(all) = Len(held) + Len(v)
  BY <1>0, ConcatProperties
<1>2. Len(all) \in Nat /\ k \in Nat /\ k <= Len(all) /\ \A i \in 1..Len(all) : all[i] \in Int
  BY <1>1, LenProperties, ElementOfSeq
<1>3. /\ \A i \in 1..k : all[i] \in Int
      /\ \A i \in k + 1..Len(all) : all[i] \in Int
      /\ k + 1 \in Int /\ Len(all) \in Int /\ 1 \in Int /\ k \in Int
  BY <1>2
<1>4. x \in Seq(Int) /\ Len(x) = k /\ \A i \in 1..k : x[i] = all[i]
  <2>1. /\ x \in Seq(Int) /\ Len(x) = IF 1 <= k THEN k - 1 + 1 ELSE 0
        /\ \A i \in 1..k - 1 + 1 : x[i] = all[1 + i - 1]
    BY <1>3, SubSeqProperties
  <2> QED BY <1>2, <2>1
<1>5. y \in Seq(Int) /\ Len(y) = Len(all) - k /\ \A i \in 1..Len(all) - k : y[i] = all[k + i]
  <2>1. /\ y \in Seq(Int) /\ Len(y) = IF k + 1 <= Len(all) THEN Len(all) - (k + 1) + 1 ELSE 0
        /\ \A i \in 1..Len(all) - (k + 1) + 1 : y[i] = all[(k + 1) + i - 1]
    BY <1>3, SubSeqProperties
  <2> QED BY <1>2, <2>1
<1>6. k = Len(all) => y = <<>>
  BY <1>2, <1>5, EmptySeq
<1> HIDE DEF x, y
<1>7. x \o y = all
  <2> DEFINE c == x \o y
  <2>1. /\ c \in Seq(Int) /\ Len(c) = Len(x) + Len(y)
        /\ \A i \in 1..Len(x) + Len(y) : c[i] = IF i <= Len(x) THEN x[i] ELSE y[i - Len(x)]
    BY <1>4, <1>5, ConcatProperties
  <2> HIDE DEF c
  <2>2. Len(c) = Len(all)
    BY <1>2, <1>4, <1>5, <2>1
  <2>3. ASSUME NEW i \in 1..Len(c) PROVE c[i] = all[i]
    <3>1. CASE i <= k
      BY <1>2, <1>4, <1>5, <2>1, <2>2, <3>1
    <3>2. CASE ~(i <= k)
      <4>1. i - k \in 1..Len(all) - k /\ k + (i - k) = i
        BY <1>2, <2>2, <3>2
      <4>2. c[i] = y[i - k]
        BY <1>2, <1>4, <2>1, <2>2, <3>2
      <4> QED BY <1>5, <4>1, <4>2
    <3> QED BY <3>1, <3>2
  <2>4. c = all
    BY <1>1, <2>1, <2>2, <2>3, SeqEqual
  <2> QED BY <2>4 DEF c
<1>8. u = out \o held /\ w = u \o v
  BY DEF IsConcat
<1>9. w = (out \o held) \o v
  BY <1>8, Zenon
<1>10. (out \o held) \o v = out \o (held \o v)
  OBVIOUS
<1>11. out \o (held \o v) = out \o (x \o y)
  BY <1>0, <1>7, Zenon
<1>12. out \o (x \o y) = (out \o x) \o y
  <2>1. x \in Seq(Int) /\ y \in Seq(Int)
    BY <1>4, <1>5
  <2> QED BY <2>1, Associative, Zenon
<1>13. w = (out \o x) \o y
  BY <1>9, <1>10, <1>11, <1>12, Zenon
<1>14. IsConcat(w, out \o x, y)
  BY <1>13, Zenon DEF IsConcat
<1> QED BY <1>1, <1>4, <1>5, <1>6, <1>14 DEF x, y

LEMMA DecoderUpdate ==
  ASSUME NEW d \in ContentDecoders, NEW x \in Nat, NEW y \in Nat, NEW w \in Seq(Int)
  PROVE  LET e == [d EXCEPT !.pos = x, !.inflated = w, !.remaining = y]
             r == [d EXCEPT !.pos = x, !.remaining = y]
             h == [d EXCEPT !.pos = x, !.header_done = TRUE, !.remaining = y]
         IN  /\ e \in ContentDecoders /\ e.pos = x /\ e.inflated = w /\ e.remaining = y
             /\ e.header_done = d.header_done /\ e.brob_decode = d.brob_decode
             /\ e.box_until_eof = d.box_until_eof
             /\ r \in ContentDecoders /\ r.pos = x /\ r.inflated = d.inflated /\ r.remaining = y
             /\ r.header_done = d.header_done /\ r.brob_decode = d.brob_decode
             /\ r.box_until_eof = d.box_until_eof
             /\ h \in ContentDecoders /\ h.pos = x /\ h.inflated = d.inflated /\ h.remaining = y
             /\ h.header_done = TRUE /\ h.brob_decode = d.brob_decode
             /\ h.box_until_eof = d.box_until_eof
BY DEF ContentDecoders

LEMMA DecoderFields ==
  ASSUME NEW d \in ContentDecoders
  PROVE  /\ d.pos \in Nat /\ d.remaining \in Nat /\ d.inflated \in Seq(Int)
         /\ d.brob_decode \in BOOLEAN /\ d.header_done \in BOOLEAN /\ d.box_until_eof \in BOOLEAN
BY DEF ContentDecoders

Results == {"SUCCESS", "NEED_MORE_INPUT", "BOX_NEED_MORE_OUTPUT", "ERROR"}

\* What JxlBoxContentDecoder::Process() achieves from a decoder d.
Wrote(r, d, out, brob, b, z, lo, hi, room) ==
  /\ Reads(r.dec, out \o r.out, brob, b, z, lo, hi)
  /\ r.out \in Seq(Int) /\ Len(r.out) <= room /\ r.result \in Results
  /\ r.result \in {"SUCCESS", "NEED_MORE_INPUT"} => Done(r.dec, b, z, hi)
  /\ r.result = "SUCCESS" /\ (~b.unbounded \/ brob) => r.dec.pos = z
  /\ r.result = "NEED_MORE_INPUT" => r.dec.pos < z /\ (b.unbounded => brob)
  /\ r.result = "ERROR" => brob /\ z < 1
  /\ d.inflated = <<>> /\ room >= 2 * z => r.result # "BOX_NEED_MORE_OUTPUT" /\ r.dec.inflated = <<>>

LEMMA RunPrefix ==
  ASSUME NEW c \in Int, NEW m \in Nat, NEW n \in Nat, n <= m
  PROVE  SubSeq(Run(c, m), 1, n) = Run(c, n)
<1>1. 1 \in Nat \ {0} /\ 1 <= n + 1 /\ c + 1 - 1 = c /\ n - 1 + 1 = n
  OBVIOUS
<1>2. SubSeq(Run(c, m), 1, n) = Run(c + 1 - 1, n - 1 + 1)
  BY <1>1, RunPart
<1> QED BY <1>1, <1>2

\* The part of the input that a decoder at offset a sees.
Unread(bytes, a, hi) == bytes = Run(a, hi - a)

\* A decoder of a box that is not compressed.
LEMMA RawFacts ==
  ASSUME NEW b \in BoxRecords, NEW z \in Nat, NEW lo \in Nat, NEW hi \in Nat, NEW room \in Nat,
         NEW d, NEW out, Reads(d, out, FALSE, b, z, lo, hi), b.unbounded => hi <= b.begin + z,
         NEW bytes, Unread(bytes, b.begin + d.pos, hi)
  PROVE  Wrote(ReadRaw(d, bytes, room), d, out, FALSE, b, z, lo, hi, room)
<1>1. /\ d \in ContentDecoders /\ out \in Seq(Int) /\ ~d.brob_decode
      /\ d.box_until_eof = b.unbounded /\ d.pos <= z /\ (~b.unbounded => d.remaining = z - d.pos)
      /\ lo <= b.begin + d.pos /\ b.begin + d.pos <= hi /\ d.inflated = <<>>
      /\ IsConcat(Text(b.begin, FALSE, d.pos), out, d.inflated)
  BY DEF Reads
<1>2. d.pos \in Nat /\ d.remaining \in Nat /\ b.begin \in Nat /\ b.unbounded \in BOOLEAN
  BY <1>1, DecoderFields DEF BoxRecords
<1> DEFINE p == d.pos
           a == b.begin
           u == b.unbounded
           rem == d.remaining
           len == hi - (a + p)
           can_read == IF u THEN len ELSE Min2(len, rem)
           n == Min2(can_read, room)
           remaining == IF u THEN 0 ELSE rem - n
           q == p + n
           e == [d EXCEPT !.pos = q, !.remaining = remaining]
           x == Run(a + p, n)
           r == ReadRaw(d, bytes, room)
           o == out \o x
<1>3. /\ p \in Nat /\ a \in Nat /\ u \in BOOLEAN /\ rem \in Nat /\ p <= z /\ (~u => rem = z - p)
      /\ lo <= a + p /\ a + p <= hi /\ (u => hi <= a + z) /\ bytes = Run(a + p, len)
      /\ IsConcat(Text(a, FALSE, p), out, <<>>) /\ d.box_until_eof = u
  BY <1>1, <1>2 DEF Unread
<1> HIDE DEF p, a, u, rem
<1>4. /\ len \in Nat /\ can_read \in Nat /\ n \in Nat /\ n <= len /\ n <= room /\ remaining \in Nat
      /\ ~u => remaining = z - (p + n)
      /\ p + n <= z /\ lo <= a + (p + n) /\ a + (p + n) <= hi
      /\ n <= can_read /\ (n = can_read => p + n = z \/ a + (p + n) = hi)
      /\ ~u /\ remaining = 0 => p + n = z
      /\ remaining > 0 => ~u /\ p + n < z
      /\ room >= 2 * z => n = can_read
  <2>1. /\ len = hi - (a + p) /\ can_read = (IF u THEN len ELSE Min2(len, rem)) /\ n = Min2(can_read, room)
        /\ remaining = IF u THEN 0 ELSE rem - n
    OBVIOUS
  <2> HIDE DEF len, can_read, n, remaining
  <2>2. CASE u
    BY <1>3, <2>1, <2>2 DEF Min2
  <2>3. CASE ~u
    BY <1>3, <2>1, <2>3 DEF Min2
  <2> QED BY <1>3, <2>2, <2>3
<1>5. a + p \in Int /\ q \in Nat
  <2> HIDE DEF n
  <2> QED BY <1>3, <1>4
<1>6. bytes \in Seq(Int) /\ Len(bytes) = len
  <2> HIDE DEF len
  <2> QED BY <1>3, <1>4, <1>5, RunFacts
<1>7. r.dec = [d EXCEPT !.pos = p + n, !.remaining = remaining] /\ r.out = SubSeq(bytes, 1, n)
      /\ r.result = IF n < can_read THEN "BOX_NEED_MORE_OUTPUT"
                    ELSE IF remaining > 0 THEN "NEED_MORE_INPUT" ELSE "SUCCESS"
  <2>1. Len(bytes) = len /\ d.box_until_eof = u /\ d.pos = p /\ d.remaining = rem
    BY <1>3, <1>6 DEF p, rem
  <2>2. can_read = (IF d.box_until_eof THEN Len(bytes) ELSE Min2(Len(bytes), d.remaining))
    BY <2>1
  <2>3. remaining = IF d.box_until_eof THEN 0 ELSE d.remaining - n
    BY <2>1
  <2> HIDE DEF can_read
  <2>4. n = Min2(can_read, room)
    OBVIOUS
  <2>5. can_read \in Nat
    BY <1>4
  <2>6. r = ReadRaw(d, bytes, room)
    OBVIOUS
  <2> HIDE DEF n, remaining, r
  <2> DEFINE f == [d EXCEPT !.pos = d.pos + n, !.remaining = remaining]
             y == SubSeq(bytes, 1, n)
             t == CASE n < can_read -> "BOX_NEED_MORE_OUTPUT"
                    [] n = can_read /\ remaining > 0 -> "NEED_MORE_INPUT"
                    [] OTHER -> "SUCCESS"
  <2>7. r = [dec |-> f, out |-> y, result |-> t]
    BY <2>2, <2>3, <2>4, <2>6, Zenon DEF ReadRaw
  <2>8. t = IF n < can_read THEN "BOX_NEED_MORE_OUTPUT"
            ELSE IF remaining > 0 THEN "NEED_MORE_INPUT" ELSE "SUCCESS"
    <3>1. n \in Nat /\ (n < can_read \/ n = can_read) /\ ~(n < can_read /\ n = can_read)
      BY <2>4, <2>5 DEF Min2
    <3> QED BY <3>1
  <2> HIDE DEF f, y, t
  <2>9. r.dec = f /\ r.out = y /\ r.result = t
    BY <2>7
  <2> QED BY <2>1, <2>8, <2>9, Zenon DEF f, y
<1> HIDE DEF r, len, can_read, n, remaining
<1>8. SubSeq(bytes, 1, n) = x
  BY <1>3, <1>4, <1>5, RunPrefix
<1>9. x \in Seq(Int) /\ Len(x) = n
  BY <1>4, <1>5, RunFacts
<1>10. r.dec = e /\ r.out = x
  BY <1>7, <1>8
<1> HIDE DEF q
<1>11. /\ e \in ContentDecoders /\ e.pos = q /\ e.remaining = remaining /\ e.inflated = d.inflated
       /\ e.brob_decode = d.brob_decode /\ e.box_until_eof = d.box_until_eof
  BY <1>1, <1>4, <1>5 DEF ContentDecoders
<1> HIDE DEF e
<1>12. IsConcat(Text(a, FALSE, q), o, <<>>) /\ o \in Seq(Int)
  <2> DEFINE t == Text(a, FALSE, p)
             w == Text(a, FALSE, q)
  <2>1. IsConcat(w, t, Added(a, FALSE, p, n))
    BY <1>3, <1>4, TextAdded DEF q
  <2>2. Added(a, FALSE, p, n) = x
    BY DEF Added
  <2>3. IsConcat(t, out, <<>>)
    BY <1>3
  <2> HIDE DEF x, t, w
  <2>4. t = out \o <<>> /\ w = t \o x
    BY <2>1, <2>2, <2>3 DEF IsConcat
  <2>5. out \o <<>> = out
    BY <1>1, ConcatEmptySeq
  <2>6. w = o
    BY <2>4, <2>5, Zenon
  <2>7. o \in Seq(Int)
    BY <1>1, <1>9, ConcatProperties
  <2> HIDE DEF o
  <2>8. o \o <<>> = o
    BY <2>7, ConcatEmptySeq
  <2>9. w = o \o <<>>
    BY <2>6, <2>8, Zenon
  <2> QED BY <2>7, <2>9, Zenon DEF IsConcat, w
<1> HIDE DEF o, x
<1>13. Reads(e, o, FALSE, b, z, lo, hi)
  <2>1. /\ ~b.unbounded => e.remaining = z - e.pos
        /\ e.pos <= z /\ lo <= b.begin + e.pos /\ b.begin + e.pos <= hi
        /\ IsConcat(Text(b.begin, FALSE, e.pos), o, e.inflated)
    BY <1>1, <1>4, <1>11, <1>12 DEF q, u, a
  <2> QED BY <1>1, <1>11, <1>12, <2>1 DEF Reads
<1>14. n = can_read => Done(e, b, z, hi)
  BY <1>1, <1>4, <1>11 DEF Done, q, a
<1>15. /\ r.result \in {"SUCCESS", "NEED_MORE_INPUT"} => n = can_read
       /\ r.result = "SUCCESS" => ~(remaining > 0)
       /\ r.result = "NEED_MORE_INPUT" => remaining > 0
       /\ n = can_read => r.result # "BOX_NEED_MORE_OUTPUT"
       /\ r.result \in Results \ {"ERROR"}
  BY <1>4, <1>7 DEF Results
<1>16. /\ r.result = "SUCCESS" /\ ~b.unbounded => e.pos = z
       /\ r.result = "NEED_MORE_INPUT" => e.pos < z /\ ~b.unbounded
  <2>1. remaining > 0 \/ remaining = 0
    BY <1>4
  <2> QED BY <1>4, <1>11, <1>15, <2>1 DEF q, u
<1>17. Reads(r.dec, out \o r.out, FALSE, b, z, lo, hi)
  BY <1>10, <1>13, Zenon DEF o
<1>18. r.out \in Seq(Int) /\ Len(r.out) <= room
  BY <1>4, <1>9, <1>10
<1>19. r.result \in {"SUCCESS", "NEED_MORE_INPUT"} => Done(r.dec, b, z, hi)
  BY <1>10, <1>14, <1>15
<1>20. room >= 2 * z => r.result # "BOX_NEED_MORE_OUTPUT" /\ r.dec.inflated = <<>>
  BY <1>1, <1>4, <1>10, <1>11, <1>15
<1>21. Wrote(r, d, out, FALSE, b, z, lo, hi, room)
  BY <1>10, <1>15, <1>16, <1>17, <1>18, <1>19, <1>20 DEF Wrote
<1> QED BY <1>21 DEF r

\* A decoder of a brob box that is past the inner type.
LEMMA BrotliFacts ==
  ASSUME NEW b \in BoxRecords, NEW z \in Nat, NEW lo \in Nat, NEW hi \in Nat, NEW room \in Nat,
         NEW d, NEW out, Reads(d, out, TRUE, b, z, lo, hi), d.pos > 0,
         file.boxes[box_count].size = z, NEW bytes, Unread(bytes, b.begin + d.pos, hi)
  PROVE  Wrote(BrotliDecompress(d, bytes, room), d, out, TRUE, b, z, lo, hi, room)
<1>1. /\ d \in ContentDecoders /\ out \in Seq(Int) /\ d.brob_decode = TRUE
      /\ d.box_until_eof = b.unbounded /\ d.pos <= z /\ (~b.unbounded => d.remaining = z - d.pos)
      /\ lo <= b.begin + d.pos /\ b.begin + d.pos <= hi
      /\ IsConcat(Text(b.begin, TRUE, d.pos), out, d.inflated)
      /\ b.begin + 1 <= hi /\ (d.header_done <=> d.pos > 0)
  BY DEF Reads
<1>2. /\ d.pos \in Nat /\ d.remaining \in Nat /\ b.begin \in Nat /\ b.unbounded \in BOOLEAN
      /\ d.inflated \in Seq(Int) /\ d.header_done \in BOOLEAN
  BY <1>1, DecoderFields DEF BoxRecords
<1> DEFINE p == d.pos
           a == b.begin
           u == b.unbounded
           rem == d.remaining
           held == d.inflated
           len == hi - (a + p)
           left == z - p
           n == Min2(len, left)
           v == Inflate(Run(a + p, n))
           all == held \o v
           k == Min2(Len(all), room)
           x == SubSeq(all, 1, k)
           y == SubSeq(all, k + 1, Len(all))
           q == p + n
           remaining == IF u THEN rem ELSE rem - n
           e == [d EXCEPT !.pos = q, !.inflated = y, !.remaining = remaining]
           r == BrotliDecompress(d, bytes, room)
           o == out \o x
           t == CASE k < Len(all) -> "BOX_NEED_MORE_OUTPUT"
                  [] k = Len(all) /\ n < left -> "NEED_MORE_INPUT"
                  [] OTHER -> "SUCCESS"
<1>3. /\ p \in Nat /\ a \in Nat /\ u \in BOOLEAN /\ rem \in Nat /\ p <= z /\ (~u => rem = z - p)
      /\ lo <= a + p /\ a + p <= hi /\ bytes = Run(a + p, len) /\ held \in Seq(Int) /\ p > 0
      /\ IsConcat(Text(a, TRUE, p), out, held) /\ d.box_until_eof = u
  BY <1>1, <1>2 DEF Unread
<1> HIDE DEF p, a, u, rem, held
<1>4. /\ len \in Nat /\ left \in Nat /\ n \in Nat /\ n <= len /\ n <= left /\ (n = len \/ n = left)
      /\ q \in Nat /\ q <= z /\ lo <= a + q /\ a + q <= hi /\ remaining \in Nat
      /\ n = left => q = z
      /\ n < left => q < z
      /\ n = len => a + q = hi
      /\ ~u => remaining = z - q
  <2>1. len = hi - (a + p) /\ left = z - p /\ n = Min2(len, left) /\ q = p + n
    OBVIOUS
  <2> HIDE DEF len, left, n, q
  <2>0. /\ p \in Nat /\ a \in Nat /\ u \in BOOLEAN /\ rem \in Nat /\ p <= z /\ (~u => rem = z - p)
        /\ lo <= a + p /\ a + p <= hi
    BY <1>3
  <2>2. n \in Nat /\ n <= len /\ n <= left /\ (n = len \/ n = left) /\ len \in Nat /\ left \in Nat
    BY <1>3, <2>1 DEF Min2
  <2>3. remaining \in Nat /\ (~u => remaining = z - q)
    <3>1. CASE u
      BY <1>3, <3>1
    <3>2. CASE ~u
      <4>1. rem = z - p
        BY <2>0, <3>2
      <4>2. remaining = rem - n
        BY <3>2
      <4> HIDE DEF remaining
      <4> QED BY <2>0, <2>1, <2>2, <4>1, <4>2
    <3> QED BY <2>0, <3>1, <3>2
  <2> HIDE DEF remaining
  <2>4. q \in Nat /\ q <= z /\ lo <= a + q /\ a + q <= hi
    BY <2>0, <2>1, <2>2
  <2>5. (n = left => q = z) /\ (n < left => q < z) /\ (n = len => a + q = hi)
    BY <2>0, <2>1, <2>2
  <2> QED BY <2>2, <2>3, <2>4, <2>5
<1>5. a + p \in Int
  BY <1>3
<1>6. Len(bytes) = len /\ SubSeq(bytes, 1, n) = Run(a + p, n) /\ Run(a + p, n) \in Seq(Int) /\ Len(Run(a + p, n)) = n
  <2> HIDE DEF len, n
  <2> QED BY <1>3, <1>4, <1>5, RunFacts, RunPrefix
<1>7. r = [dec |-> e, out |-> x, result |-> t]
  <2>1. /\ Len(bytes) = len /\ d.box_until_eof = u /\ d.pos = p /\ d.remaining = rem /\ d.inflated = held
        /\ file.boxes[box_count].size = z /\ SubSeq(bytes, 1, n) = Run(a + p, n)
    BY <1>3, <1>6 DEF p, rem, held
  <2>2. left = file.boxes[box_count].size - d.pos
    BY <2>1
  <2> HIDE DEF left
  <2>3. n = Min2(Len(bytes), left)
    BY <2>1
  <2> HIDE DEF n
  <2>4. all = d.inflated \o Inflate(SubSeq(bytes, 1, n))
    BY <2>1, Zenon
  <2> HIDE DEF all
  <2>5. remaining = IF d.box_until_eof THEN d.remaining ELSE d.remaining - n
    BY <2>1
  <2>6. q = d.pos + n /\ k = Min2(Len(all), room)
    BY <2>1
  <2> HIDE DEF k, remaining, q, t
  <2>7. r = [dec |-> [d EXCEPT !.pos = q, !.inflated = SubSeq(all, k + 1, Len(all)), !.remaining = remaining],
             out |-> SubSeq(all, 1, k), result |-> t]
    BY <2>2, <2>3, <2>4, <2>5, <2>6, Zenon DEF BrotliDecompress, t
  <2> QED BY <2>7
<1>8. v \in Seq(Int) /\ Len(v) = 2 * n
  <2> HIDE DEF n
  <2> QED BY <1>6, InflateFacts
<1>9. IsConcat(all, held, v)
  BY Zenon DEF IsConcat
<1>10. IsConcat(Text(a, TRUE, q), Text(a, TRUE, p), v)
  <2>1. Added(a, TRUE, p, n) = v
    BY DEF Added
  <2> HIDE DEF n, v
  <2> QED BY <1>3, <1>4, <2>1, TextAdded
<1> HIDE DEF r, len, left, n, v, q, remaining, all
<1>11. all \in Seq(Int) /\ Len(all) \in Nat
  <2>1. all = held \o v
    BY <1>9 DEF IsConcat
  <2> QED BY <1>3, <1>8, <2>1, ConcatProperties, LenProperties
<1>12. k \in 0..Len(all) /\ k <= room /\ (k < Len(all) \/ k = Len(all)) /\ ~(k < Len(all) /\ k = Len(all))
       /\ (Len(all) <= room => k = Len(all))
  BY <1>11 DEF Min2
<1> HIDE DEF k
<1>13. /\ all \in Seq(Int) /\ Len(all) = Len(held) + Len(v)
       /\ x \in Seq(Int) /\ Len(x) = k /\ y \in Seq(Int)
       /\ k = Len(all) => y = <<>>
       /\ IsConcat(Text(a, TRUE, q), out \o x, y)
  <2>1. out \in Seq(Int) /\ held \in Seq(Int) /\ v \in Seq(Int) /\ IsConcat(Text(a, TRUE, p), out, held)
    BY <1>1, <1>3, <1>8
  <2> DEFINE f == Text(a, TRUE, p)
             w == Text(a, TRUE, q)
  <2>2. IsConcat(f, out, held) /\ IsConcat(w, f, v) /\ IsConcat(all, held, v) /\ k \in 0..Len(all)
    BY <1>9, <1>10, <1>12, <2>1
  <2> HIDE DEF f, w
  <2>3. /\ all \in Seq(Int) /\ Len(all) = Len(held) + Len(v)
        /\ SubSeq(all, 1, k) \in Seq(Int) /\ Len(SubSeq(all, 1, k)) = k
        /\ SubSeq(all, k + 1, Len(all)) \in Seq(Int)
        /\ k = Len(all) => SubSeq(all, k + 1, Len(all)) = <<>>
        /\ IsConcat(w, out \o SubSeq(all, 1, k), SubSeq(all, k + 1, Len(all)))
    BY <2>1, <2>2, WrittenPart
  <2> QED BY <2>3, Zenon DEF w
<1> HIDE DEF x, y
<1>14. /\ t = "BOX_NEED_MORE_OUTPUT" => k < Len(all)
       /\ t \in {"SUCCESS", "NEED_MORE_INPUT"} => k = Len(all)
       /\ t = "NEED_MORE_INPUT" => n < left
       /\ t = "SUCCESS" => ~(n < left)
       /\ t \in Results /\ t # "ERROR"
  BY <1>12 DEF Results
<1> HIDE DEF t
<1>15. r.dec = e /\ r.out = x /\ r.result = t
  BY <1>7
<1>16. /\ e \in ContentDecoders /\ e.pos = q /\ e.remaining = remaining /\ e.inflated = y
       /\ e.brob_decode = d.brob_decode /\ e.box_until_eof = d.box_until_eof /\ e.header_done = d.header_done
  BY <1>1, <1>4, <1>13 DEF ContentDecoders
<1> HIDE DEF e
<1>17. o \in Seq(Int)
  BY <1>1, <1>13, ConcatProperties
<1>18. IsConcat(Text(a, TRUE, q), o, y)
  BY <1>13
<1> HIDE DEF o
<1>19. Reads(e, o, TRUE, b, z, lo, hi)
  <2>1. e.pos <= z /\ (~b.unbounded => e.remaining = z - e.pos) /\ lo <= b.begin + e.pos /\ b.begin + e.pos <= hi
    BY <1>4, <1>16 DEF a, u
  <2>2. IsConcat(Text(b.begin, TRUE, e.pos), o, e.inflated)
    BY <1>16, <1>18 DEF a
  <2>3. e.header_done <=> e.pos > 0
    BY <1>1, <1>3, <1>4, <1>16 DEF q
  <2> QED BY <1>1, <1>16, <1>17, <2>1, <2>2, <2>3 DEF Reads
<1>20. Reads(r.dec, out \o r.out, TRUE, b, z, lo, hi)
  BY <1>15, <1>19, Zenon DEF o
<1>21. r.out \in Seq(Int) /\ Len(r.out) <= room /\ r.result \in Results /\ r.result # "ERROR"
  BY <1>12, <1>13, <1>14, <1>15
<1>22. r.result \in {"SUCCESS", "NEED_MORE_INPUT"} => Done(r.dec, b, z, hi)
  BY <1>4, <1>13, <1>14, <1>15, <1>16 DEF Done, a
<1>23. r.result = "SUCCESS" => r.dec.pos = z
  BY <1>4, <1>14, <1>15, <1>16
<1>24. r.result = "NEED_MORE_INPUT" => r.dec.pos < z
  BY <1>4, <1>14, <1>15, <1>16
<1>25. ASSUME d.inflated = <<>>, room >= 2 * z
       PROVE  r.result # "BOX_NEED_MORE_OUTPUT" /\ r.dec.inflated = <<>>
  <2>1. Len(held) = 0
    BY <1>25, EmptySeq DEF held
  <2>2. Len(all) = 2 * n /\ n <= z
    BY <1>3, <1>4, <1>8, <1>13, <2>1 DEF left
  <2>3. k = Len(all)
    BY <1>4, <1>12, <1>25, <2>2
  <2> QED BY <1>12, <1>13, <1>14, <1>15, <1>16, <2>3
<1>26. Wrote(r, d, out, TRUE, b, z, lo, hi, room)
  BY <1>20, <1>21, <1>22, <1>23, <1>24, <1>25 DEF Wrote
<1> QED BY <1>26 DEF r

Size == file.boxes[box_count].size

\* A box that is read lies in the input up to where it was sent.
LEMMA BoxFacts ==
  ASSUME PInv, Live, box_stage # "kHeader", file.container
  PROVE  /\ IsFile(file) /\ box_count \in 1..Len(file.boxes) /\ box \in BoxRecords /\ Size \in Nat
         /\ file_pos \in Nat /\ sent \in Nat /\ box.begin <= file_pos /\ file_pos <= box.begin + Size
         /\ file_pos <= sent
         /\ box.begin = Ends(file)[box_count] - Size /\ box.begin + Size = Ends(file)[box_count]
         /\ box.unbounded = file.boxes[box_count].unbounded
         /\ box.unbounded => sent <= box.begin + Size
         /\ Ends(file)[box_count] \in Nat /\ Size <= FileSize(file)
<1>1. /\ IsFile(file) /\ Len(file.boxes) \in Nat /\ Cur \in 1..Len(file.boxes)
      /\ file.boxes[Cur].size \in Nat /\ Ends(file)[Cur] \in Nat /\ Cur = box_count
      /\ box \in BoxRecords /\ box.begin = Ends(file)[Cur] - file.boxes[Cur].size
      /\ box.unbounded = file.boxes[Cur].unbounded
      /\ box.unbounded => Ends(file)[Cur] = FileSize(file)
      /\ box.begin <= file_pos /\ file_pos <= Ends(file)[Cur] /\ file_pos \in Nat
  BY CurFacts
<1>2. Ends(file)[Cur] <= FileSize(file) /\ Ends(file)[Cur] - file.boxes[Cur].size \in Nat
  BY <1>1, ContentsFacts
<1>3. FileSize(file) \in Nat
  <2>1. Len(file.boxes) \in 0..Len(file.boxes)
    BY <1>1
  <2> QED BY <1>1, <2>1, EndsFacts DEF FileSize
<1>4. sent \in Nat /\ sent <= FileSize(file) /\ file_pos <= sent
  <2>1. /\ sent \in 0..FileSize(file) /\ unread \in Nat /\ avail_in \in Nat
        /\ next_in = -1 => file_pos + unread = sent
        /\ next_in # -1 => file_pos + avail_in = sent
    BY DEF PInv, InputInv
  <2> QED BY <1>1, <1>3, <2>1
<1>5. Size = file.boxes[Cur].size
  BY <1>1 DEF Size
<1> DEFINE e == Ends(file)[Cur]
           z == Size
           b == box.begin
           F == FileSize(file)
<1>6. e \in Nat /\ z \in Nat /\ b = e - z /\ b \in Nat /\ e <= F /\ F \in Nat /\ b <= file_pos /\ file_pos <= e
  BY <1>1, <1>2, <1>3, <1>5
<1>7. box.unbounded => e = F
  BY <1>1
<1> HIDE DEF e, z, b, F
<1>8. b + z = e /\ z <= F
  BY <1>6
<1> QED BY <1>1, <1>4, <1>5, <1>6, <1>7, <1>8 DEF e, z, b, F

LEMMA ProcessFacts ==
  ASSUME PInv, pc # "Application", box_stage # "kHeader", file.container,
         NEW d, NEW out, NEW brob \in BOOLEAN, NEW room \in Nat,
         Reads(d, out, brob, box, Size, file_pos, sent)
  PROVE  Wrote(Process(d, room), d, out, brob, box, Size, file_pos, sent, room)
<1>0. Live
  BY DEF Live
<1>1. /\ box \in BoxRecords /\ Size \in Nat /\ file_pos \in Nat /\ sent \in Nat
      /\ box.begin <= file_pos /\ (box.unbounded => sent <= box.begin + Size)
  BY <1>0, BoxFacts
<1>2. /\ d \in ContentDecoders /\ out \in Seq(Int) /\ d.brob_decode = brob
      /\ d.box_until_eof = box.unbounded /\ d.pos <= Size /\ (~box.unbounded => d.remaining = Size - d.pos)
      /\ file_pos <= box.begin + d.pos /\ box.begin + d.pos <= sent
      /\ IsConcat(Text(box.begin, brob, d.pos), out, d.inflated)
      /\ brob => box.begin + 1 <= sent /\ (d.header_done <=> d.pos > 0)
  BY DEF Reads
<1>3. /\ d.pos \in Nat /\ d.remaining \in Nat /\ box.begin \in Nat /\ box.unbounded \in BOOLEAN
      /\ d.inflated \in Seq(Int) /\ d.header_done \in BOOLEAN
  BY <1>1, <1>2, DecoderFields DEF BoxRecords
<1> DEFINE ahead == Ahead(d)
           bytes == Run(next_in + ahead, avail_in - ahead)
           at == box.begin + d.pos
           r == Process(d, room)
<1>4. at \in Nat /\ sent - at \in Nat /\ at \in Int
  BY <1>1, <1>2, <1>3
<1>5. Unread(bytes, at, sent)
  <2>0. /\ next_in \in Int /\ avail_in \in Nat
        /\ next_in = -1 => avail_in = 0 /\ file_pos + 0 = sent
        /\ next_in # -1 => next_in = file_pos /\ file_pos + avail_in = sent
    BY DEF PInv, InputInv
  <2>1. ahead = at - file_pos
    BY <1>1, <1>3 DEF Ahead
  <2>2. file_pos <= at /\ at <= sent
    BY <1>2
  <2> HIDE DEF at, ahead
  <2>3. CASE next_in = -1
    <3>1. ahead = 0 /\ avail_in - ahead = 0 /\ sent - at = 0 /\ next_in + ahead \in Int
      BY <1>1, <1>4, <2>0, <2>1, <2>2, <2>3
    <3>2. Run(next_in + ahead, 0) = <<>> /\ Run(at, 0) = <<>>
      BY <1>4, <3>1, EmptyRun
    <3>3. bytes = Run(next_in + ahead, 0) /\ Run(at, sent - at) = Run(at, 0)
      BY <3>1
    <3> HIDE DEF bytes
    <3> QED BY <3>2, <3>3, Zenon DEF Unread
  <2>4. CASE next_in # -1
    <3>1. next_in + ahead = at /\ avail_in - ahead = sent - at
      BY <1>1, <1>4, <2>0, <2>1, <2>2, <2>4
    <3> QED BY <3>1 DEF Unread
  <2> QED BY <2>3, <2>4
<1>6. bytes \in Seq(Int) /\ Len(bytes) = sent - at
  <2>1. bytes = Run(at, sent - at)
    BY <1>5 DEF Unread
  <2> HIDE DEF bytes, at
  <2> QED BY <1>4, <2>1, RunFacts
<1>7. CASE ~brob
  <2>1. r = ReadRaw(d, bytes, room)
    BY <1>2, <1>7 DEF Process
  <2>2. Reads(d, out, FALSE, box, Size, file_pos, sent) /\ brob = FALSE
    BY <1>7
  <2> HIDE DEF bytes, r
  <2>3. Wrote(ReadRaw(d, bytes, room), d, out, FALSE, box, Size, file_pos, sent, room)
    BY <1>1, <1>5, <2>2, RawFacts
  <2> QED BY <2>1, <2>2, <2>3 DEF r
<1>8. CASE brob /\ d.header_done
  <2>1. r = BrotliDecompress(d, bytes, room)
    BY <1>2, <1>8 DEF Process
  <2>2. Reads(d, out, TRUE, box, Size, file_pos, sent) /\ brob = TRUE /\ d.pos > 0
    BY <1>2, <1>8
  <2>3. file.boxes[box_count].size = Size
    BY DEF Size
  <2> HIDE DEF bytes, r
  <2>4. Wrote(BrotliDecompress(d, bytes, room), d, out, TRUE, box, Size, file_pos, sent, room)
    BY <1>1, <1>5, <2>2, <2>3, BrotliFacts
  <2> QED BY <2>1, <2>2, <2>4 DEF r
<1>9. CASE brob /\ ~d.header_done
  <2>1. brob = TRUE /\ d.pos = 0 /\ box.begin + 1 <= sent /\ d.brob_decode /\ ~d.header_done
    BY <1>2, <1>3, <1>9
  <2>2. at = box.begin /\ sent - at >= 1
    BY <1>1, <1>3, <2>1
  <2>3. bytes # <<>>
    BY <1>6, <2>2, EmptySeq
  <2>4. d.inflated = <<>> /\ out = <<>>
    <3> DEFINE w == d.inflated
    <3>1. IsConcat(<<>>, out, w) /\ w \in Seq(Int)
      BY <1>2, <1>3, <2>1 DEF Text
    <3> HIDE DEF w
    <3>2. out \o w = <<>>
      BY <3>1 DEF IsConcat
    <3>3. Len(out \o w) = Len(out) + Len(w) /\ Len(out) \in Nat /\ Len(w) \in Nat
      BY <1>2, <3>1, ConcatProperties, LenProperties
    <3>4. Len(out) = 0 /\ Len(w) = 0
      BY <3>2, <3>3, EmptySeq
    <3> QED BY <1>2, <3>1, <3>4, EmptySeq DEF w
  <2>5. CASE ~box.unbounded /\ d.remaining < 1
    <3>1. r = [dec |-> d, out |-> <<>>, result |-> "ERROR"]
      BY <1>2, <2>1, <2>3, <2>5 DEF Process
    <3> HIDE DEF r
    <3>2. r.dec = d /\ r.out = <<>> /\ r.result = "ERROR"
      BY <3>1
    <3>3. out \o r.out = out /\ r.out \in Seq(Int) /\ Len(r.out) = 0
      BY <1>2, <3>2, ConcatEmptySeq, EmptySeq
    <3>4. Reads(r.dec, out \o r.out, brob, box, Size, file_pos, sent)
      BY <3>2, <3>3, Zenon
    <3>5. Wrote(r, d, out, brob, box, Size, file_pos, sent, room)
      <4>1. Size < 1
        BY <1>1, <1>2, <1>3, <2>1, <2>5
      <4>2. brob /\ Size < 1
        BY <2>1, <4>1
      <4>3. /\ r.result \in Results /\ r.result \notin {"SUCCESS", "NEED_MORE_INPUT", "BOX_NEED_MORE_OUTPUT"}
            /\ r.dec.inflated = <<>> /\ Len(r.out) <= room /\ r.out \in Seq(Int)
        BY <2>4, <3>2, <3>3 DEF Results
      <4> QED BY <3>4, <4>2, <4>3 DEF Wrote
    <3> QED BY <3>5 DEF r
  <2>6. CASE box.unbounded \/ ~(d.remaining < 1)
    <3> DEFINE n == 1
               rem == IF box.unbounded THEN d.remaining ELSE d.remaining - 1
               e == [d EXCEPT !.pos = 1, !.header_done = TRUE, !.remaining = rem]
               t == Tail(bytes)
    <3>1. rem \in Nat /\ Size >= 1 /\ (~box.unbounded => rem = Size - 1)
      BY <1>1, <1>2, <1>3, <2>1, <2>2, <2>6
    <3>2. r = BrotliDecompress(e, t, room)
      <4> HIDE DEF bytes
      <4>1. e = [d EXCEPT !.pos = d.pos + 1, !.header_done = TRUE,
                          !.remaining = IF d.box_until_eof THEN d.remaining ELSE d.remaining - 1]
        BY <1>2, <2>1
      <4>2. ~(~d.box_until_eof /\ d.remaining < 1)
        BY <1>2, <2>6
      <4> HIDE DEF e, rem
      <4> QED BY <2>1, <2>3, <4>1, <4>2 DEF Process, bytes
    <3> HIDE DEF rem
    <3>3. /\ e \in ContentDecoders /\ e.pos = 1 /\ e.header_done = TRUE /\ e.remaining = rem
          /\ e.inflated = d.inflated /\ e.brob_decode = d.brob_decode /\ e.box_until_eof = d.box_until_eof
      BY <1>2, <3>1 DEF ContentDecoders
    <3> HIDE DEF e
    <3>4. Text(box.begin, TRUE, 1) = <<>>
      <4>1. box.begin + 1 \in Int /\ 1 - 1 = 0
        BY <1>3
      <4>2. Run(box.begin + 1, 0) = <<>>
        BY <4>1, EmptyRun
      <4> QED BY <4>1, <4>2, InflateEmpty DEF Text
    <3>5. Text(box.begin, TRUE, 0) = <<>>
      BY DEF Text
    <3>6. IsConcat(Text(box.begin, TRUE, e.pos), out, e.inflated)
      BY <1>2, <2>1, <3>3, <3>4, <3>5, Zenon
    <3>7. Reads(e, out, TRUE, box, Size, file_pos, sent)
      <4>1. /\ e.pos <= Size /\ (~box.unbounded => e.remaining = Size - e.pos)
            /\ file_pos <= box.begin + e.pos /\ box.begin + e.pos <= sent
            /\ (e.header_done <=> e.pos > 0)
        BY <1>1, <1>2, <1>3, <2>1, <3>1, <3>3
      <4> QED BY <1>2, <2>1, <3>3, <3>6, <4>1 DEF Reads
    <3>8. Unread(t, box.begin + e.pos, sent)
      <4>1. bytes = Run(at, sent - at)
        BY <1>5 DEF Unread
      <4> HIDE DEF bytes
      <4>2. t = SubSeq(bytes, 2, Len(bytes))
        BY <1>6, <2>3, TailIsSubSeq
      <4> DEFINE m == sent - at
      <4>3. m \in Nat /\ m >= 1 /\ Len(bytes) = m /\ at \in Int
        BY <1>4, <1>6, <2>2
      <4> HIDE DEF m
      <4>4. 2 \in Nat \ {0} /\ m <= m /\ 2 <= m + 1
        BY <4>3
      <4> HIDE DEF at
      <4>5. SubSeq(Run(at, m), 2, m) = Run(at + 2 - 1, m - 2 + 1)
        BY <4>3, <4>4, RunPart
      <4>6. at + 2 - 1 = box.begin + e.pos /\ m - 2 + 1 = sent - (box.begin + e.pos)
        BY <1>1, <1>3, <2>2, <3>3, <4>3 DEF m
      <4>7. t = Run(at + 2 - 1, m - 2 + 1)
        BY <4>1, <4>2, <4>3, <4>5 DEF m
      <4> HIDE DEF t
      <4> QED BY <4>6, <4>7 DEF Unread
    <3>9. file.boxes[box_count].size = Size /\ e.pos > 0
      BY <3>3 DEF Size
    <3> HIDE DEF t, r
    <3>10. Wrote(BrotliDecompress(e, t, room), e, out, TRUE, box, Size, file_pos, sent, room)
      BY <1>1, <3>7, <3>8, <3>9, BrotliFacts
    <3>11. Wrote(r, e, out, TRUE, box, Size, file_pos, sent, room)
      BY <3>2, <3>10, Zenon
    <3>12. Wrote(r, d, out, TRUE, box, Size, file_pos, sent, room)
      BY <3>3, <3>11 DEF Wrote
    <3> QED BY <2>1, <3>12 DEF r
  <2> QED BY <2>5, <2>6
<1> QED BY <1>3, <1>7, <1>8, <1>9

-----------------------------------------------------------------------------
(* The contents that an application takes and the metadata that is stored. *)

Tracks(d, out, brob) == Reads(d, out, brob, box, Size, file_pos, sent)
CaughtUp(d) == Done(d, box, Size, sent)
IsBrob == file.boxes[box_count].type = "brob"

\* Where the contents are written, in each iteration of HandleBoxes().
BoxStatuses == {"BOX", "BOX_NEED_MORE_OUTPUT"}
AtBoxEvent == pc = "Application" /\ status = "BOX"
AfterOutput == {"StoreMetadata", "Reconstruct", "Stage", "Codestream", "CodestreamResult"}
AfterStore == {"Reconstruct", "Stage"}

PlaceInv ==
  /\ pc \in {"Application", "OutputBox"} \cup AfterOutput
  /\ pc # "Application" => status \notin Final
  /\ pc = "CodestreamResult" => result \notin BoxStatuses
  /\ pc \in {"OutputBox", "StoreMetadata"} => box_stage # "kHeader"
  /\ decompress_boxes \in BOOLEAN

BoxBuffers == [set : BOOLEAN, current : BOOLEAN, event : BOOLEAN, size : Nat, pos : Nat]

\* The application has what was read of the current box, all of a box that
\* is finished.
OutputInv ==
  /\ box_buffer \in BoxBuffers /\ taken \in BOOLEAN
  /\ Live /\ box_buffer.current => taken /\ box_buffer.pos <= box_buffer.size
  /\ taken /\ pc # "Application" => box_buffer.current
  /\ AtBoxEvent => box_stage # "kHeader"
  /\ pc = "Application" /\ status = "BOX_NEED_MORE_OUTPUT" => taken
  /\ Live /\ (taken \/ AtBoxEvent) =>
       /\ file.container /\ box_count > 0 /\ "BOX" \in events_wanted
       /\ box_stage # "kHeader" => Tracks(box_content_decoder, box_out, decompress_boxes /\ IsBrob)
       /\ box_stage = "kHeader" => box_out = Expected(file, box_count)
       /\ box_stage # "kHeader" /\ pc \in AfterOutput => CaughtUp(box_content_decoder)

First(m) == Min(Holding(file.boxes, m))

\* A box whose contents are stored is the first of its type and not at its
\* end; what is stored is what such a box holds.
StoredInv ==
  /\ store \in [Meta -> 0..2] /\ metadata \in [Meta -> Seq(Int)]
  /\ \A m \in Meta :
       /\ Live /\ store[m] = 1 =>
            /\ file.container /\ box_stage = "kSkip" /\ box_count = First(m)
            /\ Inner(file.boxes[box_count]) = m
            /\ Tracks(metadata_decoder, metadata[m], IsBrob) /\ metadata_decoder.inflated = <<>>
            /\ pc \in AfterStore => /\ CaughtUp(metadata_decoder)
                                    /\ ~box.unbounded => metadata_decoder.pos < Size
       /\ store[m] = 2 =>
            /\ IsPrefix(metadata[m], Plain(file, First(m)))
            /\ ~file.boxes[First(m)].unbounded => metadata[m] = Plain(file, First(m))
       /\ Live /\ store[m] = 0 /\ "JPEG_RECONSTRUCTION" \in orig_events_wanted =>
            \A i \in 1..box_count : Inner(file.boxes[i]) # m

\* The sizes that the jbrd box expects stay what they were when the JPEG is
\* written.
ReconInv ==
  /\ recon_size \in [Meta -> Nat]
  /\ recon_output_jpeg \in {"kNone", "kSettingMetadata", "kOutputting", "kFinished"}
  /\ recon_output_jpeg \in {"kOutputting", "kFinished"} =>
       \A m \in Meta : recon_size[m] > 0 => store[m] = 2 /\ Len(metadata[m]) = recon_size[m]
  /\ jpeg_decoder.jpeg_data \/ ib_jpeg_data \/ recon_output_jpeg # "kNone" =>
       "JPEG_RECONSTRUCTION" \notin events_wanted
  /\ Live /\ box_stage = "kJpegRecon" => "JPEG_RECONSTRUCTION" \in events_wanted

DInv == PlaceInv /\ OutputInv /\ StoredInv /\ ReconInv

\* A step that neither reads a header nor writes contents.
Keeps ==
  /\ UNCHANGED <<file, decompress_boxes, box_count>>
  /\ pc' # "Application" => pc # "Application"
  /\ pc' = "Application" /\ status' \in BoxStatuses => pc = "Application" /\ status' = status
  /\ "BOX" \in events_wanted => "BOX" \in events_wanted'
  /\ sent <= sent' /\ (file.container => box' = box)
  /\ \/ ~file.container
     \/ /\ UNCHANGED <<box_stage, file_pos>>
        /\ box_stage # "kHeader" /\ pc' \in AfterOutput => pc \in AfterOutput /\ sent' = sent
     \/ pc \in AfterOutput /\ box_stage # "kHeader" /\ sent' = sent

LEMMA ReadsOn ==
  ASSUME NEW b \in BoxRecords, NEW z, NEW lo, NEW hi \in Nat, NEW d, NEW out, NEW brob,
         Reads(d, out, brob, b, z, lo, hi), NEW p, NEW h \in Nat, p <= b.begin + d.pos, hi <= h
  PROVE  Reads(d, out, brob, b, z, p, h)
<1>1. d \in ContentDecoders /\ b.begin + d.pos <= hi /\ (brob => b.begin + 1 <= hi)
  BY DEF Reads
<1>2. d.pos \in Nat /\ b.begin \in Nat
  BY <1>1, DecoderFields DEF BoxRecords
<1>3. b.begin + d.pos <= h /\ (brob => b.begin + 1 <= h)
  BY <1>1, <1>2
<1> QED BY <1>3 DEF Reads

LEMMA ReadsAll ==
  ASSUME NEW b \in BoxRecords, NEW z \in Nat, NEW lo, NEW hi \in Nat, NEW d, NEW out, NEW brob \in BOOLEAN,
         Reads(d, out, brob, b, z, lo, hi), Done(d, b, z, hi), NEW p \in Nat, p <= hi, p <= b.begin + z
  PROVE  /\ p <= b.begin + d.pos
         /\ p = b.begin + z => d.pos = z
         /\ p = b.begin + z => out = Text(b.begin, brob, z)
<1>1. /\ d \in ContentDecoders /\ d.pos <= z /\ b.begin + d.pos <= hi /\ out \in Seq(Int)
      /\ IsConcat(Text(b.begin, brob, d.pos), out, d.inflated) /\ d.inflated = <<>>
      /\ d.pos = z \/ b.begin + d.pos = hi
  BY DEF Reads, Done
<1>2. d.pos \in Nat /\ b.begin \in Nat
  BY <1>1, DecoderFields DEF BoxRecords
<1>3. p <= b.begin + d.pos /\ (p = b.begin + z => d.pos = z)
  BY <1>1, <1>2
<1>4. Text(b.begin, brob, d.pos) = out
  <2> DEFINE t == Text(b.begin, brob, d.pos)
  <2>1. IsConcat(t, out, <<>>)
    BY <1>1
  <2> HIDE DEF t
  <2>2. t = out \o <<>>
    BY <2>1 DEF IsConcat
  <2>3. out \o <<>> = out
    BY <1>1, ConcatEmptySeq
  <2>4. t = out
    BY <2>2, <2>3, Zenon
  <2> QED BY <2>4 DEF t
<1> QED BY <1>3, <1>4

\* Where the decoder is after a step in the same box.
LEMMA NextFacts ==
  ASSUME PInv, Live, box_stage # "kHeader", file.container, PInv', Live', UNCHANGED <<file, box_count>>
  PROVE  /\ file_pos' \in Nat /\ sent' \in Nat /\ file_pos' <= sent' /\ file_pos' <= box.begin + Size
         /\ box_stage' = "kHeader" => file_pos' = box.begin + Size
<1>1. /\ IsFile(file) /\ box_count \in 1..Len(file.boxes) /\ box.begin + Size = Ends(file)[box_count]
      /\ Ends(file)[box_count] \in Nat /\ Len(file.boxes) \in Nat
  BY BoxFacts, FileBoxes
<1>2. FileSize(file) \in Nat
  <2>1. Len(file.boxes) \in 0..Len(file.boxes)
    BY <1>1
  <2> QED BY <1>1, <2>1, EndsFacts DEF FileSize
<1>3. file_pos' \in Nat /\ sent' \in Nat /\ file_pos' <= sent'
  <2>1. /\ file_pos' \in Nat /\ sent' \in 0..FileSize(file) /\ unread' \in Nat /\ avail_in' \in Nat
        /\ next_in' = -1 => file_pos' + unread' = sent'
        /\ next_in' # -1 => file_pos' + avail_in' = sent'
    BY DEF PInv, InputInv
  <2>2. \A p, s, r, a \in Nat : p + r = s \/ p + a = s => p <= s
    OBVIOUS
  <2>3. sent' \in Nat
    BY <1>2, <2>1
  <2> QED BY <2>1, <2>2, <2>3
<1>4. Cur' = box_count
  BY DEF Cur
<1>5. /\ box_stage' = "kHeader" => file_pos' = Ends(file)[box_count]
      /\ box_stage' # "kHeader" => file_pos' <= Ends(file)[box_count]
  BY <1>4 DEF PInv, HeaderInv
<1> QED BY <1>1, <1>3, <1>5

LEMMA ExpectedText ==
  ASSUME IsFile(file), box_count \in 1..Len(file.boxes), box.begin = Ends(file)[box_count] - Size,
         decompress_boxes \in BOOLEAN
  PROVE  Text(box.begin, decompress_boxes /\ IsBrob, Size) = Expected(file, box_count)
<1>1. /\ Text(box.begin, FALSE, Size) = Contents(file, box_count)
      /\ Text(box.begin, IsBrob, Size) = Plain(file, box_count)
  BY TextOfBox DEF Size, IsBrob
<1>2. CASE decompress_boxes
  <2>1. (decompress_boxes /\ IsBrob) = IsBrob
    BY <1>2 DEF IsBrob
  <2> QED BY <1>1, <1>2, <2>1, Zenon DEF Expected
<1>3. CASE ~decompress_boxes
  <2>1. (decompress_boxes /\ IsBrob) = FALSE
    BY <1>3
  <2> QED BY <1>1, <1>3, <2>1, Zenon DEF Expected
<1> QED BY <1>2, <1>3

LEMMA OutputKept ==
  ASSUME PInv, PInv', PlaceInv, OutputInv, Live, Keeps,
         UNCHANGED <<box_buffer, box_content_decoder, box_out, taken>>
  PROVE  OutputInv'
<1> DEFINE d == box_content_decoder
           brob == decompress_boxes /\ IsBrob
<1>1. /\ UNCHANGED <<file, decompress_boxes, box_count>>
      /\ pc' # "Application" => pc # "Application"
      /\ AtBoxEvent' => AtBoxEvent
      /\ "BOX" \in events_wanted => "BOX" \in events_wanted'
      /\ sent <= sent' /\ (file.container => box' = box)
      /\ \/ ~file.container
         \/ /\ UNCHANGED <<box_stage, file_pos>>
            /\ box_stage # "kHeader" /\ pc' \in AfterOutput => pc \in AfterOutput /\ sent' = sent
         \/ pc \in AfterOutput /\ box_stage # "kHeader" /\ sent' = sent
  BY DEF Keeps, AtBoxEvent, BoxStatuses
<1>0. pc' = "Application" /\ status' = "BOX_NEED_MORE_OUTPUT" => taken
  BY DEF Keeps, OutputInv, BoxStatuses
<1>2. /\ box_buffer \in BoxBuffers /\ taken \in BOOLEAN
      /\ box_buffer.current => taken /\ box_buffer.pos <= box_buffer.size
      /\ taken /\ pc # "Application" => box_buffer.current
      /\ AtBoxEvent => box_stage # "kHeader"
  BY DEF OutputInv
<1>3. AtBoxEvent' => box_stage' # "kHeader"
  <2>1. SUFFICES ASSUME AtBoxEvent' PROVE box_stage' # "kHeader"
    OBVIOUS
  <2>2. pc = "Application" /\ AtBoxEvent /\ file.container
    BY <1>1, <2>1 DEF AtBoxEvent, OutputInv
  <2> QED BY <1>1, <1>2, <2>2 DEF AfterOutput
<1>4. ASSUME Live', taken' \/ AtBoxEvent'
      PROVE  /\ file'.container /\ box_count' > 0 /\ "BOX" \in events_wanted'
             /\ box_stage' # "kHeader" => Tracks(box_content_decoder, box_out, decompress_boxes /\ IsBrob)'
             /\ box_stage' = "kHeader" => box_out' = Expected(file, box_count)'
             /\ box_stage' # "kHeader" /\ pc' \in AfterOutput => CaughtUp(box_content_decoder)'
  <2>1. /\ file.container /\ box_count > 0 /\ "BOX" \in events_wanted
        /\ box_stage # "kHeader" => Reads(d, box_out, brob, box, Size, file_pos, sent)
        /\ box_stage = "kHeader" => box_out = Expected(file, box_count)
        /\ box_stage # "kHeader" /\ pc \in AfterOutput => Done(d, box, Size, sent)
    BY <1>1, <1>4 DEF OutputInv, Tracks, CaughtUp
  <2>2. /\ box' = box /\ Size' = Size /\ IsBrob' = IsBrob /\ Expected(file, box_count)' = Expected(file, box_count)
    BY <1>1, <2>1 DEF Size, IsBrob, Expected
  <2>3. SUFFICES /\ box_stage' # "kHeader" => Reads(d, box_out, brob, box, Size, file_pos', sent')
                 /\ box_stage' = "kHeader" => box_out = Expected(file, box_count)
                 /\ box_stage' # "kHeader" /\ pc' \in AfterOutput => Done(d, box, Size, sent')
    BY <1>1, <2>1, <2>2 DEF Tracks, CaughtUp
  <2>4. CASE box_stage = "kHeader"
    BY <1>1, <2>1, <2>4
  <2>5. CASE box_stage # "kHeader"
    <3>1. /\ IsFile(file) /\ box_count \in 1..Len(file.boxes) /\ box \in BoxRecords /\ Size \in Nat
          /\ sent \in Nat /\ box.begin = Ends(file)[box_count] - Size
      BY <2>1, <2>5, BoxFacts
    <3>2. /\ file_pos' \in Nat /\ sent' \in Nat /\ file_pos' <= sent' /\ file_pos' <= box.begin + Size
          /\ box_stage' = "kHeader" => file_pos' = box.begin + Size
      BY <1>1, <1>4, <2>1, <2>5, NextFacts
    <3>3. brob \in BOOLEAN /\ decompress_boxes \in BOOLEAN
      BY DEF PlaceInv, IsBrob
    <3> HIDE DEF brob, d
    <3>4. CASE UNCHANGED <<box_stage, file_pos>>
      <4>1. file_pos <= box.begin + d.pos
        BY <2>1, <2>5 DEF Reads
      <4>2. Reads(d, box_out, brob, box, Size, file_pos, sent')
        BY <1>1, <2>1, <2>5, <3>1, <3>2, <4>1, ReadsOn
      <4>3. pc' \in AfterOutput => pc \in AfterOutput /\ sent' = sent
        BY <1>1, <2>1, <2>5
      <4> QED BY <2>1, <2>5, <3>4, <4>2, <4>3
    <3>5. CASE pc \in AfterOutput /\ sent' = sent
      <4>1. Reads(d, box_out, brob, box, Size, file_pos, sent) /\ Done(d, box, Size, sent)
        BY <2>1, <2>5, <3>5
      <4>2. /\ file_pos' <= box.begin + d.pos
            /\ file_pos' = box.begin + Size => box_out = Text(box.begin, brob, Size)
        BY <3>1, <3>2, <3>3, <3>5, <4>1, ReadsAll
      <4>3. Reads(d, box_out, brob, box, Size, file_pos', sent)
        BY <3>1, <4>1, <4>2, ReadsOn
      <4>4. Text(box.begin, brob, Size) = Expected(file, box_count)
        BY <3>1, <3>3, ExpectedText DEF brob
      <4> QED BY <3>2, <3>5, <4>1, <4>2, <4>3, <4>4
    <3> QED BY <1>1, <2>1, <3>4, <3>5
  <2> QED BY <2>4, <2>5
<1> QED BY <1>0, <1>1, <1>2, <1>3, <1>4 DEF OutputInv

KeepsStored ==
  /\ UNCHANGED <<file, orig_events_wanted, box_count>>
  /\ sent <= sent' /\ (file.container => box' = box)
  /\ \/ ~file.container
     \/ /\ UNCHANGED <<box_stage, file_pos>>
        /\ box_stage = "kSkip" /\ pc' \in AfterStore => sent' = sent /\ (pc \in AfterStore \/ ~Storing)
     \/ box_stage = "kSkip" => /\ pc \in AfterStore /\ sent' = sent /\ box_stage' \in {"kSkip", "kHeader"}
                               /\ box_stage' = "kHeader" => ~box.unbounded

LEMMA StoredKept ==
  ASSUME PInv, PInv', StoredInv, Live, KeepsStored, UNCHANGED <<store, metadata, metadata_decoder>>
  PROVE  StoredInv'
<1> DEFINE d == metadata_decoder
<1>1. /\ UNCHANGED <<file, orig_events_wanted, box_count>>
      /\ sent <= sent' /\ (file.container => box' = box)
      /\ \/ ~file.container
         \/ /\ UNCHANGED <<box_stage, file_pos>>
            /\ box_stage = "kSkip" /\ pc' \in AfterStore => sent' = sent /\ (pc \in AfterStore \/ ~Storing)
         \/ box_stage = "kSkip" => /\ pc \in AfterStore /\ sent' = sent /\ box_stage' \in {"kSkip", "kHeader"}
                                   /\ box_stage' = "kHeader" => ~box.unbounded
  BY DEF KeepsStored
<1>2. store \in [Meta -> 0..2] /\ metadata \in [Meta -> Seq(Int)]
  BY DEF StoredInv
<1>3. Size' = Size /\ IsBrob' = IsBrob /\ \A m : First(m)' = First(m) /\ Plain(file, First(m))' = Plain(file, First(m))
  BY <1>1 DEF Size, IsBrob, First
<1>4. ASSUME NEW m \in Meta, Live', store[m] = 1
      PROVE  /\ file'.container /\ box_stage' = "kSkip" /\ box_count' = First(m)'
             /\ Inner(file'.boxes[box_count']) = m
             /\ Tracks(metadata_decoder, metadata[m], IsBrob)' /\ metadata_decoder'.inflated = <<>>
             /\ pc' \in AfterStore => /\ CaughtUp(metadata_decoder)'
                                      /\ ~box'.unbounded => metadata_decoder'.pos < Size'
  <2>1. /\ file.container /\ box_stage = "kSkip" /\ box_count = First(m)
        /\ Inner(file.boxes[box_count]) = m
        /\ Reads(d, metadata[m], IsBrob, box, Size, file_pos, sent) /\ d.inflated = <<>>
        /\ pc \in AfterStore => /\ Done(d, box, Size, sent)
                                /\ ~box.unbounded => d.pos < Size
    BY <1>4 DEF StoredInv, Tracks, CaughtUp
  <2>2. box' = box
    BY <1>1, <2>1
  <2>3. SUFFICES /\ box_stage' = "kSkip" /\ Reads(d, metadata[m], IsBrob, box, Size, file_pos', sent')
                 /\ pc' \in AfterStore => /\ Done(d, box, Size, sent')
                                          /\ ~box.unbounded => d.pos < Size
    BY <1>1, <1>3, <2>1, <2>2 DEF Tracks, CaughtUp
  <2>4. /\ box \in BoxRecords /\ Size \in Nat /\ sent \in Nat
    BY <2>1, BoxFacts
  <2>5. /\ file_pos' \in Nat /\ sent' \in Nat /\ file_pos' <= sent' /\ file_pos' <= box.begin + Size
        /\ box_stage' = "kHeader" => file_pos' = box.begin + Size
    BY <1>1, <1>4, <2>1, NextFacts
  <2>6. IsBrob \in BOOLEAN /\ Storing
    BY <1>4 DEF IsBrob, Storing
  <2> HIDE DEF d
  <2>7. CASE UNCHANGED <<box_stage, file_pos>>
    <3>0. /\ box_stage' = box_stage /\ file_pos' = file_pos
      BY <2>7
    <3>1. file_pos <= box.begin + d.pos
      BY <2>1 DEF Reads
    <3>2. Reads(d, metadata[m], IsBrob, box, Size, file_pos, sent')
      BY <1>1, <2>1, <2>4, <2>5, <3>1, ReadsOn
    <3>3. pc' \in AfterStore => pc \in AfterStore /\ sent' = sent
      BY <1>1, <2>1, <2>6
    <3> QED BY <2>1, <3>0, <3>2, <3>3
  <2>8. CASE pc \in AfterStore /\ sent' = sent /\ box_stage' \in {"kSkip", "kHeader"}
             /\ (box_stage' = "kHeader" => ~box.unbounded)
    <3>1. Reads(d, metadata[m], IsBrob, box, Size, file_pos, sent) /\ Done(d, box, Size, sent)
      BY <2>1, <2>8
    <3>2. file_pos' <= box.begin + d.pos /\ (file_pos' = box.begin + Size => d.pos = Size)
      BY <2>4, <2>5, <2>6, <2>8, <3>1, ReadsAll
    <3>3. Reads(d, metadata[m], IsBrob, box, Size, file_pos', sent)
      BY <2>4, <3>1, <3>2, ReadsOn
    <3>4. box_stage' = "kSkip"
      BY <2>1, <2>4, <2>5, <2>8, <3>2
    <3> QED BY <2>1, <2>8, <3>1, <3>3, <3>4
  <2> QED BY <1>1, <2>1, <2>7, <2>8
<1>5. ASSUME NEW m \in Meta, store[m] = 2
      PROVE  /\ IsPrefix(metadata[m], Plain(file, First(m)))
             /\ ~file.boxes[First(m)].unbounded => metadata[m] = Plain(file, First(m))
  BY <1>5 DEF StoredInv
<1>6. ASSUME NEW m \in Meta, store[m] = 0, "JPEG_RECONSTRUCTION" \in orig_events_wanted
      PROVE  \A i \in 1..box_count : Inner(file.boxes[i]) # m
  BY <1>6 DEF StoredInv
<1> QED BY <1>1, <1>2, <1>3, <1>4, <1>5, <1>6 DEF StoredInv

-----------------------------------------------------------------------------
(* Steps that leave the contents and the metadata alone. *)

Moved ==
  /\ UNCHANGED decompress_boxes
  /\ pc' # "Application" =>
       /\ pc' \in {"OutputBox"} \cup AfterOutput /\ status' \notin Final
       /\ pc' = "CodestreamResult" => result' \notin BoxStatuses
       /\ pc' \in {"OutputBox", "StoreMetadata"} => box_stage' # "kHeader"

Calm ==
  /\ Moved /\ Keeps /\ KeepsStored
  /\ UNCHANGED <<box_buffer, box_content_decoder, box_out, taken, store, metadata, metadata_decoder>>

LEMMA MovedStep ==
  ASSUME PlaceInv, Moved, pc' \in {"Application", "OutputBox"} \cup AfterOutput
  PROVE  PlaceInv'
BY DEF PlaceInv, Moved

LEMMA SentFacts ==
  ASSUME PInv
  PROVE  sent \in Nat /\ FileSize(file) \in Nat /\ sent <= FileSize(file)
<1>1. IsFile(file) /\ Len(file.boxes) \in 0..Len(file.boxes)
  BY TheFile, FileBoxes DEF PInv
<1>2. FileSize(file) \in Nat
  BY <1>1, EndsFacts DEF FileSize
<1> QED BY <1>2 DEF PInv, InputInv

LEMMA ContinueFacts ==
  ASSUME Continue
  PROVE  /\ pc' \in {"Reconstruct", "OutputBox"} /\ (pc' = "OutputBox" => box_stage' # "kHeader")
         /\ pc' = "Reconstruct" => box_stage' = "kHeader"
         /\ UNCHANGED <<result, status, events>>
BY DEF Continue, Goto

LEMMA CheckedFacts ==
  ASSUME NEW st
  PROVE  /\ Checked(st) \in BoxStatuses => st = Checked(st)
         /\ Checked(st) = "SUCCESS" => st = "SUCCESS"
         /\ Checked("ERROR") = "ERROR"
         /\ Checked("BOX") = "BOX"
BY DEF Checked, BoxStatuses

LEMMA ReturnFacts ==
  ASSUME NEW st, Return(st)
  PROVE  pc' = "Application" /\ (st \notin BoxStatuses => status' \notin BoxStatuses) /\ (status' = "SUCCESS" => st = "SUCCESS")
BY CheckedFacts DEF Return

CalmInCall ==
  \/ SetMetadata \/ WriteOutput \/ NoReconstruction \/ AtBoxEnd
  \/ ReadHeaders \/ ReturnBasicInfo \/ ReadFrameHeader \/ StartFrame \/ DecodeFrame
  \/ FinishCodestream \/ CodestreamTooShort \/ CodestreamEvent

\* What such a step does to the place in the code.
Turns ==
  \/ pc' = "Application" /\ status' \notin BoxStatuses
  \/ /\ pc' \in {"Reconstruct", "Stage"} /\ pc \in AfterStore /\ UNCHANGED <<status, result>>
  \/ /\ pc' \in {"Codestream", "CodestreamResult", "OutputBox"} /\ UNCHANGED status
     /\ pc \in {"Codestream", "CodestreamResult"} /\ (pc' = "CodestreamResult" => result' \notin BoxStatuses)

LEMMA CalmInCallPlace ==
  ASSUME PInv, PlaceInv, CalmInCall
  PROVE  Turns /\ pc \in AfterOutput
<1> USE DEF Turns, AfterOutput, AfterStore, Goto, CodestreamResult, BoxStatuses
<1>0. PlaceInv
  OBVIOUS
<1>1. CASE SetMetadata
  <2>1. pc = "Reconstruct" /\ (Return("ERROR") \/ Goto("Reconstruct"))
    BY <1>1 DEF SetMetadata
  <2> QED BY <2>1, ReturnFacts
<1>2. CASE WriteOutput
  <2>1. pc = "Reconstruct" /\ (Return("JPEG_NEED_MORE_OUTPUT") \/ Return("FULL_IMAGE") \/ Goto("Stage"))
    BY <1>2 DEF WriteOutput
  <2> QED BY <2>1, ReturnFacts
<1>3. CASE NoReconstruction
  BY <1>3 DEF NoReconstruction
<1>4. CASE AtBoxEnd
  <2>1. pc = "Stage" /\ (Return("NEED_MORE_INPUT") \/ Return("SUCCESS"))
    BY <1>4 DEF AtBoxEnd
  <2> QED BY <2>1, ReturnFacts
<1>5. CASE ReadHeaders
  BY <1>5 DEF ReadHeaders
<1>6. CASE ReturnBasicInfo
  BY <1>6 DEF ReturnBasicInfo
<1>7. CASE ReadFrameHeader
  BY <1>7 DEF ReadFrameHeader
<1>8. CASE StartFrame
  BY <1>8 DEF StartFrame
<1>9. CASE DecodeFrame
  BY <1>9 DEF DecodeFrame
<1>10. CASE FinishCodestream
  BY <1>10 DEF FinishCodestream
<1>11. CASE CodestreamTooShort
  BY <1>11 DEF CodestreamTooShort
<1>12. CASE CodestreamEvent
  <2>1. pc = "CodestreamResult" /\ (Continue \/ Return(result)) /\ UNCHANGED boxes
    BY <1>12 DEF CodestreamEvent
  <2>2. result \notin BoxStatuses /\ box_stage = "kCodestream"
    BY <2>1, LiveFacts DEF PlaceInv
  <2>3. box_stage' # "kHeader"
    BY <2>1, <2>2 DEF boxes
  <2> QED BY <2>1, <2>2, <2>3, ReturnFacts, ContinueFacts
<1> QED BY <1>1, <1>2, <1>3, <1>4, <1>5, <1>6, <1>7, <1>8, <1>9, <1>10, <1>11, <1>12 DEF CalmInCall

LEMMA CalmInCallKeeps ==
  ASSUME CalmInCall
  PROVE  /\ UNCHANGED <<file, sent, orig_events_wanted, decompress_boxes, file_pos, box_stage, box_count,
                        box, box_buffer, box_content_decoder, box_out, taken, store, metadata,
                        metadata_decoder>>
         /\ "BOX" \in events_wanted => "BOX" \in events_wanted'
<1> USE DEF application, settings, boxes, contents, stored, seen, DecodingCodestream
<1>1. CASE SetMetadata \/ WriteOutput \/ NoReconstruction \/ AtBoxEnd
  BY <1>1 DEF SetMetadata, WriteOutput, NoReconstruction, AtBoxEnd
<1>2. CASE ReadHeaders \/ ReturnBasicInfo \/ ReadFrameHeader \/ StartFrame
  BY <1>2 DEF ReadHeaders, ReturnBasicInfo, ReadFrameHeader, StartFrame
<1>3. CASE DecodeFrame \/ FinishCodestream \/ CodestreamTooShort \/ CodestreamEvent
  BY <1>3 DEF DecodeFrame, FinishCodestream, CodestreamTooShort, CodestreamEvent
<1> QED BY <1>1, <1>2, <1>3 DEF CalmInCall

LEMMA CalmInCallStep ==
  ASSUME PInv, PlaceInv, CalmInCall
  PROVE  Calm /\ pc # "Application" /\ pc' \in {"Application", "OutputBox"} \cup AfterOutput
<1>1. Turns /\ pc \in AfterOutput /\ pc # "Application"
  BY CalmInCallPlace DEF AfterOutput
<1>2. /\ UNCHANGED <<file, sent, orig_events_wanted, decompress_boxes, file_pos, box_stage, box_count,
                     box, box_buffer, box_content_decoder, box_out, taken, store, metadata,
                     metadata_decoder>>
      /\ "BOX" \in events_wanted => "BOX" \in events_wanted'
  BY CalmInCallKeeps
<1>3. sent <= sent'
  <2>1. sent \in Int
    BY SentFacts
  <2> QED BY <1>2, <2>1
<1>4. /\ status \notin Final /\ (pc = "CodestreamResult" => result \notin BoxStatuses)
      /\ pc \in {"Codestream", "CodestreamResult"} => box_stage = "kCodestream"
  BY <1>1, LiveFacts DEF PlaceInv
<1>5. pc' \in {"Application", "OutputBox"} \cup AfterOutput
  BY <1>1 DEF Turns, AfterOutput
<1>6. Moved
  BY <1>1, <1>2, <1>4, <1>5 DEF Moved, Turns, AfterOutput, AfterStore
<1>7. Keeps
  BY <1>1, <1>2, <1>3 DEF Keeps, Turns
<1>8. KeepsStored
  <2>1. box_stage = "kSkip" /\ pc' \in AfterStore => pc \in AfterStore
    BY <1>1, <1>4 DEF Turns, AfterStore
  <2> QED BY <1>2, <1>3, <2>1 DEF KeepsStored
<1> QED BY <1>1, <1>2, <1>5, <1>6, <1>7, <1>8 DEF Calm

\* Steps that read on in the current box.
MovesOn ==
  \/ ReadFtyp \/ ReadPartialCodestream \/ SkipBox \/ ReadJpegRecon \/ EnterCodestream
  \/ CopyAndReadOn \/ AfterCodestream

LEMMA MovesOnKeeps ==
  ASSUME MovesOn
  PROVE  /\ UNCHANGED <<file, sent, orig_events_wanted, decompress_boxes, box_count, box, box_buffer,
                        box_content_decoder, box_out, taken, store, metadata, metadata_decoder>>
         /\ "BOX" \in events_wanted => "BOX" \in events_wanted'
<1> USE DEF application, settings, boxes, contents, stored, seen
<1>1. CASE ReadFtyp \/ ReadPartialCodestream
  BY <1>1 DEF ReadFtyp, ReadPartialCodestream
<1>2. CASE SkipBox
  BY <1>2 DEF SkipBox
<1>3. CASE ReadJpegRecon
  BY <1>3 DEF ReadJpegRecon
<1>4. CASE EnterCodestream \/ CopyAndReadOn \/ AfterCodestream
  BY <1>4 DEF EnterCodestream, CopyAndReadOn, AfterCodestream
<1> QED BY <1>1, <1>2, <1>3, <1>4 DEF MovesOn

\* Where they lead.
Moves ==
  /\ pc \in {"Stage", "CodestreamResult"} /\ box_stage # "kHeader"
  /\ \/ pc' = "Application" /\ status' \notin BoxStatuses
     \/ /\ pc' \in {"Reconstruct", "OutputBox", "Codestream"} /\ UNCHANGED status
        /\ pc' = "OutputBox" => box_stage' # "kHeader"
        /\ pc' = "Reconstruct" => box_stage' = "kHeader"
  /\ box_stage = "kSkip" =>
       /\ pc = "Stage" /\ box_stage' \in {"kSkip", "kHeader"}
       /\ box_stage' = "kHeader" => ~box.unbounded

LEMMA MovesOnPlace ==
  ASSUME PInv, MovesOn
  PROVE  Moves
<1>1. CASE ReadFtyp
  <2>1. /\ pc = "Stage" /\ box_stage = "kFtyp"
        /\ Return("ERROR") \/ Return("NEED_MORE_INPUT") \/ Continue
    BY <1>1 DEF ReadFtyp
  <2> QED BY <2>1, ReturnFacts, ContinueFacts DEF Moves, BoxStatuses
<1>2. CASE ReadPartialCodestream
  <2>1. /\ pc = "Stage" /\ box_stage = "kPartialCodestream"
        /\ Return("ERROR") \/ Return("NEED_MORE_INPUT") \/ Continue
    BY <1>2 DEF ReadPartialCodestream
  <2> QED BY <2>1, ReturnFacts, ContinueFacts DEF Moves, BoxStatuses
<1>3. CASE SkipBox
  <2>1. /\ pc = "Stage" /\ box_stage = "kSkip"
        /\ Return("SUCCESS") \/ Return("NEED_MORE_INPUT") \/ Continue
        /\ box_stage' = box_stage \/ (box_stage' = "kHeader" /\ ~box.unbounded)
    BY <1>3 DEF SkipBox, boxes
  <2> QED BY <2>1, ReturnFacts, ContinueFacts DEF Moves, BoxStatuses
<1>4. CASE ReadJpegRecon
  <2>1. /\ pc = "Stage" /\ box_stage = "kJpegRecon"
        /\ \/ Return("ERROR") \/ Return("NEED_MORE_INPUT") \/ Return("ABORT")
           \/ Return("JPEG_RECONSTRUCTION") \/ Continue
    BY <1>4, Zenon DEF ReadJpegRecon
  <2> QED BY <2>1, ReturnFacts, ContinueFacts DEF Moves, BoxStatuses
<1>5. CASE EnterCodestream
  BY <1>5 DEF EnterCodestream, Goto, Moves
<1>6. CASE CopyAndReadOn
  <2>1. pc = "CodestreamResult" /\ (Return("NEED_MORE_INPUT") \/ Continue)
    BY <1>6 DEF CopyAndReadOn
  <2>2. box_stage = "kCodestream"
    BY <2>1, LiveFacts
  <2> QED BY <2>1, <2>2, ReturnFacts, ContinueFacts DEF Moves, BoxStatuses
<1>7. CASE AfterCodestream
  <2>1. pc = "CodestreamResult" /\ (Return("SUCCESS") \/ Continue)
    BY <1>7 DEF AfterCodestream
  <2>2. box_stage = "kCodestream"
    BY <2>1, LiveFacts
  <2> QED BY <2>1, <2>2, ReturnFacts, ContinueFacts DEF Moves, BoxStatuses
<1> QED BY <1>1, <1>2, <1>3, <1>4, <1>5, <1>6, <1>7 DEF MovesOn

LEMMA MovesOnStep ==
  ASSUME PInv, PlaceInv, MovesOn
  PROVE  Calm /\ pc # "Application" /\ pc' \in {"Application", "OutputBox"} \cup AfterOutput
<1>1. Moves
  BY MovesOnPlace
<1>2. /\ UNCHANGED <<file, sent, orig_events_wanted, decompress_boxes, box_count, box, box_buffer,
                     box_content_decoder, box_out, taken, store, metadata, metadata_decoder>>
      /\ "BOX" \in events_wanted => "BOX" \in events_wanted'
  BY MovesOnKeeps
<1>3. sent <= sent'
  BY <1>2, SentFacts
<1>4. status \notin Final
  BY <1>1 DEF PlaceInv, Moves
<1>5. pc' \in {"Application", "OutputBox"} \cup AfterOutput
  BY <1>1 DEF Moves, AfterOutput
<1>6. Moved
  BY <1>1, <1>2, <1>4, <1>5 DEF Moved, Moves
<1>7. Keeps
  BY <1>1, <1>2, <1>3 DEF Keeps, Moves, AfterOutput
<1>8. KeepsStored
  BY <1>1, <1>2, <1>3 DEF KeepsStored, Moves, AfterStore
<1> QED BY <1>1, <1>2, <1>5, <1>6, <1>7, <1>8 DEF Calm, Moves

LEMMA StartCodestreamCalm ==
  ASSUME PInv, PlaceInv, StartCodestream
  PROVE  Calm /\ pc # "Application" /\ pc' \in {"Application", "OutputBox"} \cup AfterOutput
<1>1. /\ pc = "Stage" /\ ~have_container /\ (Return("SUCCESS") \/ Continue)
      /\ UNCHANGED <<file, sent, orig_events_wanted, decompress_boxes, box_count, box_buffer,
                     box_content_decoder, box_out, taken, store, metadata, metadata_decoder, events_wanted>>
  BY DEF StartCodestream, application, settings, contents, stored, seen, boxes
<1>2. ~file.container
  <2>1. have_container = file.container
    BY <1>1 DEF PInv, HeaderInv
  <2> QED BY <1>1, <2>1
<1>3. sent <= sent'
  BY <1>1, SentFacts
<1>4. status \notin Final
  BY <1>1 DEF PlaceInv
<1>5. pc' \in {"Application", "OutputBox"} \cup AfterOutput
  BY <1>1, ReturnFacts, ContinueFacts DEF AfterOutput
<1>6. Moved
  BY <1>1, <1>4, <1>5, ReturnFacts, ContinueFacts DEF Moved
<1>7. Keeps
  BY <1>1, <1>2, <1>3, ReturnFacts, ContinueFacts DEF Keeps, BoxStatuses
<1>8. KeepsStored
  BY <1>1, <1>2, <1>3 DEF KeepsStored
<1> QED BY <1>1, <1>5, <1>6, <1>7, <1>8 DEF Calm

CalmBetween ==
  \/ \E n \in 0..MaxChunk : SetInput(n)
  \/ ReleaseInput \/ CloseInput
  \/ \E size \in JpegBufferSizes : SetJPEGBuffer(size)
  \/ ReleaseJPEGBuffer \/ SetImageOutBuffer

LEMMA CalmBetweenStep ==
  ASSUME PInv, PlaceInv, CalmBetween
  PROVE  Calm /\ Live /\ pc' \in {"Application", "OutputBox"} \cup AfterOutput
<1> USE DEF application, input, settings, boxes, contents, stored, seen
<1>1. /\ Between /\ Live /\ pc = "Application"
      /\ UNCHANGED <<file, orig_events_wanted, decompress_boxes, box_count, box, box_stage, file_pos,
                     box_buffer, box_content_decoder, box_out, taken, store, metadata, metadata_decoder,
                     events_wanted, pc, status>>
      /\ sent' = sent \/ \E n \in 0..MaxChunk : sent' = sent + n
  <2>1. CASE \E n \in 0..MaxChunk : SetInput(n)
    BY <2>1, LiveFacts DEF SetInput
  <2>2. CASE ReleaseInput \/ CloseInput
    BY <2>2, LiveFacts DEF ReleaseInput, CloseInput
  <2>3. CASE \E size \in JpegBufferSizes : SetJPEGBuffer(size)
    BY <2>3, LiveFacts DEF SetJPEGBuffer
  <2>4. CASE ReleaseJPEGBuffer \/ SetImageOutBuffer
    BY <2>4, LiveFacts DEF ReleaseJPEGBuffer, SetImageOutBuffer
  <2> QED BY <2>1, <2>2, <2>3, <2>4 DEF CalmBetween
<1>2. sent <= sent'
  <2>1. sent \in Nat
    BY SentFacts
  <2> QED BY <1>1, <2>1, SizesAssumption
<1>3. Moved
  BY <1>1 DEF Moved
<1>4. Keeps
  BY <1>1, <1>2 DEF Keeps, AfterOutput
<1>5. KeepsStored
  BY <1>1, <1>2 DEF KeepsStored, AfterStore
<1> QED BY <1>1, <1>3, <1>4, <1>5 DEF Calm

-----------------------------------------------------------------------------
(* Steps that write contents and store metadata. *)

LEMMA OutputBoxStep ==
  ASSUME PInv, PInv', PlaceInv, OutputInv, StoredInv, OutputBox
  PROVE  PlaceInv' /\ OutputInv' /\ StoredInv'
<1> DEFINE d == box_content_decoder
           room == box_buffer.size - box_buffer.pos
           r == Process(d, room)
           brob == decompress_boxes /\ IsBrob
<1>0. /\ pc = "OutputBox" /\ pc # "Application" /\ Live /\ box_stage # "kHeader" /\ status \notin Final
      /\ decompress_boxes \in BOOLEAN
  BY DEF OutputBox, Live, PlaceInv
<1>1. UNCHANGED <<file, sent, orig_events_wanted, decompress_boxes, file_pos, box_stage, box_count, box,
                  store, metadata, metadata_decoder, events_wanted, taken>>
  BY DEF OutputBox, application, settings, boxes, stored, seen
<1>2. /\ box_buffer \in BoxBuffers /\ taken \in BOOLEAN
      /\ box_buffer.current => taken /\ box_buffer.pos <= box_buffer.size
      /\ taken => box_buffer.current
      /\ taken => /\ file.container /\ box_count > 0 /\ "BOX" \in events_wanted
                  /\ Reads(d, box_out, brob, box, Size, file_pos, sent)
  BY <1>0 DEF OutputInv, Tracks
<1>3. Size' = Size /\ IsBrob' = IsBrob
  BY <1>1 DEF Size, IsBrob
<1>4. StoredInv' /\ PlaceInv'
  <2>1. \/ Goto("StoreMetadata")
        \/ \E st : Return(st)
    BY Zenon DEF OutputBox
  <2>2. pc' \in {"StoreMetadata", "Application"} /\ (pc' = "StoreMetadata" => UNCHANGED status)
    BY <2>1 DEF Goto, Return
  <2>3. sent <= sent'
    BY <1>1, SentFacts
  <2>4. KeepsStored
    BY <1>1, <2>2, <2>3 DEF KeepsStored, AfterStore
  <2>5. StoredInv'
    BY <1>0, <1>1, <2>4, StoredKept
  <2>6. PlaceInv'
    BY <1>0, <1>1, <2>2 DEF PlaceInv, AfterOutput
  <2> QED BY <2>5, <2>6
<1>5. CASE ~("BOX" \in events_wanted /\ box_buffer.current)
  <2>1. ~taken /\ ~box_buffer.current
    BY <1>2, <1>5
  <2>2. UNCHANGED <<box_content_decoder, box_out, box_buffer>> /\ pc' = "StoreMetadata"
    BY <1>5 DEF OutputBox, Goto
  <2>3. OutputInv'
    BY <1>1, <1>2, <2>1, <2>2 DEF OutputInv, AtBoxEvent
  <2> QED BY <1>4, <2>3
<1>6. CASE "BOX" \in events_wanted /\ box_buffer.current
  <2>1. /\ box_content_decoder' = r.dec /\ box_out' = box_out \o r.out
        /\ box_buffer' = [box_buffer EXCEPT !.pos = @ + Len(r.out)]
        /\ IF r.result \in {"SUCCESS", "NEED_MORE_INPUT"} THEN Goto("StoreMetadata") ELSE Return(r.result)
    BY <1>6 DEF OutputBox
  <2>2. /\ taken /\ file.container /\ box_count > 0
        /\ Reads(d, box_out, brob, box, Size, file_pos, sent)
        /\ box_buffer.pos <= box_buffer.size
    BY <1>2, <1>6
  <2>3. brob \in BOOLEAN /\ room \in Nat /\ box_buffer.size \in Nat /\ box_buffer.pos \in Nat
    BY <1>0, <1>2, <2>2 DEF IsBrob, BoxBuffers
  <2> HIDE DEF r, brob, d
  <2>4. Wrote(r, d, box_out, brob, box, Size, file_pos, sent, room)
    BY <1>0, <2>2, <2>3, ProcessFacts DEF r
  <2>5. /\ Reads(r.dec, box_out \o r.out, brob, box, Size, file_pos, sent)
        /\ r.out \in Seq(Int) /\ Len(r.out) <= room /\ r.result \in Results
        /\ r.result \in {"SUCCESS", "NEED_MORE_INPUT"} => Done(r.dec, box, Size, sent)
    BY <2>4 DEF Wrote
  <2>6. Len(r.out) \in Nat
    BY <2>5, LenProperties
  <2>7. /\ box_buffer' \in BoxBuffers /\ box_buffer'.current
        /\ box_buffer'.pos <= box_buffer'.size
    <3>1. box_buffer.pos + Len(r.out) \in Nat /\ box_buffer.pos + Len(r.out) <= box_buffer.size
      BY <2>3, <2>5, <2>6
    <3> DEFINE n == Len(r.out)
    <3>2. box_buffer' = [box_buffer EXCEPT !.pos = box_buffer.pos + n]
      BY <1>2, <2>1 DEF BoxBuffers
    <3> HIDE DEF n, room
    <3>3. box_buffer.pos + n \in Nat /\ box_buffer.pos + n <= box_buffer.size
      BY <3>1 DEF n
    <3> QED BY <1>2, <1>6, <3>2, <3>3 DEF BoxBuffers
  <2>8. \/ pc' = "StoreMetadata" /\ Done(r.dec, box, Size, sent)
        \/ pc' = "Application" /\ status' # "BOX"
    <3>1. CASE r.result \in {"SUCCESS", "NEED_MORE_INPUT"}
      BY <2>1, <2>5, <3>1 DEF Goto
    <3>2. CASE r.result \notin {"SUCCESS", "NEED_MORE_INPUT"}
      <4>1. Return(r.result)
        BY <2>1, <3>2
      <4>2. r.result # "BOX"
        BY <2>5 DEF Results
      <4> QED BY <4>1, <4>2, CheckedFacts DEF Return, BoxStatuses
    <3> QED BY <3>1, <3>2
  <2>9. /\ Tracks(box_content_decoder, box_out, decompress_boxes /\ IsBrob)'
        /\ pc' \in AfterOutput => CaughtUp(box_content_decoder)'
    <3>1. Reads(box_content_decoder', box_out', brob, box, Size, file_pos, sent)
      BY <2>1, <2>5
    <3>2. pc' \in AfterOutput => Done(box_content_decoder', box, Size, sent)
      BY <2>1, <2>8 DEF AfterOutput
    <3> QED BY <1>1, <1>3, <3>1, <3>2 DEF Tracks, CaughtUp, brob
  <2>10. OutputInv'
    BY <1>0, <1>1, <1>6, <2>2, <2>7, <2>8, <2>9 DEF OutputInv, AtBoxEvent
  <2> QED BY <1>4, <2>10
<1> QED BY <1>5, <1>6

\* What is stored of a box is what it holds, all of it at its end.
LEMMA StoredText ==
  ASSUME NEW b \in Nat, NEW brob \in BOOLEAN, NEW p \in Nat, NEW z \in Nat, p <= z,
         NEW out \in Seq(Int), IsConcat(Text(b, brob, p), out, <<>>)
  PROVE  IsPrefix(out, Text(b, brob, z)) /\ (p = z => out = Text(b, brob, z))
<1> DEFINE t == Text(b, brob, p)
<1>1. IsPrefix(t, Text(b, brob, z)) /\ (p = z => t = Text(b, brob, z)) /\ IsConcat(t, out, <<>>)
  BY TextPrefix
<1> HIDE DEF t
<1>2. t = out \o <<>>
  BY <1>1 DEF IsConcat
<1>3. out \o <<>> = out
  BY ConcatEmptySeq
<1>4. t = out
  BY <1>2, <1>3, Zenon
<1> QED BY <1>1, <1>4

LEMMA StoreMetadataStep ==
  ASSUME PInv, PInv', PlaceInv, OutputInv, StoredInv, StoreMetadata
  PROVE  PlaceInv' /\ OutputInv' /\ StoredInv'
<1>0. pc = "StoreMetadata" /\ pc # "Application" /\ Live /\ box_stage # "kHeader" /\ status \notin Final
  BY DEF StoreMetadata, Live, PlaceInv
<1>1. UNCHANGED <<file, sent, orig_events_wanted, decompress_boxes, file_pos, box_stage, box_count, box,
                  events_wanted, taken, box_buffer, box_content_decoder, box_out>>
  BY DEF StoreMetadata, application, settings, boxes, contents, seen
<1>2. Goto("Reconstruct") \/ Return("ERROR")
  BY Zenon DEF StoreMetadata
<1>3. sent <= sent'
  BY <1>1, SentFacts
<1>4. PlaceInv'
  BY <1>0, <1>1, <1>2 DEF PlaceInv, AfterOutput, Goto, Return
<1>5. OutputInv'
  <2>1. pc' = "Application" => status' \notin BoxStatuses
    BY <1>2, CheckedFacts DEF Goto, Return, BoxStatuses
  <2>2. Keeps
    BY <1>0, <1>1, <1>3, <2>1 DEF Keeps, AfterOutput
  <2> QED BY <1>0, <1>1, <2>2, OutputKept
<1>6. CASE ~Storing
  <2>1. UNCHANGED <<store, metadata, metadata_decoder>>
    BY <1>6 DEF StoreMetadata, stored
  <2>2. KeepsStored
    BY <1>0, <1>1, <1>3, <1>6 DEF KeepsStored
  <2> QED BY <1>0, <1>4, <1>5, <2>1, <2>2, StoredKept
<1>7. CASE Storing
  <2> DEFINE m == IF store["Exif"] = 1 THEN "Exif" ELSE "xml "
             d == metadata_decoder
             r == Process(d, Unlimited)
             all == metadata[m] \o r.out
             wait == box.unbounded /\ Len(all) < recon_size[m]
  <2>1. /\ metadata_decoder' = r.dec /\ metadata' = [metadata EXCEPT ![m] = all]
        /\ store' = IF r.result = "SUCCESS" /\ ~wait
                    THEN [k \in Meta |-> IF store[k] = 1 THEN 2 ELSE store[k]] ELSE store
        /\ IF r.result = "ERROR" THEN Return("ERROR") ELSE Goto("Reconstruct")
    BY <1>7 DEF StoreMetadata
  <2>2. m \in Meta /\ store[m] = 1 /\ store \in [Meta -> 0..2] /\ metadata \in [Meta -> Seq(Int)]
    BY <1>7 DEF Storing, Meta, StoredInv
  <2> HIDE DEF m
  <2>3. /\ file.container /\ box_stage = "kSkip" /\ box_count = First(m)
        /\ Inner(file.boxes[box_count]) = m
        /\ Reads(d, metadata[m], IsBrob, box, Size, file_pos, sent) /\ d.inflated = <<>>
    BY <1>0, <2>2 DEF StoredInv, Tracks
  <2>4. \A k \in Meta : k # m => store[k] # 1
    BY <1>0, <2>3 DEF StoredInv
  <2>5. /\ IsFile(file) /\ box_count \in 1..Len(file.boxes) /\ box \in BoxRecords /\ Size \in Nat
        /\ box.begin = Ends(file)[box_count] - Size /\ box.unbounded = file.boxes[box_count].unbounded
        /\ Size <= FileSize(file) /\ FileSize(file) \in Nat
    BY <1>0, <2>3, BoxFacts, SentFacts
  <2>6. Unlimited \in Nat /\ Unlimited >= 2 * Size
    BY <2>5 DEF Unlimited
  <2>7. IsBrob \in BOOLEAN
    BY DEF IsBrob
  <2>8. Wrote(r, d, metadata[m], IsBrob, box, Size, file_pos, sent, Unlimited)
    <3> HIDE DEF d
    <3> QED BY <1>0, <2>3, <2>6, <2>7, ProcessFacts
  <2> HIDE DEF r
  <2>9. /\ Reads(r.dec, all, IsBrob, box, Size, file_pos, sent) /\ r.dec.inflated = <<>>
        /\ r.result \in Results \ {"BOX_NEED_MORE_OUTPUT"}
        /\ r.result # "ERROR" => Done(r.dec, box, Size, sent)
        /\ r.result = "SUCCESS" /\ ~box.unbounded => r.dec.pos = Size
        /\ r.result = "NEED_MORE_INPUT" /\ ~box.unbounded => r.dec.pos < Size
    BY <2>3, <2>6, <2>8 DEF Wrote, Results
  <2> HIDE DEF d, all, wait
  <2>10. /\ all \in Seq(Int) /\ r.dec \in ContentDecoders /\ r.dec.pos <= Size
         /\ IsConcat(Text(box.begin, IsBrob, r.dec.pos), all, <<>>)
    BY <2>9 DEF Reads
  <2>11. /\ metadata' \in [Meta -> Seq(Int)] /\ metadata'[m] = all
         /\ \A k \in Meta : k # m => metadata'[k] = metadata[k]
    BY <2>1, <2>2, <2>10
  <2>12. /\ store' \in [Meta -> 0..2]
         /\ \A k \in Meta : k # m => store'[k] = store[k]
         /\ store'[m] \in {1, 2}
         /\ store'[m] = 2 => r.result = "SUCCESS"
         /\ store'[m] = 1 /\ r.result = "SUCCESS" => box.unbounded
    <3>1. CASE r.result = "SUCCESS" /\ ~wait
      <4>1. store' = [k \in Meta |-> IF store[k] = 1 THEN 2 ELSE store[k]]
        BY <2>1, <3>1
      <4> QED BY <2>2, <2>4, <3>1, <4>1
    <3>2. CASE ~(r.result = "SUCCESS" /\ ~wait)
      <4>1. store' = store
        BY <2>1, <3>2
      <4> QED BY <2>2, <3>2, <4>1 DEF wait
    <3> QED BY <3>1, <3>2
  <2>13. /\ IsPrefix(all, Plain(file, box_count))
         /\ r.dec.pos = Size => all = Plain(file, box_count)
    <3>1. Text(box.begin, IsBrob, Size) = Plain(file, box_count) /\ box.begin \in Nat
      BY <2>5, TextOfBox DEF Size, IsBrob
    <3>2. r.dec.pos \in Nat
      BY <2>10, DecoderFields
    <3>3. /\ IsPrefix(all, Text(box.begin, IsBrob, Size))
          /\ r.dec.pos = Size => all = Text(box.begin, IsBrob, Size)
      BY <2>5, <2>7, <2>10, <3>1, <3>2, StoredText
    <3> QED BY <3>1, <3>3
  <2>14. Size' = Size /\ IsBrob' = IsBrob /\ \A k : First(k)' = First(k)
    BY <1>1 DEF Size, IsBrob, First
  <2>15. ASSUME NEW k \in Meta, Live', store'[k] = 1
         PROVE  /\ file'.container /\ box_stage' = "kSkip" /\ box_count' = First(k)'
                /\ Inner(file'.boxes[box_count']) = k
                /\ Tracks(metadata_decoder, metadata[k], IsBrob)' /\ metadata_decoder'.inflated = <<>>
                /\ pc' \in AfterStore => /\ CaughtUp(metadata_decoder)'
                                         /\ ~box'.unbounded => metadata_decoder'.pos < Size'
    <3>1. k = m
      BY <2>4, <2>12, <2>15
    <3>2. r.result # "ERROR"
      <4>1. SUFFICES ASSUME r.result = "ERROR" PROVE FALSE
        OBVIOUS
      <4>2. Return("ERROR")
        BY <2>1, <4>1
      <4> QED BY <2>15, <4>2, CheckedFacts DEF Return, Live, Final
    <3>3. /\ Reads(metadata_decoder', metadata'[k], IsBrob, box, Size, file_pos, sent)
          /\ metadata_decoder'.inflated = <<>> /\ Done(metadata_decoder', box, Size, sent)
      BY <2>1, <2>9, <2>11, <3>1, <3>2
    <3>4. ~box.unbounded => r.dec.pos < Size
      BY <2>9, <2>12, <2>15, <3>1, <3>2 DEF Results
    <3> QED BY <1>1, <2>1, <2>3, <2>14, <3>1, <3>3, <3>4 DEF Tracks, CaughtUp
  <2>16. ASSUME NEW k \in Meta, store'[k] = 2
         PROVE  /\ IsPrefix(metadata'[k], Plain(file, First(k)))
                /\ ~file.boxes[First(k)].unbounded => metadata'[k] = Plain(file, First(k))
    <3>1. CASE k = m
      BY <2>3, <2>5, <2>9, <2>11, <2>12, <2>13, <2>16, <3>1
    <3>2. CASE k # m
      BY <2>11, <2>12, <2>16, <3>2 DEF StoredInv
    <3> QED BY <3>1, <3>2
  <2>17. ASSUME NEW k \in Meta, store'[k] = 0, "JPEG_RECONSTRUCTION" \in orig_events_wanted
         PROVE  \A i \in 1..box_count : Inner(file.boxes[i]) # k
    BY <1>0, <2>12, <2>17 DEF StoredInv
  <2>18. StoredInv'
    BY <1>1, <2>11, <2>12, <2>14, <2>15, <2>16, <2>17 DEF StoredInv
  <2> QED BY <1>4, <1>5, <2>18
<1> QED BY <1>6, <1>7

\* JxlBoxContentDecoder::StartBox(): nothing of the box is read.
LEMMA StartReads ==
  ASSUME NEW b \in BoxRecords, NEW z \in Nat, NEW hi \in Nat, NEW brob \in BOOLEAN,
         b.begin <= hi, brob => b.begin + 1 <= hi
  PROVE  /\ Reads(StartBox(brob, b.unbounded, z), <<>>, brob, b, z, b.begin, hi)
         /\ StartBox(brob, b.unbounded, z).inflated = <<>>
<1> DEFINE d == StartBox(brob, b.unbounded, z)
           u == b.unbounded
<1>1. b.begin \in Nat /\ u \in BOOLEAN /\ <<>> \in Seq(Int)
  BY DEF BoxRecords
<1>2. /\ d \in ContentDecoders /\ d.brob_decode = brob /\ d.box_until_eof = b.unbounded /\ d.pos = 0
      /\ d.remaining = (IF u THEN 0 ELSE z) /\ d.inflated = <<>> /\ d.header_done = FALSE
  <2> HIDE DEF u
  <2>1. b.unbounded = u
    BY DEF u
  <2>2. (IF u THEN 0 ELSE z) \in Nat
    BY <1>1
  <2> QED BY <1>1, <2>1, <2>2 DEF StartBox, ContentDecoders
<1> HIDE DEF d
<1>3. Text(b.begin, brob, 0) = <<>>
  BY <1>1, EmptyRun DEF Text
<1>4. IsConcat(Text(b.begin, brob, d.pos), <<>>, d.inflated)
  <2>1. <<>> \o <<>> = <<>>
    BY <1>1, ConcatEmptySeq
  <2> QED BY <1>2, <1>3, <2>1 DEF IsConcat
<1>5. /\ d.pos <= z /\ b.begin <= b.begin + d.pos /\ b.begin + d.pos <= hi
      /\ ~b.unbounded => d.remaining = z - d.pos
      /\ d.header_done <=> d.pos > 0
  BY <1>1, <1>2
<1>6. Reads(d, <<>>, brob, b, z, b.begin, hi)
  BY <1>1, <1>2, <1>4, <1>5 DEF Reads
<1> QED BY <1>2, <1>6 DEF d

\* A step that ends the reading of the file.
LEMMA FailedStep ==
  ASSUME PlaceInv, OutputInv, StoredInv, pc' = "Application", status' \in Final,
         UNCHANGED <<file, decompress_boxes>>, box_buffer' = box_buffer, taken' \in BOOLEAN,
         store' \in [Meta -> 0..2], metadata' \in [Meta -> Seq(Int)],
         \A m \in Meta : store'[m] = 2 => store[m] = 2 /\ metadata'[m] = metadata[m]
  PROVE  PlaceInv' /\ OutputInv' /\ StoredInv'
<1>1. ~Live' /\ status' \notin BoxStatuses
  BY DEF Live, Final, BoxStatuses
<1>2. PlaceInv'
  BY DEF PlaceInv
<1>3. OutputInv'
  BY <1>1 DEF OutputInv, AtBoxEvent, BoxStatuses
<1>4. \A m : First(m)' = First(m)
  BY DEF First
<1>5. StoredInv'
  BY <1>1, <1>4 DEF StoredInv
<1> QED BY <1>2, <1>3, <1>5

LEMMA BoxHeaderFacts ==
  ASSUME PInv, ReadBoxHeader
  PROVE  /\ file.container /\ IsFile(file) /\ box_count \in 0..Len(file.boxes) - 1 /\ box_count \in Nat
         /\ box_count + 1 \in 1..Len(file.boxes) /\ HeaderAt(next_in) = file.boxes[box_count + 1]
         /\ file_pos + avail_in = sent /\ file_pos \in Nat /\ avail_in \in Nat
         /\ HeaderAt(next_in).header \in Nat /\ HeaderAt(next_in).size \in Nat
         /\ HeaderAt(next_in).unbounded \in BOOLEAN
<1> DEFINE i == box_count
<1>0. /\ pc # "Application" /\ Live /\ box_stage = "kHeader" /\ got_signature
      /\ have_container /\ avail_in > 0
  BY LiveFacts DEF ReadBoxHeader
<1>1. IsFile(file) /\ Len(file.boxes) \in Nat /\ file.container \in BOOLEAN
  BY TheFile, FileBoxes DEF PInv, IsFile
<1>2. next_in = file_pos /\ avail_in \in Nat /\ file_pos \in Nat /\ file_pos + avail_in = sent
  BY <1>0 DEF PInv, InputInv
<1>3. file.container /\ i \in Nat /\ file_pos = Ends(file)[i] /\ i \in 0..Len(file.boxes)
  <2>1. have_container = file.container
    BY <1>0 DEF PInv, HeaderInv
  <2> QED BY <1>0, <1>1, <2>1 DEF PInv, HeaderInv
<1>4. i \in 0..Len(file.boxes) - 1
  <2>1. SUFFICES ASSUME i = Len(file.boxes) PROVE FALSE
    BY <1>1, <1>3
  <2>2. file_pos = FileSize(file) /\ sent <= FileSize(file)
    BY <1>3, <2>1, SentFacts DEF FileSize
  <2> QED BY <1>0, <1>2, <2>2
<1>5. i + 1 \in 1..Len(file.boxes) /\ HeaderAt(next_in) = file.boxes[i + 1]
  BY <1>1, <1>2, <1>3, <1>4, HeaderAtEnd
<1>6. /\ file.boxes[i + 1].header \in Nat /\ file.boxes[i + 1].size \in Nat
      /\ file.boxes[i + 1].unbounded \in BOOLEAN
  BY <1>1, <1>5, FileBoxes
<1> QED BY <1>1, <1>2, <1>3, <1>4, <1>5, <1>6

LEMMA ReadBoxHeaderContents ==
  ASSUME PInv, PInv', PlaceInv, OutputInv, StoredInv, ReadBoxHeader
  PROVE  PlaceInv' /\ OutputInv' /\ StoredInv'
<1> DEFINE h == HeaderAt(next_in)
           brob == h.type = "brob"
           need == h.header + (IF brob THEN 1 ELSE 0)
           i == box_count
           rejected == \/ h.type = "jxlc" /\ last_codestream_seen
                       \/ StageOf(h.type) = "kJpegRecon" /\ "JPEG_RECONSTRUCTION" \notin events_wanted
           noted == IF "BOX" \in events_wanted
                    THEN Return("BOX") /\ box_buffer' = [box_buffer EXCEPT !.event = TRUE, !.current = FALSE]
                    ELSE Continue /\ UNCHANGED box_buffer
<1>0. /\ pc = "Stage" /\ Live /\ box_stage = "kHeader" /\ status \notin Final
      /\ decompress_boxes \in BOOLEAN
  BY LiveFacts DEF ReadBoxHeader, PlaceInv
<1>1. UNCHANGED <<file, sent, orig_events_wanted, decompress_boxes, events_wanted>>
  BY DEF ReadBoxHeader, application, settings
<1>2. /\ file.container /\ IsFile(file) /\ i \in 0..Len(file.boxes) - 1 /\ i \in Nat
      /\ i + 1 \in 1..Len(file.boxes) /\ h = file.boxes[i + 1]
      /\ file_pos + avail_in = sent /\ file_pos \in Nat /\ avail_in \in Nat
      /\ h.header \in Nat /\ h.size \in Nat /\ h.unbounded \in BOOLEAN
  BY BoxHeaderFacts
<1>3. \/ Return("NEED_MORE_INPUT") /\ UNCHANGED <<input, boxes, contents, stored>>
      \/ Return("ERROR") /\ UNCHANGED <<contents, stored>>
      \/ /\ avail_in >= need /\ box_count' = box_count + 1 /\ AdvanceInput(h.header)
         /\ box' = [begin |-> file_pos', unbounded |-> h.unbounded,
                    end |-> IF h.unbounded THEN 0 ELSE file_pos' + h.size,
                    size |-> IF h.unbounded THEN 0 ELSE h.size]
         /\ store' = [m \in Meta |-> IF m \in StartsStoring(h) THEN 1 ELSE store[m]]
         /\ metadata' = [m \in Meta |-> IF m \in StartsStoring(h) THEN <<>> ELSE metadata[m]]
         /\ metadata_decoder' = IF \E m \in Meta : store'[m] = 1
                                THEN StartBox(brob, h.unbounded, h.size) ELSE metadata_decoder
         /\ box_content_decoder' = IF "BOX" \in events_wanted
                                   THEN StartBox(decompress_boxes /\ brob, h.unbounded, h.size)
                                   ELSE box_content_decoder
         /\ box_stage' = IF rejected THEN box_stage ELSE StageOf(h.type)
         /\ box_out' = <<>> /\ taken' = FALSE
         /\ IF rejected THEN Return("ERROR") /\ UNCHANGED box_buffer ELSE noted
  BY Zenon DEF ReadBoxHeader
<1> HIDE DEF h
<1>4. CASE Return("NEED_MORE_INPUT") /\ UNCHANGED <<input, boxes, contents, stored>>
  <2>1. /\ UNCHANGED <<file_pos, box_stage, box_count, box, box_buffer, box_content_decoder, box_out, taken,
                       store, metadata, metadata_decoder>>
        /\ pc' = "Application" /\ status' \notin BoxStatuses
    BY <1>4, ReturnFacts DEF boxes, contents, stored, BoxStatuses
  <2>2. sent <= sent'
    BY <1>1, SentFacts
  <2>3. Keeps
    BY <1>0, <1>1, <2>1, <2>2 DEF Keeps
  <2>4. KeepsStored
    BY <1>0, <1>1, <2>1, <2>2 DEF KeepsStored
  <2>5. PlaceInv'
    BY <1>1, <2>1 DEF PlaceInv
  <2> QED BY <1>0, <2>1, <2>3, <2>4, <2>5, OutputKept, StoredKept
<1>5. CASE Return("ERROR") /\ UNCHANGED <<contents, stored>>
  <2>1. pc' = "Application" /\ status' \in Final
    BY <1>5, CheckedFacts DEF Return, Final
  <2>2. UNCHANGED <<box_buffer, taken, store, metadata>>
    BY <1>5 DEF contents, stored
  <2>3. taken' \in BOOLEAN /\ store' \in [Meta -> 0..2] /\ metadata' \in [Meta -> Seq(Int)]
    BY <2>2 DEF OutputInv, StoredInv
  <2> QED BY <1>1, <2>1, <2>2, <2>3, FailedStep
<1>6. CASE /\ avail_in >= need /\ box_count' = box_count + 1 /\ AdvanceInput(h.header)
           /\ box' = [begin |-> file_pos', unbounded |-> h.unbounded,
                      end |-> IF h.unbounded THEN 0 ELSE file_pos' + h.size,
                      size |-> IF h.unbounded THEN 0 ELSE h.size]
           /\ store' = [m \in Meta |-> IF m \in StartsStoring(h) THEN 1 ELSE store[m]]
           /\ metadata' = [m \in Meta |-> IF m \in StartsStoring(h) THEN <<>> ELSE metadata[m]]
           /\ metadata_decoder' = IF \E m \in Meta : store'[m] = 1
                                  THEN StartBox(brob, h.unbounded, h.size) ELSE metadata_decoder
           /\ box_content_decoder' = IF "BOX" \in events_wanted
                                     THEN StartBox(decompress_boxes /\ brob, h.unbounded, h.size)
                                     ELSE box_content_decoder
           /\ box_stage' = IF rejected THEN box_stage ELSE StageOf(h.type)
           /\ box_out' = <<>> /\ taken' = FALSE
           /\ IF rejected THEN Return("ERROR") /\ UNCHANGED box_buffer ELSE noted
  <2>1. store \in [Meta -> 0..2] /\ metadata \in [Meta -> Seq(Int)]
    BY DEF StoredInv
  <2>2. /\ store' \in [Meta -> 0..2] /\ metadata' \in [Meta -> Seq(Int)]
        /\ \A m \in Meta : m \in StartsStoring(h) => store'[m] = 1 /\ metadata'[m] = <<>>
        /\ \A m \in Meta : m \notin StartsStoring(h) => store'[m] = store[m] /\ metadata'[m] = metadata[m]
    <3>1. <<>> \in Seq(Int)
      BY EmptySeq
    <3> QED BY <1>6, <2>1, <3>1
  <2>3. \A m \in Meta : store'[m] = 2 => store[m] = 2 /\ metadata'[m] = metadata[m]
    BY <2>2
  <2>4. CASE rejected
    <3>1. Return("ERROR") /\ box_buffer' = box_buffer /\ taken' \in BOOLEAN
      BY <1>6, <2>4
    <3>2. pc' = "Application" /\ status' \in Final
      BY <3>1, CheckedFacts DEF Return, Final
    <3> QED BY <1>1, <2>2, <2>3, <3>1, <3>2, FailedStep
  <2>5. CASE ~rejected
    <3>0. noted /\ box_stage' = StageOf(h.type)
      BY <1>6, <2>5
    <3>1. box_stage' # "kHeader"
      BY <3>0 DEF StageOf
    <3>2. box_buffer \in BoxBuffers /\ (box_buffer.current => "BOX" \in events_wanted)
      BY <1>0 DEF OutputInv
    <3>3. /\ box_buffer' \in BoxBuffers /\ ~box_buffer'.current
          /\ pc' \in {"Application", "OutputBox"} /\ (pc' = "OutputBox" => UNCHANGED status)
          /\ "BOX" \in events_wanted => pc' = "Application" /\ status' = "BOX"
          /\ "BOX" \notin events_wanted => pc' = "OutputBox"
      <4>1. CASE "BOX" \in events_wanted
        <5>1. Return("BOX") /\ box_buffer' = [box_buffer EXCEPT !.event = TRUE, !.current = FALSE]
          BY <3>0, <4>1
        <5>2. box_buffer' \in BoxBuffers /\ ~box_buffer'.current
          BY <3>2, <5>1 DEF BoxBuffers
        <5> QED BY <4>1, <5>1, <5>2, CheckedFacts DEF Return
      <4>2. CASE "BOX" \notin events_wanted
        <5>1. Continue /\ box_buffer' = box_buffer
          BY <3>0, <4>2
        <5> QED BY <3>1, <3>2, <4>2, <5>1, ContinueFacts
      <4> QED BY <4>1, <4>2
    <3>4. PlaceInv'
      BY <1>0, <1>1, <3>1, <3>3 DEF PlaceInv, AfterOutput
    <3>5. /\ box' \in BoxRecords /\ box'.begin = file_pos' /\ box'.unbounded = h.unbounded
          /\ Size' = h.size /\ IsBrob' = brob /\ file_pos' = file_pos + h.header
          /\ box'.begin <= sent /\ (brob => box'.begin + 1 <= sent)
          /\ file'.boxes[box_count'] = h
      <4>1. file'.boxes[box_count'] = h
        BY <1>1, <1>2, <1>6
      <4>2. Size' = h.size /\ IsBrob' = brob
        BY <4>1 DEF Size, IsBrob
      <4>3. file_pos' = file_pos + h.header /\ box'.begin = file_pos' /\ box'.unbounded = h.unbounded
        BY <1>6 DEF AdvanceInput
      <4>4. box' \in BoxRecords
        BY DEF PInv, HeaderInv, BoxRecords
      <4>5. file_pos + h.header <= sent /\ (brob => file_pos + h.header + 1 <= sent)
        BY <1>2, <1>6
      <4> QED BY <4>1, <4>2, <4>3, <4>4, <4>5
    <3>6. ASSUME NEW c \in BOOLEAN, c => brob
          PROVE  /\ Reads(StartBox(c, h.unbounded, h.size), <<>>, c, box', Size', file_pos', sent)
                 /\ StartBox(c, h.unbounded, h.size).inflated = <<>>
      <4>1. sent \in Nat
        BY SentFacts
      <4> DEFINE b == box'
      <4>2. /\ b \in BoxRecords /\ b.begin <= sent /\ (c => b.begin + 1 <= sent) /\ b.unbounded = h.unbounded
            /\ b.begin = file_pos'
        BY <3>5, <3>6
      <4> HIDE DEF b
      <4>3. /\ Reads(StartBox(c, b.unbounded, h.size), <<>>, c, b, h.size, b.begin, sent)
            /\ StartBox(c, b.unbounded, h.size).inflated = <<>>
        BY <1>2, <3>6, <4>1, <4>2, StartReads
      <4> QED BY <3>5, <4>2, <4>3 DEF b
    <3>7. OutputInv'
      <4>1. ASSUME AtBoxEvent'
            PROVE  /\ file'.container /\ box_count' > 0 /\ "BOX" \in events_wanted'
                   /\ Tracks(box_content_decoder, box_out, decompress_boxes /\ IsBrob)'
        <5>1. "BOX" \in events_wanted
          BY <3>3, <4>1 DEF AtBoxEvent
        <5>2. box_content_decoder' = StartBox(decompress_boxes /\ brob, h.unbounded, h.size) /\ box_out' = <<>>
          BY <1>6, <5>1
        <5>3. (decompress_boxes /\ brob) \in BOOLEAN /\ (decompress_boxes /\ brob => brob)
          BY <1>0
        <5>4. Reads(StartBox(decompress_boxes /\ brob, h.unbounded, h.size), <<>>, decompress_boxes /\ brob,
                    box', Size', file_pos', sent)
          BY <3>6, <5>3
        <5>5. Reads(box_content_decoder', box_out', decompress_boxes' /\ IsBrob', box', Size', file_pos', sent')
          BY <1>1, <3>5, <5>2, <5>4, Zenon
        <5>6. box_count' > 0
          BY <1>2, <1>6
        <5> QED BY <1>1, <1>2, <5>1, <5>5, <5>6 DEF Tracks
      <4>2. taken' = FALSE /\ (pc' # "Application" => pc' = "OutputBox")
            /\ (pc' = "Application" => status' = "BOX") /\ (AtBoxEvent' => pc' \notin AfterOutput)
        BY <1>6, <3>3 DEF AtBoxEvent, AfterOutput
      <4> QED BY <3>1, <3>3, <4>1, <4>2 DEF OutputInv
    <3>8. ASSUME NEW m \in Meta, store'[m] = 1
          PROVE  /\ file'.container /\ box_stage' = "kSkip" /\ box_count' = First(m)'
                 /\ Inner(file'.boxes[box_count']) = m
                 /\ Tracks(metadata_decoder, metadata[m], IsBrob)' /\ metadata_decoder'.inflated = <<>>
                 /\ pc' \notin AfterStore
      <4>1. store[m] # 1
        BY <1>0 DEF StoredInv
      <4>2. m \in StartsStoring(h)
        BY <2>2, <3>8, <4>1
      <4>3. "JPEG_RECONSTRUCTION" \in orig_events_wanted /\ store[m] = 0 /\ Inner(h) = m
        BY <4>2 DEF StartsStoring
      <4>4. h.type \in {"brob"} \cup Meta
        BY <4>3 DEF Inner
      <4>5. box_stage' = "kSkip"
        BY <3>0, <4>4 DEF StageOf, Meta
      <4>6. First(m) = i + 1
        <5>1. \A j \in 1..i : Inner(file.boxes[j]) # m
          BY <1>0, <4>3 DEF StoredInv
        <5>2. DOMAIN file.boxes = 1..Len(file.boxes) /\ Len(file.boxes) \in Nat
          BY <1>2, FileBoxes
        <5>3. i + 1 \in Holding(file.boxes, m) /\ \A j \in Holding(file.boxes, m) : j \in Nat /\ i + 1 <= j
          BY <1>2, <4>3, <5>1, <5>2 DEF Holding
        <5>4. \A x, y \in Nat : x <= y /\ y <= x => x = y
          OBVIOUS
        <5>5. i + 1 \in Nat
          BY <1>2
        <5> HIDE DEF i
        <5>6. Min(Holding(file.boxes, m)) = i + 1
          BY <5>3, <5>4, <5>5 DEF Min
        <5> QED BY <5>6 DEF First
      <4>7. First(m)' = First(m)
        BY <1>1 DEF First
      <4>8. metadata_decoder' = StartBox(brob, h.unbounded, h.size)
        BY <1>6, <3>8
      <4>9. metadata'[m] = <<>>
        BY <2>2, <4>2
      <4>10. brob \in BOOLEAN
        OBVIOUS
      <4>11. /\ Reads(StartBox(brob, h.unbounded, h.size), <<>>, brob, box', Size', file_pos', sent)
             /\ StartBox(brob, h.unbounded, h.size).inflated = <<>>
        BY <3>6, <4>10
      <4>12. Reads(metadata_decoder', metadata'[m], IsBrob', box', Size', file_pos', sent')
        BY <1>1, <3>5, <4>8, <4>9, <4>11, Zenon
      <4> QED BY <1>1, <1>2, <1>6, <3>3, <3>5, <4>3, <4>5, <4>6, <4>7, <4>8, <4>11, <4>12
              DEF Tracks, AfterStore
    <3>9. ASSUME NEW m \in Meta, store'[m] = 0, "JPEG_RECONSTRUCTION" \in orig_events_wanted
          PROVE  \A j \in 1..box_count' : Inner(file.boxes[j]) # m
      <4>1. store[m] = 0 /\ Inner(h) # m
        BY <2>2, <3>9 DEF StartsStoring
      <4>2. \A j \in 1..i : Inner(file.boxes[j]) # m
        BY <1>0, <3>9, <4>1 DEF StoredInv
      <4>3. \A j \in 1..box_count' : j \in 1..i \/ j = i + 1
        BY <1>2, <1>6
      <4> QED BY <1>2, <4>1, <4>2, <4>3
    <3>10. ASSUME NEW m \in Meta, store'[m] = 2
           PROVE  /\ IsPrefix(metadata'[m], Plain(file, First(m)))
                  /\ ~file.boxes[First(m)].unbounded => metadata'[m] = Plain(file, First(m))
      BY <2>3, <3>10 DEF StoredInv
    <3>11. \A m : First(m)' = First(m)
      BY <1>1 DEF First
    <3>12. StoredInv'
      BY <1>1, <2>2, <3>8, <3>9, <3>10, <3>11 DEF StoredInv
    <3> QED BY <3>4, <3>7, <3>12
  <2> QED BY <2>4, <2>5
<1> QED BY <1>3, <1>4, <1>5, <1>6

LEMMA ProcessInputContents ==
  ASSUME PInv, PInv', PlaceInv, OutputInv, StoredInv, ProcessInput
  PROVE  PlaceInv' /\ OutputInv' /\ StoredInv'
<1>1. /\ pc = "Application" /\ Live /\ status \notin Final
      /\ UNCHANGED <<file, sent, orig_events_wanted, decompress_boxes, events_wanted, file_pos, box_stage,
                     box_count, box, box_buffer, box_content_decoder, box_out, store, metadata,
                     metadata_decoder>>
      /\ taken' = (taken /\ box_buffer.current)
  BY DEF ProcessInput, Live, Final, application, settings, boxes, stored
<1>2. Continue \/ Return("ERROR") \/ Return("NEED_MORE_INPUT")
  BY DEF ProcessInput
<1>3. /\ pc' \in {"Application", "OutputBox", "Reconstruct"}
      /\ pc' = "Application" => status' \notin BoxStatuses
      /\ pc' # "Application" => UNCHANGED status
      /\ pc' = "OutputBox" => box_stage # "kHeader"
      /\ pc' = "Reconstruct" => box_stage = "kHeader"
  BY <1>1, <1>2, ReturnFacts, ContinueFacts DEF BoxStatuses
<1>4. PlaceInv'
  BY <1>1, <1>3 DEF PlaceInv, AfterOutput
<1>5. StoredInv'
  <2>1. sent <= sent'
    BY <1>1, SentFacts
  <2>2. KeepsStored
    BY <1>1, <1>3, <2>1 DEF KeepsStored, AfterStore
  <2> QED BY <1>1, <2>2, StoredKept
<1>6. /\ box_buffer \in BoxBuffers /\ taken \in BOOLEAN
      /\ box_buffer.current => taken /\ box_buffer.pos <= box_buffer.size
      /\ taken =>
           /\ file.container /\ box_count > 0 /\ "BOX" \in events_wanted
           /\ box_stage # "kHeader" => Tracks(box_content_decoder, box_out, decompress_boxes /\ IsBrob)
           /\ box_stage = "kHeader" => box_out = Expected(file, box_count)
  BY <1>1 DEF OutputInv
<1>7. /\ Tracks(box_content_decoder, box_out, decompress_boxes /\ IsBrob)'
           = Tracks(box_content_decoder, box_out, decompress_boxes /\ IsBrob)
      /\ Expected(file, box_count)' = Expected(file, box_count)
  BY <1>1 DEF Tracks, Size, IsBrob, Expected
<1>8. /\ taken' \in BOOLEAN /\ (taken' => taken /\ box_buffer.current)
      /\ box_buffer.current => taken'
  BY <1>1, <1>6 DEF BoxBuffers
<1>9. ~AtBoxEvent' /\ ~(pc' = "Application" /\ status' = "BOX_NEED_MORE_OUTPUT")
  BY <1>3 DEF AtBoxEvent, BoxStatuses
<1>10. pc' \in AfterOutput => box_stage = "kHeader"
  BY <1>3 DEF AfterOutput
<1>11. OutputInv'
  BY <1>1, <1>6, <1>7, <1>8, <1>9, <1>10 DEF OutputInv
<1> QED BY <1>4, <1>5, <1>11

LEMMA BoxBufferStep ==
  ASSUME PInv, PInv', PlaceInv, OutputInv, StoredInv,
         (\E size \in BoxBufferSizes : SetBoxBuffer(size)) \/ ReleaseBoxBuffer
  PROVE  PlaceInv' /\ OutputInv' /\ StoredInv'
<1>1. /\ pc = "Application" /\ Live
      /\ UNCHANGED <<file, sent, orig_events_wanted, decompress_boxes, events_wanted, file_pos, box_stage,
                     box_count, box, box_content_decoder, box_out, store, metadata,
                     metadata_decoder, pc, status>>
  BY LiveFacts DEF SetBoxBuffer, ReleaseBoxBuffer, application, settings, boxes, stored, seen
<1>2. PlaceInv'
  BY <1>1 DEF PlaceInv
<1>3. StoredInv'
  <2>1. sent <= sent'
    BY <1>1, SentFacts
  <2>2. KeepsStored
    BY <1>1, <2>1 DEF KeepsStored, AfterStore
  <2> QED BY <1>1, <2>2, StoredKept
<1>4. /\ box_buffer \in BoxBuffers /\ taken \in BOOLEAN
      /\ status = "BOX_NEED_MORE_OUTPUT" => taken
      /\ AtBoxEvent => box_stage # "kHeader"
      /\ taken \/ AtBoxEvent =>
           /\ file.container /\ box_count > 0 /\ "BOX" \in events_wanted
           /\ box_stage # "kHeader" => Tracks(box_content_decoder, box_out, decompress_boxes /\ IsBrob)
           /\ box_stage = "kHeader" => box_out = Expected(file, box_count)
  BY <1>1 DEF OutputInv
<1>5. /\ Tracks(box_content_decoder, box_out, decompress_boxes /\ IsBrob)'
           = Tracks(box_content_decoder, box_out, decompress_boxes /\ IsBrob)
      /\ Expected(file, box_count)' = Expected(file, box_count) /\ AtBoxEvent' = AtBoxEvent
  BY <1>1 DEF Tracks, Size, IsBrob, Expected, AtBoxEvent
<1>6. pc' \notin AfterOutput
  BY <1>1 DEF AfterOutput
<1>7. CASE \E size \in BoxBufferSizes : SetBoxBuffer(size)
  <2>1. PICK size \in BoxBufferSizes : SetBoxBuffer(size)
    BY <1>7
  <2>2. /\ box_buffer' = [box_buffer EXCEPT !.set = TRUE, !.current = TRUE, !.size = size, !.pos = 0]
        /\ taken' = (taken \/ status = "BOX")
        /\ status = "BOX" \/ status = "BOX_NEED_MORE_OUTPUT"
    BY <2>1 DEF SetBoxBuffer
  <2>3. size \in Nat
    BY SizesAssumption
  <2>4. box_buffer' \in BoxBuffers /\ box_buffer'.pos <= box_buffer'.size
    <3>1. box_buffer' \in BoxBuffers
      BY <1>4, <2>2, <2>3 DEF BoxBuffers
    <3>2. box_buffer'.pos = 0 /\ box_buffer'.size = size
      BY <1>4, <2>2 DEF BoxBuffers
    <3> QED BY <2>3, <3>1, <3>2
  <2>5. taken' = TRUE /\ (taken \/ AtBoxEvent)
    BY <1>1, <1>4, <2>2 DEF AtBoxEvent
  <2>6. OutputInv'
    BY <1>1, <1>4, <1>5, <1>6, <2>4, <2>5 DEF OutputInv
  <2> QED BY <1>2, <1>3, <2>6
<1>8. CASE ReleaseBoxBuffer
  <2>1. /\ box_buffer' = [box_buffer EXCEPT !.set = FALSE, !.current = FALSE, !.size = 0]
        /\ taken' = taken
    BY <1>8 DEF ReleaseBoxBuffer
  <2>2. box_buffer' \in BoxBuffers /\ ~box_buffer'.current
    BY <1>4, <2>1 DEF BoxBuffers
  <2>3. OutputInv'
    BY <1>1, <1>4, <1>5, <1>6, <2>1, <2>2 DEF OutputInv
  <2> QED BY <1>2, <1>3, <2>3
<1> QED BY <1>7, <1>8

LEMMA CalmStep ==
  ASSUME PInv, PInv', PlaceInv, OutputInv, StoredInv, Calm, Live,
         pc' \in {"Application", "OutputBox"} \cup AfterOutput
  PROVE  PlaceInv' /\ OutputInv' /\ StoredInv'
<1>1. /\ Moved /\ Keeps /\ KeepsStored
      /\ UNCHANGED <<box_buffer, box_content_decoder, box_out, taken>>
      /\ UNCHANGED <<store, metadata, metadata_decoder>>
  BY DEF Calm
<1> QED BY <1>1, MovedStep, OutputKept, StoredKept

LEMMA ContentsStep ==
  ASSUME PInv, PlaceInv, OutputInv, StoredInv, [Next]_vars
  PROVE  PlaceInv' /\ OutputInv' /\ StoredInv'
<1>0. PInv'
  BY PInvStep
<1>1. CASE ProcessInput
  BY <1>0, <1>1, ProcessInputContents
<1>2. CASE OutputBox
  BY <1>0, <1>2, OutputBoxStep
<1>3. CASE StoreMetadata
  BY <1>0, <1>3, StoreMetadataStep
<1>4. CASE ReadBoxHeader
  BY <1>0, <1>4, ReadBoxHeaderContents
<1>5. CASE CalmInCall
  BY <1>0, <1>5, CalmInCallStep, CalmStep DEF Live
<1>6. CASE MovesOn
  BY <1>0, <1>6, MovesOnStep, CalmStep DEF Live
<1>7. CASE StartCodestream
  BY <1>0, <1>7, StartCodestreamCalm, CalmStep DEF Live
<1>8. CASE CalmBetween
  BY <1>0, <1>8, CalmBetweenStep, CalmStep
<1>9. CASE (\E size \in BoxBufferSizes : SetBoxBuffer(size)) \/ ReleaseBoxBuffer
  BY <1>0, <1>9, BoxBufferStep
<1>10. CASE UNCHANGED vars
  <2>1. UNCHANGED <<file, sent, orig_events_wanted, decompress_boxes, events_wanted, file_pos, box_stage,
                    box_count, box, box_buffer, box_content_decoder, box_out, taken, store, metadata,
                    metadata_decoder, pc, status, result>>
    BY <1>10 DEF vars, application, settings, boxes, contents, stored, seen
  <2>2. PlaceInv'
    BY <2>1 DEF PlaceInv
  <2>3. OutputInv'
    BY <2>1 DEF OutputInv, Live, AtBoxEvent, Tracks, CaughtUp, Size, IsBrob, Expected
  <2>4. StoredInv'
    BY <2>1 DEF StoredInv, Live, Tracks, CaughtUp, Size, IsBrob, First
  <2> QED BY <2>2, <2>3, <2>4
<1>11. \/ ProcessInput \/ OutputBox \/ StoreMetadata \/ ReadBoxHeader \/ CalmInCall \/ MovesOn
       \/ StartCodestream \/ CalmBetween
       \/ (\E size \in BoxBufferSizes : SetBoxBuffer(size)) \/ ReleaseBoxBuffer
       \/ UNCHANGED vars
  BY DEF Next, HandleBoxes, Application, Stopped, CalmInCall, MovesOn, CalmBetween
<1> QED BY <1>1, <1>2, <1>3, <1>4, <1>5, <1>6, <1>7, <1>8, <1>9, <1>10, <1>11

-----------------------------------------------------------------------------
(* JPEG reconstruction. *)

KeepsRecon ==
  /\ UNCHANGED <<recon_size, recon_output_jpeg>>
  /\ jpeg_decoder'.jpeg_data \/ ib_jpeg_data' => jpeg_decoder.jpeg_data \/ ib_jpeg_data
  /\ "JPEG_RECONSTRUCTION" \in events_wanted' <=> "JPEG_RECONSTRUCTION" \in events_wanted
  /\ \A m \in Meta : store[m] = 2 => store'[m] = 2 /\ metadata'[m] = metadata[m]
  /\ Live' /\ box_stage' = "kJpegRecon" => Live /\ box_stage = "kJpegRecon"

LEMMA ReconKept ==
  ASSUME ReconInv, KeepsRecon
  PROVE  ReconInv'
BY DEF ReconInv, KeepsRecon

QuietRecon ==
  \/ NoReconstruction \/ AtBoxEnd \/ ReadHeaders \/ ReturnBasicInfo \/ ReadFrameHeader \/ StartFrame
  \/ FinishCodestream \/ CodestreamTooShort \/ CodestreamEvent
  \/ ReadFtyp \/ ReadPartialCodestream \/ SkipBox \/ EnterCodestream \/ CopyAndReadOn \/ AfterCodestream
  \/ StartCodestream \/ CalmBetween \/ ProcessInput \/ OutputBox
  \/ (\E size \in BoxBufferSizes : SetBoxBuffer(size)) \/ ReleaseBoxBuffer \/ UNCHANGED vars

LEMMA QuietReconStep ==
  ASSUME PInv, QuietRecon
  PROVE  KeepsRecon
<1> USE DEF settings, boxes, contents, stored, seen, jpeg, DecodingCodestream, StageAtBoxEnd
<1>0. /\ pc # "Application" => Live
      /\ Between => Live
      /\ jpeg_decoder \in JpegDecoders
  BY LiveFacts
<1>1. UNCHANGED <<recon_size, recon_output_jpeg, store, metadata>>
  <2>1. CASE NoReconstruction \/ AtBoxEnd \/ ReadHeaders \/ ReturnBasicInfo \/ ReadFrameHeader \/ StartFrame
             \/ FinishCodestream \/ CodestreamTooShort \/ CodestreamEvent
    BY <2>1 DEF NoReconstruction, AtBoxEnd, ReadHeaders, ReturnBasicInfo, ReadFrameHeader, StartFrame,
       FinishCodestream, CodestreamTooShort, CodestreamEvent
  <2>2. CASE ReadFtyp \/ ReadPartialCodestream \/ SkipBox \/ EnterCodestream \/ CopyAndReadOn
             \/ AfterCodestream \/ StartCodestream
    BY <2>2 DEF ReadFtyp, ReadPartialCodestream, SkipBox, EnterCodestream, CopyAndReadOn, AfterCodestream,
       StartCodestream
  <2>3. CASE CalmBetween
    BY <2>3 DEF CalmBetween, SetInput, ReleaseInput, CloseInput, SetJPEGBuffer, ReleaseJPEGBuffer,
       SetImageOutBuffer
  <2>4. CASE ProcessInput \/ OutputBox \/ (\E size \in BoxBufferSizes : SetBoxBuffer(size))
             \/ ReleaseBoxBuffer \/ UNCHANGED vars
    BY <2>4 DEF ProcessInput, OutputBox, SetBoxBuffer, ReleaseBoxBuffer, vars
  <2> QED BY <2>1, <2>2, <2>3, <2>4 DEF QuietRecon
<1>2. "JPEG_RECONSTRUCTION" \in events_wanted' <=> "JPEG_RECONSTRUCTION" \in events_wanted
  <2>1. CASE NoReconstruction \/ AtBoxEnd \/ ReadHeaders \/ ReturnBasicInfo \/ ReadFrameHeader \/ StartFrame
             \/ FinishCodestream \/ CodestreamTooShort \/ CodestreamEvent
    BY <2>1 DEF NoReconstruction, AtBoxEnd, ReadHeaders, ReturnBasicInfo, ReadFrameHeader, StartFrame,
       FinishCodestream, CodestreamTooShort, CodestreamEvent
  <2>2. CASE ReadFtyp \/ ReadPartialCodestream \/ SkipBox \/ EnterCodestream \/ CopyAndReadOn
             \/ AfterCodestream \/ StartCodestream
    BY <2>2 DEF ReadFtyp, ReadPartialCodestream, SkipBox, EnterCodestream, CopyAndReadOn, AfterCodestream,
       StartCodestream
  <2>3. CASE CalmBetween
    BY <2>3 DEF CalmBetween, SetInput, ReleaseInput, CloseInput, SetJPEGBuffer, ReleaseJPEGBuffer,
       SetImageOutBuffer
  <2>4. CASE ProcessInput \/ OutputBox \/ (\E size \in BoxBufferSizes : SetBoxBuffer(size))
             \/ ReleaseBoxBuffer \/ UNCHANGED vars
    BY <2>4 DEF ProcessInput, OutputBox, SetBoxBuffer, ReleaseBoxBuffer, vars
  <2> QED BY <2>1, <2>2, <2>3, <2>4 DEF QuietRecon
<1>3. jpeg_decoder'.jpeg_data \/ ib_jpeg_data' => jpeg_decoder.jpeg_data \/ ib_jpeg_data
  <2>1. CASE NoReconstruction \/ AtBoxEnd \/ ReadHeaders \/ ReturnBasicInfo \/ ReadFrameHeader
             \/ FinishCodestream \/ CodestreamTooShort \/ CodestreamEvent
    BY <2>1 DEF NoReconstruction, AtBoxEnd, ReadHeaders, ReturnBasicInfo, ReadFrameHeader,
       FinishCodestream, CodestreamTooShort, CodestreamEvent
  <2>2. CASE ReadFtyp \/ ReadPartialCodestream \/ SkipBox \/ EnterCodestream \/ CopyAndReadOn
             \/ AfterCodestream \/ StartCodestream
    BY <2>2 DEF ReadFtyp, ReadPartialCodestream, SkipBox, EnterCodestream, CopyAndReadOn, AfterCodestream,
       StartCodestream
  <2>3. CASE (\E n \in 0..MaxChunk : SetInput(n)) \/ ReleaseInput \/ CloseInput \/ SetImageOutBuffer
    BY <2>3 DEF SetInput, ReleaseInput, CloseInput, SetImageOutBuffer
  <2>4. CASE (\E size \in JpegBufferSizes : SetJPEGBuffer(size)) \/ ReleaseJPEGBuffer
    <3>1. /\ UNCHANGED ib_jpeg_data
          /\ \E o, s : jpeg_decoder' = [jpeg_decoder EXCEPT !.out = o, !.avail_size = s]
      BY <2>4 DEF SetJPEGBuffer, ReleaseJPEGBuffer
    <3>2. jpeg_decoder'.jpeg_data = jpeg_decoder.jpeg_data
      BY <1>0, <3>1 DEF JpegDecoders
    <3> QED BY <3>1, <3>2
  <2>5. CASE ProcessInput \/ OutputBox \/ (\E size \in BoxBufferSizes : SetBoxBuffer(size))
             \/ ReleaseBoxBuffer \/ UNCHANGED vars
    BY <2>5 DEF ProcessInput, OutputBox, SetBoxBuffer, ReleaseBoxBuffer, vars
  <2>6. CASE StartFrame
    <3> DEFINE move == jpeg_decoder.out /\ jpeg_decoder.jpeg_data
               keep == jpeg_decoder.jpeg_data /\ ~move
    <3>1. /\ ib_jpeg_data' = (ib_jpeg_data \/ move)
          /\ jpeg_decoder' = [jpeg_decoder EXCEPT !.jpeg_data = keep]
      BY <1>0, <2>6 DEF StartFrame, JpegDecoders
    <3>2. jpeg_decoder'.jpeg_data = keep
      BY <1>0, <3>1 DEF JpegDecoders
    <3> QED BY <3>1, <3>2
  <2> QED BY <2>1, <2>2, <2>3, <2>4, <2>5, <2>6 DEF QuietRecon, CalmBetween
<1>4. Live' /\ box_stage' = "kJpegRecon" => Live /\ box_stage = "kJpegRecon"
  <2>1. CASE NoReconstruction \/ AtBoxEnd \/ ReadHeaders \/ ReturnBasicInfo \/ ReadFrameHeader \/ StartFrame
             \/ FinishCodestream \/ CodestreamTooShort \/ CodestreamEvent
    BY <1>0, <2>1 DEF NoReconstruction, AtBoxEnd, ReadHeaders, ReturnBasicInfo, ReadFrameHeader, StartFrame,
       FinishCodestream, CodestreamTooShort, CodestreamEvent
  <2>2. CASE ReadFtyp \/ ReadPartialCodestream \/ SkipBox \/ EnterCodestream \/ CopyAndReadOn
             \/ AfterCodestream \/ StartCodestream
    BY <1>0, <2>2 DEF ReadFtyp, ReadPartialCodestream, SkipBox, EnterCodestream, CopyAndReadOn, AfterCodestream,
       StartCodestream
  <2>3. CASE CalmBetween
    BY <1>0, <2>3 DEF CalmBetween, SetInput, ReleaseInput, CloseInput, SetJPEGBuffer, ReleaseJPEGBuffer,
       SetImageOutBuffer
  <2>4. CASE ProcessInput \/ OutputBox \/ (\E size \in BoxBufferSizes : SetBoxBuffer(size))
             \/ ReleaseBoxBuffer
    BY <1>0, <2>4 DEF ProcessInput, OutputBox, SetBoxBuffer, ReleaseBoxBuffer, Live, Final
  <2>5. CASE UNCHANGED vars
    BY <2>5 DEF vars, Live
  <2> QED BY <2>1, <2>2, <2>3, <2>4, <2>5 DEF QuietRecon
<1> QED BY <1>1, <1>2, <1>3, <1>4 DEF KeepsRecon

LEMMA SetMetadataRecon ==
  ASSUME PInv, StoredInv, ReconInv, SetMetadata \/ WriteOutput \/ DecodeFrame
  PROVE  ReconInv'
<1> USE DEF boxes, stored, seen, jpeg, DecodingCodestream
<1>0. pc # "Application" => Live
  BY LiveFacts
<1>00. jpeg_decoder \in JpegDecoders
  BY LiveFacts
<1>1. /\ recon_size \in [Meta -> Nat] /\ store \in [Meta -> 0..2]
      /\ recon_output_jpeg \in {"kNone", "kSettingMetadata", "kOutputting", "kFinished"}
      /\ recon_output_jpeg \in {"kOutputting", "kFinished"} =>
           \A m \in Meta : recon_size[m] > 0 => store[m] = 2 /\ Len(metadata[m]) = recon_size[m]
      /\ jpeg_decoder.jpeg_data \/ ib_jpeg_data \/ recon_output_jpeg # "kNone" =>
           "JPEG_RECONSTRUCTION" \notin events_wanted
  BY DEF ReconInv, StoredInv
<1>2. Live' /\ box_stage' = "kJpegRecon" => "JPEG_RECONSTRUCTION" \in events_wanted'
  BY <1>0 DEF ReconInv, SetMetadata, WriteOutput, DecodeFrame
<1>3. CASE SetMetadata
  <2>1. /\ UNCHANGED <<store, metadata, recon_size, jpeg_decoder, ib_jpeg_data, events_wanted>>
        /\ recon_output_jpeg = "kSettingMetadata" /\ ~JbrdNeedMoreBoxes
        /\ \/ UNCHANGED recon_output_jpeg
           \/ /\ recon_output_jpeg' = "kOutputting"
              /\ \A m \in Meta : recon_size[m] > 0 => Len(metadata[m]) = recon_size[m]
    BY <1>3 DEF SetMetadata
  <2>2. \A m \in Meta : recon_size[m] > 0 => store[m] = 2
    BY <1>1, <2>1 DEF JbrdNeedMoreBoxes
  <2> QED BY <1>1, <1>2, <2>1, <2>2 DEF ReconInv
<1>4. CASE WriteOutput
  <2>1. /\ UNCHANGED <<store, metadata, recon_size, events_wanted>>
        /\ recon_output_jpeg = "kOutputting" /\ recon_output_jpeg' \in {"kOutputting", "kFinished"}
    BY <1>4 DEF WriteOutput
  <2> QED BY <1>1, <1>2, <2>1 DEF ReconInv
<1>5. CASE DecodeFrame
  <2>1. /\ UNCHANGED <<store, metadata, recon_size, jpeg_decoder, ib_jpeg_data>>
        /\ "JPEG_RECONSTRUCTION" \in events_wanted' <=> "JPEG_RECONSTRUCTION" \in events_wanted
        /\ \/ UNCHANGED recon_output_jpeg
           \/ ib_jpeg_data /\ recon_output_jpeg' = "kSettingMetadata"
    BY <1>5 DEF DecodeFrame
  <2> QED BY <1>1, <1>2, <2>1 DEF ReconInv
<1> QED BY <1>3, <1>4, <1>5

LEMMA StoreMetadataRecon ==
  ASSUME PInv, StoredInv, ReconInv, StoreMetadata
  PROVE  ReconInv'
<1>1. /\ UNCHANGED <<recon_size, recon_output_jpeg, jpeg_decoder, ib_jpeg_data, events_wanted, box_stage>>
      /\ Live
  BY LiveFacts DEF StoreMetadata, jpeg, seen, boxes
<1>2. store \in [Meta -> 0..2] /\ metadata \in [Meta -> Seq(Int)]
  BY DEF StoredInv
<1>3. \A m \in Meta : store[m] = 2 => store'[m] = 2 /\ metadata'[m] = metadata[m]
  <2>1. CASE ~Storing
    BY <2>1 DEF StoreMetadata, stored
  <2>2. CASE Storing
    <3> DEFINE m == IF store["Exif"] = 1 THEN "Exif" ELSE "xml "
    <3>1. /\ \E all : metadata' = [metadata EXCEPT ![m] = all]
          /\ \/ store' = [k \in Meta |-> IF store[k] = 1 THEN 2 ELSE store[k]]
             \/ store' = store
      BY <2>2 DEF StoreMetadata
    <3>2. m \in Meta /\ store[m] = 1
      BY <1>2, <2>2 DEF Storing, Meta, StoredInv
    <3> HIDE DEF m
    <3> QED BY <1>2, <3>1, <3>2
  <2> QED BY <2>1, <2>2
<1>4. KeepsRecon
  BY <1>1, <1>3 DEF KeepsRecon
<1> QED BY <1>4, ReconKept

LEMMA ReadBoxHeaderRecon ==
  ASSUME PInv, StoredInv, ReconInv, ReadBoxHeader
  PROVE  ReconInv'
<1> DEFINE h == HeaderAt(next_in)
           rejected == \/ h.type = "jxlc" /\ last_codestream_seen
                       \/ StageOf(h.type) = "kJpegRecon" /\ "JPEG_RECONSTRUCTION" \notin events_wanted
<1>1. /\ UNCHANGED <<recon_size, recon_output_jpeg, jpeg_decoder, ib_jpeg_data, events_wanted>>
      /\ box_stage = "kHeader"
  BY DEF ReadBoxHeader, jpeg
<1>2. store \in [Meta -> 0..2] /\ metadata \in [Meta -> Seq(Int)]
  BY DEF StoredInv
<1>3. \/ UNCHANGED <<box_stage, store, metadata>>
      \/ /\ store' = [m \in Meta |-> IF m \in StartsStoring(h) THEN 1 ELSE store[m]]
         /\ metadata' = [m \in Meta |-> IF m \in StartsStoring(h) THEN <<>> ELSE metadata[m]]
         /\ box_stage' = IF rejected THEN box_stage ELSE StageOf(h.type)
  BY Zenon DEF ReadBoxHeader, boxes, stored
<1> HIDE DEF h
<1>4. \A m \in Meta : store[m] = 2 => store'[m] = 2 /\ metadata'[m] = metadata[m]
  BY <1>2, <1>3 DEF StartsStoring
<1>5. box_stage' = "kJpegRecon" => "JPEG_RECONSTRUCTION" \in events_wanted
  BY <1>1, <1>3
<1> QED BY <1>1, <1>4, <1>5 DEF ReconInv

LEMMA ReadJpegReconRecon ==
  ASSUME PInv, StoredInv, ReconInv, ReadJpegRecon
  PROVE  ReconInv'
<1> DEFINE d == IF jpeg_decoder.inside_box THEN jpeg_decoder ELSE StartJpegBox(jpeg_decoder)
           bytes == d.buffer \o SubSeq(Input, 1, JpegInput(d))
           kept == [d EXCEPT !.buffer = bytes]
<1>1. /\ pc = "Stage" /\ box_stage = "kJpegRecon" /\ Live
      /\ UNCHANGED <<store, metadata, recon_output_jpeg, ib_jpeg_data>>
  BY LiveFacts DEF ReadJpegRecon, stored
<1>2. \/ /\ recon_size' = HeaderAt(box.begin - file.boxes[box_count].header).expects
         /\ box_stage' = "kHeader" /\ events_wanted' = events_wanted \ {"JPEG_RECONSTRUCTION"}
      \/ /\ jpeg_decoder' = kept /\ UNCHANGED <<recon_size, box_stage, events_wanted>>
  BY Zenon DEF ReadJpegRecon
<1>3. "JPEG_RECONSTRUCTION" \in events_wanted /\ recon_output_jpeg = "kNone"
  BY <1>1 DEF ReconInv
<1>4. CASE /\ recon_size' = HeaderAt(box.begin - file.boxes[box_count].header).expects
           /\ box_stage' = "kHeader" /\ events_wanted' = events_wanted \ {"JPEG_RECONSTRUCTION"}
  <2>0. file.container
    BY <1>1 DEF PInv, StageInv
  <2>1. /\ IsFile(file) /\ box_count \in 1..Len(file.boxes) /\ box.begin = Ends(file)[box_count] - Size
        /\ Len(file.boxes) \in Nat
    BY <1>1, <2>0, BoxFacts, FileBoxes
  <2>2. /\ Ends(file)[box_count - 1] + file.boxes[box_count].header = Ends(file)[box_count] - Size
        /\ Ends(file)[box_count - 1] \in Nat /\ file.boxes[box_count].header \in Nat
    BY <2>1, ContentsFacts DEF Size
  <2>3. box.begin - file.boxes[box_count].header = Ends(file)[box_count - 1]
    BY <2>1, <2>2
  <2>4. box_count - 1 \in 0..Len(file.boxes) - 1 /\ (box_count - 1) + 1 = box_count
    BY <2>1
  <2>5. HeaderAt(Ends(file)[box_count - 1]) = file.boxes[box_count]
    BY <2>0, <2>1, <2>4, HeaderAtEnd
  <2>6. file.boxes[box_count] \in FileBox
    BY <2>1, FileBoxes
  <2>7. recon_size' \in [Meta -> Nat]
    BY <1>4, <2>3, <2>5, <2>6 DEF FileBox
  <2> QED BY <1>1, <1>3, <1>4, <2>7 DEF ReconInv
<1>5. CASE jpeg_decoder' = kept /\ UNCHANGED <<recon_size, box_stage, events_wanted>>
  <2>1. jpeg_decoder \in JpegDecoders /\ box \in BoxRecords
    BY LiveFacts DEF PInv, HeaderInv, BoxRecords
  <2>2. d \in JpegDecoders /\ d.jpeg_data = jpeg_decoder.jpeg_data
    <3>1. CASE jpeg_decoder.inside_box
      BY <2>1, <3>1
    <3>2. CASE ~jpeg_decoder.inside_box
      <4>1. StartJpegBox(jpeg_decoder) \in JpegDecoders
        BY <2>1, StartJpegBoxFacts
      <4>2. StartJpegBox(jpeg_decoder).jpeg_data = jpeg_decoder.jpeg_data
        BY <2>1 DEF StartJpegBox, JpegDecoders
      <4> QED BY <3>2, <4>1, <4>2
    <3> QED BY <3>1, <3>2
  <2> HIDE DEF d, bytes
  <2>3. kept.jpeg_data = d.jpeg_data
    BY <2>2 DEF JpegDecoders
  <2>4. KeepsRecon
    BY <1>1, <1>5, <2>2, <2>3 DEF KeepsRecon
  <2> QED BY <2>4, ReconKept
<1> QED BY <1>2, <1>4, <1>5

LEMMA ReconStep ==
  ASSUME PInv, StoredInv, ReconInv, [Next]_vars
  PROVE  ReconInv'
<1>1. CASE QuietRecon
  BY <1>1, QuietReconStep, ReconKept
<1>2. CASE SetMetadata \/ WriteOutput \/ DecodeFrame
  BY <1>2, SetMetadataRecon
<1>3. CASE StoreMetadata
  BY <1>3, StoreMetadataRecon
<1>4. CASE ReadBoxHeader
  BY <1>4, ReadBoxHeaderRecon
<1>5. CASE ReadJpegRecon
  BY <1>5, ReadJpegReconRecon
<1>6. QuietRecon \/ (SetMetadata \/ WriteOutput \/ DecodeFrame) \/ StoreMetadata \/ ReadBoxHeader \/ ReadJpegRecon
  BY DEF Next, HandleBoxes, Application, Stopped, QuietRecon, CalmBetween
<1> QED BY <1>1, <1>2, <1>3, <1>4, <1>5, <1>6

-----------------------------------------------------------------------------
(* The theorems about contents and metadata. *)

LEMMA InitDInv ==
  ASSUME Init
  PROVE  DInv
<1>1. PICK s \in Sessions : decompress_boxes = s.decompress
  BY DEF Init
<1>2. decompress_boxes \in BOOLEAN
  BY <1>1, SessionsAssumption
<1>3. /\ pc = "Application" /\ status = "" /\ box_stage = "kHeader" /\ box_count = 0
      /\ box_buffer = BoxBuffer0 /\ taken = FALSE
      /\ store = [m \in Meta |-> 0]
      /\ recon_size = [m \in Meta |-> 0] /\ recon_output_jpeg = "kNone"
      /\ jpeg_decoder = Jpeg0 /\ ib_jpeg_data = FALSE
  BY DEF Init
<1>4. PlaceInv
  BY <1>2, <1>3 DEF PlaceInv
<1>5. OutputInv
  BY <1>3 DEF OutputInv, BoxBuffers, BoxBuffer0, AtBoxEvent
<1>6. StoredInv
  <2>1. <<>> \in Seq(Int)
    BY EmptySeq
  <2>2. metadata \in [Meta -> Seq(Int)]
    <3> DEFINE e == <<>>
    <3>1. metadata = [m \in Meta |-> e] /\ e \in Seq(Int)
      BY <2>1 DEF Init
    <3> HIDE DEF e
    <3> QED BY <3>1
  <2>4. store \in [Meta -> 0..2] /\ \A m \in Meta : store[m] = 0
    <3>1. store = [m \in Meta |-> 0]
      BY DEF Init
    <3> QED BY <3>1
  <2>3. \A i \in 1..box_count : FALSE
    <3>1. box_count = 0
      BY DEF Init
    <3> QED BY <3>1
  <2> QED BY <2>2, <2>3, <2>4 DEF StoredInv
<1>7. ReconInv
  BY <1>3 DEF ReconInv, Jpeg0
<1> QED BY <1>4, <1>5, <1>6, <1>7 DEF DInv

\* The contents that JxlBoxContentDecoder::Process() wrote, to the buffers of
\* the application and to the metadata of the JPEG, are at every point of
\* HandleBoxes() what the file holds up to the decoder's own position.
THEOREM ContentsFollowInput == Spec => [](PInv /\ DInv)
<1>1. Init => PInv /\ DInv
  BY InitPInv, InitDInv
<1>2. PInv /\ DInv /\ [Next]_vars => (PInv /\ DInv)'
  <2>1. SUFFICES ASSUME PInv, DInv, [Next]_vars PROVE PInv' /\ DInv'
    OBVIOUS
  <2>2. PlaceInv /\ OutputInv /\ StoredInv /\ ReconInv
    BY <2>1 DEF DInv
  <2>3. PlaceInv' /\ OutputInv' /\ StoredInv'
    BY <2>1, <2>2, ContentsStep
  <2>4. ReconInv'
    BY <2>1, <2>2, ReconStep
  <2> QED BY <2>1, <2>3, <2>4, PInvStep DEF DInv
<1> QED BY <1>1, <1>2, PTL DEF Spec

\* The JPEG is written with all of the first Exif and XMP boxes, or as much as
\* the jbrd box expects of one that extends to the end of the file, wherever
\* they stand and however the input is cut.
THEOREM MetadataCompleteAlways == Spec => []MetadataComplete
<1>1. PInv /\ DInv => MetadataComplete
  <2>1. SUFFICES ASSUME DInv, recon_output_jpeg \in {"kOutputting", "kFinished"}, NEW m \in Meta,
                        recon_size[m] > 0
                 PROVE  /\ Len(metadata[m]) = recon_size[m]
                        /\ IsPrefix(metadata[m], Plain(file, First(m)))
                        /\ ~file.boxes[First(m)].unbounded => metadata[m] = Plain(file, First(m))
    BY DEF MetadataComplete, First
  <2>2. store[m] = 2 /\ Len(metadata[m]) = recon_size[m]
    BY <2>1 DEF DInv, ReconInv
  <2> QED BY <2>1, <2>2 DEF DInv, StoredInv
<1> QED BY <1>1, ContentsFollowInput, PTL

\* The steps after which HandleBoxes() returns JXL_DEC_SUCCESS.
LEMMA SuccessFrom ==
  ASSUME PInv, PlaceInv, pc # "Application", HandleBoxes, status' = "SUCCESS"
  PROVE  AtBoxEnd \/ StartCodestream \/ (SkipBox /\ box.unbounded) \/ (AfterCodestream /\ ~MoreBoxes)
<1>0. status # "SUCCESS"
  BY DEF PlaceInv, Final
<1>1. CASE OutputBox
  <2>1. Goto("StoreMetadata") \/ \E st : st \notin {"SUCCESS", "NEED_MORE_INPUT"} /\ Return(st)
    BY <1>1, Zenon DEF OutputBox
  <2> QED BY <1>0, <2>1, ReturnFacts DEF Goto
<1>2. CASE StoreMetadata
  <2>1. Goto("Reconstruct") \/ Return("ERROR")
    BY <1>2, Zenon DEF StoreMetadata
  <2> QED BY <1>0, <2>1, ReturnFacts DEF Goto
<1>3. CASE SetMetadata \/ WriteOutput \/ NoReconstruction
  <2>1. \/ Goto("Reconstruct") \/ Goto("Stage")
        \/ Return("ERROR") \/ Return("JPEG_NEED_MORE_OUTPUT") \/ Return("FULL_IMAGE")
    BY <1>3 DEF SetMetadata, WriteOutput, NoReconstruction
  <2> QED BY <1>0, <2>1, ReturnFacts DEF Goto
<1>4. CASE ReadBoxHeader
  <2>1. Return("NEED_MORE_INPUT") \/ Return("ERROR") \/ Return("BOX") \/ Continue
    BY <1>4, Zenon DEF ReadBoxHeader
  <2> QED BY <1>0, <2>1, ReturnFacts, ContinueFacts
<1>5. CASE ReadFtyp \/ ReadPartialCodestream \/ CopyAndReadOn
  <2>1. Return("ERROR") \/ Return("NEED_MORE_INPUT") \/ Continue
    BY <1>5 DEF ReadFtyp, ReadPartialCodestream, CopyAndReadOn
  <2> QED BY <1>0, <2>1, ReturnFacts, ContinueFacts
<1>6. CASE ReadJpegRecon
  <2>1. \/ Return("ERROR") \/ Return("NEED_MORE_INPUT") \/ Return("ABORT")
        \/ Return("JPEG_RECONSTRUCTION") \/ Continue
    BY <1>6, Zenon DEF ReadJpegRecon
  <2> QED BY <1>0, <2>1, ReturnFacts, ContinueFacts
<1>7. CASE EnterCodestream \/ ReadHeaders \/ ReturnBasicInfo \/ ReadFrameHeader \/ StartFrame \/ DecodeFrame
           \/ FinishCodestream \/ CodestreamTooShort
  <2>1. UNCHANGED status
    BY <1>7 DEF EnterCodestream, ReadHeaders, ReturnBasicInfo, ReadFrameHeader, StartFrame, DecodeFrame,
       FinishCodestream, CodestreamTooShort, Goto, CodestreamResult
  <2> QED BY <1>0, <2>1
<1>8. CASE CodestreamEvent
  <2>1. result # "SUCCESS" /\ (Continue \/ Return(result))
    BY <1>8 DEF CodestreamEvent
  <2> QED BY <1>0, <2>1, ReturnFacts, ContinueFacts
<1>9. CASE SkipBox
  <2>1. box.unbounded \/ Return("NEED_MORE_INPUT") \/ Continue
    BY <1>9 DEF SkipBox
  <2> QED BY <1>0, <1>9, <2>1, ReturnFacts, ContinueFacts
<1>10. CASE AfterCodestream
  <2>1. ~MoreBoxes \/ Continue
    BY <1>10 DEF AfterCodestream
  <2> QED BY <1>0, <1>10, <2>1, ContinueFacts
<1>11. CASE AtBoxEnd \/ StartCodestream
  BY <1>11
<1> QED BY <1>1, <1>2, <1>3, <1>4, <1>5, <1>6, <1>7, <1>8, <1>9, <1>10, <1>11 DEF HandleBoxes

LEMMA CountKept ==
  ASSUME Next, box_count' # box_count
  PROVE  ReadBoxHeader
<1>1. CASE ProcessInput \/ Application \/ Stopped
  BY <1>1 DEF ProcessInput, Application, Stopped, vars, SetInput, ReleaseInput, CloseInput, SetBoxBuffer,
     SetJPEGBuffer, ReleaseBoxBuffer, ReleaseJPEGBuffer, SetImageOutBuffer, boxes
<1>2. CASE HandleBoxes
  <2>1. CASE CalmInCall
    BY <2>1, CalmInCallKeeps
  <2>2. CASE MovesOn
    BY <2>2, MovesOnKeeps
  <2>3. CASE OutputBox \/ StoreMetadata \/ StartCodestream
    BY <2>3 DEF OutputBox, StoreMetadata, StartCodestream, boxes
  <2> QED BY <1>2, <2>1, <2>2, <2>3 DEF HandleBoxes, CalmInCall, MovesOn
<1> QED BY <1>1, <1>2 DEF Next

LEMMA OutputComplete ==
  ASSUME PInv, DInv, Next, taken, pc # "Application", BoxEnds, sent = FileSize(file),
         box.unbounded => box_stage = "kSkip"
  PROVE  box_out = Expected(file, box_count)
<1>1. /\ PlaceInv /\ Live /\ decompress_boxes \in BOOLEAN
      /\ file.container /\ box_count > 0 /\ "BOX" \in events_wanted
      /\ box_stage # "kHeader" =>
           Reads(box_content_decoder, box_out, decompress_boxes /\ IsBrob, box, Size, file_pos, sent)
      /\ box_stage = "kHeader" => box_out = Expected(file, box_count)
      /\ box_stage # "kHeader" /\ pc \in AfterOutput => Done(box_content_decoder, box, Size, sent)
  BY LiveFacts DEF DInv, OutputInv, PlaceInv, Tracks, CaughtUp
<1>2. HandleBoxes
  BY DEF Next, ProcessInput, Application, Stopped, SetInput, ReleaseInput, CloseInput, SetBoxBuffer,
     SetJPEGBuffer, ReleaseBoxBuffer, ReleaseJPEGBuffer, SetImageOutBuffer, Between
<1>3. CASE box_count' # box_count
  BY <1>1, <1>3, CountKept DEF ReadBoxHeader
<1>4. CASE status' = "SUCCESS"
  <2>1. AtBoxEnd \/ StartCodestream \/ (SkipBox /\ box.unbounded) \/ (AfterCodestream /\ ~MoreBoxes)
    BY <1>1, <1>2, <1>4, SuccessFrom
  <2>2. CASE AtBoxEnd
    BY <1>1, <2>2 DEF AtBoxEnd
  <2>3. ~StartCodestream
    BY <1>1 DEF StartCodestream, PInv, HeaderInv
  <2>4. CASE SkipBox /\ box.unbounded
    <3>1. pc = "Stage" /\ box_stage = "kSkip" /\ box.unbounded
      BY <2>4 DEF SkipBox
    <3>2. /\ IsFile(file) /\ box_count \in 1..Len(file.boxes) /\ box \in BoxRecords /\ Size \in Nat
          /\ box.begin = Ends(file)[box_count] - Size /\ box.begin + Size = Ends(file)[box_count]
          /\ sent \in Nat /\ sent <= box.begin + Size
      BY <1>1, <3>1, BoxFacts
    <3>3. /\ Reads(box_content_decoder, box_out, decompress_boxes /\ IsBrob, box, Size, file_pos, sent)
          /\ Done(box_content_decoder, box, Size, sent)
      BY <1>1, <3>1 DEF AfterOutput
    <3>4. sent = box.begin + Size
      <4>1. Cur = box_count /\ Ends(file)[Cur] = FileSize(file)
        BY <1>1, <3>1, CurFacts
      <4> QED BY <3>2, <4>1
    <3>5. (decompress_boxes /\ IsBrob) \in BOOLEAN
      BY <1>1 DEF IsBrob
    <3> DEFINE brob == decompress_boxes /\ IsBrob
    <3>6. Text(box.begin, brob, Size) = Expected(file, box_count)
      BY <1>1, <3>2, ExpectedText
    <3>7. /\ Reads(box_content_decoder, box_out, brob, box, Size, file_pos, sent) /\ brob \in BOOLEAN
          /\ sent <= sent /\ sent <= box.begin + Size
      BY <3>2, <3>3, <3>5
    <3> HIDE DEF brob
    <3>8. box_out = Text(box.begin, brob, Size)
      BY <3>2, <3>3, <3>4, <3>7, ReadsAll
    <3> QED BY <3>6, <3>8
  <2>5. CASE AfterCodestream /\ ~MoreBoxes
    <3>1. box_stage = "kCodestream"
      BY <2>5, LiveFacts DEF AfterCodestream
    <3>2. ~box.unbounded
      BY <3>1
    <3> QED BY <1>1, <2>5, <3>2 DEF MoreBoxes
  <2> QED BY <2>1, <2>2, <2>3, <2>4, <2>5
<1> QED BY <1>3, <1>4 DEF BoxEnds

\* An application that gives a buffer whenever HandleBoxes() asks for one has
\* all of a box, decompressed if it wanted that, when the next box or the end
\* of the file is reached.
THEOREM BoxOutputCompleteAlways == Spec => BoxOutputComplete
<1>1. PInv /\ DInv /\ [Next]_vars =>
        [ taken /\ pc # "Application" /\ BoxEnds /\ sent = FileSize(file)
            /\ (box.unbounded => box_stage = "kSkip")
          => box_out = Expected(file, box_count) ]_vars
  BY OutputComplete
<1>2. Spec => [][Next]_vars
  BY PTL DEF Spec
<1> QED BY <1>1, <1>2, ContentsFollowInput, PTL DEF BoxOutputComplete

-----------------------------------------------------------------------------
(* The events that were returned. *)

\* How often each event was returned.
Returned == [e \in Events |-> Count(e)]

\* JxlDecoderProcessCodestream() has an event for HandleBoxes() to return.
Pending(e) == pc = "CodestreamResult" /\ result = e
CodestreamStatuses ==
  {"BASIC_INFO", "FRAME", "FULL_IMAGE", "NEED_IMAGE_OUT_BUFFER", "SUCCESS", "NEED_MORE_INPUT"}
HeadersProgress == {"start", "basic_info"}
FrameProgress == {"kTOC", "kFull", "last"}

WantedInv ==
  /\ orig_events_wanted \subseteq Events /\ events_wanted \subseteq orig_events_wanted
  /\ \A e \in {"BOX", "FRAME", "FULL_IMAGE"} : e \in orig_events_wanted => e \in events_wanted
  /\ events \in Seq(Events)
  /\ pc = "CodestreamResult" => result \in CodestreamStatuses
  /\ progress \in HeadersProgress \cup {"kHeader"} \cup FrameProgress

\* An event that is wanted once is no longer wanted when it was returned.
OnceInv ==
  /\ "BASIC_INFO" \in events_wanted => Returned["BASIC_INFO"] = 0 /\ ~Pending("BASIC_INFO")
  /\ Pending("BASIC_INFO") => Returned["BASIC_INFO"] = 0
  /\ Returned["BASIC_INFO"] <= 1
  /\ "BASIC_INFO" \in orig_events_wanted \ events_wanted =>
       Returned["BASIC_INFO"] = 1 \/ Pending("BASIC_INFO")
  /\ progress \notin HeadersProgress => "BASIC_INFO" \notin events_wanted
  /\ "JPEG_RECONSTRUCTION" \in events_wanted => Returned["JPEG_RECONSTRUCTION"] = 0
  /\ Returned["JPEG_RECONSTRUCTION"] <= 1

\* The frame is returned once, when its header was read.
FrameInv ==
  /\ progress \notin FrameProgress => Returned["FRAME"] = 0 /\ ~Pending("FRAME")
  /\ Pending("FRAME") => Returned["FRAME"] = 0
  /\ Returned["FRAME"] <= 1
  /\ progress \in FrameProgress /\ "FRAME" \in orig_events_wanted => Returned["FRAME"] = 1 \/ Pending("FRAME")

\* The image is returned once, by JxlDecoderProcessCodestream() or when the JPEG
\* is written.
ImageInv ==
  /\ progress # "last" =>
       Returned["FULL_IMAGE"] = 0 /\ ~Pending("FULL_IMAGE") /\ recon_output_jpeg = "kNone"
  /\ progress = "kFull" => "FULL_IMAGE" \in orig_events_wanted
  /\ Pending("FULL_IMAGE") =>
       Returned["FULL_IMAGE"] = 0 /\ recon_output_jpeg \in {"kNone", "kSettingMetadata"}
  /\ recon_output_jpeg \in {"kSettingMetadata", "kOutputting"} =>
       Returned["FULL_IMAGE"] = 0 /\ "FULL_IMAGE" \in orig_events_wanted
  /\ recon_output_jpeg = "kFinished" => Returned["FULL_IMAGE"] = 1
  /\ /\ progress = "last" /\ "FULL_IMAGE" \in orig_events_wanted
     /\ recon_output_jpeg = "kNone" /\ ~Pending("FULL_IMAGE")
     => Returned["FULL_IMAGE"] = 1
  /\ Returned["FULL_IMAGE"] <= 1

\* Past the reconstruction a JPEG that is not written waits for metadata.
Written == recon_output_jpeg \in {"kNone", "kFinished"}
WaitingInv ==
  pc \in {"Stage", "Codestream"} \/ (pc = "CodestreamResult" /\ result # "FULL_IMAGE") =>
    Written \/ JbrdNeedMoreBoxes

\* Every box that was read was returned, and success is the end of the file.
AllBoxes == "BOX" \in orig_events_wanted /\ file.container /\ sent = FileSize(file)
DoneInv ==
  /\ (Live \/ status = "SUCCESS") /\ "BOX" \in orig_events_wanted => Returned["BOX"] = box_count
  /\ stage = "kCodestreamFinished" => progress = "last" \/ (progress = "kHeader" /\ ~FramesWanted)
  /\ status = "SUCCESS" => /\ stage = "kCodestreamFinished" /\ Written
                           /\ AllBoxes => box_count = Len(file.boxes)

EInv == WantedInv /\ OnceInv /\ FrameInv /\ ImageInv /\ WaitingInv /\ DoneInv

Occurrences(s, e) == Cardinality({k \in DOMAIN s : s[k] = e})

LEMMA CountType ==
  ASSUME NEW s \in Seq(Events), NEW e
  PROVE  /\ IsFiniteSet({k \in DOMAIN s : s[k] = e})
         /\ Occurrences(s, e) \in Nat
<1>1. Len(s) \in Nat /\ DOMAIN s = 1..Len(s)
  BY LenProperties
<1>2. IsFiniteSet(1..Len(s))
  BY <1>1, FS_Interval
<1>3. {k \in DOMAIN s : s[k] = e} \subseteq 1..Len(s)
  BY <1>1
<1>4. IsFiniteSet({k \in DOMAIN s : s[k] = e})
  BY <1>2, <1>3, FS_Subset
<1> QED BY <1>4, FS_CardinalityType DEF Occurrences

\* What one more event changes.
LEMMA CountAppend ==
  ASSUME NEW s \in Seq(Events), NEW st \in Events, NEW e
  PROVE  Occurrences(Append(s, st), e) = IF st = e THEN Occurrences(s, e) + 1 ELSE Occurrences(s, e)
<1> DEFINE t == Append(s, st)
           S == {k \in DOMAIN s : s[k] = e}
           T == {k \in DOMAIN t : t[k] = e}
<1>1. Len(s) \in Nat /\ DOMAIN s = 1..Len(s)
  BY LenProperties
<1>2. /\ t \in Seq(Events) /\ Len(t) = Len(s) + 1 /\ t[Len(s) + 1] = st
      /\ \A k \in 1..Len(s) : t[k] = s[k]
  BY AppendProperties
<1>3. DOMAIN t = 1..(Len(s) + 1)
  BY <1>2, LenProperties
<1>4. IsFiniteSet(S)
  BY CountType
<1>5. Len(s) + 1 \notin S
  BY <1>1
<1> HIDE DEF t
<1>6. CASE st = e
  <2>1. T = S \cup {Len(s) + 1}
    BY <1>1, <1>2, <1>3, <1>6
  <2>2. Cardinality(T) = Cardinality(S) + 1
    <3>1. Cardinality(S \cup {Len(s) + 1}) = Cardinality(S) + 1
      BY <1>4, <1>5, FS_AddElement
    <3> QED BY <2>1, <3>1
  <2> QED BY <1>6, <2>2 DEF t, Occurrences
<1>7. CASE st # e
  <2>1. T = S
    BY <1>1, <1>2, <1>3, <1>7
  <2>2. Cardinality(T) = Cardinality(S)
    BY <2>1
  <2> QED BY <1>7, <2>2 DEF t, Occurrences
<1> QED BY <1>6, <1>7

\* What a step that returns an event, or none, does to the numbers.
LEMMA ReturnedFacts ==
  ASSUME events \in Seq(Events)
  PROVE  /\ Returned \in [Events -> Nat]
         /\ events' = events => Returned' = Returned
         /\ \A st \in Events : events' = Append(events, st) =>
              /\ \A e \in Events : Returned'[e] = IF st = e THEN Returned[e] + 1 ELSE Returned[e]
              /\ events' \in Seq(Events)
<1>1. \A e \in Events : Count(e) \in Nat
  BY CountType DEF Count, Occurrences
<1>2. Returned \in [Events -> Nat]
  BY <1>1 DEF Returned
<1>3. ASSUME events' = events PROVE Returned' = Returned
  BY <1>3 DEF Returned, Count
<1>4. ASSUME NEW st \in Events, events' = Append(events, st)
      PROVE  /\ \A e \in Events : Returned'[e] = IF st = e THEN Returned[e] + 1 ELSE Returned[e]
             /\ events' \in Seq(Events)
  <2>1. events' \in Seq(Events)
    BY <1>4, AppendProperties
  <2>2. ASSUME NEW e \in Events PROVE Returned'[e] = IF st = e THEN Returned[e] + 1 ELSE Returned[e]
    <3>1. Returned'[e] = Occurrences(Append(events, st), e)
      BY <1>4, <2>2 DEF Returned, Count, Occurrences
    <3>2. Returned[e] = Occurrences(events, e)
      BY <2>2 DEF Returned, Count, Occurrences
    <3>3. Occurrences(Append(events, st), e)
            = IF st = e THEN Occurrences(events, e) + 1 ELSE Occurrences(events, e)
      BY <1>4, CountAppend
    <3> QED BY <3>1, <3>2, <3>3, Zenon
  <2> QED BY <2>1, <2>2
<1> QED BY <1>2, <1>3, <1>4

LEMMA ReturnEvents ==
  ASSUME NEW st, Return(st)
  PROVE  /\ pc' = "Application" /\ UNCHANGED result
         /\ st \in Events => events' = Append(events, st) /\ status' = st
         /\ st \notin Events => UNCHANGED events
BY DEF Return, Checked, Events

LEMMA ProcessResult ==
  ASSUME NEW d, NEW room
  PROVE  Process(d, room).result \in {"SUCCESS", "NEED_MORE_INPUT", "BOX_NEED_MORE_OUTPUT", "ERROR"}
<1> DEFINE Answers == {"SUCCESS", "NEED_MORE_INPUT", "BOX_NEED_MORE_OUTPUT", "ERROR"}
<1>1. ASSUME NEW a, NEW b, NEW c PROVE ReadRaw(a, b, c).result \in Answers
  BY DEF ReadRaw
<1>2. ASSUME NEW a, NEW b, NEW c PROVE BrotliDecompress(a, b, c).result \in Answers
  BY DEF BrotliDecompress
<1> QED BY <1>1, <1>2 DEF Process

CodestreamEvents == {"BASIC_INFO", "FRAME", "FULL_IMAGE"}
EventsInv == WantedInv /\ OnceInv /\ FrameInv /\ ImageInv

\* A step that returns no event.
Silent ==
  /\ UNCHANGED <<orig_events_wanted, events_wanted, progress, recon_output_jpeg, events>>
  /\ pc = "CodestreamResult" => result \notin CodestreamEvents
  /\ pc' = "CodestreamResult" => result' \in CodestreamStatuses \ CodestreamEvents

LEMMA SilentKept ==
  ASSUME EventsInv, Silent
  PROVE  EventsInv'
<1>1. Returned' = Returned
  BY ReturnedFacts DEF EventsInv, WantedInv, Silent
<1>2. \A e \in CodestreamEvents : ~Pending(e) /\ ~Pending(e)'
  BY DEF Silent, Pending
<1>3. WantedInv'
  BY DEF EventsInv, WantedInv, Silent
<1>4. OnceInv'
  BY <1>1 DEF EventsInv, OnceInv, Silent, Pending, CodestreamEvents
<1>5. FrameInv'
  BY <1>1 DEF EventsInv, FrameInv, Silent, Pending, CodestreamEvents
<1>6. ImageInv'
  BY <1>1 DEF EventsInv, ImageInv, Silent, Pending, CodestreamEvents
<1> QED BY <1>3, <1>4, <1>5, <1>6 DEF EventsInv

SilentInCall ==
  \/ OutputBox \/ StoreMetadata \/ NoReconstruction \/ StartCodestream \/ AtBoxEnd \/ ReadFtyp
  \/ ReadPartialCodestream \/ SkipBox \/ EnterCodestream \/ FinishCodestream \/ CodestreamTooShort
  \/ CopyAndReadOn \/ AfterCodestream

LEMMA SilentInCallStep ==
  ASSUME SilentInCall
  PROVE  Silent /\ pc # "Application"
<1> USE DEF settings, jpeg, codestream, seen, DecodingCodestream
<1>1. /\ UNCHANGED <<orig_events_wanted, events_wanted, progress, recon_output_jpeg>>
      /\ pc # "Application" /\ (pc = "CodestreamResult" => result \notin CodestreamEvents)
  BY DEF SilentInCall, OutputBox, StoreMetadata, NoReconstruction, StartCodestream, AtBoxEnd, ReadFtyp,
     ReadPartialCodestream, SkipBox, EnterCodestream, FinishCodestream, CodestreamTooShort,
     CopyAndReadOn, AfterCodestream, CodestreamEvents
<1>2. UNCHANGED events /\ (pc' = "CodestreamResult" => result' \in CodestreamStatuses \ CodestreamEvents)
  <2>1. CASE OutputBox
    <3>1. \/ Goto("StoreMetadata")
          \/ Return(Process(box_content_decoder, box_buffer.size - box_buffer.pos).result)
      BY <2>1, Zenon DEF OutputBox
    <3> QED BY <3>1, ProcessResult, ReturnEvents DEF Goto, Events
  <2>2. CASE StoreMetadata
    <3>1. Goto("Reconstruct") \/ Return("ERROR")
      BY <2>2, Zenon DEF StoreMetadata
    <3> QED BY <3>1, ReturnEvents DEF Goto, Events
  <2>3. CASE NoReconstruction \/ EnterCodestream
    BY <2>3 DEF NoReconstruction, EnterCodestream, Goto
  <2>4. CASE StartCodestream \/ AtBoxEnd \/ ReadFtyp \/ ReadPartialCodestream \/ SkipBox \/ CopyAndReadOn
             \/ AfterCodestream
    <3>1. Return("ERROR") \/ Return("NEED_MORE_INPUT") \/ Return("SUCCESS") \/ Continue
      BY <2>4 DEF StartCodestream, AtBoxEnd, ReadFtyp, ReadPartialCodestream, SkipBox, CopyAndReadOn,
         AfterCodestream
    <3> QED BY <3>1, ReturnEvents, ContinueFacts DEF Events
  <2>5. CASE FinishCodestream \/ CodestreamTooShort
    BY <2>5 DEF FinishCodestream, CodestreamTooShort, CodestreamResult, CodestreamStatuses, CodestreamEvents
  <2> QED BY <2>1, <2>2, <2>3, <2>4, <2>5 DEF SilentInCall
<1> QED BY <1>1, <1>2 DEF Silent

SilentBetween ==
  \/ CalmBetween \/ (\E size \in BoxBufferSizes : SetBoxBuffer(size)) \/ ReleaseBoxBuffer

LEMMA SilentBetweenStep ==
  ASSUME SilentBetween
  PROVE  /\ Silent /\ Between
         /\ UNCHANGED <<pc, status, result, file, box_count, stage, store, recon_size>>
<1> USE DEF application, settings, boxes, stored, jpeg, codestream, seen, Between
<1>1. /\ UNCHANGED <<orig_events_wanted, events_wanted, progress, recon_output_jpeg, events, pc, status,
                     result, file, box_count, stage, store, recon_size>>
      /\ Between
  <2>1. CASE CalmBetween
    BY <2>1 DEF CalmBetween, SetInput, ReleaseInput, CloseInput, SetJPEGBuffer, ReleaseJPEGBuffer,
       SetImageOutBuffer
  <2>2. CASE (\E size \in BoxBufferSizes : SetBoxBuffer(size)) \/ ReleaseBoxBuffer
    BY <2>2 DEF SetBoxBuffer, ReleaseBoxBuffer
  <2> QED BY <2>1, <2>2 DEF SilentBetween
<1> QED BY <1>1 DEF Silent

LEMMA SilentProcessInput ==
  ASSUME ProcessInput
  PROVE  Silent /\ UNCHANGED <<file, box_count, store, recon_size>> /\ pc = "Application" /\ status \notin Final
<1> USE DEF application, settings, boxes, stored, jpeg, codestream
<1>1. /\ UNCHANGED <<orig_events_wanted, events_wanted, progress, recon_output_jpeg, file, box_count,
                     store, recon_size>>
      /\ pc = "Application" /\ status \notin Final
  BY DEF ProcessInput, Final
<1>2. Return("ERROR") \/ Return("NEED_MORE_INPUT") \/ Continue
  BY DEF ProcessInput
<1>3. UNCHANGED events /\ pc' # "CodestreamResult"
  BY <1>2, ReturnEvents, ContinueFacts DEF Events
<1> QED BY <1>1, <1>3 DEF Silent

-----------------------------------------------------------------------------
(* Steps that return events or prepare them. *)

LEMMA EventTypes ==
  ASSUME EventsInv
  PROVE  /\ Returned \in [Events -> Nat] /\ events \in Seq(Events)
         /\ "BASIC_INFO" \in Events /\ "FRAME" \in Events /\ "FULL_IMAGE" \in Events
         /\ "BOX" \in Events /\ "JPEG_RECONSTRUCTION" \in Events
BY ReturnedFacts DEF EventsInv, WantedInv, Events

LEMMA ReadHeadersEvents ==
  ASSUME EventsInv, ReadHeaders
  PROVE  EventsInv'
<1>1. /\ UNCHANGED <<orig_events_wanted, events_wanted, recon_output_jpeg, events>>
      /\ pc = "Codestream" /\ pc' = "Codestream"
      /\ \/ progress = "start" /\ progress' = "basic_info"
         \/ progress = "basic_info" /\ "BASIC_INFO" \notin events_wanted /\ progress' = "kHeader"
  BY DEF ReadHeaders, DecodingCodestream, settings, jpeg, Goto
<1>2. Returned' = Returned
  BY <1>1, ReturnedFacts DEF EventsInv, WantedInv
<1>3. WantedInv'
  BY <1>1 DEF EventsInv, WantedInv, HeadersProgress
<1>4. OnceInv'
  BY <1>1, <1>2 DEF EventsInv, OnceInv, Pending, HeadersProgress
<1>5. FrameInv'
  BY <1>1, <1>2 DEF EventsInv, FrameInv, Pending, FrameProgress
<1>6. ImageInv'
  BY <1>1, <1>2 DEF EventsInv, ImageInv, Pending
<1> QED BY <1>3, <1>4, <1>5, <1>6 DEF EventsInv

LEMMA ReturnBasicInfoEvents ==
  ASSUME EventsInv, ReturnBasicInfo
  PROVE  EventsInv'
<1>1. /\ UNCHANGED <<orig_events_wanted, progress, recon_output_jpeg, events>>
      /\ pc = "Codestream" /\ pc' = "CodestreamResult" /\ result' = "BASIC_INFO"
      /\ progress = "basic_info" /\ "BASIC_INFO" \in events_wanted
      /\ events_wanted' = events_wanted \ {"BASIC_INFO"}
  BY DEF ReturnBasicInfo, DecodingCodestream, settings, jpeg, CodestreamResult
<1>2. Returned' = Returned
  BY <1>1, ReturnedFacts DEF EventsInv, WantedInv
<1>3. WantedInv'
  BY <1>1 DEF EventsInv, WantedInv, CodestreamStatuses
<1>4. OnceInv'
  BY <1>1, <1>2 DEF EventsInv, OnceInv, Pending, HeadersProgress
<1>5. FrameInv'
  BY <1>1, <1>2 DEF EventsInv, FrameInv, Pending, FrameProgress
<1>6. ImageInv'
  BY <1>1, <1>2 DEF EventsInv, ImageInv, Pending
<1> QED BY <1>3, <1>4, <1>5, <1>6 DEF EventsInv

LEMMA ReadFrameHeaderEvents ==
  ASSUME EventsInv, ReadFrameHeader
  PROVE  EventsInv'
<1>1. /\ UNCHANGED <<orig_events_wanted, events_wanted, recon_output_jpeg, events>>
      /\ pc = "Codestream" /\ progress = "kHeader" /\ progress' = "kTOC"
      /\ IF "FRAME" \in events_wanted THEN pc' = "CodestreamResult" /\ result' = "FRAME"
                                      ELSE pc' = "Codestream"
  BY DEF ReadFrameHeader, DecodingCodestream, settings, jpeg, CodestreamResult, Goto
<1>2. Returned' = Returned
  BY <1>1, ReturnedFacts DEF EventsInv, WantedInv
<1>3. WantedInv'
  BY <1>1 DEF EventsInv, WantedInv, CodestreamStatuses, FrameProgress
<1>4. OnceInv'
  BY <1>1, <1>2 DEF EventsInv, OnceInv, Pending, HeadersProgress
<1>5. FrameInv'
  BY <1>1, <1>2 DEF EventsInv, FrameInv, Pending, FrameProgress, WantedInv
<1>6. ImageInv'
  BY <1>1, <1>2 DEF EventsInv, ImageInv, Pending
<1> QED BY <1>3, <1>4, <1>5, <1>6 DEF EventsInv

LEMMA StartFrameEvents ==
  ASSUME EventsInv, StartFrame
  PROVE  EventsInv'
<1>1. /\ UNCHANGED <<orig_events_wanted, events_wanted, recon_output_jpeg, events>>
      /\ pc = "Codestream" /\ pc' = "Codestream" /\ progress = "kTOC"
      /\ progress' = IF "FULL_IMAGE" \in events_wanted THEN "kFull" ELSE "last"
  BY DEF StartFrame, DecodingCodestream, settings, jpeg, CodestreamResult, Goto
<1>2. Returned' = Returned
  BY <1>1, ReturnedFacts DEF EventsInv, WantedInv
<1>3. WantedInv'
  BY <1>1 DEF EventsInv, WantedInv, CodestreamStatuses, FrameProgress
<1>4. OnceInv'
  BY <1>1, <1>2 DEF EventsInv, OnceInv, Pending, HeadersProgress
<1>5. FrameInv'
  BY <1>1, <1>2 DEF EventsInv, FrameInv, Pending, FrameProgress
<1>6. ImageInv'
  BY <1>1, <1>2 DEF EventsInv, ImageInv, Pending, WantedInv
<1> QED BY <1>3, <1>4, <1>5, <1>6 DEF EventsInv

LEMMA DecodeFrameEvents ==
  ASSUME EventsInv, DecodeFrame
  PROVE  EventsInv'
<1>1. /\ UNCHANGED <<orig_events_wanted, events>>
      /\ pc = "Codestream" /\ pc' = "CodestreamResult" /\ progress = "kFull"
      /\ \/ /\ UNCHANGED <<progress, events_wanted, recon_output_jpeg>>
            /\ result' = "NEED_IMAGE_OUT_BUFFER"
         \/ /\ progress' = "last" /\ result' = "FULL_IMAGE"
            /\ events_wanted' = events_wanted \cup (orig_events_wanted \cap {"FULL_IMAGE", "FRAME"})
            /\ recon_output_jpeg' \in {recon_output_jpeg, "kSettingMetadata"}
  BY DEF DecodeFrame, DecodingCodestream, settings, jpeg, CodestreamResult, Goto
<1>2. Returned' = Returned
  BY <1>1, ReturnedFacts DEF EventsInv, WantedInv
<1>3. WantedInv'
  BY <1>1 DEF EventsInv, WantedInv, CodestreamStatuses, FrameProgress
<1>4. OnceInv'
  BY <1>1, <1>2 DEF EventsInv, OnceInv, Pending, HeadersProgress
<1>5. FrameInv'
  BY <1>1, <1>2 DEF EventsInv, FrameInv, Pending, FrameProgress
<1>6. ImageInv'
  BY <1>1, <1>2 DEF EventsInv, ImageInv, Pending
<1> QED BY <1>3, <1>4, <1>5, <1>6 DEF EventsInv

\* The step that returns what JxlDecoderProcessCodestream() had.
LEMMA CodestreamEventEvents ==
  ASSUME EventsInv, CodestreamEvent
  PROVE  EventsInv'
<1>1. /\ UNCHANGED <<orig_events_wanted, events_wanted, progress, recon_output_jpeg>>
      /\ pc = "CodestreamResult" /\ result \notin {"SUCCESS", "NEED_MORE_INPUT"}
      /\ \/ result = "FULL_IMAGE" /\ recon_output_jpeg # "kNone" /\ Continue
         \/ ~(result = "FULL_IMAGE" /\ recon_output_jpeg # "kNone") /\ Return(result)
  BY DEF CodestreamEvent, settings, jpeg, codestream, seen
<1>2. result \in CodestreamEvents \cup {"NEED_IMAGE_OUT_BUFFER"} /\ pc' # "CodestreamResult"
  BY <1>1, ReturnEvents, ContinueFacts DEF EventsInv, WantedInv, CodestreamStatuses, CodestreamEvents
<1>3. \/ Returned' = Returned /\ events' = events
         /\ \/ result = "NEED_IMAGE_OUT_BUFFER"
            \/ result = "FULL_IMAGE" /\ recon_output_jpeg # "kNone"
      \/ /\ \A e \in Events : Returned'[e] = IF result = e THEN Returned[e] + 1 ELSE Returned[e]
         /\ events' \in Seq(Events) /\ result \in CodestreamEvents
         /\ ~(result = "FULL_IMAGE" /\ recon_output_jpeg # "kNone")
  <2>1. CASE result = "FULL_IMAGE" /\ recon_output_jpeg # "kNone"
    BY <1>1, <2>1, ContinueFacts, ReturnedFacts, EventTypes
  <2>2. CASE result = "NEED_IMAGE_OUT_BUFFER"
    BY <1>1, <2>2, ReturnEvents, ReturnedFacts, EventTypes DEF Events
  <2>3. CASE result \in CodestreamEvents /\ ~(result = "FULL_IMAGE" /\ recon_output_jpeg # "kNone")
    <3>1. events' = Append(events, result) /\ result \in Events
      BY <1>1, <2>3, ReturnEvents DEF Events, CodestreamEvents
    <3> QED BY <2>3, <3>1, ReturnedFacts, EventTypes
  <2> QED BY <1>2, <2>1, <2>2, <2>3
<1>4. WantedInv'
  BY <1>1, <1>2, <1>3 DEF EventsInv, WantedInv
<1>5. OnceInv'
  <2>1. /\ Returned'["BASIC_INFO"] = IF result = "BASIC_INFO" THEN Returned["BASIC_INFO"] + 1
                                     ELSE Returned["BASIC_INFO"]
        /\ Returned'["JPEG_RECONSTRUCTION"] = Returned["JPEG_RECONSTRUCTION"]
        /\ Returned["BASIC_INFO"] \in Nat
    BY <1>2, <1>3, EventTypes DEF CodestreamEvents
  <2> QED BY <1>1, <1>2, <2>1 DEF EventsInv, OnceInv, Pending
<1>6. FrameInv'
  BY <1>1, <1>2, <1>3, EventTypes DEF EventsInv, FrameInv, Pending, CodestreamEvents
<1>7. ImageInv'
  BY <1>1, <1>2, <1>3, EventTypes DEF EventsInv, ImageInv, Pending, CodestreamEvents
<1> QED BY <1>4, <1>5, <1>6, <1>7 DEF EventsInv

LEMMA SetMetadataEvents ==
  ASSUME EventsInv, SetMetadata
  PROVE  EventsInv'
<1>1. /\ UNCHANGED <<orig_events_wanted, events_wanted, progress>>
      /\ pc = "Reconstruct" /\ recon_output_jpeg = "kSettingMetadata"
      /\ recon_output_jpeg' \in {"kSettingMetadata", "kOutputting"}
      /\ Goto("Reconstruct") \/ Return("ERROR")
  BY DEF SetMetadata, settings, codestream, seen
<1>2. UNCHANGED events /\ pc' # "CodestreamResult"
  BY <1>1, ReturnEvents DEF Goto, Events
<1>3. Returned' = Returned
  BY <1>2, ReturnedFacts, EventTypes
<1>4. WantedInv'
  BY <1>1, <1>2 DEF EventsInv, WantedInv
<1>5. OnceInv'
  BY <1>1, <1>2, <1>3 DEF EventsInv, OnceInv, Pending
<1>6. FrameInv'
  BY <1>1, <1>2, <1>3 DEF EventsInv, FrameInv, Pending
<1>7. ImageInv'
  BY <1>1, <1>2, <1>3 DEF EventsInv, ImageInv, Pending
<1> QED BY <1>4, <1>5, <1>6, <1>7 DEF EventsInv

LEMMA WriteOutputEvents ==
  ASSUME EventsInv, WriteOutput
  PROVE  EventsInv'
<1>1. /\ UNCHANGED <<orig_events_wanted, events_wanted, progress>>
      /\ pc = "Reconstruct" /\ recon_output_jpeg = "kOutputting"
      /\ \/ recon_output_jpeg' = recon_output_jpeg /\ Return("JPEG_NEED_MORE_OUTPUT")
         \/ /\ recon_output_jpeg' = "kFinished"
            /\ IF "FULL_IMAGE" \in events_wanted THEN Return("FULL_IMAGE") ELSE Goto("Stage")
  BY DEF WriteOutput, settings, codestream, seen, jpeg
<1>2. /\ "FULL_IMAGE" \in events_wanted /\ "FULL_IMAGE" \in orig_events_wanted /\ progress = "last"
      /\ Returned["FULL_IMAGE"] = 0
  BY <1>1 DEF EventsInv, ImageInv, WantedInv
<1>3. /\ pc' = "Application"
      /\ \/ recon_output_jpeg' = recon_output_jpeg /\ Returned' = Returned /\ events' = events
         \/ /\ recon_output_jpeg' = "kFinished" /\ events' \in Seq(Events)
            /\ \A e \in Events : Returned'[e] = IF "FULL_IMAGE" = e THEN Returned[e] + 1 ELSE Returned[e]
  <2>1. CASE recon_output_jpeg' = recon_output_jpeg /\ Return("JPEG_NEED_MORE_OUTPUT")
    BY <2>1, ReturnEvents, ReturnedFacts, EventTypes DEF Events
  <2>2. CASE recon_output_jpeg' = "kFinished" /\ Return("FULL_IMAGE")
    BY <2>2, ReturnEvents, ReturnedFacts, EventTypes
  <2> QED BY <1>1, <1>2, <2>1, <2>2
<1>4. WantedInv'
  BY <1>1, <1>3 DEF EventsInv, WantedInv
<1>5. OnceInv'
  BY <1>1, <1>3, EventTypes DEF EventsInv, OnceInv, Pending
<1>6. FrameInv'
  BY <1>1, <1>3, EventTypes DEF EventsInv, FrameInv, Pending
<1>7. ImageInv'
  BY <1>1, <1>2, <1>3, EventTypes DEF EventsInv, ImageInv, Pending
<1> QED BY <1>4, <1>5, <1>6, <1>7 DEF EventsInv

LEMMA ReadJpegReconEvents ==
  ASSUME EventsInv, ReadJpegRecon
  PROVE  EventsInv'
<1>1. /\ UNCHANGED <<orig_events_wanted, progress, recon_output_jpeg>> /\ pc = "Stage"
      /\ \/ /\ events_wanted' = events_wanted \ {"JPEG_RECONSTRUCTION"}
            /\ IF "JPEG_RECONSTRUCTION" \in events_wanted THEN Return("JPEG_RECONSTRUCTION") ELSE Continue
         \/ /\ UNCHANGED events_wanted
            /\ Return("ABORT") \/ Return("ERROR") \/ Return("NEED_MORE_INPUT")
  BY Zenon DEF ReadJpegRecon, settings, codestream
<1>2. /\ pc' # "CodestreamResult"
      /\ \/ Returned' = Returned /\ events' = events
            /\ events_wanted' = events_wanted
         \/ Returned' = Returned /\ events' = events
            /\ events_wanted' = events_wanted \ {"JPEG_RECONSTRUCTION"} /\ "JPEG_RECONSTRUCTION" \notin events_wanted
         \/ /\ events' \in Seq(Events) /\ "JPEG_RECONSTRUCTION" \in events_wanted
            /\ events_wanted' = events_wanted \ {"JPEG_RECONSTRUCTION"}
            /\ \A e \in Events :
                 Returned'[e] = IF "JPEG_RECONSTRUCTION" = e THEN Returned[e] + 1 ELSE Returned[e]
  <2>1. CASE /\ UNCHANGED events_wanted
             /\ Return("ABORT") \/ Return("ERROR") \/ Return("NEED_MORE_INPUT")
    BY <2>1, ReturnEvents, ReturnedFacts, EventTypes DEF Events
  <2>2. CASE /\ events_wanted' = events_wanted \ {"JPEG_RECONSTRUCTION"}
             /\ "JPEG_RECONSTRUCTION" \in events_wanted /\ Return("JPEG_RECONSTRUCTION")
    BY <2>2, ReturnEvents, ReturnedFacts, EventTypes
  <2>3. CASE /\ events_wanted' = events_wanted \ {"JPEG_RECONSTRUCTION"}
             /\ "JPEG_RECONSTRUCTION" \notin events_wanted /\ Continue
    BY <2>3, ContinueFacts, ReturnedFacts, EventTypes
  <2> QED BY <1>1, <2>1, <2>2, <2>3
<1>4. WantedInv'
  BY <1>1, <1>2 DEF EventsInv, WantedInv
<1>5. OnceInv'
  BY <1>1, <1>2, EventTypes DEF EventsInv, OnceInv, Pending
<1>6. FrameInv'
  BY <1>1, <1>2, EventTypes DEF EventsInv, FrameInv, Pending
<1>7. ImageInv'
  BY <1>1, <1>2, EventTypes DEF EventsInv, ImageInv, Pending
<1> QED BY <1>4, <1>5, <1>6, <1>7 DEF EventsInv

\* The header of a box, with an event for the box.
LEMMA ReadBoxHeaderPlaces ==
  ASSUME ReadBoxHeader
  PROVE  /\ UNCHANGED <<orig_events_wanted, events_wanted, progress, recon_output_jpeg, stage, recon_size>>
         /\ UNCHANGED <<file, sent>> /\ pc = "Stage"
         /\ \/ Return("NEED_MORE_INPUT") /\ UNCHANGED box_count
            \/ Return("ERROR")
            \/ Return("BOX") /\ box_count' = box_count + 1
            \/ Continue /\ "BOX" \notin events_wanted
<1>1. /\ UNCHANGED <<orig_events_wanted, events_wanted, progress, recon_output_jpeg, stage, recon_size>>
      /\ UNCHANGED <<file, sent>> /\ pc = "Stage"
  BY DEF ReadBoxHeader, settings, codestream, jpeg, application
<1>2. \/ Return("NEED_MORE_INPUT") /\ UNCHANGED box_count
      \/ Return("ERROR")
      \/ Return("BOX") /\ box_count' = box_count + 1
      \/ Continue /\ "BOX" \notin events_wanted
  BY Zenon DEF ReadBoxHeader, boxes
<1> QED BY <1>1, <1>2

LEMMA ReadBoxHeaderEvents ==
  ASSUME EventsInv, ReadBoxHeader
  PROVE  EventsInv'
<1>1. /\ UNCHANGED <<orig_events_wanted, events_wanted, progress, recon_output_jpeg>> /\ pc = "Stage"
      /\ Return("NEED_MORE_INPUT") \/ Return("ERROR") \/ Return("BOX") \/ Continue
  BY ReadBoxHeaderPlaces
<1>2. /\ pc' # "CodestreamResult" /\ events' \in Seq(Events)
      /\ \A e \in Events \ {"BOX"} : Returned'[e] = Returned[e]
  <2>1. CASE Return("NEED_MORE_INPUT") \/ Return("ERROR") \/ Continue
    BY <2>1, ReturnEvents, ContinueFacts, ReturnedFacts, EventTypes DEF Events
  <2>2. CASE Return("BOX")
    BY <2>2, ReturnEvents, ReturnedFacts, EventTypes
  <2> QED BY <1>1, <2>1, <2>2
<1>4. WantedInv'
  BY <1>1, <1>2 DEF EventsInv, WantedInv
<1>5. OnceInv'
  BY <1>1, <1>2, EventTypes DEF EventsInv, OnceInv, Pending
<1>6. FrameInv'
  BY <1>1, <1>2, EventTypes DEF EventsInv, FrameInv, Pending
<1>7. ImageInv'
  BY <1>1, <1>2, EventTypes DEF EventsInv, ImageInv, Pending
<1> QED BY <1>4, <1>5, <1>6, <1>7 DEF EventsInv

LEMMA EventsStep ==
  ASSUME EventsInv, [Next]_vars
  PROVE  EventsInv'
<1>1. CASE SilentInCall \/ SilentBetween \/ ProcessInput
  BY <1>1, SilentKept, SilentInCallStep, SilentBetweenStep, SilentProcessInput
<1>2. CASE ReadHeaders \/ ReturnBasicInfo \/ ReadFrameHeader \/ StartFrame \/ DecodeFrame \/ CodestreamEvent
  BY <1>2, ReadHeadersEvents, ReturnBasicInfoEvents, ReadFrameHeaderEvents, StartFrameEvents,
     DecodeFrameEvents, CodestreamEventEvents
<1>3. CASE SetMetadata \/ WriteOutput \/ ReadJpegRecon \/ ReadBoxHeader
  BY <1>3, SetMetadataEvents, WriteOutputEvents, ReadJpegReconEvents, ReadBoxHeaderEvents
<1>4. CASE UNCHANGED vars
  <2>1. /\ UNCHANGED <<orig_events_wanted, events_wanted, progress, recon_output_jpeg, events, pc, result>>
        /\ Returned' = Returned
    BY <1>4, ReturnedFacts, EventTypes DEF vars, settings, seen, jpeg, codestream
  <2> QED BY <2>1 DEF EventsInv, WantedInv, OnceInv, FrameInv, ImageInv, Pending
<1> QED BY <1>1, <1>2, <1>3, <1>4
        DEF Next, HandleBoxes, Application, Stopped, SilentInCall, SilentBetween, CalmBetween

\* Past the reconstruction only ProcessCodestream() changes recon_output_jpeg,
\* and it then has the image to return.
LEMMA WaitingStep ==
  ASSUME WaitingInv, [Next]_vars
  PROVE  WaitingInv'
<1> USE DEF stored, jpeg, DecodingCodestream
<1>1. CASE pc' \notin {"Stage", "Codestream", "CodestreamResult"}
  BY <1>1 DEF WaitingInv
<1>2. CASE UNCHANGED vars
  BY <1>2 DEF vars, WaitingInv, Written, JbrdNeedMoreBoxes
<1>3. CASE NoReconstruction
  <2>1. UNCHANGED <<store, recon_size, recon_output_jpeg>> /\ (Written \/ JbrdNeedMoreBoxes)
    BY <1>3 DEF NoReconstruction, Written
  <2> QED BY <2>1 DEF WaitingInv, Written, JbrdNeedMoreBoxes
<1>4. CASE WriteOutput
  <2>1. recon_output_jpeg' = "kFinished" \/ Return("JPEG_NEED_MORE_OUTPUT")
    BY <1>4 DEF WriteOutput
  <2> QED BY <2>1, ReturnFacts DEF WaitingInv, Written
<1>5. CASE EnterCodestream \/ ReadHeaders \/ ReturnBasicInfo \/ ReadFrameHeader \/ StartFrame
           \/ FinishCodestream \/ CodestreamTooShort \/ DecodeFrame
  <2>1. /\ UNCHANGED <<store, recon_size>> /\ pc \in {"Stage", "Codestream"}
        /\ UNCHANGED recon_output_jpeg \/ (pc' = "CodestreamResult" /\ result' = "FULL_IMAGE")
    BY <1>5 DEF EnterCodestream, ReadHeaders, ReturnBasicInfo, ReadFrameHeader, StartFrame,
       FinishCodestream, CodestreamTooShort, DecodeFrame, CodestreamResult
  <2> QED BY <2>1 DEF WaitingInv, Written, JbrdNeedMoreBoxes
<1>6. CASE OutputBox
  <2>1. pc' = "StoreMetadata" \/ pc' = "Application"
    BY <1>6, Zenon DEF OutputBox, Goto, Return
  <2> QED BY <1>1, <2>1
<1>7. CASE StoreMetadata \/ SetMetadata
  <2>1. pc' = "Reconstruct" \/ pc' = "Application"
    BY <1>7, Zenon DEF StoreMetadata, SetMetadata, Goto, Return
  <2> QED BY <1>1, <2>1
<1>8. CASE StartCodestream \/ AtBoxEnd \/ ReadFtyp \/ ReadPartialCodestream \/ SkipBox \/ CopyAndReadOn
           \/ AfterCodestream \/ CodestreamEvent
  <2>1. (\E st : Return(st)) \/ Continue
    BY <1>8 DEF StartCodestream, AtBoxEnd, ReadFtyp, ReadPartialCodestream, SkipBox, CopyAndReadOn,
       AfterCodestream, CodestreamEvent
  <2> QED BY <1>1, <2>1, ReturnFacts, ContinueFacts
<1>9. CASE ReadBoxHeader \/ ReadJpegRecon \/ ProcessInput
  <2>1. \/ Return("NEED_MORE_INPUT") \/ Return("ERROR") \/ Return("BOX") \/ Return("ABORT")
        \/ Return("JPEG_RECONSTRUCTION") \/ Continue
    BY <1>9, Zenon DEF ReadBoxHeader, ReadJpegRecon, ProcessInput
  <2> QED BY <1>1, <2>1, ReturnFacts, ContinueFacts
<1>10. CASE SilentBetween
  <2>1. pc' = pc /\ pc = "Application"
    BY <1>10, SilentBetweenStep DEF Between
  <2> QED BY <1>1, <2>1
<1> QED BY <1>2, <1>3, <1>4, <1>5, <1>6, <1>7, <1>8, <1>9, <1>10
        DEF Next, HandleBoxes, Application, Stopped, SilentBetween, CalmBetween

\* A step that returns no box.
LEMMA NoBoxReturned ==
  ASSUME EventsInv, Next, ~ReadBoxHeader
  PROVE  Returned'["BOX"] = Returned["BOX"]
<1>1. CASE SilentInCall \/ SilentBetween \/ ProcessInput
  <2>1. UNCHANGED events
    BY <1>1, SilentInCallStep, SilentBetweenStep, SilentProcessInput DEF Silent
  <2> QED BY <2>1, ReturnedFacts, EventTypes
<1>2. CASE ReadHeaders \/ ReturnBasicInfo \/ ReadFrameHeader \/ StartFrame \/ DecodeFrame
  <2>1. UNCHANGED events
    BY <1>2 DEF ReadHeaders, ReturnBasicInfo, ReadFrameHeader, StartFrame, DecodeFrame, Goto, CodestreamResult
  <2> QED BY <2>1, ReturnedFacts, EventTypes
<1>3. CASE SetMetadata \/ WriteOutput \/ ReadJpegRecon \/ CodestreamEvent
  <2>1. \/ UNCHANGED events
        \/ \E st \in Events \ {"BOX"} : events' = Append(events, st)
    <3>1. CASE SetMetadata
      <4>1. Goto("Reconstruct") \/ Return("ERROR")
        BY <3>1 DEF SetMetadata
      <4> QED BY <4>1, ReturnEvents DEF Goto, Events
    <3>2. CASE WriteOutput
      <4>1. Return("JPEG_NEED_MORE_OUTPUT") \/ Return("FULL_IMAGE") \/ Goto("Stage")
        BY <3>2 DEF WriteOutput
      <4> QED BY <4>1, ReturnEvents DEF Goto, Events
    <3>3. CASE ReadJpegRecon
      <4>1. \/ Return("NEED_MORE_INPUT") \/ Return("ERROR") \/ Return("ABORT")
            \/ Return("JPEG_RECONSTRUCTION") \/ Continue
        BY <3>3, Zenon DEF ReadJpegRecon
      <4> QED BY <4>1, ReturnEvents, ContinueFacts DEF Events
    <3>4. CASE CodestreamEvent
      <4>1. pc = "CodestreamResult" /\ (Return(result) \/ Continue)
        BY <3>4 DEF CodestreamEvent
      <4>2. result # "BOX"
        BY <4>1 DEF EventsInv, WantedInv, CodestreamStatuses
      <4> QED BY <4>1, <4>2, ReturnEvents, ContinueFacts
    <3> QED BY <1>3, <3>1, <3>2, <3>3, <3>4
  <2> QED BY <2>1, ReturnedFacts, EventTypes
<1>4. CASE Stopped
  BY <1>4, ReturnedFacts, EventTypes DEF Stopped, vars
<1> QED BY <1>1, <1>2, <1>3, <1>4
        DEF Next, HandleBoxes, Application, SilentInCall, SilentBetween, CalmBetween

\* When the codestream is finished nothing more of it is read.
LEMMA FinishedStep ==
  ASSUME WantedInv, DoneInv, Next, stage' = "kCodestreamFinished"
  PROVE  (progress = "last" \/ (progress = "kHeader" /\ ~FramesWanted))'
<1> USE DEF settings, codestream, seen, DecodingCodestream
<1>0. stage = "kCodestreamFinished" => progress = "last" \/ (progress = "kHeader" /\ ~FramesWanted)
  BY DEF DoneInv
<1>1. CASE SilentInCall
  <2>1. UNCHANGED <<progress, events_wanted>>
    BY <1>1, SilentInCallStep DEF Silent
  <2>2. CASE FinishCodestream
    BY <2>1, <2>2 DEF FinishCodestream, FramesWanted
  <2>3. CASE ~FinishCodestream
    <3>1. UNCHANGED stage
      BY <1>1, <2>3 DEF SilentInCall, OutputBox, StoreMetadata, NoReconstruction, StartCodestream, AtBoxEnd,
         ReadFtyp, ReadPartialCodestream, SkipBox, EnterCodestream, CodestreamTooShort, CopyAndReadOn,
         AfterCodestream
    <3> QED BY <1>0, <2>1, <3>1 DEF FramesWanted
  <2> QED BY <2>2, <2>3
<1>2. CASE SilentBetween \/ ProcessInput
  <2>1. UNCHANGED <<progress, events_wanted>>
    BY <1>2, SilentBetweenStep, SilentProcessInput DEF Silent
  <2>2. stage = "kCodestreamFinished"
    BY <1>2, SilentBetweenStep DEF ProcessInput
  <2> QED BY <1>0, <2>1, <2>2 DEF FramesWanted
<1>3. CASE ReadHeaders \/ ReadFrameHeader \/ StartFrame
  <2>1. UNCHANGED stage /\ progress # "last" /\ (progress = "kHeader" => FramesWanted)
    BY <1>3 DEF ReadHeaders, ReadFrameHeader, StartFrame
  <2> QED BY <1>0, <2>1
<1>4. CASE DecodeFrame
  <2>1. UNCHANGED stage /\ progress = "kFull"
    BY <1>4 DEF DecodeFrame
  <2> QED BY <1>0, <2>1
<1>5. CASE ReturnBasicInfo \/ ReadJpegRecon
  <2>1. UNCHANGED <<stage, progress>> /\ events_wanted' \subseteq events_wanted
    BY <1>5 DEF ReturnBasicInfo, ReadJpegRecon
  <2> QED BY <1>0, <2>1 DEF FramesWanted
<1>6. CASE CodestreamEvent \/ SetMetadata \/ WriteOutput \/ ReadBoxHeader \/ Stopped
  <2>1. UNCHANGED <<stage, progress, events_wanted>>
    BY <1>6 DEF CodestreamEvent, SetMetadata, WriteOutput, ReadBoxHeader, Stopped, vars
  <2> QED BY <1>0, <2>1 DEF FramesWanted
<1> QED BY <1>1, <1>2, <1>3, <1>4, <1>5, <1>6
        DEF Next, HandleBoxes, Application, SilentInCall, SilentBetween, CalmBetween

\* Where a container is read to its end, all of its boxes were read.
LEMMA BoxesAtEnd ==
  ASSUME PInv, Live, file.container, box_stage = "kHeader", file_pos = FileSize(file)
  PROVE  box_count = Len(file.boxes)
<1>1. IsFile(file) /\ Len(file.boxes) \in Nat
  BY TheFile, FileBoxes DEF PInv
<1>2. box_count \in 0..Len(file.boxes) /\ file_pos = Ends(file)[box_count]
  BY DEF PInv, HeaderInv
<1>3. CASE box_count < Len(file.boxes)
  <2>1. Len(file.boxes) \in 0..Len(file.boxes)
    BY <1>1
  <2>2. Ends(file)[box_count] < Ends(file)[Len(file.boxes)]
    BY <1>1, <1>2, <1>3, <2>1, EndsIncrease
  <2>3. Ends(file)[box_count] \in Nat
    BY <1>1, <1>2, EndsFacts
  <2> QED BY <1>2, <2>2, <2>3 DEF FileSize
<1> QED BY <1>1, <1>2, <1>3

LEMMA SuccessStep ==
  ASSUME PInv, PlaceInv, WantedInv, WaitingInv, Next, pc # "Application", status' = "SUCCESS"
  PROVE  /\ stage' = "kCodestreamFinished" /\ Written'
         /\ AllBoxes' => box_count' = Len(file'.boxes)
<1>1. HandleBoxes /\ Live
  BY LiveFacts DEF Next, ProcessInput, Application, Stopped, SetInput, ReleaseInput, CloseInput, SetBoxBuffer,
     SetJPEGBuffer, ReleaseBoxBuffer, ReleaseJPEGBuffer, SetImageOutBuffer, Between
<1>2. AtBoxEnd \/ StartCodestream \/ (SkipBox /\ box.unbounded) \/ (AfterCodestream /\ ~MoreBoxes)
  BY <1>1, SuccessFrom
<1>3. /\ UNCHANGED <<stage, recon_output_jpeg, orig_events_wanted, file, sent, box_count>>
      /\ pc = "Stage" \/ (pc = "CodestreamResult" /\ result = "SUCCESS")
  BY <1>2 DEF AtBoxEnd, StartCodestream, SkipBox, AfterCodestream, seen, jpeg, settings, application, boxes
<1>4. status # "SUCCESS"
  BY DEF PlaceInv, Final
<1>5. \E st : Return(st)
  <2>1. (\E st : Return(st)) \/ Continue
    BY <1>2 DEF AtBoxEnd, StartCodestream, SkipBox, AfterCodestream
  <2> QED BY <1>4, <2>1, ContinueFacts
<1>6. Checked("SUCCESS") = "SUCCESS"
  BY <1>5, CheckedFacts DEF Return
<1>7. stage = "kCodestreamFinished" /\ ~JbrdNeedMoreBoxes
  BY <1>6 DEF Checked, CanUseMoreCodestreamInput
<1>8. Written'
  BY <1>3, <1>7 DEF WaitingInv, Written
<1>9. ASSUME "BOX" \in orig_events_wanted, file.container, sent = FileSize(file)
      PROVE  box_count = Len(file.boxes)
  <2>1. CASE AtBoxEnd
    <3>1. box_stage = "kHeader" /\ avail_in = 0
      BY <2>1 DEF AtBoxEnd
    <3>2. file_pos = sent
      <4>1. /\ file_pos \in Nat /\ unread = 0
            /\ next_in = -1 => file_pos + unread = sent
            /\ next_in # -1 => file_pos + avail_in = sent
        BY DEF PInv, InputInv
      <4> QED BY <3>1, <4>1
    <3> QED BY <1>1, <1>9, <3>1, <3>2, BoxesAtEnd
  <2>2. ~StartCodestream
    BY <1>9 DEF StartCodestream, PInv, HeaderInv
  <2>3. CASE SkipBox /\ box.unbounded
    BY <1>1, <1>9, <2>3, CurFacts DEF SkipBox
  <2>4. CASE AfterCodestream /\ ~MoreBoxes
    <3>1. box.unbounded
      BY <1>9, <2>4 DEF MoreBoxes, WantedInv
    <3>2. box_stage # "kHeader"
      BY <2>4, LiveFacts DEF AfterCodestream
    <3> QED BY <1>1, <1>9, <3>1, <3>2, CurFacts
  <2> QED BY <1>2, <2>1, <2>2, <2>3, <2>4
<1> QED BY <1>3, <1>7, <1>8, <1>9 DEF AllBoxes

LEMMA DoneStep ==
  ASSUME PInv, PlaceInv, EventsInv, WaitingInv, DoneInv, [Next]_vars
  PROVE  DoneInv'
<1>1. CASE UNCHANGED vars
  <2>1. UNCHANGED <<pc, status, orig_events_wanted, events_wanted, events, box_count, stage, progress,
                    recon_output_jpeg, file, sent>>
    BY <1>1 DEF vars, settings, seen, boxes, codestream, jpeg, application
  <2>2. Returned' = Returned
    BY <2>1, ReturnedFacts, EventTypes
  <2> QED BY <2>1, <2>2 DEF DoneInv, Live, FramesWanted, Written, AllBoxes
<1>2. CASE Next /\ ~UNCHANGED vars
  <2>1. Live /\ (pc = "Application" => status \notin Final)
    <3>1. CASE HandleBoxes
      <4>1. pc # "Application"
        BY <3>1 DEF HandleBoxes, OutputBox, StoreMetadata, SetMetadata, WriteOutput, NoReconstruction,
           StartCodestream, AtBoxEnd, ReadBoxHeader, ReadFtyp, ReadPartialCodestream, SkipBox, ReadJpegRecon,
           EnterCodestream, ReadHeaders, ReturnBasicInfo, ReadFrameHeader, StartFrame, DecodeFrame,
           FinishCodestream, CodestreamTooShort, CopyAndReadOn, AfterCodestream, CodestreamEvent
      <4> QED BY <4>1 DEF Live
    <3>2. CASE ProcessInput
      BY <3>2, SilentProcessInput DEF Live
    <3>3. CASE SilentBetween
      BY <3>3, SilentBetweenStep DEF Between, Final, Live
    <3> QED BY <1>2, <3>1, <3>2, <3>3 DEF Next, Stopped, Application, SilentBetween, CalmBetween
  <2>2. Live' \/ status' = "SUCCESS" =>
          ("BOX" \in orig_events_wanted' => Returned'["BOX"] = box_count')
    <3>1. CASE ReadBoxHeader
      <4>1. /\ orig_events_wanted' = orig_events_wanted
            /\ \/ Return("NEED_MORE_INPUT") /\ UNCHANGED box_count
               \/ Return("ERROR")
               \/ Return("BOX") /\ box_count' = box_count + 1
               \/ Continue /\ "BOX" \notin events_wanted
        BY <3>1, ReadBoxHeaderPlaces
      <4>2. "BOX" \in orig_events_wanted => "BOX" \in events_wanted
        BY DEF EventsInv, WantedInv
      <4>3. CASE Return("NEED_MORE_INPUT") /\ UNCHANGED box_count
        <5>1. UNCHANGED events
          BY <4>3, ReturnEvents DEF Events
        <5>2. Returned' = Returned
          BY <5>1, ReturnedFacts, EventTypes
        <5> QED BY <2>1, <4>1, <4>3, <5>2 DEF DoneInv
      <4>4. CASE Return("ERROR")
        <5>1. pc' = "Application" /\ status' = "ERROR"
          BY <4>4, CheckedFacts DEF Return
        <5> QED BY <5>1 DEF Live, Final
      <4>5. CASE Return("BOX") /\ box_count' = box_count + 1
        <5>1. Returned'["BOX"] = Returned["BOX"] + 1
          BY <4>5, ReturnEvents, ReturnedFacts, EventTypes
        <5> QED BY <2>1, <4>1, <4>5, <5>1 DEF DoneInv
      <4> QED BY <4>1, <4>2, <4>3, <4>4, <4>5
    <3>2. CASE ~ReadBoxHeader
      <4>1. Returned'["BOX"] = Returned["BOX"] /\ box_count' = box_count
        BY <1>2, <3>2, NoBoxReturned, CountKept
      <4>2. orig_events_wanted' = orig_events_wanted
        <5>1. CASE HandleBoxes
          <6>1. CASE CalmInCall
            BY <6>1, CalmInCallKeeps
          <6>2. CASE MovesOn
            BY <6>2, MovesOnKeeps
          <6>3. CASE OutputBox \/ StoreMetadata \/ StartCodestream
            BY <6>3 DEF OutputBox, StoreMetadata, StartCodestream, settings
          <6> QED BY <3>2, <5>1, <6>1, <6>2, <6>3 DEF HandleBoxes, CalmInCall, MovesOn
        <5>2. CASE ProcessInput
          BY <5>2, SilentProcessInput DEF Silent
        <5>3. CASE SilentBetween
          BY <5>3, SilentBetweenStep DEF Silent
        <5> QED BY <1>2, <5>1, <5>2, <5>3 DEF Next, Stopped, Application, SilentBetween, CalmBetween
      <4> QED BY <2>1, <4>1, <4>2 DEF DoneInv
    <3> QED BY <3>1, <3>2
  <2>3. stage' = "kCodestreamFinished" =>
          (progress = "last" \/ (progress = "kHeader" /\ ~FramesWanted))'
    BY <1>2, FinishedStep DEF EventsInv
  <2>4. ASSUME status' = "SUCCESS" PROVE pc # "Application"
    <3>1. CASE pc = "Application"
      <4>1. ProcessInput \/ SilentBetween
        BY <1>2, <3>1 DEF Next, Stopped, Application, SilentBetween, CalmBetween, HandleBoxes, OutputBox,
           StoreMetadata, SetMetadata, WriteOutput, NoReconstruction,
           StartCodestream, AtBoxEnd, ReadBoxHeader, ReadFtyp, ReadPartialCodestream, SkipBox, ReadJpegRecon,
           EnterCodestream, ReadHeaders, ReturnBasicInfo, ReadFrameHeader, StartFrame, DecodeFrame,
           FinishCodestream, CodestreamTooShort, CopyAndReadOn, AfterCodestream, CodestreamEvent
      <4>2. status # "SUCCESS"
        BY <2>1, <3>1 DEF Final
      <4>3. CASE SilentBetween
        BY <2>4, <4>2, <4>3, SilentBetweenStep
      <4>4. CASE ProcessInput
        <5>1. Return("ERROR") \/ Return("NEED_MORE_INPUT") \/ Continue
          BY <4>4 DEF ProcessInput
        <5> QED BY <2>4, <4>2, <5>1, ReturnFacts, ContinueFacts
      <4> QED BY <4>1, <4>3, <4>4
    <3> QED BY <3>1
  <2>5. status' = "SUCCESS" => /\ stage' = "kCodestreamFinished" /\ Written'
                               /\ AllBoxes' => box_count' = Len(file'.boxes)
    BY <1>2, <2>4, SuccessStep DEF EventsInv
  <2> QED BY <2>2, <2>3, <2>5 DEF DoneInv
<1> QED BY <1>1, <1>2

LEMMA InitEInv ==
  ASSUME Init
  PROVE  EInv
<1>1. /\ orig_events_wanted \subseteq Events /\ events_wanted = orig_events_wanted
      /\ progress = "start" /\ recon_output_jpeg = "kNone" /\ box_count = 0
      /\ pc = "Application" /\ status = "" /\ stage = "kInited"
  BY SessionsAssumption DEF Init
<1>0. events = <<>>
  BY DEF Init
<1>2. events \in Seq(Events)
  BY <1>0, EmptySeq
<1>3. \A e \in Events : Returned[e] = 0
  <2>1. \A e : {k \in DOMAIN events : events[k] = e} = {}
    <3>1. Len(events) = 0 /\ DOMAIN events = 1..Len(events)
      BY <1>0, <1>2, LenProperties, EmptySeq
    <3> QED BY <3>1
  <2>2. \A e : Count(e) = 0
    BY <2>1, FS_EmptySet DEF Count
  <2> QED BY <2>2 DEF Returned
<1>4. WantedInv
  BY <1>1, <1>2 DEF WantedInv, HeadersProgress
<1>5. OnceInv /\ FrameInv /\ ImageInv
  <2>1. /\ Returned["BASIC_INFO"] = 0 /\ Returned["FRAME"] = 0 /\ Returned["FULL_IMAGE"] = 0
        /\ Returned["JPEG_RECONSTRUCTION"] = 0
    BY <1>3 DEF Events
  <2>5. Returned \in [Events -> Nat]
    BY <1>2, ReturnedFacts
  <2>6. /\ events_wanted = orig_events_wanted /\ pc = "Application" /\ progress = "start"
        /\ recon_output_jpeg = "kNone"
    BY <1>1
  <2>2. OnceInv
    BY <2>1, <2>5, <2>6 DEF OnceInv, Pending, HeadersProgress
  <2>3. FrameInv
    BY <2>1, <2>5, <2>6 DEF FrameInv, Pending, FrameProgress
  <2>4. ImageInv
    BY <2>1, <2>5, <2>6 DEF ImageInv, Pending
  <2> QED BY <2>2, <2>3, <2>4
<1>6. WaitingInv /\ DoneInv
  BY <1>1, <1>3 DEF WaitingInv, DoneInv, Events
<1> QED BY <1>4, <1>5, <1>6 DEF EInv

\* JxlDecoderProcessInput() returns the basic information, the frame, the image
\* and the JPEG at most once, and on JXL_DEC_SUCCESS it has returned what was
\* subscribed to, the event of every box of the file included.
THEOREM AllEventsReturnedAlways == Spec => []AllEventsReturned
<1>1. Init => EInv
  BY InitEInv
<1>2. PInv /\ DInv /\ EInv /\ [Next]_vars => EInv'
  <2>1. SUFFICES ASSUME PInv, DInv, EInv, [Next]_vars PROVE EInv'
    OBVIOUS
  <2>2. PlaceInv /\ EventsInv /\ WaitingInv /\ DoneInv
    BY <2>1 DEF DInv, EInv, EventsInv
  <2>3. EventsInv' /\ WaitingInv' /\ DoneInv'
    BY <2>1, <2>2, EventsStep, WaitingStep, DoneStep
  <2> QED BY <2>3 DEF EventsInv, EInv
<1>3. PInv /\ DInv /\ EInv => AllEventsReturned
  <2>1. SUFFICES ASSUME DInv, EInv PROVE AllEventsReturned
    OBVIOUS
  <2>2. \A e \in Events : Count(e) = Returned[e]
    BY DEF Returned
  <2>3. \A e \in Events \ {"BOX"} : Count(e) <= 1
    BY <2>1, <2>2 DEF EInv, OnceInv, FrameInv, ImageInv, Events
  <2>4. ASSUME status = "SUCCESS", sent = FileSize(file)
        PROVE  /\ \A e \in orig_events_wanted \cap {"BASIC_INFO", "FRAME", "FULL_IMAGE"} : Count(e) = 1
               /\ "BOX" \in orig_events_wanted /\ file.container => Count("BOX") = Len(file.boxes)
    <3>1. pc = "Application" /\ \A e : ~Pending(e)
      BY <2>1, <2>4 DEF DInv, PlaceInv, Final, Pending
    <3>2. /\ progress = "last" \/ (progress = "kHeader" /\ ~FramesWanted)
          /\ Written
          /\ "BOX" \in orig_events_wanted /\ file.container => box_count = Len(file.boxes)
      BY <2>1, <2>4 DEF EInv, DoneInv, AllBoxes
    <3>3. "BASIC_INFO" \in orig_events_wanted => Returned["BASIC_INFO"] = 1
      BY <2>1, <3>1, <3>2 DEF EInv, OnceInv, HeadersProgress
    <3>4. "FRAME" \in orig_events_wanted => Returned["FRAME"] = 1
      BY <2>1, <3>1, <3>2 DEF EInv, FrameInv, FrameProgress, FramesWanted, WantedInv
    <3>5. "FULL_IMAGE" \in orig_events_wanted => Returned["FULL_IMAGE"] = 1
      BY <2>1, <3>1, <3>2 DEF EInv, ImageInv, FramesWanted, WantedInv, Written
    <3>6. "BOX" \in orig_events_wanted => Returned["BOX"] = box_count
      BY <2>1, <2>4 DEF EInv, DoneInv
    <3> QED BY <2>2, <3>2, <3>3, <3>4, <3>5, <3>6 DEF Events
  <2> QED BY <2>3, <2>4 DEF AllEventsReturned
<1> QED BY <1>1, <1>2, <1>3, ContentsFollowInput, PTL DEF Spec

-----------------------------------------------------------------------------
(* Files that are as the format wants them are not rejected. *)

\* The end of the codestream was seen in a jxlc box or in the last jxlp box.
Closes(i) ==
  \/ file.boxes[i].type = "jxlc"
  \/ file.boxes[i].type = "jxlp" /\ file.boxes[i].last
LastInv ==
  Live /\ file.container /\ last_codestream_seen =>
    \E i \in 1..box_count : Closes(i) /\ (box_stage = "kPartialCodestream" => i < box_count)

\* A jbrd box was read, or it is the current box, or there was none so far.
Jbrd(i) == file.boxes[i].type = "jbrd"
JbrdRead == \E i \in 1..box_count : Jbrd(i) /\ recon_size = file.boxes[i].expects
JbrdInv ==
  Live =>
    /\ "JPEG_RECONSTRUCTION" \in orig_events_wanted \ events_wanted => JbrdRead
    /\ "JPEG_RECONSTRUCTION" \notin orig_events_wanted \ events_wanted =>
         \A m \in Meta : recon_size[m] = 0
    /\ "JPEG_RECONSTRUCTION" \in events_wanted =>
         \A i \in 1..box_count : Jbrd(i) => i = box_count /\ box_stage = "kJpegRecon"

\* Outside of the boxes of the codestream what there is of it is not enough for
\* the next step. A copy, once begun, takes all of the input that there is.
ShortInv ==
  /\ codestream_copy \in Seq(Int)
  /\ Live /\ CanUseMoreCodestreamInput /\ box_stage # "kCodestream" => Len(codestream_copy) < Needed
  /\ pc = "CodestreamResult" /\ result = "NEED_MORE_INPUT" => CanUseMoreCodestreamInput /\ ~Enough
  /\ pc \in {"Codestream", "CodestreamResult"} /\ codestream_copy # <<>> => AvailCodestream = 0

\* Metadata in a box up to the end of the file is stored until there is as much
\* as the jbrd box expects, or all of it when it is compressed.
MetaInv ==
  \A m \in Meta :
    /\ Live /\ pc \in AfterStore /\ store[m] = 1 /\ box.unbounded =>
         \/ Len(metadata[m]) < recon_size[m]
         \/ IsBrob /\ metadata_decoder.pos < Size
    /\ Live /\ store[m] = 2 /\ file.boxes[First(m)].unbounded =>
         /\ First(m) = box_count /\ box_count > 0 /\ Inner(file.boxes[box_count]) = m
         /\ Len(metadata[m]) >= recon_size[m]

SInv == LastInv /\ JbrdInv /\ ShortInv /\ MetaInv

\* Nothing happens after the end or an error.
LEMMA StepFrom ==
  ASSUME [Next]_vars
  PROVE  UNCHANGED vars \/ (Live /\ Next /\ (pc = "Application" => status \notin Final))
<1>1. CASE HandleBoxes
  <2>1. pc # "Application"
    BY <1>1 DEF HandleBoxes, OutputBox, StoreMetadata, SetMetadata, WriteOutput, NoReconstruction,
       StartCodestream, AtBoxEnd, ReadBoxHeader, ReadFtyp, ReadPartialCodestream, SkipBox, ReadJpegRecon,
       EnterCodestream, ReadHeaders, ReturnBasicInfo, ReadFrameHeader, StartFrame, DecodeFrame,
       FinishCodestream, CodestreamTooShort, CopyAndReadOn, AfterCodestream, CodestreamEvent
  <2> QED BY <1>1, <2>1 DEF Live, Next
<1>2. CASE ProcessInput
  BY <1>2, SilentProcessInput DEF Live, Next
<1>3. CASE SilentBetween
  <2>1. Next
    BY <1>3 DEF Next, Application, SilentBetween, CalmBetween
  <2> QED BY <1>3, <2>1, SilentBetweenStep DEF Between, Final, Live
<1> QED BY <1>1, <1>2, <1>3 DEF Next, Stopped, Application, SilentBetween, CalmBetween

\* What BoxStage::kHeader makes of a header: it waits for more of it, rejects
\* it or enters the box.
HeaderNeeds(h) == h.header + (IF h.type = "brob" THEN 1 ELSE 0)
HeaderWaits(h) ==
  /\ avail_in < HeaderNeeds(h) /\ Return("NEED_MORE_INPUT")
  /\ UNCHANGED <<box_count, box_stage, box, store, metadata, metadata_decoder, last_codestream_seen>>
HeaderRejected(h) ==
  /\ Return("ERROR")
  /\ \/ (box_count = 1) # (h.type = "ftyp")
     \/ h.type = "jxlc" /\ last_codestream_seen
     \/ StageOf(h.type) = "kJpegRecon" /\ "JPEG_RECONSTRUCTION" \notin events_wanted
BoxEntered(h) ==
  /\ box_count' = box_count + 1 /\ box_stage' = StageOf(h.type) /\ box'.unbounded = h.unbounded
  /\ StageOf(h.type) = "kJpegRecon" => "JPEG_RECONSTRUCTION" \in events_wanted
  /\ last_codestream_seen' = (last_codestream_seen \/ h.type = "jxlc")
  /\ store' = [m \in Meta |-> IF m \in StartsStoring(h) THEN 1 ELSE store[m]]
  /\ metadata' = [m \in Meta |-> IF m \in StartsStoring(h) THEN <<>> ELSE metadata[m]]
  /\ Return("BOX") \/ Continue

LEMMA HeaderRead ==
  ASSUME PInv, ReadBoxHeader
  PROVE  \E h : /\ h = file.boxes[box_count + 1]
                /\ HeaderWaits(h) \/ HeaderRejected(h) \/ BoxEntered(h)
                /\ UNCHANGED <<file, sent, input_closed, orig_events_wanted, events_wanted, recon_size, stage,
                               codestream_copy, progress>>
<1> DEFINE h == HeaderAt(next_in)
           rejected == \/ h.type = "jxlc" /\ last_codestream_seen
                       \/ StageOf(h.type) = "kJpegRecon" /\ "JPEG_RECONSTRUCTION" \notin events_wanted
<1>1. h = file.boxes[box_count + 1]
  BY BoxHeaderFacts
<1>2. UNCHANGED <<file, sent, orig_events_wanted, events_wanted, recon_size, stage, codestream_copy, progress>>
  BY DEF ReadBoxHeader, application, settings, jpeg, codestream
<1>3. UNCHANGED input_closed
  BY Zenon DEF ReadBoxHeader, input
<1>4. \/ /\ avail_in < HeaderNeeds(h) /\ Return("NEED_MORE_INPUT")
         /\ UNCHANGED <<input, boxes, contents, stored, last_codestream_seen>>
      \/ Return("ERROR") /\ (box_count = 1) # (h.type = "ftyp")
      \/ /\ box_count' = box_count + 1
         /\ box' = [begin |-> file_pos', unbounded |-> h.unbounded,
                    end |-> IF h.unbounded THEN 0 ELSE file_pos' + h.size,
                    size |-> IF h.unbounded THEN 0 ELSE h.size]
         /\ store' = [m \in Meta |-> IF m \in StartsStoring(h) THEN 1 ELSE store[m]]
         /\ metadata' = [m \in Meta |-> IF m \in StartsStoring(h) THEN <<>> ELSE metadata[m]]
         /\ last_codestream_seen' = (last_codestream_seen \/ h.type = "jxlc")
         /\ box_stage' = IF rejected THEN box_stage ELSE StageOf(h.type)
         /\ IF rejected THEN Return("ERROR") ELSE Return("BOX") \/ Continue
  BY Zenon DEF ReadBoxHeader, HeaderNeeds
<1> HIDE DEF h
<1>5. HeaderWaits(h) \/ HeaderRejected(h) \/ BoxEntered(h)
  <2>1. CASE /\ avail_in < HeaderNeeds(h) /\ Return("NEED_MORE_INPUT")
             /\ UNCHANGED <<input, boxes, contents, stored, last_codestream_seen>>
    BY <2>1 DEF HeaderWaits, boxes, stored
  <2>2. CASE Return("ERROR") /\ (box_count = 1) # (h.type = "ftyp")
    BY <2>2 DEF HeaderRejected
  <2>3. CASE /\ box_count' = box_count + 1
             /\ box' = [begin |-> file_pos', unbounded |-> h.unbounded,
                        end |-> IF h.unbounded THEN 0 ELSE file_pos' + h.size,
                        size |-> IF h.unbounded THEN 0 ELSE h.size]
             /\ store' = [m \in Meta |-> IF m \in StartsStoring(h) THEN 1 ELSE store[m]]
             /\ metadata' = [m \in Meta |-> IF m \in StartsStoring(h) THEN <<>> ELSE metadata[m]]
             /\ last_codestream_seen' = (last_codestream_seen \/ h.type = "jxlc")
             /\ box_stage' = IF rejected THEN box_stage ELSE StageOf(h.type)
             /\ IF rejected THEN Return("ERROR") ELSE Return("BOX") \/ Continue
    <3>1. CASE rejected
      BY <2>3, <3>1 DEF HeaderRejected
    <3>2. CASE ~rejected
      <4>1. box'.unbounded = h.unbounded /\ box_stage' = StageOf(h.type) /\ (Return("BOX") \/ Continue)
        BY <2>3, <3>2
      <4>2. StageOf(h.type) = "kJpegRecon" => "JPEG_RECONSTRUCTION" \in events_wanted
        BY <3>2
      <4> QED BY <2>3, <4>1, <4>2, Zenon DEF BoxEntered
    <3> QED BY <3>1, <3>2
  <2> QED BY <1>4, <2>1, <2>2, <2>3
<1> QED BY <1>1, <1>2, <1>3, <1>5, Zenon

\* What the other steps leave alone.
LEMMA NotHeader ==
  ASSUME PInv, Next, ~ReadBoxHeader
  PROVE  /\ UNCHANGED <<file, box_count, orig_events_wanted>> /\ (file.container => box' = box)
         /\ ~StoreMetadata => UNCHANGED <<store, metadata, metadata_decoder>>
         /\ ~ReadPartialCodestream /\ file.container /\ last_codestream_seen' => last_codestream_seen
         /\ box_stage' \in {"kPartialCodestream", "kJpegRecon"} => box_stage' = box_stage
         /\ ~ReadJpegRecon =>
              /\ UNCHANGED recon_size
              /\ "JPEG_RECONSTRUCTION" \in events_wanted' <=> "JPEG_RECONSTRUCTION" \in events_wanted
              /\ box_stage = "kJpegRecon" => box_stage' = box_stage
<1> USE DEF application, settings, boxes, contents, stored, seen, jpeg, DecodingCodestream, StageAtBoxEnd
<1>0. pc # "Application" => have_container = file.container /\ Live
  BY DEF PInv, HeaderInv, Live
<1>1. CASE CalmInCall
  <2>1. UNCHANGED <<file, box_count, orig_events_wanted, box, box_stage, store, metadata, metadata_decoder>>
    BY <1>1, CalmInCallKeeps
  <2>2. /\ UNCHANGED <<recon_size, last_codestream_seen>>
        /\ "JPEG_RECONSTRUCTION" \in events_wanted' <=> "JPEG_RECONSTRUCTION" \in events_wanted
    <3>1. CASE SetMetadata \/ WriteOutput \/ NoReconstruction \/ AtBoxEnd
      BY <3>1 DEF SetMetadata, WriteOutput, NoReconstruction, AtBoxEnd
    <3>2. CASE ReadHeaders \/ ReturnBasicInfo \/ ReadFrameHeader \/ StartFrame
      BY <3>2 DEF ReadHeaders, ReturnBasicInfo, ReadFrameHeader, StartFrame
    <3>3. CASE DecodeFrame \/ FinishCodestream \/ CodestreamTooShort \/ CodestreamEvent
      BY <3>3 DEF DecodeFrame, FinishCodestream, CodestreamTooShort, CodestreamEvent
    <3> QED BY <1>1, <3>1, <3>2, <3>3 DEF CalmInCall
  <2> QED BY <2>1, <2>2
<1>2. CASE MovesOn
  <2>1. UNCHANGED <<file, box_count, orig_events_wanted, box, store, metadata, metadata_decoder>>
    BY <1>2, MovesOnKeeps
  <2>2. CASE ReadFtyp \/ SkipBox \/ EnterCodestream
    BY <2>1, <2>2 DEF ReadFtyp, SkipBox, EnterCodestream
  <2>3. CASE CopyAndReadOn \/ AfterCodestream
    <3>1. box_stage = "kCodestream"
      BY <2>3, LiveFacts DEF CopyAndReadOn, AfterCodestream
    <3> QED BY <2>1, <2>3, <3>1 DEF CopyAndReadOn, AfterCodestream
  <2>4. CASE ReadPartialCodestream
    BY <2>1, <2>4 DEF ReadPartialCodestream
  <2>5. CASE ReadJpegRecon
    <3>1. UNCHANGED last_codestream_seen /\ box_stage = "kJpegRecon"
      BY <2>5 DEF ReadJpegRecon
    <3>2. box_stage' = "kHeader" \/ box_stage' = box_stage
      BY <2>5, Zenon DEF ReadJpegRecon
    <3> QED BY <2>1, <2>5, <3>1, <3>2
  <2> QED BY <1>2, <2>2, <2>3, <2>4, <2>5 DEF MovesOn
<1>3. CASE OutputBox \/ StartCodestream
  BY <1>0, <1>3 DEF OutputBox, StartCodestream
<1>4. CASE StoreMetadata
  BY <1>4 DEF StoreMetadata
<1>5. CASE ProcessInput
  <2>1. UNCHANGED <<file, box_count, orig_events_wanted, box, box_stage, store, metadata, metadata_decoder,
                    recon_size, events_wanted>>
    BY <1>5 DEF ProcessInput
  <2>2. file.container /\ last_codestream_seen' => last_codestream_seen
    BY <1>5 DEF ProcessInput
  <2> QED BY <2>1, <2>2
<1>6. CASE SilentBetween
  <2> DEFINE same == UNCHANGED <<file, box_count, orig_events_wanted, box, box_stage, store, metadata,
                                 metadata_decoder, recon_size, events_wanted, last_codestream_seen>>
  <2>1. CASE CalmBetween
    <3>1. same
      BY <2>1 DEF CalmBetween, SetInput, ReleaseInput, CloseInput, SetJPEGBuffer, ReleaseJPEGBuffer,
         SetImageOutBuffer
    <3> QED BY <3>1
  <2>2. CASE (\E size \in BoxBufferSizes : SetBoxBuffer(size)) \/ ReleaseBoxBuffer
    <3>1. same
      BY <2>2 DEF SetBoxBuffer, ReleaseBoxBuffer
    <3> QED BY <3>1
  <2> QED BY <1>6, <2>1, <2>2 DEF SilentBetween
<1>7. CASE Stopped
  BY <1>7 DEF Stopped, vars
<1> QED BY <1>1, <1>2, <1>3, <1>4, <1>5, <1>6, <1>7
        DEF Next, HandleBoxes, Application, SilentBetween, CalmBetween, CalmInCall, MovesOn

LEMMA ErrorReturned ==
  ASSUME Return("ERROR")
  PROVE  ~Live' /\ pc' = "Application" /\ status' = "ERROR"
BY CheckedFacts DEF Return, Live, Final

LEMMA LastStep ==
  ASSUME PInv, LastInv, [Next]_vars
  PROVE  LastInv'
<1>1. CASE UNCHANGED vars
  <2>1. UNCHANGED <<pc, status, file, last_codestream_seen, box_count, box_stage>>
    BY <1>1 DEF vars, application, seen, boxes
  <2> QED BY <2>1 DEF LastInv, Live, Closes
<1>2. CASE Live /\ Next
  <2> SUFFICES ASSUME Live', file'.container, last_codestream_seen'
               PROVE  \E i \in 1..box_count' : Closes(i)' /\ (box_stage' = "kPartialCodestream" => i < box_count')
    BY DEF LastInv
  <2>0. box_count \in Nat
    BY DEF PInv, HeaderInv
  <2>1. ASSUME UNCHANGED <<file, box_count>>, last_codestream_seen,
               box_stage' = "kPartialCodestream" => box_stage' = box_stage
        PROVE  \E i \in 1..box_count' : Closes(i)' /\ (box_stage' = "kPartialCodestream" => i < box_count')
    BY <1>2, <2>1 DEF LastInv, Closes
  <2>2. CASE ReadBoxHeader
    <3>1. PICK h : /\ h = file.boxes[box_count + 1]
                   /\ HeaderWaits(h) \/ HeaderRejected(h) \/ BoxEntered(h)
                   /\ UNCHANGED file
      BY <2>2, HeaderRead
    <3>2. CASE HeaderWaits(h)
      BY <2>1, <3>1, <3>2 DEF HeaderWaits
    <3>3. CASE HeaderRejected(h)
      BY <3>3, ErrorReturned DEF HeaderRejected
    <3>4. CASE BoxEntered(h)
      <4>1. /\ box_count' = box_count + 1 /\ box_stage' = StageOf(h.type)
            /\ last_codestream_seen \/ h.type = "jxlc"
        BY <3>4 DEF BoxEntered
      <4>2. CASE h.type = "jxlc"
        <5>1. box_stage' # "kPartialCodestream"
          BY <4>1, <4>2 DEF StageOf
        <5>2. file'.boxes[box_count'].type = "jxlc" /\ box_count' \in 1..box_count'
          BY <2>0, <3>1, <4>1, <4>2
        <5> QED BY <5>1, <5>2 DEF Closes
      <4>3. CASE last_codestream_seen
        <5>1. PICK i \in 1..box_count : Closes(i)
          BY <1>2, <3>1, <4>3 DEF LastInv
        <5>2. i \in 1..box_count' /\ i < box_count' /\ Closes(i)'
          BY <2>0, <3>1, <4>1, <5>1 DEF Closes
        <5> QED BY <5>2
      <4> QED BY <4>1, <4>2, <4>3
    <3> QED BY <3>1, <3>2, <3>3, <3>4
  <2>3. CASE ReadPartialCodestream
    <3>0. UNCHANGED <<file, box_count>> /\ box_stage = "kPartialCodestream" /\ pc = "Stage"
      BY <2>3 DEF ReadPartialCodestream, application, boxes
    <3>1. CASE last_codestream_seen' = last_codestream_seen
      BY <2>1, <3>0, <3>1
    <3>2. CASE last_codestream_seen' = file.boxes[box_count].last /\ box_stage' = "kCodestream"
      <4>1. file.boxes[Cur].type = "jxlp" /\ Cur \in 1..Len(file.boxes) /\ Cur = box_count
        BY <1>2, <3>0, CurFacts DEF PInv, StageInv
      <4>2. /\ file'.boxes[box_count'].type = "jxlp" /\ file'.boxes[box_count'].last
            /\ box_count' \in 1..box_count'
        <5>1. file.boxes[box_count].last
          BY <3>2, Zenon
        <5> QED BY <2>0, <3>0, <4>1, <5>1
      <4> QED BY <3>2, <4>2 DEF Closes
    <3> QED BY <2>3, <3>1, <3>2 DEF ReadPartialCodestream
  <2>4. CASE ~ReadBoxHeader /\ ~ReadPartialCodestream
    <3>1. /\ UNCHANGED <<file, box_count>>
          /\ file.container /\ last_codestream_seen' => last_codestream_seen
          /\ box_stage' = "kPartialCodestream" => box_stage' = box_stage
      BY <1>2, <2>4, NotHeader
    <3> QED BY <2>1, <3>1
  <2> QED BY <2>2, <2>3, <2>4
<1> QED BY <1>1, <1>2, StepFrom

\* The jbrd box of a well-formed file is the only one: its sizes are those
\* that recon_size has afterwards.
LEMMA JbrdDecoded ==
  ASSUME PInv, Live, ReadJpegRecon
  PROVE  \/ /\ recon_size' = file.boxes[box_count].expects /\ box_stage' = "kHeader"
            /\ events_wanted' = events_wanted \ {"JPEG_RECONSTRUCTION"}
         \/ UNCHANGED <<recon_size, box_stage, events_wanted>>
<1>1. \/ /\ recon_size' = HeaderAt(box.begin - file.boxes[box_count].header).expects
         /\ box_stage' = "kHeader" /\ events_wanted' = events_wanted \ {"JPEG_RECONSTRUCTION"}
      \/ UNCHANGED <<recon_size, box_stage, events_wanted>>
  BY Zenon DEF ReadJpegRecon
<1>2. pc = "Stage" /\ box_stage = "kJpegRecon"
  BY DEF ReadJpegRecon
<1>3. file.container
  BY <1>2 DEF PInv, StageInv
<1>4. /\ IsFile(file) /\ box_count \in 1..Len(file.boxes) /\ box.begin = Ends(file)[box_count] - Size
      /\ Len(file.boxes) \in Nat
  BY <1>2, <1>3, BoxFacts, FileBoxes
<1>5. /\ Ends(file)[box_count - 1] + file.boxes[box_count].header = Ends(file)[box_count] - Size
      /\ Ends(file)[box_count - 1] \in Nat /\ file.boxes[box_count].header \in Nat
  BY <1>4, ContentsFacts DEF Size
<1>6. box.begin - file.boxes[box_count].header = Ends(file)[box_count - 1]
  BY <1>4, <1>5
<1>7. box_count - 1 \in 0..Len(file.boxes) - 1 /\ (box_count - 1) + 1 = box_count
  BY <1>4
<1>8. HeaderAt(Ends(file)[box_count - 1]) = file.boxes[box_count]
  BY <1>3, <1>4, <1>7, HeaderAtEnd
<1> QED BY <1>1, <1>6, <1>8

LEMMA JbrdStep ==
  ASSUME PInv, ReconInv, WantedInv, JbrdInv, [Next]_vars
  PROVE  JbrdInv'
<1> DEFINE jr == "JPEG_RECONSTRUCTION"
<1>1. CASE UNCHANGED vars
  <2>1. UNCHANGED <<pc, status, file, orig_events_wanted, events_wanted, recon_size, box_count, box_stage>>
    BY <1>1 DEF vars, application, seen, boxes, settings, jpeg
  <2> QED BY <2>1 DEF JbrdInv, JbrdRead, Live, Jbrd
<1>2. CASE Live /\ Next
  <2> SUFFICES ASSUME Live'
               PROVE  JbrdInv'
    BY DEF JbrdInv
  <2>0. box_count \in Nat
    BY DEF PInv, HeaderInv
  <2>1. /\ jr \in orig_events_wanted \ events_wanted => JbrdRead
        /\ jr \notin orig_events_wanted \ events_wanted => \A m \in Meta : recon_size[m] = 0
        /\ jr \in events_wanted => \A i \in 1..box_count : Jbrd(i) => i = box_count /\ box_stage = "kJpegRecon"
    BY <1>2 DEF JbrdInv
  <2>2. CASE ReadBoxHeader
    <3>1. PICK h : /\ h = file.boxes[box_count + 1]
                   /\ HeaderWaits(h) \/ HeaderRejected(h) \/ BoxEntered(h)
                   /\ UNCHANGED <<file, orig_events_wanted, events_wanted, recon_size>>
      BY <2>2, HeaderRead
    <3>2. CASE HeaderWaits(h)
      <4>1. UNCHANGED <<box_count, box_stage>>
        BY <3>2 DEF HeaderWaits
      <4> QED BY <2>1, <3>1, <4>1 DEF JbrdInv, JbrdRead, Jbrd
    <3>3. CASE HeaderRejected(h)
      BY <3>3, ErrorReturned DEF HeaderRejected
    <3>4. CASE BoxEntered(h)
      <4>1. box_count' = box_count + 1 /\ box_stage' = StageOf(h.type) /\ box_stage = "kHeader"
        BY <2>2, <3>4 DEF BoxEntered, ReadBoxHeader
      <4>2. JbrdRead => JbrdRead'
        <5> SUFFICES ASSUME NEW i \in 1..box_count, Jbrd(i), recon_size = file.boxes[i].expects
                     PROVE  JbrdRead'
          BY DEF JbrdRead
        <5>1. i \in 1..box_count'
          BY <2>0, <4>1
        <5> QED BY <3>1, <5>1 DEF JbrdRead, Jbrd
      <4>3. ASSUME jr \in events_wanted, NEW i \in 1..box_count', Jbrd(i)'
            PROVE  i = box_count' /\ box_stage' = "kJpegRecon"
        <5>1. Jbrd(i)
          BY <3>1, <4>3 DEF Jbrd
        <5>2. i \in 1..box_count \/ i = box_count + 1
          BY <2>0, <4>1
        <5>3. i = box_count + 1
          BY <2>1, <4>1, <4>3, <5>1, <5>2
        <5>4. h.type = "jbrd" /\ jr \in orig_events_wanted
          BY <3>1, <4>3, <5>1, <5>3 DEF Jbrd, WantedInv
        <5>5. StageOf(h.type) = "kJpegRecon"
          BY <5>4 DEF StageOf
        <5> QED BY <4>1, <5>3, <5>5
      <4> QED BY <2>1, <3>1, <4>2, <4>3 DEF JbrdInv
    <3> QED BY <3>1, <3>2, <3>3, <3>4
  <2>3. CASE ReadJpegRecon
    <3>1. UNCHANGED <<file, box_count, orig_events_wanted>> /\ box_stage = "kJpegRecon"
      BY <2>3 DEF ReadJpegRecon, application, settings
    <3>2. CASE UNCHANGED <<recon_size, box_stage, events_wanted>>
      BY <2>1, <3>1, <3>2 DEF JbrdInv, JbrdRead, Jbrd
    <3>3. CASE /\ recon_size' = file.boxes[box_count].expects /\ box_stage' = "kHeader"
               /\ events_wanted' = events_wanted \ {jr}
      <4>1. jr \in events_wanted /\ events_wanted \subseteq orig_events_wanted
        BY <1>2, <3>1 DEF ReconInv, WantedInv
      <4>2. file.boxes[Cur].type = "jbrd" /\ Cur \in 1..Len(file.boxes) /\ Cur = box_count
        BY <1>2, <3>1, CurFacts DEF PInv, StageInv
      <4>3. JbrdRead'
        <5>1. box_count \in 1..box_count'
          BY <2>0, <3>1, <4>2
        <5> QED BY <3>1, <3>3, <4>2, <5>1 DEF JbrdRead, Jbrd
      <4> QED BY <3>1, <3>3, <4>1, <4>3 DEF JbrdInv
    <3> QED BY <1>2, <2>3, <3>2, <3>3, JbrdDecoded
  <2>4. CASE ~ReadBoxHeader /\ ~ReadJpegRecon
    <3>1. /\ UNCHANGED <<file, box_count, orig_events_wanted, recon_size>>
          /\ jr \in events_wanted' <=> jr \in events_wanted
          /\ box_stage = "kJpegRecon" => box_stage' = box_stage
      BY <1>2, <2>4, NotHeader
    <3> QED BY <2>1, <3>1 DEF JbrdInv, JbrdRead, Jbrd
  <2> QED BY <2>2, <2>3, <2>4
<1> QED BY <1>1, <1>2, StepFrom

InCodestream == ReadHeaders \/ ReturnBasicInfo \/ ReadFrameHeader \/ StartFrame \/ DecodeFrame
                \/ FinishCodestream \/ CodestreamTooShort

\* Only in a box of the codestream is it read.
LEMMA OutsideCodestream ==
  ASSUME PInv, Next, box_stage # "kCodestream"
  PROVE  /\ UNCHANGED <<codestream_copy, progress>> /\ (CanUseMoreCodestreamInput' => CanUseMoreCodestreamInput)
         /\ pc' # "CodestreamResult"
         /\ pc' # "Codestream"
<1> USE DEF codestream, seen, CanUseMoreCodestreamInput
<1>1. pc \notin {"Codestream", "CodestreamResult"}
  BY LiveFacts
<1>2. CASE OutputBox \/ StoreMetadata \/ SetMetadata \/ WriteOutput \/ NoReconstruction
  BY <1>2, ContinueFacts DEF OutputBox, StoreMetadata, SetMetadata, WriteOutput, NoReconstruction, Goto, Return
<1>3. CASE StartCodestream \/ AtBoxEnd \/ ReadFtyp \/ ReadPartialCodestream \/ SkipBox
  BY <1>3, ContinueFacts DEF StartCodestream, AtBoxEnd, ReadFtyp, ReadPartialCodestream, SkipBox, Goto, Return
<1>4. CASE ReadBoxHeader
  <2>1. UNCHANGED <<codestream_copy, progress, stage>>
    BY <1>4 DEF ReadBoxHeader
  <2>2. Return("NEED_MORE_INPUT") \/ Return("ERROR") \/ Return("BOX") \/ Continue
    BY <1>4, ReadBoxHeaderPlaces
  <2> QED BY <2>1, <2>2, ContinueFacts DEF Return
<1>5. CASE ReadJpegRecon
  <2>1. UNCHANGED <<codestream_copy, progress, stage>>
    BY <1>5 DEF ReadJpegRecon
  <2>2. (\E st : Return(st)) \/ Continue
    BY <1>5, Zenon DEF ReadJpegRecon
  <2> QED BY <2>1, <2>2, ContinueFacts DEF Return
<1>6. CASE ProcessInput
  BY <1>6, ContinueFacts DEF ProcessInput, Return
<1>7. CASE SilentBetween
  <2>1. UNCHANGED <<codestream_copy, progress, stage>>
    <3>1. CASE CalmBetween
      BY <3>1 DEF CalmBetween, SetInput, ReleaseInput, CloseInput, SetJPEGBuffer, ReleaseJPEGBuffer,
         SetImageOutBuffer
    <3>2. CASE (\E size \in BoxBufferSizes : SetBoxBuffer(size)) \/ ReleaseBoxBuffer
      BY <3>2 DEF SetBoxBuffer, ReleaseBoxBuffer
    <3> QED BY <1>7, <3>1, <3>2 DEF SilentBetween
  <2>2. UNCHANGED pc
    BY <1>7, SilentBetweenStep
  <2> QED BY <1>1, <2>1, <2>2
<1>8. CASE Stopped
  BY <1>1, <1>8 DEF Stopped, vars
<1>9. ASSUME EnterCodestream \/ InCodestream \/ CopyAndReadOn \/ AfterCodestream \/ CodestreamEvent
      PROVE  FALSE
  BY <1>1, <1>9 DEF EnterCodestream, InCodestream, CopyAndReadOn, AfterCodestream, CodestreamEvent, ReadHeaders,
     ReturnBasicInfo, ReadFrameHeader, StartFrame, DecodeFrame, FinishCodestream, CodestreamTooShort
<1> QED BY <1>2, <1>3, <1>4, <1>5, <1>6, <1>7, <1>8, <1>9
        DEF Next, HandleBoxes, Application, SilentBetween, CalmBetween, InCodestream

\* JxlDecoderProcessCodestream() consumes nothing, and asks for more only if
\* there is not enough.
LEMMA InCodestreamStep ==
  ASSUME PInv, DoneInv, ShortInv, InCodestream
  PROVE  /\ UNCHANGED <<next_in, avail_in, boxes, codestream_copy>> /\ pc = "Codestream"
         /\ pc' = "CodestreamResult" /\ result' = "NEED_MORE_INPUT" =>
              CodestreamTooShort /\ CanUseMoreCodestreamInput /\ ~Enough
<1>1. UNCHANGED <<next_in, avail_in, boxes, codestream_copy>> /\ pc = "Codestream"
  <2> USE DEF DecodingCodestream, input
  <2>1. CASE ReadHeaders \/ ReturnBasicInfo \/ ReadFrameHeader \/ StartFrame
    BY <2>1 DEF ReadHeaders, ReturnBasicInfo, ReadFrameHeader, StartFrame
  <2>2. CASE DecodeFrame \/ FinishCodestream \/ CodestreamTooShort
    BY <2>2 DEF DecodeFrame, FinishCodestream, CodestreamTooShort
  <2> QED BY <2>1, <2>2 DEF InCodestream
<1>2. ASSUME pc' = "CodestreamResult", result' = "NEED_MORE_INPUT" PROVE CodestreamTooShort
  <2>1. CASE ReadHeaders \/ ReturnBasicInfo \/ ReadFrameHeader \/ StartFrame
    BY <1>2, <2>1 DEF ReadHeaders, ReturnBasicInfo, ReadFrameHeader, StartFrame, CodestreamResult, Goto
  <2>2. CASE DecodeFrame \/ FinishCodestream
    BY <1>2, <2>2 DEF DecodeFrame, FinishCodestream, CodestreamResult
  <2> QED BY <2>1, <2>2 DEF InCodestream
<1>3. ASSUME CodestreamTooShort PROVE CanUseMoreCodestreamInput /\ ~Enough
  <2>1. ~Enough /\ (progress = "kHeader" => FramesWanted)
    BY <1>3 DEF CodestreamTooShort
  <2>2. ASSUME stage = "kCodestreamFinished" PROVE FALSE
    <3>1. progress = "last"
      BY <2>1, <2>2 DEF DoneInv
    <3>2. Needed = 0
      BY <3>1 DEF Needed
    <3>3. Codestream \in Seq(Int)
      <4>1. pc = "Codestream" /\ box_stage = "kCodestream" /\ Live /\ InputInv
        BY <1>1, LiveFacts DEF PInv
      <4>2. AvailCodestream \in 0..avail_in
        BY <4>1, AvailCodestreamFacts
      <4>3. SubSeq(Input, 1, AvailCodestream) = Run(file_pos, AvailCodestream)
        BY <4>1, <4>2, InputPart
      <4>4. file_pos \in Nat /\ avail_in \in Nat
        BY DEF PInv, InputInv
      <4>5. Run(file_pos, AvailCodestream) \in Seq(Int)
        BY <4>2, <4>4, RunFacts
      <4>6. codestream_copy \in Seq(Int)
        BY DEF ShortInv
      <4> QED BY <4>3, <4>5, <4>6 DEF Codestream
    <3>4. Len(Codestream) \in Nat
      BY <3>3, LenProperties
    <3> QED BY <2>1, <3>2, <3>4 DEF Enough
  <2> QED BY <2>1, <2>2 DEF CanUseMoreCodestreamInput
<1> QED BY <1>1, <1>2, <1>3

\* Steps of a codestream box that are not about the codestream.
Elsewhere ==
  OutputBox \/ StoreMetadata \/ SetMetadata \/ WriteOutput \/ NoReconstruction \/ ProcessInput \/ SilentBetween

LEMMA ElsewhereStep ==
  ASSUME PInv, Elsewhere
  PROVE  /\ UNCHANGED <<codestream_copy, box_stage>>
         /\ pc' \notin {"Codestream", "CodestreamResult"}
<1> USE DEF codestream, seen, boxes
<1>1. CASE OutputBox \/ StoreMetadata \/ SetMetadata \/ WriteOutput \/ NoReconstruction
  BY <1>1, ContinueFacts DEF OutputBox, StoreMetadata, SetMetadata, WriteOutput, NoReconstruction, Goto, Return
<1>2. CASE ProcessInput
  BY <1>2, ContinueFacts DEF ProcessInput, Return
<1>3. CASE SilentBetween
  <2>1. UNCHANGED <<codestream_copy, box_stage>>
    <3>1. CASE CalmBetween
      BY <3>1 DEF CalmBetween, SetInput, ReleaseInput, CloseInput, SetJPEGBuffer, ReleaseJPEGBuffer,
         SetImageOutBuffer
    <3>2. CASE (\E size \in BoxBufferSizes : SetBoxBuffer(size)) \/ ReleaseBoxBuffer
      BY <3>2 DEF SetBoxBuffer, ReleaseBoxBuffer
    <3> QED BY <1>3, <3>1, <3>2 DEF SilentBetween
  <2>2. UNCHANGED pc /\ pc = "Application"
    BY <1>3, SilentBetweenStep DEF Between
  <2> QED BY <2>1, <2>2
<1> QED BY <1>1, <1>2, <1>3 DEF Elsewhere

\* What JxlDecoderProcessCodestream() sees.
LEMMA CodestreamSeen ==
  ASSUME PInv, pc # "Application", box_stage = "kCodestream"
  PROVE  /\ SubSeq(Input, 1, AvailCodestream) \in Seq(Int)
         /\ Len(SubSeq(Input, 1, AvailCodestream)) = AvailCodestream
         /\ AvailCodestream \in 0..avail_in /\ avail_in \in Nat /\ file_pos \in Nat
         /\ SubSeq(Input, 1, AvailCodestream) = Run(file_pos, AvailCodestream)
<1>1. Live /\ InputInv
  BY LiveFacts DEF PInv
<1>2. AvailCodestream \in 0..avail_in
  BY <1>1, AvailCodestreamFacts
<1>3. SubSeq(Input, 1, AvailCodestream) = Run(file_pos, AvailCodestream)
  BY <1>1, <1>2, InputPart
<1>4. file_pos \in Nat /\ avail_in \in Nat
  BY DEF PInv, InputInv
<1>5. AvailCodestream \in Nat
  BY <1>2, <1>4
<1>6. Run(file_pos, AvailCodestream) \in Seq(Int) /\ Len(Run(file_pos, AvailCodestream)) = AvailCodestream
  BY <1>4, <1>5, RunFacts
<1> QED BY <1>2, <1>3, <1>4, <1>6

LEMMA ShortStep ==
  ASSUME PInv, DoneInv, ShortInv, [Next]_vars
  PROVE  ShortInv'
<1>0. codestream_copy \in Seq(Int)
  BY DEF ShortInv
<1>1. CASE UNCHANGED vars
  <2>1. UNCHANGED <<pc, result, status, stage, box_stage, codestream_copy, progress, next_in, avail_in, box, file_pos>>
    BY <1>1 DEF vars, seen, boxes, codestream, input
  <2> QED BY <2>1 DEF ShortInv, Live, CanUseMoreCodestreamInput, Needed, Enough, Codestream, AvailCodestream, Input
<1>2. CASE Live /\ Next /\ box_stage # "kCodestream"
  <2>1. /\ UNCHANGED <<codestream_copy, progress>> /\ (CanUseMoreCodestreamInput' => CanUseMoreCodestreamInput)
        /\ pc' # "CodestreamResult" /\ pc' # "Codestream"
    BY <1>2, OutsideCodestream
  <2>2. Needed' = Needed
    BY <2>1 DEF Needed
  <2> QED BY <1>0, <1>2, <2>1, <2>2 DEF ShortInv
<1>3. CASE Live /\ Next /\ box_stage = "kCodestream"
  <2>1. CASE Elsewhere
    BY <1>0, <1>3, <2>1, ElsewhereStep DEF ShortInv
  <2>2. CASE EnterCodestream
    <3>1. /\ pc = "Stage" /\ pc' = "Codestream" /\ UNCHANGED <<box_stage, box>>
      BY <2>2 DEF EnterCodestream, Goto
    <3>2. CASE codestream_copy = <<>> /\ UNCHANGED codestream_copy
      <4>1. codestream_copy' = <<>>
        BY <3>2, Zenon
      <4> QED BY <1>0, <1>3, <3>1, <3>2, <4>1 DEF ShortInv
    <3>3. CASE /\ codestream_copy' = codestream_copy \o SubSeq(Input, 1, AvailCodestream)
               /\ AdvanceInput(AvailCodestream)
      <4> DEFINE s == SubSeq(Input, 1, AvailCodestream)
      <4>1. s \in Seq(Int) /\ AvailCodestream \in 0..avail_in /\ avail_in \in Nat /\ file_pos \in Nat
        BY <1>3, <3>1, CodestreamSeen
      <4> HIDE DEF s
      <4>2. codestream_copy' \in Seq(Int)
        <5>1. codestream_copy \o s \in Seq(Int)
          BY <1>0, <4>1, ConcatProperties
        <5> QED BY <3>3, <5>1 DEF s
      <4>3. AvailCodestream' = 0
        <5>1. /\ avail_in' = avail_in - AvailCodestream /\ file_pos' = file_pos + AvailCodestream
          BY <3>3 DEF AdvanceInput
        <5>2. box \in BoxRecords /\ (~box.unbounded => box.end - file_pos \in Nat)
          BY <1>3, <4>1, CurFacts DEF BoxRecords
        <5>3. box.unbounded \in BOOLEAN
          BY <5>2 DEF BoxRecords
        <5>4. CASE box.unbounded
          BY <3>1, <4>1, <5>1, <5>4 DEF AvailCodestream
        <5>5. CASE ~box.unbounded
          <6> DEFINE e == box.end
          <6>1. AvailCodestream = Min2(avail_in, e - file_pos) /\ AvailCodestream' = Min2(avail_in', e - file_pos')
            BY <3>1, <5>5 DEF AvailCodestream
          <6>2. e - file_pos \in Nat /\ e \in Nat
            BY <5>2, <5>5 DEF BoxRecords
          <6> HIDE DEF e
          <6> QED BY <4>1, <5>1, <6>1, <6>2 DEF Min2
        <5> QED BY <5>3, <5>4, <5>5
      <4> QED BY <1>3, <3>1, <4>2, <4>3 DEF ShortInv
    <3> QED BY <2>2, <3>2, <3>3 DEF EnterCodestream
  <2>3. CASE InCodestream
    <3>1. /\ UNCHANGED <<next_in, avail_in, boxes, codestream_copy>> /\ pc = "Codestream"
          /\ pc' = "CodestreamResult" /\ result' = "NEED_MORE_INPUT" =>
               CodestreamTooShort /\ CanUseMoreCodestreamInput /\ ~Enough
      BY <2>3, InCodestreamStep
    <3>2. UNCHANGED <<AvailCodestream, Codestream, box_stage, codestream_copy>>
      BY <3>1 DEF AvailCodestream, Codestream, Input, boxes
    <3>3. ASSUME CodestreamTooShort PROVE UNCHANGED <<stage, progress>>
      BY <3>3 DEF CodestreamTooShort
    <3>4. ASSUME pc' = "CodestreamResult", result' = "NEED_MORE_INPUT"
          PROVE  CanUseMoreCodestreamInput' /\ ~Enough'
      <4>1. UNCHANGED <<stage, progress>> /\ CanUseMoreCodestreamInput /\ ~Enough
        BY <3>1, <3>3, <3>4
      <4> QED BY <3>2, <4>1 DEF CanUseMoreCodestreamInput, Enough, Needed
    <3>5. pc' \in {"Codestream", "CodestreamResult"} /\ codestream_copy' # <<>> => AvailCodestream' = 0
      BY <3>1, <3>2 DEF ShortInv
    <3> QED BY <1>0, <1>3, <3>2, <3>4, <3>5 DEF ShortInv
  <2>4. CASE CopyAndReadOn
    <3>0. pc = "CodestreamResult" /\ result = "NEED_MORE_INPUT" /\ UNCHANGED <<stage, progress>>
      BY <2>4 DEF CopyAndReadOn, seen
    <3>1. CanUseMoreCodestreamInput /\ ~Enough
      BY <3>0 DEF ShortInv
    <3>2. codestream_copy' = Codestream
      BY <2>4 DEF CopyAndReadOn, Codestream
    <3>3. codestream_copy' \in Seq(Int)
      <4>1. SubSeq(Input, 1, AvailCodestream) \in Seq(Int)
        BY <1>3, <3>0, CodestreamSeen
      <4> QED BY <1>0, <3>2, <4>1 DEF Codestream
    <3>4. Len(codestream_copy') < Needed
      <4>1. Len(Codestream) \in Nat /\ Needed \in Nat
        BY <3>2, <3>3, LenProperties, SizesAssumption DEF Needed
      <4> QED BY <3>1, <3>2, <4>1 DEF Enough
    <3>5. Needed' = Needed
      BY <3>0 DEF Needed
    <3>6. pc' \notin {"Codestream", "CodestreamResult"}
      BY <2>4, ContinueFacts DEF CopyAndReadOn, Return
    <3> QED BY <3>3, <3>4, <3>5, <3>6 DEF ShortInv
  <2>5. CASE AfterCodestream
    <3>1. UNCHANGED <<stage, codestream_copy>> /\ pc = "CodestreamResult" /\ result = "SUCCESS"
      BY <2>5 DEF AfterCodestream, codestream, seen
    <3>2. ~CanUseMoreCodestreamInput'
      BY <3>1 DEF PInv, StageInv, CanUseMoreCodestreamInput
    <3>3. pc' \notin {"Codestream", "CodestreamResult"}
      BY <2>5, ContinueFacts DEF AfterCodestream, Return
    <3> QED BY <1>0, <3>1, <3>2, <3>3 DEF ShortInv
  <2>6. CASE CodestreamEvent
    <3>1. UNCHANGED <<codestream_copy, box_stage>>
      BY <2>6 DEF CodestreamEvent, codestream, boxes
    <3>2. pc' \notin {"Codestream", "CodestreamResult"}
      BY <2>6, ContinueFacts DEF CodestreamEvent, Return
    <3> QED BY <1>0, <1>3, <3>1, <3>2 DEF ShortInv
  <2>7. ASSUME StartCodestream \/ AtBoxEnd \/ ReadBoxHeader \/ ReadFtyp \/ ReadPartialCodestream \/ SkipBox
               \/ ReadJpegRecon
        PROVE  FALSE
    BY <1>3, <2>7 DEF StartCodestream, AtBoxEnd, ReadBoxHeader, ReadFtyp, ReadPartialCodestream, SkipBox, ReadJpegRecon
  <2>8. CASE Stopped
    BY <2>8, <1>1 DEF Stopped
  <2> QED BY <1>3, <2>1, <2>2, <2>3, <2>4, <2>5, <2>6, <2>7, <2>8
          DEF Next, HandleBoxes, Application, Elsewhere, SilentBetween, CalmBetween, InCodestream
<1> QED BY <1>1, <1>2, <1>3, StepFrom

\* What a round of storing metadata leads to.
Stored(m) ==
  /\ store[m] = 1 /\ store'[m] \in {1, 2} /\ metadata'[m] \in Seq(Int) /\ box_count = First(m)
  /\ file.container /\ Inner(file.boxes[box_count]) = m
  /\ \A k \in Meta : k # m => store[k] # 1 /\ store'[k] = store[k] /\ metadata'[k] = metadata[k]
  /\ Goto("Reconstruct") \/ (Return("ERROR") /\ IsBrob /\ Size < 1)
  /\ store'[m] = 2 /\ box.unbounded => Len(metadata'[m]) >= recon_size[m]
  /\ pc' = "Reconstruct" /\ store'[m] = 1 /\ box.unbounded =>
       Len(metadata'[m]) < recon_size[m] \/ (IsBrob /\ metadata_decoder'.pos < Size)

LEMMA StoreOutcome ==
  ASSUME PInv, PlaceInv, StoredInv, ReconInv, StoreMetadata
  PROVE  \/ ~Storing /\ UNCHANGED <<store, metadata, metadata_decoder>> /\ Goto("Reconstruct")
         \/ \E m \in Meta : Stored(m)
<1>0. pc = "StoreMetadata" /\ pc # "Application" /\ Live /\ box_stage # "kHeader"
  BY DEF StoreMetadata, Live, PlaceInv
<1>1. CASE ~Storing
  BY <1>1 DEF StoreMetadata, stored
<1>2. CASE Storing
  <2> DEFINE m == IF store["Exif"] = 1 THEN "Exif" ELSE "xml "
             d == metadata_decoder
             r == Process(d, Unlimited)
             all == metadata[m] \o r.out
             wait == box.unbounded /\ Len(all) < recon_size[m]
  <2>1. /\ metadata_decoder' = r.dec /\ metadata' = [metadata EXCEPT ![m] = all]
        /\ store' = IF r.result = "SUCCESS" /\ ~wait
                    THEN [k \in Meta |-> IF store[k] = 1 THEN 2 ELSE store[k]] ELSE store
        /\ IF r.result = "ERROR" THEN Return("ERROR") ELSE Goto("Reconstruct")
    BY <1>2 DEF StoreMetadata
  <2>2. m \in Meta /\ store[m] = 1 /\ store \in [Meta -> 0..2] /\ metadata \in [Meta -> Seq(Int)]
    BY <1>2 DEF Storing, Meta, StoredInv
  <2> HIDE DEF m
  <2>3. /\ file.container /\ box_stage = "kSkip" /\ box_count = First(m)
        /\ Inner(file.boxes[box_count]) = m
        /\ Reads(d, metadata[m], IsBrob, box, Size, file_pos, sent) /\ d.inflated = <<>>
    BY <1>0, <2>2 DEF StoredInv, Tracks
  <2>4. \A k \in Meta : k # m => store[k] # 1
    BY <1>0, <2>3 DEF StoredInv
  <2>5. Size \in Nat /\ Size <= FileSize(file) /\ FileSize(file) \in Nat /\ box \in BoxRecords
    BY <1>0, <2>3, BoxFacts, SentFacts
  <2>6. Unlimited \in Nat /\ Unlimited >= 2 * Size
    BY <2>5 DEF Unlimited
  <2>7. IsBrob \in BOOLEAN
    BY DEF IsBrob
  <2>8. Wrote(r, d, metadata[m], IsBrob, box, Size, file_pos, sent, Unlimited)
    <3> HIDE DEF d
    <3> QED BY <1>0, <2>3, <2>6, <2>7, ProcessFacts
  <2> HIDE DEF r
  <2>9. /\ Reads(r.dec, all, IsBrob, box, Size, file_pos, sent)
        /\ r.result \in Results \ {"BOX_NEED_MORE_OUTPUT"}
        /\ r.result = "NEED_MORE_INPUT" => r.dec.pos < Size /\ (box.unbounded => IsBrob)
        /\ r.result = "ERROR" => IsBrob /\ Size < 1
    BY <2>3, <2>6, <2>8 DEF Wrote, Results
  <2> HIDE DEF d, all
  <2>10. all \in Seq(Int) /\ Len(all) \in Nat /\ recon_size[m] \in Nat
    BY <2>2, <2>9, LenProperties DEF Reads, ReconInv
  <2>11. /\ metadata'[m] = all /\ \A k \in Meta : k # m => metadata'[k] = metadata[k]
    BY <2>1, <2>2, <2>10
  <2>12. ~wait /\ box.unbounded => Len(all) >= recon_size[m]
    BY <2>10
  <2>13. wait => box.unbounded /\ Len(all) < recon_size[m]
    OBVIOUS
  <2> HIDE DEF wait
  <2>14. /\ \A k \in Meta : k # m => store'[k] = store[k]
         /\ store'[m] \in {1, 2}
         /\ store'[m] = 2 => r.result = "SUCCESS" /\ ~wait
         /\ store'[m] = 1 /\ r.result = "SUCCESS" => wait
    <3>1. CASE r.result = "SUCCESS" /\ ~wait
      <4>1. store' = [k \in Meta |-> IF store[k] = 1 THEN 2 ELSE store[k]]
        BY <2>1, <3>1
      <4> QED BY <2>2, <2>4, <3>1, <4>1
    <3>2. CASE ~(r.result = "SUCCESS" /\ ~wait)
      <4>1. store' = store
        BY <2>1, <3>2
      <4> QED BY <2>2, <3>2, <4>1
    <3> QED BY <3>1, <3>2
  <2>15. Goto("Reconstruct") \/ (Return("ERROR") /\ IsBrob /\ Size < 1)
    BY <2>1, <2>9
  <2>16. ASSUME pc' = "Reconstruct", store'[m] = 1, box.unbounded
         PROVE  Len(metadata'[m]) < recon_size[m] \/ (IsBrob /\ metadata_decoder'.pos < Size)
    <3>1. r.result # "ERROR"
      BY <2>1, <2>16 DEF Return
    <3>2. r.result \in {"SUCCESS", "NEED_MORE_INPUT"}
      BY <2>9, <3>1 DEF Results
    <3> QED BY <2>1, <2>9, <2>11, <2>13, <2>14, <2>16, <3>2
  <2>17. store'[m] = 2 /\ box.unbounded => Len(metadata'[m]) >= recon_size[m]
    BY <2>11, <2>12, <2>14
  <2>18. Stored(m)
    BY <2>2, <2>3, <2>4, <2>10, <2>11, <2>14, <2>15, <2>16, <2>17 DEF Stored
  <2> QED BY <2>2, <2>18
<1> QED BY <1>1, <1>2

\* Within a box, storing comes before the stage.
LEMMA StageFrom ==
  ASSUME PInv, Next, pc' \in AfterStore, box_stage' # "kHeader"
  PROVE  StoreMetadata \/ ((SetMetadata \/ WriteOutput \/ NoReconstruction) /\ pc = "Reconstruct")
<1> USE DEF AfterStore
<1>1. CASE SetMetadata \/ WriteOutput \/ NoReconstruction
  BY <1>1 DEF SetMetadata, WriteOutput, NoReconstruction
<1>2. CASE OutputBox
  BY <1>2 DEF OutputBox, Goto, Return
<1>3. CASE StartCodestream \/ AtBoxEnd \/ ReadFtyp \/ ReadPartialCodestream \/ SkipBox
  BY <1>3, ContinueFacts DEF StartCodestream, AtBoxEnd, ReadFtyp, ReadPartialCodestream, SkipBox, Goto, Return
<1>4. CASE ReadBoxHeader
  BY <1>4, ReadBoxHeaderPlaces, ContinueFacts DEF Return
<1>5. CASE ReadJpegRecon
  <2>1. (\E st : Return(st)) \/ Continue
    BY <1>5, Zenon DEF ReadJpegRecon
  <2> QED BY <2>1, ContinueFacts DEF Return
<1>6. CASE ProcessInput
  BY <1>6, ContinueFacts DEF ProcessInput, Return
<1>7. CASE SilentBetween
  BY <1>7, SilentBetweenStep DEF Between
<1>8. CASE Stopped
  BY <1>8 DEF Stopped, vars
<1>9. CASE EnterCodestream \/ CopyAndReadOn \/ AfterCodestream \/ CodestreamEvent
  BY <1>9, ContinueFacts DEF EnterCodestream, CopyAndReadOn, AfterCodestream, CodestreamEvent, Goto, Return
<1>10. CASE ReadHeaders \/ ReturnBasicInfo \/ ReadFrameHeader \/ StartFrame
  BY <1>10 DEF ReadHeaders, ReturnBasicInfo, ReadFrameHeader, StartFrame, Goto, CodestreamResult
<1>11. CASE DecodeFrame \/ FinishCodestream \/ CodestreamTooShort
  BY <1>11 DEF DecodeFrame, FinishCodestream, CodestreamTooShort, CodestreamResult
<1> QED BY <1>1, <1>2, <1>3, <1>4, <1>5, <1>6, <1>7, <1>8, <1>9, <1>10, <1>11
        DEF Next, HandleBoxes, Application, SilentBetween, CalmBetween

LEMMA MetaStep ==
  ASSUME PInv, PInv', PlaceInv, StoredInv, StoredInv', ReconInv, MetaInv, [Next]_vars
  PROVE  MetaInv'
<1>1. CASE UNCHANGED vars
  <2>1. UNCHANGED <<pc, status, file, store, metadata, metadata_decoder, recon_size, box_count, box>>
    BY <1>1 DEF vars, application, stored, boxes, jpeg
  <2>2. UNCHANGED <<IsBrob, Size>> /\ \A m : First(m)' = First(m)
    BY <2>1 DEF IsBrob, Size, First
  <2> QED BY <2>1, <2>2 DEF MetaInv, Live
<1>2. CASE Live /\ Next
  <2>1. ASSUME NEW m \in Meta, Live', pc' \in AfterStore, store'[m] = 1, box'.unbounded
        PROVE  Len(metadata'[m]) < recon_size'[m] \/ (IsBrob' /\ metadata_decoder'.pos < Size')
    <3>0. file'.container /\ box_stage' = "kSkip"
      BY <2>1 DEF StoredInv
    <3>1. StoreMetadata \/ ((SetMetadata \/ WriteOutput \/ NoReconstruction) /\ pc = "Reconstruct")
      BY <1>2, <2>1, <3>0, StageFrom
    <3>2. ~ReadBoxHeader /\ ~ReadJpegRecon
      BY <3>1 DEF StoreMetadata, ReadBoxHeader, ReadJpegRecon
    <3>3. UNCHANGED <<file, box_count, recon_size>> /\ box' = box
      BY <1>2, <3>0, <3>2, NotHeader
    <3>4. UNCHANGED <<IsBrob, Size>>
      BY <3>3 DEF IsBrob, Size
    <3>5. CASE StoreMetadata
      <4>1. CASE ~Storing /\ UNCHANGED store
        BY <2>1, <4>1 DEF Storing
      <4>2. CASE \E k \in Meta : Stored(k)
        <5>1. PICK k \in Meta : Stored(k)
          BY <4>2
        <5>2. k = m
          BY <2>1, <5>1 DEF Stored
        <5>3. pc' = "Reconstruct"
          BY <2>1, <5>1 DEF Stored, Goto, Return, AfterStore
        <5> QED BY <2>1, <3>3, <3>4, <5>1, <5>2, <5>3 DEF Stored
      <4> QED BY <3>5, <4>1, <4>2, StoreOutcome
    <3>6. CASE (SetMetadata \/ WriteOutput \/ NoReconstruction) /\ pc = "Reconstruct"
      <4>1. ~StoreMetadata
        BY <3>6 DEF StoreMetadata
      <4>2. UNCHANGED <<store, metadata, metadata_decoder>>
        BY <1>2, <3>2, <4>1, NotHeader
      <4> QED BY <1>2, <2>1, <3>3, <3>4, <3>6, <4>2 DEF MetaInv, AfterStore
    <3> QED BY <3>1, <3>5, <3>6
  <2>2. ASSUME NEW m \in Meta, Live', store'[m] = 2, file'.boxes[First(m)'].unbounded
        PROVE  /\ First(m)' = box_count' /\ box_count' > 0 /\ Inner(file'.boxes[box_count']) = m
               /\ Len(metadata'[m]) >= recon_size'[m]
    <3>0. /\ file' = file /\ First(m)' = First(m)
          /\ ReadBoxHeader => store[m] = 2
      <4>1. file' = file
        BY <1>2, NotHeader, ReadBoxHeaderPlaces
      <4>2. ASSUME ReadBoxHeader PROVE store[m] = 2
        <5>1. PICK h : HeaderWaits(h) \/ HeaderRejected(h) \/ BoxEntered(h)
          BY <4>2, HeaderRead
        <5>2. ~HeaderRejected(h)
          BY <2>2, ErrorReturned DEF HeaderRejected
        <5> QED BY <2>2, <5>1, <5>2 DEF HeaderWaits, BoxEntered
      <4> QED BY <4>1, <4>2 DEF First
    <3>1. ASSUME store[m] = 2
          PROVE  /\ First(m) = box_count /\ box_count > 0 /\ Inner(file.boxes[box_count]) = m
                 /\ Len(metadata[m]) >= recon_size[m]
      BY <1>2, <2>2, <3>0, <3>1 DEF MetaInv
    <3>2. CASE ReadBoxHeader
      <4>1. /\ file.boxes[box_count].unbounded /\ file.container /\ IsFile(file)
            /\ box_count \in 0..Len(file.boxes) - 1 /\ box_count \in Nat
        BY <2>2, <3>0, <3>1, <3>2, BoxHeaderFacts
      <4>2. Len(file.boxes) \in Nat /\ DOMAIN file.boxes = 1..Len(file.boxes)
        BY <4>1, FileBoxes
      <4>3. box_count \in 1..Len(file.boxes) /\ box_count # Len(file.boxes)
        BY <3>0, <3>1, <3>2, <4>1, <4>2
      <4> QED BY <4>1, <4>3, FileBoxes
    <3>3. CASE ~ReadBoxHeader
      <4>1. UNCHANGED box_count
        BY <1>2, <3>3, NotHeader
      <4>2. CASE StoreMetadata
        <5>0. ~ReadJpegRecon
          BY <4>2 DEF StoreMetadata, ReadJpegRecon
        <5>1. UNCHANGED recon_size
          BY <1>2, <3>3, <5>0, NotHeader
        <5>2. CASE UNCHANGED <<store, metadata>>
          BY <2>2, <3>0, <3>1, <4>1, <5>1, <5>2
        <5>3. CASE \E k \in Meta : Stored(k)
          <6>1. PICK k \in Meta : Stored(k)
            BY <5>3
          <6>2. CASE k = m
            <7>1. box_stage = "kSkip"
              BY <1>2, <6>1, <6>2 DEF StoredInv, Stored
            <7>2. box.unbounded = file.boxes[box_count].unbounded /\ box_count \in 1..Len(file.boxes)
              BY <1>2, <6>1, <7>1, BoxFacts DEF Stored
            <7>3. box_count > 0
              BY <7>2
            <7> QED BY <2>2, <3>0, <4>1, <5>1, <6>1, <6>2, <7>2, <7>3 DEF Stored
          <6>3. CASE k # m
            BY <2>2, <3>0, <3>1, <4>1, <5>1, <6>1, <6>3 DEF Stored
          <6> QED BY <6>2, <6>3
        <5> QED BY <4>2, <5>2, <5>3, StoreOutcome
      <4>3. CASE ~StoreMetadata
        <5>1. UNCHANGED <<store, metadata>>
          BY <1>2, <3>3, <4>3, NotHeader
        <5>2. ~ReadJpegRecon
          <6>1. ASSUME ReadJpegRecon PROVE FALSE
            <7>1. box_stage = "kJpegRecon"
              BY <6>1 DEF ReadJpegRecon
            <7>2. file.boxes[Cur].type = "jbrd" /\ file.container
              BY <1>2, <7>1 DEF PInv, StageInv
            <7>3. Inner(file.boxes[box_count]) = "jbrd"
              BY <7>2 DEF Cur, Inner
            <7> QED BY <2>2, <3>1, <5>1, <7>3 DEF Meta
          <6> QED BY <6>1
        <5>3. UNCHANGED recon_size
          BY <1>2, <3>3, <5>2, NotHeader
        <5> QED BY <2>2, <3>0, <3>1, <4>1, <5>1, <5>3
      <4> QED BY <4>2, <4>3
    <3> QED BY <3>2, <3>3
  <2> QED BY <2>1, <2>2 DEF MetaInv
<1> QED BY <1>1, <1>2, StepFrom

-----------------------------------------------------------------------------
(* What follows from the order of the boxes of a well-formed file. *)

LEMMA BeforeAll ==
  ASSUME NEW f, IsFile(f)
  PROVE  Before(f, Len(f.boxes)) = CodestreamOf(f)
<1> DEFINE p == Pieces(f)
           n == Len(f.boxes)
<1>1. p \in Seq(Seq(Int)) /\ Len(p) = n
  BY PiecesFacts
<1>2. CodestreamOf(f) = FlattenSeq(p)
  BY DEF CodestreamOf, Pieces
<1> HIDE DEF p
<1>3. SubSeq(p, 1, Len(p)) = p
  BY <1>1, SubSeqFull
<1> QED BY <1>1, <1>2, <1>3 DEF Before, p

LEMMA SmallestOf ==
  ASSUME NEW T, T \subseteq Nat, T # {}
  PROVE  Min(T) \in T
<1>1. \E x \in T : \A y \in T : x =< y
  BY SmallestElement
<1> QED BY <1>1, Zenon DEF Min

LEMMA LargestOf ==
  ASSUME NEW n \in Nat, NEW T, T \subseteq 1..n, T # {}
  PROVE  Max(T) \in T /\ \A y \in T : y <= Max(T)
<1> DEFINE R == {n - x : x \in T}
<1>1. \A x \in T : n - x \in Nat /\ x \in Nat
  OBVIOUS
<1>2. R \subseteq Nat /\ R # {}
  BY <1>1
<1> HIDE DEF R
<1>3. PICK z \in R : \A y \in R : z <= y
  BY <1>2, SmallestElement
<1>4. PICK x \in T : z = n - x
  BY <1>3 DEF R
<1>5. \A y \in T : x >= y
  <2> SUFFICES ASSUME NEW y \in T PROVE x >= y
    OBVIOUS
  <2>1. n - x <= n - y
    BY <1>3, <1>4 DEF R
  <2> QED BY <1>1, <2>1
<1>6. \E v \in T : \A y \in T : v >= y
  BY <1>5
<1>7. Max(T) \in T /\ \A y \in T : Max(T) >= y
  BY <1>6, Zenon DEF Max
<1>8. Max(T) \in Nat
  BY <1>1, <1>7
<1> QED BY <1>1, <1>7, <1>8

LEMMA OnlyOne ==
  ASSUME NEW n \in Nat, NEW T, T \subseteq 1..n, Cardinality(T) <= 1, NEW i \in T, NEW j \in T
  PROVE  i = j
<1>1. IsFiniteSet(1..n)
  BY FS_Interval
<1>2. IsFiniteSet(T) /\ Cardinality(T) \in Nat
  BY <1>1, FS_Subset, FS_CardinalityType
<1>3. IsFiniteSet({i, j}) /\ Cardinality({i, j}) <= Cardinality(T) /\ Cardinality({i, j}) \in Nat
  <2>1. {i, j} \in SUBSET T
    OBVIOUS
  <2> QED BY <1>2, <2>1, FS_Subset, FS_CardinalityType
<1>4. Cardinality({i, j}) # 0
  BY <1>3, FS_EmptySet
<1>5. Cardinality({i, j}) = 1
  BY <1>2, <1>3, <1>4
<1>6. \E x : {i, j} = {x}
  BY <1>3, <1>5, FS_Singleton
<1> QED BY <1>6

\* The first frame begins in one of the boxes.
LEMMA FrameBoxIn ==
  ASSUME NEW f, IsFile(f), Len(CodestreamOf(f)) = CodestreamSize
  PROVE  FrameBox(f) \in DOMAIN f.boxes
<1> DEFINE n == Len(f.boxes)
           first(i) == [k \in 1..i |-> CodestreamIn(f, k)]
           T == {i \in DOMAIN f.boxes : Len(FlattenSeq(first(i))) > HeadersSize}
<1>1. n \in Nat /\ DOMAIN f.boxes = 1..n
  BY FileBoxes
<1>2. first(n) = Pieces(f)
  BY <1>1 DEF Pieces
<1>3. FlattenSeq(first(n)) = CodestreamOf(f)
  BY <1>2 DEF CodestreamOf, Pieces
<1>4. n # 0
  <2>1. SUFFICES ASSUME n = 0 PROVE FALSE
    OBVIOUS
  <2>2. Before(f, 0) = CodestreamOf(f)
    BY <2>1, BeforeAll
  <2>3. CodestreamOf(f) = <<>>
    BY <2>2, BeforeFacts
  <2>4. Len(CodestreamOf(f)) = 0
    BY <2>3, EmptySeq
  <2> QED BY <2>4, SizesAssumption
<1>5. n \in T
  <2>1. Len(FlattenSeq(first(n))) = CodestreamSize
    BY <1>3
  <2>2. CodestreamSize > HeadersSize
    BY SizesAssumption
  <2>3. n \in DOMAIN f.boxes /\ Len(FlattenSeq(first(n))) > HeadersSize
    <3> HIDE DEF n, first
    <3> QED BY <1>1, <1>4, <2>1, <2>2
  <2> HIDE DEF n, first
  <2> QED BY <2>3
<1>6. T \subseteq Nat /\ T # {} /\ T \subseteq DOMAIN f.boxes
  <2>1. T \subseteq DOMAIN f.boxes
    BY Zenon
  <2> HIDE DEF T
  <2> QED BY <1>1, <1>5, <2>1
<1>7. FrameBox(f) = Min(T)
  BY DEF FrameBox
<1> HIDE DEF T
<1> QED BY <1>6, <1>7, SmallestOf

LEMMA WellFormedFacts ==
  ASSUME NEW f, IsFile(f), WellFormed(f), f.container
  PROVE  LET B == f.boxes
         IN  /\ Len(B) \in Nat /\ Len(B) >= 2 /\ B[1].type = "JXL " /\ B[2].type = "ftyp" /\ B[2].size >= 3
             /\ ~B[2].unbounded
             /\ \A i \in 1..Len(B) : /\ B[i].type = "ftyp" => i = 2
                                     /\ B[i].type = "brob" => B[i].size >= 2
                                     /\ B[i].type \in {"jxlp", "jbrd"} => B[i].size >= 1
                                     /\ B[i].type = "jbrd" => ~B[i].unbounded
             /\ \A i, j \in 1..Len(B) : B[i].type = "jbrd" /\ B[j].type = "jbrd" => i = j
             /\ \A i, j \in 1..Len(B) :
                  /\ B[i].type = "jxlc" \/ (B[i].type = "jxlp" /\ B[i].last)
                  /\ B[j].type \in {"jxlc", "jxlp"}
                  => j <= i
<1> DEFINE B == f.boxes
           n == Len(B)
<1>1. n \in Nat /\ DOMAIN B = 1..n /\ \A i \in 1..n : B[i].unbounded => i = n
  BY FileBoxes
<1>2. Len(CodestreamOf(f)) = CodestreamSize /\ WellFormedBoxes(B, FrameBox(f))
  BY DEF WellFormed
<1> HIDE DEF B
<1>3. /\ n >= 2 /\ B[1].type = "JXL " /\ OfType(B, "ftyp") = {2} /\ B[2].size >= 3
      /\ CodestreamBoxes(B) # {}
      /\ OfType(B, "jxlc") # {} => Cardinality(CodestreamBoxes(B)) = 1
      /\ \A i \in OfType(B, "jxlp") : B[i].last <=> i = Max(OfType(B, "jxlp"))
      /\ Cardinality(OfType(B, "jbrd")) <= 1
      /\ \A i \in OfType(B, "jbrd") : i < FrameBox(f)
  BY <1>2 DEF WellFormedBoxes
<1>4. \A i \in 1..n : /\ B[i].type = "brob" => B[i].size >= 2
                      /\ B[i].type \in {"jxlp", "jbrd"} => B[i].size >= 1
  BY <1>1, <1>2 DEF WellFormedBoxes
<1>5. \A t : OfType(B, t) = {i \in 1..n : B[i].type = t}
  BY <1>1 DEF OfType
<1> HIDE DEF n
<1>6. B[2].type = "ftyp" /\ \A i \in 1..n : B[i].type = "ftyp" => i = 2
  <2>1. 2 \in OfType(B, "ftyp")
    BY <1>3
  <2> QED BY <1>3, <1>5, <2>1
<1>7. ~B[2].unbounded
  <2>1. PICK c \in 1..n : B[c].type \in {"jxlc", "jxlp"}
    <3>1. PICK c : c \in OfType(B, "jxlc") \/ c \in OfType(B, "jxlp")
      BY <1>3, Zenon DEF CodestreamBoxes
    <3> QED BY <1>5, <3>1
  <2>2. c # 1 /\ c # 2
    BY <1>3, <1>6, <2>1
  <2>3. n # 2 /\ 2 \in 1..n
    <3>1. n \in Nat /\ c \in 1..n
      BY <1>1, <2>1
    <3> QED BY <2>2, <3>1
  <2> QED BY <1>1, <2>3
<1>8. \A i \in 1..n : B[i].type = "jbrd" => ~B[i].unbounded
  <2> SUFFICES ASSUME NEW i \in 1..n, B[i].type = "jbrd" PROVE ~B[i].unbounded
    OBVIOUS
  <2>1. i < FrameBox(f)
    BY <1>3, <1>5
  <2>2. FrameBox(f) \in 1..n
    BY <1>1, <1>2, FrameBoxIn DEF B
  <2>3. i # n
    BY <1>1, <2>1, <2>2
  <2> QED BY <1>1, <2>3
<1>9. \A i, j \in 1..n : B[i].type = "jbrd" /\ B[j].type = "jbrd" => i = j
  <2> SUFFICES ASSUME NEW i \in 1..n, NEW j \in 1..n, B[i].type = "jbrd", B[j].type = "jbrd" PROVE i = j
    OBVIOUS
  <2> DEFINE T == OfType(B, "jbrd")
  <2>1. T \subseteq 1..n /\ i \in T /\ j \in T /\ Cardinality(T) <= 1
    BY <1>3, <1>5
  <2> HIDE DEF T
  <2> QED BY <1>1, <2>1, OnlyOne
<1>10. ASSUME NEW i \in 1..n, NEW j \in 1..n,
              B[i].type = "jxlc" \/ (B[i].type = "jxlp" /\ B[i].last), B[j].type \in {"jxlc", "jxlp"}
       PROVE  j <= i
  <2>1. CASE B[i].type = "jxlc" \/ B[j].type = "jxlc"
    <3> DEFINE T == CodestreamBoxes(B)
    <3>1. T \subseteq 1..n /\ i \in T /\ j \in T
      BY <1>5, <1>10 DEF CodestreamBoxes
    <3>2. OfType(B, "jxlc") # {}
      BY <1>5, <2>1
    <3>3. Cardinality(T) <= 1
      <4>1. Cardinality(T) = 1
        BY <1>3, <3>2
      <4> QED BY <4>1
    <3> HIDE DEF T
    <3>4. i = j
      BY <1>1, <3>1, <3>3, OnlyOne
    <3> QED BY <1>1, <3>4
  <2>2. CASE B[i].type = "jxlp" /\ B[i].last /\ B[j].type = "jxlp"
    <3> DEFINE T == OfType(B, "jxlp")
    <3>1. T \subseteq 1..n /\ i \in T /\ j \in T
      BY <1>5, <2>2
    <3>2. i = Max(T)
      BY <1>3, <2>2, <3>1
    <3> HIDE DEF T
    <3> QED BY <1>1, <3>1, <3>2, LargestOf
  <2> QED BY <1>10, <2>1, <2>2
<1> QED BY <1>1, <1>3, <1>4, <1>6, <1>7, <1>8, <1>9, <1>10 DEF B, n

\* What the jbrd box expects is in the first boxes of each type.
LEMMA ExpectsFacts ==
  ASSUME NEW f, IsFile(f), WellFormed(f), f.container, NEW i \in 1..Len(f.boxes), f.boxes[i].type = "jbrd",
         NEW m \in Meta, f.boxes[i].expects[m] > 0
  PROVE  LET first == Min(Holding(f.boxes, m))
         IN  /\ first \in 1..Len(f.boxes) /\ Inner(f.boxes[first]) = m
             /\ Len(Plain(f, first)) = f.boxes[i].expects[m]
<1> DEFINE T == Holding(f.boxes, m)
<1>1. Len(f.boxes) \in Nat /\ DOMAIN f.boxes = 1..Len(f.boxes)
  BY FileBoxes
<1>2. i \in OfType(f.boxes, "jbrd")
  BY <1>1 DEF OfType
<1>3. T # {} /\ Len(Plain(f, Min(T))) = f.boxes[i].expects[m]
  BY <1>2 DEF WellFormed
<1>4. T \subseteq 1..Len(f.boxes) /\ T \subseteq Nat /\ \A k \in T : Inner(f.boxes[k]) = m
  BY <1>1 DEF Holding
<1> HIDE DEF T
<1>5. Min(T) \in T
  BY <1>3, <1>4, SmallestOf
<1> QED BY <1>3, <1>4, <1>5 DEF T

-----------------------------------------------------------------------------
(* The steps that can return an error. *)

Failed == status' \in {"ERROR", "ABORT"}
Truncated == sent < FileSize(file) /\ input_closed

LEMMA ErrorStatus ==
  ASSUME NEW st, Return(st), Failed
  PROVE  \/ st \in {"ERROR", "ABORT"}
         \/ st = "NEED_MORE_INPUT" /\ input_closed
         \/ st = "SUCCESS" /\ CanUseMoreCodestreamInput /\ last_codestream_seen
         \/ st = "SUCCESS" /\ ~CanUseMoreCodestreamInput /\ JbrdNeedMoreBoxes
BY DEF Return, Checked, Failed

\* A call works on input that follows file_pos.
LEMMA InputFacts ==
  ASSUME PInv, pc # "Application"
  PROVE  /\ Live /\ IsFile(file) /\ file_pos \in Nat /\ avail_in \in Nat /\ file_pos + avail_in = sent /\ sent \in Nat
         /\ Len(file.boxes) \in Nat /\ FileSize(file) \in Nat /\ sent <= FileSize(file)
         /\ have_container = file.container
<1>1. Live /\ unread = 0 /\ InputInv /\ have_container = file.container
  BY DEF Live, PInv, InputInv, HeaderInv
<1>2. IsFile(file) /\ Len(file.boxes) \in Nat
  BY <1>1, TheFile, FileBoxes
<1>3. file_pos \in Nat /\ avail_in \in Nat /\ file_pos + avail_in = sent
  BY <1>1 DEF InputInv
<1> QED BY <1>1, <1>2, <1>3, SentFacts

\* The codestream of all of the boxes is enough for every step.
LEMMA AllIsEnough ==
  ASSUME IsFile(file), WellFormed(file)
  PROVE  ~(Len(Before(file, Len(file.boxes))) < Needed)
<1>1. Len(Before(file, Len(file.boxes))) = CodestreamSize
  BY BeforeAll DEF WellFormed
<1>2. Needed \in Nat /\ Needed <= CodestreamSize /\ CodestreamSize \in Nat
  BY SizesAssumption DEF Needed
<1> QED BY <1>1, <1>2

\* Metadata that is expected is in the file.
LEMMA JbrdWants ==
  ASSUME PInv, ReconInv, JbrdInv, Live, WellFormed(file), NEW m \in Meta, recon_size[m] > 0
  PROVE  /\ file.container /\ "JPEG_RECONSTRUCTION" \in orig_events_wanted
         /\ First(m) \in 1..Len(file.boxes) /\ Inner(file.boxes[First(m)]) = m
         /\ Len(Plain(file, First(m))) = recon_size[m]
<1>1. IsFile(file) /\ Len(file.boxes) \in Nat
  BY TheFile, FileBoxes DEF PInv
<1>2. recon_size[m] \in Nat
  BY DEF ReconInv
<1>3. "JPEG_RECONSTRUCTION" \in orig_events_wanted \ events_wanted
  BY <1>2 DEF JbrdInv
<1>4. PICK i \in 1..box_count : Jbrd(i) /\ recon_size = file.boxes[i].expects
  BY <1>3 DEF JbrdInv, JbrdRead
<1>5. file.container
  <2>1. ~file.container => box_count = 0
    BY DEF PInv, HeaderInv
  <2> QED BY <2>1
<1>6. box_count \in 0..Len(file.boxes)
  <2>1. CASE box_stage = "kHeader"
    BY <2>1 DEF PInv, HeaderInv
  <2>2. CASE box_stage # "kHeader"
    BY <1>1, <1>5, <2>2, BoxFacts
  <2> QED BY <2>1, <2>2
<1>7. i \in 1..Len(file.boxes)
  BY <1>1, <1>6
<1>8. file.boxes[i].type = "jbrd" /\ file.boxes[i].expects[m] > 0
  BY <1>4 DEF Jbrd
<1>9. /\ First(m) \in 1..Len(file.boxes) /\ Inner(file.boxes[First(m)]) = m
      /\ Len(Plain(file, First(m))) = file.boxes[i].expects[m]
  BY <1>1, <1>5, <1>7, <1>8, ExpectsFacts DEF First
<1> QED BY <1>3, <1>4, <1>5, <1>9

LEMMA SignatureError ==
  ASSUME PInv, WellFormed(file), ProcessInput, Failed
  PROVE  Truncated
<1>0. pc = "Application" /\ status \notin Final /\ unread = 0 /\ Live
  BY DEF ProcessInput, Final, Live
<1>1. ~got_signature /\ avail_in < SignatureSize /\ Return(IF input_closed THEN "ERROR" ELSE "NEED_MORE_INPUT")
  <2>1. ASSUME Continue PROVE FALSE
    BY <1>0, <2>1, ContinueFacts DEF Failed, Final
  <2> QED BY <2>1 DEF ProcessInput
<1>2. input_closed
  BY <1>1, ErrorStatus
<1>3. InputInv /\ IsFile(file)
  BY TheFile DEF PInv
<1>4. box_stage = "kHeader" /\ box_count = 0 /\ file_pos = Ends(file)[box_count]
  BY <1>0, <1>1 DEF PInv, HeaderInv
<1>5. file_pos = 0
  BY <1>3, <1>4, EndsFacts
<1>6. sent = avail_in /\ avail_in \in Nat
  BY <1>0, <1>3, <1>5 DEF InputInv
<1>7. Len(file.boxes) \in Nat
  BY <1>3, FileBoxes
<1>8. SignatureSize \in Nat /\ FileSize(file) \in Nat
  BY SentFacts DEF SignatureSize
<1>9. SignatureSize <= FileSize(file)
  <2>1. CASE file.container
    <3>1. Len(file.boxes) >= 2 /\ file.boxes[2].size >= 3
      BY <1>3, <2>1, WellFormedFacts
    <3>2. 2 \in 1..Len(file.boxes)
      BY <1>7, <3>1
    <3>3. /\ file.boxes[2].size \in Nat /\ Ends(file)[2] - file.boxes[2].size \in Nat
          /\ Ends(file)[2] \in Nat /\ Ends(file)[2] <= FileSize(file)
      BY <1>3, <3>2, ContentsFacts
    <3>4. SignatureSize = 3
      BY <2>1 DEF SignatureSize
    <3> QED BY <1>8, <3>1, <3>3, <3>4
  <2>2. CASE ~file.container
    <3>1. Len(file.boxes) = 1 /\ file.boxes[1].type = "none"
      BY <1>3, <2>2 DEF IsFile
    <3>2. 1 \in 1..Len(file.boxes)
      BY <3>1
    <3> DEFINE b == Ends(file)[1] - file.boxes[1].size
    <3>3. file.boxes[1].size \in Nat /\ b \in Nat /\ Ends(file)[1] \in Nat /\ Ends(file)[1] <= FileSize(file)
      BY <1>3, <3>2, ContentsFacts
    <3>4. CodestreamIn(file, 1) = Run(b, file.boxes[1].size)
      BY <1>3, <3>1, <3>2, CodestreamInFacts
    <3>5. Before(file, 1) = Before(file, 1 - 1) \o CodestreamIn(file, 1) /\ Before(file, 0) = <<>>
      BY <1>3, <3>2, BeforeFacts
    <3>6. CodestreamIn(file, 1) \in Seq(Int) /\ Len(CodestreamIn(file, 1)) = file.boxes[1].size
      <4> DEFINE z == file.boxes[1].size
      <4>1. b \in Int /\ z \in Nat
        BY <3>3
      <4>2. CodestreamIn(file, 1) = Run(b, z)
        BY <3>4
      <4> HIDE DEF b, z
      <4>3. Run(b, z) \in Seq(Int) /\ Len(Run(b, z)) = z
        BY <4>1, RunFacts
      <4> QED BY <4>2, <4>3 DEF z
    <3>7. Before(file, 1) = CodestreamIn(file, 1)
      <4>1. 1 - 1 = 0
        OBVIOUS
      <4>2. Before(file, 1) = <<>> \o CodestreamIn(file, 1)
        BY <3>5, <4>1
      <4> QED BY <3>6, <4>2, ConcatEmptySeq
    <3>8. Len(Before(file, 1)) = CodestreamSize
      BY <1>3, <3>1, BeforeAll DEF WellFormed
    <3>9. CodestreamSize >= 1
      BY SizesAssumption
    <3>10. SignatureSize = 1
      BY <2>2 DEF SignatureSize
    <3> QED BY <1>8, <3>3, <3>6, <3>7, <3>8, <3>9, <3>10
  <2> QED BY <2>1, <2>2
<1> QED BY <1>1, <1>2, <1>6, <1>8, <1>9 DEF Truncated

LEMMA OutputBoxError ==
  ASSUME PInv, PlaceInv, OutputInv, WellFormed(file), OutputBox, Failed
  PROVE  FALSE
<1> DEFINE d == box_content_decoder
           room == box_buffer.size - box_buffer.pos
           r == Process(d, room)
           brob == decompress_boxes /\ IsBrob
<1>0. pc = "OutputBox" /\ pc # "Application" /\ Live /\ box_stage # "kHeader" /\ status \notin Final
  BY DEF OutputBox, Live, PlaceInv
<1>1. ~Goto("StoreMetadata")
  BY <1>0 DEF Goto, Failed, Final
<1>2. box_buffer.current /\ r.result \notin {"SUCCESS", "NEED_MORE_INPUT"} /\ Return(r.result)
  BY <1>1 DEF OutputBox
<1>3. r.result \in {"ERROR", "ABORT"}
  <2> HIDE DEF r
  <2> QED BY <1>2, ErrorStatus
<1>4. taken /\ box_buffer.pos <= box_buffer.size /\ box_buffer \in BoxBuffers
  BY <1>0, <1>2 DEF OutputInv
<1>5. file.container /\ Tracks(d, box_out, brob)
  BY <1>0, <1>4 DEF OutputInv
<1>6. room \in Nat
  BY <1>4 DEF BoxBuffers
<1>7. brob \in BOOLEAN
  BY DEF PlaceInv, IsBrob
<1> HIDE DEF d, room, brob
<1>8. Wrote(r, d, box_out, brob, box, Size, file_pos, sent, room)
  BY <1>0, <1>5, <1>6, <1>7, ProcessFacts DEF Tracks
<1> HIDE DEF r
<1>9. brob /\ Size < 1
  BY <1>3, <1>8 DEF Wrote, Results
<1>10. IsFile(file) /\ box_count \in 1..Len(file.boxes) /\ Size \in Nat
  BY <1>0, <1>5, BoxFacts
<1>11. file.boxes[box_count].type = "brob"
  BY <1>9 DEF brob, IsBrob
<1>12. Size >= 2
  BY <1>5, <1>10, <1>11, WellFormedFacts DEF Size
<1> QED BY <1>9, <1>10, <1>12

LEMMA StoreMetadataError ==
  ASSUME PInv, PlaceInv, StoredInv, ReconInv, WellFormed(file), StoreMetadata, Failed
  PROVE  FALSE
<1>0. pc # "Application" /\ Live /\ box_stage # "kHeader" /\ status \notin Final
  BY DEF StoreMetadata, Live, PlaceInv
<1>1. ~Goto("Reconstruct")
  BY <1>0 DEF Goto, Failed, Final
<1>2. PICK m \in Meta : Stored(m)
  BY <1>1, StoreOutcome
<1>3. file.container /\ IsBrob /\ Size < 1
  BY <1>1, <1>2 DEF Stored
<1>4. IsFile(file) /\ box_count \in 1..Len(file.boxes) /\ Size \in Nat
  BY <1>0, <1>3, BoxFacts
<1>5. Size >= 2
  BY <1>3, <1>4, WellFormedFacts DEF Size, IsBrob
<1> QED BY <1>3, <1>4, <1>5

\* Metadata of the wrong size is not in a well-formed file.
LEMMA SetMetadataError ==
  ASSUME PInv, PlaceInv, StoredInv, ReconInv, JbrdInv, MetaInv, WellFormed(file), SetMetadata, Failed
  PROVE  FALSE
<1>0. Live /\ status \notin Final /\ ~JbrdNeedMoreBoxes
  BY DEF SetMetadata, Live, PlaceInv
<1>1. ~Goto("Reconstruct")
  BY <1>0 DEF Goto, Failed, Final
<1>2. PICK m \in Meta : recon_size[m] > 0 /\ Len(metadata[m]) # recon_size[m]
  BY <1>1 DEF SetMetadata
<1>3. store[m] = 2 /\ recon_size[m] \in Nat /\ metadata[m] \in Seq(Int)
  BY <1>0, <1>2 DEF JbrdNeedMoreBoxes, StoredInv, ReconInv
<1>4. First(m) \in 1..Len(file.boxes) /\ Len(Plain(file, First(m))) = recon_size[m]
  BY <1>0, <1>2, JbrdWants
<1> DEFINE p == Plain(file, First(m))
<1>5. IsPrefix(metadata[m], p) /\ (~file.boxes[First(m)].unbounded => metadata[m] = p)
  BY <1>3 DEF StoredInv
<1>6. file.boxes[First(m)].unbounded
  BY <1>2, <1>4, <1>5
<1>7. Len(metadata[m]) >= recon_size[m] /\ Len(metadata[m]) \in Nat
  BY <1>0, <1>3, <1>6, LenProperties DEF MetaInv
<1>8. Len(metadata[m]) <= Len(p)
  BY <1>5 DEF IsPrefix
<1> QED BY <1>2, <1>3, <1>4, <1>7, <1>8

LEMMA StartCodestreamError ==
  ASSUME PInv, PlaceInv, ReconInv, JbrdInv, WellFormed(file), StartCodestream, Failed
  PROVE  FALSE
<1>0. Live /\ status \notin Final /\ have_container = file.container /\ ~have_container
  BY InputFacts DEF StartCodestream, Live, PlaceInv
<1>1. ~Continue
  BY <1>0, ContinueFacts DEF Failed, Final
<1>2. stage = "kCodestreamFinished" /\ Return("SUCCESS")
  BY <1>1 DEF StartCodestream
<1>3. JbrdNeedMoreBoxes
  BY <1>2, ErrorStatus DEF CanUseMoreCodestreamInput
<1>4. PICK m \in Meta : recon_size[m] > 0
  BY <1>3 DEF JbrdNeedMoreBoxes
<1> QED BY <1>0, <1>4, JbrdWants

\* Where the boxes end, there is nothing to wait for.
LEMMA AtBoxEndError ==
  ASSUME PInv, PlaceInv, StoredInv, ReconInv, JbrdInv, ShortInv, WellFormed(file), AtBoxEnd, Failed
  PROVE  Truncated
<1>0. /\ Live /\ pc # "Application" /\ box_stage = "kHeader" /\ avail_in = 0 /\ IsFile(file) /\ sent \in Nat
      /\ file_pos \in Nat /\ file_pos + avail_in = sent /\ FileSize(file) \in Nat /\ sent <= FileSize(file)
      /\ file.container /\ Len(file.boxes) \in Nat
  BY InputFacts DEF AtBoxEnd, Live
<1>1. /\ input_closed
      /\ stage # "kCodestreamFinished" \/ JbrdNeedMoreBoxes
  <2> DEFINE more == stage # "kCodestreamFinished" \/ JbrdNeedMoreBoxes
                     \/ (~input_closed /\ "BOX" \in events_wanted)
             st == IF more THEN "NEED_MORE_INPUT" ELSE "SUCCESS"
  <2>1. Return(st)
    BY Zenon DEF AtBoxEnd
  <2>2. st \in {"NEED_MORE_INPUT", "SUCCESS"}
    OBVIOUS
  <2>3. st = "SUCCESS" => stage = "kCodestreamFinished" /\ ~JbrdNeedMoreBoxes
    OBVIOUS
  <2>4. st = "NEED_MORE_INPUT" => more
    OBVIOUS
  <2> HIDE DEF st
  <2>5. st = "NEED_MORE_INPUT" /\ input_closed
    BY <2>1, <2>2, <2>3, ErrorStatus DEF CanUseMoreCodestreamInput
  <2> QED BY <2>4, <2>5
<1>2. SUFFICES ASSUME sent = FileSize(file) PROVE FALSE
  BY <1>0, <1>1 DEF Truncated
<1>3. file_pos = FileSize(file)
  BY <1>0, <1>2
<1>4. box_count = Len(file.boxes)
  BY <1>0, <1>3, BoxesAtEnd
<1>5. CASE stage # "kCodestreamFinished"
  <2>1. Len(codestream_copy) < Needed /\ codestream_copy = Before(file, box_count)
    BY <1>0, <1>5 DEF ShortInv, CanUseMoreCodestreamInput, PInv, CopyInv
  <2> QED BY <1>0, <1>4, <2>1, AllIsEnough
<1>6. CASE JbrdNeedMoreBoxes
  <2>1. PICK m \in Meta : store[m] < 2 /\ recon_size[m] > 0
    BY <1>6 DEF JbrdNeedMoreBoxes
  <2>2. /\ "JPEG_RECONSTRUCTION" \in orig_events_wanted
        /\ First(m) \in 1..Len(file.boxes) /\ Inner(file.boxes[First(m)]) = m
    BY <1>0, <2>1, JbrdWants
  <2>3. store[m] \in 0..2 /\ store[m] # 1
    BY <1>0 DEF StoredInv
  <2>4. store[m] = 0
    BY <2>1, <2>3
  <2>5. \A i \in 1..box_count : Inner(file.boxes[i]) # m
    BY <1>0, <2>2, <2>4 DEF StoredInv
  <2> QED BY <1>4, <2>2, <2>5
<1> QED BY <1>1, <1>5, <1>6

LEMMA ReadBoxHeaderError ==
  ASSUME PInv, PlaceInv, LastInv, JbrdInv, WellFormed(file), ReadBoxHeader, Failed
  PROVE  Truncated
<1>0. /\ Live /\ pc # "Application" /\ box_stage = "kHeader" /\ status \notin Final
      /\ file_pos = Ends(file)[box_count] /\ sent \in Nat
  BY InputFacts DEF ReadBoxHeader, Live, PlaceInv, PInv, HeaderInv
<1>1. /\ file.container /\ IsFile(file) /\ box_count \in 0..Len(file.boxes) - 1 /\ box_count \in Nat
      /\ box_count + 1 \in 1..Len(file.boxes) /\ file_pos + avail_in = sent /\ file_pos \in Nat
      /\ avail_in \in Nat
  BY BoxHeaderFacts
<1>2. PICK h : /\ h = file.boxes[box_count + 1]
               /\ HeaderWaits(h) \/ HeaderRejected(h) \/ BoxEntered(h)
  BY HeaderRead
<1> DEFINE n == box_count + 1
<1>3. n \in 1..Len(file.boxes) /\ n - 1 = box_count /\ h = file.boxes[n]
  BY <1>1, <1>2
<1>4. CASE HeaderWaits(h)
  <2>1. Return("NEED_MORE_INPUT") /\ avail_in < HeaderNeeds(h)
    BY <1>4 DEF HeaderWaits
  <2>2. input_closed
    BY <2>1, ErrorStatus
  <2> HIDE DEF n
  <2>3. /\ h.size \in Nat /\ h.header \in Nat /\ Ends(file)[n] \in Nat
        /\ Ends(file)[n - 1] + h.header = Ends(file)[n] - h.size /\ Ends(file)[n] <= FileSize(file)
    BY <1>1, <1>3, ContentsFacts
  <2>4. h.type = "brob" => h.size >= 2
    BY <1>1, <1>3, WellFormedFacts
  <2>5. HeaderNeeds(h) <= h.header + h.size
    BY <2>3, <2>4 DEF HeaderNeeds
  <2>6. HeaderNeeds(h) \in Nat /\ FileSize(file) \in Nat
    BY <2>3, SentFacts DEF HeaderNeeds
  <2>7. sent < FileSize(file)
    <3> DEFINE e == Ends(file)[n]
               x == h.header
               z == h.size
               F == FileSize(file)
               need == HeaderNeeds(h)
    <3>1. file_pos = Ends(file)[n - 1]
      BY <1>0, <1>3
    <3>2. x \in Nat /\ z \in Nat /\ e \in Nat /\ F \in Nat /\ need \in Nat
      BY <2>3, <2>6
    <3>3. file_pos + x = e - z /\ e <= F /\ need <= x + z /\ avail_in < need
      BY <2>1, <2>3, <2>5, <3>1
    <3> HIDE DEF e, x, z, F, need
    <3>4. sent < F
      BY <1>1, <3>2, <3>3
    <3> QED BY <3>4 DEF F
  <2> QED BY <2>2, <2>7 DEF Truncated
<1>5. CASE HeaderRejected(h)
  <2> HIDE DEF n
  <2>1. n \in Nat
    BY <1>1, <1>3
  <2>2. CASE (box_count = 1) # (h.type = "ftyp")
    <3>1. file.boxes[2].type = "ftyp" /\ (h.type = "ftyp" => n = 2)
      BY <1>1, <1>3, WellFormedFacts
    <3>2. box_count = 1 <=> n = 2
      BY <1>1, <1>3, <2>1
    <3>3. h.type = "ftyp" <=> n = 2
      BY <1>3, <3>1
    <3> QED BY <2>2, <3>2, <3>3
  <2>3. CASE h.type = "jxlc" /\ last_codestream_seen
    <3>1. PICK i \in 1..box_count : Closes(i)
      BY <1>0, <1>1, <2>3 DEF LastInv
    <3>2. i \in 1..Len(file.boxes)
      BY <1>1
    <3>3. n <= i
      BY <1>1, <1>3, <2>3, <3>1, <3>2, WellFormedFacts DEF Closes
    <3> QED BY <1>1, <1>3, <2>1, <3>1, <3>3
  <2>4. CASE StageOf(h.type) = "kJpegRecon" /\ "JPEG_RECONSTRUCTION" \notin events_wanted
    <3>1. h.type = "jbrd" /\ "JPEG_RECONSTRUCTION" \in orig_events_wanted
      BY <2>4 DEF StageOf
    <3>2. PICK i \in 1..box_count : Jbrd(i)
      BY <1>0, <2>4, <3>1 DEF JbrdInv, JbrdRead
    <3>3. i \in 1..Len(file.boxes)
      BY <1>1
    <3>4. n = i
      BY <1>1, <1>3, <3>1, <3>2, <3>3, WellFormedFacts DEF Jbrd
    <3> QED BY <1>1, <1>3, <2>1, <3>2, <3>4
  <2> QED BY <1>5, <2>2, <2>3, <2>4 DEF HeaderRejected
<1>6. CASE BoxEntered(h)
  <2>1. CASE Return("BOX")
    BY <2>1, CheckedFacts DEF Return, Failed
  <2>2. CASE Continue
    BY <1>0, <2>2, ContinueFacts DEF Failed, Final
  <2> QED BY <1>6, <2>1, <2>2 DEF BoxEntered
<1> QED BY <1>2, <1>4, <1>5, <1>6

\* A box that is not complete when the input ends there.
LEMMA BoxCut ==
  ASSUME PInv, pc # "Application", box_stage # "kHeader", sent < Ends(file)[Cur], input_closed
  PROVE  Truncated
<1>1. Live /\ IsFile(file) /\ sent \in Nat /\ FileSize(file) \in Nat
  BY InputFacts
<1>2. Cur \in 1..Len(file.boxes)
  BY <1>1, CurFacts
<1>3. Ends(file)[Cur] \in Nat /\ Ends(file)[Cur] <= FileSize(file)
  BY <1>1, <1>2, ContentsFacts
<1> QED BY <1>1, <1>3 DEF Truncated

LEMMA ReadFtypError ==
  ASSUME PInv, PlaceInv, WellFormed(file), ReadFtyp, Failed
  PROVE  Truncated
<1>0. /\ Live /\ pc # "Application" /\ box_stage = "kFtyp" /\ status \notin Final
      /\ file_pos \in Nat /\ avail_in \in Nat /\ file_pos + avail_in = sent
  BY InputFacts DEF ReadFtyp, Live, PlaceInv
<1>1. file.container /\ file.boxes[Cur].type = "ftyp" /\ file_pos = box.begin
  BY <1>0 DEF PInv, StageInv
<1>2. /\ IsFile(file) /\ Cur = box_count /\ Cur \in 1..Len(file.boxes) /\ file.boxes[Cur].size \in Nat
      /\ box.begin = Ends(file)[Cur] - file.boxes[Cur].size /\ Ends(file)[Cur] \in Nat
      /\ box.unbounded = file.boxes[Cur].unbounded
      /\ ~box.unbounded => box.size = file.boxes[Cur].size
  BY <1>0, <1>1, CurFacts
<1>3. Cur = 2 /\ file.boxes[2].size >= 3 /\ ~file.boxes[2].unbounded
  BY <1>1, <1>2, WellFormedFacts
<1>4. ~(box.size < 3)
  BY <1>2, <1>3
<1>5. ~Continue
  BY <1>0, ContinueFacts DEF Failed, Final
<1>6. avail_in < 1 /\ Return("NEED_MORE_INPUT")
  BY <1>4, <1>5 DEF ReadFtyp
<1>7. input_closed
  BY <1>6, ErrorStatus
<1>8. sent < Ends(file)[Cur]
  <2> DEFINE e == Ends(file)[Cur]
             z == file.boxes[Cur].size
  <2>1. e \in Nat /\ z \in Nat /\ file_pos = e - z /\ z >= 3
    BY <1>1, <1>2, <1>3
  <2> HIDE DEF e, z
  <2>2. sent < e
    BY <1>0, <1>6, <2>1
  <2> QED BY <2>2 DEF e
<1> QED BY <1>0, <1>7, <1>8, BoxCut

LEMMA ReadPartialCodestreamError ==
  ASSUME PInv, PlaceInv, LastInv, WellFormed(file), ReadPartialCodestream, Failed
  PROVE  Truncated
<1>0. /\ Live /\ pc # "Application" /\ box_stage = "kPartialCodestream" /\ status \notin Final
      /\ file_pos \in Nat /\ avail_in \in Nat /\ file_pos + avail_in = sent
  BY InputFacts DEF ReadPartialCodestream, Live, PlaceInv
<1>1. file.container /\ file.boxes[Cur].type = "jxlp" /\ file_pos = box.begin
  BY <1>0 DEF PInv, StageInv
<1>2. /\ IsFile(file) /\ Cur = box_count /\ Cur \in 1..Len(file.boxes) /\ file.boxes[Cur].size \in Nat
      /\ box.begin = Ends(file)[Cur] - file.boxes[Cur].size /\ Ends(file)[Cur] \in Nat
      /\ ~box.unbounded => box.size = file.boxes[Cur].size
      /\ Len(file.boxes) \in Nat
  BY <1>0, <1>1, CurFacts
<1>3. file.boxes[Cur].size >= 1
  BY <1>1, <1>2, WellFormedFacts
<1>4. ~(~box.unbounded /\ box.size < 1)
  BY <1>2, <1>3
<1>5. ~Continue
  BY <1>0, ContinueFacts DEF Failed, Final
<1>6. ~last_codestream_seen
  <2> SUFFICES ASSUME last_codestream_seen PROVE FALSE
    OBVIOUS
  <2>1. PICK i \in 1..box_count : Closes(i) /\ i < box_count
    BY <1>0, <1>1 DEF LastInv
  <2>2. i \in 1..Len(file.boxes)
    BY <1>2
  <2>3. Cur <= i
    BY <1>1, <1>2, <2>1, <2>2, WellFormedFacts DEF Closes
  <2> QED BY <1>2, <2>1, <2>3
<1>7. avail_in < 1 /\ Return("NEED_MORE_INPUT")
  BY <1>4, <1>5, <1>6 DEF ReadPartialCodestream
<1>8. input_closed
  BY <1>7, ErrorStatus
<1>9. sent < Ends(file)[Cur]
  <2> DEFINE e == Ends(file)[Cur]
             z == file.boxes[Cur].size
  <2>1. e \in Nat /\ z \in Nat /\ file_pos = e - z /\ z >= 1
    BY <1>1, <1>2, <1>3
  <2> HIDE DEF e, z
  <2>2. sent < e
    BY <1>0, <1>7, <2>1
  <2> QED BY <2>2 DEF e
<1> QED BY <1>0, <1>8, <1>9, BoxCut

\* Metadata in a box up to the end of the file, of which there is not enough.
LEMMA EndlessCut ==
  ASSUME PInv, PlaceInv, StoredInv, ReconInv, JbrdInv, MetaInv, WellFormed(file), pc = "Stage",
         box.unbounded, NEW m \in Meta, store[m] = 1, recon_size[m] > 0
  PROVE  sent < FileSize(file) /\ EndlessMetadata
<1>0. Live /\ pc \in AfterStore /\ pc # "Application"
  BY DEF Live, AfterStore
<1>1. /\ file.container /\ box_stage # "kHeader" /\ box_count = First(m)
      /\ Tracks(metadata_decoder, metadata[m], IsBrob) /\ metadata_decoder.inflated = <<>>
      /\ CaughtUp(metadata_decoder)
  BY <1>0 DEF StoredInv
<1>2. /\ Len(metadata[m]) < recon_size[m] \/ (IsBrob /\ metadata_decoder.pos < Size)
      /\ recon_size[m] \in Nat /\ metadata[m] \in Seq(Int)
  BY <1>0 DEF MetaInv, StoredInv, ReconInv
<1>3. Len(Plain(file, box_count)) = recon_size[m]
  BY <1>0, <1>1, JbrdWants
<1>4. /\ IsFile(file) /\ box_count \in 1..Len(file.boxes) /\ box \in BoxRecords /\ Size \in Nat /\ sent \in Nat
      /\ box.begin = Ends(file)[box_count] - Size /\ box.begin + Size = Ends(file)[box_count]
      /\ Ends(file)[box_count] \in Nat
  BY <1>0, <1>1, BoxFacts
<1>5. Ends(file)[box_count] = FileSize(file)
  <2>1. Cur = box_count
    BY <1>1 DEF Cur
  <2> QED BY <1>0, <1>1, <2>1, CurFacts
<1> DEFINE p == metadata_decoder.pos
           b == box.begin
           z == Size
<1>6. /\ p \in Nat /\ b \in Nat /\ z \in Nat /\ p <= z /\ IsConcat(Text(b, IsBrob, p), metadata[m], <<>>)
      /\ p = z \/ b + p = sent
      /\ b + z = FileSize(file)
  BY <1>1, <1>4, <1>5 DEF Tracks, Reads, ContentDecoders, CaughtUp, Done, BoxRecords
<1>7. Text(b, IsBrob, z) = Plain(file, box_count)
  BY <1>4, TextOfBox DEF IsBrob, Size
<1>8. IsBrob \in BOOLEAN
  BY DEF IsBrob
<1> HIDE DEF p, b, z
<1>9. p = z => metadata[m] = Plain(file, box_count)
  BY <1>2, <1>6, <1>7, <1>8, StoredText
<1>10. p < z /\ b + p = sent
  <2>1. p # z
    <3>1. SUFFICES ASSUME p = z PROVE FALSE
      OBVIOUS
    <3>2. Len(metadata[m]) = recon_size[m]
      BY <1>3, <1>9, <3>1
    <3>3. Len(metadata[m]) < recon_size[m] \/ p < z
      BY <1>2 DEF p, z
    <3>4. ~(p < z)
      BY <1>6, <3>1
    <3> QED BY <1>2, <3>2, <3>3, <3>4
  <2> QED BY <1>6, <2>1
<1>11. sent < FileSize(file)
  BY <1>4, <1>6, <1>10
<1>12. Len(metadata[m]) < recon_size[m]
  <2>1. SUFFICES ASSUME IsBrob PROVE Len(metadata[m]) < recon_size[m]
    BY <1>2
  <2>2. metadata[m] = Text(b, TRUE, p)
    <3>1. Text(b, IsBrob, p) = metadata[m] \o <<>>
      BY <1>6 DEF IsConcat
    <3>2. metadata[m] \o <<>> = metadata[m]
      BY <1>2, ConcatEmptySeq
    <3>3. IsBrob = TRUE
      BY <1>8, <2>1
    <3> QED BY <3>1, <3>2, <3>3
  <2>3. Plain(file, box_count) = Text(b, TRUE, z)
    <3>1. IsBrob = TRUE
      BY <1>8, <2>1
    <3> QED BY <1>7, <3>1
  <2>4. \A q \in Nat : q > 0 => Text(b, TRUE, q) = Inflate(Run(b + 1, q - 1)) /\ Len(Text(b, TRUE, q)) = 2 * (q - 1)
    <3>1. SUFFICES ASSUME NEW q \in Nat, q > 0
                   PROVE  Text(b, TRUE, q) = Inflate(Run(b + 1, q - 1)) /\ Len(Text(b, TRUE, q)) = 2 * (q - 1)
      OBVIOUS
    <3>2. Text(b, TRUE, q) = Inflate(Run(b + 1, q - 1))
      BY <3>1 DEF Text
    <3>3. b + 1 \in Int /\ q - 1 \in Nat
      BY <1>6, <3>1
    <3> DEFINE r == Run(b + 1, q - 1)
    <3>4. r \in Seq(Int) /\ Len(r) = q - 1
      BY <3>3, RunFacts
    <3> HIDE DEF r
    <3>5. Len(Inflate(r)) = 2 * (q - 1)
      BY <3>4, InflateFacts
    <3> QED BY <3>2, <3>5 DEF r
  <2>5. recon_size[m] = 2 * (z - 1)
    <3>1. z \in Nat /\ z > 0
      BY <1>6, <1>10
    <3>2. Len(Text(b, TRUE, z)) = 2 * (z - 1)
      BY <2>4, <3>1
    <3> QED BY <1>3, <2>3, <3>2
  <2>6. CASE p = 0
    <3>1. Text(b, TRUE, 0) = <<>>
      BY DEF Text
    <3>2. Len(metadata[m]) = 0
      <4>1. metadata[m] = <<>>
        BY <2>2, <2>6, <3>1
      <4> QED BY <4>1
    <3> QED BY <1>2, <3>2
  <2>7. CASE p > 0
    <3>1. Len(metadata[m]) = 2 * (p - 1)
      BY <1>6, <2>2, <2>4, <2>7
    <3> QED BY <1>6, <1>10, <2>5, <3>1
  <2> QED BY <1>6, <2>6, <2>7
<1> QED BY <1>11, <1>12 DEF EndlessMetadata

LEMMA SkipBoxError ==
  ASSUME PInv, PlaceInv, StoredInv, ReconInv, JbrdInv, ShortInv, MetaInv, WellFormed(file), SkipBox, Failed
  PROVE  Truncated \/ (sent < FileSize(file) /\ EndlessMetadata)
<1>0. /\ Live /\ pc = "Stage" /\ pc # "Application" /\ box_stage = "kSkip" /\ status \notin Final
      /\ IsFile(file) /\ file_pos \in Nat /\ avail_in \in Nat /\ file_pos + avail_in = sent
  BY InputFacts DEF SkipBox, Live, PlaceInv
<1>1. ~Continue
  BY <1>0, ContinueFacts DEF Failed, Final
<1>2. /\ Cur \in 1..Len(file.boxes) /\ Len(file.boxes) \in Nat /\ Ends(file)[Cur] \in Nat
      /\ ~box.unbounded => box.end = Ends(file)[Cur]
      /\ box.unbounded => Cur = Len(file.boxes)
      /\ file.container => Cur = box_count
  BY <1>0, CurFacts
<1>3. CASE ~box.unbounded
  <2>1. avail_in < box.end - file_pos /\ Return("NEED_MORE_INPUT")
    BY <1>1, <1>3 DEF SkipBox
  <2>2. input_closed
    BY <2>1, ErrorStatus
  <2>3. sent < Ends(file)[Cur]
    BY <1>0, <1>2, <1>3, <2>1
  <2> QED BY <1>0, <2>2, <2>3, BoxCut
<1>4. CASE box.unbounded
  <2> DEFINE st == IF input_closed \/ ~box_buffer.set THEN "SUCCESS" ELSE "NEED_MORE_INPUT"
  <2>1. Return(st)
    BY <1>4, Zenon DEF SkipBox
  <2>2. st \in {"SUCCESS", "NEED_MORE_INPUT"} /\ (st = "NEED_MORE_INPUT" => ~input_closed)
    OBVIOUS
  <2> HIDE DEF st
  <2>3. CanUseMoreCodestreamInput \/ (~CanUseMoreCodestreamInput /\ JbrdNeedMoreBoxes)
    BY <2>1, <2>2, ErrorStatus
  <2>4. CASE CanUseMoreCodestreamInput
    <3>1. file.boxes[Cur].type \notin {"jxlc", "jxlp", "none"}
      BY <1>0, <2>4 DEF PInv, StageInv, CanUseMoreCodestreamInput
    <3>2. codestream_copy = Before(file, Cur - 1) /\ Len(codestream_copy) < Needed
      BY <1>0, <2>4 DEF PInv, CopyInv, ShortInv
    <3>3. CodestreamIn(file, Cur) = <<>>
      BY <1>0, <1>2, <3>1, CodestreamInFacts
    <3>4. Cur - 1 \in 0..Len(file.boxes)
      BY <1>2
    <3>5. Before(file, Cur) = Before(file, Cur - 1) \o CodestreamIn(file, Cur) /\ Before(file, Cur - 1) \in Seq(Int)
      BY <1>0, <1>2, <3>4, BeforeFacts
    <3>6. Before(file, Cur) = Before(file, Cur - 1)
      BY <3>3, <3>5, ConcatEmptySeq
    <3>7. codestream_copy = Before(file, Len(file.boxes))
      BY <1>2, <1>4, <3>2, <3>6
    <3> QED BY <1>0, <3>2, <3>7, AllIsEnough
  <2>5. CASE JbrdNeedMoreBoxes
    <3>1. PICK m \in Meta : store[m] < 2 /\ recon_size[m] > 0
      BY <2>5 DEF JbrdNeedMoreBoxes
    <3>2. /\ file.container /\ "JPEG_RECONSTRUCTION" \in orig_events_wanted
          /\ First(m) \in 1..Len(file.boxes) /\ Inner(file.boxes[First(m)]) = m
      BY <1>0, <3>1, JbrdWants
    <3>3. store[m] \in 0..2
      BY DEF StoredInv
    <3>4. store[m] # 0
      <4>1. SUFFICES ASSUME store[m] = 0 PROVE FALSE
        OBVIOUS
      <4>2. \A i \in 1..box_count : Inner(file.boxes[i]) # m
        BY <1>0, <3>2, <4>1 DEF StoredInv
      <4>3. box_count = Len(file.boxes)
        BY <1>2, <1>4, <3>2
      <4> QED BY <3>2, <4>2, <4>3
    <3>5. store[m] = 1
      BY <3>1, <3>3, <3>4
    <3> QED BY <1>0, <1>4, <3>1, <3>5, EndlessCut
  <2> QED BY <2>3, <2>4, <2>5
<1> QED BY <1>3, <1>4

LEMMA ReadJpegReconError ==
  ASSUME PInv, PlaceInv, WellFormed(file), ReadJpegRecon, Failed
  PROVE  Truncated
<1> DEFINE d == IF jpeg_decoder.inside_box THEN jpeg_decoder ELSE StartJpegBox(jpeg_decoder)
           n == JpegInput(d)
           bytes == d.buffer \o SubSeq(Input, 1, n)
           full == d.box_until_eof \/ Len(bytes) = d.box_size
           decoded == DecodeJPEGData(bytes)
           st == CASE ~d.box_until_eof /\ Len(bytes) > d.box_size -> "ABORT"
                   [] full /\ (decoded = "fatal" \/ ~d.box_until_eof) -> "ERROR"
                   [] OTHER -> "NEED_MORE_INPUT"
<1>0. /\ pc # "Application" /\ Live /\ box_stage = "kJpegRecon" /\ status \notin Final
      /\ jpeg_decoder \in JpegDecoders /\ file_pos \in Nat /\ avail_in \in Nat
      /\ file_pos + avail_in = sent
  BY InputFacts, LiveFacts DEF ReadJpegRecon, PlaceInv
<1>1. \/ Return("JPEG_RECONSTRUCTION") \/ Continue
      \/ ~(full /\ decoded = "complete") /\ Return(st)
  BY Zenon DEF ReadJpegRecon
<1>2. /\ IsFile(file) /\ Cur \in 1..Len(file.boxes)
      /\ file.boxes[Cur].size \in Nat /\ Ends(file)[Cur] \in Nat
      /\ box \in BoxRecords /\ box.begin = Ends(file)[Cur] - file.boxes[Cur].size
      /\ box.unbounded = file.boxes[Cur].unbounded
      /\ ~box.unbounded => box.size = file.boxes[Cur].size
      /\ box.begin <= file_pos /\ file_pos <= Ends(file)[Cur] /\ box.begin \in Nat
  BY <1>0, CurFacts DEF BoxRecords
<1>3. file.container /\ file.boxes[Cur].type = "jbrd"
  BY <1>0 DEF PInv, StageInv
<1>4. ~box.unbounded /\ file.boxes[Cur].size >= 1
  BY <1>2, <1>3, WellFormedFacts
<1>5. /\ d.buffer = Run(box.begin, file_pos - box.begin)
      /\ ~d.box_until_eof /\ d.box_size = file.boxes[Cur].size
  <2>1. CASE jpeg_decoder.inside_box
    <3>1. d = jpeg_decoder
      BY <2>1
    <3> HIDE DEF d
    <3> QED BY <1>0, <1>2, <1>4, <2>1, <3>1 DEF PInv, JpegInv
  <2>2. CASE ~jpeg_decoder.inside_box
    <3>1. d = StartJpegBox(jpeg_decoder)
      BY <2>2
    <3>2. file_pos = box.begin /\ ~jpeg_decoder.box_until_eof
      BY <1>0, <2>2 DEF PInv, JpegInv
    <3> HIDE DEF d
    <3>3. /\ d.buffer = <<>>
          /\ d.box_until_eof = (jpeg_decoder.box_until_eof \/ box.unbounded)
          /\ d.box_size = box.size
      BY <1>0, <1>2, <1>4, <3>1, StartJpegBoxFacts
    <3>4. Run(box.begin, file_pos - box.begin) = <<>>
      <4>1. file_pos - box.begin = 0 /\ box.begin \in Int
        BY <1>2, <3>2
      <4> QED BY <4>1, EmptyRun
    <3> QED BY <1>2, <1>4, <3>2, <3>3, <3>4
  <2> QED BY <2>1, <2>2
<1> HIDE DEF d
<1> DEFINE a == box.begin
           m == file_pos - box.begin
           z == file.boxes[Cur].size
           e == Ends(file)[Cur]
<1>6. a \in Nat /\ m \in Nat /\ z \in Nat /\ e \in Nat /\ z >= 1 /\ a = e - z /\ m <= z /\ file_pos = a + m
  <2>1. a \in Nat /\ z \in Nat /\ e \in Nat /\ z >= 1 /\ a = e - z /\ a <= file_pos /\ file_pos <= e
    BY <1>2, <1>4
  <2>2. m = file_pos - a
    OBVIOUS
  <2> HIDE DEF a, m, z, e
  <2> QED BY <1>0, <2>1, <2>2
<1>7. Len(d.buffer) = m
  <2>1. d.buffer = Run(a, m) /\ a \in Int /\ m \in Nat
    BY <1>5, <1>6
  <2> HIDE DEF a, m
  <2> QED BY <2>1, RunFacts
<1>8. n = Min2(avail_in, z - m)
  <2>1. ~(Len(d.buffer) > d.box_size) /\ d.box_size = z
    <3>1. d.box_size = z
      BY <1>5
    <3> HIDE DEF m, z
    <3> QED BY <1>6, <1>7, <3>1
  <2> QED BY <1>5, <1>7, <2>1 DEF JpegInput
<1>9. n \in 0..avail_in /\ m + n <= z /\ (n = avail_in \/ m + n = z)
  <2> HIDE DEF m, z, n
  <2> QED BY <1>0, <1>6, <1>8 DEF Min2
<1>10. bytes = Run(a, m + n)
  <2>1. SubSeq(Input, 1, n) = Run(file_pos, n)
    BY <1>0, <1>9, InputPart DEF PInv
  <2>2. m \in Nat /\ n \in Nat /\ a \in Int /\ file_pos \in Int /\ file_pos = a + m
    BY <1>0, <1>6, <1>9
  <2>3. bytes = Run(a, m) \o Run(file_pos, n)
    BY <1>5, <2>1
  <2> HIDE DEF m, a, n, bytes
  <2>4. Run(a, m) \o Run(file_pos, n) = Run(a, m + n)
    BY <2>2, RunConcat
  <2> QED BY <2>3, <2>4
<1>11. Len(bytes) = m + n /\ m + n \in Nat
  <2>1. a \in Int /\ m + n \in Nat
    BY <1>6, <1>9
  <2> HIDE DEF a, m, n, bytes
  <2> QED BY <1>10, <2>1, RunFacts
<1>12. full <=> m + n = z
  <2>1. full <=> Len(bytes) = d.box_size
    BY <1>5
  <2>2. d.box_size = z
    BY <1>5
  <2> QED BY <1>11, <2>1, <2>2
<1>13. ~Return("JPEG_RECONSTRUCTION") /\ ~Continue
  <2>1. ~Continue
    BY <1>0, ContinueFacts DEF Failed, Final
  <2>2. ~Return("JPEG_RECONSTRUCTION")
    BY ErrorStatus
  <2> QED BY <2>1, <2>2
<1>14. ~(full /\ decoded = "complete") /\ Return(st)
  BY <1>1, <1>13
<1>15. full => decoded = "complete"
  <2> DEFINE jbrd == {Contents(file, i) : i \in {j \in DOMAIN file.boxes : file.boxes[j].type = "jbrd"}}
  <2>1. SUFFICES ASSUME full PROVE decoded = "complete"
    OBVIOUS
  <2>2. bytes = Contents(file, Cur)
    <3>1. bytes = Run(a, z)
      BY <1>10, <1>12, <2>1
    <3>2. a = Ends(file)[Cur] - file.boxes[Cur].size
      BY <1>2
    <3> QED BY <3>1, <3>2 DEF Contents
  <2>3. Cur \in {j \in DOMAIN file.boxes : file.boxes[j].type = "jbrd"}
    BY <1>2, <1>3, FileBoxes
  <2> HIDE DEF a, m, n, z
  <2>4. bytes \in jbrd
    BY <2>2, <2>3
  <2>5. bytes # <<>>
    <3>1. m + n = z
      BY <1>12, <2>1
    <3> HIDE DEF bytes
    <3>2. Len(bytes) # 0
      BY <1>6, <1>11, <3>1
    <3> QED BY <3>2
  <2> HIDE DEF bytes
  <2>6. \A c \in jbrd : c = bytes
    <3>1. SUFFICES ASSUME NEW i \in DOMAIN file.boxes, file.boxes[i].type = "jbrd"
                   PROVE  Contents(file, i) = bytes
      OBVIOUS
    <3>2. i = Cur
      BY <1>2, <1>3, <3>1, FileBoxes, WellFormedFacts
    <3> QED BY <2>2, <3>2
  <2>7. ~ \E c \in jbrd : IsStrictPrefix(bytes, c)
    BY <2>6 DEF IsStrictPrefix
  <2> DEFINE A == bytes # <<>> /\ bytes \in jbrd
             P == Len(bytes) < JpegFieldsSize /\ \E c \in jbrd : IsStrictPrefix(bytes, c)
  <2>8. DecodeJPEGData(bytes) = CASE A -> "complete" [] P -> "partial" [] OTHER -> "fatal"
    BY Zenon DEF DecodeJPEGData
  <2>9. A /\ ~P
    BY <2>4, <2>5, <2>7
  <2> HIDE DEF A, P
  <2>10. DecodeJPEGData(bytes) = "complete"
    BY <2>8, <2>9
  <2> QED BY <2>10
<1>16. m + n < z
  <2>1. ~full
    BY <1>14, <1>15
  <2> HIDE DEF m, n, z, full
  <2> QED BY <1>6, <1>9, <1>11, <1>12, <2>1
<1>17. st = "NEED_MORE_INPUT"
  <2>1. ~full
    BY <1>14, <1>15
  <2>2. ~(Len(bytes) > d.box_size)
    <3>1. d.box_size = z
      BY <1>5
    <3> HIDE DEF m, n, z, bytes
    <3> QED BY <1>6, <1>11, <1>16, <3>1
  <2> HIDE DEF full, decoded, bytes
  <2> QED BY <2>1, <2>2
<1>18. input_closed
  <2> HIDE DEF st
  <2> QED BY <1>14, <1>17, ErrorStatus
<1>19. sent < Ends(file)[Cur]
  <2> HIDE DEF m, n, z, a, e
  <2>1. n = avail_in
    BY <1>6, <1>9, <1>11, <1>16
  <2>2. sent < e
    BY <1>0, <1>6, <1>16, <2>1
  <2> QED BY <2>2 DEF e
<1> QED BY <1>0, <1>18, <1>19, BoxCut

\* The codestream up to the end of the input, whether it was copied or not.
LEMMA CodestreamGiven ==
  ASSUME PInv, ShortInv, pc = "CodestreamResult", CanUseMoreCodestreamInput,
         NEW q, q = file_pos + AvailCodestream
  PROVE  /\ IsConcat(Codestream, Before(file, Cur - 1), Run(CodestreamBegin, q - CodestreamBegin))
         /\ codestream_copy # <<>> => AvailCodestream = 0
<1>0. pc # "Application" /\ Live /\ box_stage = "kCodestream"
  BY LiveFacts
<1>1. /\ SubSeq(Input, 1, AvailCodestream) \in Seq(Int)
      /\ AvailCodestream \in 0..avail_in /\ avail_in \in Nat /\ file_pos \in Nat
      /\ SubSeq(Input, 1, AvailCodestream) = Run(file_pos, AvailCodestream)
  BY <1>0, CodestreamSeen
<1>2. codestream_copy \in Seq(Int) /\ (codestream_copy # <<>> => AvailCodestream = 0)
  BY DEF ShortInv
<1> DEFINE c == codestream_copy
           p == Before(file, Cur - 1)
           a == CodestreamBegin
           m == file_pos - CodestreamBegin
           n == AvailCodestream
           b == file_pos
           s == SubSeq(Input, 1, n)
<1>3. p \in Seq(Int) /\ a \in Int /\ m \in Nat /\ b \in Int /\ n \in Nat /\ IsConcat(c, p, Run(a, m))
  BY <1>0, <1>1, CopyFacts DEF IsConcat
<1>4. b = a + m
  <2>1. a \in Nat /\ b \in Nat /\ m = b - a
    BY <1>0, <1>1, CopyFacts
  <2> HIDE DEF a, m, b
  <2> QED BY <2>1
<1>5. Codestream = c \o Run(b, n)
  <2>1. CASE c = <<>>
    <3>1. Codestream = s
      BY <2>1 DEF Codestream
    <3>2. s \in Seq(Int) /\ s = Run(b, n)
      BY <1>1
    <3> HIDE DEF s
    <3> QED BY <2>1, <3>1, <3>2, ConcatEmptySeq
  <2>2. CASE c # <<>>
    <3>1. Codestream = c /\ n = 0
      BY <1>2, <2>2 DEF Codestream
    <3>2. Run(b, n) = <<>>
      <4> HIDE DEF b, n
      <4> QED BY <1>3, <3>1, EmptyRun
    <3> QED BY <1>2, <3>1, <3>2, ConcatEmptySeq
  <2> QED BY <2>1, <2>2
<1>6. IsConcat(c \o Run(b, n), p, Run(a, m + n))
  <2> HIDE DEF c, p, a, m, b, n
  <2> QED BY <1>3, <1>4, RunAppend
<1>7. m + n = q - CodestreamBegin
  <2>1. q = b + n
    OBVIOUS
  <2> HIDE DEF a, m, b, n
  <2>2. m + n = q - a
    BY <1>3, <1>4, <2>1
  <2> QED BY <2>2 DEF a
<1> HIDE DEF m
<1> QED BY <1>2, <1>5, <1>6, <1>7

LEMMA CopyAndReadOnError ==
  ASSUME PInv, PlaceInv, ShortInv, WellFormed(file), CopyAndReadOn, Failed
  PROVE  Truncated
<1>0. /\ pc # "Application" /\ Live /\ box_stage = "kCodestream" /\ status \notin Final
      /\ file_pos \in Nat /\ avail_in \in Nat /\ file_pos + avail_in = sent
      /\ pc = "CodestreamResult" /\ result = "NEED_MORE_INPUT"
  BY InputFacts, LiveFacts DEF CopyAndReadOn, PlaceInv
<1>1. CanUseMoreCodestreamInput /\ ~Enough
  BY <1>0 DEF ShortInv
<1>2. ~Continue
  BY <1>0, ContinueFacts DEF Failed, Final
<1>3. file_pos' # box.end /\ Return("NEED_MORE_INPUT")
  BY <1>2 DEF CopyAndReadOn
<1>4. input_closed
  BY <1>3, ErrorStatus
<1>5. codestream_copy # <<>> => AvailCodestream = 0
  BY <1>0, <1>1, CodestreamGiven
<1>6. AvailCodestream \in 0..avail_in /\ file_pos + AvailCodestream <= Ends(file)[Cur]
  BY <1>0, AvailCodestreamFacts
<1>7. file_pos' = file_pos + AvailCodestream
  <2>1. CASE codestream_copy = <<>>
    BY <2>1 DEF CopyAndReadOn, AdvanceInput
  <2>2. CASE codestream_copy # <<>>
    <3>1. file_pos' = file_pos /\ AvailCodestream = 0
      BY <1>5, <2>2 DEF CopyAndReadOn
    <3> QED BY <1>0, <3>1
  <2> QED BY <2>1, <2>2
<1>8. /\ IsFile(file) /\ Len(file.boxes) \in Nat /\ Cur \in 1..Len(file.boxes) /\ Ends(file)[Cur] \in Nat
      /\ box.begin = Ends(file)[Cur] - file.boxes[Cur].size
      /\ ~box.unbounded => box.end = Ends(file)[Cur]
      /\ box.unbounded => Cur = Len(file.boxes)
      /\ file.boxes[Cur].type \in {"jxlc", "jxlp", "none"} /\ CodestreamBegin <= file_pos
      /\ CodestreamBegin \in Nat
  BY <1>0, <1>1, CurFacts, CopyFacts DEF PInv, StageInv
<1>9. CASE file_pos + AvailCodestream < Ends(file)[Cur]
  <2> DEFINE e == Ends(file)[Cur]
             n == AvailCodestream
  <2>1. n = avail_in
    <3>1. ~box.unbounded => n = Min2(avail_in, e - file_pos)
      BY <1>8 DEF AvailCodestream
    <3>2. box.unbounded => n = avail_in
      BY DEF AvailCodestream
    <3> HIDE DEF e, n
    <3>3. file_pos + n < e /\ e \in Nat
      BY <1>8, <1>9 DEF e, n
    <3> QED BY <1>0, <3>1, <3>2, <3>3 DEF Min2
  <2>2. sent < Ends(file)[Cur]
    BY <1>0, <1>9, <2>1
  <2> QED BY <1>0, <1>4, <2>2, BoxCut
<1>10. CASE file_pos + AvailCodestream = Ends(file)[Cur]
  <2>1. box.unbounded
    BY <1>3, <1>7, <1>8, <1>10
  <2> DEFINE i == Cur
             b == CodestreamBegin
             e == Ends(file)[Cur]
  <2>2. IsConcat(Codestream, Before(file, i - 1), Run(b, e - b))
    <3>1. e = file_pos + AvailCodestream
      BY <1>10
    <3> HIDE DEF e
    <3> QED BY <1>0, <1>1, <3>1, CodestreamGiven
  <2>3. b = Ends(file)[i] - file.boxes[i].size + (IF file.boxes[i].type = "jxlp" THEN 1 ELSE 0)
    BY <1>8 DEF CodestreamBegin
  <2>4. b <= Ends(file)[i]
    <3>1. b \in Nat /\ e \in Nat /\ AvailCodestream \in Nat /\ b <= file_pos /\ file_pos + AvailCodestream = e
      BY <1>0, <1>6, <1>8, <1>10
    <3> HIDE DEF b, e
    <3>2. b <= e
      BY <1>0, <3>1
    <3> QED BY <3>2 DEF e
  <2>5. i \in 1..Len(file.boxes) /\ file.boxes[i].type \in {"jxlc", "jxlp", "none"} /\ e = Ends(file)[i]
    BY <1>8
  <2>6. i = Len(file.boxes)
    BY <1>8, <2>1
  <2> HIDE DEF i, b, e
  <2>7. Before(file, i) = Before(file, i - 1) \o Run(b, e - b)
    BY <1>8, <2>3, <2>4, <2>5, CodestreamBoxEnd
  <2>8. Codestream = Before(file, Len(file.boxes))
    BY <2>2, <2>6, <2>7 DEF IsConcat
  <2>9. ~(Len(Codestream) < Needed)
    BY <1>8, <2>8, AllIsEnough
  <2>10. Before(file, Len(file.boxes)) \in Seq(Int)
    BY <1>8, BeforeFacts
  <2>11. Len(Codestream) \in Nat /\ Needed \in Nat
    <3>1. Len(Codestream) \in Nat
      BY <2>8, <2>10, LenProperties
    <3>2. Needed \in Nat
      BY SizesAssumption DEF Needed
    <3> QED BY <3>1, <3>2
  <2> QED BY <1>1, <2>9, <2>11 DEF Enough
<1> QED BY <1>0, <1>6, <1>8, <1>9, <1>10

LEMMA AfterCodestreamError ==
  ASSUME PInv, PlaceInv, AfterCodestream, Failed
  PROVE  FALSE
<1>0. status \notin Final /\ pc = "CodestreamResult" /\ result = "SUCCESS"
  BY DEF AfterCodestream, PlaceInv
<1>1. ~Continue
  BY <1>0, ContinueFacts DEF Failed, Final
<1>2. ~MoreBoxes /\ Return("SUCCESS")
  BY <1>1 DEF AfterCodestream
<1>3. ~CanUseMoreCodestreamInput
  BY <1>0 DEF PInv, StageInv, CanUseMoreCodestreamInput
<1>4. JbrdNeedMoreBoxes
  BY <1>2, <1>3, ErrorStatus
<1> QED BY <1>2, <1>4 DEF MoreBoxes

LEMMA CodestreamEventError ==
  ASSUME PInv, PlaceInv, WantedInv, CodestreamEvent, Failed
  PROVE  FALSE
<1>0. status \notin Final /\ pc = "CodestreamResult" /\ result \notin {"SUCCESS", "NEED_MORE_INPUT"}
  BY DEF CodestreamEvent, PlaceInv
<1>1. ~Continue
  BY <1>0, ContinueFacts DEF Failed, Final
<1>2. Return(result)
  BY <1>1 DEF CodestreamEvent
<1>3. result \in CodestreamStatuses
  BY <1>0 DEF WantedInv
<1> QED BY <1>0, <1>2, <1>3, ErrorStatus DEF CodestreamStatuses

LEMMA WriteOutputError ==
  ASSUME PlaceInv, WriteOutput, Failed
  PROVE  FALSE
<1>0. status \notin Final
  BY DEF WriteOutput, PlaceInv
<1>1. ~Goto("Stage")
  BY <1>0 DEF Goto, Failed, Final
<1>2. Return("JPEG_NEED_MORE_OUTPUT") \/ Return("FULL_IMAGE")
  BY <1>1 DEF WriteOutput
<1>3. ~Return("JPEG_NEED_MORE_OUTPUT")
  BY ErrorStatus
<1>4. ~Return("FULL_IMAGE")
  BY ErrorStatus
<1> QED BY <1>2, <1>3, <1>4

\* A call does not give input to itself.
LEMMA CallKeepsInput ==
  ASSUME HandleBoxes \/ ProcessInput
  PROVE  UNCHANGED <<file, sent, input_closed>>
<1> USE DEF application, input, DecodingCodestream
<1>1. CASE OutputBox \/ StoreMetadata \/ SetMetadata \/ WriteOutput \/ NoReconstruction \/ StartCodestream \/ AtBoxEnd
  BY <1>1 DEF OutputBox, StoreMetadata, SetMetadata, WriteOutput, NoReconstruction, StartCodestream, AtBoxEnd
<1>2. CASE ReadBoxHeader
  <2>1. UNCHANGED <<application, input_closed>>
    BY <1>2, Zenon DEF ReadBoxHeader
  <2> QED BY <2>1
<1>3. CASE ReadFtyp \/ ReadPartialCodestream \/ SkipBox \/ EnterCodestream \/ CopyAndReadOn \/ AfterCodestream
  BY <1>3 DEF ReadFtyp, ReadPartialCodestream, SkipBox, EnterCodestream, CopyAndReadOn, AfterCodestream
<1>4. CASE ReadJpegRecon
  <2>1. UNCHANGED <<application, input_closed>>
    BY <1>4, Zenon DEF ReadJpegRecon
  <2> QED BY <2>1
<1>5. CASE ReadHeaders \/ ReturnBasicInfo \/ ReadFrameHeader \/ StartFrame
  BY <1>5 DEF ReadHeaders, ReturnBasicInfo, ReadFrameHeader, StartFrame
<1>6. CASE DecodeFrame \/ FinishCodestream \/ CodestreamTooShort \/ CodestreamEvent
  BY <1>6 DEF DecodeFrame, FinishCodestream, CodestreamTooShort, CodestreamEvent
<1>7. CASE ProcessInput
  BY <1>7 DEF ProcessInput
<1> QED BY <1>1, <1>2, <1>3, <1>4, <1>5, <1>6, <1>7 DEF HandleBoxes

\* Steps after which the call goes on.
LEMMA GoesOn ==
  ASSUME PlaceInv, Failed, NoReconstruction \/ EnterCodestream \/ InCodestream
  PROVE  FALSE
<1>1. pc # "Application" /\ UNCHANGED status
  <2>1. CASE NoReconstruction \/ EnterCodestream
    BY <2>1 DEF NoReconstruction, EnterCodestream, Goto
  <2>2. CASE ReadHeaders \/ ReturnBasicInfo \/ ReadFrameHeader \/ StartFrame
    BY <2>2 DEF ReadHeaders, ReturnBasicInfo, ReadFrameHeader, StartFrame, Goto, CodestreamResult
  <2>3. CASE DecodeFrame \/ FinishCodestream \/ CodestreamTooShort
    BY <2>3 DEF DecodeFrame, FinishCodestream, CodestreamTooShort, CodestreamResult
  <2> QED BY <2>1, <2>2, <2>3 DEF InCodestream
<1>2. status \notin Final
  BY <1>1 DEF PlaceInv
<1> QED BY <1>1, <1>2 DEF Failed, Final

\* When a call returns an error for a well-formed file, it is cut.
LEMMA ErrorStep ==
  ASSUME PInv, DInv, EInv, SInv, WellFormed(file), HandleBoxes \/ ProcessInput, Failed
  PROVE  Truncated \/ (SkipBox /\ sent < FileSize(file) /\ EndlessMetadata)
<1>0. /\ PlaceInv /\ OutputInv /\ StoredInv /\ ReconInv /\ WantedInv
      /\ LastInv /\ JbrdInv /\ ShortInv /\ MetaInv
  BY DEF DInv, EInv, SInv
<1>1. CASE OutputBox
  BY <1>0, <1>1, OutputBoxError
<1>2. CASE StoreMetadata
  BY <1>0, <1>2, StoreMetadataError
<1>3. CASE SetMetadata
  BY <1>0, <1>3, SetMetadataError
<1>4. CASE WriteOutput
  BY <1>0, <1>4, WriteOutputError
<1>5. CASE NoReconstruction \/ EnterCodestream \/ InCodestream
  BY <1>0, <1>5, GoesOn
<1>6. CASE StartCodestream
  BY <1>0, <1>6, StartCodestreamError
<1>7. CASE AtBoxEnd
  BY <1>0, <1>7, AtBoxEndError
<1>8. CASE ReadBoxHeader
  BY <1>0, <1>8, ReadBoxHeaderError
<1>9. CASE ReadFtyp
  BY <1>0, <1>9, ReadFtypError
<1>10. CASE ReadPartialCodestream
  BY <1>0, <1>10, ReadPartialCodestreamError
<1>11. CASE SkipBox
  BY <1>0, <1>11, SkipBoxError
<1>12. CASE ReadJpegRecon
  BY <1>0, <1>12, ReadJpegReconError
<1>13. CASE CopyAndReadOn
  BY <1>0, <1>13, CopyAndReadOnError
<1>14. CASE AfterCodestream
  BY <1>0, <1>14, AfterCodestreamError
<1>15. CASE CodestreamEvent
  BY <1>0, <1>15, CodestreamEventError
<1>16. CASE ProcessInput
  BY <1>16, SignatureError
<1> QED
  BY <1>1, <1>2, <1>3, <1>4, <1>5, <1>6, <1>7, <1>8, <1>9, <1>10, <1>11, <1>12, <1>13, <1>14, <1>15, <1>16
     DEF HandleBoxes, InCodestream

LEMMA NoSpuriousErrorStep ==
  ASSUME PInv, DInv, EInv, SInv, NoSpuriousError, [Next]_vars
  PROVE  NoSpuriousError'
<1>1. CASE UNCHANGED vars
  <2>1. UNCHANGED <<status, file, sent, input_closed, box, store, metadata, recon_size>>
    BY <1>1 DEF vars, application, input, boxes, stored, jpeg
  <2> QED BY <2>1 DEF NoSpuriousError, EndlessMetadata
<1>2. CASE HandleBoxes \/ ProcessInput
  <2>1. SUFFICES ASSUME Failed, WellFormed(file)' PROVE (sent < FileSize(file) /\ (input_closed \/ EndlessMetadata))'
    BY DEF NoSpuriousError, Failed
  <2>2. UNCHANGED <<file, sent, input_closed>>
    BY <1>2, CallKeepsInput
  <2>3. WellFormed(file)
    BY <2>1, <2>2
  <2>4. CASE Truncated
    BY <2>2, <2>4 DEF Truncated
  <2>5. CASE SkipBox /\ sent < FileSize(file) /\ EndlessMetadata
    <3>1. UNCHANGED <<box, store, metadata>>
      BY <2>5, MovesOnKeeps DEF MovesOn
    <3>2. UNCHANGED recon_size
      BY <2>5 DEF SkipBox, jpeg
    <3>3. EndlessMetadata'
      BY <2>5, <3>1, <3>2 DEF EndlessMetadata
    <3> QED BY <2>2, <2>5, <3>3
  <2> QED BY <1>2, <2>1, <2>3, <2>4, <2>5, ErrorStep
<1>3. CASE SilentBetween
  <2>1. status \notin Final /\ UNCHANGED status
    BY <1>3, SilentBetweenStep DEF Between, Final
  <2> QED BY <2>1 DEF NoSpuriousError, Final
<1>4. CASE Stopped
  BY <1>1, <1>4 DEF Stopped
<1> QED BY <1>1, <1>2, <1>3, <1>4 DEF Next, Application, SilentBetween, CalmBetween

LEMMA InitSInv ==
  ASSUME Init
  PROVE  SInv /\ NoSpuriousError
<1>1. /\ last_codestream_seen = FALSE /\ events_wanted = orig_events_wanted /\ box_count = 0
      /\ recon_size = [m \in Meta |-> 0] /\ store = [m \in Meta |-> 0] /\ progress = "start"
      /\ pc = "Application" /\ status = "" /\ box_stage = "kHeader"
  BY DEF Init
<1>2. codestream_copy = <<>>
  BY DEF Init
<1>8. \A m \in Meta : store[m] = 0 /\ recon_size[m] = 0
  BY <1>1
<1>3. LastInv
  BY <1>1 DEF LastInv
<1>4. JbrdInv
  <2>1. orig_events_wanted \ events_wanted = {}
    BY <1>1
  <2>2. \A i \in 1..box_count : FALSE
    <3>1. box_count = 0
      BY <1>1, Zenon
    <3> QED BY <3>1
  <2> QED BY <1>8, <2>1, <2>2 DEF JbrdInv
<1>5. ShortInv
  <2>1. codestream_copy \in Seq(Int) /\ Len(codestream_copy) = 0
    BY <1>2
  <2>2. Needed = BasicInfoSize
    BY <1>1 DEF Needed
  <2>3. Len(codestream_copy) < Needed
    BY <2>1, <2>2, SizesAssumption
  <2> QED BY <1>1, <2>1, <2>3 DEF ShortInv
<1>6. MetaInv
  BY <1>8 DEF MetaInv
<1>7. NoSpuriousError
  BY <1>1 DEF NoSpuriousError
<1> QED BY <1>3, <1>4, <1>5, <1>6, <1>7 DEF SInv

\* JxlDecoderProcessInput() does not reject a well-formed file, however the
\* input is cut and whatever the application subscribes to: an error means that
\* the input was closed before the end of the file, or that of metadata in a
\* box up to the end of the file only a part was given.
THEOREM NoSpuriousErrorAlways == Spec => []NoSpuriousError
<1> DEFINE Inv == EInv /\ SInv /\ NoSpuriousError
<1>1. Init => Inv
  BY InitEInv, InitSInv
<1>2. PInv /\ DInv /\ (PInv /\ DInv)' /\ Inv /\ [Next]_vars => Inv'
  <2>1. SUFFICES ASSUME PInv, DInv, PInv', DInv', EInv, SInv, NoSpuriousError, [Next]_vars
                 PROVE  EInv' /\ SInv' /\ NoSpuriousError'
    OBVIOUS
  <2>2. /\ PlaceInv /\ OutputInv /\ StoredInv /\ ReconInv /\ StoredInv'
        /\ EventsInv /\ WantedInv /\ WaitingInv /\ DoneInv
        /\ LastInv /\ JbrdInv /\ ShortInv /\ MetaInv
    BY <2>1 DEF DInv, EInv, EventsInv, SInv
  <2>3. EventsInv' /\ WaitingInv' /\ DoneInv'
    BY <2>1, <2>2, EventsStep, WaitingStep, DoneStep
  <2>4. EInv'
    BY <2>3 DEF EventsInv, EInv
  <2>5. LastInv' /\ JbrdInv'
    BY <2>1, <2>2, LastStep, JbrdStep
  <2>6. ShortInv' /\ MetaInv'
    BY <2>1, <2>2, ShortStep, MetaStep
  <2>7. SInv'
    BY <2>5, <2>6 DEF SInv
  <2>8. NoSpuriousError'
    BY <2>1, NoSpuriousErrorStep
  <2> QED BY <2>4, <2>7, <2>8
<1>3. Inv => NoSpuriousError
  OBVIOUS
<1> HIDE DEF Inv
<1> QED BY <1>1, <1>2, <1>3, ContentsFollowInput, PTL DEF Spec
=============================================================================
