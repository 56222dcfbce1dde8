-------------------------- MODULE JxlEncoder_proof --------------------------
(***************************************************************************)
(* Proofs about JxlEncoder, for any number of frames and boxes, any boxes, *)
(* JPEG files and settings, and output buffers of any sizes.               *)
(***************************************************************************)
EXTENDS JxlEncoder, SequenceTheorems, TLAPS

\* The types of what is queued and written.
BoxType == {k.type : k \in BoxKinds}
             \cup {"JXL ", "ftyp", "jxll", "jbrd", "jxlc", "jxlp", "brob", "none"}
Contents == {"headers", "frame", "rest", "signature", "brand", "index", "type", "level", "jbrd",
             "contents"}
Item == [kind : {"frame", "box"}, n : Nat, ready : BOOLEAN, type : BoxType,
         compress : BOOLEAN]
BoxUnit == [unit : {"box"}, type : BoxType, inner : BoxType, size : Nat, last : BOOLEAN,
            unbounded : {FALSE}]
DataUnit == [unit : {"data"}, what : Contents, n : Nat, last : BOOLEAN]
Unit == BoxUnit \cup DataUnit

TypesInv ==
  /\ input_queue \in Seq(Item) /\ added \in Seq(Item)
  /\ out \in Seq(Unit) /\ output_byte_queue \in Seq(Unit)
  /\ jxlp_counter \in Nat /\ avail_out \in Nat
  /\ frames_closed \in BOOLEAN /\ dropped \in BOOLEAN

\* The frames and boxes that left the queue.
Taken == Len(added) - Len(input_queue)

\* The queue holds the last of what was added.
QueueInv ==
  /\ Taken >= 0
  /\ \A k \in DOMAIN input_queue : input_queue[k].n = Taken + k

\* What was written, or is to be handed out, of what was taken from the queue.
WrittenInv ==
  LET units == out \o output_byte_queue
  IN  /\ \A i, j \in Begins(units) : i < j => units[i].n < units[j].n
      /\ \A i \in Begins(units) : units[i].n \in 1..Taken
      /\ ~dropped => \A n \in 1..Taken : \E i \in Begins(units) : units[i].n = n

EInv == TypesInv /\ QueueInv /\ WrittenInv
-----------------------------------------------------------------------------
(* Pieces of output. *)

\* A piece without a frame or box of the queue, and one with just one.
NoItem(s) == s \in Seq(Unit) /\ Begins(s) = {}
OneItem(s, n) == s \in Seq(Unit) /\ \E i \in DOMAIN s : Begins(s) = {i} /\ s[i].n = n

\* Where the items of two pieces are, one after the other.
LEMMA BeginsConcat ==
  ASSUME NEW s \in Seq(Unit), NEW t \in Seq(Unit)
  PROVE  /\ s \o t \in Seq(Unit) /\ Len(s) \in Nat /\ Len(t) \in Nat
         /\ Len(s \o t) = Len(s) + Len(t)
         /\ \A i \in 1..Len(s) : (s \o t)[i] = s[i] /\ (i \in Begins(s \o t) <=> i \in Begins(s))
         /\ \A i \in 1..Len(t) : /\ (s \o t)[Len(s) + i] = t[i]
                                 /\ Len(s) + i \in Begins(s \o t) <=> i \in Begins(t)
         /\ \A i \in Begins(s \o t) :
              \/ i \in 1..Len(s)
              \/ i - Len(s) \in 1..Len(t) /\ i = Len(s) + (i - Len(s))
         /\ Begins(s) \subseteq 1..Len(s) /\ Begins(t) \subseteq 1..Len(t)
<1> DEFINE u == s \o t
<1>1. /\ u \in Seq(Unit) /\ Len(u) = Len(s) + Len(t)
      /\ \A i \in 1..Len(s) + Len(t) : u[i] = IF i <= Len(s) THEN s[i] ELSE t[i - Len(s)]
  BY ConcatProperties
<1>2. Len(s) \in Nat /\ Len(t) \in Nat
  BY LenProperties
<1>3. DOMAIN s = 1..Len(s) /\ DOMAIN t = 1..Len(t) /\ DOMAIN u = 1..Len(s) + Len(t)
  BY <1>1, LenProperties
<1> HIDE DEF u
<1>4. \A i \in 1..Len(s) : i \in DOMAIN u /\ u[i] = s[i]
  BY <1>1, <1>2, <1>3
<1>5. \A i \in 1..Len(t) : Len(s) + i \in DOMAIN u /\ u[Len(s) + i] = t[i]
  BY <1>1, <1>2, <1>3
<1>6. \A i \in DOMAIN u : \/ i \in 1..Len(s)
                          \/ i - Len(s) \in 1..Len(t) /\ i = Len(s) + (i - Len(s))
  BY <1>2, <1>3
<1>7. \A i \in 1..Len(s) : i \in Begins(u) <=> i \in Begins(s)
  BY <1>3, <1>4 DEF Begins
<1>8. \A i \in 1..Len(t) : Len(s) + i \in Begins(u) <=> i \in Begins(t)
  BY <1>3, <1>5 DEF Begins
<1>9. /\ \A i \in Begins(u) : i \in DOMAIN u
      /\ Begins(s) \subseteq 1..Len(s) /\ Begins(t) \subseteq 1..Len(t)
  BY <1>3 DEF Begins
<1> QED BY <1>1, <1>2, <1>4, <1>5, <1>6, <1>7, <1>8, <1>9 DEF u

LEMMA NoItems ==
  ASSUME NEW s, NEW t, NoItem(s), NoItem(t)
  PROVE  NoItem(s \o t)
<1>1. s \in Seq(Unit) /\ t \in Seq(Unit) /\ Begins(s) = {} /\ Begins(t) = {}
  BY DEF NoItem
<1>2. s \o t \in Seq(Unit) /\ Begins(s \o t) = {}
  BY <1>1, BeginsConcat
<1> QED BY <1>2 DEF NoItem

LEMMA ItemLast ==
  ASSUME NEW s, NEW t, NEW n, NoItem(s), OneItem(t, n)
  PROVE  OneItem(s \o t, n)
<1>1. s \in Seq(Unit) /\ t \in Seq(Unit) /\ Begins(s) = {}
  BY DEF NoItem, OneItem
<1>2. PICK i \in DOMAIN t : Begins(t) = {i} /\ t[i].n = n
  BY DEF OneItem
<1>3. i \in 1..Len(t)
  BY <1>1, <1>2, LenProperties
<1>4. /\ s \o t \in Seq(Unit) /\ (s \o t)[Len(s) + i] = t[i]
      /\ Len(s) + i \in Begins(s \o t)
      /\ \A j \in Begins(s \o t) : j - Len(s) = i /\ j = Len(s) + (j - Len(s))
  BY <1>1, <1>2, <1>3, BeginsConcat
<1>5. Begins(s \o t) = {Len(s) + i} /\ Len(s) + i \in DOMAIN (s \o t)
  BY <1>4 DEF Begins
<1> QED BY <1>2, <1>4, <1>5 DEF OneItem

LEMMA ItemFirst ==
  ASSUME NEW s, NEW t, NEW n, OneItem(s, n), NoItem(t)
  PROVE  OneItem(s \o t, n)
<1>1. s \in Seq(Unit) /\ t \in Seq(Unit) /\ Begins(t) = {}
  BY DEF NoItem, OneItem
<1>2. PICK i \in DOMAIN s : Begins(s) = {i} /\ s[i].n = n
  BY DEF OneItem
<1>3. i \in 1..Len(s)
  BY <1>1, <1>2, LenProperties
<1>4. /\ s \o t \in Seq(Unit) /\ (s \o t)[i] = s[i] /\ i \in Begins(s \o t)
      /\ \A j \in Begins(s \o t) : j \in 1..Len(s)
      /\ \A j \in 1..Len(s) : j \in Begins(s \o t) <=> j \in Begins(s)
  BY <1>1, <1>2, <1>3, BeginsConcat
<1>5. Begins(s \o t) = {i} /\ i \in DOMAIN (s \o t)
  BY <1>2, <1>4 DEF Begins
<1> QED BY <1>2, <1>4, <1>5 DEF OneItem

\* One unit.
LEMMA OneUnit ==
  ASSUME NEW u \in Unit
  PROVE  /\ <<u>> \in Seq(Unit) /\ Len(<<u>>) = 1
         /\ u.unit = "box" => NoItem(<<u>>)
         /\ u.unit = "data" /\ u.what \notin {"frame", "contents"} => NoItem(<<u>>)
         /\ u.unit = "data" /\ u.what \in {"frame", "contents"} => OneItem(<<u>>, u.n)
<1>1. <<u>> \in Seq(Unit) /\ DOMAIN <<u>> = {1} /\ <<u>>[1] = u /\ Len(<<u>>) = 1
  OBVIOUS
<1>2. ~(u.unit = "data" /\ u.what \in {"frame", "contents"}) => Begins(<<u>>) = {}
  BY <1>1 DEF Begins
<1>3. u.unit = "data" /\ u.what \in {"frame", "contents"} => Begins(<<u>>) = {1}
  BY <1>1 DEF Begins
<1>4. u.unit = "box" => NoItem(<<u>>)
  BY <1>1, <1>2 DEF NoItem
<1> QED BY <1>1, <1>2, <1>3, <1>4 DEF NoItem, OneItem

LEMMA EmptyPiece == NoItem(<<>>)
<1>1. <<>> \in Seq(Unit) /\ DOMAIN <<>> = {}
  OBVIOUS
<1> QED BY <1>1 DEF NoItem, Begins


\* Two units that belong together.
LEMMA TwoUnits ==
  ASSUME NEW u \in Unit, NEW v \in Unit
  PROVE  <<u, v>> = <<u>> \o <<v>>
<1>1. <<u>> \in Seq(Unit) /\ <<v>> \in Seq(Unit) /\ <<u, v>> \in Seq(Unit)
      /\ Len(<<u>>) = 1 /\ Len(<<v>>) = 1 /\ Len(<<u, v>>) = 2
      /\ <<u, v>>[1] = u /\ <<u, v>>[2] = v /\ <<u>>[1] = u /\ <<v>>[1] = v
  OBVIOUS
<1> DEFINE s == <<u>>
           t == <<v>>
<1>2. s \in Seq(Unit) /\ t \in Seq(Unit) /\ Len(s) = 1 /\ Len(t) = 1 /\ s[1] = u /\ t[1] = v
  BY <1>1
<1> HIDE DEF s, t
<1>3. /\ s \o t \in Seq(Unit) /\ Len(s \o t) = 2
      /\ (s \o t)[1] = u /\ (s \o t)[2] = v
  <2>1. /\ s \o t \in Seq(Unit) /\ Len(s \o t) = Len(s) + Len(t)
        /\ \A i \in 1..Len(s) + Len(t) : (s \o t)[i] = IF i <= Len(s) THEN s[i] ELSE t[i - Len(s)]
    BY <1>2, ConcatProperties
  <2> QED BY <1>2, <2>1
<1>4. \A i \in 1..2 : (s \o t)[i] = <<u, v>>[i]
  <2>1. \A i \in 1..2 : i = 1 \/ i = 2
    OBVIOUS
  <2> QED BY <1>1, <1>3, <2>1
<1>5. s \o t = <<u, v>>
  BY <1>1, <1>3, <1>4, SeqEqual
<1> QED BY <1>5 DEF s, t

LEMMA HeaderType ==
  ASSUME NEW type \in BoxType, NEW inner \in BoxType, NEW size \in Nat, NEW last \in BOOLEAN
  PROVE  NoItem(<<Header(type, inner, size, last)>>) /\ Header(type, inner, size, last) \in Unit
<1> DEFINE h == Header(type, inner, size, last)
<1>1. h \in Unit /\ h.unit = "box"
  BY DEF Header, Unit, BoxUnit
<1> HIDE DEF h
<1>2. NoItem(<<h>>)
  BY <1>1, OneUnit
<1> QED BY <1>1, <1>2 DEF h

LEMMA DataType ==
  ASSUME NEW what \in Contents, NEW n \in Nat, NEW last \in BOOLEAN
  PROVE  /\ Data(what, n, last) \in Unit
         /\ what \notin {"frame", "contents"} => NoItem(<<Data(what, n, last)>>)
         /\ what \in {"frame", "contents"} => OneItem(<<Data(what, n, last)>>, n)
<1> DEFINE d == Data(what, n, last)
<1>1. d \in Unit /\ d.unit = "data" /\ d.what = what /\ d.n = n
  BY DEF Data, Unit, DataUnit
<1> HIDE DEF d
<1>2. /\ what \notin {"frame", "contents"} => NoItem(<<d>>)
      /\ what \in {"frame", "contents"} => OneItem(<<d>>, n)
  BY <1>1, OneUnit
<1> QED BY <1>1, <1>2 DEF d

\* A box has the items of its contents: AppendBoxHeader(), AppendJxlpBoxCounter()
\* and the brob box add none.
LEMMA BoxPiece ==
  ASSUME NEW type \in BoxType, NEW b \in Seq(Unit)
  PROVE  /\ NoItem(b) => NoItem(Box(type, b))
         /\ \A n : OneItem(b, n) => OneItem(Box(type, b), n)
<1> DEFINE h == <<Header(type, type, Len(b), FALSE)>>
<1>1. Len(b) \in Nat
  BY LenProperties
<1>2. NoItem(h)
  BY <1>1, HeaderType DEF BoxType
<1>3. Box(type, b) = h \o b
  BY DEF Box
<1> HIDE DEF h
<1> QED BY <1>2, <1>3, NoItems, ItemLast

LEMMA JxlpPiece ==
  ASSUME NEW counter \in Nat, NEW last \in BOOLEAN, NEW b \in Seq(Unit)
  PROVE  /\ NoItem(b) => NoItem(Jxlp(counter, last, b))
         /\ \A n : OneItem(b, n) => OneItem(Jxlp(counter, last, b), n)
<1> DEFINE h == Header("jxlp", "jxlp", Len(b) + 1, last)
           d == Data("index", counter, last)
<1>1. Len(b) + 1 \in Nat
  BY LenProperties
<1>2. h \in Unit /\ NoItem(<<h>>)
  BY <1>1, HeaderType DEF BoxType
<1>3. d \in Unit /\ NoItem(<<d>>)
  BY DataType DEF Contents
<1>4. Jxlp(counter, last, b) = <<h, d>> \o b
  BY DEF Jxlp
<1> HIDE DEF h, d
<1>5. NoItem(<<h, d>>)
  BY <1>2, <1>3, NoItems, TwoUnits
<1> DEFINE p == <<h, d>>
<1>6. NoItem(p) /\ Jxlp(counter, last, b) = p \o b
  BY <1>4, <1>5
<1> HIDE DEF p
<1> QED BY <1>6, NoItems, ItemLast

LEMMA BrobPiece ==
  ASSUME NEW type \in BoxType, NEW b \in Seq(Unit)
  PROVE  \A n : OneItem(b, n) => OneItem(Brob(type, b), n)
<1> DEFINE h == Header("brob", type, Len(b) + 1, FALSE)
           d == Data("type", 0, FALSE)
<1>1. Len(b) + 1 \in Nat
  BY LenProperties
<1>2. h \in Unit /\ NoItem(<<h>>)
  BY <1>1, HeaderType DEF BoxType
<1>3. d \in Unit /\ NoItem(<<d>>)
  BY DataType DEF Contents
<1>4. Brob(type, b) = <<h, d>> \o b
  BY DEF Brob
<1> HIDE DEF h, d
<1>5. NoItem(<<h, d>>)
  BY <1>2, <1>3, NoItems, TwoUnits
<1> DEFINE p == <<h, d>>
<1>6. NoItem(p) /\ Brob(type, b) = p \o b
  BY <1>4, <1>5
<1> HIDE DEF p
<1> QED BY <1>6, ItemLast

\* An encoded frame is one item.
LEMMA FramePiece ==
  ASSUME NEW n \in Nat, NEW last \in BOOLEAN
  PROVE  OneItem(EncodedFrame(n, last), n)
<1> DEFINE f == Data("frame", n, last)
           g == Data("rest", n, last)
<1>1. f \in Unit /\ OneItem(<<f>>, n)
  BY DataType DEF Contents
<1>2. g \in Unit /\ NoItem(<<g>>)
  BY DataType DEF Contents
<1>3. EncodedFrame(n, last) = <<f, g>>
  BY DEF EncodedFrame
<1> HIDE DEF f, g
<1>4. <<f, g>> = <<f>> \o <<g>>
  BY <1>1, <1>2, TwoUnits
<1>5. OneItem(<<f>> \o <<g>>, n)
  BY <1>1, <1>2, ItemFirst
<1> QED BY <1>3, <1>4, <1>5

\* The headers of the codestream, and what is written before the first item,
\* hold no item.
LEMMA HeadersPiece == NoItem(CodestreamHeaders)
BY DataType DEF CodestreamHeaders, Contents

LEMMA BeginningPiece ==
  ASSUME jxlp_counter \in Nat, NEW item
  PROVE  NoItem(Beginning(item)) /\ NoItem(Pending(item)) /\ Counter(item) \in Nat
<1>1. NoItem(Pending(item)) /\ Counter(item) \in Nat
  BY HeadersPiece, EmptyPiece DEF Pending, Counter
<1> DEFINE A == Signature
           B == Ftyp
           C == IF codestream_level # 5 THEN Box("jxll", <<Data("level", 0, FALSE)>>) ELSE <<>>
           D == IF PartialHeader(item) THEN Jxlp(jxlp_counter, FALSE, CodestreamHeaders) ELSE <<>>
           E == IF store_jpeg_metadata /\ jpeg_metadata
                THEN Box("jbrd", <<Data("jbrd", 0, FALSE)>>) ELSE <<>>
<1>2. NoItem(A)
  <2>1. NoItem(<<Data("signature", 0, FALSE)>>)
    BY DataType DEF Contents
  <2> QED BY <2>1, BoxPiece DEF BoxType, NoItem, Signature
<1>3. NoItem(B)
  <2> DEFINE d == Data("brand", 0, FALSE)
             s == [k \in 1..3 |-> d]
  <2>1. d \in Unit
    BY DataType DEF Contents
  <2>2. d.what = "brand"
    BY DEF Data
  <2> HIDE DEF d
  <2>3. s \in Seq(Unit)
    <3>1. s \in [1..3 -> Unit]
      BY <2>1
    <3> HIDE DEF s
    <3> QED BY <3>1, SeqDef
  <2>4. Begins(s) = {}
    BY <2>2 DEF Begins
  <2>5. Ftyp = Box("ftyp", s)
    BY DEF Ftyp, d
  <2> HIDE DEF s
  <2>6. NoItem(s)
    BY <2>3, <2>4 DEF NoItem
  <2> QED BY <2>3, <2>5, <2>6, BoxPiece DEF BoxType
<1>4. NoItem(C)
  <2>1. NoItem(<<Data("level", 0, FALSE)>>)
    BY DataType DEF Contents
  <2>2. NoItem(Box("jxll", <<Data("level", 0, FALSE)>>))
    BY <2>1, BoxPiece DEF BoxType, NoItem
  <2> QED BY <2>2, EmptyPiece
<1>5. NoItem(D)
  <2>1. NoItem(Jxlp(jxlp_counter, FALSE, CodestreamHeaders))
    BY HeadersPiece, JxlpPiece DEF NoItem
  <2> QED BY <2>1, EmptyPiece
<1>6. NoItem(E)
  <2>1. NoItem(<<Data("jbrd", 0, FALSE)>>)
    BY DataType DEF Contents
  <2>2. NoItem(Box("jbrd", <<Data("jbrd", 0, FALSE)>>))
    BY <2>1, BoxPiece DEF BoxType, NoItem
  <2> QED BY <2>2, EmptyPiece
<1>7. Beginning(item) = IF wrote_bytes \/ ~MustUseContainer THEN <<>> ELSE A \o B \o C \o D \o E
  BY DEF Beginning
<1> HIDE DEF A, B, C, D, E
<1>8. NoItem(A \o B \o C \o D \o E)
  <2>1. NoItem(A \o B)
    BY <1>2, <1>3, NoItems
  <2>2. NoItem(A \o B \o C)
    BY <1>4, <2>1, NoItems
  <2>3. NoItem(A \o B \o C \o D)
    BY <1>5, <2>2, NoItems
  <2> QED BY <1>6, <2>3, NoItems
<1>9. NoItem(Beginning(item))
  BY <1>7, <1>8, EmptyPiece
<1> QED BY <1>1, <1>9
-----------------------------------------------------------------------------
(* Steps that write. *)

\* What the invariant says of lengths and of the items in the queue.
LEMMA QueueFacts ==
  ASSUME EInv
  PROVE  /\ input_queue \in Seq(Item) /\ added \in Seq(Item)
         /\ Len(input_queue) \in Nat /\ Len(added) \in Nat /\ Taken \in Nat
         /\ DOMAIN input_queue = 1..Len(input_queue) /\ DOMAIN added = 1..Len(added)
         /\ \A k \in 1..Len(input_queue) : input_queue[k] \in Item /\ input_queue[k].n = Taken + k
         /\ Taken = Len(added) - Len(input_queue)
<1>1. input_queue \in Seq(Item) /\ added \in Seq(Item)
  BY DEF EInv, TypesInv
<1>2. /\ Len(input_queue) \in Nat /\ Len(added) \in Nat
      /\ DOMAIN input_queue = 1..Len(input_queue) /\ DOMAIN added = 1..Len(added)
  BY <1>1, LenProperties
<1>3. Taken \in Nat /\ Taken = Len(added) - Len(input_queue)
  BY <1>2 DEF EInv, QueueInv, Taken
<1>4. \A k \in 1..Len(input_queue) : input_queue[k].n = Taken + k
  BY <1>2 DEF EInv, QueueInv
<1>5. \A k \in 1..Len(input_queue) : input_queue[k] \in Item
  BY <1>1, ElementOfSeq
<1> QED BY <1>1, <1>2, <1>3, <1>4, <1>5

\* One item leaves the queue; it is written, or dropped.
LEMMA TakeItem ==
  ASSUME EInv, output_byte_queue = <<>>, input_queue # <<>>, input_queue' = Tail(input_queue),
         added' = added, out' = out, output_byte_queue' \in Seq(Unit),
         \/ OneItem(output_byte_queue', Head(input_queue).n) /\ dropped' = dropped
         \/ NoItem(output_byte_queue') /\ dropped'
  PROVE  QueueInv' /\ WrittenInv'
<1> DEFINE T == Taken
           n == Head(input_queue).n
<1>1. /\ input_queue \in Seq(Item) /\ Len(input_queue) \in Nat /\ Len(added) \in Nat /\ T \in Nat
      /\ \A k \in 1..Len(input_queue) : input_queue[k].n = T + k
      /\ T = Len(added) - Len(input_queue)
  BY QueueFacts
<1>2. /\ Tail(input_queue) \in Seq(Item) /\ Len(Tail(input_queue)) = Len(input_queue) - 1
      /\ \A i \in 1..Len(Tail(input_queue)) : Tail(input_queue)[i] = input_queue[i + 1]
  BY <1>1, HeadTailProperties
<1>3. Len(input_queue) >= 1
  BY <1>1, EmptySeq
<1>4. Head(input_queue) = input_queue[1]
  BY <1>1, <1>3
<1>5. n = T + 1
  BY <1>1, <1>3, <1>4
<1>6. Taken' = T + 1
  BY <1>1, <1>2 DEF Taken
<1>7. DOMAIN (input_queue') = 1..Len(input_queue) - 1
  BY <1>2, LenProperties
<1> HIDE DEF T, n
<1>8. QueueInv'
  <2>1. ASSUME NEW k \in 1..Len(input_queue) - 1
        PROVE  Tail(input_queue)[k].n = T + 1 + k
    <3>1. k + 1 \in 1..Len(input_queue) /\ k \in 1..Len(Tail(input_queue))
      BY <1>1, <1>2
    <3>2. input_queue[k + 1].n = T + (k + 1) /\ Tail(input_queue)[k] = input_queue[k + 1]
      BY <1>1, <1>2, <3>1
    <3>3. T + (k + 1) = T + 1 + k
      BY <1>1
    <3> QED BY <3>2, <3>3
  <2>2. Taken' >= 0
    BY <1>1, <1>6
  <2> QED BY <1>6, <1>7, <2>1, <2>2 DEF QueueInv
<1> DEFINE s == out
           t == output_byte_queue'
           u == s \o t
<1>9. out \in Seq(Unit)
  BY DEF EInv, TypesInv
<1>10. /\ \A i, j \in Begins(s) : i < j => s[i].n < s[j].n
       /\ \A i \in Begins(s) : s[i].n \in 1..T
       /\ ~dropped => \A m \in 1..T : \E i \in Begins(s) : s[i].n = m
  <2>1. out \o output_byte_queue = out
    BY <1>9, ConcatEmptySeq
  <2> QED BY <2>1 DEF EInv, WrittenInv, T
<1>11. /\ Len(s) \in Nat
       /\ \A i \in 1..Len(s) : u[i] = s[i] /\ (i \in Begins(u) <=> i \in Begins(s))
       /\ \A i \in 1..Len(t) : /\ u[Len(s) + i] = t[i]
                               /\ Len(s) + i \in Begins(u) <=> i \in Begins(t)
       /\ \A i \in Begins(u) : \/ i \in 1..Len(s)
                               \/ i - Len(s) \in 1..Len(t) /\ i = Len(s) + (i - Len(s))
       /\ Begins(s) \subseteq 1..Len(s) /\ Begins(t) \subseteq 1..Len(t)
  BY <1>9, BeginsConcat
<1>12. (out \o output_byte_queue)' = u
  OBVIOUS
<1> HIDE DEF s, t, u
<1>13. \A i \in Begins(s) : i \in Begins(u) /\ u[i] = s[i] /\ i \in 1..Len(s)
  BY <1>11
<1>14. CASE OneItem(t, n) /\ dropped' = dropped
  <2>1. PICK b \in DOMAIN t : Begins(t) = {b} /\ t[b].n = n
    BY <1>14 DEF OneItem
  <2>2. b \in 1..Len(t) /\ Len(t) \in Nat
    <3>1. t \in Seq(Unit)
      BY DEF t
    <3> QED BY <2>1, <3>1, LenProperties
  <2> DEFINE p == Len(s) + b
  <2>3. p \in Begins(u) /\ u[p].n = T + 1 /\ p \in Nat /\ p > Len(s)
    BY <1>5, <1>11, <2>1, <2>2
  <2>4. \A i \in Begins(u) : i \in Begins(s) \/ i = p
    BY <1>11, <2>1, <2>2
  <2> HIDE DEF p
  <2>5. ASSUME NEW i \in Begins(u) PROVE u[i].n \in 1..T+1
    <3>1. CASE i = p
      BY <1>1, <2>3, <3>1
    <3>2. CASE i \in Begins(s)
      <4>1. u[i].n \in 1..T
        BY <1>10, <1>13, <3>2
      <4> QED BY <1>1, <4>1
    <3> QED BY <2>4, <3>1, <3>2
  <2>6. ASSUME NEW i \in Begins(u), NEW j \in Begins(u), i < j
        PROVE  u[i].n < u[j].n
    <3>1. i \in Begins(s)
      <4> SUFFICES ASSUME i = p PROVE FALSE
        BY <2>4
      <4>1. j \in Begins(s)
        BY <2>3, <2>4, <2>6
      <4>2. j \in 1..Len(s)
        BY <1>13, <4>1
      <4> QED BY <1>11, <2>3, <2>6, <4>2
    <3>2. u[i] = s[i] /\ s[i].n \in 1..T
      BY <1>10, <1>13, <3>1
    <3>3. CASE j = p
      BY <1>1, <2>3, <3>2, <3>3
    <3>4. CASE j \in Begins(s)
      BY <1>10, <1>13, <2>6, <3>1, <3>4
    <3> QED BY <2>4, <3>3, <3>4
  <2>7. ASSUME ~dropped', NEW m \in 1..T+1
        PROVE  \E i \in Begins(u) : u[i].n = m
    <3>1. CASE m = T + 1
      BY <2>3, <3>1
    <3>2. CASE m # T + 1
      <4>1. m \in 1..T
        <5>1. m \in Int /\ 1 <= m /\ m <= T + 1 /\ T \in Nat
          BY <1>1, <2>7
        <5> QED BY <3>2, <5>1
      <4>2. PICK i \in Begins(s) : s[i].n = m
        BY <1>10, <1>14, <2>7, <4>1
      <4> QED BY <1>13, <4>2
    <3> QED BY <3>1, <3>2
  <2> QED BY <1>6, <1>8, <1>12, <2>5, <2>6, <2>7 DEF WrittenInv
<1>15. CASE NoItem(t) /\ dropped'
  <2>1. Begins(t) = {}
    BY <1>15 DEF NoItem
  <2>2. \A i \in Begins(u) : i \in Begins(s) /\ u[i] = s[i]
    BY <1>11, <2>1
  <2>3. ASSUME NEW i \in Begins(u) PROVE u[i].n \in 1..T+1
    <3>1. u[i].n \in 1..T
      BY <1>10, <2>2
    <3> QED BY <1>1, <3>1
  <2>4. \A i, j \in Begins(u) : i < j => u[i].n < u[j].n
    BY <1>10, <2>2
  <2> QED BY <1>6, <1>8, <1>12, <1>15, <2>3, <2>4 DEF WrittenInv
<1> QED BY <1>14, <1>15 DEF t, n

\* RefillOutputByteQueue() takes a frame.
LEMMA EncodeStep ==
  ASSUME EInv, NEW fails \in BOOLEAN, EncodeQueuedFrame(fails)
  PROVE  EInv'
<1> DEFINE item == Head(input_queue)
           bytes == Pending(item) \o EncodedFrame(item.n, LastFrame)
           ok == item.ready /\ ~fails
<1>1. /\ input_queue \in Seq(Item) /\ added \in Seq(Item) /\ out \in Seq(Unit)
      /\ jxlp_counter \in Nat /\ avail_out \in Nat
      /\ frames_closed \in BOOLEAN /\ dropped \in BOOLEAN
  BY DEF EInv, TypesInv
<1>2. /\ output_byte_queue = <<>> /\ input_queue # <<>> /\ input_queue' = Tail(input_queue)
      /\ UNCHANGED <<added, out, frames_closed>> /\ (avail_out' = 0 \/ avail_out' = avail_out)
      /\ dropped' = (dropped \/ ~ok)
      /\ jxlp_counter' = Counter(item) + (IF ok /\ MustUseContainer /\ ~WholeCodestream(item) THEN 1 ELSE 0)
      /\ output_byte_queue' =
              Beginning(item) \o
                (CASE ~ok -> <<>>
                   [] ok /\ ~MustUseContainer -> bytes
                   [] (ok /\ MustUseContainer) /\ WholeCodestream(item) -> Box("jxlc", bytes)
                   [] OTHER -> Jxlp(Counter(item), LastFrame, bytes))
  BY DEF EncodeQueuedFrame, Refilling, call
<1>3. item \in Item /\ Tail(input_queue) \in Seq(Item)
  BY <1>1, <1>2, HeadTailProperties
<1>4. item.n \in Nat /\ item.ready \in BOOLEAN
  BY <1>3 DEF Item
<1>5. LastFrame \in BOOLEAN
  BY <1>1 DEF LastFrame
<1>6. NoItem(Beginning(item)) /\ NoItem(Pending(item)) /\ Counter(item) \in Nat
  BY <1>1, BeginningPiece
<1>7. OneItem(bytes, item.n)
  <2>1. OneItem(EncodedFrame(item.n, LastFrame), item.n)
    BY <1>4, <1>5, FramePiece
  <2> QED BY <1>6, <2>1, ItemLast
<1>8. bytes \in Seq(Unit)
  BY <1>7 DEF OneItem
<1> HIDE DEF bytes
<1>9. OneItem(Box("jxlc", bytes), item.n)
  BY <1>7, <1>8, BoxPiece DEF BoxType
<1>10. OneItem(Jxlp(Counter(item), LastFrame, bytes), item.n)
  BY <1>5, <1>6, <1>7, <1>8, JxlpPiece
<1>11. \/ OneItem(output_byte_queue', item.n) /\ dropped' = dropped
       \/ NoItem(output_byte_queue') /\ dropped'
  <2>1. CASE ~ok
    <3>1. output_byte_queue' = Beginning(item) \o <<>>
      BY <1>2, <2>1
    <3>2. NoItem(Beginning(item) \o <<>>)
      BY <1>6, EmptyPiece, NoItems
    <3> QED BY <1>2, <2>1, <3>1, <3>2
  <2>2. CASE ok
    <3> DEFINE piece == CASE ~ok -> <<>>
                   [] ok /\ ~MustUseContainer -> bytes
                   [] (ok /\ MustUseContainer) /\ WholeCodestream(item) -> Box("jxlc", bytes)
                   [] OTHER -> Jxlp(Counter(item), LastFrame, bytes)
    <3>1. piece = bytes \/ piece = Box("jxlc", bytes) \/ piece = Jxlp(Counter(item), LastFrame, bytes)
      BY <2>2
    <3>2. output_byte_queue' = Beginning(item) \o piece
      BY <1>2
    <3>3. OneItem(piece, item.n)
      BY <1>7, <1>9, <1>10, <3>1
    <3>4. dropped' = dropped
      BY <1>1, <1>2, <2>2
    <3> HIDE DEF piece
    <3> QED BY <1>6, <3>2, <3>3, <3>4, ItemLast
  <2> QED BY <2>1, <2>2
<1>12. output_byte_queue' \in Seq(Unit)
  BY <1>11 DEF NoItem, OneItem
<1>13. QueueInv' /\ WrittenInv'
  BY <1>2, <1>11, <1>12, TakeItem
<1>14. jxlp_counter' \in Nat
  BY <1>2, <1>6
<1>15. dropped' \in BOOLEAN /\ avail_out' \in Nat
  BY <1>1, <1>2
<1> QED BY <1>1, <1>2, <1>3, <1>12, <1>13, <1>14, <1>15 DEF EInv, TypesInv

\* RefillOutputByteQueue() takes a box.
LEMMA BoxStep ==
  ASSUME EInv, NEW fails \in BOOLEAN, WriteQueuedBox(fails)
  PROVE  EInv'
<1> DEFINE item == Head(input_queue)
           contents == <<Data("contents", item.n, FALSE)>>
<1>1. /\ input_queue \in Seq(Item) /\ added \in Seq(Item) /\ out \in Seq(Unit)
      /\ jxlp_counter \in Nat /\ avail_out \in Nat
      /\ frames_closed \in BOOLEAN /\ dropped \in BOOLEAN
  BY DEF EInv, TypesInv
<1>2. /\ output_byte_queue = <<>> /\ input_queue # <<>> /\ input_queue' = Tail(input_queue)
      /\ UNCHANGED <<added, out, frames_closed>> /\ (avail_out' = 0 \/ avail_out' = avail_out)
      /\ dropped' = (dropped \/ fails)
      /\ jxlp_counter' = Counter(item)
      /\ output_byte_queue' =
              Beginning(item) \o
                (CASE fails -> <<>>
                   [] ~fails /\ item.compress -> Brob(item.type, contents)
                   [] OTHER -> Box(item.type, contents))
  BY DEF WriteQueuedBox, Refilling, call
<1>3. item \in Item /\ Tail(input_queue) \in Seq(Item)
  BY <1>1, <1>2, HeadTailProperties
<1>4. item.n \in Nat /\ item.type \in BoxType
  BY <1>3 DEF Item
<1>5. NoItem(Beginning(item)) /\ Counter(item) \in Nat
  BY <1>1, BeginningPiece
<1>6. OneItem(contents, item.n)
  BY <1>4, DataType DEF Contents
<1>7. contents \in Seq(Unit)
  BY <1>6 DEF OneItem
<1> HIDE DEF contents
<1>8. OneItem(Box(item.type, contents), item.n) /\ OneItem(Brob(item.type, contents), item.n)
  BY <1>4, <1>6, <1>7, BoxPiece, BrobPiece
<1>9. \/ OneItem(output_byte_queue', item.n) /\ dropped' = dropped
      \/ NoItem(output_byte_queue') /\ dropped'
  <2>1. CASE fails
    <3>1. output_byte_queue' = Beginning(item) \o <<>>
      BY <1>2, <2>1
    <3>2. NoItem(Beginning(item) \o <<>>)
      BY <1>5, EmptyPiece, NoItems
    <3> QED BY <1>2, <2>1, <3>1, <3>2
  <2>2. CASE ~fails
    <3> DEFINE piece == CASE fails -> <<>>
                          [] ~fails /\ item.compress -> Brob(item.type, contents)
                          [] OTHER -> Box(item.type, contents)
    <3>1. piece = Brob(item.type, contents) \/ piece = Box(item.type, contents)
      BY <2>2
    <3>2. output_byte_queue' = Beginning(item) \o piece
      BY <1>2
    <3>3. OneItem(piece, item.n)
      BY <1>8, <3>1
    <3>4. dropped' = dropped
      BY <1>1, <1>2, <2>2
    <3> HIDE DEF piece
    <3> QED BY <1>5, <3>2, <3>3, <3>4, ItemLast
  <2> QED BY <2>1, <2>2
<1>10. output_byte_queue' \in Seq(Unit)
  BY <1>9 DEF NoItem, OneItem
<1>11. QueueInv' /\ WrittenInv'
  BY <1>2, <1>9, <1>10, TakeItem
<1>12. dropped' \in BOOLEAN /\ avail_out' \in Nat
  BY <1>1, <1>2
<1> QED BY <1>1, <1>2, <1>3, <1>5, <1>10, <1>11, <1>12 DEF EInv, TypesInv

\* JxlEncoderProcessOutput() hands out as much as there is room for and keeps
\* the rest.
LEMMA CopyStep ==
  ASSUME EInv, CopyOut
  PROVE  EInv'
<1> DEFINE q == output_byte_queue
           k == ToCopy
           a == SubSeq(q, 1, k)
           b == SubSeq(q, k + 1, Len(q))
<1>1. out \in Seq(Unit) /\ q \in Seq(Unit) /\ Len(q) \in Nat /\ avail_out \in Nat
  BY LenProperties DEF EInv, TypesInv
<1>2. k \in 0..Len(q) /\ k <= avail_out
  <2>1. \A m \in Nat, n \in Nat : \E x \in {m, n} : \A y \in {m, n} : x <= y
    OBVIOUS
  <2>2. \E x \in {avail_out, Len(q)} : \A y \in {avail_out, Len(q)} : x <= y
    BY <1>1, <2>1
  <2>3. k \in {avail_out, Len(q)} /\ \A y \in {avail_out, Len(q)} : k <= y
    BY <2>2 DEF ToCopy, Min
  <2> QED BY <1>1, <2>3
<1>3. /\ out' = out \o a /\ output_byte_queue' = b /\ avail_out' = avail_out - k
      /\ UNCHANGED <<input_queue, added, jxlp_counter, frames_closed, dropped>>
  BY DEF CopyOut, NotCopied, queue, written
<1> HIDE DEF k, q
<1>4. a \in Seq(Unit) /\ b \in Seq(Unit)
  <2>1. \A i \in 1..Len(q) : q[i] \in Unit
    BY <1>1, ElementOfSeq
  <2>2. \A i \in 1..k : q[i] \in Unit
    BY <1>1, <1>2, <2>1
  <2>3. \A i \in k+1..Len(q) : q[i] \in Unit
    BY <1>1, <1>2, <2>1
  <2>4. k \in Int /\ k + 1 \in Int /\ Len(q) \in Int
    BY <1>1, <1>2
  <2> QED BY <2>2, <2>3, <2>4, SubSeqProperties
<1>5. a \o b = q
  <2>1. SubSeq(q, 1, k) \o SubSeq(q, k+1, Len(q)) = SubSeq(q, 1, Len(q))
    <3>1. 1 \in 1..Len(q)+1 /\ k \in 1-1..Len(q) /\ Len(q) \in k..Len(q)
      BY <1>1, <1>2
    <3> QED BY <1>1, <3>1, ConcatAdjacentSubSeq
  <2>2. SubSeq(q, 1, Len(q)) = q
    BY <1>1, SubSeqFull
  <2> QED BY <2>1, <2>2
<1> HIDE DEF a, b
<1>6. (out \o a) \o b = out \o q /\ out \o a \in Seq(Unit)
  <2>1. (out \o a) \o b = out \o (a \o b)
    BY <1>1, <1>4, ConcatAssociative
  <2>2. out \o a \in Seq(Unit)
    BY <1>1, <1>4, ConcatProperties
  <2> QED BY <1>5, <2>1, <2>2
<1>7. (out \o output_byte_queue)' = out \o output_byte_queue
  BY <1>3, <1>6 DEF q
<1>8. Taken' = Taken
  BY <1>3 DEF Taken
<1>9. QueueInv' /\ WrittenInv'
  BY <1>3, <1>7, <1>8 DEF EInv, QueueInv, WrittenInv
<1>10. avail_out' \in Nat
  BY <1>1, <1>2, <1>3
<1> QED BY <1>3, <1>4, <1>6, <1>9, <1>10 DEF EInv, TypesInv
-----------------------------------------------------------------------------
(* Steps that do not write. *)

\* Nothing that the invariant reads has changed.
LEMMA QuietStep ==
  ASSUME EInv, UNCHANGED <<input_queue, added, out, output_byte_queue, dropped, jxlp_counter>>,
         avail_out' \in Nat, frames_closed' \in BOOLEAN
  PROVE  EInv'
<1>1. Taken' = Taken
  BY DEF Taken
<1>2. QueueInv' /\ WrittenInv'
  BY <1>1 DEF EInv, QueueInv, WrittenInv
<1> QED BY <1>2 DEF EInv, TypesInv

\* A frame or box is added.
LEMMA EnqueueStep ==
  ASSUME EInv, NEW item \in Item, item.n = Len(added) + 1, Enqueue(item),
         UNCHANGED <<out, output_byte_queue, dropped, jxlp_counter, avail_out, frames_closed>>
  PROVE  EInv'
<1>1. /\ input_queue \in Seq(Item) /\ added \in Seq(Item)
      /\ Len(input_queue) \in Nat /\ Len(added) \in Nat /\ Taken \in Nat
      /\ \A k \in 1..Len(input_queue) : input_queue[k].n = Taken + k
      /\ Taken = Len(added) - Len(input_queue)
  BY QueueFacts
<1>2. /\ added' \in Seq(Item) /\ Len(added') = Len(added) + 1
      /\ input_queue' \in Seq(Item) /\ Len(input_queue') = Len(input_queue) + 1
      /\ \A k \in 1..Len(input_queue) : input_queue'[k] = input_queue[k]
      /\ input_queue'[Len(input_queue) + 1] = item
  BY <1>1, AppendProperties DEF Enqueue
<1>3. DOMAIN (input_queue') = 1..Len(input_queue) + 1
  BY <1>2, LenProperties
<1>4. Taken' = Taken
  BY <1>1, <1>2 DEF Taken
<1>5. \A k \in 1..Len(input_queue) + 1 : input_queue'[k].n = Taken + k
  <2>1. \A k \in 1..Len(input_queue) + 1 : k \in 1..Len(input_queue) \/ k = Len(input_queue) + 1
    BY <1>1
  <2>2. item.n = Taken + (Len(input_queue) + 1)
    BY <1>1
  <2> QED BY <1>1, <1>2, <2>1, <2>2
<1>6. QueueInv'
  BY <1>1, <1>3, <1>4, <1>5 DEF QueueInv
<1>7. WrittenInv'
  BY <1>4 DEF EInv, WrittenInv
<1> QED BY <1>2, <1>6, <1>7 DEF EInv, TypesInv

\* JxlEncoderSetExtraChannelBuffer() completes the last frame of the queue.
LEMMA ExtraChannelStep ==
  ASSUME EInv, SetExtraChannelBuffer
  PROVE  EInv'
<1> DEFINE L == Len(input_queue)
           A == Len(added)
           x == [input_queue[L] EXCEPT !.ready = TRUE]
           y == [added[A] EXCEPT !.ready = TRUE]
<1>1. /\ input_queue \in Seq(Item) /\ added \in Seq(Item) /\ L \in Nat /\ A \in Nat /\ Taken \in Nat
      /\ \A k \in 1..L : input_queue[k].n = Taken + k
      /\ Taken = A - L
  BY QueueFacts
<1>2. /\ input_queue # <<>>
      /\ input_queue' = [input_queue EXCEPT ![L] = x]
      /\ added' = [added EXCEPT ![A] = y]
      /\ UNCHANGED <<out, output_byte_queue, dropped, jxlp_counter, avail_out, frames_closed>>
  BY DEF SetExtraChannelBuffer, written, call
<1>3. L \in 1..L /\ A \in 1..A
  <2>1. L >= 1
    BY <1>1, <1>2, EmptySeq
  <2> QED BY <1>1, <2>1
<1>4. input_queue[L] \in Item /\ added[A] \in Item
  BY <1>1, <1>3, ElementOfSeq
<1>5. x \in Item /\ y \in Item /\ x.n = input_queue[L].n
  BY <1>4 DEF Item
<1> HIDE DEF x, y
<1>6. /\ input_queue' \in Seq(Item) /\ Len(input_queue') = L
      /\ \A k \in 1..L : input_queue'[k] = IF k = L THEN x ELSE input_queue[k]
  BY <1>1, <1>2, <1>3, <1>5, ExceptSeq
<1>7. added' \in Seq(Item) /\ Len(added') = A
  BY <1>1, <1>2, <1>3, <1>5, ExceptSeq
<1>8. Taken' = Taken /\ DOMAIN (input_queue') = 1..L
  BY <1>1, <1>6, <1>7, LenProperties DEF Taken
<1>9. QueueInv'
  <2>1. \A k \in 1..L : input_queue'[k].n = Taken + k
    BY <1>1, <1>5, <1>6
  <2> HIDE DEF L
  <2> QED BY <1>1, <1>8, <2>1 DEF QueueInv
<1>10. WrittenInv'
  BY <1>2, <1>8 DEF EInv, WrittenInv
<1> QED BY <1>2, <1>6, <1>7, <1>9, <1>10 DEF EInv, TypesInv

\* Frames and boxes as they are added.
LEMMA ItemTypes ==
  ASSUME EInv
  PROVE  /\ \A ready \in BOOLEAN : Frame(ready) \in Item /\ Frame(ready).n = Len(added) + 1
         /\ \A k \in BoxKinds : QueuedBox(k) \in Item /\ QueuedBox(k).n = Len(added) + 1
<1>1. Len(added) + 1 \in Nat
  BY QueueFacts
<1>2. "none" \in BoxType /\ \A k \in BoxKinds : k.type \in BoxType /\ k.compress \in BOOLEAN
  BY EncoderAssumption DEF BoxType
<1>3. \A ready \in BOOLEAN : Frame(ready) \in Item /\ Frame(ready).n = Len(added) + 1
  BY <1>1, <1>2 DEF Frame, Item
<1>4. \A k \in BoxKinds : QueuedBox(k) \in Item /\ QueuedBox(k).n = Len(added) + 1
  BY <1>1, <1>2 DEF QueuedBox, Item
<1> QED BY <1>3, <1>4

LEMMA AddingStep ==
  ASSUME EInv, Adding
  PROVE  EInv'
<1>1. avail_out \in Nat /\ frames_closed \in BOOLEAN
  BY DEF EInv, TypesInv
<1>2. ASSUME NEW alpha \in BOOLEAN, AddImageFrame(alpha)
      PROVE  EInv'
  <2>1. PICK ready \in BOOLEAN : ready = (alpha \/ num_extra_channels = 0)
    OBVIOUS
  <2>2. /\ Enqueue(Frame(ready))
        /\ UNCHANGED <<out, output_byte_queue, dropped, jxlp_counter, avail_out, frames_closed>>
    BY <1>2, <2>1 DEF AddImageFrame, written, call
  <2> QED BY <2>2, ItemTypes, EnqueueStep
<1>3. ASSUME NEW j \in JpegKinds, AddJPEGFrame(j)
      PROVE  EInv'
  <2>1. PICK ready \in BOOLEAN : ready = (num_extra_channels' = 0)
    OBVIOUS
  <2>2. /\ Enqueue(Frame(ready)) \/ UNCHANGED <<input_queue, added>>
        /\ UNCHANGED <<out, output_byte_queue, dropped, jxlp_counter, avail_out, frames_closed>>
    BY <1>3, <2>1 DEF AddJPEGFrame, written, call
  <2> QED BY <1>1, <2>2, ItemTypes, EnqueueStep, QuietStep
<1>4. ASSUME NEW k \in BoxKinds, AddBox(k)
      PROVE  EInv'
  <2>1. /\ Enqueue(QueuedBox(k))
        /\ UNCHANGED <<out, output_byte_queue, dropped, jxlp_counter, avail_out, frames_closed>>
    BY <1>4 DEF AddBox, written, call
  <2> QED BY <2>1, ItemTypes, EnqueueStep
<1>5. CASE CloseFrames
  BY <1>1, <1>5, QuietStep DEF CloseFrames, queue, written, call
<1> QED BY <1>2, <1>3, <1>4, <1>5, ExtraChannelStep DEF Adding

LEMMA SettingsStep ==
  ASSUME EInv, Settings
  PROVE  EInv'
<1>1. avail_out \in Nat /\ frames_closed \in BOOLEAN
  BY DEF EInv, TypesInv
<1>2. UNCHANGED <<input_queue, added, out, output_byte_queue, dropped, jxlp_counter, avail_out,
                  frames_closed>>
  BY DEF Settings, UseContainer, UseBoxes, StoreJPEGMetadata, SetCodestreamLevel,
         SetColorEncoding, SetBasicInfo, queue, written, call, history
<1> QED BY <1>1, <1>2, QuietStep

LEMMA OutputStep ==
  ASSUME EInv, Output
  PROVE  EInv'
<1>1. avail_out \in Nat /\ frames_closed \in BOOLEAN
  BY DEF EInv, TypesInv
<1>2. ASSUME NEW room \in Rooms, ProcessOutput(room)
      PROVE  EInv'
  <2>1. avail_out' \in Nat
    BY <1>2, EncoderAssumption DEF ProcessOutput
  <2> QED BY <1>1, <1>2, <2>1, QuietStep DEF ProcessOutput, queue, written, history
<1>3. CASE RefuseToBegin \/ ReturnOutput
  <2>1. avail_out' = 0
    BY <1>3 DEF RefuseToBegin, ReturnOutput
  <2> QED BY <1>1, <1>3, <2>1, QuietStep DEF RefuseToBegin, ReturnOutput, queue, written, history
<1> QED BY <1>2, <1>3, EncodeStep, BoxStep, CopyStep DEF Output

LEMMA InitEncoder == Init => EInv
<1> SUFFICES ASSUME Init PROVE EInv
  OBVIOUS
<1>1. /\ input_queue = <<>> /\ added = <<>> /\ out = <<>> /\ output_byte_queue = <<>>
      /\ jxlp_counter = 0 /\ avail_out = 0 /\ frames_closed = FALSE /\ dropped = FALSE
  BY DEF Init
<1>2. TypesInv
  <2>1. /\ <<>> \in Seq(Item) /\ <<>> \in Seq(Unit)
        /\ 0 \in Nat /\ FALSE \in BOOLEAN
    OBVIOUS
  <2>2. /\ input_queue \in Seq(Item) /\ added \in Seq(Item)
        /\ out \in Seq(Unit) /\ output_byte_queue \in Seq(Unit)
    BY ONLY <1>1, <2>1
  <2>3. /\ jxlp_counter \in Nat /\ avail_out \in Nat
        /\ frames_closed \in BOOLEAN /\ dropped \in BOOLEAN
    BY ONLY <1>1, <2>1
  <2> QED BY ONLY <2>2, <2>3 DEF TypesInv
<1>3. Taken = 0
  BY <1>1 DEF Taken
<1>4. QueueInv
  BY <1>1, <1>3 DEF QueueInv
<1>5. Begins(out \o output_byte_queue) = {}
  <2>1. NoItem(out \o output_byte_queue)
    BY <1>1, EmptyPiece, NoItems
  <2> QED BY <2>1 DEF NoItem
<1>6. WrittenInv
  BY <1>3, <1>5 DEF WrittenInv
<1> QED BY <1>2, <1>4, <1>6 DEF EInv

LEMMA NextEncoder == EInv /\ [Next]_vars => EInv'
<1> SUFFICES ASSUME EInv, [Next]_vars PROVE EInv'
  OBVIOUS
<1>1. CASE UNCHANGED vars
  <2>1. avail_out \in Nat /\ frames_closed \in BOOLEAN
    BY DEF EInv, TypesInv
  <2> QED BY <1>1, <2>1, QuietStep DEF vars, queue, written, call, history
<1> QED BY <1>1, SettingsStep, AddingStep, OutputStep DEF Next

\* The queue holds the last frames and boxes that were added, and the output
\* has the others in their order, each once unless it failed.
THEOREM EncoderInvariant == Spec => []EInv
BY InitEncoder, NextEncoder, PTL DEF Spec

\* JxlEncoderProcessOutput() loses, repeats and reorders nothing, wherever the
\* output buffers of the application end and whatever is added in between.
THEOREM QueueKeepsOrder == Spec => []QueuedInOrder
<1>1. EInv => QueuedInOrder
  <2> SUFFICES ASSUME EInv PROVE QueuedInOrder
    OBVIOUS
  <2> DEFINE units == out \o output_byte_queue
             items == {units[i].n : i \in Begins(units)}
             waiting == {input_queue[k].n : k \in DOMAIN input_queue}
             L == Len(input_queue)
             A == Len(added)
  <2>1. /\ L \in Nat /\ A \in Nat /\ Taken \in Nat /\ Taken = A - L
        /\ DOMAIN input_queue = 1..L
        /\ \A k \in 1..L : input_queue[k].n = Taken + k
    BY QueueFacts
  <2>2. /\ \A i, j \in Begins(units) : i < j => units[i].n < units[j].n
        /\ \A i \in Begins(units) : units[i].n \in 1..Taken
        /\ ~dropped => \A n \in 1..Taken : \E i \in Begins(units) : units[i].n = n
    BY DEF EInv, WrittenInv
  <2> HIDE DEF units, L, A
  <2>3. \A k, l \in DOMAIN input_queue : k < l => input_queue[k].n < input_queue[l].n
    BY <2>1
  <2>4. \A m \in items : m \in 1..Taken
    BY <2>2
  <2>5. \A n : n \in waiting <=> n \in Taken+1..A
    <3>1. ASSUME NEW n \in waiting PROVE n \in Taken+1..A
      <4>1. PICK k \in 1..L : n = input_queue[k].n
        BY <2>1
      <4> QED BY <2>1, <4>1
    <3>2. ASSUME NEW n \in Taken+1..A PROVE n \in waiting
      <4>1. n - Taken \in 1..L /\ n = Taken + (n - Taken)
        BY <2>1
      <4>2. input_queue[n - Taken].n = n
        BY <2>1, <4>1
      <4> QED BY <2>1, <4>1, <4>2
    <3> QED BY <3>1, <3>2
  <2>6. ~dropped => \A n \in 1..Taken : n \in items
    BY <2>2
  <2> HIDE DEF items, waiting
  <2>7. \A m \in items, n \in waiting : m < n
    BY <2>1, <2>4, <2>5
  <2>8. items \cup waiting \subseteq 1..A
    BY <2>1, <2>4, <2>5
  <2>9. ASSUME ~dropped PROVE items \cup waiting = 1..A
    <3>1. \A n \in 1..A : n \in items \/ n \in waiting
      <4>1. \A n \in 1..A : n \in 1..Taken \/ n \in Taken+1..A
        BY <2>1
      <4> QED BY <2>5, <2>6, <2>9, <4>1
    <3> QED BY <2>8, <3>1
  <2> QED BY <2>2, <2>3, <2>7, <2>8, <2>9 DEF QueuedInOrder, units, items, waiting, A
<1> QED BY <1>1, EncoderInvariant, PTL
=============================================================================
