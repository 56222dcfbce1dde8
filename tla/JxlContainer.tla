---------------------------- MODULE JxlContainer ----------------------------
(***************************************************************************)
(* The boxes of a JPEG XL file as the format defines them, for the decoder *)
(* (BoxReader) that must accept every such file and for the encoder        *)
(* (JxlEncoder) that must write no other. A box is a record with at least  *)
(*   type       its type, four characters                                  *)
(*   inner      the type inside a brob box                                 *)
(*   last       whether a jxlp box is the last                             *)
(*   unbounded  whether it extends to the end of the file                  *)
(*   size       the size of its contents                                   *)
(***************************************************************************)
EXTENDS Integers, FiniteSetsExt, SequencesExt

Meta == {"Exif", "xml "}

Inner(b) == IF b.type = "brob" THEN b.inner ELSE b.type
OfType(B, t) == {i \in DOMAIN B : B[i].type = t}
Holding(B, t) == {i \in DOMAIN B : Inner(B[i]) = t}
CodestreamBoxes(B) == OfType(B, "jxlc") \cup OfType(B, "jxlp")

\* The order of the boxes. `frame' is the box in which the first frame begins:
\* a jbrd box comes before, though the headers of the codestream may precede
\* it.
WellFormedBoxes(B, frame) ==
  /\ Len(B) >= 2 /\ B[1].type = "JXL " /\ OfType(B, "ftyp") = {2} /\ B[2].size >= 3
  /\ \A i \in DOMAIN B : /\ B[i].unbounded => i = Len(B)
                         /\ B[i].type = "brob" => B[i].size >= 2
                         /\ B[i].type \in {"jxlp", "jbrd"} => B[i].size >= 1
  /\ CodestreamBoxes(B) # {}
  /\ OfType(B, "jxlc") # {} => Cardinality(CodestreamBoxes(B)) = 1
  /\ \A i \in OfType(B, "jxlp") : B[i].last <=> i = Max(OfType(B, "jxlp"))
  /\ Cardinality(OfType(B, "jbrd")) <= 1
  /\ \A i \in OfType(B, "jbrd") : i < frame
=============================================================================
