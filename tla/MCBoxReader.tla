---------------------------- MODULE MCBoxReader ----------------------------
(* Instances of BoxReader for TLC. *)
EXTENDS BoxReader

Plainly(type, size) ==
  [type |-> type, inner |-> "none", last |-> FALSE, unbounded |-> FALSE, header |-> 2,
   size |-> size, expects |-> [m \in Meta |-> 0]]
Signature == Plainly("JXL ", 1)
Ftyp == Plainly("ftyp", 3)
Jxlc == Plainly("jxlc", CodestreamSize)
Jxlp(size, last) == [Plainly("jxlp", size + 1) EXCEPT !.last = last]
Jbrd(exif, xmp) ==
  [Plainly("jbrd", 2) EXCEPT !.expects = [m \in Meta |-> IF m = "Exif" THEN exif ELSE xmp]]
Brob(inner, size) == [Plainly("brob", size + 1) EXCEPT !.inner = inner]
Endless(b) == [b EXCEPT !.unbounded = TRUE]
Large(b) == [b EXCEPT !.header = 4]
Container(bs) == [container |-> TRUE, boxes |-> <<Signature, Ftyp>> \o bs]

\* A file with a codestream only, files with the boxes a decoder must handle,
\* and files that the format does not allow.
Bare == [container |-> FALSE, boxes |-> <<[Plainly("none", CodestreamSize) EXCEPT !.unbounded = TRUE, !.header = 0]>>]
Large3 == Container(<<Large(Jxlc)>>)
Parts == Container(<<Jxlp(1, FALSE), Plainly("misc", 1), Jxlp(0, FALSE), Jxlp(2, TRUE)>>)
JpegLast == Container(<<Jbrd(2, 0), Plainly("Exif", 2), Endless(Jxlc)>>)
JpegBrob == Container(<<Jxlp(1, FALSE), Jbrd(0, 2), Jxlp(1, FALSE), Jxlp(1, TRUE), Brob("xml ", 1)>>)
JpegBoth ==
  Container(<<Plainly("Exif", 1), Jbrd(1, 1), Jxlc, Plainly("xml ", 1), Plainly("Exif", 2)>>)
JpegEndless == Container(<<Jbrd(2, 0), Jxlc, Endless(Plainly("Exif", 2))>>)
Malformed ==
  {[container |-> TRUE, boxes |-> <<Signature, Jxlc>>],
   [container |-> TRUE, boxes |-> <<Signature, Plainly("ftyp", 2), Jxlc>>],
   Container(<<Jxlc, Jxlc>>),
   Container(<<Plainly("jxlp", 0), Plainly("misc", 1)>>),
   Container(<<Jxlp(3, TRUE), Jxlp(0, TRUE)>>),
   Container(<<Brob("Exif", -1), Jxlc>>),
   Container(<<Jbrd(2, 0), Jbrd(0, 0), Jxlc>>),
   Container(<<Jxlp(1, FALSE), Endless(Plainly("misc", 1))>>),
   Container(<<Jbrd(1, 0), Plainly("Exif", 2), Jxlc>>) }

Session(f, wanted, decompress) == [file |-> f, wanted |-> wanted, decompress |-> decompress]
ImageAsJpeg == {"FULL_IMAGE", "JPEG_RECONSTRUCTION"}
MCSessions ==
  {Session(f, {"FULL_IMAGE", "FRAME"}, FALSE) : f \in {Bare, Large3, Parts}} \cup
  {Session(f, {"BASIC_INFO", "BOX"}, TRUE) : f \in {Parts, JpegLast, JpegBrob}} \cup
  {Session(f, ImageAsJpeg, FALSE) : f \in {JpegLast, JpegBrob, JpegBoth, JpegEndless}} \cup
  {Session(f, Events, FALSE) : f \in {Bare, JpegLast, JpegBrob, JpegBoth, JpegEndless} \cup Malformed}
MCJpegSession == {Session(JpegLast, ImageAsJpeg, FALSE)}
=============================================================================
