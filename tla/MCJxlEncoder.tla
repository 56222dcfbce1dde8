---------------------------- MODULE MCJxlEncoder ----------------------------
(* Instances of JxlEncoder for TLC. *)
EXTENDS JxlEncoder

\* A plain box, one to be compressed, and one that may not be.
MCBoxKinds == {[type |-> "Exif", compress |-> FALSE], [type |-> "jumb", compress |-> TRUE],
               [type |-> "jbrd", compress |-> TRUE]}

\* Of a higher level; and with dimensions of its own.
MCJpegKinds == {[level |-> 10, icc_level |-> 5, fits |-> TRUE],
                [level |-> 5, icc_level |-> 5, fits |-> FALSE]}

\* With the original profile, as for a JPEG; of a higher level, with values that
\* cannot be written; and with an extra channel and a wrong orientation, so that
\* the call fails half-way.
Info(level, writable, original, extra, until) ==
  [level |-> level, writable |-> writable, original |-> original, extra |-> extra,
   until |-> until]
MCBasicInfos ==
  {Info(5, TRUE, TRUE, 0, "end"), Info(10, FALSE, FALSE, 0, "end"),
   Info(5, TRUE, FALSE, 1, "orientation")}
MCColorEncodings == {[level |-> 5, valid |-> TRUE]}
=============================================================================
