--------------------------- MODULE MCFrameDecoder ---------------------------
(* Instances of FrameDecoder for TLC; the numbers are in the cfgs. *)
EXTENDS FrameDecoder
=============================================================================
