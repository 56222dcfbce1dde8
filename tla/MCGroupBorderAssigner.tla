----------------------- MODULE MCGroupBorderAssigner -----------------------
(* Instances of GroupBorderAssigner for TLC; the numbers are in the cfgs. *)
EXTENDS GroupBorderAssigner
=============================================================================
