---------------------- MODULE MCResizableParallelRunner ----------------------
(* Instances of ResizableParallelRunner for TLC. *)
EXTENDS ResizableParallelRunner

\* A reversed, an empty, a single-task range, and ranges shorter and longer
\* than the pool.
MCRanges == {<<3, 2>>, <<2, 2>>, <<4, 5>>, <<5, 7>>, <<1, 4>>}
=============================================================================
