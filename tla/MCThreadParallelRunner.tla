----------------------- MODULE MCThreadParallelRunner -----------------------
(* Instances of ThreadParallelRunner for TLC. *)
EXTENDS ThreadParallelRunner

\* A reversed, an empty and a longer range: with two workers and 16 tasks the
\* first chunks hold two tasks.
MCRanges == {<<3, 2>>, <<2, 2>>, <<1, 17>>}
MCShortRanges == {<<2, 2>>, <<3, 5>>}
=============================================================================
