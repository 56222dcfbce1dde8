---------------------------- MODULE MCIccReader ----------------------------
(* Instances of IccReader for TLC. *)
EXTENDS IccReader

D(f) == [s \in Symbols |-> f[s + 1]]
Flat == D(<<2, 2, 2, 2, 2, 2, 2, 2>>)
Skewed == D(<<1, 1, 1, 8, 1, 1, 2, 1>>)
Mixed == D(<<4, 1, 5, 1, 1, 2, 1, 1>>)
Distances == D(<<3, 6, 7, 0, 0, 0, 0, 0>>)
Single == D(<<16, 0, 0, 0, 0, 0, 0, 0>>)

\* Runs with matches that overlap themselves; and matches from as far back as
\* the window goes; and one that is written in too few bits.
Run == <<Literal(2), Literal(5), Match(3, 1), Match(2, 1), Literal(0)>>
Far == <<Literal(3), Literal(0), Literal(6), Match(3, 3), Literal(1), Match(2, 4)>>
Dense == <<Literal(2), Literal(5), Match(3, 1), Match(3, 1), Match(3, 1), Match(3, 1), Literal(0)>>
Short == <<Literal(2), Literal(5), Match(2, 1), Literal(0)>>

S(parse, prefix, h) == [parse |-> parse, use_prefix_code |-> prefix, histograms |-> h]

\* Every way to spread the table over eight symbols of such frequencies, if
\* those that Short needs occur.
Spreads ==
  {d \in [Symbols -> {0, 1, 2, 5}] :
     /\ \A s \in {0, 2, 5, 6} : d[s] > 0
     /\ MapThenSumSet(LAMBDA s : d[s], Symbols) = ANS_TAB_SIZE}

Profiles ==
  {S(Run, TRUE, <<Flat, Flat, Flat>>), S(Far, TRUE, <<Flat, Flat, Flat>>),
   S(Run, FALSE, <<Flat, Skewed, Single>>), S(Run, FALSE, <<Mixed, Flat, Distances>>),
   S(Far, FALSE, <<Skewed, Mixed, Distances>>), S(Far, FALSE, <<Mixed, Skewed, Flat>>),
   S(Dense, TRUE, <<Flat, Flat, Flat>>)}

\* Two profiles, one after the other; and the many distributions.
MCSessions ==
  {<<p, q>> : p, q \in Profiles} \cup {<<S(Short, FALSE, <<d, Flat, Single>>)>> : d \in Spreads}
=============================================================================
