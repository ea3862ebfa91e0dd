--------------------------- MODULE MCMemoryContest ---------------------------
(***************************************************************************)
(* The constants of MemoryContest for TLC.                                 *)
(***************************************************************************)
EXTENDS MemoryContest

Config(b, r, m) == [c \in Categories |-> IF c = "B" THEN b ELSE IF c = "R" THEN r ELSE m]

\* Two categories, two questions of one, and numbers below zero: nothing
\* validates either.
MCPaperCounts == {Config(1, 0, 1), Config(0, 2, 0), Config(2, 0, -1)}

MCScorePerQuestion == Config(1, 2, -3)
=============================================================================
