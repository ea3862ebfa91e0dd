---------------------------- MODULE MCExamService ----------------------------
(***************************************************************************)
(* The constants of ExamService for TLC.                                   *)
(***************************************************************************)
EXTENDS ExamService, TLC

CONSTANT right

\* The answer right scores for every question.
MCKey == [q \in Questions |-> right]

\* Requests are alike.
Symmetry == Permutations(Handlers)
=============================================================================
