---------------------------- MODULE ScoreLedger ----------------------------
(***************************************************************************)
(* What the contest promises about results, with no mention of drafts,     *)
(* locks or requests: each user has a list of final scores, the i-th being *)
(* that of attempt i.  A score is only ever added at its end, one at a     *)
(* time, and never more than MaxTries of them; none is changed or removed. *)
(***************************************************************************)
EXTENDS Naturals, Sequences

CONSTANTS Users, Scores, MaxTries

VARIABLE ledger

Init == ledger = [u \in Users |-> << >>]

Record(u, s) ==
    /\ Len(ledger[u]) < MaxTries
    /\ ledger' = [ledger EXCEPT ![u] = Append(@, s)]

Next == \E u \in Users, s \in Scores : Record(u, s)

Spec == Init /\ [][Next]_ledger
=============================================================================
