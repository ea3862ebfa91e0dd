---------------------------- MODULE ContestModel ----------------------------
(***************************************************************************)
(* The data the contest service works on (internal/model): users, the      *)
(* question bank, the papers drawn from it and the time a paper has left.  *)
(* An answer to a question is a set of choice ids in the code; the service *)
(* only ever compares it with the set of correct ids, so here it is one    *)
(* member of Choices and Key[q] is the member that scores.                 *)
(***************************************************************************)
EXTENDS Integers, FiniteSets

CONSTANTS
    Users,          \* usernames
    Questions,      \* question ids of the bank
    Choices,        \* what a question may be answered with
    Key,            \* the answer of each question that scores
    PaperSize,      \* questions on a paper, over all categories
    MaxTries,       \* attempts a user may have recorded
    Deadline,       \* clock ticks a paper may be worked on
    Nil             \* no draft, no answer, no timer

ASSUME LimitsAssumption ==
    /\ MaxTries \in Nat \ {0}
    /\ Deadline \in Nat \ {0}
    /\ PaperSize \in Nat \ {0}

ASSUME BankAssumption ==
    /\ IsFiniteSet(Questions)
    /\ PaperSize <= Cardinality(Questions)
    /\ Key \in [Questions -> Choices]

-----------------------------------------------------------------------------
(***************************************************************************)
(* A deadline is kept as the ticks left until it: 0 is the instant of the  *)
(* deadline itself, -1 any time after it, so that `deadline <= now' reads  *)
(* left <= 0 and `now.After(deadline)' reads left < 0.                     *)
(***************************************************************************)
Timer == -1 .. Deadline

TimerElapsed(t) == IF t = -1 THEN -1 ELSE t - 1

Attempts == 1 .. MaxTries

\* A draft as Redis keeps it; the answers are under a key of their own.
Draft == [attempt: Attempts, paper: SUBSET Questions, left: Timer]

\* The questions a paper may be made of.  The per-category quotas only
\* narrow this set; which questions are drawn never matters below.
PickPaper == {S \in SUBSET Questions : Cardinality(S) = PaperSize}

Answers == [Questions -> Choices \union {Nil}]

NoAnswers == [q \in Questions |-> Nil]

\* One point for each question of the paper whose stored answer is the key.
CalculateScore(paper, ans) == Cardinality({q \in paper : ans[q] = Key[q]})

Scores == 0 .. Cardinality(Questions)

ASSUME NilAssumption ==
    /\ Nil \notin Draft
    /\ Nil \notin Timer
    /\ Nil \notin Choices
    /\ Nil \notin Users
=============================================================================
