---------------------------- MODULE QuestionBank ----------------------------
(***************************************************************************)
(* The question bank (internal/bank/load.go, internal/model) and what the  *)
(* exam service computes from it: the papers it draws, the answers it      *)
(* takes and the scores it gives (internal/exam).                          *)
(*                                                                         *)
(* A choice is the flag that says whether it is correct; its id is made    *)
(* from its place.  A list of choice ids in a request is the set of its    *)
(* members and whether one of them is repeated.                            *)
(***************************************************************************)
EXTENDS Integers, FiniteSets, Sequences

Sums == INSTANCE FiniteSetsExt

CONSTANTS
    QuestionIds,        \* primary keys that may occur in the file
    IdStride,           \* a choice id is question id * IdStride + index
    MaxChoices,         \* bound: choices of one question
    PaperCounts,        \* the configurations: questions of each category
    ScorePerQuestion,   \* the points of each category
    Nil                 \* no entry in a map

Categories == {"B", "R", "M"}

ASSUME BankAssumption ==
    /\ IsFiniteSet(QuestionIds)
    /\ QuestionIds \subseteq Nat
    /\ IdStride \in Nat /\ MaxChoices \in Nat
    /\ PaperCounts \subseteq [Categories -> Int]
    /\ ScorePerQuestion \in [Categories -> Int]
    /\ Nil \notin Categories

VARIABLES
    phase,      \* "loading" the file, "serving", or "failed" to start
    category,   \* b.Questions: the category of each question read
    choices,    \* choiceRecords: the choices of each question, in file order
    qids,       \* b.QIDs: the questions of each category, in file order
    counts      \* the configuration the program was started with

bankVars == <<phase, category, choices, qids, counts>>

BankTypeOK ==
    /\ phase \in {"loading", "serving", "failed"}
    /\ category \in [QuestionIds -> Categories \union {Nil}]
    /\ choices \in [QuestionIds -> Seq(BOOLEAN)]
    /\ qids \in [Categories -> Seq(QuestionIds)]
    /\ counts \in PaperCounts

BankInit ==
    /\ phase = "loading"
    /\ category = [q \in QuestionIds |-> Nil]
    /\ choices = [q \in QuestionIds |-> << >>]
    /\ qids = [c \in Categories |-> << >>]
    /\ counts \in PaperCounts

Known == {q \in QuestionIds : category[q] # Nil}

-----------------------------------------------------------------------------
(***************************************************************************)
(* Load reads the records of the file one by one.                          *)
(***************************************************************************)
Fails ==
    /\ phase' = "failed"
    /\ UNCHANGED <<category, choices, qids, counts>>

\* Mutant: a second record with the same primary key overwrites the first.
DuplicateTaken(pk) == FALSE

Duplicate(pk) == pk \in Known

LoadQuestion(pk, c) ==
    /\ phase = "loading"
    /\ \/ /\ Duplicate(pk)
          /\ Fails
       \/ /\ ~Duplicate(pk)
          /\ category' = [category EXCEPT ![pk] = c]
          /\ qids' = [qids EXCEPT ![c] = Append(@, pk)]
          /\ UNCHANGED <<phase, choices, counts>>

\* A choice comes after its question.
LoadChoice(q, correct) ==
    /\ phase = "loading"
    /\ \/ /\ q \notin Known
          /\ Fails
       \/ /\ q \in Known
          /\ Len(choices[q]) < MaxChoices
          /\ choices' = [choices EXCEPT ![q] = Append(@, correct)]
          /\ UNCHANGED <<phase, category, qids, counts>>

\* An unknown model or category, or an empty content.
BadRecord ==
    /\ phase = "loading"
    /\ Fails

-----------------------------------------------------------------------------
ChoiceId(q, i) == q * IdStride + i - 1

ChoiceIds(q) == {ChoiceId(q, i) : i \in DOMAIN choices[q]}

CorrectChoiceIDs(q) == {ChoiceId(q, i) : i \in {j \in DOMAIN choices[q] : choices[q][j]}}

NCorrect(q) == Cardinality({i \in DOMAIN choices[q] : choices[q][i]})

\* Mutant: nothing is asked of single-choice questions.
WellFormedRadioFree(q) ==
    /\ Len(choices[q]) >= 2
    /\ category[q] = "B" => Len(choices[q]) = 2 /\ NCorrect(q) = 1
    /\ category[q] = "M" => NCorrect(q) >= 2

\* The ids of one question differ whatever it holds, so the test that they
\* do is left out.
WellFormed(q) ==
    /\ Len(choices[q]) >= 2
    /\ category[q] = "B" => Len(choices[q]) = 2 /\ NCorrect(q) = 1
    /\ category[q] = "R" => NCorrect(q) = 1
    /\ category[q] = "M" => NCorrect(q) >= 2

Valid == Known # {} /\ \A q \in Known : WellFormed(q)

\* The end of the file: the choices are put together and the bank validated.
\* The program does not start with a bank that is not valid.
EndOfFile ==
    /\ phase = "loading"
    /\ phase' = IF Valid THEN "serving" ELSE "failed"
    /\ UNCHANGED <<category, choices, qids, counts>>

LoadNext ==
    \/ \E pk \in QuestionIds, c \in Categories : LoadQuestion(pk, c)
    \/ \E q \in QuestionIds, correct \in BOOLEAN : LoadChoice(q, correct)
    \/ BadRecord
    \/ EndOfFile

-----------------------------------------------------------------------------
(***************************************************************************)
(* What the bank is used for.                                              *)
(***************************************************************************)
\* Mutant: a bank that is too small gives what it has.
DrawsAtMost == {I \in [Categories -> SUBSET (1 .. Cardinality(QuestionIds))] :
    \A c \in Categories : I[c] \subseteq DOMAIN qids[c] /\ Cardinality(I[c]) <= counts[c]}

\* A draw of n places of the list of each category, without replacement.
Draws == {I \in [Categories -> SUBSET (1 .. Cardinality(QuestionIds))] :
    \A c \in Categories : I[c] \subseteq DOMAIN qids[c] /\ Cardinality(I[c]) = counts[c]}

\* The papers PickPaper may return; none where it returns an error, for a
\* negative number or for too few questions.  Their order is left out.
PickPaper == {UNION {{qids[c][i] : i \in I[c]} : c \in Categories} : I \in Draws}

\* The request names these ids of question q, perhaps one of them twice:
\* does SaveAnswer take them?
Acceptable(q, ids, repeats) ==
    /\ ids \subseteq ChoiceIds(q)
    /\ ~repeats
    /\ category[q] # "M" => Cardinality(ids) = 1

\* Mutant: part of the correct choices will do.
SameChoiceSetOrPart(got, want) == got \notin {Nil, {}} /\ got \subseteq want

\* An answer never given is the empty list to CalculateScore.
SameChoiceSet(got, want) == got # {} /\ got = want

Points(Q) == Sums!MapThenSumSet(LAMBDA q : ScorePerQuestion[category[q]], Q)

CalculateScore(paper, answers) ==
    Points({q \in paper : SameChoiceSet(answers[q], CorrectChoiceIDs(q))})

\* What the pages announce as the full score.
TotalScore == Sums!MapThenSumSet(LAMBDA c : ScorePerQuestion[c] * counts[c], Categories)
=============================================================================
