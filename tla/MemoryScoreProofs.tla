------------------------- MODULE MemoryScoreProofs -------------------------
(***************************************************************************)
(* Proofs about the scores of MemoryContest: what points add up to, what a *)
(* paper is worth, and the types they rest on.                             *)
(***************************************************************************)
EXTENDS MemoryContestProofs, OperatorLemmas

-----------------------------------------------------------------------------
(***************************************************************************)
(* Sums of points in closed form.                                          *)
(***************************************************************************)
\* The questions of Q of one category.
Of(Q, c) == {q \in Q : category[q] = c}

\* What the questions of Q are worth, category by category.
ByCategory(Q) ==
      ScorePerQuestion["B"] * Cardinality(Of(Q, "B"))
    + ScorePerQuestion["R"] * Cardinality(Of(Q, "R"))
    + ScorePerQuestion["M"] * Cardinality(Of(Q, "M"))

\* One more of something is worth its value more.
LEMMA OneMore == \A a, n \in Int : a * (n + 1) = a * n + a /\ a * n \in Int
  OBVIOUS

\* Each category of the bank can be counted.
LEMMA OfCounted ==
    ASSUME BankTypeOK, NEW Q \in SUBSET Known, NEW c \in Categories
    PROVE  /\ IsFiniteSet(Q) /\ IsFiniteSet(Of(Q, c))
           /\ Cardinality(Of(Q, c)) \in Nat
           /\ ScorePerQuestion[c] \in Int
<1>1. IsFiniteSet(Q)
    BY BankAssumption, FS_Subset DEF Known
<1>2. IsFiniteSet(Of(Q, c))
    BY <1>1, FS_Subset DEF Of
<1> QED BY <1>1, <1>2, BankAssumption, FS_CardinalityType

\* A question counts in its own category and in no other.
LEMMA OfWithout ==
    ASSUME BankTypeOK, NEW Q \in SUBSET Known, NEW q \in Q, NEW c \in Categories
    PROVE  Cardinality(Of(Q, c)) =
              IF category[q] = c THEN Cardinality(Of(Q \ {q}, c)) + 1
                                 ELSE Cardinality(Of(Q \ {q}, c))
<1>1. CASE category[q] = c
    <2>1. Of(Q, c) = Of(Q \ {q}, c) \union {q} /\ q \notin Of(Q \ {q}, c)
        BY <1>1 DEF Of
    <2>2. IsFiniteSet(Of(Q \ {q}, c))
        BY OfCounted
    <2>3. Cardinality(Of(Q \ {q}, c) \union {q}) = Cardinality(Of(Q \ {q}, c)) + 1
        BY <2>1, <2>2, FS_AddElement
    <2> QED BY <1>1, <2>1, <2>3
<1>2. CASE category[q] # c
    <2>1. Of(Q, c) = Of(Q \ {q}, c)
        BY <1>2 DEF Of
    <2> QED BY <1>2, <2>1
<1> QED BY <1>1, <1>2

\* Taking a question away takes its points away.
LEMMA ByCategoryWithout ==
    ASSUME BankTypeOK, NEW Q \in SUBSET Known, NEW q \in Q
    PROVE  ByCategory(Q) = ScorePerQuestion[category[q]] + ByCategory(Q \ {q})
<1> DEFINE n(c) == Cardinality(Of(Q \ {q}, c))
           m(c) == Cardinality(Of(Q, c))
           v(c) == ScorePerQuestion[c]
<1>1. ASSUME NEW c \in Categories
      PROVE  /\ v(c) * n(c) \in Int /\ v(c) \in Int
             /\ v(c) * m(c) = IF category[q] = c THEN v(c) * n(c) + v(c) ELSE v(c) * n(c)
    <2>1. m(c) = IF category[q] = c THEN n(c) + 1 ELSE n(c)
        BY OfWithout
    <2>2. n(c) \in Nat /\ v(c) \in Int
        BY OfCounted
    <2> HIDE DEF n, m, v
    <2> QED BY <2>1, <2>2, OneMore
<1>2. category[q] \in {"B", "R", "M"} /\ Categories = {"B", "R", "M"}
    BY DEF Known, BankTypeOK, Categories
<1> DEFINE p(c) == v(c) * n(c)
           r(c) == v(c) * m(c)
<1>3. \A c \in {"B", "R", "M"} :
        /\ p(c) \in Int /\ v(c) \in Int
        /\ r(c) = IF category[q] = c THEN p(c) + v(c) ELSE p(c)
    BY <1>1, <1>2
<1>4. /\ ByCategory(Q) = r("B") + r("R") + r("M")
      /\ ByCategory(Q \ {q}) = p("B") + p("R") + p("M")
    BY DEF ByCategory
<1> HIDE DEF p, r, v
<1>5. r("B") + r("R") + r("M") = v(category[q]) + (p("B") + p("R") + p("M"))
    BY <1>2, <1>3
<1> QED BY <1>4, <1>5 DEF v

\* No questions are worth nothing.
LEMMA ByCategoryNone == ASSUME BankTypeOK PROVE ByCategory({}) = 0
<1>1. ASSUME NEW c \in Categories PROVE ScorePerQuestion[c] * Cardinality(Of({}, c)) = 0
    <2>1. Cardinality(Of({}, c)) = 0 /\ ScorePerQuestion[c] \in Int
        BY BankAssumption, FS_EmptySet DEF Of
    <2> QED BY <2>1
<1> QED BY <1>1 DEF ByCategory, Categories

\* CalculateScore goes through the questions in some order; whichever it is,
\* the points come to what the categories are worth.
LEMMA PointsByCategory ==
    ASSUME BankTypeOK, NEW Q \in SUBSET Known
    PROVE  Points(Q) = ByCategory(Q) /\ Points(Q) \in Int
<1> DEFINE Eq(i) == i = [s \in SUBSET Q |->
                            IF s = {} THEN 0
                            ELSE ScorePerQuestion[category[CHOOSE x \in s : TRUE]]
                                    + i[s \ {CHOOSE x \in s : TRUE}]]
           F == [s \in SUBSET Q |-> ByCategory(s)]
           w == [q \in Q |-> ScorePerQuestion[category[q]]]
           sum == CHOOSE i : Eq(i)
<1>1. Points(Q) = sum[Q]
    BY DEF Points, Sums!MapThenSumSet, Sums!MapThenFoldSet
<1>2. \A s \in SUBSET Q : \A x \in s : F[s] = w[x] + F[s \ {x}]
    BY ByCategoryWithout
<1>3. F[{}] = 0
    BY ByCategoryNone
<1>4. Eq(F)
    <2>1. ASSUME NEW s \in SUBSET Q, s # {}
          PROVE  F[s] = ScorePerQuestion[category[CHOOSE x \in s : TRUE]]
                            + F[s \ {CHOOSE x \in s : TRUE}]
        BY <1>2, <2>1
    <2>2. F = [s \in SUBSET Q |-> F[s]]
        OBVIOUS
    <2> HIDE DEF F, w
    <2> QED BY <1>3, <2>1, <2>2
<1>5. Eq(sum)
    <2> HIDE DEF F, Eq
    <2> QED BY <1>4
<1>6. sum[{}] = 0
    <2> HIDE DEF sum
    <2> QED BY <1>5
<1>7. ASSUME NEW s \in (SUBSET Q) \ {{}}
      PROVE  \E x \in s : sum[s] = w[x] + sum[s \ {x}]
    <2> HIDE DEF sum
    <2>1. (CHOOSE x \in s : TRUE) \in s
        OBVIOUS
    <2>2. sum[s] = ScorePerQuestion[category[CHOOSE x \in s : TRUE]]
                      + sum[s \ {CHOOSE x \in s : TRUE}]
        BY <1>5
    <2> QED BY <2>1, <2>2
<1>8. IsFiniteSet(Q)
    BY OfCounted, BankAssumption DEF Categories
<1>9. sum[Q] = F[Q]
    <2> HIDE DEF sum, F, w
    <2>1. PICK T, f, g, v : T = Q /\ f = F /\ g = sum /\ v = w
        OBVIOUS
    <2>2. IsSum(f, v, T)
        BY <1>2, <1>3, <2>1 DEF IsSum
    <2>3. AddsUp(g, v, T)
        BY <1>6, <1>7, <2>1 DEF AddsUp
    <2>4. g[T] = f[T]
        BY <1>8, <2>1, <2>2, <2>3, SumsAgree
    <2> QED BY <2>1, <2>4
<1>10. ByCategory(Q) \in Int
    <2>1. ASSUME NEW c \in Categories
          PROVE  ScorePerQuestion[c] * Cardinality(Of(Q, c)) \in Int
        BY OfCounted, OneMore
    <2> QED BY <2>1 DEF ByCategory, Categories
<1> QED BY <1>1, <1>9, <1>10

\* The pages add up what the configured numbers of questions are worth.
LEMMA TotalByCategory ==
    ASSUME BankTypeOK
    PROVE  TotalScore =   ScorePerQuestion["B"] * counts["B"]
                        + ScorePerQuestion["R"] * counts["R"]
                        + ScorePerQuestion["M"] * counts["M"]
<1> DEFINE Eq(i) == i = [s \in SUBSET Categories |->
                            IF s = {} THEN 0
                            ELSE ScorePerQuestion[CHOOSE x \in s : TRUE]
                                       * counts[CHOOSE x \in s : TRUE]
                                    + i[s \ {CHOOSE x \in s : TRUE}]]
           w == [c \in Categories |-> ScorePerQuestion[c] * counts[c]]
           F == [s \in SUBSET Categories |->
                    (IF "B" \in s THEN w["B"] ELSE 0) + (IF "R" \in s THEN w["R"] ELSE 0)
                        + (IF "M" \in s THEN w["M"] ELSE 0)]
           sum == CHOOSE i : Eq(i)
<1>1. TotalScore = sum[Categories]
    BY DEF TotalScore, Sums!MapThenSumSet, Sums!MapThenFoldSet
<1>2. \A c \in Categories : w[c] \in Int
    BY BankAssumption DEF BankTypeOK
<1>3. \A s \in SUBSET Categories : \A x \in s : F[s] = w[x] + F[s \ {x}]
    <2> HIDE DEF w
    <2> QED BY <1>2 DEF Categories
<1>4. F[{}] = 0
    OBVIOUS
<1>5. Eq(F)
    <2>1. ASSUME NEW s \in SUBSET Categories, s # {}
          PROVE  F[s] = ScorePerQuestion[CHOOSE x \in s : TRUE] * counts[CHOOSE x \in s : TRUE]
                            + F[s \ {CHOOSE x \in s : TRUE}]
        <3>1. (CHOOSE x \in s : TRUE) \in s
            BY <2>1
        <3> HIDE DEF F
        <3> QED BY <1>3, <3>1
    <2>2. F = [s \in SUBSET Categories |-> F[s]]
        OBVIOUS
    <2> HIDE DEF F, w
    <2> QED BY <1>4, <2>1, <2>2
<1>6. Eq(sum)
    <2> HIDE DEF F, Eq
    <2> QED BY <1>5
<1>7. sum[{}] = 0
    <2> HIDE DEF sum
    <2> QED BY <1>6
<1>8. ASSUME NEW s \in (SUBSET Categories) \ {{}}
      PROVE  \E x \in s : sum[s] = w[x] + sum[s \ {x}]
    <2> HIDE DEF sum
    <2>1. (CHOOSE x \in s : TRUE) \in s
        OBVIOUS
    <2>2. sum[s] = ScorePerQuestion[CHOOSE x \in s : TRUE] * counts[CHOOSE x \in s : TRUE]
                      + sum[s \ {CHOOSE x \in s : TRUE}]
        BY <1>6
    <2> QED BY <2>1, <2>2
<1>9. IsFiniteSet(Categories)
    <2>1. IsFiniteSet({"B"} \union {"R"} \union {"M"})
        BY FS_Singleton, FS_Union
    <2>2. Categories = {"B"} \union {"R"} \union {"M"}
        BY DEF Categories
    <2> QED BY <2>1, <2>2
<1>10. sum[Categories] = F[Categories]
    <2> HIDE DEF sum, F, w
    <2>1. PICK f, g, v : f = F /\ g = sum /\ v = w
        OBVIOUS
    <2>2. IsSum(f, v, Categories)
        BY <1>3, <1>4, <2>1 DEF IsSum
    <2>3. AddsUp(g, v, Categories)
        BY <1>7, <1>8, <2>1 DEF AddsUp
    <2>4. g[Categories] = f[Categories]
        BY <1>9, <2>2, <2>3, SumsAgree
    <2> QED BY <2>1, <2>4
<1>11. F[Categories] = w["B"] + w["R"] + w["M"]
    BY DEF Categories
<1> QED BY <1>1, <1>10, <1>11 DEF Categories

-----------------------------------------------------------------------------
(***************************************************************************)
(* What a paper is worth.                                                  *)
(***************************************************************************)
\* Answers given are choices of the question they are given to.
AnswersOK(a) == \A q \in QuestionIds : a[q] # Nil => a[q] \subseteq ChoiceIds(q)

\* No question has more choices than the bound.
ChoicesBounded == \A q \in QuestionIds : Len(choices[q]) <= MaxChoices

\* The ids of the choices are sets apart from Nil.
LEMMA CorrectIdsAreIds ==
    ASSUME BankTypeOK, ChoicesBounded, NEW q \in QuestionIds
    PROVE  /\ CorrectChoiceIDs(q) \in SUBSET AllChoiceIds
           /\ CorrectChoiceIDs(q) # Nil
<1>1. DOMAIN choices[q] = 1 .. Len(choices[q]) /\ Len(choices[q]) \in Nat
    BY DEF BankTypeOK
<1>2. \A i \in DOMAIN choices[q] : i \in 1 .. MaxChoices
    BY <1>1, BankAssumption DEF ChoicesBounded
<1>3. CorrectChoiceIDs(q) \in SUBSET AllChoiceIds
    BY <1>2 DEF CorrectChoiceIDs, ChoiceId, AllChoiceIds
<1> QED BY <1>3, NilAssumption

\* Comparing lists of ids comes to comparing choice by choice.
LEMMA RightChoiceByChoice ==
    ASSUME BankInv, phase = "serving", ChoicesBounded, NEW q \in Known, NEW a,
           a # Nil => a \subseteq ChoiceIds(q)
    PROVE  SameChoiceSet(a, CorrectChoiceIDs(q)) <=>
              \A i \in DOMAIN choices[q] : choices[q][i] <=> (a # Nil /\ ChoiceId(q, i) \in a)
<1>1. q \in QuestionIds /\ q \in Nat /\ BankTypeOK
    BY BankAssumption DEF Known, BankInv
<1>2. CorrectChoiceIDs(q) # {} /\ CorrectChoiceIDs(q) # Nil
    BY <1>1, CorrectIdsAreIds, ValidKeys DEF BankInv, KeyAcceptable, SameChoiceSet
<1>3. \A i, j \in DOMAIN choices[q] : ChoiceId(q, i) = ChoiceId(q, j) => i = j
    <2>1. q * IdStride \in Nat
        BY <1>1, BankAssumption
    <2>2. DOMAIN choices[q] \subseteq Nat
        BY <1>1 DEF BankTypeOK
    <2> DEFINE b == q * IdStride
    <2>3. \A i, j \in Nat : b \in Nat /\ b + i - 1 = b + j - 1 => i = j
        <3> HIDE DEF b
        <3> QED OBVIOUS
    <2> QED BY <2>1, <2>2, <2>3 DEF ChoiceId
<1>4. \A i \in DOMAIN choices[q] : choices[q][i] <=> ChoiceId(q, i) \in CorrectChoiceIDs(q)
    BY <1>3 DEF CorrectChoiceIDs
<1>5. CorrectChoiceIDs(q) \subseteq ChoiceIds(q)
    BY <1>1, CorrectIds
<1>6. ASSUME a = CorrectChoiceIDs(q)
      PROVE  \A i \in DOMAIN choices[q] : choices[q][i] <=> (a # Nil /\ ChoiceId(q, i) \in a)
    BY <1>2, <1>4, <1>6
<1>7. ASSUME \A i \in DOMAIN choices[q] : choices[q][i] <=> (a # Nil /\ ChoiceId(q, i) \in a)
      PROVE  a # {} /\ a = CorrectChoiceIDs(q)
    <2>1. a # Nil
        <3>1. PICK i \in DOMAIN choices[q] : choices[q][i]
            BY <1>2 DEF CorrectChoiceIDs
        <3> QED BY <1>7, <3>1
    <2>2. \A id \in ChoiceIds(q) : id \in a <=> id \in CorrectChoiceIDs(q)
        BY <1>4, <1>7, <2>1 DEF ChoiceIds
    <2>3. a = CorrectChoiceIDs(q)
        BY <1>5, <2>1, <2>2
    <2> QED BY <1>2, <2>3
<1> QED BY <1>2, <1>6, <1>7 DEF SameChoiceSet

\* CalculateScore gives a paper what it is worth.
LEMMA ScoreIsWorth ==
    ASSUME BankInv, phase = "serving", ChoicesBounded, NEW paper \in Paper,
           paper.questions \subseteq Known, AnswersOK(paper.answers)
    PROVE  CalculateScore(paper.questions, paper.answers) = Worth(paper)
<1> DEFINE Alone(q) == [paper EXCEPT !.questions = {q}]
<1>1. \A q, id : Selected(Alone(q), id) <=> paper.answers[q] # Nil /\ id \in paper.answers[q]
    <2>1. \A q : Alone(q).questions = {q} /\ Alone(q).answers = paper.answers
        BY DEF Paper
    <2> HIDE DEF Alone
    <2> QED BY <2>1 DEF Selected
<1>2. ASSUME NEW q \in paper.questions
      PROVE  SameChoiceSet(paper.answers[q], CorrectChoiceIDs(q)) <=>
                \A i \in DOMAIN choices[q] :
                    choices[q][i] <=> Selected(Alone(q), ChoiceId(q, i))
    <2>1. paper.answers[q] # Nil => paper.answers[q] \subseteq ChoiceIds(q)
        BY DEF AnswersOK, Known
    <2>2. PICK a : a = paper.answers[q]
        OBVIOUS
    <2>3. q \in Known
        OBVIOUS
    <2>4. SameChoiceSet(a, CorrectChoiceIDs(q)) <=>
              \A i \in DOMAIN choices[q] : choices[q][i] <=> (a # Nil /\ ChoiceId(q, i) \in a)
        BY <2>1, <2>2, <2>3, RightChoiceByChoice
    <2> QED BY <1>1, <2>2, <2>4
<1>3. {q \in paper.questions : SameChoiceSet(paper.answers[q], CorrectChoiceIDs(q))}
    = {q \in paper.questions : \A i \in DOMAIN choices[q] :
          choices[q][i] <=> Selected(Alone(q), ChoiceId(q, i))}
    BY <1>2
<1> QED BY <1>3 DEF CalculateScore, Worth

\* With every answer right a full paper is worth what the pages announce.
LEMMA FullPaperFullMarks ==
    ASSUME BankInv, phase = "serving", NEW Q \in SUBSET Known, Full(Q)
    PROVE  CalculateScore(Q, [q \in QuestionIds |-> CorrectChoiceIDs(q)]) = TotalScore
<1> DEFINE key == [q \in QuestionIds |-> CorrectChoiceIDs(q)]
<1>1. \A q \in Q : q \in QuestionIds /\ SameChoiceSet(key[q], CorrectChoiceIDs(q))
    BY ValidKeys DEF BankInv, KeyAcceptable, Known, SameChoiceSet
<1>2. {q \in Q : SameChoiceSet(key[q], CorrectChoiceIDs(q))} = Q
    BY <1>1
<1>3. CalculateScore(Q, key) = Points(Q)
    <2> HIDE DEF key
    <2> QED BY <1>2 DEF CalculateScore
<1>4. Points(Q) = ByCategory(Q)
    BY PointsByCategory DEF BankInv
<1>5. \A c \in Categories : Cardinality(Of(Q, c)) = counts[c]
    BY DEF Full, Of
<1>6. ByCategory(Q) = TotalScore
    BY <1>5, TotalByCategory DEF ByCategory, Categories, BankInv
<1> QED BY <1>3, <1>4, <1>6

-----------------------------------------------------------------------------
(***************************************************************************)
(* The invariant: papers, answers and tasks go with the bank.              *)
(***************************************************************************)
\* Nobody has a paper or is served before the bank is loaded.
Asleep == phase # "serving" =>
    (\A u \in Users : ~HasPaper(u)) /\ \A p \in Procs : task[p].at = "idle"

\* Each attempt is recorded once.
RecordsOK == \A u \in Users :
    /\ scores[u] \subseteq Result
    /\ \A r, s \in scores[u] : r.attempt = s.attempt => r = s

\* Papers and their answers are of the questions of the bank.
PapersGood == \A u \in Users : HasPaper(u) =>
    papers[u].questions \subseteq Known /\ AnswersOK(papers[u].answers)

\* So are the papers and answers about to be stored, and what is about to be
\* recorded is a score of an attempt.
GoodTask(t) ==
    /\ t.at = "create" => t.questions \subseteq Known
    /\ t.at = "save" => t.ids \subseteq ChoiceIds(t.question)
    /\ t.at = "insert" => t.attempt \in 1 .. MaxTries

ScoreInv ==
    /\ ChoicesBounded
    /\ Asleep
    /\ task \in [Procs -> Task]
    /\ queue \in [Tickers -> SUBSET Users]
    /\ RecordsOK
    /\ PapersGood
    /\ \A p \in Procs : GoodTask(task[p])

ContestInv == BankInv /\ StoreInv /\ PapersInv /\ ScoreInv

\* A process without a task.
LEMMA IdleIsTask == Idle \in Task /\ GoodTask(Idle) /\ Idle.at = "idle"
  BY StoresAssumption DEF Idle, Task, Timer, GoodTask

\* The empty contest.
LEMMA ScoreInvInit == ASSUME Init PROVE ScoreInv
<1>1. ChoicesBounded
    BY BankAssumption DEF Init, BankInit, ChoicesBounded
<1> QED BY <1>1, IdleIsTask DEF Init, StoresInit, ScoreInv, Asleep, RecordsOK, PapersGood, HasPaper

\* Where the bank stays, so does what papers, answers and tasks are held to.
LEMMA GoodStable ==
    ASSUME UNCHANGED bankVars
    PROVE  /\ ChoicesBounded => ChoicesBounded'
           /\ Known' = Known
           /\ \A a : AnswersOK(a) => AnswersOK(a)'
           /\ \A t : GoodTask(t) => GoodTask(t)'
  BY DEF bankVars, ChoicesBounded, Known, AnswersOK, GoodTask, ChoiceIds

\* A stored paper stays good, as does a new one that was.
LEMMA PapersStayGood ==
    ASSUME PapersGood, UNCHANGED bankVars,
           \A u \in Users : HasPaper(u)' =>
              \/ papers'[u] = papers[u]
              \/ papers'[u].questions \subseteq Known /\ AnswersOK(papers'[u].answers)
    PROVE  PapersGood'
<1> SUFFICES ASSUME NEW u \in Users, HasPaper(u)'
             PROVE  papers'[u].questions \subseteq Known' /\ AnswersOK(papers[u].answers)'
    BY DEF PapersGood
<1>1. papers'[u].questions \subseteq Known /\ AnswersOK(papers'[u].answers)
    BY DEF PapersGood, HasPaper
<1>2. PICK a : a = papers'[u].answers
    OBVIOUS
<1>3. AnswersOK(a)'
    BY <1>1, <1>2, GoodStable
<1> QED BY <1>1, <1>2, <1>3, GoodStable DEF AnswersOK

\* While the program serves, a process takes on a good task.
LEMMA ServingStep ==
    ASSUME ScoreInv, UNCHANGED bankVars, phase = "serving",
           NEW p \in Procs, NEW t \in Task, GoodTask(t), Become(p, t),
           queue' \in [Tickers -> SUBSET Users], RecordsOK', PapersGood'
    PROVE  ScoreInv'
<1>1. phase' = "serving"
    BY DEF bankVars
<1>2. task' \in [Procs -> Task] /\ \A r \in Procs : task'[r] = task[r] \/ task'[r] = t
    BY DEF Become, ScoreInv
<1>3. \A r \in Procs : GoodTask(task[r])'
    <2> SUFFICES ASSUME NEW r \in Procs PROVE GoodTask(task[r])'
        OBVIOUS
    <2>1. PICK n : n = task'[r]
        OBVIOUS
    <2>2. GoodTask(n)
        BY <1>2, <2>1 DEF ScoreInv
    <2>3. GoodTask(n)'
        BY <2>2, GoodStable
    <2> QED BY <2>1, <2>3 DEF GoodTask
<1>4. ChoicesBounded'
    BY GoodStable DEF ScoreInv
<1> QED BY <1>1, <1>2, <1>3, <1>4 DEF ScoreInv, Asleep

\* The usual case: the papers, the scores and the queue are left alone.
LEMMA TaskStep ==
    ASSUME ScoreInv, UNCHANGED <<bankVars, papers, scores, queue>>, phase = "serving",
           NEW p \in Procs, NEW t \in Task, GoodTask(t), Become(p, t)
    PROVE  ScoreInv'
<1>1. RecordsOK'
    BY DEF ScoreInv, RecordsOK
<1>2. PapersGood'
    BY PapersStayGood DEF ScoreInv
<1> QED BY <1>1, <1>2, ServingStep DEF ScoreInv

\* Tasks as Submit makes them.
LEMMA PlainTasks ==
    ASSUME NEW u \in Users, NEW site \in {"lock", "delete"}
    PROVE  /\ Idle \in Task /\ GoodTask(Idle)
           /\ [Idle EXCEPT !.at = site, !.user = u] \in Task
           /\ GoodTask([Idle EXCEPT !.at = site, !.user = u])
<1> DEFINE t == [Idle EXCEPT !.at = site, !.user = u]
<1>1. t \in Task /\ t.at = site
    BY IdleIsTask DEF Task
<1> HIDE DEF t
<1>2. GoodTask(t)
    BY <1>1 DEF GoodTask
<1> QED BY <1>1, <1>2, IdleIsTask DEF t

\* A task that goes on to a call that needs nothing else of it.
LEMMA MovedIsGood ==
    ASSUME NEW t \in Task, NEW site \in {"read", "unlock"}
    PROVE  [t EXCEPT !.at = site] \in Task /\ GoodTask([t EXCEPT !.at = site])
<1>1. [t EXCEPT !.at = site] \in Task /\ [t EXCEPT !.at = site].at = site
    BY DEF Task
<1> QED BY <1>1 DEF GoodTask

\* The papers PickPaper draws are of questions the bank has.
LEMMA PapersOfKnown == ASSUME BankTypeOK, ListsOK PROVE PickPaper \subseteq SUBSET Known
<1> SUFFICES ASSUME NEW I \in Draws, NEW c \in Categories, NEW i \in I[c]
             PROVE  qids[c][i] \in Known
    BY DEF PickPaper
<1>1. I[c] \subseteq DOMAIN qids[c]
    BY DEF Draws
<1>2. qids[c][i] \in QuestionIds /\ category[qids[c][i]] = c
    BY <1>1 DEF BankTypeOK, ListsOK
<1> QED BY <1>2, BankAssumption DEF Known

-----------------------------------------------------------------------------
(***************************************************************************)
(* Step by step.                                                           *)
(***************************************************************************)
\* GetOrCreatePaper draws from the questions of the bank.
LEMMA ExamGood ==
    ASSUME ContestInv, NEW p \in Procs, NEW u \in Users, Exam(p, u)
    PROVE  ScoreInv'
<1>1. phase = "serving" /\ UNCHANGED <<bankVars, papers, scores, queue>> /\ ScoreInv
    BY DEF Exam, At, storeVars, draftVars, ContestInv
<1>2. CASE Become(p, [Idle EXCEPT !.at = "lock", !.user = u])
    BY <1>1, <1>2, PlainTasks, TaskStep
<1>3. ASSUME NEW S \in PickPaper, MemCountAttempts(u) < MaxTries,
             Become(p, [Idle EXCEPT !.at = "create", !.user = u, !.questions = S,
                                    !.left = Deadline, !.attempt = MemCountAttempts(u) + 1])
      PROVE  ScoreInv'
    <2>1. MemCountAttempts(u) \in Nat
        BY FS_CardinalityType DEF ContestInv, StoreInv, ScoresOK, MemCountAttempts
    <2>2. PICK n \in 0 .. MaxTries : n = MemCountAttempts(u) + 1
        BY <1>3, <2>1, StoresAssumption
    <2>3. S \subseteq Known /\ S \in SUBSET QuestionIds /\ Deadline \in Timer
        BY PapersOfKnown, StoresAssumption DEF ContestInv, BankInv, PapersInv, Known, Timer
    <2> DEFINE t == [Idle EXCEPT !.at = "create", !.user = u, !.questions = S,
                                 !.left = Deadline, !.attempt = n]
    <2>4. t \in Task /\ t.at = "create" /\ t.questions = S
        BY <2>3, IdleIsTask DEF Task
    <2>5. GoodTask(t) /\ Become(p, t)
        BY <1>3, <2>2, <2>3, <2>4 DEF GoodTask
    <2> HIDE DEF t
    <2> QED BY <1>1, <2>4, <2>5, TaskStep
<1> QED BY <1>2, <1>3 DEF Exam

\* The new paper has no answers yet.
LEMMA CreateGood == ASSUME ContestInv, NEW p \in Procs, Create(p) PROVE ScoreInv'
<1>1. /\ phase = "serving" /\ task[p].at = "create" /\ ScoreInv
      /\ UNCHANGED <<bankVars, scores, queue>> /\ Become(p, Idle)
      /\ User(p) \in Users
    BY DEF Create, At, ContestInv, StoreInv, TasksOK, TaskOK, User
<1>2. task[p].questions \subseteq Known
    BY <1>1 DEF ScoreInv, GoodTask
<1>3. AnswersOK(NoAnswers)
    BY DEF AnswersOK, NoAnswers
<1>4. \A u \in Users : \/ papers'[u] = papers[u]
                       \/ papers'[u].questions = task[p].questions
                          /\ papers'[u].answers = NoAnswers
    BY DEF Create, MemCreate, NewPaper, ContestInv, StoreInv, DraftsOK
<1>5. PapersGood'
    BY <1>1, <1>2, <1>3, <1>4, PapersStayGood DEF ScoreInv
<1>6. RecordsOK'
    BY <1>1 DEF ScoreInv, RecordsOK
<1> QED BY <1>1, <1>5, <1>6, PlainTasks, ServingStep DEF ScoreInv

\* SaveAnswer takes choices of the question only.
LEMMA AnswerGood ==
    ASSUME ContestInv, NEW p \in Procs, NEW u \in Users, NEW q \in QuestionIds,
           NEW ids \in SUBSET AllChoiceIds, NEW repeats \in BOOLEAN, Answer(p, u, q, ids, repeats)
    PROVE  ScoreInv'
<1>1. phase = "serving" /\ UNCHANGED <<bankVars, papers, scores, queue>> /\ ScoreInv
    BY DEF Answer, At, storeVars, draftVars, ContestInv
<1> DEFINE t == [Idle EXCEPT !.at = "save", !.user = u, !.question = q, !.ids = ids]
<1>2. t \in Task /\ t.at = "save" /\ t.question = q /\ t.ids = ids
    BY IdleIsTask DEF Task
<1>3. GoodTask(t)
    BY <1>2 DEF GoodTask, Answer, Acceptable
<1>4. Become(p, t)
    BY DEF Answer
<1> HIDE DEF t
<1> QED BY <1>1, <1>2, <1>3, <1>4, TaskStep

\* They are choices of the question whatever paper they are written to.
LEMMA SaveGood == ASSUME ContestInv, NEW p \in Procs, Save(p) PROVE ScoreInv'
<1>1. /\ phase = "serving" /\ task[p].at = "save" /\ ScoreInv
      /\ UNCHANGED <<bankVars, scores, queue>> /\ Become(p, Idle)
      /\ User(p) \in Users
      /\ MemSaveAnswer(User(p), task[p].question, task[p].ids)
    BY DEF Save, At, ContestInv, StoreInv, TasksOK, TaskOK, User
<1>2. PICK q \in QuestionIds, ids \in SUBSET ChoiceIds(task[p].question) :
               q = task[p].question /\ ids = task[p].ids
    BY <1>1 DEF ContestInv, StoreInv, TasksOK, TaskOK, ScoreInv, GoodTask
<1>3. ASSUME NEW u \in Users, HasPaper(u)', papers'[u] # papers[u]
      PROVE  papers'[u].questions \subseteq Known /\ AnswersOK(papers'[u].answers)
    <2>1. HasPaper(u) /\ papers[u] \in Paper /\ u = User(p)
        BY <1>1, <1>3 DEF MemSaveAnswer, ContestInv, StoreInv, DraftsOK, HasPaper
    <2>2. papers'[u] = [papers[u] EXCEPT !.answers[q] = ids]
        BY <1>1, <1>2, <2>1 DEF MemSaveAnswer, ContestInv, StoreInv, DraftsOK
    <2>3. /\ papers'[u].questions = papers[u].questions
          /\ papers'[u].answers = [papers[u].answers EXCEPT ![q] = ids]
          /\ papers[u].answers \in [QuestionIds -> (SUBSET AllChoiceIds) \union {Nil}]
        BY <2>1, <2>2 DEF Paper
    <2>4. papers[u].questions \subseteq Known /\ AnswersOK(papers[u].answers)
        BY <1>1, <2>1 DEF ScoreInv, PapersGood
    <2>5. AnswersOK(papers'[u].answers)
        BY <1>2, <2>3, <2>4 DEF AnswersOK
    <2> QED BY <2>3, <2>4, <2>5
<1>4. PapersGood'
    BY <1>1, <1>3, PapersStayGood DEF ScoreInv
<1>5. RecordsOK'
    BY <1>1 DEF ScoreInv, RecordsOK
<1> QED BY <1>1, <1>4, <1>5, PlainTasks, ServingStep DEF ScoreInv

\* Submit begins.
LEMMA SubmitGood ==
    ASSUME ContestInv, NEW p \in Procs, NEW u \in Users,
           Submit(p, u) \/ (p \in Tickers /\ TickerNext(p, u))
    PROVE  ScoreInv'
<1>1. /\ phase = "serving" /\ UNCHANGED <<bankVars, papers, scores>> /\ ScoreInv
      /\ Become(p, [Idle EXCEPT !.at = "lock", !.user = u])
    BY DEF Submit, TickerNext, At, storeVars, draftVars, ContestInv
<1>2. queue' \in [Tickers -> SUBSET Users]
    BY <1>1 DEF Submit, TickerNext, ScoreInv
<1>3. RecordsOK' /\ PapersGood'
    BY <1>1, PapersStayGood DEF ScoreInv, RecordsOK
<1> QED BY <1>1, <1>2, <1>3, PlainTasks, ServingStep

\* Submit takes the lock or gives up.
LEMMA LockGood == ASSUME ContestInv, NEW p \in Procs, Lock(p) PROVE ScoreInv'
<1>1. /\ phase = "serving" /\ ScoreInv /\ task[p] \in Task /\ User(p) \in Users
      /\ UNCHANGED <<bankVars, scores, queue>>
    BY DEF Lock, At, ContestInv, ScoreInv, StoreInv, TasksOK, TaskOK, User
<1>2. papers' = papers
    BY DEF Lock, MemLockSubmit
<1>3. MoveTo(p, "read") \/ Become(p, Idle)
    BY DEF Lock
<1> QED BY <1>1, <1>2, <1>3, PlainTasks, MovedIsGood, TaskStep DEF MoveTo

\* Submit reads the paper and scores it.
LEMMA ReadGood == ASSUME ContestInv, NEW p \in Procs, Read(p) PROVE ScoreInv'
<1>1. /\ phase = "serving" /\ ScoreInv /\ task[p] \in Task /\ User(p) \in Users
      /\ UNCHANGED <<bankVars, papers, scores, queue>>
    BY DEF Read, At, ContestInv, ScoreInv, StoreInv, TasksOK, TaskOK, User, storeVars, draftVars
<1>2. CASE MoveTo(p, "unlock")
    BY <1>1, <1>2, MovedIsGood, TaskStep DEF MoveTo
<1>3. CASE HasPaper(User(p))
    <2>1. papers[User(p)] \in Paper /\ papers[User(p)].questions \subseteq Known
        BY <1>1, <1>3 DEF ContestInv, StoreInv, DraftsOK, HasPaper, ScoreInv, PapersGood
    <2>2. PICK paper \in Paper : paper = papers[User(p)]
        BY <2>1
    <2>3. CalculateScore(paper.questions, paper.answers) \in Int
        <3> DEFINE Q == {q \in paper.questions :
                            SameChoiceSet(paper.answers[q], CorrectChoiceIDs(q))}
        <3>1. Q \in SUBSET Known
            BY <2>1, <2>2
        <3> HIDE DEF Q
        <3>2. Points(Q) \in Int
            BY <3>1, PointsByCategory DEF ContestInv, BankInv
        <3> QED BY <3>2 DEF CalculateScore, Q
    <2>4. PICK n \in Int : n = CalculateScore(paper.questions, paper.answers)
        BY <2>3
    <2> DEFINE t == [task[p] EXCEPT !.at = "insert", !.attempt = paper.attempt, !.score = n]
    <2>5. Become(p, t)
        BY <1>3, <2>2, <2>4 DEF Read
    <2>6. t \in Task /\ t.at = "insert" /\ t.attempt \in 1 .. MaxTries
        <3>1. paper.attempt \in 1 .. MaxTries /\ paper.attempt \in 0 .. MaxTries
            BY StoresAssumption DEF Paper
        <3> QED BY <1>1, <3>1 DEF Task
    <2>7. GoodTask(t)
        BY <2>6 DEF GoodTask
    <2>8. PICK new : new = t
        OBVIOUS
    <2> HIDE DEF t
    <2>9. new \in Task /\ GoodTask(new) /\ Become(p, new)
        BY <2>5, <2>6, <2>7, <2>8 DEF GoodTask
    <2> QED BY <1>1, <2>9, TaskStep
<1> QED BY <1>2, <1>3 DEF Read

\* A second record of one attempt is not taken.
LEMMA InsertGood == ASSUME ContestInv, NEW p \in Procs, Insert(p) PROVE ScoreInv'
<1>1. /\ phase = "serving" /\ ScoreInv /\ task[p] \in Task /\ User(p) \in Users
      /\ task[p].at = "insert" /\ UNCHANGED <<bankVars, papers, queue>>
      /\ Become(p, [Idle EXCEPT !.at = "delete", !.user = User(p)])
      /\ MemInsert(User(p), task[p].attempt, task[p].score)
    BY DEF Insert, At, ContestInv, ScoreInv, StoreInv, TasksOK, TaskOK, User, draftVars
<1>2. PICK a \in 1 .. MaxTries, n \in Int : a = task[p].attempt /\ n = task[p].score
    BY <1>1 DEF ScoreInv, GoodTask, Task
<1>3. RecordsOK'
    <2> SUFFICES ASSUME NEW u \in Users
                 PROVE  /\ scores'[u] \subseteq Result
                        /\ \A r, s \in scores'[u] : r.attempt = s.attempt => r = s
        BY DEF RecordsOK
    <2>1. /\ scores[u] \subseteq Result
          /\ \A r, s \in scores[u] : r.attempt = s.attempt => r = s
        BY <1>1 DEF ScoreInv, RecordsOK
    <2>2. CASE scores'[u] = scores[u]
        BY <2>1, <2>2
    <2>3. CASE scores'[u] # scores[u]
        <3>1. /\ scores'[u] = scores[u] \union {[attempt |-> a, score |-> n]}
              /\ ~ \E r \in scores[u] : r.attempt = a
            BY <1>1, <1>2, <2>3 DEF MemInsert, ContestInv, StoreInv, ScoresOK
        <3>2. [attempt |-> a, score |-> n] \in Result
            BY DEF Result
        <3> QED BY <2>1, <3>1, <3>2
    <2> QED BY <2>2, <2>3
<1>4. PapersGood'
    BY <1>1, PapersStayGood DEF ScoreInv
<1>5. PICK u \in Users : u = User(p)
    BY <1>1
<1> QED BY <1>1, <1>3, <1>4, <1>5, PlainTasks, ServingStep DEF ScoreInv

\* The paper that was scored goes.
LEMMA DeleteGood == ASSUME ContestInv, NEW p \in Procs, Delete(p) PROVE ScoreInv'
<1>1. /\ phase = "serving" /\ ScoreInv /\ task[p] \in Task
      /\ UNCHANGED <<bankVars, scores, queue>> /\ MoveTo(p, "unlock")
    BY DEF Delete, At, ContestInv, ScoreInv
<1>2. \A u \in Users : HasPaper(u)' => papers'[u] = papers[u]
    BY DEF Delete, MemDelete, HasPaper, ContestInv, StoreInv, DraftsOK
<1>3. PapersGood' /\ RecordsOK'
    BY <1>1, <1>2, PapersStayGood DEF ScoreInv, RecordsOK
<1>4. PICK t : t = [task[p] EXCEPT !.at = "unlock"]
    OBVIOUS
<1>5. t \in Task /\ GoodTask(t) /\ Become(p, t)
    <2>1. PICK old \in Task : old = task[p]
        BY <1>1
    <2> QED BY <1>1, <1>4, <2>1, MovedIsGood DEF MoveTo
<1> QED BY <1>1, <1>3, <1>5, ServingStep DEF ScoreInv

\* The lock is released.
LEMMA UnlockGood == ASSUME ContestInv, NEW p \in Procs, Unlock(p) PROVE ScoreInv'
<1>1. /\ phase = "serving" /\ ScoreInv /\ User(p) \in Users
      /\ UNCHANGED <<bankVars, papers, scores, queue>> /\ Become(p, Idle)
    BY DEF Unlock, At, ContestInv, StoreInv, TasksOK, TaskOK, User, MemUnlockSubmit
<1> QED BY <1>1, PlainTasks, TaskStep

\* Papers and tasks age and change in nothing else.
LEMMA TickGood == ASSUME ContestInv, Tick PROVE ScoreInv'
<1>1. /\ phase = "serving" /\ UNCHANGED <<bankVars, scores, queue>> /\ ScoreInv
      /\ task' = [p \in Procs |-> [task[p] EXCEPT !.left = Elapsed(@)]]
    BY DEF Tick, MemTick, ContestInv
<1>2. ASSUME NEW p \in Procs PROVE task'[p] \in Task /\ GoodTask(task'[p])
    <2>1. /\ task[p] \in Task /\ GoodTask(task[p])
          /\ task'[p] = [task[p] EXCEPT !.left = Elapsed(@)]
        BY <1>1 DEF ScoreInv
    <2>2. Elapsed(task[p].left) \in Timer
        BY <2>1, ElapsedTimer DEF Task
    <2>3. /\ task'[p] \in Task /\ task'[p].at = task[p].at
          /\ task'[p].questions = task[p].questions /\ task'[p].ids = task[p].ids
          /\ task'[p].question = task[p].question /\ task'[p].attempt = task[p].attempt
        BY <2>1, <2>2 DEF Task
    <2> QED BY <2>1, <2>3 DEF GoodTask
<1>3. \A p \in Procs : GoodTask(task[p])'
    <2> SUFFICES ASSUME NEW p \in Procs PROVE GoodTask(task[p])'
        OBVIOUS
    <2>1. PICK n : n = task'[p]
        OBVIOUS
    <2>2. GoodTask(n)'
        BY <1>1, <1>2, <2>1, GoodStable
    <2> QED BY <2>1, <2>2 DEF GoodTask
<1>4. ASSUME NEW u \in Users, HasPaper(u)'
      PROVE  papers'[u].questions \subseteq Known /\ AnswersOK(papers'[u].answers)
    <2>1. HasPaper(u) /\ papers'[u] = [papers[u] EXCEPT !.left = Elapsed(@)]
        BY <1>4 DEF Tick, MemTick, HasPaper
    <2>2. papers[u] \in Paper
        BY <2>1 DEF ContestInv, StoreInv, DraftsOK, HasPaper
    <2>3. papers'[u].questions = papers[u].questions /\ papers'[u].answers = papers[u].answers
        BY <2>1, <2>2 DEF Paper
    <2> QED BY <1>1, <2>1, <2>3 DEF ScoreInv, PapersGood
<1>5. PapersGood' /\ RecordsOK'
    BY <1>1, <1>4, PapersStayGood DEF ScoreInv, RecordsOK
<1>6. ChoicesBounded' /\ phase' = "serving"
    BY <1>1, GoodStable DEF ScoreInv, bankVars
<1> QED BY <1>1, <1>2, <1>3, <1>5, <1>6 DEF ScoreInv, Asleep

\* A step that leaves bank, papers, scores and tasks alone.
LEMMA QuietGood ==
    ASSUME ScoreInv, UNCHANGED <<bankVars, papers, scores, task>>,
           queue' \in [Tickers -> SUBSET Users]
    PROVE  ScoreInv'
<1>1. phase' = phase /\ ChoicesBounded' /\ PapersGood' /\ RecordsOK'
    BY GoodStable, PapersStayGood DEF ScoreInv, RecordsOK, bankVars
<1>2. \A p \in Procs : GoodTask(task[p])'
    <2> SUFFICES ASSUME NEW p \in Procs PROVE GoodTask(task[p])'
        OBVIOUS
    <2>1. PICK n : n = task[p]
        OBVIOUS
    <2>2. GoodTask(n)'
        BY <2>1, GoodStable DEF ScoreInv
    <2> QED BY <2>1, <2>2 DEF GoodTask
<1> QED BY <1>1, <1>2 DEF ScoreInv, Asleep, HasPaper

\* While the bank is loaded there is nothing that has to go with it.
LEMMA LoadGood == ASSUME ContestInv, Load PROVE ScoreInv'
<1>1. /\ phase = "loading" /\ LoadNext /\ ScoreInv
      /\ UNCHANGED <<papers, scores, task, queue>>
    BY DEF Load, LoadNext, LoadQuestion, LoadChoice, BadRecord, EndOfFile, storeVars, draftVars,
           ContestInv
<1>2. ChoicesBounded'
    <2>1. ASSUME choices' = choices PROVE ChoicesBounded'
        BY <1>1, <2>1 DEF ScoreInv, ChoicesBounded
    <2>2. ASSUME NEW q \in QuestionIds, NEW correct \in BOOLEAN, Len(choices[q]) < MaxChoices,
                 choices' = [choices EXCEPT ![q] = Append(@, correct)]
          PROVE  ChoicesBounded'
        <3>1. choices[q] \in Seq(BOOLEAN) /\ MaxChoices \in Nat
            BY BankAssumption DEF ContestInv, BankInv, BankTypeOK
        <3>2. Len(Append(choices[q], correct)) <= MaxChoices
            BY <2>2, <3>1
        <3> QED BY <1>1, <2>2, <3>2 DEF ScoreInv, ChoicesBounded, ContestInv, BankInv, BankTypeOK
    <2> QED BY <1>1, <2>1, <2>2 DEF LoadNext, LoadQuestion, LoadChoice, BadRecord, EndOfFile, Fails
<1>3. (\A u \in Users : ~HasPaper(u)) /\ \A p \in Procs : task[p].at = "idle"
    BY <1>1 DEF ScoreInv, Asleep
<1>4. Asleep' /\ PapersGood' /\ RecordsOK'
    BY <1>1, <1>3 DEF Asleep, PapersGood, RecordsOK, HasPaper, ScoreInv
<1>5. \A p \in Procs : GoodTask(task[p])'
    BY <1>1, <1>3 DEF GoodTask
<1> QED BY <1>1, <1>2, <1>4, <1>5 DEF ScoreInv

\* ScoreInv is inductive.
LEMMA ScoreInvNext == ASSUME ContestInv, [Next]_vars PROVE ScoreInv'
<1> USE DEF storeVars, draftVars
<1>1. ASSUME NEW p \in Handlers, Handle(p) PROVE ScoreInv'
    <2>1. p \in Procs
        BY DEF Procs
    <2> QED BY <1>1, <2>1, ExamGood, SubmitGood, CreateGood, AnswerGood, SaveGood DEF Handle
<1>2. ASSUME NEW p \in Procs, HandIn(p) PROVE ScoreInv'
    BY <1>2, LockGood, ReadGood, InsertGood, DeleteGood, UnlockGood DEF HandIn
<1>3. ASSUME NEW t \in Tickers, NEW u \in Users, TickerNext(t, u) PROVE ScoreInv'
    BY <1>3, SubmitGood DEF Procs
<1>4. ASSUME NEW t \in Tickers, TickerDue(t) PROVE ScoreInv'
    <2>1. PICK S \in MemDue(BatchLimit) : queue' = [queue EXCEPT ![t] = S]
        BY <1>4 DEF TickerDue
    <2>2. S \in SUBSET Users
        BY DEF MemDue, Due
    <2>3. queue' \in [Tickers -> SUBSET Users]
        BY <2>1, <2>2 DEF ContestInv, ScoreInv
    <2> QED BY <1>4, <2>3, QuietGood DEF TickerDue, ContestInv
<1>5. ASSUME NEW u \in Users, LockLapses(u) PROVE ScoreInv'
    BY <1>5, QuietGood DEF LockLapses, MemLockLapses, ContestInv, ScoreInv
<1>6. CASE UNCHANGED vars
    BY <1>6, QuietGood DEF vars, ContestInv, ScoreInv
<1> QED BY <1>1, <1>2, <1>3, <1>4, <1>5, <1>6, LoadGood, TickGood DEF Next

\* Together the invariants hold at first and from step to step.
LEMMA ContestInvHolds ==
    /\ Init => ContestInv
    /\ ContestInv /\ [Next]_vars => ContestInv'
<1>1. Init => ContestInv
    BY BankInvInit, StoreInvInit, PapersInvInit, ScoreInvInit DEF ContestInv
<1>2. ASSUME ContestInv, [Next]_vars PROVE ContestInv'
    BY <1>2, BankInvNext, StoreInvNext, PapersInvNext, ScoreInvNext DEF ContestInv
<1> QED BY <1>1, <1>2

-----------------------------------------------------------------------------
\* Attempts stay within the limit and are recorded once, answers are choices
\* there are, and what is recorded is a number of points.
THEOREM MemoryTypeCorrect == Spec => []TypeOK
<1>1. ContestInv => TypeOK
    BY DEF ContestInv, BankInv, StoreInv, DraftsOK, ScoreInv, RecordsOK, TypeOK, StoresTypeOK
<1> QED BY <1>1, ContestInvHolds, PTL DEF Spec

\* Whatever the bank, the configuration and the prices of the categories, a
\* paper with every answer right gets the score the pages announce.
THEOREM FullMarks == Spec => []FullMarksAreTotal
<1>1. ASSUME ContestInv PROVE FullMarksAreTotal
    <2> SUFFICES ASSUME NEW u \in Users, HasPaper(u)
                 PROVE  CalculateScore(papers[u].questions,
                            [q \in QuestionIds |-> CorrectChoiceIDs(q)]) = TotalScore
        BY DEF FullMarksAreTotal
    <2>1. /\ phase = "serving" /\ BankInv
          /\ Full(papers[u].questions) /\ papers[u].questions \subseteq Known
        BY <1>1 DEF ContestInv, PapersInv, ScoreInv, PapersGood
    <2>2. PICK Q : Q = papers[u].questions
        OBVIOUS
    <2>3. Full(Q) /\ Q \in SUBSET Known
        BY <2>1, <2>2 DEF Full
    <2> QED BY <2>1, <2>2, <2>3, FullPaperFullMarks
<1> QED BY <1>1, ContestInvHolds, PTL DEF Spec

\* A process that is about to read its paper and then about to record a score
\* has read it.
LEMMA OnlyReadScores ==
    ASSUME ContestInv, Next, NEW p \in Procs, task[p].at = "read", task'[p].at = "insert"
    PROVE  Read(p)
<1>1. task \in [Procs -> Task]
    BY DEF ContestInv, ScoreInv
<1>2. ASSUME NEW r \in Procs, NEW t, Become(r, t) PROVE r = p
    BY <1>1, <1>2 DEF Become
<1>3. ASSUME NEW h \in Handlers, Handle(h) PROVE FALSE
    <2>1. h \in Procs
        BY DEF Procs
    <2>2. \E t : Become(h, t)
        BY <1>3 DEF Handle, Exam, Submit, Create, Answer, Save
    <2>3. task[h].at # "read"
        BY <1>3 DEF Handle, Exam, Submit, Create, Answer, Save, At
    <2> QED BY <1>2, <2>1, <2>2, <2>3
<1>4. ASSUME NEW r \in Procs, HandIn(r) PROVE Read(p)
    <2>1. \E t : Become(r, t)
        BY <1>4 DEF HandIn, Lock, Read, Insert, Delete, Unlock, MoveTo
    <2>2. r = p
        BY <1>2, <2>1
    <2> QED BY <1>4, <2>2 DEF HandIn, Lock, Insert, Delete, Unlock, At
<1>5. ASSUME NEW r \in Tickers, NEW u \in Users, TickerNext(r, u) PROVE FALSE
    <2>1. r \in Procs /\ task[r].at = "idle" /\ \E t : Become(r, t)
        BY <1>5 DEF Procs, TickerNext, At
    <2> QED BY <1>2, <2>1
<1>6. ASSUME Tick PROVE FALSE
    BY <1>1, <1>6 DEF Tick, Task
<1>7. task' # task
    OBVIOUS
<1> QED BY <1>3, <1>4, <1>5, <1>6, <1>7 DEF Next, Load, TickerDue, LockLapses

\* What Submit computes is what the paper is worth, choice by choice.
THEOREM ScoresAreRight == Spec => RightAnswersScore
<1>1. ASSUME ContestInv, Next, NEW p \in Procs, NEW u \in Users,
             At(p, "read"), task'[p].at = "insert", task[p].user = u
      PROVE  task'[p].score = Worth(papers[u])
    <2>1. phase = "serving" /\ task[p].at = "read" /\ task[p] \in Task
        BY <1>1 DEF At, ContestInv, ScoreInv
    <2>2. Read(p) /\ User(p) = u
        BY <1>1, <2>1, OnlyReadScores DEF User
    <2>3. HasPaper(u)
        BY <1>1, <2>1, <2>2 DEF Read, MoveTo, Become, ContestInv, ScoreInv, Task
    <2>4. PICK paper \in Paper : paper = papers[u]
        BY <1>1, <2>3 DEF ContestInv, StoreInv, DraftsOK, HasPaper
    <2>5. task'[p].score = CalculateScore(paper.questions, paper.answers)
        <3>1. PICK a, n : /\ Become(p, [task[p] EXCEPT !.at = "insert", !.attempt = a, !.score = n])
                          /\ n = CalculateScore(paper.questions, paper.answers)
            BY <2>2, <2>3, <2>4 DEF Read
        <3>2. task'[p] = [task[p] EXCEPT !.at = "insert", !.attempt = a, !.score = n]
            BY <1>1, <3>1 DEF Become, ContestInv, ScoreInv
        <3>3. task'[p].score = n
            BY <2>1, <3>2 DEF Task
        <3> QED BY <3>1, <3>3
    <2>6. paper.questions \subseteq Known /\ AnswersOK(paper.answers)
        BY <1>1, <2>3, <2>4 DEF ContestInv, ScoreInv, PapersGood, AnswersOK
    <2>7. CalculateScore(paper.questions, paper.answers) = Worth(paper)
        BY <1>1, <2>1, <2>6, ScoreIsWorth DEF ContestInv, ScoreInv
    <2> QED BY <2>4, <2>5, <2>7 DEF Worth, Selected
<1>2. ContestInv /\ [Next]_vars =>
        [\A p \in Procs, u \in Users :
            /\ At(p, "read") /\ task'[p].at = "insert" /\ task[p].user = u
            => task'[p].score = Worth(papers[u])]_vars
    BY <1>1
<1> QED BY <1>2, ContestInvHolds, PTL DEF Spec, RightAnswersScore
=============================================================================
