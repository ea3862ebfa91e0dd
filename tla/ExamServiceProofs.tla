-------------------------- MODULE ExamServiceProofs --------------------------
(***************************************************************************)
(* Theorems about ExamService for any number of users, questions, requests *)
(* and tries, with every fault allowed.  First what the operators of the   *)
(* stores preserve, then the type invariant, then the invariants and the   *)
(* refinement built on it.                                                 *)
(***************************************************************************)
EXTENDS ExamService, Sequences, FiniteSetTheorems, TLAPS

-----------------------------------------------------------------------------
(***************************************************************************)
(* Operators of the data model and the stores.                             *)
(***************************************************************************)

\* The ticks left of a deadline stay in range as time passes, so a timer of
\* any age still compares with the deadline the way the clock would.
LEMMA TimerElapsedType ==
    ASSUME NEW t \in Timer
    PROVE  /\ TimerElapsed(t) \in Timer
           /\ TimerElapsed(t) <= t
  BY LimitsAssumption DEF Timer, TimerElapsed

\* A paper's score lies between 0 and the size of the bank.
LEMMA CalculateScoreType ==
    ASSUME NEW paper \in SUBSET Questions, NEW ans
    PROVE  CalculateScore(paper, ans) \in Scores
  <1> DEFINE Right == {q \in paper : ans[q] = Key[q]}
  <1>1. Right \in SUBSET Questions
    OBVIOUS
  <1>2. /\ IsFiniteSet(Right)
        /\ Cardinality(Right) <= Cardinality(Questions)
    BY <1>1, BankAssumption, FS_Subset
  <1>3. Cardinality(Right) \in Nat /\ Cardinality(Questions) \in Nat
    BY <1>2, BankAssumption, FS_CardinalityType
  <1> QED
    BY <1>2, <1>3 DEF CalculateScore, Scores

\* CountAttempts returns a natural number of recorded attempts.
LEMMA CountAttemptsType ==
    ASSUME ScoresTypeOK, NEW u \in Users
    PROVE  CountAttempts(u) \in Nat
  <1>1. Recorded(u) \in SUBSET Attempts
    BY DEF ScoresTypeOK, Rows, Recorded
  <1>2. IsFiniteSet(Attempts)
    BY LimitsAssumption, FS_Interval DEF Attempts
  <1> QED
    BY <1>1, <1>2, FS_Subset, FS_CardinalityType DEF CountAttempts

\* The create script leaves well-typed hashes and sorted set, whichever
\* branch it takes.
LEMMA CreateScriptType ==
    ASSUME RedisTypeOK, NEW u \in Users, NEW d \in Draft, NEW ttl,
           CreateScript(u, d, ttl)
    PROVE  RedisTypeOK'
  <1>1. d.left \in Timer
    BY DEF Draft
  <1>2. NoAnswers \in Answers /\ -1 \in TTL
    BY DEF NoAnswers, Answers, TTL
  <1> QED
    BY <1>1, <1>2 DEF RedisTypeOK, CreateScript, DropAnswers, Expiring

\* HSET of one answer keeps the answers hash a function of all questions, and
\* its TTL is no longer than that of a paper issued this instant.
LEMMA WriteAnswerType ==
    ASSUME RedisTypeOK, NEW u \in Users, NEW q \in Questions, NEW c \in Choices,
           NEW left \in 0 .. Deadline, WriteAnswer(u, q, c, left + DraftTTL)
    PROVE  RedisTypeOK'
  <1> DEFINE ttl == left + DraftTTL
  <1>0. NoAnswers \in Answers /\ -1 \in TTL
    BY DEF NoAnswers, Answers, TTL
  <1>1. [answers[u] EXCEPT ![q] = c] \in Answers
    BY DEF RedisTypeOK, Answers
  <1>2. ttl > 0 => ttl \in TTL
    BY ExpiryAssumption, LimitsAssumption DEF TTL
  <1>3. CASE ttl > 0
    <2>1. answers' = [answers EXCEPT ![u] = [answers[u] EXCEPT ![q] = c]]
      BY <1>3, ExpiryAssumption DEF WriteAnswer, PutAnswer, RedisTypeOK
    <2>2. answersTTL' = [answersTTL EXCEPT ![u] = ttl]
      BY <1>3, ExpiryAssumption DEF WriteAnswer
    <2> HIDE DEF ttl
    <2> QED
      BY <1>1, <1>2, <1>3, <2>1, <2>2 DEF RedisTypeOK, WriteAnswer
  <1>4. CASE ~(ttl > 0)
    BY <1>0, <1>4, ExpiryAssumption DEF RedisTypeOK, WriteAnswer, DropAnswers
  <1> QED
    BY <1>3, <1>4

\* Deleting a user's keys leaves the absent draft, answers and member.
LEMMA DeleteDraftType ==
    ASSUME RedisTypeOK, NEW u \in Users, DeleteDraft(u)
    PROVE  RedisTypeOK'
  <1>1. NoAnswers \in Answers /\ -1 \in TTL
    BY DEF NoAnswers, Answers, TTL
  <1> QED
    BY <1>1 DEF RedisTypeOK, DeleteDraft, DropAnswers

\* Taking and releasing the submit lock keep the stores well-typed.
LEMMA LockType ==
    ASSUME RedisTypeOK, NEW u \in Users,
           \/ \E acquired \in BOOLEAN : AcquireLock(u, acquired)
           \/ ReleaseLock(u)
    PROVE  RedisTypeOK'
  BY DEF RedisTypeOK, AcquireLock, ReleaseLock

\* So does the lapse of a key.
LEMMA ExpiryType ==
    ASSUME RedisTypeOK, NEW u \in Users, ExpireDraft(u) \/ ExpireAnswers(u)
    PROVE  RedisTypeOK'
  <1>1. NoAnswers \in Answers /\ -1 \in TTL
    BY DEF NoAnswers, Answers, TTL
  <1> QED
    BY <1>1 DEF RedisTypeOK, ExpireDraft, ExpireAnswers, DropAnswers

\* A TTL runs down to -1.
LEMMA TTLElapses ==
    ASSUME NEW t \in TTL
    PROVE  /\ TimerElapsed(t) \in TTL
           /\ t >= 0 => TimerElapsed(t) = t - 1
  BY LimitsAssumption, ExpiryAssumption DEF TTL, TimerElapsed

\* The passing of time keeps every stored deadline a timer.
LEMMA RedisTickType ==
    ASSUME RedisTypeOK, RedisTick
    PROVE  RedisTypeOK'
  <1>1. ASSUME NEW u \in Users, DraftExists(u)
        PROVE  [drafts[u] EXCEPT !.left = TimerElapsed(@)] \in Draft
    <2>1. drafts[u] \in Draft
      BY <1>1 DEF RedisTypeOK, DraftExists
    <2>2. TimerElapsed(drafts[u].left) \in Timer
      BY <2>1, TimerElapsedType DEF Draft
    <2> QED
      BY <2>1, <2>2 DEF Draft
  <1>2. ASSUME NEW u \in Users, deadlines[u] # Nil
        PROVE  TimerElapsed(deadlines[u]) \in Timer
    BY <1>2, TimerElapsedType DEF RedisTypeOK
  <1>3. drafts' \in [Users -> Draft \union {Nil}]
    BY <1>1 DEF RedisTick
  <1>4. deadlines' \in [Users -> Timer \union {Nil}]
    BY <1>2 DEF RedisTick
  <1>5. answersTTL' \in [Users -> TTL]
    BY TTLElapses DEF RedisTick, RedisTypeOK
  <1> QED
    BY <1>3, <1>4, <1>5 DEF RedisTypeOK, RedisTick

\* A row added to the table leaves the other rows as they are.
LEMMA RowsWithType ==
    ASSUME NEW rows \in Rows, NEW a \in Attempts, NEW s \in Scores
    PROVE  /\ RowsWith(rows, a, s) \in Rows
           /\ DOMAIN RowsWith(rows, a, s) = DOMAIN rows \union {a}
  <1>1. PICK S \in SUBSET Attempts : rows \in [S -> Scores]
    BY DEF Rows
  <1>2. RowsWith(rows, a, s) \in [S \union {a} -> Scores]
    BY <1>1 DEF RowsWith
  <1>3. S \union {a} \in SUBSET Attempts
    BY <1>1
  <1> QED
    BY <1>1, <1>2, <1>3 DEF Rows

\* INSERT ... ON CONFLICT DO NOTHING keeps rows of attempts and scores.
LEMMA InsertScoreType ==
    ASSUME ScoresTypeOK, NEW u \in Users, NEW a \in Attempts, NEW s \in Scores,
           InsertScore(u, a, s)
    PROVE  ScoresTypeOK'
  <1>1. RowsWith(scores[u], a, s) \in Rows
    BY RowsWithType DEF ScoresTypeOK
  <1> QED
    BY <1>1 DEF ScoresTypeOK, InsertScore

-----------------------------------------------------------------------------
(***************************************************************************)
(* Type correctness.                                                       *)
(***************************************************************************)

\* A process between requests is well-typed.
LEMMA IdleType ==
    Idle \in Task
  <1>1. Cardinality(Questions) \in Nat
    BY BankAssumption, FS_CardinalityType
  <1> QED
    BY <1>1, LimitsAssumption
    DEF Idle, Task, TaskRecord, LocalsSet, Sites, Timer, Scores, Outcomes

\* So is one that moved to a well-typed place, and nobody else moves.
LEMMA BecomeType ==
    ASSUME task \in [Procs -> Task], NEW p \in Procs, NEW t \in Task, Become(p, t)
    PROVE  task' \in [Procs -> Task]
  BY DEF Become

\* A process that is not idle works for a user, on values of the right kind.
LEMMA TaskType ==
    ASSUME TypeOK, NEW p \in Procs
    PROVE  /\ task \in [Procs -> Task]
           /\ task[p] \in TaskRecord
           /\ LocalsSet(task[p])
           /\ task[p].at # "idle" => User(p) \in Users
  BY DEF TypeOK, Task, LocalsSet, User

\* A method that returns leaves its process idle.
LEMMA ReturnType ==
    ASSUME TypeOK, NEW p \in Procs, Return(p)
    PROVE  task' \in [Procs -> Task]
  BY IdleType, BecomeType DEF Return, TypeOK

\* Moving on with an attempt at hand.
LEMMA AbandonType ==
    ASSUME TypeOK, NEW p \in Procs, ~At(p, "idle"), NEW o \in Outcomes, Abandon(p, o)
    PROVE  task' \in [Procs -> Task]
  <1>1. User(p) \in Users
    BY TaskType DEF At
  <1>2. [Idle EXCEPT !.at = "unlock", !.user = User(p), !.outcome = o] \in Task
    BY <1>1, IdleType DEF Task, TaskRecord, LocalsSet, Sites
  <1> QED
    BY <1>2, BecomeType DEF Abandon, TypeOK

\* The start of a request has the locals its first call reads.
LEMMA BeginType ==
    ASSUME TypeOK, NEW p \in Procs, Begin(p)
    PROVE  TypeOK'
  <1>1. PICK u \in Users :
            \/ BeginExam(p, u)
            \/ \E q \in Questions, c \in Choices : BeginAnswer(p, u, q, c)
            \/ BeginSubmit(p, u)
    BY DEF Begin
  <1>2. CASE BeginExam(p, u)
    <2>1. Deadline \in Timer
      BY LimitsAssumption DEF Timer
    <2>2. [Idle EXCEPT !.at = "examGet", !.user = u, !.left = Deadline] \in Task
      BY <2>1, IdleType DEF Task, TaskRecord, LocalsSet, Sites
    <2> QED
      BY <1>2, <2>2, BecomeType
      DEF BeginExam, OnlyTask, redisVars, TypeOK, RedisTypeOK, ScoresTypeOK
  <1>3. CASE \E q \in Questions, c \in Choices : BeginAnswer(p, u, q, c)
    <2>1. PICK q \in Questions, c \in Choices : BeginAnswer(p, u, q, c)
      BY <1>3
    <2>2. [Idle EXCEPT !.at = "saveGet", !.user = u,
                       !.question = q, !.choice = c] \in Task
      BY IdleType DEF Task, TaskRecord, LocalsSet, Sites
    <2> QED
      BY <2>1, <2>2, BecomeType
      DEF BeginAnswer, OnlyTask, redisVars, TypeOK, RedisTypeOK, ScoresTypeOK
  <1>4. CASE BeginSubmit(p, u)
    <2>1. [Idle EXCEPT !.at = "lock", !.user = u] \in Task
      BY IdleType DEF Task, TaskRecord, LocalsSet, Sites
    <2> QED
      BY <1>4, <2>1, BecomeType
      DEF BeginSubmit, OnlyTask, redisVars, TypeOK, RedisTypeOK, ScoresTypeOK
  <1> QED
    BY <1>1, <1>2, <1>3, <1>4

\* The steps of GetOrCreatePaper.
LEMMA ExamStepType ==
    ASSUME TypeOK, NEW p \in Procs,
           ExamGet(p) \/ Count(p) \/ Create(p) \/ Reget(p)
    PROVE  TypeOK'
  <1> USE DEF OnlyTask, redisVars
  <1>1. CASE ExamGet(p)
    <2>1. User(p) \in Users
      BY <1>1, TaskType DEF ExamGet, At
    <2>2. [task[p] EXCEPT !.at = "count"] \in Task
      BY <1>1, <2>1, TaskType DEF Task, TaskRecord, LocalsSet, Sites, User
    <2>3. [Idle EXCEPT !.at = "lock", !.user = User(p)] \in Task
      BY <2>1, IdleType DEF Task, TaskRecord, LocalsSet, Sites
    <2>4. task' \in [Procs -> Task]
      BY <1>1, <2>2, <2>3, ReturnType, BecomeType, TaskType DEF ExamGet, MoveTo
    <2> QED
      BY <1>1, <2>4 DEF ExamGet, TypeOK, RedisTypeOK, ScoresTypeOK
  <1>2. CASE Count(p)
    <2>1. User(p) \in Users
      BY <1>2, TaskType DEF Count, At
    <2>2. ASSUME ~(CountAttempts(User(p)) >= MaxTries)
          PROVE  CountAttempts(User(p)) + 1 \in Attempts
      BY <2>1, <2>2, CountAttemptsType, LimitsAssumption DEF Attempts, TypeOK
    <2>3. ASSUME ~(CountAttempts(User(p)) >= MaxTries), NEW S \in PickPaper
          PROVE  [task[p] EXCEPT !.at = "create",
                                 !.attempt = CountAttempts(User(p)) + 1,
                                 !.paper = S] \in Task
      <3> DEFINE t == [task[p] EXCEPT !.at = "create",
                                      !.attempt = CountAttempts(User(p)) + 1,
                                      !.paper = S]
      <3>1. t \in TaskRecord
        BY <2>2, <2>3, TaskType DEF PickPaper, TaskRecord, Sites
      <3>2. t.at = "create" /\ t.user = User(p) /\ t.attempt = CountAttempts(User(p)) + 1
        BY TaskType DEF TaskRecord, User
      <3> QED
        BY <2>1, <2>2, <2>3, <3>1, <3>2 DEF Task, LocalsSet
    <2>4. task' \in [Procs -> Task]
      BY <1>2, <2>3, ReturnType, BecomeType, TaskType DEF Count
    <2> QED
      BY <1>2, <2>4 DEF Count, TypeOK, RedisTypeOK, ScoresTypeOK
  <1>3. CASE Create(p)
    <2>1. User(p) \in Users
      BY <1>3, TaskType DEF Create, At
    <2>2. NewDraft(p) \in Draft
      BY <1>3, TaskType DEF NewDraft, Draft, Create, At, TaskRecord, LocalsSet
    <2>3. RedisTypeOK'
      BY <1>3, <2>1, <2>2, CreateScriptType DEF Create, TypeOK
    <2>4. [Idle EXCEPT !.at = "reget", !.user = User(p)] \in Task
      BY <2>1, IdleType DEF Task, TaskRecord, LocalsSet, Sites
    <2>5. task' \in [Procs -> Task]
      BY <1>3, <2>4, ReturnType, BecomeType, TaskType DEF Create
    <2> QED
      BY <1>3, <2>3, <2>5 DEF Create, TypeOK, ScoresTypeOK
  <1>4. CASE Reget(p)
    BY <1>4, ReturnType DEF Reget, TypeOK, RedisTypeOK, ScoresTypeOK
  <1> QED
    BY <1>1, <1>2, <1>3, <1>4

\* The time a save under way has worked out its TTL from is within bounds.
LEMMA SaveLeft ==
    ASSUME TypeOK, NEW p \in Procs, At(p, "save")
    PROVE  task[p].left \in 0 .. Deadline
  <1>1. task[p].left \in Timer /\ task[p].left >= 0
    BY TaskType DEF At, LocalsSet, TaskRecord
  <1> QED
    BY <1>1, LimitsAssumption DEF Timer

\* The steps of SaveAnswer.
LEMMA SaveStepType ==
    ASSUME TypeOK, NEW p \in Procs, SaveGet(p) \/ SaveCheck(p) \/ Save(p)
    PROVE  TypeOK'
  <1> USE DEF OnlyTask, redisVars
  <1>1. CASE SaveGet(p)
    <2>1. User(p) \in Users /\ task[p].question \in Questions
                            /\ task[p].choice \in Choices
      BY <1>1, TaskType DEF SaveGet, At, LocalsSet
    <2>2. ASSUME DraftExists(User(p))
          PROVE  [task[p] EXCEPT !.at = "saveCheck",
                                 !.paper = drafts[User(p)].paper,
                                 !.left = drafts[User(p)].left] \in Task
      <3>1. /\ drafts[User(p)].attempt \in Attempts
            /\ drafts[User(p)].paper \in SUBSET Questions
            /\ drafts[User(p)].left \in Timer
        BY <2>1, <2>2 DEF TypeOK, RedisTypeOK, DraftExists, Draft
      <3> DEFINE t == [task[p] EXCEPT !.at = "saveCheck",
                                      !.paper = drafts[User(p)].paper,
                                      !.left = drafts[User(p)].left]
      <3>2. t \in TaskRecord
        BY <3>1, TaskType DEF TaskRecord, Sites
      <3>3. /\ t.at = "saveCheck" /\ t.user = User(p)
            /\ t.question = task[p].question /\ t.choice = task[p].choice
        BY TaskType DEF TaskRecord, User
      <3> QED
        BY <2>1, <3>2, <3>3 DEF Task, LocalsSet
    <2>3. task' \in [Procs -> Task]
      BY <1>1, <2>2, ReturnType, BecomeType, TaskType DEF SaveGet
    <2> QED
      BY <1>1, <2>3 DEF SaveGet, TypeOK, RedisTypeOK, ScoresTypeOK
  <1>2. CASE SaveCheck(p)
    <2>1. User(p) \in Users /\ task[p].question \in Questions
                            /\ task[p].choice \in Choices
      BY <1>2, TaskType DEF SaveCheck, At, LocalsSet
    <2>3. ASSUME task[p].left >= 0
          PROVE  [task[p] EXCEPT !.at = "save", !.paper = {}] \in Task
      <3> DEFINE t == [task[p] EXCEPT !.at = "save", !.paper = {}]
      <3>1. t \in TaskRecord
        BY TaskType DEF TaskRecord, Sites
      <3>2. /\ t.at = "save" /\ t.user = User(p) /\ t.left = task[p].left
            /\ t.question = task[p].question /\ t.choice = task[p].choice
        BY TaskType DEF TaskRecord, User
      <3> QED
        BY <2>1, <2>3, <3>1, <3>2 DEF Task, LocalsSet
    <2>4. task' \in [Procs -> Task]
      BY <1>2, <2>3, ReturnType, BecomeType, TaskType DEF SaveCheck
    <2> QED
      BY <1>2, <2>4 DEF SaveCheck, TypeOK, RedisTypeOK, ScoresTypeOK
  <1>3. CASE Save(p)
    <2>1. User(p) \in Users /\ task[p].question \in Questions
                            /\ task[p].choice \in Choices
                            /\ task[p].left \in 0 .. Deadline
      BY <1>3, SaveLeft, TaskType DEF Save, At, LocalsSet
    <2>2. RedisTypeOK'
      BY <1>3, <2>1, WriteAnswerType DEF Save, SaveTTL, TypeOK
    <2> QED
      BY <1>3, <2>2, ReturnType DEF Save, TypeOK, ScoresTypeOK
  <1> QED
    BY <1>1, <1>2, <1>3

\* The steps of Submit.
LEMMA SubmitStepType ==
    ASSUME TypeOK, NEW p \in Procs,
           \/ Lock(p) \/ SubmitGet(p) \/ SubmitAnswers(p)
           \/ Insert(p) \/ Delete(p) \/ Unlock(p)
    PROVE  TypeOK'
  <1> USE DEF OnlyTask, redisVars
  <1>1. CASE Lock(p)
    <2>1. User(p) \in Users
      BY <1>1, TaskType DEF Lock, At
    <2>2. PICK acquired \in BOOLEAN :
              /\ AcquireLock(User(p), acquired)
              /\ IF acquired THEN MoveTo(p, "submitGet") ELSE Return(p)
      BY <1>1 DEF Lock
    <2>3. RedisTypeOK'
      BY <2>1, <2>2, LockType DEF TypeOK
    <2>4. [task[p] EXCEPT !.at = "submitGet"] \in Task
      BY <2>1, TaskType DEF Task, TaskRecord, LocalsSet, Sites, User
    <2>5. task' \in [Procs -> Task]
      BY <2>2, <2>4, ReturnType, BecomeType, TaskType DEF MoveTo
    <2> QED
      BY <1>1, <2>3, <2>5 DEF Lock, TypeOK, ScoresTypeOK
  <1>2. CASE SubmitGet(p)
    <2>1. User(p) \in Users /\ ~At(p, "idle")
      BY <1>2, TaskType DEF SubmitGet, At
    <2>2. ASSUME DraftExists(User(p))
          PROVE  [task[p] EXCEPT !.at = "submitAnswers",
                                 !.attempt = drafts[User(p)].attempt,
                                 !.paper = drafts[User(p)].paper] \in Task
      <3>1. /\ drafts[User(p)].attempt \in Attempts
            /\ drafts[User(p)].paper \in SUBSET Questions
            /\ drafts[User(p)].left \in Timer
        BY <2>1, <2>2 DEF TypeOK, RedisTypeOK, DraftExists, Draft
      <3> DEFINE t == [task[p] EXCEPT !.at = "submitAnswers",
                                      !.attempt = drafts[User(p)].attempt,
                                      !.paper = drafts[User(p)].paper]
      <3>2. t \in TaskRecord
        BY <3>1, TaskType DEF TaskRecord, Sites
      <3>3. /\ t.at = "submitAnswers" /\ t.user = User(p)
            /\ t.attempt = drafts[User(p)].attempt
        BY TaskType DEF TaskRecord, User
      <3> QED
        BY <2>1, <3>1, <3>2, <3>3 DEF Task, LocalsSet
    <2>3. task' \in [Procs -> Task]
      BY <1>2, <2>1, <2>2, AbandonType, BecomeType, TaskType
      DEF SubmitGet, Outcomes
    <2> QED
      BY <1>2, <2>3 DEF SubmitGet, TypeOK, RedisTypeOK, ScoresTypeOK
  <1>3. CASE SubmitAnswers(p)
    <2>1. User(p) \in Users /\ task[p].attempt \in Attempts
      BY <1>3, TaskType DEF SubmitAnswers, At, LocalsSet
    <2>2. CalculateScore(task[p].paper, answers[User(p)]) \in Scores
      BY TaskType, CalculateScoreType DEF TaskRecord
    <2>3. [task[p] EXCEPT
             !.at = "insert",
             !.paper = {},
             !.score = CalculateScore(task[p].paper, answers[User(p)])] \in Task
      <3> DEFINE t == [task[p] EXCEPT
                         !.at = "insert",
                         !.paper = {},
                         !.score = CalculateScore(task[p].paper, answers[User(p)])]
      <3>1. t \in TaskRecord
        BY <2>2, TaskType DEF TaskRecord, Sites
      <3>2. t.at = "insert" /\ t.user = User(p) /\ t.attempt = task[p].attempt
        BY TaskType DEF TaskRecord, User
      <3> QED
        BY <2>1, <3>1, <3>2 DEF Task, LocalsSet
    <2>4. task' \in [Procs -> Task]
      BY <1>3, <2>3, BecomeType, TaskType DEF SubmitAnswers
    <2> QED
      BY <1>3, <2>4 DEF SubmitAnswers, TypeOK, RedisTypeOK, ScoresTypeOK
  <1>4. CASE Insert(p)
    <2>1. /\ User(p) \in Users
          /\ task[p].attempt \in Attempts
          /\ task[p].score \in Scores
      BY <1>4, TaskType DEF Insert, At, LocalsSet, TaskRecord
    <2>2. ScoresTypeOK'
      BY <1>4, <2>1, InsertScoreType DEF Insert, TypeOK
    <2>3. [task[p] EXCEPT !.at = "delete"] \in Task
      BY <2>1, TaskType DEF Task, TaskRecord, LocalsSet, Sites, User
    <2>4. task' \in [Procs -> Task]
      BY <1>4, <2>3, BecomeType, TaskType DEF Insert, MoveTo
    <2> QED
      BY <1>4, <2>2, <2>4 DEF Insert, TypeOK, RedisTypeOK
  <1>5. CASE Delete(p)
    <2>1. User(p) \in Users
      BY <1>5, TaskType DEF Delete, At
    <2>2. RedisTypeOK'
      BY <1>5, <2>1, DeleteDraftType DEF Delete, TypeOK
    <2>3. [task[p] EXCEPT !.at = "unlock", !.outcome = "ok"] \in Task
      <3> DEFINE t == [task[p] EXCEPT !.at = "unlock", !.outcome = "ok"]
      <3>1. t \in TaskRecord
        BY TaskType DEF TaskRecord, Sites, Outcomes
      <3>2. t.at = "unlock" /\ t.user = User(p)
        BY TaskType DEF TaskRecord, User
      <3> QED
        BY <2>1, <3>1, <3>2 DEF Task, LocalsSet
    <2>4. task' \in [Procs -> Task]
      BY <1>5, <2>3, BecomeType, TaskType DEF Delete
    <2> QED
      BY <1>5, <2>2, <2>4 DEF Delete, TypeOK, ScoresTypeOK
  <1>6. CASE Unlock(p)
    <2>1. User(p) \in Users
      BY <1>6, TaskType DEF Unlock, At
    <2>2. RedisTypeOK'
      BY <1>6, <2>1, LockType DEF Unlock, TypeOK
    <2>3. queue' \in [Tickers -> SUBSET Users]
      BY <1>6 DEF Unlock, AbortBatch, TypeOK
    <2> QED
      BY <1>6, <2>2, <2>3, ReturnType DEF Unlock, TypeOK, ScoresTypeOK
  <1> QED
    BY <1>1, <1>2, <1>3, <1>4, <1>5, <1>6

\* The steps of ProcessDue outside Submit.
LEMMA TickerStepType ==
    ASSUME TypeOK, NEW p \in Tickers, TickerStep(p)
    PROVE  TypeOK'
  <1> USE DEF redisVars
  <1>1. CASE TickerDue(p)
    BY <1>1 DEF TickerDue, DueUsers, TypeOK, RedisTypeOK, ScoresTypeOK
  <1>2. CASE \E u \in Users : TickerNext(p, u)
    <2>1. PICK u \in Users : TickerNext(p, u)
      BY <1>2
    <2>2. [Idle EXCEPT !.at = "lock", !.user = u] \in Task
      BY IdleType DEF Task, TaskRecord, LocalsSet, Sites
    <2>3. task' \in [Procs -> Task]
      BY <2>1, <2>2, BecomeType DEF TickerNext, TypeOK, Procs
    <2>4. queue' \in [Tickers -> SUBSET Users]
      BY <2>1 DEF TickerNext, TypeOK
    <2> QED
      BY <2>1, <2>3, <2>4 DEF TickerNext, TypeOK, RedisTypeOK, ScoresTypeOK
  <1> QED
    BY <1>1, <1>2 DEF TickerStep

\* What a failing call leaves behind.
LEMMA FailType ==
    ASSUME TypeOK, NEW p \in Procs, Fail(p)
    PROVE  TypeOK'
  <1>1. \/ Abandon(p, "error") /\ UNCHANGED queue
        \/ Return(p) /\ AbortBatch(p)
        \/ Return(p) /\ UNCHANGED queue
    BY DEF Fail
  <1>2. task' \in [Procs -> Task]
    BY <1>1, ReturnType, AbandonType DEF Fail, Outcomes
  <1>3. queue' \in [Tickers -> SUBSET Users]
    BY <1>1 DEF AbortBatch, TypeOK
  <1> QED
    BY <1>2, <1>3 DEF Fail, redisVars, TypeOK, RedisTypeOK, ScoresTypeOK

\* What a command leaves behind whose reply was lost.
LEMMA LostReplyType ==
    ASSUME TypeOK, NEW p \in Procs, LostReply(p)
    PROVE  TypeOK'
  <1> USE DEF redisVars
  <1> DEFINE t == task[p]
  <1>1. UNCHANGED <<window, queue, healthy>>
    BY DEF LostReply
  <1>2. CASE At(p, "create") /\ CreateScript(User(p), NewDraft(p), PaperTTL)
               /\ UNCHANGED <<scores, task>>
    <2>1. User(p) \in Users /\ NewDraft(p) \in Draft
      BY <1>2, TaskType DEF NewDraft, Draft, At, TaskRecord, LocalsSet
    <2>2. RedisTypeOK'
      BY <1>2, <2>1, CreateScriptType DEF TypeOK
    <2> QED
      BY <1>1, <1>2, <2>2 DEF TypeOK, ScoresTypeOK
  <1>3. CASE At(p, "save") /\ WriteAnswer(User(p), t.question, t.choice, SaveTTL(p))
               /\ UNCHANGED <<scores, task>>
    <2>1. User(p) \in Users /\ t.question \in Questions /\ t.choice \in Choices
      BY <1>3, TaskType DEF At, LocalsSet
    <2>2. RedisTypeOK'
      BY <1>3, <2>1, SaveLeft, WriteAnswerType DEF TypeOK, SaveTTL
    <2> QED
      BY <1>1, <1>3, <2>2 DEF TypeOK, ScoresTypeOK
  <1>4. CASE At(p, "lock") /\ AcquireLock(User(p), TRUE)
               /\ UNCHANGED <<scores, task>>
    BY <1>1, <1>4 DEF AcquireLock, TypeOK, RedisTypeOK, ScoresTypeOK
  <1>5. CASE At(p, "insert") /\ InsertScore(User(p), t.attempt, t.score)
               /\ Abandon(p, "error") /\ UNCHANGED redisVars
    <2>1. User(p) \in Users /\ t.attempt \in Attempts /\ t.score \in Scores
      BY <1>5, TaskType DEF At, LocalsSet, TaskRecord
    <2>2. ScoresTypeOK'
      BY <1>5, <2>1, InsertScoreType DEF TypeOK
    <2>3. task' \in [Procs -> Task]
      BY <1>5, AbandonType DEF Outcomes, At
    <2> QED
      BY <1>1, <1>5, <2>2, <2>3 DEF TypeOK, RedisTypeOK
  <1>6. CASE At(p, "delete") /\ DeleteDraft(User(p)) /\ UNCHANGED <<scores, task>>
    <2>1. User(p) \in Users
      BY <1>6, TaskType DEF At
    <2>2. RedisTypeOK'
      BY <1>6, <2>1, DeleteDraftType DEF TypeOK
    <2> QED
      BY <1>1, <1>6, <2>2 DEF TypeOK, ScoresTypeOK
  <1>7. CASE At(p, "unlock") /\ ReleaseLock(User(p)) /\ UNCHANGED <<scores, task>>
    BY <1>1, <1>7 DEF ReleaseLock, TypeOK, RedisTypeOK, ScoresTypeOK
  <1> QED
    BY <1>2, <1>3, <1>4, <1>5, <1>6, <1>7 DEF LostReply

\* Time, expiry, faults and recovery.
LEMMA EnvironmentType ==
    ASSUME TypeOK, Environment
    PROVE  TypeOK'
  <1> USE DEF redisVars
  <1>1. CASE Tick
    <2>1. ASSUME NEW p \in Procs
          PROVE  task'[p] \in Task
      <3>0. CASE At(p, "save")
        BY <1>1, <3>0 DEF Tick, TypeOK
      <3>1. TimerElapsed(task[p].left) \in Timer
        BY TaskType, TimerElapsedType DEF TaskRecord
      <3>2. CASE ~At(p, "save")
        <4>1. [task[p] EXCEPT !.left = TimerElapsed(@)] \in Task
          BY <3>1, <3>2, TaskType DEF Task, TaskRecord, LocalsSet, At
        <4> QED
          BY <1>1, <3>2, <4>1 DEF Tick
      <3> QED
        BY <3>0, <3>2
    <2>2. task' \in [Procs -> Task]
      BY <1>1, <2>1 DEF Tick
    <2>3. RedisTypeOK'
      BY <1>1, RedisTickType DEF Tick, TypeOK
    <2> QED
      BY <1>1, <2>2, <2>3 DEF Tick, TypeOK, ScoresTypeOK
  <1>2. CASE Opens \/ Closes \/ Recover
    BY <1>2 DEF Opens, Closes, Recover, TypeOK, RedisTypeOK, ScoresTypeOK
  <1>3. CASE \E u \in Users : LockExpires(u) \/ Expires(u)
    <2>1. RedisTypeOK'
      BY <1>3, LockType, ExpiryType DEF LockExpires, Expires, TypeOK
    <2> QED
      BY <1>3, <2>1 DEF LockExpires, Expires, TypeOK, ScoresTypeOK
  <1>4. CASE \E p \in Procs : Fail(p) \/ LostReply(p)
    BY <1>4, FailType, LostReplyType
  <1>5. CASE Crash
    BY <1>5, IdleType DEF Crash, TypeOK, RedisTypeOK, ScoresTypeOK
  <1> QED
    BY <1>1, <1>2, <1>3, <1>4, <1>5 DEF Environment

\* Every step of the service keeps every type.
LEMMA TypeStep ==
    ASSUME TypeOK, [Next]_vars
    PROVE  TypeOK'
  <1>1. CASE \E p \in Handlers : Begin(p)
    BY <1>1, BeginType DEF Procs
  <1>2. CASE \E p \in Procs : Step(p)
    BY <1>2, ExamStepType, SaveStepType, SubmitStepType DEF Step
  <1>3. CASE \E p \in Tickers : TickerStep(p)
    BY <1>3, TickerStepType
  <1>4. CASE Environment
    BY <1>4, EnvironmentType
  <1>5. CASE UNCHANGED vars
    BY <1>5 DEF vars, TypeOK, RedisTypeOK, ScoresTypeOK
  <1> QED
    BY <1>1, <1>2, <1>3, <1>4, <1>5 DEF Next

\* Every variable keeps its type, and no process works on a user, an attempt,
\* a question or an answer it does not have, under every fault.
THEOREM TypeCorrect == Spec => []TypeOK
  <1>1. Init => TypeOK
    <2>1. NoAnswers \in Answers /\ -1 \in TTL
      BY DEF NoAnswers, Answers, TTL
    <2>2. [a \in {} |-> 0] \in Rows
      <3>1. [a \in {} |-> 0] \in [{} -> Scores]
        OBVIOUS
      <3> QED
        BY <3>1 DEF Rows
    <2> QED
      BY <2>1, <2>2, IdleType
      DEF Init, RedisInit, ScoresInit, TypeOK, RedisTypeOK, ScoresTypeOK
  <1>2. TypeOK /\ [Next]_vars => TypeOK'
    BY TypeStep
  <1> QED
    BY <1>1, <1>2, PTL DEF Spec

-----------------------------------------------------------------------------
(***************************************************************************)
(* What a step of the system can do to each store, whoever takes it.       *)
(***************************************************************************)

\* Redis only ever sees the commands of RedisDrafts, on users of the contest,
\* and a draft only ever comes from a request that stands before Create.
LEMMA RedisSteps ==
    ASSUME TypeOK, [Next]_vars
    PROVE  \/ UNCHANGED redisVars
           \/ \E p \in Procs : /\ At(p, "create")
                               /\ User(p) \in Users
                               /\ NewDraft(p) \in Draft
                               /\ CreateScript(User(p), NewDraft(p), PaperTTL)
           \/ \E u \in Users, q \in Questions, c \in Choices, left \in 0 .. Deadline :
                 WriteAnswer(u, q, c, left + DraftTTL)
           \/ \E p \in Procs : /\ At(p, "delete")
                               /\ User(p) \in Users
                               /\ DeleteDraft(User(p))
                               /\ \/ "lostReply" \in Faults
                                  \/ /\ task'[p].at = "unlock"
                                     /\ task'[p].user = User(p)
           \/ UNCHANGED <<drafts, answers, answersTTL, deadlines>>
           \/ RedisTick
           \/ \E u \in Users : ExpireDraft(u) \/ ExpireAnswers(u)
  <1> USE DEF OnlyTask
  <1>1. CASE \E p \in Handlers : Begin(p)
    BY <1>1 DEF Begin, BeginExam, BeginAnswer, BeginSubmit
  <1>2. ASSUME NEW p \in Procs, Step(p)
        PROVE  \/ UNCHANGED redisVars
               \/ At(p, "create") /\ CreateScript(User(p), NewDraft(p), PaperTTL)
               \/ At(p, "save")
                     /\ WriteAnswer(User(p), task[p].question, task[p].choice,
                                    SaveTTL(p))
               \/ Delete(p)
               \/ UNCHANGED <<drafts, answers, answersTTL, deadlines>>
    <2>1. CASE ExamGet(p) \/ Count(p) \/ Create(p) \/ Reget(p)
      BY <2>1 DEF ExamGet, Count, Create, Reget
    <2>2. CASE SaveGet(p) \/ SaveCheck(p) \/ Save(p)
      BY <2>2 DEF SaveGet, SaveCheck, Save
    <2>3. CASE Lock(p) \/ SubmitGet(p) \/ SubmitAnswers(p)
      BY <2>3 DEF Lock, SubmitGet, SubmitAnswers, AcquireLock
    <2>4. CASE Insert(p) \/ Delete(p) \/ Unlock(p)
      BY <2>4 DEF Insert, Unlock, ReleaseLock
    <2> QED
      BY <1>2, <2>1, <2>2, <2>3, <2>4 DEF Step
  <1>3. CASE \E p \in Tickers : TickerStep(p)
    BY <1>3 DEF TickerStep, TickerDue, TickerNext
  <1>4. ASSUME NEW p \in Procs, LostReply(p)
        PROVE  \/ UNCHANGED redisVars
               \/ At(p, "create") /\ CreateScript(User(p), NewDraft(p), PaperTTL)
               \/ At(p, "save")
                     /\ WriteAnswer(User(p), task[p].question, task[p].choice,
                                    SaveTTL(p))
               \/ At(p, "delete") /\ DeleteDraft(User(p)) /\ "lostReply" \in Faults
               \/ UNCHANGED <<drafts, answers, answersTTL, deadlines>>
    BY <1>4 DEF LostReply, AcquireLock, ReleaseLock
  <1>5. CASE Environment
    <2>1. CASE Tick
      BY <2>1 DEF Tick
    <2>2. CASE Opens \/ Closes \/ Crash \/ Recover
      BY <2>2 DEF Opens, Closes, Crash, Recover
    <2>3. CASE \E u \in Users : LockExpires(u) \/ Expires(u)
      BY <2>3 DEF LockExpires, Expires, ReleaseLock
    <2>4. CASE \E p \in Procs : Fail(p)
      BY <2>4 DEF Fail
    <2>5. CASE \E p \in Procs : LostReply(p)
      <3>1. PICK p \in Procs : LostReply(p)
        BY <2>5
      <3>2. At(p, "create") => User(p) \in Users /\ NewDraft(p) \in Draft
        BY TaskType DEF NewDraft, Draft, At, TaskRecord, LocalsSet
      <3>3. At(p, "save") => /\ User(p) \in Users
                             /\ task[p].question \in Questions
                             /\ task[p].choice \in Choices
                             /\ task[p].left \in 0 .. Deadline
        BY SaveLeft, TaskType DEF At, LocalsSet
      <3>4. At(p, "delete") => User(p) \in Users
        BY TaskType DEF At
      <3> QED
        BY <1>4, <3>1, <3>2, <3>3, <3>4 DEF SaveTTL
    <2> QED
      BY <1>5, <2>1, <2>2, <2>3, <2>4, <2>5 DEF Environment
  <1>6. CASE \E p \in Procs : Step(p)
    <2>1. PICK p \in Procs : Step(p)
      BY <1>6
    <2>2. At(p, "create") => User(p) \in Users /\ NewDraft(p) \in Draft
      BY TaskType DEF NewDraft, Draft, At, TaskRecord, LocalsSet
    <2>3. At(p, "save") => /\ User(p) \in Users
                           /\ task[p].question \in Questions
                           /\ task[p].choice \in Choices
                           /\ task[p].left \in 0 .. Deadline
      BY SaveLeft, TaskType DEF At, LocalsSet
    <2>4. Delete(p) => /\ At(p, "delete")
                       /\ User(p) \in Users
                       /\ DeleteDraft(User(p))
                       /\ task'[p].at = "unlock"
                       /\ task'[p].user = User(p)
      BY TaskType DEF Delete, At, User, Become, TaskRecord
    <2> QED
      BY <1>2, <2>1, <2>2, <2>3, <2>4 DEF SaveTTL
  <1> QED
    BY <1>1, <1>3, <1>5, <1>6 DEF Next, vars, redisVars

\* The table only changes by the Insert of a process that stands before it.
LEMMA ScoreSteps ==
    ASSUME TypeOK, [Next]_vars
    PROVE  \/ UNCHANGED scores
           \/ \E p \in Procs :
                 /\ At(p, "insert")
                 /\ User(p) \in Users
                 /\ task[p].attempt \in Attempts
                 /\ task[p].score \in Scores
                 /\ InsertScore(User(p), task[p].attempt, task[p].score)
  <1>0. ASSUME NEW p \in Procs, At(p, "insert")
        PROVE  /\ User(p) \in Users
               /\ task[p].attempt \in Attempts
               /\ task[p].score \in Scores
    BY <1>0, TaskType DEF At, LocalsSet, TaskRecord
  <1> USE DEF OnlyTask
  <1>1. CASE \E p \in Handlers : Begin(p)
    BY <1>1 DEF Begin, BeginExam, BeginAnswer, BeginSubmit
  <1>2. CASE \E p \in Procs : Step(p)
    <2>1. PICK p \in Procs : Step(p)
      BY <1>2
    <2>2. CASE ExamGet(p) \/ Count(p) \/ Create(p) \/ Reget(p)
      BY <2>2 DEF ExamGet, Count, Create, Reget
    <2>3. CASE SaveGet(p) \/ SaveCheck(p) \/ Save(p)
      BY <2>3 DEF SaveGet, SaveCheck, Save
    <2>4. CASE Lock(p) \/ SubmitGet(p) \/ SubmitAnswers(p) \/ Delete(p) \/ Unlock(p)
      BY <2>4 DEF Lock, SubmitGet, SubmitAnswers, Delete, Unlock
    <2>5. CASE Insert(p)
      BY <1>0, <2>5 DEF Insert
    <2> QED
      BY <2>1, <2>2, <2>3, <2>4, <2>5 DEF Step
  <1>3. CASE \E p \in Tickers : TickerStep(p)
    BY <1>3 DEF TickerStep, TickerDue, TickerNext
  <1>4. CASE \E p \in Procs : LostReply(p)
    BY <1>0, <1>4 DEF LostReply
  <1>5. CASE Environment
    BY <1>4, <1>5 DEF Environment, Tick, Opens, Closes, Crash, Recover,
                      LockExpires, Expires, Fail
  <1> QED
    BY <1>1, <1>2, <1>3, <1>5 DEF Next, vars

-----------------------------------------------------------------------------
(***************************************************************************)
(* Drafts and the sorted set.                                              *)
(***************************************************************************)

\* No step separates a draft from its place in the sorted set: with any
\* number of concurrent requests, and whatever fails, the ticker finds every
\* draft under the draft's own deadline.
THEOREM DraftsScheduled == Spec => []EveryDraftScheduled
  <1>1. Init => EveryDraftScheduled
    BY DEF Init, RedisInit, EveryDraftScheduled, DraftExists
  <1>2. TypeOK /\ EveryDraftScheduled /\ [Next]_vars => EveryDraftScheduled'
    <2> SUFFICES ASSUME TypeOK, EveryDraftScheduled, [Next]_vars
                 PROVE  EveryDraftScheduled'
      OBVIOUS
    <2> USE DEF EveryDraftScheduled, DraftExists
    <2>1. CASE UNCHANGED redisVars
      BY <2>1 DEF redisVars
    <2>2. ASSUME NEW u \in Users, NEW d \in Draft, NEW ttl, CreateScript(u, d, ttl)
          PROVE  EveryDraftScheduled'
      BY <2>2 DEF CreateScript, Expiring, TypeOK, RedisTypeOK
    <2>3. ASSUME NEW u \in Users, NEW q \in Questions, NEW c \in Choices,
                 NEW l \in 0 .. Deadline, WriteAnswer(u, q, c, l + DraftTTL)
          PROVE  EveryDraftScheduled'
      BY <2>3 DEF WriteAnswer
    <2>4. ASSUME NEW u \in Users, DeleteDraft(u)
          PROVE  EveryDraftScheduled'
      BY <2>4 DEF DeleteDraft, TypeOK, RedisTypeOK
    <2>5. CASE UNCHANGED <<drafts, answers, answersTTL, deadlines>>
      BY <2>5
    <2>6. CASE RedisTick
      <3> SUFFICES ASSUME NEW u \in Users, drafts'[u] # Nil
                   PROVE  deadlines'[u] = drafts'[u].left
        OBVIOUS
      <3>1. /\ drafts[u] # Nil
            /\ drafts'[u] = [drafts[u] EXCEPT !.left = TimerElapsed(@)]
        BY <2>6 DEF RedisTick
      <3>2. drafts[u] \in Draft
        BY <3>1 DEF TypeOK, RedisTypeOK
      <3>3. deadlines[u] = drafts[u].left /\ deadlines[u] # Nil
        BY <3>1, <3>2, NilAssumption DEF Draft
      <3>4. deadlines'[u] = TimerElapsed(deadlines[u])
        BY <2>6, <3>3 DEF RedisTick
      <3> QED
        BY <3>1, <3>2, <3>3, <3>4 DEF Draft
    <2>7. ASSUME NEW u \in Users, ExpireDraft(u) \/ ExpireAnswers(u)
          PROVE  EveryDraftScheduled'
      BY <2>7 DEF ExpireDraft, ExpireAnswers, TypeOK, RedisTypeOK
    <2> QED
      BY <2>1, <2>2, <2>3, <2>4, <2>5, <2>6, <2>7, RedisSteps
  <1> QED
    BY <1>1, <1>2, TypeCorrect, PTL DEF Spec

\* The answers of a paper lapse no sooner than the paper's own deadline.
AnswersOutlast ==
    \A u \in Users :
        DraftExists(u) /\ answers[u] # NoAnswers => answersTTL[u] >= drafts[u].left

\* Every step keeps it that way, if a draft is kept for at least as long as it
\* may be worked on: then even the TTL that a save works out for the last
\* moment of an old paper covers a paper issued this instant.
LEMMA AnswersOutlastStep ==
    ASSUME TypeOK, AnswersOutlast, [Next]_vars, DraftTTL >= Deadline
    PROVE  AnswersOutlast'
  <1> USE DEF AnswersOutlast, DraftExists
  <1>1. ASSUME NEW u \in Users, drafts[u] # Nil
        PROVE  drafts[u] \in Draft /\ drafts[u].left \in Timer
    BY <1>1 DEF TypeOK, RedisTypeOK, Draft
  <1>2. CASE UNCHANGED <<drafts, answers, answersTTL, deadlines>>
    BY <1>2
  <1>3. ASSUME NEW v \in Users, NEW d \in Draft, NEW ttl, CreateScript(v, d, ttl)
        PROVE  AnswersOutlast'
    BY <1>3 DEF CreateScript, DropAnswers, TypeOK, RedisTypeOK
  <1>4. ASSUME NEW v \in Users, NEW q \in Questions, NEW c \in Choices,
               NEW l \in 0 .. Deadline, WriteAnswer(v, q, c, l + DraftTTL)
        PROVE  AnswersOutlast'
    <2>1. l + DraftTTL > 0 /\ l + DraftTTL >= Deadline
      BY LimitsAssumption, ExpiryAssumption
    <2>2. /\ answers' = [answers EXCEPT ![v][q] = c]
          /\ answersTTL' = [answersTTL EXCEPT ![v] = l + DraftTTL]
          /\ drafts' = drafts
      BY <1>4, <2>1, LimitsAssumption, ExpiryAssumption DEF WriteAnswer, PutAnswer
    <2> SUFFICES ASSUME NEW u \in Users, drafts[u] # Nil, answers'[u] # NoAnswers
                 PROVE  answersTTL'[u] >= drafts[u].left
      BY <2>2
    <2>3. CASE u = v
      BY <1>1, <2>1, <2>2, <2>3, LimitsAssumption, ExpiryAssumption
      DEF TypeOK, RedisTypeOK, Timer
    <2>4. CASE u # v
      BY <2>2, <2>4 DEF TypeOK, RedisTypeOK
    <2> QED
      BY <2>3, <2>4
  <1>5. ASSUME NEW v \in Users, DeleteDraft(v) \/ ExpireAnswers(v)
        PROVE  AnswersOutlast'
    BY <1>5 DEF DeleteDraft, ExpireAnswers, DropAnswers, TypeOK, RedisTypeOK
  <1>6. ASSUME NEW v \in Users, ExpireDraft(v)
        PROVE  AnswersOutlast'
    BY <1>6 DEF ExpireDraft, TypeOK, RedisTypeOK
  <1>7. CASE RedisTick
    <2> SUFFICES ASSUME NEW u \in Users, drafts'[u] # Nil, answers'[u] # NoAnswers
                 PROVE  answersTTL'[u] >= drafts'[u].left
      OBVIOUS
    <2>1. /\ drafts[u] # Nil
          /\ drafts'[u] = [drafts[u] EXCEPT !.left = TimerElapsed(@)]
          /\ answers' = answers
          /\ answersTTL'[u] = TimerElapsed(answersTTL[u])
      BY <1>7 DEF RedisTick
    <2>2. drafts'[u].left = TimerElapsed(drafts[u].left)
      BY <1>1, <2>1 DEF Draft
    <2>3. answersTTL[u] >= drafts[u].left /\ answersTTL[u] \in TTL
      BY <2>1 DEF TypeOK, RedisTypeOK
    <2> QED
      BY <1>1, <2>1, <2>2, <2>3, LimitsAssumption, ExpiryAssumption
      DEF TimerElapsed, Timer, TTL
  <1>8. CASE UNCHANGED redisVars
    BY <1>2, <1>8 DEF redisVars
  <1> QED
    BY <1>2, <1>3, <1>4, <1>5, <1>6, <1>7, <1>8, RedisSteps

\* A second request for a paper, a late answer or a deletion under way can
\* end a draft but never alter one, and no answer stored for it is lost before
\* its deadline: what a student resumes is what was left.  Nothing less than a
\* DraftTTL of Deadline will do: a save of the previous paper, written late,
\* would give the answers a TTL that ends while the paper is worked on.
THEOREM PaperKept ==
    ASSUME DraftTTL >= Deadline
    PROVE  Spec => ResumeKeepsPaper
  <1> DEFINE Kept(u) ==
        DraftExists(u) /\ DraftExists(u)' =>
            /\ drafts[u].attempt = drafts'[u].attempt
            /\ drafts[u].paper = drafts'[u].paper
            /\ drafts'[u].left <= drafts[u].left
            /\ drafts[u].left >= 0 =>
                  \A q \in Questions :
                      answers[u][q] # Nil => answers'[u][q] # Nil
  <1>1. TypeOK /\ AnswersOutlast /\ [Next]_vars => [\A u \in Users : Kept(u)]_vars
    <2> SUFFICES ASSUME TypeOK, AnswersOutlast, [Next]_vars, NEW u \in Users,
                        DraftExists(u), DraftExists(u)'
                 PROVE  Kept(u)
      OBVIOUS
    <2> USE DEF DraftExists
    <2>1. drafts[u] \in Draft
      BY DEF TypeOK, RedisTypeOK
    <2>2. drafts[u].left \in Int
      BY <2>1, LimitsAssumption DEF Draft, Timer
    <2>3. CASE UNCHANGED <<drafts, answers, answersTTL, deadlines>>
      BY <2>2, <2>3
    <2>4. ASSUME NEW v \in Users, NEW d \in Draft, NEW ttl, CreateScript(v, d, ttl)
          PROVE  Kept(u)
      BY <2>2, <2>4 DEF CreateScript, DropAnswers, TypeOK, RedisTypeOK
    <2>5. ASSUME NEW v \in Users, NEW q \in Questions, NEW c \in Choices,
                 NEW l \in 0 .. Deadline, WriteAnswer(v, q, c, l + DraftTTL)
          PROVE  Kept(u)
      <3>1. /\ answers' = [answers EXCEPT ![v][q] = c]
            /\ drafts' = drafts
        BY <2>5, LimitsAssumption, ExpiryAssumption DEF WriteAnswer, PutAnswer
      <3> QED
        BY <2>2, <3>1, NilAssumption DEF TypeOK, RedisTypeOK, Answers
    <2>6. ASSUME NEW v \in Users, DeleteDraft(v)
          PROVE  Kept(u)
      BY <2>2, <2>6 DEF DeleteDraft, DropAnswers, TypeOK, RedisTypeOK
    <2>7. CASE RedisTick
      <3>1. drafts'[u] = [drafts[u] EXCEPT !.left = TimerElapsed(@)]
        BY <2>7 DEF RedisTick
      <3>2. TimerElapsed(drafts[u].left) <= drafts[u].left
        BY <2>1, TimerElapsedType DEF Draft
      <3> QED
        BY <2>1, <2>7, <3>1, <3>2 DEF RedisTick, Draft
    <2>8. ASSUME NEW v \in Users, ExpireDraft(v)
          PROVE  Kept(u)
      BY <2>2, <2>8 DEF ExpireDraft, TypeOK, RedisTypeOK
    <2>9. ASSUME NEW v \in Users, ExpireAnswers(v)
          PROVE  Kept(u)
      <3>1. CASE u = v
        <4>1. answersTTL[u] < 0 /\ answers[u] # NoAnswers /\ drafts' = drafts
          BY <2>9, <3>1 DEF ExpireAnswers
        <4>2. answersTTL[u] >= drafts[u].left /\ answersTTL[u] \in Int
          BY <4>1, LimitsAssumption, ExpiryAssumption
          DEF AnswersOutlast, TypeOK, RedisTypeOK, TTL
        <4> QED
          BY <2>2, <4>1, <4>2
      <3>2. CASE u # v
        BY <2>2, <2>9, <3>2 DEF ExpireAnswers, DropAnswers, TypeOK, RedisTypeOK
      <3> QED
        BY <3>1, <3>2
    <2>10. CASE UNCHANGED redisVars
      BY <2>3, <2>10 DEF redisVars
    <2> QED
      BY <2>3, <2>4, <2>5, <2>6, <2>7, <2>8, <2>9, <2>10, RedisSteps
  <1>2. Init => AnswersOutlast
    BY DEF Init, RedisInit, AnswersOutlast, DraftExists
  <1>3. TypeOK /\ AnswersOutlast /\ [Next]_vars => AnswersOutlast'
    BY AnswersOutlastStep
  <1> QED
    BY <1>1, <1>2, <1>3, TypeCorrect, PTL DEF Spec, ResumeKeepsPaper

-----------------------------------------------------------------------------
(***************************************************************************)
(* Attempt numbers.  AttemptsContiguous is not inductive alone: an Insert  *)
(* keeps it only because the attempt at hand is at most the next one, which*)
(* AttemptsInOrder says of every draft and of every request that carries a *)
(* number it has counted or read.  Their conjunction is inductive.         *)
(***************************************************************************)

Carrying == {"create", "submitAnswers", "insert"}

\* A process that carries an attempt number carried it before the step, or
\* counted it in the step, or read it from the user's draft in the step.
LEMMA TaskSteps ==
    ASSUME TypeOK, [Next]_vars, NEW p \in Procs, task'[p].at \in Carrying
    PROVE  \/ /\ task[p].at \in Carrying
              /\ task'[p].user = task[p].user
              /\ task'[p].attempt = task[p].attempt
           \/ /\ UNCHANGED scores
              /\ task'[p].attempt = NextAttempt(task'[p].user)
           \/ /\ UNCHANGED scores
              /\ DraftExists(task'[p].user)
              /\ task'[p].attempt = drafts[task'[p].user].attempt
  <1> USE DEF Carrying, Become
  <1> DEFINE Same == task'[p] = task[p]
  <1>1. /\ task \in [Procs -> Task]
        /\ task[p] \in TaskRecord
        /\ Idle \in TaskRecord
    BY TaskType, IdleType DEF Task
  <1>2. ASSUME NEW r \in Procs, Return(r)
        PROVE  Same
    BY <1>1, <1>2 DEF Return, Idle
  <1>3. ASSUME NEW r \in Procs, NEW o, Abandon(r, o)
        PROVE  Same
    BY <1>1, <1>3 DEF Abandon, TaskRecord
  <1>4. CASE \E r \in Handlers : Begin(r)
    <2>1. PICK r \in Handlers, u \in Users :
              \/ BeginExam(r, u)
              \/ \E q \in Questions, c \in Choices : BeginAnswer(r, u, q, c)
              \/ BeginSubmit(r, u)
      BY <1>4 DEF Begin
    <2>2. CASE BeginExam(r, u)
      BY <1>1, <2>2 DEF Procs, BeginExam, TaskRecord
    <2>3. CASE \E q \in Questions, c \in Choices : BeginAnswer(r, u, q, c)
      BY <1>1, <2>3 DEF Procs, BeginAnswer, TaskRecord
    <2>4. CASE BeginSubmit(r, u)
      BY <1>1, <2>4 DEF Procs, BeginSubmit, TaskRecord
    <2> QED
      BY <2>1, <2>2, <2>3, <2>4
  <1>5. CASE \E r \in Tickers : TickerStep(r)
    <2>1. PICK r \in Tickers : TickerDue(r) \/ \E u \in Users : TickerNext(r, u)
      BY <1>5 DEF TickerStep
    <2>2. CASE TickerDue(r)
      BY <2>2 DEF TickerDue
    <2>3. CASE \E u \in Users : TickerNext(r, u)
      <3>1. PICK u \in Users : TickerNext(r, u)
        BY <2>3
      <3> QED
        BY <1>1, <3>1 DEF Procs, TickerNext, TaskRecord
    <2> QED
      BY <2>1, <2>2, <2>3
  <1>6. CASE \E r \in Procs : Step(r)
    <2>1. PICK r \in Procs : Step(r)
      BY <1>6
    <2>2. CASE ExamGet(r)
      BY <1>1, <1>2, <2>2 DEF ExamGet, MoveTo, TaskRecord
    <2>3. CASE Count(r)
      <3>1. CASE CountAttempts(User(r)) >= MaxTries
        BY <1>2, <2>3, <3>1 DEF Count
      <3>2. CASE ~(CountAttempts(User(r)) >= MaxTries)
        <4>1. PICK S \in PickPaper :
                  Become(r, [task[r] EXCEPT !.at = "create",
                                            !.attempt = CountAttempts(User(r)) + 1,
                                            !.paper = S])
          BY <2>3, <3>2 DEF Count
        <4>2. CASE r = p
          BY <1>1, <2>3, <4>1, <4>2 DEF Count, OnlyTask, NextAttempt, User, TaskRecord
        <4> QED
          BY <1>1, <4>1, <4>2
      <3> QED
        BY <3>1, <3>2
    <2>4. CASE Create(r) \/ Reget(r)
      BY <1>1, <1>2, <2>4 DEF Create, Reget, TaskRecord
    <2>5. CASE SaveGet(r) \/ SaveCheck(r) \/ Save(r)
      <3>1. CASE SaveGet(r)
        BY <1>1, <1>2, <3>1 DEF SaveGet, TaskRecord
      <3>2. CASE SaveCheck(r)
        BY <1>1, <1>2, <3>2 DEF SaveCheck, TaskRecord
      <3>3. CASE Save(r)
        BY <1>2, <3>3 DEF Save
      <3> QED
        BY <2>5, <3>1, <3>2, <3>3
    <2>6. CASE Lock(r)
      BY <1>1, <1>2, <2>6 DEF Lock, MoveTo, TaskRecord
    <2>7. CASE SubmitGet(r)
      <3>1. CASE ~DraftExists(User(r))
        BY <1>3, <2>7, <3>1 DEF SubmitGet
      <3>2. CASE DraftExists(User(r))
        <4>1. CASE r = p
          <5>1. task'[p] = [task[p] EXCEPT !.at = "submitAnswers",
                                           !.attempt = drafts[User(p)].attempt,
                                           !.paper = drafts[User(p)].paper]
            BY <1>1, <2>7, <3>2, <4>1 DEF SubmitGet
          <5>2. /\ task'[p].user = User(p)
                /\ task'[p].attempt = drafts[User(p)].attempt
            BY <1>1, <5>1 DEF User, TaskRecord
          <5> QED
            BY <2>7, <3>2, <4>1, <5>2 DEF SubmitGet, OnlyTask
        <4> QED
          BY <1>1, <2>7, <3>2, <4>1 DEF SubmitGet
      <3> QED
        BY <3>1, <3>2
    <2>8. CASE SubmitAnswers(r)
      <3>1. /\ task'[p].user = task[p].user
            /\ task'[p].attempt = task[p].attempt
            /\ task[p].at \in Carrying
        BY <1>1, <2>8 DEF SubmitAnswers, At, TaskRecord
      <3> QED
        BY <3>1
    <2>9. CASE Insert(r) \/ Delete(r) \/ Unlock(r)
      BY <1>1, <1>2, <2>9 DEF Insert, Delete, Unlock, MoveTo, TaskRecord
    <2> QED
      BY <2>1, <2>2, <2>3, <2>4, <2>5, <2>6, <2>7, <2>8, <2>9 DEF Step
  <1>7. CASE Environment
    <2>1. CASE Tick
      <3>1. task'[p] \in {task[p], [task[p] EXCEPT !.left = TimerElapsed(@)]}
        BY <2>1 DEF Tick
      <3> QED
        BY <1>1, <3>1 DEF TaskRecord
    <2>2. CASE Opens \/ Closes \/ Recover \/ \E u \in Users : LockExpires(u) \/ Expires(u)
      BY <2>2 DEF Opens, Closes, Recover, LockExpires, Expires
    <2>3. CASE \E r \in Procs : Fail(r)
      BY <1>2, <1>3, <2>3 DEF Fail
    <2>4. CASE \E r \in Procs : LostReply(r)
      BY <1>3, <2>4 DEF LostReply
    <2>5. CASE Crash
      BY <2>5 DEF Crash, Idle
    <2> QED
      BY <1>7, <2>1, <2>2, <2>3, <2>4, <2>5 DEF Environment
  <1> QED
    BY <1>4, <1>5, <1>6, <1>7 DEF Next, vars

\* What is recorded stays recorded, so a count taken earlier is never too high.
LEMMA CountGrows ==
    ASSUME TypeOK, [Next]_vars, NEW u \in Users
    PROVE  /\ Recorded(u) \subseteq Recorded(u)'
           /\ CountAttempts(u) \in Nat
           /\ CountAttempts(u)' \in Nat
           /\ CountAttempts(u) <= CountAttempts(u)'
  <1>1. TypeOK'
    BY TypeStep
  <1>2. Recorded(u) \subseteq Recorded(u)'
    <2>1. CASE UNCHANGED scores
      BY <2>1 DEF Recorded
    <2>2. ASSUME NEW v \in Users, NEW a \in Attempts, NEW s \in Scores,
                 InsertScore(v, a, s)
          PROVE  Recorded(u) \subseteq Recorded(u)'
      <3>1. DOMAIN RowsWith(scores[v], a, s) = DOMAIN scores[v] \union {a}
        BY RowsWithType DEF TypeOK, ScoresTypeOK
      <3> QED
        BY <2>2, <3>1 DEF InsertScore, Recorded, TypeOK, ScoresTypeOK
    <2> QED
      BY <2>1, <2>2, ScoreSteps
  <1>3. Recorded(u)' \in SUBSET Attempts
    BY <1>1 DEF TypeOK, ScoresTypeOK, Rows, Recorded
  <1>4. IsFiniteSet(Recorded(u)')
    <2>1. IsFiniteSet(Attempts)
      BY LimitsAssumption, FS_Interval DEF Attempts
    <2> QED
      BY <1>3, <2>1, FS_Subset
  <1>5. /\ IsFiniteSet(Recorded(u))
        /\ Cardinality(Recorded(u)) <= Cardinality(Recorded(u)')
    BY <1>2, <1>4, FS_Subset
  <1> QED
    BY <1>2, <1>4, <1>5, FS_CardinalityType DEF CountAttempts

\* Counting the rows of a user whose attempts have no gap gives the last one.
LEMMA CountContiguous ==
    ASSUME NEW u \in Users, NEW k \in 0 .. MaxTries, Recorded(u) = 1 .. k
    PROVE  CountAttempts(u) = k
  <1>1. k \in Int /\ k >= 0
    BY LimitsAssumption
  <1> QED
    BY <1>1, FS_Interval DEF CountAttempts

AttemptsInv == AttemptsContiguous /\ AttemptsInOrder

\* No rows, no drafts and idle processes satisfy the attempts invariant.
LEMMA AttemptsInit ==
    ASSUME Init
    PROVE  AttemptsInv
  <1>1. AttemptsContiguous
    <2> SUFFICES ASSUME NEW u \in Users
                 PROVE  Recorded(u) = 1 .. 0 /\ 0 \in 0 .. MaxTries
      BY DEF AttemptsContiguous
    <2> QED
      BY LimitsAssumption DEF Init, ScoresInit, Recorded
  <1>2. AttemptsInOrder
    BY DEF Init, RedisInit, AttemptsInOrder, DraftExists, Idle
  <1> QED
    BY <1>1, <1>2 DEF AttemptsInv

\* An attempt that Insert does add to the table is the one after the last.
LEMMA NewRowIsNext ==
    ASSUME TypeOK, AttemptsInv, NEW p \in Procs, At(p, "insert"),
           task[p].attempt \notin Recorded(User(p)),
           NEW k \in 0 .. MaxTries, Recorded(User(p)) = 1 .. k
    PROVE  task[p].attempt = k + 1 /\ k < MaxTries
  <1>1. User(p) \in Users /\ task[p].attempt \in Attempts
    BY TaskType DEF At, LocalsSet
  <1>2. task[p].attempt <= k + 1
    BY <1>1, CountContiguous DEF AttemptsInv, AttemptsInOrder, NextAttempt, At
  <1> QED
    BY <1>1, <1>2, LimitsAssumption DEF Attempts

\* A row is added only as the next one of its user, so no gap appears.
LEMMA ContiguousStep ==
    ASSUME TypeOK, AttemptsInv, [Next]_vars
    PROVE  AttemptsContiguous'
  <1> SUFFICES ASSUME NEW u \in Users
               PROVE  \E k \in 0 .. MaxTries : Recorded(u)' = 1 .. k
    BY DEF AttemptsContiguous
  <1>1. PICK k \in 0 .. MaxTries : Recorded(u) = 1 .. k
    BY DEF AttemptsInv, AttemptsContiguous
  <1>2. CASE Recorded(u)' = Recorded(u)
    BY <1>1, <1>2
  <1>3. CASE Recorded(u)' # Recorded(u)
    <2>1. PICK p \in Procs :
              /\ At(p, "insert")
              /\ User(p) \in Users
              /\ task[p].attempt \in Attempts
              /\ task[p].score \in Scores
              /\ InsertScore(User(p), task[p].attempt, task[p].score)
      BY <1>3, ScoreSteps DEF Recorded
    <2> DEFINE a == task[p].attempt
    <2>2. DOMAIN RowsWith(scores[User(p)], a, task[p].score) = Recorded(User(p)) \union {a}
      BY <2>1, RowsWithType DEF TypeOK, ScoresTypeOK, Recorded
    <2>3. User(p) = u /\ a \notin Recorded(u) /\ Recorded(u)' = Recorded(u) \union {a}
      BY <1>3, <2>1, <2>2 DEF InsertScore, Recorded, TypeOK, ScoresTypeOK
    <2>4. a = k + 1 /\ k < MaxTries
      BY <1>1, <2>1, <2>3, NewRowIsNext
    <2>5. k + 1 \in 0 .. MaxTries
      BY <2>4, LimitsAssumption
    <2>6. Recorded(u)' = 1 .. (k + 1)
      BY <1>1, <2>3, <2>4
    <2> QED
      BY <2>5, <2>6
  <1> QED
    BY <1>2, <1>3

\* A paper is created for the counted next attempt and the count only grows,
\* so no paper runs ahead of it.
LEMMA InOrderStep ==
    ASSUME TypeOK, AttemptsInv, [Next]_vars
    PROVE  AttemptsInOrder'
  <1>0. TypeOK'
    BY TypeStep
  <1>1. ASSUME NEW u \in Users, NEW a \in Attempts, a <= NextAttempt(u)
        PROVE  a <= NextAttempt(u)'
    BY <1>1, CountGrows, LimitsAssumption DEF NextAttempt, Attempts
  <1>2. ASSUME NEW u \in Users, DraftExists(u)'
        PROVE  drafts'[u].attempt <= NextAttempt(u)'
    <2>1. ASSUME DraftExists(u), drafts'[u].attempt = drafts[u].attempt
          PROVE  drafts'[u].attempt <= NextAttempt(u)'
      <3>1. drafts[u].attempt \in Attempts
        BY <2>1 DEF TypeOK, RedisTypeOK, Draft, DraftExists
      <3> QED
        BY <1>1, <2>1, <3>1 DEF AttemptsInv, AttemptsInOrder
    <2>2. ASSUME NEW p \in Procs, At(p, "create"), User(p) \in Users,
                 NewDraft(p) \in Draft, CreateScript(User(p), NewDraft(p), PaperTTL)
          PROVE  drafts'[u].attempt <= NextAttempt(u)'
      <3>1. CASE drafts'[u] = drafts[u]
        BY <1>2, <2>1, <3>1 DEF DraftExists
      <3>2. CASE User(p) = u /\ drafts'[u] = NewDraft(p)
        <4>1. task[p].attempt \in Attempts /\ task[p].attempt <= NextAttempt(u)
          BY <2>2, <3>2, TaskType DEF At, LocalsSet, AttemptsInv, AttemptsInOrder
        <4> QED
          BY <1>1, <3>2, <4>1 DEF NewDraft
      <3> QED
        BY <1>2, <2>2, <3>1, <3>2
        DEF CreateScript, Expiring, DraftExists, TypeOK, RedisTypeOK
    <2>3. ASSUME NEW v \in Users, DeleteDraft(v) \/ ExpireDraft(v) \/ ExpireAnswers(v)
          PROVE  drafts'[u].attempt <= NextAttempt(u)'
      BY <1>2, <2>1, <2>3
      DEF DeleteDraft, ExpireDraft, ExpireAnswers, DraftExists, TypeOK, RedisTypeOK
    <2>4. CASE RedisTick
      <3>1. DraftExists(u) /\ drafts'[u] = [drafts[u] EXCEPT !.left = TimerElapsed(@)]
        BY <1>2, <2>4 DEF RedisTick, DraftExists
      <3>2. drafts[u] \in Draft
        BY <3>1 DEF TypeOK, RedisTypeOK, DraftExists
      <3> QED
        BY <2>1, <3>1, <3>2 DEF Draft
    <2>5. CASE UNCHANGED drafts
      BY <1>2, <2>1, <2>5 DEF DraftExists
    <2> QED
      BY <2>2, <2>3, <2>4, <2>5, RedisSteps DEF WriteAnswer, redisVars
  <1>3. ASSUME NEW p \in Procs, task'[p].at \in Carrying,
               NEW u \in Users, u = task'[p].user
        PROVE  task'[p].attempt <= NextAttempt(u)'
    <2>1. task'[p].attempt \in Attempts
      BY <1>0, <1>3 DEF TypeOK, Task, LocalsSet, Carrying
    <2>2. CASE /\ task[p].at \in Carrying
               /\ task[p].user = u
               /\ task'[p].attempt = task[p].attempt
      BY <1>1, <1>3, <2>1, <2>2 DEF AttemptsInv, AttemptsInOrder, Carrying, User
    <2>3. CASE /\ UNCHANGED scores
               /\ task'[p].attempt = NextAttempt(u)
      BY <1>1, <2>1, <2>3, CountGrows DEF NextAttempt
    <2>4. CASE /\ UNCHANGED scores
               /\ DraftExists(u)
               /\ task'[p].attempt = drafts[u].attempt
      BY <1>1, <2>1, <2>4 DEF AttemptsInv, AttemptsInOrder
    <2> QED
      BY <1>3, <2>2, <2>3, <2>4, TaskSteps
  <1> QED
    <2>1. ASSUME NEW p \in Procs, task'[p].at \in Carrying
          PROVE  task'[p].user \in Users
      BY <1>0, <2>1 DEF TypeOK, Task, LocalsSet, Carrying
    <2> QED
      BY <1>2, <1>3, <2>1
      DEF AttemptsInOrder, NextAttempt, CountAttempts, Recorded, Carrying, User

\* Recorded attempts are 1, 2, ... up to at most MaxTries without a gap, and
\* no paper anywhere is for an attempt beyond the next: the number counted
\* before a paper is drawn may be outdated at its Insert, never ahead.
THEOREM AttemptsCorrect == Spec => [](AttemptsContiguous /\ AttemptsInOrder)
  <1>1. TypeOK /\ AttemptsInv /\ [Next]_vars => AttemptsInv'
    BY ContiguousStep, InOrderStep DEF AttemptsInv
  <1>2. Init => AttemptsInv
    BY AttemptsInit
  <1>3. AttemptsInv <=> AttemptsContiguous /\ AttemptsInOrder
    BY DEF AttemptsInv
  <1> QED
    BY <1>1, <1>2, <1>3, TypeCorrect, PTL DEF Spec

\* The half of AttemptsCorrect about papers: an outdated count is only ever
\* too small (GetOrCreatePaper).
THEOREM AttemptsOrdered == Spec => []AttemptsInOrder
  BY AttemptsCorrect, PTL

-----------------------------------------------------------------------------
(***************************************************************************)
(* The results table implements the ledger.                                *)
(***************************************************************************)

\* Whatever happens to drafts, locks and requests, a user's results are a
\* list that only grows at its end and never beyond MaxTries entries.
THEOREM LedgerImplemented == Spec => LedgerSpec
  <1>1. Init => Ledger!Init
    <2>1. [a \in {} |-> 0] = << >>
      OBVIOUS
    <2> QED
      BY <2>1 DEF Init, ScoresInit, Ledger!Init
  <1>2. TypeOK /\ AttemptsInv /\ [Next]_vars => [Ledger!Next]_scores
    <2> SUFFICES ASSUME TypeOK, AttemptsInv, [Next]_vars, scores' # scores
                 PROVE  Ledger!Next
      OBVIOUS
    <2>1. PICK p \in Procs :
              /\ At(p, "insert")
              /\ User(p) \in Users
              /\ task[p].attempt \in Attempts
              /\ task[p].score \in Scores
              /\ InsertScore(User(p), task[p].attempt, task[p].score)
      BY ScoreSteps
    <2> DEFINE u == User(p)
               a == task[p].attempt
               s == task[p].score
    <2>2. a \notin Recorded(u) /\ scores' = [scores EXCEPT ![u] = RowsWith(scores[u], a, s)]
      BY <2>1 DEF InsertScore
    <2>3. PICK k \in 0 .. MaxTries : Recorded(u) = 1 .. k
      BY <2>1 DEF AttemptsInv, AttemptsContiguous
    <2>4. a = k + 1 /\ k < MaxTries
      BY <2>1, <2>2, <2>3, NewRowIsNext
    <2>5. scores[u] \in [1 .. k -> Scores]
      BY <2>1, <2>3 DEF TypeOK, ScoresTypeOK, Rows, Recorded
    <2>6. scores[u] \in Seq(Scores) /\ Len(scores[u]) = k
      BY <2>3, <2>5, LimitsAssumption
    <2>7. RowsWith(scores[u], a, s) = Append(scores[u], s)
      <3>1. Append(scores[u], s) = [i \in 1 .. (k + 1) |-> IF i = k + 1 THEN s ELSE scores[u][i]]
        BY <2>1, <2>5, <2>6
      <3>2. DOMAIN scores[u] \union {a} = 1 .. (k + 1)
        BY <2>3, <2>4 DEF Recorded
      <3> QED
        BY <2>4, <3>1, <3>2 DEF RowsWith
    <2> QED
      BY <2>1, <2>2, <2>4, <2>6, <2>7 DEF Ledger!Next, Ledger!Record
  <1>3. AttemptsInv <=> AttemptsContiguous /\ AttemptsInOrder
    BY DEF AttemptsInv
  <1> QED
    BY <1>1, <1>2, <1>3, TypeCorrect, AttemptsCorrect, PTL
    DEF Spec, LedgerSpec, Ledger!Spec

-----------------------------------------------------------------------------
(***************************************************************************)
(* The submit lock.  It has no owner, so it protects a Submit only if it   *)
(* does not lapse under it and no command is repeated (SafeLock).  Then    *)
(* the lock is held as long as someone is between LockSubmit and           *)
(* UnlockSubmit, and at most one is.                                       *)
(***************************************************************************)
SafeLock == LeaseCoversSubmit /\ "lostReply" \notin Faults

LockInv ==
    /\ SubmitExclusive
    /\ \A p \in Procs : task[p].at \in CriticalSites => locks[User(p)]

\* Who enters the critical calls came through LockSubmit; who leaves last
\* releases the lock, or the lock is left behind with nobody in them.
LEMMA LockSteps ==
    ASSUME SafeLock, TypeOK, [Next]_vars
    PROVE  \/ /\ UNCHANGED locks
              /\ \A p \in Procs :
                    task'[p].at \in CriticalSites =>
                        task[p].at \in CriticalSites /\ task'[p].user = task[p].user
           \/ \E p \in Procs :
                 /\ User(p) \in Users
                 /\ AcquireLock(User(p), TRUE)
                 /\ task'[p].user = User(p)
                 /\ \A q \in Procs \ {p} : task'[q] = task[q]
           \/ \E p \in Procs :
                 /\ User(p) \in Users
                 /\ At(p, "unlock")
                 /\ ReleaseLock(User(p))
                 /\ task'[p].at = "idle"
                 /\ \A q \in Procs \ {p} : task'[q] = task[q]
           \/ \E u \in Users :
                 /\ ReleaseLock(u)
                 /\ Submitting(u) = {}
                 /\ UNCHANGED task
  <1> DEFINE Kept == /\ UNCHANGED locks
                     /\ \A p \in Procs :
                           task'[p].at \in CriticalSites =>
                               /\ task[p].at \in CriticalSites
                               /\ task'[p].user = task[p].user
  <1>0. /\ task \in [Procs -> Task]
        /\ \A p \in Procs : task[p] \in TaskRecord
        /\ Idle \in TaskRecord
    <2>1. task \in [Procs -> Task]
      BY DEF TypeOK
    <2>2. Task \subseteq TaskRecord
      BY DEF Task
    <2> QED
      BY <2>1, <2>2, IdleType
  <1>1. ASSUME NEW r \in Procs, Return(r), UNCHANGED locks
        PROVE  Kept
    BY <1>0, <1>1 DEF Return, Become, Idle, CriticalSites
  <1>2. ASSUME NEW r \in Procs, NEW t \in TaskRecord, Become(r, t), UNCHANGED locks,
               \/ t.at \notin CriticalSites
               \/ t.user = User(r) /\ task[r].at \in CriticalSites
        PROVE  Kept
    BY <1>0, <1>2 DEF Become, User
  <1>3. ASSUME NEW r \in Procs, NEW o, Abandon(r, o), UNCHANGED locks,
               task[r].at \in CriticalSites
        PROVE  Kept
    <2>1. task' = [task EXCEPT ![r] = [Idle EXCEPT !.at = "unlock", !.user = User(r),
                                                   !.outcome = o]]
      BY <1>3 DEF Abandon, Become
    <2> QED
      BY <1>0, <1>3, <2>1 DEF User, TaskRecord
  <1> USE DEF OnlyTask, redisVars
  <1>4. CASE \E r \in Handlers : Begin(r)
    <2>1. PICK r \in Handlers, u \in Users :
              \/ BeginExam(r, u)
              \/ \E q \in Questions, c \in Choices : BeginAnswer(r, u, q, c)
              \/ BeginSubmit(r, u)
      BY <1>4 DEF Begin
    <2>2. CASE BeginExam(r, u)
      BY <1>0, <2>2 DEF BeginExam, Become, TaskRecord, CriticalSites
    <2>3. CASE \E q \in Questions, c \in Choices : BeginAnswer(r, u, q, c)
      <3>1. PICK q \in Questions, c \in Choices : BeginAnswer(r, u, q, c)
        BY <2>3
      <3>2. [Idle EXCEPT !.at = "saveGet", !.user = u,
                         !.question = q, !.choice = c] \in TaskRecord
        BY <1>0 DEF TaskRecord, Sites
      <3> QED
        BY <1>0, <3>1, <3>2 DEF BeginAnswer, Become, TaskRecord, CriticalSites
    <2>4. CASE BeginSubmit(r, u)
      BY <1>0, <2>4 DEF BeginSubmit, Become, TaskRecord, CriticalSites
    <2> QED
      BY <2>1, <2>2, <2>3, <2>4
  <1>5. CASE \E r \in Tickers : TickerStep(r)
    <2>1. PICK r \in Tickers : TickerDue(r) \/ \E u \in Users : TickerNext(r, u)
      BY <1>5 DEF TickerStep
    <2>2. CASE TickerDue(r)
      BY <2>2 DEF TickerDue
    <2>3. CASE \E u \in Users : TickerNext(r, u)
      <3>1. PICK u \in Users : TickerNext(r, u)
        BY <2>3
      <3> QED
        BY <1>0, <3>1 DEF TickerNext, Become, TaskRecord, CriticalSites
    <2> QED
      BY <2>1, <2>2, <2>3
  <1>6. ASSUME NEW r \in Procs, ExamGet(r) \/ Count(r) \/ Create(r) \/ Reget(r)
        PROVE  Kept
    <2>1. CASE ExamGet(r)
      <3>1. CASE MoveTo(r, "count")
        BY <1>0, <2>1, <3>1 DEF ExamGet, MoveTo, Become, TaskRecord, CriticalSites
      <3>2. CASE Become(r, [Idle EXCEPT !.at = "lock", !.user = User(r)])
        BY <1>0, <2>1, <3>2 DEF ExamGet, Become, TaskRecord, CriticalSites
      <3> QED
        BY <1>1, <2>1, <3>1, <3>2 DEF ExamGet
    <2>2. CASE Count(r)
      <3>1. CASE \E S \in PickPaper :
                   Become(r, [task[r] EXCEPT !.at = "create",
                                             !.attempt = CountAttempts(User(r)) + 1,
                                             !.paper = S])
        <4>1. PICK S \in PickPaper :
                  task' = [task EXCEPT ![r] =
                             [task[r] EXCEPT !.at = "create",
                                             !.attempt = CountAttempts(User(r)) + 1,
                                             !.paper = S]]
          BY <3>1 DEF Become
        <4> QED
          BY <1>0, <2>2, <4>1 DEF Count, TaskRecord, CriticalSites
      <3> QED
        BY <1>1, <2>2, <3>1 DEF Count
    <2>3. CASE Create(r)
      <3>1. UNCHANGED locks
        BY <2>3 DEF Create, CreateScript
      <3>2. CASE Become(r, [Idle EXCEPT !.at = "reget", !.user = User(r)])
        BY <1>0, <3>1, <3>2 DEF Become, TaskRecord, CriticalSites
      <3> QED
        BY <1>1, <2>3, <3>1, <3>2 DEF Create
    <2>4. CASE Reget(r)
      BY <1>1, <2>4 DEF Reget
    <2> QED
      BY <1>6, <2>1, <2>2, <2>3, <2>4
  <1>7. ASSUME NEW r \in Procs, SaveGet(r) \/ SaveCheck(r) \/ Save(r)
        PROVE  Kept
    <2>1. CASE SaveGet(r)
      <3>1. CASE task' = [task EXCEPT ![r] =
                            [task[r] EXCEPT !.at = "saveCheck",
                                            !.paper = drafts[User(r)].paper,
                                            !.left = drafts[User(r)].left]]
        BY <1>0, <2>1, <3>1 DEF SaveGet, TaskRecord, CriticalSites
      <3> QED
        BY <1>1, <2>1, <3>1 DEF SaveGet, Become
    <2>2. CASE SaveCheck(r)
      <3>1. CASE task' = [task EXCEPT ![r] =
                            [task[r] EXCEPT !.at = "save", !.paper = {}]]
        BY <1>0, <2>2, <3>1 DEF SaveCheck, TaskRecord, CriticalSites
      <3> QED
        BY <1>1, <2>2, <3>1 DEF SaveCheck, Become
    <2>3. CASE Save(r)
      BY <1>1, <2>3 DEF Save, WriteAnswer
    <2> QED
      BY <1>7, <2>1, <2>2, <2>3
  <1>8. ASSUME NEW r \in Procs, SubmitGet(r) \/ SubmitAnswers(r) \/ Insert(r) \/ Delete(r)
        PROVE  Kept
    <2>1. CASE SubmitGet(r)
      <3>1. CASE DraftExists(User(r))
        <4>1. task' = [task EXCEPT ![r] =
                         [task[r] EXCEPT !.at = "submitAnswers",
                                         !.attempt = drafts[User(r)].attempt,
                                         !.paper = drafts[User(r)].paper]]
          BY <2>1, <3>1 DEF SubmitGet, Become
        <4>2. task[r].at \in CriticalSites /\ UNCHANGED locks
          BY <2>1 DEF SubmitGet, At, CriticalSites
        <4> QED
          BY <1>0, <4>1, <4>2 DEF TaskRecord
      <3>2. CASE ~DraftExists(User(r))
        BY <1>3, <2>1, <3>2 DEF SubmitGet, At, CriticalSites
      <3> QED
        BY <3>1, <3>2
    <2>2. CASE SubmitAnswers(r)
      BY <1>0, <2>2 DEF SubmitAnswers, At, Become, TaskRecord, CriticalSites
    <2>3. CASE Insert(r)
      BY <1>0, <2>3 DEF Insert, At, MoveTo, Become, TaskRecord, CriticalSites
    <2>4. CASE Delete(r)
      BY <1>0, <2>4 DEF Delete, DeleteDraft, At, Become, TaskRecord, CriticalSites
    <2> QED
      BY <1>8, <2>1, <2>2, <2>3, <2>4
  <1>9. ASSUME NEW r \in Procs, Lock(r), ~Kept
        PROVE  /\ User(r) \in Users
               /\ AcquireLock(User(r), TRUE)
               /\ task'[r].user = User(r)
               /\ \A q \in Procs \ {r} : task'[q] = task[q]
    <2>1. User(r) \in Users
      BY <1>9, TaskType DEF Lock, At
    <2>2. PICK acquired \in BOOLEAN :
              /\ AcquireLock(User(r), acquired)
              /\ IF acquired THEN MoveTo(r, "submitGet") ELSE Return(r)
      BY <1>9 DEF Lock
    <2>3. CASE acquired = FALSE
      <3>1. locks' = locks
        BY <2>1, <2>2, <2>3 DEF AcquireLock, TypeOK, RedisTypeOK
      <3> QED
        BY <1>1, <1>9, <2>2, <2>3, <3>1
    <2>4. CASE acquired = TRUE
      BY <1>0, <2>1, <2>2, <2>4 DEF MoveTo, Become, User, TaskRecord
    <2> QED
      BY <2>3, <2>4
  <1>10. ASSUME NEW r \in Procs, Unlock(r)
         PROVE  /\ User(r) \in Users
                /\ At(r, "unlock")
                /\ ReleaseLock(User(r))
                /\ task'[r].at = "idle"
                /\ \A q \in Procs \ {r} : task'[q] = task[q]
    BY <1>0, <1>10, TaskType DEF Unlock, At, Return, Become, Idle
  <1>11. CASE \E r \in Procs : Step(r)
    BY <1>6, <1>7, <1>8, <1>9, <1>10, <1>11 DEF Step
  <1>12. CASE Tick
    BY <1>0, <1>12 DEF Tick, RedisTick, TaskRecord
  <1>13. CASE Opens \/ Closes \/ Recover \/ (\E u \in Users : Expires(u))
    BY <1>13 DEF Opens, Closes, Recover, Expires, ExpireDraft, ExpireAnswers
  <1>14. ASSUME NEW u \in Users, LockExpires(u)
         PROVE  ReleaseLock(u) /\ Submitting(u) = {} /\ UNCHANGED task
    BY <1>14 DEF LockExpires, SafeLock
  <1>15. CASE \E r \in Procs : Fail(r)
    BY <1>1, <1>3, <1>15 DEF Fail
  <1>16. CASE Crash
    BY <1>16 DEF Crash, Idle, CriticalSites
  <1>17. CASE Environment
    BY <1>12, <1>13, <1>14, <1>15, <1>16, <1>17 DEF Environment, LostReply, SafeLock
  <1> QED
    BY <1>4, <1>5, <1>11, <1>17 DEF Next, vars

\* A process enters the critical calls only by taking a free lock, and under
\* SafeLock only its holder frees a lock in use.
LEMMA LockInvStep ==
    ASSUME SafeLock, TypeOK, LockInv, [Next]_vars
    PROVE  LockInv'
  <1> USE DEF LockInv, SubmitExclusive, User
  <1>1. CASE /\ UNCHANGED locks
             /\ \A p \in Procs :
                   task'[p].at \in CriticalSites =>
                       task[p].at \in CriticalSites /\ task'[p].user = task[p].user
    BY <1>1
  <1>2. ASSUME NEW p \in Procs, User(p) \in Users, AcquireLock(User(p), TRUE),
               task'[p].user = User(p), \A q \in Procs \ {p} : task'[q] = task[q]
        PROVE  LockInv'
    <2>1. \A q \in Procs : task[q].at \in CriticalSites => User(q) # User(p)
      BY <1>2 DEF AcquireLock
    <2>2. locks'[User(p)] /\ \A u \in Users : locks[u] => locks'[u]
      BY <1>2 DEF AcquireLock, TypeOK, RedisTypeOK
    <2>3. \A q \in Procs : task[q].at \in CriticalSites => User(q) \in Users
      BY TaskType DEF CriticalSites
    <2> QED
      BY <1>2, <2>1, <2>2, <2>3
  <1>3. ASSUME NEW p \in Procs, User(p) \in Users, At(p, "unlock"),
               ReleaseLock(User(p)), task'[p].at = "idle",
               \A q \in Procs \ {p} : task'[q] = task[q]
        PROVE  LockInv'
    <2>1. p \in Procs /\ task[p].at \in CriticalSites /\ task'[p].at \notin CriticalSites
      BY <1>3 DEF At, CriticalSites
    <2>2. \A q \in Procs \ {p} : task[q].at \in CriticalSites => User(q) # User(p)
      BY <2>1
    <2>3. \A v \in Users \ {User(p)} : locks'[v] = locks[v]
      BY <1>3 DEF ReleaseLock, TypeOK, RedisTypeOK
    <2>4. \A q \in Procs : task[q].at \in CriticalSites => User(q) \in Users
      BY TaskType DEF CriticalSites
    <2> QED
      BY <1>3, <2>1, <2>2, <2>3, <2>4
  <1>4. ASSUME NEW u \in Users, ReleaseLock(u), Submitting(u) = {}, UNCHANGED task
        PROVE  LockInv'
    <2>1. \A q \in Procs : task[q].at \in CriticalSites => User(q) # u
      BY <1>4 DEF Submitting
    <2>2. \A v \in Users \ {u} : locks'[v] = locks[v]
      BY <1>4 DEF ReleaseLock, TypeOK, RedisTypeOK
    <2>3. \A q \in Procs : task[q].at \in CriticalSites => User(q) \in Users
      BY TaskType DEF CriticalSites
    <2> QED
      BY <1>4, <2>1, <2>2, <2>3
  <1> QED
    BY <1>1, <1>2, <1>3, <1>4, LockSteps

\* Together with the initial state: the lock invariant always holds.
LEMMA LockInvariant ==
    ASSUME SafeLock
    PROVE  Spec => []LockInv
  <1>1. Init => LockInv
    BY DEF Init, LockInv, SubmitExclusive, Idle, CriticalSites
  <1>2. TypeOK /\ LockInv /\ [Next]_vars => LockInv'
    BY LockInvStep
  <1> QED
    BY <1>1, <1>2, TypeCorrect, PTL DEF Spec

\* With a lock that outlasts every Submit and commands sent only once, two
\* Submits of one user never run between LockSubmit and UnlockSubmit at the
\* same time, although the lock does not know its owner and crashes and
\* failed unlocks leave it behind.
THEOREM SubmitAlone ==
    ASSUME SafeLock
    PROVE  Spec => []SubmitExclusive
  <1>1. LockInv => SubmitExclusive
    BY DEF LockInv
  <1> QED
    BY <1>1, LockInvariant, PTL

-----------------------------------------------------------------------------
(***************************************************************************)
(* No paper is lost.  If in addition no draft outlives its TTL, a Submit   *)
(* that has read a draft still finds that very draft when it deletes it,   *)
(* and by then its attempt is recorded.                                    *)
(***************************************************************************)
Holding == {"submitAnswers", "insert", "delete"}

HeldDraftInv ==
    \A p \in Procs :
        task[p].at \in Holding =>
            /\ DraftExists(User(p))
            /\ drafts[User(p)].attempt = task[p].attempt
            /\ At(p, "delete") => task[p].attempt \in Recorded(User(p))

\* A Submit holds a draft because it held it before the step, or because it
\* read it from Redis in the step.
LEMMA HoldingSteps ==
    ASSUME TypeOK, [Next]_vars, NEW p \in Procs, task'[p].at \in Holding
    PROVE  \/ /\ task[p].at \in Holding
              /\ task'[p].user = task[p].user
              /\ task'[p].attempt = task[p].attempt
              /\ task'[p].at = "delete" =>
                    At(p, "delete") \/ task[p].attempt \in Recorded(User(p))'
           \/ /\ UNCHANGED redisVars
              /\ task'[p].at = "submitAnswers"
              /\ DraftExists(task'[p].user)
              /\ task'[p].attempt = drafts[task'[p].user].attempt
  <1> USE DEF Holding, Become, At
  <1> DEFINE Same == task'[p] = task[p]
  <1>0. /\ task \in [Procs -> Task]
        /\ task[p] \in TaskRecord
        /\ Idle \in TaskRecord
    BY TaskType, IdleType DEF Task
  <1>1. ASSUME Same
        PROVE  /\ task[p].at \in Holding
               /\ task'[p].user = task[p].user
               /\ task'[p].attempt = task[p].attempt
               /\ task'[p].at = "delete" => At(p, "delete")
    BY <1>1
  <1>2. ASSUME NEW r \in Procs, Return(r)
        PROVE  Same
    BY <1>0, <1>2 DEF Return, Idle
  <1>3. ASSUME NEW r \in Procs, NEW o, Abandon(r, o)
        PROVE  Same
    BY <1>0, <1>3 DEF Abandon, TaskRecord
  <1>4. CASE \E r \in Handlers : Begin(r)
    <2>1. PICK r \in Handlers, u \in Users :
              \/ BeginExam(r, u)
              \/ \E q \in Questions, c \in Choices : BeginAnswer(r, u, q, c)
              \/ BeginSubmit(r, u)
      BY <1>4 DEF Begin
    <2>2. CASE BeginExam(r, u)
      BY <1>0, <1>1, <2>2 DEF Procs, BeginExam, TaskRecord
    <2>3. CASE \E q \in Questions, c \in Choices : BeginAnswer(r, u, q, c)
      BY <1>0, <1>1, <2>3 DEF Procs, BeginAnswer, TaskRecord
    <2>4. CASE BeginSubmit(r, u)
      BY <1>0, <1>1, <2>4 DEF Procs, BeginSubmit, TaskRecord
    <2> QED
      BY <2>1, <2>2, <2>3, <2>4
  <1>5. CASE \E r \in Tickers : TickerStep(r)
    <2>1. PICK r \in Tickers : TickerDue(r) \/ \E u \in Users : TickerNext(r, u)
      BY <1>5 DEF TickerStep
    <2>2. CASE TickerDue(r)
      BY <1>1, <2>2 DEF TickerDue
    <2>3. CASE \E u \in Users : TickerNext(r, u)
      <3>1. PICK u \in Users : TickerNext(r, u)
        BY <2>3
      <3>2. Same
        BY <1>0, <3>1 DEF Procs, TickerNext, TaskRecord
      <3> QED
        BY <1>1, <3>2
    <2> QED
      BY <2>1, <2>2, <2>3
  <1>6. ASSUME NEW r \in Procs, ExamGet(r) \/ Count(r) \/ Create(r) \/ Reget(r)
        PROVE  Same
    <2>1. CASE ExamGet(r)
      <3>1. CASE MoveTo(r, "count")
        BY <1>0, <3>1 DEF MoveTo, TaskRecord
      <3>2. CASE Become(r, [Idle EXCEPT !.at = "lock", !.user = User(r)])
        BY <1>0, <3>2 DEF TaskRecord
      <3> QED
        BY <1>2, <2>1, <3>1, <3>2 DEF ExamGet
    <2>2. CASE Count(r)
      <3>1. CASE \E S \in PickPaper :
                   Become(r, [task[r] EXCEPT !.at = "create",
                                             !.attempt = CountAttempts(User(r)) + 1,
                                             !.paper = S])
        BY <1>0, <3>1 DEF TaskRecord
      <3> QED
        BY <1>2, <2>2, <3>1 DEF Count
    <2>3. CASE Create(r) \/ Reget(r)
      BY <1>0, <1>2, <2>3 DEF Create, Reget, TaskRecord
    <2> QED
      BY <1>6, <2>1, <2>2, <2>3
  <1>7. ASSUME NEW r \in Procs, SaveGet(r) \/ SaveCheck(r) \/ Save(r)
        PROVE  Same
    <2>1. CASE SaveGet(r)
      BY <1>0, <1>2, <2>1 DEF SaveGet, TaskRecord
    <2>2. CASE SaveCheck(r)
      BY <1>0, <1>2, <2>2 DEF SaveCheck, TaskRecord
    <2>3. CASE Save(r)
      BY <1>2, <2>3 DEF Save
    <2> QED
      BY <1>7, <2>1, <2>2, <2>3
  <1>8. ASSUME NEW r \in Procs, Lock(r) \/ Unlock(r) \/ Delete(r)
        PROVE  Same
    <2>1. CASE Lock(r)
      BY <1>0, <1>2, <2>1 DEF Lock, MoveTo, TaskRecord
    <2>2. CASE Unlock(r)
      BY <1>2, <2>2 DEF Unlock
    <2>3. CASE Delete(r)
      BY <1>0, <2>3 DEF Delete, TaskRecord
    <2> QED
      BY <1>8, <2>1, <2>2, <2>3
  <1>9. ASSUME NEW r \in Procs, SubmitGet(r), ~Same
        PROVE  /\ UNCHANGED redisVars
               /\ task'[p].at = "submitAnswers"
               /\ DraftExists(task'[p].user)
               /\ task'[p].attempt = drafts[task'[p].user].attempt
    <2>1. DraftExists(User(r))
      BY <1>3, <1>9 DEF SubmitGet
    <2>2. task' = [task EXCEPT ![r] =
                     [task[r] EXCEPT !.at = "submitAnswers",
                                     !.attempt = drafts[User(r)].attempt,
                                     !.paper = drafts[User(r)].paper]]
      BY <1>9, <2>1 DEF SubmitGet
    <2>3. r = p
      BY <1>0, <1>9, <2>2
    <2>4. /\ task'[p].at = "submitAnswers"
          /\ task'[p].user = User(p)
          /\ task'[p].attempt = drafts[User(p)].attempt
      BY <1>0, <2>2, <2>3 DEF User, TaskRecord
    <2> QED
      BY <1>9, <2>1, <2>3, <2>4 DEF SubmitGet, OnlyTask
  <1>10. ASSUME NEW r \in Procs, SubmitAnswers(r)
         PROVE  /\ task[p].at \in Holding
                /\ task'[p].user = task[p].user
                /\ task'[p].attempt = task[p].attempt
                /\ task'[p].at = "delete" => At(p, "delete")
    BY <1>0, <1>10 DEF SubmitAnswers, TaskRecord
  <1>11. ASSUME NEW r \in Procs, Insert(r)
         PROVE  /\ task[p].at \in Holding
                /\ task'[p].user = task[p].user
                /\ task'[p].attempt = task[p].attempt
                /\ task'[p].at = "delete" =>
                      At(p, "delete") \/ task[p].attempt \in Recorded(User(p))'
    <2>1. task' = [task EXCEPT ![r] = [task[r] EXCEPT !.at = "delete"]]
      BY <1>11 DEF Insert, MoveTo
    <2>2. CASE r # p
      BY <1>0, <2>1, <2>2
    <2>3. CASE r = p
      <3>1. /\ User(p) \in Users
            /\ task[p].attempt \in Attempts
            /\ task[p].score \in Scores
        BY <1>11, <2>3, TaskType DEF Insert, LocalsSet, TaskRecord
      <3>2. DOMAIN RowsWith(scores[User(p)], task[p].attempt, task[p].score)
              = Recorded(User(p)) \union {task[p].attempt}
        BY <3>1, RowsWithType DEF TypeOK, ScoresTypeOK, Recorded
      <3>3. task[p].attempt \in DOMAIN scores'[User(p)]
        BY <1>11, <2>3, <3>1, <3>2 DEF Insert, InsertScore, Recorded, TypeOK, ScoresTypeOK
      <3>4. /\ task[p].at \in Holding
            /\ task'[p].user = task[p].user
            /\ task'[p].attempt = task[p].attempt
        BY <1>0, <1>11, <2>1, <2>3 DEF Insert, TaskRecord
      <3>5. CASE task[p].user = task'[p].user
        BY <3>3, <3>4, <3>5 DEF Recorded, User
      <3> QED
        BY <3>4, <3>5
    <2> QED
      BY <2>2, <2>3
  <1>12. CASE \E r \in Procs : Step(r)
    BY <1>1, <1>6, <1>7, <1>8, <1>9, <1>10, <1>11, <1>12 DEF Step
  <1>13. CASE Environment
    <2>1. CASE Tick
      <3>1. task'[p] \in {task[p], [task[p] EXCEPT !.left = TimerElapsed(@)]}
        BY <2>1 DEF Tick
      <3> QED
        BY <1>0, <3>1 DEF TaskRecord
    <2>2. CASE Opens \/ Closes \/ Recover \/ \E u \in Users : LockExpires(u) \/ Expires(u)
      BY <1>1, <2>2 DEF Opens, Closes, Recover, LockExpires, Expires
    <2>3. CASE \E r \in Procs : Fail(r)
      BY <1>1, <1>2, <1>3, <2>3 DEF Fail
    <2>4. CASE \E r \in Procs : LostReply(r)
      BY <1>1, <1>3, <2>4 DEF LostReply
    <2>5. CASE Crash
      BY <2>5 DEF Crash, Idle
    <2> QED
      BY <1>13, <2>1, <2>2, <2>3, <2>4, <2>5 DEF Environment
  <1> QED
    BY <1>1, <1>4, <1>5, <1>12, <1>13 DEF Next, vars

\* Nobody but the holder of the lock removes the draft it has read, and the
\* draft is not replaced while it exists.
LEMMA HeldDraftStep ==
    ASSUME SafeLock, ~DraftsMayExpire,
           TypeOK, LockInv', HeldDraftInv, [Next]_vars
    PROVE  HeldDraftInv'
  <1>0. TypeOK'
    BY TypeStep
  <1> SUFFICES ASSUME NEW p \in Procs, task'[p].at \in Holding,
                      NEW u \in Users, u = task'[p].user
               PROVE  /\ DraftExists(u)'
                      /\ drafts'[u].attempt = task'[p].attempt
                      /\ task'[p].at = "delete" => task'[p].attempt \in Recorded(u)'
    <2>1. \A p \in Procs : task'[p].at \in Holding => task'[p].user \in Users
      BY <1>0 DEF TypeOK, Task, LocalsSet, Holding
    <2> QED
      BY <2>1 DEF HeldDraftInv, DraftExists, Recorded, User, At
  <1>1. /\ DraftExists(u)
        /\ drafts[u].attempt = task'[p].attempt
        /\ task'[p].at = "delete" => task'[p].attempt \in Recorded(u)'
    <2>1. CASE /\ task[p].at \in Holding
               /\ task'[p].user = task[p].user
               /\ task'[p].attempt = task[p].attempt
               /\ task'[p].at = "delete" =>
                     At(p, "delete") \/ task[p].attempt \in Recorded(User(p))'
      <3>1. User(p) = u /\ User(p)' = u
        BY <2>1 DEF User
      <3>2. Recorded(User(p))' = Recorded(u)'
        BY <3>1 DEF Recorded
      <3>3. Recorded(u) \subseteq Recorded(u)'
        BY CountGrows
      <3> QED
        BY <2>1, <3>1, <3>2, <3>3 DEF HeldDraftInv
    <2>2. CASE /\ UNCHANGED redisVars
               /\ task'[p].at = "submitAnswers"
               /\ DraftExists(task'[p].user)
               /\ task'[p].attempt = drafts[task'[p].user].attempt
      BY <2>2
    <2> QED
      BY <2>1, <2>2, HoldingSteps
  <1>2. DraftExists(u)' /\ drafts'[u].attempt = drafts[u].attempt
    <2> USE DEF DraftExists
    <2>1. CASE UNCHANGED drafts
      BY <1>1, <2>1
    <2>2. ASSUME NEW v \in Users, NEW d \in Draft, NEW ttl,
                 CreateScript(v, d, ttl)
          PROVE  DraftExists(u)' /\ drafts'[u].attempt = drafts[u].attempt
      BY <1>1, <2>2 DEF CreateScript, TypeOK, RedisTypeOK
    <2>3. ASSUME NEW r \in Procs, User(r) \in Users, DeleteDraft(User(r)),
                 task'[r].at = "unlock", task'[r].user = User(r)
          PROVE  DraftExists(u)' /\ drafts'[u].attempt = drafts[u].attempt
      <3>1. User(r) # u
        BY <2>3 DEF LockInv, SubmitExclusive, CriticalSites, Holding, User
      <3> QED
        BY <1>1, <2>3, <3>1 DEF DeleteDraft, TypeOK, RedisTypeOK
    <2>4. CASE RedisTick
      <3>1. drafts'[u] = [drafts[u] EXCEPT !.left = TimerElapsed(@)]
        BY <1>1, <2>4 DEF RedisTick
      <3>2. drafts[u] \in Draft /\ drafts'[u] \in Draft \union {Nil}
        BY <1>0, <1>1 DEF TypeOK, RedisTypeOK
      <3>3. TimerElapsed(drafts[u].left) \in Timer
        BY <3>2, TimerElapsedType DEF Draft
      <3>4. drafts'[u] \in Draft
        BY <3>1, <3>2, <3>3 DEF Draft
      <3> QED
        BY <3>1, <3>2, <3>4, NilAssumption DEF Draft
    <2>5. ASSUME NEW v \in Users, ExpireDraft(v)
          PROVE  FALSE
      BY <2>5 DEF ExpireDraft
    <2> QED
      BY <2>1, <2>2, <2>3, <2>4, <2>5, RedisSteps
      DEF WriteAnswer, ExpireAnswers, redisVars, SafeLock
  <1> QED
    BY <1>1, <1>2

\* A paper is never thrown away unscored, though Delete names only the user:
\* with a safe lock and drafts that do not lapse, the draft that leaves Redis
\* is one whose attempt is in the results table.
THEOREM NoPaperLost ==
    ASSUME SafeLock, ~DraftsMayExpire
    PROVE  Spec => DraftRemovedOnlyWhenScored
  <1> DEFINE Removed(u) == DraftExists(u) /\ ~DraftExists(u)' =>
                               drafts[u].attempt \in Recorded(u)
  <1>1. Init => HeldDraftInv
    BY DEF Init, HeldDraftInv, Idle, Holding
  <1>2. TypeOK /\ LockInv' /\ HeldDraftInv /\ [Next]_vars => HeldDraftInv'
    BY HeldDraftStep
  <1>3. TypeOK /\ HeldDraftInv /\ [Next]_vars => [\A u \in Users : Removed(u)]_vars
    <2> SUFFICES ASSUME TypeOK, HeldDraftInv, [Next]_vars,
                        NEW u \in Users, DraftExists(u), ~DraftExists(u)'
                 PROVE  drafts[u].attempt \in Recorded(u)
      OBVIOUS
    <2> USE DEF DraftExists
    <2>1. ~UNCHANGED drafts
      OBVIOUS
    <2>2. ASSUME NEW v \in Users, NEW d \in Draft, NEW ttl,
                 CreateScript(v, d, ttl)
          PROVE  FALSE
      BY <2>2 DEF CreateScript, TypeOK, RedisTypeOK
    <2>3. ASSUME NEW p \in Procs, At(p, "delete"), User(p) \in Users, DeleteDraft(User(p))
          PROVE  drafts[u].attempt \in Recorded(u)
      <3>1. User(p) = u
        BY <2>3 DEF DeleteDraft, TypeOK, RedisTypeOK
      <3> QED
        BY <2>3, <3>1 DEF HeldDraftInv, Holding, At
    <2>4. CASE RedisTick
      <3>1. drafts'[u] = [drafts[u] EXCEPT !.left = TimerElapsed(@)]
        BY <2>4 DEF RedisTick
      <3>2. drafts[u] \in Draft
        BY DEF TypeOK, RedisTypeOK
      <3>3. TimerElapsed(drafts[u].left) \in Timer
        BY <3>2, TimerElapsedType DEF Draft
      <3>4. drafts'[u] \in Draft
        BY <3>1, <3>2, <3>3 DEF Draft
      <3> QED
        BY <3>4, NilAssumption
    <2>5. ASSUME NEW v \in Users, ExpireDraft(v)
          PROVE  FALSE
      BY <2>5 DEF ExpireDraft
    <2> QED
      BY <2>1, <2>2, <2>3, <2>4, <2>5, RedisSteps
      DEF WriteAnswer, ExpireAnswers, redisVars
  <1> QED
    BY <1>1, <1>2, <1>3, TypeCorrect, LockInvariant, PTL
    DEF Spec, DraftRemovedOnlyWhenScored

\* Get reads a draft and then its answers, by user name: under the same
\* assumptions the draft in Redis is still the one just read, so the score is
\* that of the answers to this paper and not of another's, or of none.
THEOREM CopiesWhole ==
    ASSUME SafeLock, ~DraftsMayExpire
    PROVE  Spec => CopyIsOfOnePaper
  <1> DEFINE Whole(p) == At(p, "submitAnswers") /\ task'[p].at = "insert" =>
                             /\ DraftExists(User(p))
                             /\ drafts[User(p)].attempt = task[p].attempt
  <1>1. Init => HeldDraftInv
    BY DEF Init, HeldDraftInv, Idle, Holding
  <1>2. TypeOK /\ LockInv' /\ HeldDraftInv /\ [Next]_vars => HeldDraftInv'
    BY HeldDraftStep
  <1>3. HeldDraftInv => [\A p \in Procs : Whole(p)]_vars
    BY DEF HeldDraftInv, Holding, At
  <1> QED
    BY <1>1, <1>2, <1>3, TypeCorrect, LockInvariant, PTL DEF Spec, CopyIsOfOnePaper
=============================================================================
