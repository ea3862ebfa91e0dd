--------------------------- MODULE ExamCauseProofs ---------------------------
(***************************************************************************)
(* Why two properties of ExamService fail: each is proved to hold in all   *)
(* executions without the one step that the finding blames.  Nothing else  *)
(* in the service breaks it.                                               *)
(***************************************************************************)
EXTENDS ExamServiceProofs

-----------------------------------------------------------------------------
(***************************************************************************)
(* What a step means for one process.                                      *)
(***************************************************************************)
\* The step is not this process's; time may pass for it.
Still(p) ==
    /\ \A x \in {"at", "user", "attempt", "score", "outcome"} : task'[p][x] = task[p][x]
    /\ p \in Tickers => queue'[p] = queue[p]

\* A process's step concerns its own locals, and the batch of a ticker.
LEMMA OwnStep ==
    ASSUME TypeOK, NEW r \in Procs, NEW p \in Procs, p # r,
           \/ Begin(r) \/ Step(r) \/ (r \in Tickers /\ TickerStep(r)) \/ Fail(r) \/ LostReply(r)
    PROVE  Still(p)
  <1>0. task \in [Procs -> Task] /\ queue \in [Tickers -> SUBSET Users]
    BY DEF TypeOK
  <1>1. ASSUME NEW t, Become(r, t), UNCHANGED queue
        PROVE  Still(p)
    BY <1>0, <1>1 DEF Become, Still
  <1>2. ASSUME NEW t, Become(r, t), AbortBatch(r)
        PROVE  Still(p)
    BY <1>0, <1>2 DEF Become, AbortBatch, Still
  <1>3. ASSUME UNCHANGED <<task, queue>>
        PROVE  Still(p)
    BY <1>3 DEF Still
  <1> USE DEF OnlyTask, Return, MoveTo, Abandon
  <1>4. CASE Begin(r)
    BY <1>1, <1>4 DEF Begin, BeginExam, BeginAnswer, BeginSubmit
  <1>5. CASE Step(r)
    <2>1. CASE ExamGet(r) \/ Count(r) \/ Create(r) \/ Reget(r)
      BY <1>1, <2>1 DEF ExamGet, Count, Create, Reget
    <2>2. CASE SaveGet(r) \/ SaveCheck(r) \/ Save(r)
      BY <1>1, <2>2 DEF SaveGet, SaveCheck, Save
    <2>3. CASE Lock(r) \/ SubmitGet(r) \/ SubmitAnswers(r)
      BY <1>1, <2>3 DEF Lock, SubmitGet, SubmitAnswers
    <2>4. CASE Insert(r) \/ Delete(r)
      BY <1>1, <2>4 DEF Insert, Delete
    <2>5. CASE Unlock(r)
      BY <1>1, <1>2, <2>5 DEF Unlock
    <2> QED
      BY <1>5, <2>1, <2>2, <2>3, <2>4, <2>5 DEF Step
  <1>6. CASE r \in Tickers /\ TickerStep(r)
    <2>1. ASSUME NEW S, queue' = [queue EXCEPT ![r] = S], task'[p] = task[p]
          PROVE  Still(p)
      BY <1>0, <2>1 DEF Still
    <2>2. CASE TickerDue(r)
      BY <2>1, <2>2 DEF TickerDue
    <2>3. ASSUME NEW u \in Users, TickerNext(r, u)
          PROVE  Still(p)
      BY <1>0, <2>1, <2>3 DEF TickerNext, Become
    <2> QED
      BY <1>6, <2>2, <2>3 DEF TickerStep
  <1>7. CASE Fail(r)
    BY <1>1, <1>2, <1>7 DEF Fail
  <1>8. CASE LostReply(r)
    BY <1>1, <1>3, <1>8 DEF LostReply
  <1> QED
    BY <1>4, <1>5, <1>6, <1>7, <1>8

\* A process stays as it is, takes a step of its own, or dies with the others.
LEMMA ProcessSteps ==
    ASSUME TypeOK, [Next]_vars, NEW p \in Procs
    PROVE  \/ Still(p)
           \/ p \in Handlers /\ Begin(p)
           \/ Step(p)
           \/ p \in Tickers /\ TickerStep(p)
           \/ Fail(p)
           \/ LostReply(p)
           \/ Crash
  <1>1. CASE \E r \in Handlers : Begin(r)
    BY <1>1, OwnStep DEF Procs
  <1>2. CASE \E r \in Procs : Step(r)
    BY <1>2, OwnStep
  <1>3. CASE \E r \in Tickers : TickerStep(r)
    BY <1>3, OwnStep DEF Procs
  <1>4. CASE \E r \in Procs : Fail(r) \/ LostReply(r)
    BY <1>4, OwnStep
  <1>5. CASE Tick
    <2>1. task[p] \in TaskRecord
      BY TaskType
    <2>2. /\ task'[p] \in {task[p], [task[p] EXCEPT !.left = TimerElapsed(@)]}
          /\ UNCHANGED queue
      BY <1>5 DEF Tick
    <2> QED
      BY <2>1, <2>2 DEF Still, TaskRecord
  <1>6. CASE Opens \/ Closes \/ Recover \/ (\E u \in Users : LockExpires(u) \/ Expires(u))
    BY <1>6 DEF Opens, Closes, Recover, LockExpires, Expires, Still
  <1>7. CASE UNCHANGED vars
    BY <1>7 DEF vars, Still
  <1> QED
    BY <1>1, <1>2, <1>3, <1>4, <1>5, <1>6, <1>7 DEF Next, Environment

\* A draft that stays is for the same attempt, and its time only runs down.
LEMMA DraftStays ==
    ASSUME TypeOK, [Next]_vars, NEW u \in Users, DraftExists(u), DraftExists(u)'
    PROVE  drafts'[u].attempt = drafts[u].attempt /\ drafts'[u].left <= drafts[u].left
  <1> USE DEF DraftExists
  <1>1. drafts[u] \in Draft
    BY DEF TypeOK, RedisTypeOK
  <1>2. drafts[u].left <= drafts[u].left
    BY <1>1, LimitsAssumption DEF Draft, Timer
  <1>3. CASE drafts'[u] = drafts[u]
    BY <1>2, <1>3
  <1>4. CASE RedisTick
    <2>1. drafts'[u] = [drafts[u] EXCEPT !.left = TimerElapsed(@)]
      BY <1>4 DEF RedisTick
    <2> QED
      BY <1>1, <2>1, TimerElapsedType DEF Draft
  <1>5. ASSUME NEW v \in Users, NEW d \in Draft, NEW ttl, CreateScript(v, d, ttl)
        PROVE  drafts'[u] = drafts[u]
    BY <1>5 DEF CreateScript, TypeOK, RedisTypeOK
  <1>6. ASSUME NEW v \in Users, DeleteDraft(v)
        PROVE  drafts'[u] = drafts[u]
    BY <1>6 DEF DeleteDraft, TypeOK, RedisTypeOK
  <1>7. ASSUME NEW v \in Users, ExpireDraft(v) \/ ExpireAnswers(v)
        PROVE  drafts'[u] = drafts[u]
    BY <1>7 DEF ExpireDraft, ExpireAnswers, TypeOK, RedisTypeOK
  <1> QED
    BY <1>3, <1>4, <1>5, <1>6, <1>7, RedisSteps DEF WriteAnswer, redisVars

-----------------------------------------------------------------------------
(***************************************************************************)
(* The ticker and a paper whose time is still running (run early_hand_in). *)
(* It happens only if that paper was issued while the ticker was bound to  *)
(* submit the user: nothing else, whatever fails, lapses or is repeated,   *)
(* lets it hand in a paper early.                                          *)
(***************************************************************************)
\* The ticker is going to submit u, and has not read the draft yet.
Bound(p, u) ==
    \/ u \in queue[p]
    \/ task[p].at \in {"lock", "submitGet"} /\ User(p) = u

\* No paper is issued to a user whom the ticker is going to submit.
NoneIssuedWhileBound ==
    \A u \in Users : ~DraftExists(u) /\ DraftExists(u)' => \A p \in Tickers : ~Bound(p, u)

\* The ticker does nothing but submit.
TickersSubmit == \A p \in Tickers : task[p].at \in {"idle", "lock"} \union CriticalSites

\* The drafts the ticker is going to submit are due.
BoundAreDue ==
    \A p \in Tickers, u \in Users : Bound(p, u) /\ DraftExists(u) => drafts[u].left <= 0

\* How a ticker comes to be bound to a user, and that it submits only papers
\* there are.
LEMMA TickerMoves ==
    ASSUME TypeOK, [Next]_vars, NEW p \in Tickers,
           task[p].at \in {"idle", "lock"} \union CriticalSites
    PROVE  /\ task'[p].at \in {"idle", "lock"} \union CriticalSites
           /\ \A u \in Users : Bound(p, u)' =>
                  Bound(p, u) \/ (u \in DueUsers /\ UNCHANGED redisVars)
           /\ At(p, "submitGet") /\ task'[p].at = "submitAnswers" =>
                  DraftExists(User(p)) /\ User(p) \in Users
  <1> DEFINE Goal ==
        /\ task'[p].at \in {"idle", "lock"} \union CriticalSites
        /\ \A u \in Users : Bound(p, u)' =>
               Bound(p, u) \/ (u \in DueUsers /\ UNCHANGED redisVars)
        /\ At(p, "submitGet") /\ task'[p].at = "submitAnswers" =>
               DraftExists(User(p)) /\ User(p) \in Users
  <1>0. /\ task \in [Procs -> Task] /\ queue \in [Tickers -> SUBSET Users]
        /\ p \in Procs /\ task[p] \in TaskRecord
        /\ task[p].at # "idle" => User(p) \in Users
    BY TaskType DEF TypeOK, Procs
  <1> USE DEF Bound, At, CriticalSites, User
  <1>1. CASE Still(p)
    BY <1>1 DEF Still
  <1>2. ASSUME Return(p), UNCHANGED queue \/ AbortBatch(p)
        PROVE  Goal
    BY <1>0, <1>2 DEF Return, Become, Idle, AbortBatch
  <1>3. ASSUME NEW o, Abandon(p, o), UNCHANGED queue
        PROVE  Goal
    <2>1. task'[p].at = "unlock"
      BY <1>0, <1>3, IdleType DEF Abandon, Become, Task, TaskRecord
    <2> QED
      BY <1>3, <2>1
  <1>4. CASE Step(p)
    <2>1. CASE Lock(p)
      BY <1>0, <1>2, <2>1 DEF Lock, MoveTo, Become, TaskRecord
    <2>2. CASE SubmitGet(p)
      <3>1. CASE DraftExists(User(p))
        <4>1. task'[p].at = "submitAnswers" /\ UNCHANGED queue
          BY <1>0, <2>2, <3>1 DEF SubmitGet, Become, OnlyTask, TaskRecord
        <4> QED
          BY <1>0, <2>2, <3>1, <4>1 DEF SubmitGet
      <3>2. CASE ~DraftExists(User(p))
        BY <1>3, <2>2, <3>2 DEF SubmitGet, OnlyTask
      <3> QED
        BY <3>1, <3>2
    <2>3. CASE SubmitAnswers(p) \/ Insert(p) \/ Delete(p)
      <3>1. task'[p].at \in {"insert", "delete", "unlock"} /\ UNCHANGED queue
        BY <1>0, <2>3 DEF SubmitAnswers, Insert, Delete, MoveTo, Become, OnlyTask, TaskRecord
      <3>2. ~At(p, "submitGet")
        BY <2>3 DEF SubmitAnswers, Insert, Delete
      <3> QED
        BY <3>1, <3>2
    <2>4. CASE Unlock(p)
      BY <1>2, <2>4 DEF Unlock
    <2> QED
      BY <1>4, <2>1, <2>2, <2>3, <2>4
      DEF Step, ExamGet, Count, Create, Reget, SaveGet, SaveCheck, Save
  <1>5. CASE TickerStep(p)
    <2>1. CASE TickerDue(p)
      BY <1>0, <2>1 DEF TickerDue
    <2>2. ASSUME NEW u \in Users, TickerNext(p, u)
          PROVE  Goal
      <3>1. task'[p].at = "lock" /\ task'[p].user = u
        BY <1>0, <2>2, IdleType DEF TickerNext, Become, Task, TaskRecord
      <3>2. u \in queue[p] /\ queue'[p] = queue[p] \ {u}
        BY <1>0, <2>2 DEF TickerNext
      <3> QED
        BY <3>1, <3>2
    <2> QED
      BY <1>5, <2>1, <2>2 DEF TickerStep
  <1>6. CASE Fail(p)
    BY <1>2, <1>3, <1>6 DEF Fail
  <1>7. CASE LostReply(p)
    <2>1. CASE UNCHANGED <<task, queue>>
      BY <2>1
    <2>2. CASE Abandon(p, "error") /\ UNCHANGED queue
      BY <1>3, <2>2
    <2> QED
      BY <1>7, <2>1, <2>2 DEF LostReply
  <1>8. CASE Crash
    BY <1>0, <1>8 DEF Crash, Idle
  <1>9. p \notin Handlers
    BY ProcessAssumption
  <1> QED
    BY <1>0, <1>1, <1>4, <1>5, <1>6, <1>7, <1>8, <1>9, ProcessSteps

\* A user becomes bound by being due, and stays due: no other paper is issued
\* meanwhile, and time only runs down.
LEMMA BoundAreDueStep ==
    ASSUME TypeOK, EveryDraftScheduled, TickersSubmit, BoundAreDue,
           [Next]_vars, [NoneIssuedWhileBound]_vars
    PROVE  TickersSubmit' /\ BoundAreDue'
  <1>1. TickersSubmit'
    BY TickerMoves DEF TickersSubmit
  <1>2. ASSUME NEW p \in Tickers, NEW u \in Users, Bound(p, u)', DraftExists(u)'
        PROVE  drafts'[u].left <= 0
    <2>1. Bound(p, u) \/ (u \in DueUsers /\ UNCHANGED redisVars)
      BY <1>2, TickerMoves DEF TickersSubmit
    <2>2. DraftExists(u)
      <3>1. CASE NoneIssuedWhileBound
        BY <1>2, <2>1, <3>1 DEF NoneIssuedWhileBound, redisVars, DraftExists
      <3>2. CASE UNCHANGED vars
        BY <1>2, <3>2 DEF vars, DraftExists
      <3> QED
        BY <3>1, <3>2
    <2>3. drafts[u].left <= 0
      <3>1. CASE Bound(p, u)
        BY <2>2, <3>1 DEF BoundAreDue
      <3>2. CASE u \in DueUsers
        BY <2>2, <3>2 DEF DueUsers, EveryDraftScheduled
      <3> QED
        BY <2>1, <3>1, <3>2
    <2>4. drafts'[u].left <= drafts[u].left
      BY <1>2, <2>2, DraftStays
    <2>5. drafts[u].left \in Int /\ drafts'[u].left \in Int
      <3>1. TypeOK'
        BY TypeStep
      <3>2. drafts[u] \in Draft /\ drafts'[u] \in Draft
        BY <1>2, <2>2, <3>1 DEF TypeOK, RedisTypeOK, DraftExists
      <3> QED
        BY <3>2, LimitsAssumption DEF Draft, Timer
    <2> QED
      BY <2>3, <2>4, <2>5
  <1> QED
    BY <1>1, <1>2 DEF BoundAreDue

\* The ticker hands in only papers whose time is up, provided none is issued to
\* a user it is just about to submit: the gap between reading the batch and
\* Submit's reading of the draft is the only cause of run early_hand_in
\* (TickerScoresOnlyDue; ProcessDue), through every fault.
THEOREM EarlyOnlyIfIssuedMeanwhile ==
    Spec /\ [][NoneIssuedWhileBound]_vars => TickerScoresOnlyDue
  <1> DEFINE Inv == TickersSubmit /\ BoundAreDue
             OnlyDue == \A p \in Tickers :
                            At(p, "submitGet") /\ task'[p].at = "submitAnswers" =>
                                drafts[User(p)].left <= 0
  <1>1. Init => Inv
    BY DEF Init, RedisInit, TickersSubmit, BoundAreDue, DraftExists, Idle, Procs
  <1>2. TypeOK /\ EveryDraftScheduled /\ Inv /\ [Next]_vars /\ [NoneIssuedWhileBound]_vars
            => Inv'
    BY BoundAreDueStep
  <1>3. TypeOK /\ Inv /\ [Next]_vars => [OnlyDue]_vars
    <2> SUFFICES ASSUME TypeOK, Inv, [Next]_vars,
                        NEW p \in Tickers, At(p, "submitGet"),
                        task'[p].at = "submitAnswers"
                 PROVE  drafts[User(p)].left <= 0
      OBVIOUS
    <2>1. DraftExists(User(p)) /\ User(p) \in Users
      BY TickerMoves DEF TickersSubmit
    <2>2. Bound(p, User(p))
      BY DEF Bound, At
    <2> QED
      BY <2>1, <2>2 DEF BoundAreDue
  <1> QED
    BY <1>1, <1>2, <1>3, TypeCorrect, DraftsScheduled, PTL DEF Spec, TickerScoresOnlyDue
-----------------------------------------------------------------------------
(***************************************************************************)
(* The score Submit reports (run reported_score).  With a safe lock and    *)
(* nothing failing, it differs from the recorded one only if a paper was   *)
(* issued for an attempt already recorded, on an outdated count.           *)
(***************************************************************************)
\* Papers are issued for attempts that are not recorded yet.
IssuedUnrecorded ==
    \A u \in Users :
        ~DraftExists(u) /\ DraftExists(u)' => drafts'[u].attempt \notin Recorded(u)

\* The draft of a recorded attempt is about to be deleted.
RecordedGoes ==
    \A u \in Users :
        DraftExists(u) /\ drafts[u].attempt \in Recorded(u) =>
            \E p \in Procs : At(p, "delete") /\ User(p) = u

\* The score in hand is not recorded until Insert records it.
ScoreInHand ==
    \A p \in Procs :
        /\ task[p].at \in {"submitAnswers", "insert"} =>
               task[p].attempt \notin Recorded(User(p))
        /\ At(p, "delete") \/ (At(p, "unlock") /\ task[p].outcome = "ok") =>
               /\ task[p].attempt \in Recorded(User(p))
               /\ scores[User(p)][task[p].attempt] = task[p].score

ReportInv == RecordedGoes /\ ScoreInHand

\* Without faults a process only does its own steps.
LEMMA FaultlessSteps ==
    ASSUME Faults = {}, TypeOK, [Next]_vars, NEW p \in Procs, ~At(p, "idle")
    PROVE  Still(p) \/ Step(p)
  BY ProcessSteps
  DEF Begin, BeginExam, BeginAnswer, BeginSubmit, TickerStep, TickerDue, TickerNext,
      Fail, LostReply, Crash, At

\* Without faults the table changes by an Insert that is all there is to the step.
LEMMA FaultlessInsert ==
    ASSUME Faults = {}, TypeOK, [Next]_vars
    PROVE  UNCHANGED scores \/ \E p \in Procs : Insert(p)
  <1> USE DEF OnlyTask
  <1>1. CASE \E p \in Handlers : Begin(p)
    BY <1>1 DEF Begin, BeginExam, BeginAnswer, BeginSubmit
  <1>2. ASSUME NEW p \in Procs, Step(p)
        PROVE  UNCHANGED scores \/ Insert(p)
    BY <1>2 DEF Step, ExamGet, Count, Create, Reget, SaveGet, SaveCheck, Save,
                Lock, SubmitGet, SubmitAnswers, Delete, Unlock
  <1>3. CASE \E p \in Tickers : TickerStep(p)
    BY <1>3 DEF TickerStep, TickerDue, TickerNext
  <1>4. CASE Environment
    BY <1>4 DEF Environment, Tick, Opens, Closes, Crash, Recover,
                LockExpires, Expires, Fail, LostReply
  <1> QED
    BY <1>1, <1>2, <1>3, <1>4 DEF Next, vars

\* A row stays as it is.
LEMMA RowsKept ==
    ASSUME TypeOK, [Next]_vars, NEW u \in Users, NEW a \in Recorded(u)
    PROVE  a \in Recorded(u)' /\ scores'[u][a] = scores[u][a]
  <1>1. CASE UNCHANGED scores
    BY <1>1 DEF Recorded
  <1>2. ASSUME NEW v \in Users, NEW b \in Attempts, NEW s \in Scores, InsertScore(v, b, s)
        PROVE  a \in Recorded(u)' /\ scores'[u][a] = scores[u][a]
    <2>1. CASE b \in Recorded(v) \/ u # v
      BY <1>2, <2>1 DEF InsertScore, TypeOK, ScoresTypeOK, Recorded
    <2>2. CASE b \notin Recorded(v) /\ u = v
      <3>1. scores'[u] = RowsWith(scores[u], b, s)
        BY <1>2, <2>2 DEF InsertScore, TypeOK, ScoresTypeOK
      <3> QED
        BY <2>2, <3>1 DEF RowsWith, Recorded
    <2> QED
      BY <2>1, <2>2
  <1> QED
    BY <1>1, <1>2, ScoreSteps

\* An Insert of an attempt that is not recorded adds exactly that row, and its
\* process goes on to Delete with what it has recorded.
LEMMA InsertAdds ==
    ASSUME TypeOK, NEW p \in Procs, Insert(p), task[p].attempt \notin Recorded(User(p))
    PROVE  /\ User(p) \in Users
           /\ \A x \in {"user", "attempt", "score"} : task'[p][x] = task[p][x]
           /\ task'[p].at = "delete"
           /\ scores'[User(p)] = RowsWith(scores[User(p)], task[p].attempt, task[p].score)
           /\ \A v \in Users \ {User(p)} : scores'[v] = scores[v]
  <1>0. task \in [Procs -> Task] /\ task[p] \in TaskRecord /\ User(p) \in Users
    BY TaskType DEF Insert, At
  <1>1. task'[p] = [task[p] EXCEPT !.at = "delete"]
    BY <1>0 DEF Insert, MoveTo, Become
  <1>2. scores' = [scores EXCEPT ![User(p)] =
                       RowsWith(scores[User(p)], task[p].attempt, task[p].score)]
    BY DEF Insert, InsertScore
  <1>3. scores \in [Users -> Rows]
    BY DEF TypeOK, ScoresTypeOK
  <1> QED
    BY <1>0, <1>1, <1>2, <1>3 DEF TaskRecord

\* Only between Insert and Delete is a stored draft's attempt recorded.
LEMMA RecordedGoesStep ==
    ASSUME Faults = {}, TypeOK, ReportInv, [Next]_vars, [IssuedUnrecorded]_vars
    PROVE  RecordedGoes'
  <1> SUFFICES ASSUME NEW u \in Users, DraftExists(u)', drafts'[u].attempt \in DOMAIN scores'[u]
               PROVE  \E p \in Procs : task'[p].at = "delete" /\ task'[p].user = u
    BY DEF RecordedGoes, Recorded, At, User
  <1>1. ASSUME NEW p \in Procs, Insert(p)
        PROVE  /\ UNCHANGED redisVars
               /\ task[p].attempt \notin Recorded(User(p))
    BY <1>1 DEF Insert, At, ReportInv, ScoreInHand
  <1>2. CASE ~DraftExists(u)
    <2>1. ~UNCHANGED drafts
      BY <1>2 DEF DraftExists
    <2>2. UNCHANGED scores
      BY <1>1, <2>1, FaultlessInsert DEF redisVars
    <2>3. IssuedUnrecorded
      BY <2>1 DEF vars
    <2> QED
      BY <1>2, <2>2, <2>3 DEF IssuedUnrecorded, Recorded
  <1>3. CASE DraftExists(u)
    <2>1. drafts'[u].attempt = drafts[u].attempt
      BY <1>3, DraftStays
    <2>2. CASE drafts[u].attempt \in Recorded(u)
      <3>1. PICK p \in Procs : At(p, "delete") /\ User(p) = u
        BY <1>3, <2>2 DEF ReportInv, RecordedGoes
      <3>2. ~Delete(p)
        BY <3>1 DEF Delete, DeleteDraft, DraftExists, TypeOK, RedisTypeOK
      <3>3. ~Step(p)
        BY <3>1, <3>2 DEF Step, At, ExamGet, Count, Create, Reget, SaveGet, SaveCheck, Save,
                          Lock, SubmitGet, SubmitAnswers, Insert, Unlock
      <3>4. Still(p)
        BY <3>1, <3>3, FaultlessSteps DEF At
      <3> QED
        BY <3>1, <3>4 DEF Still, At, User
    <2>3. CASE drafts[u].attempt \notin Recorded(u)
      <3>1. scores'[u] # scores[u]
        BY <2>1, <2>3 DEF Recorded
      <3>2. PICK p \in Procs : Insert(p)
        BY <3>1, FaultlessInsert
      <3>3. User(p) = u
        BY <1>1, <3>1, <3>2, InsertAdds
      <3> QED
        BY <1>1, <3>2, <3>3, InsertAdds DEF User
    <2> QED
      BY <2>2, <2>3
  <1> QED
    BY <1>2, <1>3

\* What a Submit holds stays unrecorded until its own Insert, for it is alone.
LEMMA ScoreInHandStep ==
    ASSUME Faults = {}, TypeOK, LockInv, ReportInv, [Next]_vars
    PROVE  ScoreInHand'
  <1> SUFFICES ASSUME NEW p \in Procs, NEW u \in Users, u = task'[p].user,
                      task'[p].at \in {"submitAnswers", "insert", "delete", "unlock"}
               PROVE  /\ task'[p].at \in {"submitAnswers", "insert"} =>
                             task'[p].attempt \notin DOMAIN scores'[u]
                      /\ task'[p].at = "delete"
                         \/ (task'[p].at = "unlock" /\ task'[p].outcome = "ok") =>
                             /\ task'[p].attempt \in DOMAIN scores'[u]
                             /\ scores'[u][task'[p].attempt] = task'[p].score
    <2>1. \A p \in Procs : task'[p].at # "idle" => task'[p].user \in Users
      BY TypeStep DEF TypeOK, Task, LocalsSet
    <2> QED
      BY <2>1 DEF ScoreInHand, Recorded, At, User
  <1>0. task \in [Procs -> Task] /\ task[p] \in TaskRecord
    BY TaskType
  <1>1. CASE Still(p)
    <2>1. /\ task'[p].at = task[p].at /\ task[p].user = u
          /\ task'[p].attempt = task[p].attempt /\ task'[p].score = task[p].score
          /\ task'[p].outcome = task[p].outcome
      BY <1>1 DEF Still
    <2>2. ASSUME task[p].at \in {"submitAnswers", "insert"}
          PROVE  task[p].attempt \notin DOMAIN scores'[u]
      <3>1. task[p].attempt \notin Recorded(u)
        BY <2>1, <2>2 DEF ReportInv, ScoreInHand, User
      <3>2. ASSUME NEW q \in Procs, Insert(q) PROVE scores'[u] = scores[u]
        <4>1. task[q].attempt \notin Recorded(User(q))
          BY <3>2 DEF Insert, At, ReportInv, ScoreInHand
        <4>2. q # p
          BY <2>1, <2>2, <3>2, <4>1, InsertAdds
        <4>3. User(q) # u
          BY <2>1, <2>2, <3>2, <4>2
          DEF Insert, At, User, LockInv, SubmitExclusive, CriticalSites
        <4> QED
          BY <3>2, <4>1, <4>3, InsertAdds
      <3> QED
        BY <3>1, <3>2, FaultlessInsert DEF Recorded
    <2>3. ASSUME At(p, "delete") \/ (At(p, "unlock") /\ task[p].outcome = "ok")
          PROVE  /\ task[p].attempt \in DOMAIN scores'[u]
                 /\ scores'[u][task[p].attempt] = task[p].score
      <3>1. task[p].attempt \in Recorded(u) /\ scores[u][task[p].attempt] = task[p].score
        BY <2>1, <2>3 DEF ReportInv, ScoreInHand, User
      <3>2. task[p].attempt \in Recorded(u)'
            /\ scores'[u][task[p].attempt] = scores[u][task[p].attempt]
        BY <3>1, RowsKept
      <3> QED
        BY <3>1, <3>2 DEF Recorded
    <2> QED
      BY <2>1, <2>2, <2>3 DEF At
  <1>2. CASE SubmitGet(p)
    <2>1. At(p, "submitGet") /\ UNCHANGED scores
      BY <1>2 DEF SubmitGet, OnlyTask
    <2>2. CASE ~DraftExists(User(p))
      <3>1. task'[p].at = "unlock" /\ task'[p].outcome = "noDraft"
        <4>1. task'[p] = [Idle EXCEPT !.at = "unlock", !.user = User(p), !.outcome = "noDraft"]
          BY <1>0, <1>2, <2>2 DEF SubmitGet, Abandon, Become
        <4> QED
          BY <4>1 DEF Idle
      <3> QED
        BY <3>1
    <2>3. CASE DraftExists(User(p))
      <3>1. /\ task'[p].at = "submitAnswers" /\ task'[p].user = User(p)
            /\ task'[p].attempt = drafts[User(p)].attempt
        BY <1>0, <1>2, <2>3 DEF SubmitGet, Become, TaskRecord, User
      <3>2. \A q \in Procs : ~(At(q, "delete") /\ User(q) = User(p))
        BY <2>1 DEF LockInv, SubmitExclusive, At, CriticalSites
      <3>3. drafts[User(p)].attempt \notin Recorded(User(p))
        BY <2>3, <3>1, <3>2 DEF ReportInv, RecordedGoes
      <3> QED
        BY <2>1, <3>1, <3>3 DEF Recorded
    <2> QED
      BY <2>2, <2>3
  <1>3. CASE SubmitAnswers(p)
    <2>1. At(p, "submitAnswers") /\ UNCHANGED scores
      BY <1>3 DEF SubmitAnswers, OnlyTask
    <2>2. /\ task'[p].at = "insert" /\ task'[p].user = User(p)
          /\ task'[p].attempt = task[p].attempt
      BY <1>0, <1>3 DEF SubmitAnswers, Become, TaskRecord, User
    <2> QED
      BY <2>1, <2>2 DEF ReportInv, ScoreInHand, At, Recorded
  <1>4. CASE Insert(p)
    <2>1. task[p].attempt \notin Recorded(User(p))
      BY <1>4 DEF Insert, At, ReportInv, ScoreInHand
    <2>2. /\ User(p) = u /\ task'[p].at = "delete"
          /\ task'[p].attempt = task[p].attempt /\ task'[p].score = task[p].score
          /\ scores'[u] = RowsWith(scores[u], task[p].attempt, task[p].score)
      BY <1>4, <2>1, InsertAdds DEF User
    <2>3. PICK a, sc : a = task[p].attempt /\ sc = task[p].score
      OBVIOUS
    <2>4. a \in DOMAIN RowsWith(scores[u], a, sc) /\ RowsWith(scores[u], a, sc)[a] = sc
      BY DEF RowsWith
    <2> QED
      BY <2>2, <2>3, <2>4
  <1>5. CASE Delete(p)
    <2>1. At(p, "delete") /\ UNCHANGED scores
      BY <1>5 DEF Delete
    <2>2. /\ task'[p].at = "unlock" /\ task'[p].user = User(p)
          /\ task'[p].attempt = task[p].attempt /\ task'[p].score = task[p].score
      BY <1>0, <1>5 DEF Delete, Become, TaskRecord, User
    <2> QED
      BY <2>1, <2>2 DEF ReportInv, ScoreInHand, Recorded
  <1>6. ASSUME \/ ExamGet(p) \/ Count(p) \/ Create(p) \/ Reget(p)
               \/ SaveGet(p) \/ SaveCheck(p) \/ Save(p) \/ Lock(p) \/ Unlock(p)
        PROVE  FALSE
    <2>1. task'[p].at \in {"idle", "count", "lock", "create", "reget", "saveCheck", "save",
                           "submitGet"}
      <3>1. ASSUME Return(p) PROVE task'[p].at = "idle"
        BY <1>0, <3>1 DEF Return, Become, Idle
      <3>2. ASSUME NEW site, MoveTo(p, site) PROVE task'[p].at = site
        BY <1>0, <3>2 DEF MoveTo, Become, TaskRecord
      <3>3. CASE ExamGet(p)
        <4>1. \/ Return(p) \/ MoveTo(p, "count")
              \/ Become(p, [Idle EXCEPT !.at = "lock", !.user = User(p)])
          BY <3>3 DEF ExamGet
        <4> QED
          BY <1>0, <3>1, <3>2, <4>1 DEF Become, Idle
      <3>4. CASE Count(p)
        <4>1. Return(p) \/ \E S \in PickPaper :
                  Become(p, [task[p] EXCEPT !.at = "create",
                                            !.attempt = CountAttempts(User(p)) + 1,
                                            !.paper = S])
          BY <3>4 DEF Count
        <4> QED
          BY <1>0, <3>1, <4>1 DEF Become, TaskRecord
      <3>5. CASE Create(p) \/ Reget(p)
        BY <1>0, <3>1, <3>5 DEF Create, Reget, Become, Idle
      <3>6. CASE SaveGet(p)
        BY <1>0, <3>1, <3>6 DEF SaveGet, Become, TaskRecord
      <3>7. CASE SaveCheck(p) \/ Save(p)
        BY <1>0, <3>1, <3>7 DEF SaveCheck, Save, Become, TaskRecord
      <3>8. CASE Lock(p) \/ Unlock(p)
        BY <3>1, <3>2, <3>8 DEF Lock, Unlock
      <3> QED
        BY <1>6, <3>3, <3>4, <3>5, <3>6, <3>7, <3>8
    <2> QED
      BY <2>1
  <1>7. CASE At(p, "idle")
    <2>1. \/ Still(p) \/ (p \in Handlers /\ Begin(p)) \/ (p \in Tickers /\ TickerStep(p))
          \/ Step(p)
      BY ProcessSteps DEF Fail, LostReply, Crash
    <2>2. ASSUME Begin(p) PROVE FALSE
      <3>1. task'[p].at \in {"examGet", "saveGet", "lock"}
        BY <1>0, <2>2, IdleType
        DEF Begin, BeginExam, BeginAnswer, BeginSubmit, Become, Idle
      <3> QED
        BY <3>1
    <2>3. ASSUME TickerStep(p) PROVE FALSE
      <3>1. task'[p].at \in {"idle", "lock"}
        BY <1>0, <1>7, <2>3 DEF TickerStep, TickerDue, TickerNext, Become, Idle, At
      <3> QED
        BY <3>1
    <2> QED
      BY <1>1, <1>2, <1>3, <1>4, <1>5, <1>6, <2>1, <2>2, <2>3 DEF Step
  <1>8. CASE ~At(p, "idle")
    BY <1>1, <1>2, <1>3, <1>4, <1>5, <1>6, <1>8, FaultlessSteps DEF Step
  <1> QED
    BY <1>7, <1>8

\* If nothing fails and the lock outlasts every Submit, the score Submit returns
\* is the one recorded, provided no paper is issued for an attempt that is
\* recorded by then: the outdated count is the only cause of run reported_score
\* (ReportedScoreRecorded; Submit, which ignores whether a row was added).
THEOREM ReportedUnlessReissued ==
    ASSUME LeaseCoversSubmit, Faults = {}
    PROVE  Spec /\ [][IssuedUnrecorded]_vars => []ReportedScoreRecorded
  <1>0. SafeLock
    BY DEF SafeLock
  <1>1. Init => ReportInv
    BY DEF Init, RedisInit, ReportInv, RecordedGoes, ScoreInHand, DraftExists, Idle, At
  <1>2. TypeOK /\ LockInv /\ ReportInv /\ [Next]_vars /\ [IssuedUnrecorded]_vars => ReportInv'
    BY RecordedGoesStep, ScoreInHandStep DEF ReportInv
  <1>3. ReportInv => ReportedScoreRecorded
    BY DEF ReportInv, ScoreInHand, ReportedScoreRecorded
  <1>4. Spec => []LockInv
    BY <1>0, LockInvariant
  <1> QED
    BY <1>1, <1>2, <1>3, <1>4, TypeCorrect, PTL DEF Spec
=============================================================================
