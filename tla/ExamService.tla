----------------------------- MODULE ExamService -----------------------------
(***************************************************************************)
(* The exam service (internal/exam/service.go) as its callers run it: HTTP *)
(* handlers serving GET /api/exam, POST /api/answer and POST /api/submit,  *)
(* and the background ticker of cmd/server that submits overdue papers.    *)
(*                                                                         *)
(* Every process works through the calls of its method one at a time; each *)
(* call to Redis or PostgreSQL is one atomic step, and the steps of        *)
(* different processes interleave freely, for one user as well: a student  *)
(* may have several tabs open, and the ticker needs no request at all.     *)
(***************************************************************************)
EXTENDS RedisDrafts, ScoreTable

CONSTANTS
    Handlers,           \* HTTP requests that can be served at one time
    Tickers,            \* the auto-submit goroutine
    Faults,             \* a subset of {"crash", "error", "lostReply"}
    OutagesEnd,         \* there may be a time from which nothing fails
    LeaseCoversSubmit,  \* a lock never lapses under a Submit still running
    OpenAtSet,          \* the contest has an opening time
    CloseAtSet          \* the contest has a closing time

ASSUME ProcessAssumption ==
    /\ Handlers \intersect Tickers = {}
    /\ Faults \subseteq {"crash", "error", "lostReply"}
    /\ {OutagesEnd, LeaseCoversSubmit, OpenAtSet, CloseAtSet} \subseteq BOOLEAN

VARIABLES
    window,     \* where the clock stands relative to OpenAt and CloseAt
    task,       \* what each process is doing, and its local variables
    queue,      \* the users a ProcessDue has read from Due and not reached
    healthy     \* the outages and crashes are over

vars == <<drafts, answers, answersTTL, deadlines, locks, scores,
          window, task, queue, healthy>>

Procs == Handlers \union Tickers

Sites == {"idle", "examGet", "count", "create", "reget",
          "saveGet", "saveCheck", "save",
          "lock", "submitGet", "submitAnswers", "insert", "delete", "unlock"}

\* The calls between LockSubmit and the deferred UnlockSubmit.
CriticalSites == {"submitGet", "submitAnswers", "insert", "delete", "unlock"}

Outcomes == {"none", "ok", "noDraft", "error"}

TaskRecord == [at: Sites,
               user: Users \union {Nil},
               attempt: Attempts \union {0},
               paper: SUBSET Questions,
               left: Timer,
               question: Questions \union {Nil},
               choice: Choices \union {Nil},
               score: Scores,
               outcome: Outcomes]

\* The locals that are set where the process stands.
LocalsSet(t) ==
    /\ t.at # "idle" => t.user \in Users
    /\ t.at \in {"saveGet", "saveCheck", "save"} =>
          t.question \in Questions /\ t.choice \in Choices
    /\ t.at \in {"create", "submitAnswers", "insert", "delete"} =>
          t.attempt \in Attempts
    /\ t.at = "save" => t.left >= 0

Task == {t \in TaskRecord : LocalsSet(t)}

\* A process between two requests.  A local variable that is no longer read
\* has the value it has here.
Idle == [at |-> "idle", user |-> Nil, attempt |-> 0, paper |-> {}, left |-> -1,
         question |-> Nil, choice |-> Nil, score |-> 0, outcome |-> "none"]

TypeOK ==
    /\ RedisTypeOK
    /\ ScoresTypeOK
    /\ window \in {"before", "open", "closed"}
    /\ task \in [Procs -> Task]
    /\ queue \in [Tickers -> SUBSET Users]
    /\ healthy \in BOOLEAN

Init ==
    /\ RedisInit
    /\ ScoresInit
    /\ window = IF OpenAtSet THEN "before" ELSE "open"
    /\ task = [p \in Procs |-> Idle]
    /\ queue = [t \in Tickers |-> {}]
    /\ healthy = (Faults = {})

-----------------------------------------------------------------------------
User(p) == task[p].user

At(p, site) == task[p].at = site

Become(p, t) == task' = [task EXCEPT ![p] = t]

MoveTo(p, site) == Become(p, [task[p] EXCEPT !.at = site])

\* The method returns and its caller is done with the request.
Return(p) == Become(p, Idle)

\* Submit returns in the middle, through its deferred UnlockSubmit.
Abandon(p, outcome) ==
    Become(p, [Idle EXCEPT !.at = "unlock", !.user = User(p), !.outcome = outcome])

\* An error out of Submit also ends the ProcessDue that called it.
AbortBatch(p) ==
    queue' = IF p \in Tickers THEN [queue EXCEPT ![p] = {}] ELSE queue

OnlyTask == UNCHANGED <<redisVars, scores, window, queue, healthy>>

-----------------------------------------------------------------------------
(***************************************************************************)
(* GetOrCreatePaper.  now is read once, at the start: it opens or closes   *)
(* the gate, and the deadline of a new paper counts from it.               *)
(***************************************************************************)
IsOpen == window = "open"

BeginExam(p, u) ==
    /\ At(p, "idle")
    /\ IsOpen
    /\ Become(p, [Idle EXCEPT !.at = "examGet", !.user = u, !.left = Deadline])
    /\ OnlyTask

\* A draft found is returned, or submitted when its deadline lies before
\* now.  A request that began some ticks ago (left < Deadline) compares an
\* old now, so it may still take an overdue draft for a live one.
ExamGet(p) ==
    /\ At(p, "examGet")
    /\ \/ /\ ~DraftExists(User(p))
          /\ MoveTo(p, "count")
       \/ /\ DraftExists(User(p))
          /\ drafts[User(p)].left >= 0 \/ task[p].left < Deadline
          /\ Return(p)
       \/ /\ DraftExists(User(p))
          /\ drafts[User(p)].left < 0
          /\ Become(p, [Idle EXCEPT !.at = "lock", !.user = User(p)])
    /\ OnlyTask

\* Mutant: the limit is compared with > instead of >=.
CountOffByOne(p) ==
    /\ At(p, "count")
    /\ IF CountAttempts(User(p)) > MaxTries
       THEN Return(p)
       ELSE \E S \in PickPaper :
                Become(p, [task[p] EXCEPT !.at = "create",
                                          !.attempt = CountAttempts(User(p)) + 1,
                                          !.paper = S])
    /\ OnlyTask

\* Mutant: the draft at hand is counted among the recorded attempts.
CountTwoAhead(p) ==
    /\ At(p, "count")
    /\ IF CountAttempts(User(p)) + 1 >= MaxTries
       THEN Return(p)
       ELSE \E S \in PickPaper :
                Become(p, [task[p] EXCEPT !.at = "create",
                                          !.attempt = CountAttempts(User(p)) + 2,
                                          !.paper = S])
    /\ OnlyTask

\* CountAttempts, the limit on tries, and the paper drawn for the next one.
Count(p) ==
    /\ At(p, "count")
    /\ IF CountAttempts(User(p)) >= MaxTries
       THEN Return(p)
       ELSE \E S \in PickPaper :
                Become(p, [task[p] EXCEPT !.at = "create",
                                          !.attempt = CountAttempts(User(p)) + 1,
                                          !.paper = S])
    /\ OnlyTask

NewDraft(p) == [attempt |-> task[p].attempt,
                paper |-> task[p].paper,
                left |-> task[p].left]

\* p.Deadline.Sub(now) + DraftTTL, with the now the deadline was counted from.
PaperTTL == Deadline + DraftTTL

\* The new draft is stored, unless another request stored one first.
Create(p) ==
    /\ At(p, "create")
    /\ CreateScript(User(p), NewDraft(p), PaperTTL)
    /\ IF DraftExists(User(p))
       THEN Become(p, [Idle EXCEPT !.at = "reget", !.user = User(p)])
       ELSE Return(p)
    /\ UNCHANGED <<scores, window, queue, healthy>>

\* The other request's draft is read and returned, if it is still there;
\* neither reply touches any state.
Reget(p) ==
    /\ At(p, "reget")
    /\ Return(p)
    /\ OnlyTask

-----------------------------------------------------------------------------
(***************************************************************************)
(* SaveAnswer.  The draft is read, the deadline and the question checked   *)
(* against that copy, and only then is the answer written.                 *)
(***************************************************************************)
BeginAnswer(p, u, q, c) ==
    /\ At(p, "idle")
    /\ Become(p, [Idle EXCEPT !.at = "saveGet", !.user = u,
                              !.question = q, !.choice = c])
    /\ OnlyTask

SaveGet(p) ==
    /\ At(p, "saveGet")
    /\ IF DraftExists(User(p))
       THEN Become(p, [task[p] EXCEPT !.at = "saveCheck",
                                      !.paper = drafts[User(p)].paper,
                                      !.left = drafts[User(p)].left])
       ELSE Return(p)
    /\ OnlyTask

\* Strictly after the deadline is late; the question must be on the paper.
\* The time left now, of the paper read then, is what the TTL is made of.
SaveCheck(p) ==
    /\ At(p, "saveCheck")
    /\ IF task[p].left >= 0 /\ task[p].question \in task[p].paper
       THEN Become(p, [task[p] EXCEPT !.at = "save", !.paper = {}])
       ELSE Return(p)
    /\ OnlyTask

SaveTTL(p) == task[p].left + DraftTTL

Save(p) ==
    /\ At(p, "save")
    /\ WriteAnswer(User(p), task[p].question, task[p].choice, SaveTTL(p))
    /\ Return(p)
    /\ UNCHANGED <<scores, window, queue, healthy>>

-----------------------------------------------------------------------------
(***************************************************************************)
(* Submit, called by a handler, by GetOrCreatePaper and by ProcessDue.     *)
(***************************************************************************)
BeginSubmit(p, u) ==
    /\ At(p, "idle")
    /\ Become(p, [Idle EXCEPT !.at = "lock", !.user = u])
    /\ OnlyTask

Lock(p) ==
    /\ At(p, "lock")
    /\ \E acquired \in BOOLEAN :
          /\ AcquireLock(User(p), acquired)
          /\ IF acquired THEN MoveTo(p, "submitGet") ELSE Return(p)
    /\ UNCHANGED <<scores, window, queue, healthy>>

\* Get is two HGETALLs: first the draft ...
SubmitGet(p) ==
    /\ At(p, "submitGet")
    /\ IF DraftExists(User(p))
       THEN Become(p, [task[p] EXCEPT !.at = "submitAnswers",
                                      !.attempt = drafts[User(p)].attempt,
                                      !.paper = drafts[User(p)].paper])
       ELSE Abandon(p, "noDraft")
    /\ OnlyTask

\* ... then its answers.  The score is computed from the two.
SubmitAnswers(p) ==
    /\ At(p, "submitAnswers")
    /\ Become(p, [task[p] EXCEPT
                    !.at = "insert",
                    !.paper = {},
                    !.score = CalculateScore(task[p].paper, answers[User(p)])])
    /\ OnlyTask

Insert(p) ==
    /\ At(p, "insert")
    /\ InsertScore(User(p), task[p].attempt, task[p].score)
    /\ MoveTo(p, "delete")
    /\ UNCHANGED <<redisVars, window, queue, healthy>>

Delete(p) ==
    /\ At(p, "delete")
    /\ DeleteDraft(User(p))
    /\ Become(p, [task[p] EXCEPT !.at = "unlock", !.outcome = "ok"])
    /\ UNCHANGED <<scores, window, queue, healthy>>

\* The deferred UnlockSubmit, then the return to the caller.
Unlock(p) ==
    /\ At(p, "unlock")
    /\ ReleaseLock(User(p))
    /\ Return(p)
    /\ IF task[p].outcome = "error" THEN AbortBatch(p) ELSE UNCHANGED queue
    /\ UNCHANGED <<scores, window, healthy>>

-----------------------------------------------------------------------------
(***************************************************************************)
(* ProcessDue, which the ticker calls again and again.                     *)
(***************************************************************************)
\* Mutant: the batch is only read while the contest is open.
TickerDueWhileOpen(p) ==
    /\ At(p, "idle")
    /\ IsOpen
    /\ queue[p] = {}
    /\ DueUsers # {}
    /\ queue' = [queue EXCEPT ![p] = DueUsers]
    /\ UNCHANGED <<redisVars, scores, window, task, healthy>>

TickerDue(p) ==
    /\ At(p, "idle")
    /\ queue[p] = {}
    /\ DueUsers # {}
    /\ queue' = [queue EXCEPT ![p] = DueUsers]
    /\ UNCHANGED <<redisVars, scores, window, task, healthy>>

\* The users of the batch are submitted one after the other; the order Due
\* gives them in is left open.
TickerNext(p, u) ==
    /\ At(p, "idle")
    /\ u \in queue[p]
    /\ queue' = [queue EXCEPT ![p] = @ \ {u}]
    /\ Become(p, [Idle EXCEPT !.at = "lock", !.user = u])
    /\ UNCHANGED <<redisVars, scores, window, healthy>>

-----------------------------------------------------------------------------
(***************************************************************************)
(* What the world does: time passes, keys lapse, calls fail, replies get   *)
(* lost and the server process dies.                                       *)
(***************************************************************************)
Submitting(u) == {p \in Procs : User(p) = u /\ task[p].at \in CriticalSites}

\* Clock readings age.  The TTL of a save is a duration and does not.
Tick ==
    /\ RedisTick
    /\ task' = [p \in Procs |->
           IF At(p, "save") THEN task[p]
           ELSE [task[p] EXCEPT !.left = TimerElapsed(@)]]
    /\ UNCHANGED <<scores, window, queue, healthy>>

Opens ==
    /\ window = "before"
    /\ window' = "open"
    /\ UNCHANGED <<redisVars, scores, task, queue, healthy>>

Closes ==
    /\ CloseAtSet
    /\ window = "open"
    /\ window' = "closed"
    /\ UNCHANGED <<redisVars, scores, task, queue, healthy>>

\* Mutant: the lock is set without a TTL, so only its holder removes it.
LockNeverExpires(u) ==
    /\ locks[u]
    /\ FALSE
    /\ UNCHANGED vars

\* The TTL of the lock, 10 seconds from LockSubmit, runs out.
LockExpires(u) ==
    /\ locks[u]
    /\ LeaseCoversSubmit => Submitting(u) = {}
    /\ ReleaseLock(u)
    /\ UNCHANGED <<scores, window, task, queue, healthy>>

Expires(u) ==
    /\ ExpireDraft(u) \/ ExpireAnswers(u)
    /\ UNCHANGED <<scores, window, task, queue, healthy>>

\* Mutant: a failed Insert is logged and the draft deleted all the same.
FailInsertIgnored(p) ==
    /\ "error" \in Faults
    /\ ~healthy
    /\ ~At(p, "idle")
    /\ CASE At(p, "insert") ->
              MoveTo(p, "delete") /\ UNCHANGED queue
         [] task[p].at \in CriticalSites \ {"insert", "unlock"} ->
              Abandon(p, "error") /\ UNCHANGED queue
         [] At(p, "lock") \/ (At(p, "unlock") /\ task[p].outcome = "error") ->
              Return(p) /\ AbortBatch(p)
         [] OTHER ->
              Return(p) /\ UNCHANGED queue
    /\ UNCHANGED <<redisVars, scores, window, healthy>>

\* The call at hand fails without effect: the store is unreachable, or the
\* request's context was cancelled.  Every error ends the method; inside
\* Submit the deferred unlock still runs, and its own error is ignored.
Fail(p) ==
    /\ "error" \in Faults
    /\ ~healthy
    /\ ~At(p, "idle")
    /\ CASE task[p].at \in CriticalSites \ {"unlock"} ->
              Abandon(p, "error") /\ UNCHANGED queue
         [] At(p, "lock") \/ (At(p, "unlock") /\ task[p].outcome = "error") ->
              Return(p) /\ AbortBatch(p)
         [] OTHER ->
              Return(p) /\ UNCHANGED queue
    /\ UNCHANGED <<redisVars, scores, window, healthy>>

\* A command takes effect but its reply never arrives.  The Redis client
\* then repeats it (the normal step) or gives up (Fail): the process has
\* not moved.  An Insert is not repeated.
LostReply(p) ==
    /\ "lostReply" \in Faults
    /\ ~healthy
    /\ \/ /\ At(p, "create")
          /\ CreateScript(User(p), NewDraft(p), PaperTTL)
          /\ UNCHANGED <<scores, task>>
       \/ /\ At(p, "save")
          /\ WriteAnswer(User(p), task[p].question, task[p].choice, SaveTTL(p))
          /\ UNCHANGED <<scores, task>>
       \/ /\ At(p, "lock")
          /\ AcquireLock(User(p), TRUE)
          /\ UNCHANGED <<scores, task>>
       \/ /\ At(p, "insert")
          /\ InsertScore(User(p), task[p].attempt, task[p].score)
          /\ Abandon(p, "error")
          /\ UNCHANGED redisVars
       \/ /\ At(p, "delete")
          /\ DeleteDraft(User(p))
          /\ UNCHANGED <<scores, task>>
       \/ /\ At(p, "unlock")
          /\ ReleaseLock(User(p))
          /\ UNCHANGED <<scores, task>>
    /\ UNCHANGED <<window, queue, healthy>>

\* The server process dies and is restarted; Redis and PostgreSQL keep
\* what they have, the lock of a Submit under way included.
Crash ==
    /\ "crash" \in Faults
    /\ ~healthy
    /\ task' = [p \in Procs |-> Idle]
    /\ queue' = [t \in Tickers |-> {}]
    /\ UNCHANGED <<redisVars, scores, window, healthy>>

\* From here on nothing fails any more.
Recover ==
    /\ OutagesEnd
    /\ ~healthy
    /\ healthy' = TRUE
    /\ UNCHANGED <<redisVars, scores, window, task, queue>>

-----------------------------------------------------------------------------
Begin(p) ==
    \E u \in Users :
        \/ BeginExam(p, u)
        \/ \E q \in Questions, c \in Choices : BeginAnswer(p, u, q, c)
        \/ BeginSubmit(p, u)

\* The steps of a method once it has begun, when nothing fails.
Step(p) ==
    \/ ExamGet(p) \/ Count(p) \/ Create(p) \/ Reget(p)
    \/ SaveGet(p) \/ SaveCheck(p) \/ Save(p)
    \/ Lock(p) \/ SubmitGet(p) \/ SubmitAnswers(p)
    \/ Insert(p) \/ Delete(p) \/ Unlock(p)

TickerStep(p) == TickerDue(p) \/ \E u \in Users : TickerNext(p, u)

Environment ==
    \/ Tick
    \/ Opens
    \/ Closes
    \/ \E u \in Users : LockExpires(u) \/ Expires(u)
    \/ \E p \in Procs : Fail(p) \/ LostReply(p)
    \/ Crash
    \/ Recover

Next ==
    \/ \E p \in Handlers : Begin(p)
    \/ \E p \in Procs : Step(p)
    \/ \E p \in Tickers : TickerStep(p)
    \/ Environment

Spec == Init /\ [][Next]_vars

\* The clock runs, locks have a TTL, every goroutine is scheduled and every
\* call returns, the ticker fires every two seconds, and outages end where
\* OutagesEnd says so.  Students are free to do nothing.
Fairness ==
    /\ WF_vars(Tick)
    /\ WF_vars(Recover)
    /\ \A u \in Users : WF_vars(LockExpires(u))
    /\ \A p \in Procs : WF_vars(Step(p))
    /\ \A p \in Tickers : WF_vars(TickerStep(p))

FairSpec == Spec /\ Fairness

-----------------------------------------------------------------------------
(***************************************************************************)
(* Safety.                                                                 *)
(***************************************************************************)

\* The attempts recorded for a user are numbered 1, 2, ... without a gap and
\* without exceeding MaxTries, although the number is read (CountAttempts)
\* several calls before it is written (Insert) and requests run side by side.
AttemptsContiguous ==
    \A u \in Users : \E k \in 0 .. MaxTries : Recorded(u) = 1 .. k

NextAttempt(u) == CountAttempts(u) + 1

\* No paper, stored or still in the hands of a request, is for an attempt
\* beyond the next one to be recorded: what was counted may be outdated when
\* it is used, but only ever too small.
AttemptsInOrder ==
    /\ \A u \in Users : DraftExists(u) => drafts[u].attempt <= NextAttempt(u)
    /\ \A p \in Procs :
          task[p].at \in {"create", "submitAnswers", "insert"} =>
              task[p].attempt <= NextAttempt(User(p))

\* Every stored draft is in the sorted set under its own deadline, so the
\* ticker finds it: the draft and its place in the set are created, deleted
\* and outlived by different commands.
EveryDraftScheduled ==
    \A u \in Users : DraftExists(u) => deadlines[u] = drafts[u].left

\* The results table is the abstract ledger: whatever happens to drafts,
\* locks and requests, a user's results only grow at the end, one at a time.
Ledger == INSTANCE ScoreLedger WITH ledger <- scores

LedgerSpec == Ledger!Spec

\* A draft that stays keeps its attempt, its questions and its deadline, and
\* until the deadline no answer stored for it is erased, whoever else asks
\* for a paper or saves an answer to the previous one at the same time: what
\* a student resumes is what was left.  A late save brings the TTL of an old
\* paper, so this needs a DraftTTL of Deadline at least.
ResumeKeepsPaper ==
    [][\A u \in Users :
          DraftExists(u) /\ DraftExists(u)' =>
              /\ drafts[u].attempt = drafts'[u].attempt
              /\ drafts[u].paper = drafts'[u].paper
              /\ drafts'[u].left <= drafts[u].left
              /\ drafts[u].left >= 0 =>
                    \A q \in Questions :
                        answers[u][q] # Nil => answers'[u][q] # Nil]_vars

\* Between LockSubmit and UnlockSubmit a Submit is alone with its user's
\* draft.  The lock carries no owner, so this needs a lock that never lapses
\* under its holder and commands that are not repeated.
SubmitExclusive ==
    \A p, q \in Procs :
        task[p].at \in CriticalSites /\ task[q].at \in CriticalSites
          /\ User(p) = User(q) => p = q

\* The answers a Submit reads, after the draft and in a call of its own, are
\* those of the paper it has read: the two HGETALLs of Get are not torn apart
\* by a Delete and a Create in between.
CopyIsOfOnePaper ==
    [][\A p \in Procs :
          At(p, "submitAnswers") /\ task'[p].at = "insert" =>
              /\ DraftExists(User(p))
              /\ drafts[User(p)].attempt = task[p].attempt]_vars

\* A draft leaves the store only once its attempt has a recorded score,
\* though Delete goes by user name and knows nothing of attempts.
DraftRemovedOnlyWhenScored ==
    [][\A u \in Users :
          DraftExists(u) /\ ~DraftExists(u)' =>
              drafts[u].attempt \in Recorded(u)]_vars

\* A score Submit returns as the result of the attempt is the score that is
\* recorded for it.
ReportedScoreRecorded ==
    \A p \in Procs :
        At(p, "unlock") /\ task[p].outcome = "ok" =>
            /\ task[p].attempt \in Recorded(User(p))
            /\ scores[User(p)][task[p].attempt] = task[p].score

\* The ticker hands in a paper only when its time is up: between reading the
\* users that are due and submitting one of them, that user may have handed
\* the paper in and started the next.
TickerScoresOnlyDue ==
    [][\A p \in Tickers :
          At(p, "submitGet") /\ task'[p].at = "submitAnswers" =>
              drafts[User(p)].left <= 0]_vars

-----------------------------------------------------------------------------
(***************************************************************************)
(* Liveness, under FairSpec.                                               *)
(***************************************************************************)

\* A paper that was issued is scored in the end, whether its student comes
\* back or not, and through crashes and outages that end.
EveryPaperScored ==
    \A u \in Users, a \in Attempts :
        (DraftExists(u) /\ drafts[u].attempt = a) ~> (a \in Recorded(u))

\* After the contest closes the drafts die out for good: requests that were
\* let in earlier cannot keep putting new ones down forever.
CloseSettles ==
    [](window = "closed" => <>[](\A u \in Users : ~DraftExists(u)))
=============================================================================
