# contest-go: a TLA+ model of the contest service

contest-go runs an online quiz. A student logs in through CAS, asks for a paper
(`GET /api/exam`), saves one answer at a time (`POST /api/answer`) and hands the
paper in (`POST /api/submit`). Papers being worked on ("drafts") live in Redis,
final scores in PostgreSQL, and a goroutine of the server hands in overdue papers
every two seconds. No transaction spans the two databases, no lock covers the
creation of a paper or the saving of an answer, and one user can have any number
of requests under way. This project models what that leads to.

## 1. The parts of the system

| part (source) | state it keeps | operations | correct when |
|---|---|---|---|
| exam service (`internal/exam/service.go`) | none of its own; locals of running methods | `GetOrCreatePaper`, `SaveAnswer`, `Submit`, `ProcessDue`, `History` | attempts are recorded once each, in order, at most `MaxTries`; a resumed paper is the one left; every issued paper is scored; a paper is deleted only once scored |
| Redis draft store (`internal/store/redis_draft.go`) | hashes `draft:<u>`, `draft:<u>:answers`, sorted set `deadlines`, key `submit_lock:<u>`, TTLs | create script, `Get` (two `HGETALL`), `SaveAnswer`, `Delete`, `Due`, `LockSubmit`, `UnlockSubmit` | an existing draft is never replaced; draft and sorted set agree |
| score table (`internal/store/pg_scores.go`) | rows keyed `(username, attempt_no)` | `CountAttempts`, `Insert` (`ON CONFLICT DO NOTHING`), `List` | results only grow, at the end |
| domain model (`internal/model/model.go`) | papers, bank | `PickPaper`, `Clone`, `MaxScore` | quotas met, no question twice |
| scoring (`internal/exam/scoring.go`) | none | `CalculateScore`, `sameChoiceSet` | set equality with the key, weight per category |
| ticker and life cycle (`cmd/server/main.go`) | the goroutine and its batch | `ProcessDue(ctx, 100)` every 2 s, shutdown | every overdue paper is reached in the end |
| HTTP API (`internal/httpapi/server.go`) | none | routes, status mapping, CSRF, sessions | an acknowledged request has had its effect |
| contest page (`web/static/js/contest.js`) | pending answers, in-flight saves, countdown | debounced save, retry, automatic hand-in | what the student chose last is what is scored |
| bank loader (`internal/bank/load.go`) | none | parse and validate the bank | every accepted bank can be drawn from and scored |
| in-memory stores (`internal/store/memory.go`) | maps under a mutex | the two store interfaces | call by call the same as Redis and PostgreSQL, except where a difference is named |
| session cookies (`internal/auth/session.go`) | none (signed tokens) | issue, verify | a token lives until its expiry |
| CAS client (`internal/cas/client.go`) | none | ticket validation | a login is what CAS answered |
| configuration (`internal/config/config.go`) | none | environment | limits are sane |
| pages and assets (`internal/httpapi/frontend.go`, other scripts) | none | templates, caching | I/O only |

How they interact: handlers and ticker call the exam service; the exam service
calls the two stores, one call at a time, each atomic on its own. Handlers run
concurrently with each other and with the ticker. The page calls the API and
retries. What is hard:

* **stale reads**: the number of a new attempt is counted several calls before it
  is used; `Submit` scores a copy of the draft; `SaveAnswer` checks a copy.
* **locks with a TTL and no owner**: `SETNX` with 10 seconds, released by a plain `DEL`.
* **partial failure and crashes** between `Insert` (PostgreSQL) and `Delete` (Redis),
  or between the lock and its deferred release; contexts cancelled by clients.
* **overlapping requests of one page**: several saves of one question under way, out of
  order, lost or refused, while the student goes on changing answers and handing in.
* **three places with rules of their own**: the bank's validation, the check of an answer
  and its scoring must agree for every file a teacher may write.
* **repeated commands**: the Redis client resends a command whose reply was lost.
* **expiry** of drafts and answers, not of the members of the sorted set.
* **progress**: everything a student leaves behind must be scored by the ticker alone.

`PROJECT.json` lists the hazards one by one, each at its line, with the properties
that would catch it going wrong.

## 2. The modules

```
ContestModel          data: users, bank, papers, timers        model.go, scoring.go
  RedisDrafts         one operator per Redis command           redis_draft.go
  ScoreTable          the rows of the scores table             pg_scores.go
    ExamService       the methods and their interleavings      service.go, main.go, server.go
      MCExamService   constants for TLC
      ExamServiceProofs   theorems
        ExamCauseProofs   theorems: the only causes of two findings
AutoSubmit            the queue of deadlines, many users       service.go, redis_draft.go, main.go
  AutoSubmitProofs    theorems
ScoreLedger           abstract specification of the results
ContestPage           one page against the service             contest.js, service.go, server.go
  ContestPageProofs   theorems
QuestionBank          loading, drawing, answering, scoring     load.go, model.go, scoring.go
  MemoryStores        one operator per method                  memory.go
    MemoryContest     the program with USE_MEMORY_STORE=1      service.go, main.go
      MCMemoryContest constants for TLC
      MemoryContestProofs  theorems: the bank, the papers, the stores
        MemoryScoreProofs  theorems: scores and types
OperatorLemmas        facts about operators of the community modules
```

**ContestModel.** A question is answered with one member of `Choices` (in the code a
set of choice ids that is only ever compared with the set of right ones); `Key` is
the member that scores. A deadline is kept as the ticks left until it, from
`Deadline` down to 0, the instant of the deadline, and -1, any time after. The code
distinguishes these: `Due` returns a user at 0 (`score <= now`), `SaveAnswer` and
`GetOrCreatePaper` refuse only at -1 (`now.After(deadline)`).

**RedisDrafts.** `drafts`, `answers`, `deadlines` and `locks` are the four kinds of
keys. `CreateScript` is the Lua script, `DeleteDraft` the MULTI/EXEC block,
`AcquireLock`/`ReleaseLock` the `SETNX` and `DEL`. `WriteAnswer` writes the hash whether
or not a draft exists, like `HSET`, and sets its TTL. That TTL is the time left of the paper
`SaveAnswer` read before (`service.go:150`), while the key is the user's: by the time of the
write it may hold the answers of the next paper, which then lapse early. So the answers have
a countdown of their own, `answersTTL`, and may lapse (`ExpireAnswers`) once it has run out,
whatever their draft has left; a TTL of zero or less deletes the key at once. A draft may
lapse after its deadline, or at any time after a negative TTL has run out; `DraftsMayExpire` says
whether that is considered at all. `DraftTTL` (`QUIZ_DRAFT_TTL`) is any integer, because
nothing validates it. The clock is read in `SaveAnswer` at lines 118 and 150 with no call
in between; the model takes the two readings as one.

**ScoreTable, ScoreLedger.** `scores[u]` is a function from attempt numbers to
scores. The ledger has no notion of drafts, keys or conflicts: a sequence of scores
per user, to which one is appended at a time, `MaxTries` at most.

**ExamService.** `task[p]` is the program counter and the locals of a handler or the
ticker. Each action is one call to a store together with the code up to the next
call:

| method | actions |
|---|---|
| `GetOrCreatePaper` | `BeginExam`, `ExamGet`, `Count`, `Create`, `Reget` (and `Lock` ... for an overdue draft) |
| `SaveAnswer` | `BeginAnswer`, `SaveGet`, `SaveCheck`, `Save` |
| `Submit` | `BeginSubmit`, `Lock`, `SubmitGet`, `SubmitAnswers`, `Insert`, `Delete`, `Unlock` |
| `ProcessDue` | `TickerDue`, `TickerNext`, then the actions of `Submit` |

`Submit` is one set of actions, whoever calls it, with the deferred unlock on every
return path (`Abandon`). An error other than "no draft" or "locked" ends the batch of
`ProcessDue` (`AbortBatch`).

The world: `Tick` passes time for the stores and for the clock readings held by
requests; `Opens`/`Closes` move the contest window; `LockExpires` ends a lock's TTL;
`Expires` a draft's or its answers'. `Fail` is a call that fails without effect (also
a cancelled context), `LostReply` one that has its effect and whose reply does not
arrive: the process has not moved, so the client either repeats the command (its
normal action again) or gives up (`Fail`). An `Insert` is not repeated; losing its
reply ends the `Submit`. `Crash` empties every process and leaves both databases
alone. `Recover` ends the faults for good; it exists for the liveness properties, and only
where `OutagesEnd` is set: in a safety run faults may strike forever, which allows more.

Abstractions, and why they lose nothing the properties see:

* A request that resumes a paper also reads its answers. They only shape the reply.
* `now` is read once at the start of a request. A new paper's timer starts there
  (`left`, which ticks on while the request is under way). A stale `now` compared
  with an old draft's deadline may go either way, so `ExamGet` lets it.
* Validation of the choices of an answer (`service.go:122-148`) is reduced to "the
  question is on the paper"; `Choices` holds the valid ones.
* The order within a batch of `Due` and its limit of 100 are left open. With one user
  no batch is ever full; `AutoSubmit` has both.

**AutoSubmit.** What many users do to each other: they share one sorted set, batches of
at most `Limit`, and an error of one ends the batch of all. `ExamService` takes a
`Submit` apart call by call; here it is one step (`TickerSubmits`, `RequestSubmits`), with
the lock around a request's `Submit` kept apart (`RequestLocks`), because a locked user is
skipped. `deadlines` is the sorted set as a sequence, `left` the time of each member.
`DraftLapses` removes a draft and leaves its member. A failing `Submit` (`TickerFails`,
`RequestFails`) may have recorded the score or not, and may leave the lock behind. The
stale attempt numbers of `ExamService` do not occur here (`IssuePaper` is atomic), and the
contest is always open. Bounds: `MaxLapsed` members without a draft, `MaxLocked`
locks set at one time.

**ContestPage.** One student, one paper, one page of `contest.js`, which has a single
thread: each action is a callback up to its next `await`. An answer is the number of the
change that gave it, so "newer" is "greater".

| contest.js | actions |
|---|---|
| `scheduleAnswer` and its timer | `Changed`, `Debounced` |
| `sendAnswer`, then the reply or `catch` | `Sent`, `SaveSucceeds`, `SaveFails` |
| `doSubmit` to its first `await`, `Promise.all`, the POST, `catch` | `DoSubmit`, `ResendsSucceed`/`ResendsFail`, `PostSucceeds`, `PostFails` |
| `updateTimer` at zero | `TimeUp` |
| `pagehide`, `loadExam`, a 401 in `api` | `Unload`, `Loaded`, `LoggedOut` |

`saves` is the set of `POST /api/answer` under way, `post` the hand-in. `waiting` says
whether the page still listens: a save whose fetch failed, or whose page is gone, may be
served all the same. On the server `SaveServed` is `SaveAnswer` in one step, `PostRead`
and `HandInEnds` are the two halves of a `Submit` (read the answers; score and
delete), so that a save can fall between them. A Submit that fails does so before its score
is written (`HandInFails`) or between `Insert` and `Delete` (`HandInHalfFails`): then the paper
stays, and the copy a later hand-in reads is not the one on record (`recorded`, `Recorded`),
because a row for the attempt is there. `TickerReads` is the ticker's Submit.
Progress display, rendering and the retry dialog are left out. A second POST while the one of an
earlier try is still under way is left out too; that Submits exclude each other is
`ExamService`'s subject.

**QuestionBank.** `Load` record by record, in any order and number: `LoadQuestion`,
`LoadChoice`, `BadRecord` (whatever the parser or an empty content reports), `EndOfFile`
with `Validate`. The texts are gone; a choice is its flag `correct`, and its id is made from
its place as in `load.go:91` (`IdStride` is 100 there; the run has 2, so that ids of two
questions really coincide). The numbers of questions per category are integers from the
environment, negative ones included; so are the points per question, which may be negative or
zero. (With a total of 0 the page of results shows 100, `info.js:6`; `TotalScore` is the server's and
that page is not modelled.) `PickPaper` is the set of papers it may return, `Acceptable`
the checks of `SaveAnswer`, `CalculateScore`, `SameChoiceSet` and `TotalScore` the functions
of these names. An answer is a set of ids and whether one of them is repeated.

**MemoryStores, MemoryContest.** Every method of `memory.go` holds the mutex throughout
and is one operator. A lock is `"held"`, or `"lapsed"`: its time is over and its entry
still there. `MemoryContest` composes bank, stores, handlers and ticker, one step
per store call; the reads a method makes before its first write are one step, because
`ExamService` has them apart. The contest is always open. `Redis` and `Table` map the maps to the
state of `RedisDrafts` and `ScoreTable`: a paper in the map is a draft, its answers the other
hash, the map of deadlines the sorted set, a lock that lapses one that is released, a record a
row. `StoresContract` uses them to compare the stores call by call: each call in memory, with its
own arguments, changes what the operator of that call in Redis or PostgreSQL would change, and
returns what that would return. Three differences are part of the statement:

* a save for a paper that is gone fails and writes nothing in memory (`memory.go:53-55`), where
  Redis writes it (`redis_draft.go:124`);
* with more users due than a batch holds, memory returns any of them and Redis the earliest;
* nothing in memory has a TTL, but for the lock.

## 3. What the runs show

| run | asks | bounds | size |
|---|---|---|---|
| `exam_safety` | what holds whatever goes wrong: `TypeOK`, `AttemptsContiguous`, `AttemptsInOrder`, `EveryDraftScheduled`, `LedgerSpec`, `ResumeKeepsPaper` | 1 user, 1 question, 2 tries, 2 requests and the ticker; errors, lost replies, crashes, locks lapsing under their holders, drafts and answers lapsing | 2.6 million states |
| `exam_lease` | what the lock buys if every `Submit` ends within its TTL and no command is repeated: `SubmitExclusive`, `CopyIsOfOnePaper`, `DraftRemovedOnlyWhenScored`; and, with two papers to tell apart, `ResumeKeepsPaper` | 2 questions to draw 1 from, opening time, errors and crashes | 1.3 million states |
| `exam_live` | `EveryPaperScored`, `CloseSettles` under fairness | 1 try, 2 requests and the ticker, closing time, errors and crashes until `Recover` | 0.35 million states |
| `auto_submit` | `TypeOK`, `DueAreEarliest`, `EveryOverduePaperTaken`: is a batch the papers due earliest, and is every overdue paper reached? | 3 users, batches of 2, 1 try, 1 lapsed draft, 1 lock at a time; errors and crashes until `Recover` | 0.2 million states |
| `memory_contest` | `TypeOK`, `KeyAcceptable`, `FullPaper`, `FullMarksAreTotal`, `RightAnswersScore`, `StoresContract` | every file of up to 2 questions with 3 choices each, 3 configurations (one with a negative number), a category with negative points, 1 user, 1 try, 1 request and the ticker | 0.5 million states |
| `page_saves` | `TypeOK`, `FailureShown`, `PostedAfterSaves`, `ToldOnceHandedIn`, `SubmittingEnds` | 2 questions, 2 changes, 2 saves of each question under way; lost and refused requests, reloads, an expired session, Submits that fail at either point | 1.0 million states |
| `page_forgets` | violation of `NothingForgotten` when two saves of one question fail | as `page_saves` | |
| `page_hand_in` | violation of `ConfirmedIsScored` without any fault | as `page_saves`, no faults | |
| `reported_score` | violation of `ReportedScoreRecorded` without any fault | 2 tries, 2 requests and the ticker | |
| `slow_submit` | violation of `DraftRemovedOnlyWhenScored` when a `Submit` outlives its lock, nothing failing | the same | |
| `early_hand_in` | violation of `TickerScoresOnlyDue` without any fault | the same | |
| `auto_submit_full` | violation of `EveryOverduePaperTaken` when lapsed drafts fill a batch | as `auto_submit`, 2 lapsed drafts | |

The properties:

* `AttemptsContiguous`: a user's recorded attempts are 1..k, k at most `MaxTries`.
* `AttemptsInOrder`: no paper, stored or in a request's hands, is for an attempt
  beyond the next to be recorded. A stale count is only ever too small. This is why
  the primary key and `DO NOTHING` are enough for the previous property.
* `EveryDraftScheduled`: a stored draft is in the sorted set under its own deadline.
* `LedgerSpec`: the service implements `ScoreLedger`.
* `ResumeKeepsPaper`: a draft that stays keeps attempt, questions and deadline, and
  until the deadline loses no stored answer, whoever else asks for a paper or saves an answer.
  It needs `DraftTTL >= Deadline`, the value of the runs. With less TLC finds it violated, also
  without any fault: a save of the first paper is written after the second was issued, and its
  short TTL takes the second paper's answers away before the deadline. The defaults (24 hours
  and 5 minutes) are on the safe side; nothing in `config.go` keeps others out.
* `SubmitExclusive`: two Submits of one user are never between lock and unlock.
* `CopyIsOfOnePaper`: the answers a `Submit` reads, in a call of its own, are those of the draft
  it has read.
* `DraftRemovedOnlyWhenScored`: a draft that leaves Redis has a recorded attempt.
* `EveryPaperScored`: an issued paper is scored in the end.
* `CloseSettles`: some time after closing there are no drafts any more, for good.
* `DueAreEarliest`: what `ProcessDue` takes on is the members due earliest, and all that are
  due unless the batch is full. The model keeps the sorted set as a list that new papers
  join at its end; that this is the order of the deadlines, through members that lapsed
  drafts leave behind and papers issued over them, is what the property says.
* `EveryOverduePaperTaken`: an overdue paper does not stay overdue, whatever its place
  in the sorted set. It holds as long as fewer drafts have lapsed than a batch holds.
* `TickerScoresOnlyDue`: the ticker hands in only papers whose time is up.
* `FailureShown`: an answer that failed and waits with no timer running is warned about,
  although a save that works out later also decides about the warning.
* `PostedAfterSaves`: when the hand-in is posted, each answer `doSubmit` re-sent is
  saved, or a newer one is.
* `ToldOnceHandedIn`: the page is told `already_submitted` or a score only when no draft is
  left, never while another Submit is still at work.
* `SubmittingEnds`: `doSubmit` always ends, so its button works again or the page moves on.
* `NothingForgotten`: what the form shows is pending, under way or saved.
* `ConfirmedIsScored`: what a hand-in of the page puts on record, or finds there, is nothing
  older than what the form showed when it was confirmed.
* `KeyAcceptable`: in a bank that is served, the exact set of correct choices of every
  question is an answer `SaveAnswer` takes and `sameChoiceSet` counts.
* `FullPaper`: a paper has exactly the configured number of questions of each category.
* `FullMarksAreTotal`: all answers right give the full score the pages announce.
* `RightAnswersScore`: the score of a hand-in is what the paper is worth, counted choice by
  choice, though ids of different questions coincide.
* `StoresContract`: each call to the in-memory stores does and returns what the same call to
  Redis or PostgreSQL would, but for the differences named in section 2; nothing else changes them.

**Bounds.** One user is enough for these properties: users share only the batch of
`ProcessDue` and the fate of the process, and every key and row is per user.
`auto_submit` is about that batch: three users and a limit of two make a batch that
does not hold them all, with room for a skipped and a submitted user in it. Two requests and the ticker give three
concurrent Submits, two concurrent creations, and a save beside both. Two tries let
a stale actor of attempt 1 meet attempt 2, and a third attempt be refused. `Deadline`
1 gives the three cases before, at and after the deadline. `exam_live` has one try
because a second adds states only; `Crash` and `Fail` may occur any number of times
before `Recover`. Handlers are symmetric; no symmetry is used for liveness.

`page_saves` needs two saves of one question for overlap and overtaking, and a second
question for a warning that one save raises and another would take back; two changes give
an older and a newer answer. In `memory_contest` three choices are one more than the least
a question may have, so that too many, too few and just enough correct choices all occur,
and two questions allow a duplicate, a coincidence of ids, a bank that is too small and a paper of
two categories. One try and one request are enough there: `ExamService` covers interleaved attempts.

Deadlock is checked in the runs of `ExamService` and `AutoSubmit`. It is off where the
system may really stop: a page that has moved on (`ContestPage`), a program that did not
start, or an idle one whose user has no try left (`MemoryContest`).

**Fairness** (`FairSpec`). Weak fairness of `Tick` (the clock runs), `LockExpires` (a
TTL ends: `LeaseCoversSubmit` is assumed in that run, so it is enabled only when no
`Submit` of the user is under way), every step of a method once begun (goroutines are scheduled; HTTP and pool
timeouts turn a stuck call into `Fail`), the ticker (`time.Ticker`, every 2 s, also
after a restart), and `Recover` (outages end). Students need not do anything: `Begin`
has no fairness. `AutoSubmit` assumes the same of its coarser steps. `ContestPage`
(`Fairness`) needs less than the program gives: a `doSubmit` that can go on does (an event loop),
as long as saves are under way some of them is served, answered or fails, and a hand-in is
served and answered or fails. Timers, clock, ticker, student, reloads and lost sessions have no fairness.

**Findings.** Each is an expected violation with a run of its own. For each but
`auto_submit_full` (a liveness property) section 4 has a theorem that the property holds in
every behaviour without the steps blamed here (`NoPaperLost` for `slow_submit`, which also
rules out lost replies and lapsing drafts; `ConfirmedIfQuiet` for `page_hand_in` also rules out
`HandInHalfFails`, a cause of its own that needs a fault).

* `reported_score`: request A counts 0 attempts and stalls; request B gets the paper of
  attempt 1 and hands it in; A then creates a draft, again for attempt 1. When that
  is handed in, `Insert` meets the existing row, adds nothing, and `Submit`
  (`service.go:180`, which ignores whether a row was added) returns the new score as
  the result. The reply of `POST /api/submit` carries a score that is stored nowhere. The contest
  page discards that reply and shows the recorded score on `/info` (`contest.js:201-202`), so
  only other callers of the API are misled; the answers of the second paper are lost all the same.
* `slow_submit`: a `Submit` stalls after its `Insert` until its lock lapses; a second
  one finishes; the student asks for the next paper; the first `Submit` resumes and
  its `Delete`, by user name, removes the new draft unscored.
* `early_hand_in`: the ticker reads the due users; before it gets to one of them, that user
  hands the overdue paper in and asks for the next; the ticker's `Submit`
  (`service.go:202`), which does not look at the deadline, hands in the new paper at once.
* `auto_submit_full`: drafts that nobody handed in for `QUIZ_DRAFT_TTL` (24 hours by default,
  say while the server was down) lapse and leave their members in the sorted set. They
  stand at its head; `ProcessDue` skips them and nothing removes them. When they fill a
  batch (100 in the code, 2 in the run), no paper behind them is ever reached again.
* `page_forgets`: two saves of one question are under way and both fail, the older first.
  It is put back; the newer finds the question already pending and is dropped
  (`contest.js:78`). The form shows an answer that is neither pending nor saved, and the
  hand-in re-sends and scores the older one.
* `page_hand_in`: the debounce timer sends an answer; before it is served the student confirms the
  hand-in. `doSubmit` waits for what it takes from `pending` and not for that save
  (`contest.js:197`), so `Submit` may read the answers first. The page moves on, and the
  answer the student confirmed is not scored.

A third thing about the page is in the model, breaks no property above and is worth knowing: when
time is up with an answer pending, its save is refused, `doSubmit` gives up before it posts, and
`autoSubmitted` keeps it from trying again. The form stays on the expired paper until the
student acts. The paper itself is scored by the ticker.

## 4. What is proved

`ExamServiceProofs` proves, for any finite or infinite set of users, requests and
answers, any bank, any number of tries and any deadline, from the named assumptions
in the modules (`LimitsAssumption`: tries, deadline and paper size are positive, the first two as
`config.go` enforces; `BankAssumption`: a finite bank at least as large as a paper, with a key
for every question; `NilAssumption`: the markers differ from the data;
`ExpiryAssumption`: `DraftTTL` is an integer; `ProcessAssumption`: the switches are Booleans and
the faults known ones):

| theorem | states | further assumptions |
|---|---|---|
| `TypeCorrect` | `Spec => []TypeOK` | |
| `DraftsScheduled` | `Spec => []EveryDraftScheduled` | |
| `PaperKept` | `Spec => ResumeKeepsPaper` | `DraftTTL >= Deadline` |
| `AttemptsCorrect` | `Spec => [](AttemptsContiguous /\ AttemptsInOrder)` | |
| `AttemptsOrdered` | `Spec => []AttemptsInOrder` | |
| `LedgerImplemented` | `Spec => LedgerSpec` | |
| `SubmitAlone` | `Spec => []SubmitExclusive` | `SafeLock` |
| `NoPaperLost` | `Spec => DraftRemovedOnlyWhenScored` | `SafeLock`, `~DraftsMayExpire` |
| `CopiesWhole` | `Spec => CopyIsOfOnePaper` | `SafeLock`, `~DraftsMayExpire` |

`SafeLock` is `LeaseCoversSubmit` together with no lost replies. `slow_submit` shows
that the first half cannot be dropped.

`ExamCauseProofs` is about the two violated properties of `ExamService` that no constant
repairs. It proves each for all behaviours in which the one step the finding blames does not
happen:

| theorem | states | further assumptions |
|---|---|---|
| `EarlyOnlyIfIssuedMeanwhile` | `Spec /\ [][NoneIssuedWhileBound]_vars => TickerScoresOnlyDue` | |
| `ReportedUnlessReissued` | `Spec /\ [][IssuedUnrecorded]_vars => []ReportedScoreRecorded` | `LeaseCoversSubmit`, `Faults = {}` |

`NoneIssuedWhileBound`: no paper is issued to a user whom a ticker holds for due, in its batch
or on the way to reading the draft. `IssuedUnrecorded`: no paper is issued for an attempt that is recorded, that is,
no count is outdated when it is used. The first theorem holds under every fault. The second
needs the lease (else `slow_submit`'s schedule has two Submits of one paper at work) and no
faults: a `Delete` that fails leaves a recorded draft without any stale count, and the paper
is then scored a second time.

The arguments. Lemmas first sum up what any step does to one part of the state:
`RedisSteps` and `ScoreSteps` (which store operations a step can amount to) and
`TaskSteps`, `LockSteps`, `HoldingSteps` (how a process can come to carry an attempt
number, enter the critical calls, hold a draft). Each invariant then has to look only
at those few cases.

* *Resumed papers.* `AnswersOutlast`: as long as a draft has time left and answers, the answers have
  at least as much. A save gives them `DraftTTL` at least, a paper has `Deadline` at most, and
  the clock takes the same from both; hence the assumption.
* *Attempts.* `AttemptsContiguous` is not inductive: `Insert` of an arbitrary attempt
  number would leave a gap. `AttemptsInv` adds `AttemptsInOrder`. A number enters a
  process as count + 1 or from a draft, the count only grows (`CountGrows`), so a row
  that is added is the next one (`NewRowIsNext`), and the rows stay an interval.
* *Ledger.* With the rows of each user an interval 1..k, `scores[u]` is a sequence, and
  an `Insert` that adds a row is an `Append`; every other step stutters.
* *Exclusion.* `LockInv` adds to `SubmitExclusive` that the lock is set whenever its
  user's `Submit` is in the critical calls: only then is a failing `SETNX` known.
* *No paper lost.* `HeldDraftInv`: who has read a draft under the lock finds that draft
  in Redis until deleting it, and before `Delete` the attempt is recorded. It
  needs `LockInv` in the next state, to rule out another holder's `Delete`. That the answers
  read are of that draft (`CopiesWhole`) follows from the same invariant.
* *Early hand-in.* `BoundAreDue`: a draft of a user whom a ticker is bound to is due. `Due`
  makes it true, the clock and every other step keep it, and only a paper issued in between
  can break it. `TickersSubmit` says a ticker runs no other method.
* *Reported scores.* `ReportInv`: a stored draft whose attempt is recorded has a process just
  about to delete it (`RecordedGoes`), the score of an attempt that is still to be inserted is
  not recorded, and that of one just inserted is the one recorded (`ScoreInHand`).

`ContestPageProofs`, for any finite set of questions and any bounds, with or without faults
(`PageAssumption`):

| theorem | states |
|---|---|
| `PageTypeCorrect` | `Spec => []TypeOK` |
| `FailuresShown` | `Spec => []FailureShown` |
| `ToldWhenHandedIn` | `Spec => []ToldOnceHandedIn` |
| `HandInAfterSaves` | `Spec => []PostedAfterSaves` |
| `ForgottenOnlyBehindNewer` | `Spec /\ [][NewestFails]_vars => []NothingForgotten` |
| `ConfirmedIfQuiet` | `Spec /\ []NoOverlap /\ [][QuietHandIn]_vars /\ [][~HandInHalfFails]_vars => []ConfirmedIsScored` |

`PostedAfterSaves` is not inductive: it says nothing of the time before the POST. `HandInInv`
adds `ResendsFollowed` (while `doSubmit` saves, each re-sent answer is saved, has failed, or is
in a save the page waits for) and `SubmitsWhenOpen` (a page that is not open has no `doSubmit`).
When `Promise.all` is done nothing is waited for and nothing failed, so all is saved.
`TypeOK` includes that two saves of one question have different ids, which `Sent` needs a free
one for.

The last two theorems are about the two violated properties of the page. `NewestFails`: a save fails only
when the page waits for no newer answer to its question. `NoOverlap`: no two saves of a
question are on their way at once, abandoned ones included; `QuietHandIn`: `doSubmit` starts
when the page waits for no save. The third hypothesis, that no Submit ends between `Insert` and
`Delete`, is needed: after such an end the paper can be answered and handed in again, and what
is on record stays the older copy (TLC finds ten steps that do it). Requests may still be lost, refused, overtaken by those of
other questions or by a reload, and the ticker and the deadline strike as before. The first hypothesis names the
single bad order of `page_forgets`; the first two of the second are what a page that sends one save per
question at a time and awaits it before the hand-in would meet, so they say what a repair has
to achieve. Neither property is inductive. `KeptInv` adds that answers are numbered by the
changes (`Numbered`), that a page that is gone waits for nothing (`GoneQuietly`), and that
nothing under way is newer than what the form shows (`ShownIsNewest`). For the second,
`StoredInOrder` says that a save under way is never older than what the server has, nor a
pending answer older than either, and `ConfirmedFollowed` that until the paper is scored each
confirmed answer, or a newer one, is stored or among those `doSubmit` re-sends; it builds on
`KeptInv`, since `NoOverlap` implies `NewestFails`, and on `PostedAfterSaves`.

`MemoryContestProofs`, for any bank, configuration, users, requests, tries and deadline
(the assumptions of `QuestionBank`, `MemoryStores` and `MemoryContest`):

| theorem | states |
|---|---|
| `KeysAcceptable` | `Spec => []KeyAcceptable` |
| `PapersFull` | `Spec => []FullPaper` |
| `MemoryIsRedis` | `Spec => StoresContract` |

`BankInv` (the bank has its types, and is valid once served) gives the first: exactly one correct
choice makes exactly one correct id (`CorrectIds`). `PapersInv` gives the second: the lists
`Load` makes name each question once and under its own category, so drawing distinct places draws
as many distinct questions (`DrawnPapersFull`, by a bijection), and papers, stored or drawn,
come up only when the bank does not change any more. The third has one lemma for each kind of call,
`WritesSame`, `ReadsSame` and `ScoresSame`, and `NothingElseWrites` for the rest. They rest on
lemmas that show each method of `memory.go` to be the operator of the same call under the
mapping (`CreateIsCreate`, ..., `TickIsTick`, `InsertIsInsert`, `CountIsCount`), on `StoreInv`, which
says what a process holds for the call it is about to make (a new paper within the limits, an
answer to a question there is) and that records of one user have different attempts, so that
counting records is counting rows, and on `QueueOK`, that each ticker has one batch.

`MemoryScoreProofs`, from the same assumptions:

| theorem | states |
|---|---|
| `MemoryTypeCorrect` | `Spec => []TypeOK` |
| `FullMarks` | `Spec => []FullMarksAreTotal` |
| `ScoresAreRight` | `Spec => RightAnswersScore` |

All three need to know what a fold over a finite set computes. `Points` and `TotalScore` are sums
by `MapThenSumSet` of `FiniteSetsExt`, and they are given a closed form: price times number of
questions, category by category (`ByCategory`). With it `FullMarks` is arithmetic: `FullPaper`
fixes the number of questions of each category, and `BankInv` makes every one of them score. `ScoresAreRight` compares `sameChoiceSet`, which works on lists of ids that
may repeat, with the choices themselves; ids of one question differ, which is all it takes.
`ScoreInv` collects what that rests on: how many choices a question has, what each process holds
for its next call, that stored papers are drawn from the bank and that recorded scores are
integers (points per question are integers, nothing makes them positive). `NilAssumption` of `MemoryContest` says that `Nil` is neither the state of a lock nor a set of ids,
besides being no paper; in the code all of these have different Go types.

`AutoSubmitProofs`, for any users, limits, tries and deadline (`QueueAssumption`):

| theorem | states |
|---|---|
| `QueueTypeCorrect` | `Spec => []TypeOK` |
| `EarliestDueFirst` | `Spec => []DueAreEarliest` |

`TypeOK` includes that no user is listed twice. `DueAreEarliest` speaks of the front of the list
only and is not inductive; `QueueInv` is `TypeOK` with `InOrder`, that members further down the list are due
later or are overdue as well. `ZADD` takes a member out before it puts it at the end, where nothing is due
later, and removing one keeps the others in order (`RemoveFirstFacts`). The due members are
then the front of the list, and a batch its first `Limit`.

`OperatorLemmas` has what these proofs need of the community modules and the library of proofs
does not say: that a sum over a finite set does not depend on the order of its terms
(`SumsAgree`), and what `RemoveFirst` does to a sequence without repetitions
(`RemoveFirstFacts`). The induction theorems of that library take an operator as a parameter, which
the provers cannot instantiate; the inductions here go by a least counterexample instead
(`NatLeast`, from the well-foundedness of the numbers).

Every invariant above was first checked by TLC on small instances, those of the theorems about
causes with their hypotheses as constraints on the steps.

So every safety property of a passing run is a theorem, and so are the conditions under which those of
the violated runs hold. Only model-checked: `EveryPaperScored`, `CloseSettles`, `EveryOverduePaperTaken` and
`SubmittingEnds` (liveness under fairness is beyond the prover), and the violations themselves.

## 5. What is not modelled

* **Session cookies and the CAS client.** A session is a signed token with an expiry and no
  state on the server; a login is one outbound request. Their only effect on an exam, a reply 401 at any
  request, is in `ContestPage` (`"denied"`). CSRF tokens and cookie attributes are left out.
* **Configuration.** What nothing validates is any integer: the numbers of questions (a variable of
  `QuestionBank`), the points per question and `QUIZ_DRAFT_TTL` (constants). The numbers
  `config.go` does validate are assumptions on constants. Parsing is left out.
* **HTTP API.** Routes, headers and the read-only endpoints (`History`, `List`, the result pages).
* **Pages, styles, deployment, logging, wording**: input and output without state of their own.
* In `ContestPage`: several pages of one student, a second attempt in the same page, a second POST
  overlapping an abandoned one. In `MemoryContest`: the opening window and requests
  taken apart at each read (both in `ExamService`).

## 6. Plan

Done: the modules of section 2. What is left, in this order:

1. Two pages of one student on one paper: which of two tabs' answers is scored.
2. The life of a session: login through CAS, expiry, logout.

## 7. Running

```
tlc -workers 2 -config ExamSafety.cfg MCExamService.tla
tlc -workers 2 -config AutoSubmitLive.cfg AutoSubmit.tla
tlc -workers 2 -config PageSaves.cfg ContestPage.tla
tlc -workers 2 -config MemoryFull.cfg MCMemoryContest.tla
tlapm ExamServiceProofs.tla
tlapm ContestPageProofs.tla
tlapm ExamCauseProofs.tla
tlapm MemoryContestProofs.tla
tlapm MemoryScoreProofs.tla
tlapm AutoSubmitProofs.tla
tlapm OperatorLemmas.tla
```

The other configurations run the same way: `Exam*.cfg` with `MCExamService`, `AutoSubmit*.cfg` with
`AutoSubmit`, `Page*.cfg` with `ContestPage`.
