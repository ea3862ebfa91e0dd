---------------------------- MODULE MemoryContest ----------------------------
(***************************************************************************)
(* The program started with USE_MEMORY_STORE=1: the bank is loaded, then   *)
(* the exam service runs on the stores in memory, with the answers, the    *)
(* papers and the scores the bank gives rise to.                           *)
(*                                                                         *)
(* Handlers and the ticker interleave at every call to a store, except     *)
(* that what a method reads before its first write is read in one step:    *)
(* ExamService takes those reads apart.  The stores in memory do not fail. *)
(***************************************************************************)
EXTENDS MemoryStores

CONSTANTS
    Handlers,   \* requests that can be served at one time
    Tickers,    \* the auto-submit goroutine
    BatchLimit  \* users one ProcessDue takes on

ASSUME ContestAssumption ==
    /\ BatchLimit \in Nat \ {0}
    /\ Handlers \intersect Tickers = {}

VARIABLES
    task,       \* what each process is doing, and its local variables
    queue       \* the users a ProcessDue has read from Due and not reached

vars == <<bankVars, storeVars, task, queue>>

Procs == Handlers \union Tickers

Idle == [at |-> "idle", user |-> Nil, attempt |-> 0, questions |-> {}, left |-> -1,
         question |-> Nil, ids |-> {}, score |-> 0]

Task == [at: {"idle", "create", "save", "lock", "read", "insert", "delete", "unlock"},
         user: Users \union {Nil}, attempt: 0 .. MaxTries,
         questions: SUBSET QuestionIds, left: Timer,
         question: QuestionIds \union {Nil}, ids: SUBSET AllChoiceIds, score: Int]

TypeOK ==
    /\ BankTypeOK
    /\ StoresTypeOK
    /\ task \in [Procs -> Task]
    /\ queue \in [Tickers -> SUBSET Users]

Init ==
    /\ BankInit
    /\ StoresInit
    /\ task = [p \in Procs |-> Idle]
    /\ queue = [t \in Tickers |-> {}]

-----------------------------------------------------------------------------
At(p, site) == phase = "serving" /\ task[p].at = site

User(p) == task[p].user

Become(p, t) == task' = [task EXCEPT ![p] = t]

MoveTo(p, site) == Become(p, [task[p] EXCEPT !.at = site])

\* An overdue paper is handed in; without a paper the limit on tries is
\* looked at, and the paper of the next attempt is drawn.
Exam(p, u) ==
    /\ At(p, "idle")
    /\ \/ /\ HasPaper(u)
          /\ papers[u].left < 0
          /\ Become(p, [Idle EXCEPT !.at = "lock", !.user = u])
       \/ /\ ~HasPaper(u)
          /\ MemCountAttempts(u) < MaxTries
          /\ \E S \in PickPaper :
                Become(p, [Idle EXCEPT !.at = "create", !.user = u, !.questions = S,
                                       !.left = Deadline,
                                       !.attempt = MemCountAttempts(u) + 1])
    /\ UNCHANGED <<bankVars, storeVars, queue>>

NewPaper(p) == [attempt |-> task[p].attempt, questions |-> task[p].questions,
                left |-> task[p].left, answers |-> NoAnswers]

Create(p) ==
    /\ At(p, "create")
    /\ MemCreate(User(p), NewPaper(p))
    /\ Become(p, Idle)
    /\ UNCHANGED <<bankVars, scores, queue>>

\* SaveAnswer: the paper is read and the answer checked against it ...
Answer(p, u, q, ids, repeats) ==
    /\ At(p, "idle")
    /\ HasPaper(u)
    /\ papers[u].left >= 0
    /\ q \in papers[u].questions
    /\ Acceptable(q, ids, repeats)
    /\ Become(p, [Idle EXCEPT !.at = "save", !.user = u, !.question = q, !.ids = ids])
    /\ UNCHANGED <<bankVars, storeVars, queue>>

\* ... and only then written.
Save(p) ==
    /\ At(p, "save")
    /\ MemSaveAnswer(User(p), task[p].question, task[p].ids)
    /\ Become(p, Idle)
    /\ UNCHANGED <<bankVars, scores, queue>>

-----------------------------------------------------------------------------
(***************************************************************************)
(* Submit, called by a handler, by GetOrCreatePaper and by ProcessDue.     *)
(***************************************************************************)
Submit(p, u) ==
    /\ At(p, "idle")
    /\ Become(p, [Idle EXCEPT !.at = "lock", !.user = u])
    /\ UNCHANGED <<bankVars, storeVars, queue>>

Lock(p) ==
    /\ At(p, "lock")
    /\ \E acquired \in BOOLEAN :
          /\ MemLockSubmit(User(p), acquired)
          /\ IF acquired THEN MoveTo(p, "read") ELSE Become(p, Idle)
    /\ UNCHANGED <<bankVars, scores, queue>>

Read(p) ==
    /\ At(p, "read")
    /\ LET u == User(p)
           paper == papers[u]
       IN IF HasPaper(u)
          THEN Become(p, [task[p] EXCEPT !.at = "insert", !.attempt = paper.attempt,
                              !.score = CalculateScore(paper.questions, paper.answers)])
          ELSE MoveTo(p, "unlock")
    /\ UNCHANGED <<bankVars, storeVars, queue>>

Insert(p) ==
    /\ At(p, "insert")
    /\ MemInsert(User(p), task[p].attempt, task[p].score)
    /\ Become(p, [Idle EXCEPT !.at = "delete", !.user = User(p)])
    /\ UNCHANGED <<bankVars, draftVars, queue>>

Delete(p) ==
    /\ At(p, "delete")
    /\ MemDelete(User(p))
    /\ MoveTo(p, "unlock")
    /\ UNCHANGED <<bankVars, scores, queue>>

Unlock(p) ==
    /\ At(p, "unlock")
    /\ MemUnlockSubmit(User(p))
    /\ Become(p, Idle)
    /\ UNCHANGED <<bankVars, scores, queue>>

\* ProcessDue reads a batch of overdue users and submits them in turn.
TickerDue(t) ==
    /\ At(t, "idle")
    /\ queue[t] = {}
    /\ \E S \in MemDue(BatchLimit) \ {{}} : queue' = [queue EXCEPT ![t] = S]
    /\ UNCHANGED <<bankVars, storeVars, task>>

TickerNext(t, u) ==
    /\ At(t, "idle")
    /\ u \in queue[t]
    /\ queue' = [queue EXCEPT ![t] = @ \ {u}]
    /\ Become(t, [Idle EXCEPT !.at = "lock", !.user = u])
    /\ UNCHANGED <<bankVars, storeVars>>

Tick ==
    /\ phase = "serving"
    /\ MemTick
    /\ task' = [p \in Procs |-> [task[p] EXCEPT !.left = Elapsed(@)]]
    /\ UNCHANGED <<bankVars, queue>>

LockLapses(u) ==
    /\ MemLockLapses(u)
    /\ UNCHANGED <<bankVars, scores, task, queue>>

-----------------------------------------------------------------------------
Load == LoadNext /\ UNCHANGED <<storeVars, task, queue>>

Handle(p) ==
    \/ \E u \in Users : Exam(p, u) \/ Submit(p, u)
    \/ Create(p)
    \/ \E u \in Users, q \in QuestionIds, ids \in SUBSET AllChoiceIds, repeats \in BOOLEAN :
          (repeats => ids # {}) /\ Answer(p, u, q, ids, repeats)
    \/ Save(p)

HandIn(p) == Lock(p) \/ Read(p) \/ Insert(p) \/ Delete(p) \/ Unlock(p)

Next ==
    \/ Load
    \/ \E p \in Handlers : Handle(p)
    \/ \E p \in Procs : HandIn(p)
    \/ \E t \in Tickers : TickerDue(t) \/ \E u \in Users : TickerNext(t, u)
    \/ Tick
    \/ \E u \in Users : LockLapses(u)

Spec == Init /\ [][Next]_vars

-----------------------------------------------------------------------------
(***************************************************************************)
(* Properties.                                                             *)
(***************************************************************************)
\* Once the program serves, no question is impossible to get right: the
\* exact set of its correct choices is an answer SaveAnswer takes and
\* CalculateScore gives points for (Validate, SaveAnswer and sameChoiceSet
\* each have rules of their own for each category).
KeyAcceptable ==
    phase = "serving" =>
        \A q \in Known :
            /\ Acceptable(q, CorrectChoiceIDs(q), FALSE)
            /\ SameChoiceSet(CorrectChoiceIDs(q), CorrectChoiceIDs(q))

\* Every paper handed out has exactly the configured number of questions of
\* each category, none of them twice, whatever the file and the numbers in
\* the environment (PickPaper relies on Load for distinct questions).
FullPaper ==
    \A u \in Users : HasPaper(u) =>
        \A c \in Categories :
            Cardinality({q \in papers[u].questions : category[q] = c}) = counts[c]

\* What a paper is worth, choice by choice: a question scores when each of
\* its choices is selected exactly if it is correct.
Selected(paper, id) ==
    \E q \in paper.questions : paper.answers[q] # Nil /\ id \in paper.answers[q]

Worth(paper) ==
    Points({q \in paper.questions : \A i \in DOMAIN choices[q] :
                choices[q][i] <=> Selected([paper EXCEPT !.questions = {q}], ChoiceId(q, i))})

\* The score Submit computes is what the paper is worth, although answers
\* are lists of ids, ids of different questions may coincide and clearing an
\* answer is not the same as never giving one (sameChoiceSet, choice ids).
RightAnswersScore ==
    [][\A p \in Procs, u \in Users :
          /\ At(p, "read") /\ task'[p].at = "insert" /\ task[p].user = u
          => task'[p].score = Worth(papers[u])]_vars

\* A paper with every answer right gets the full score the pages announce:
\* totalScore counts configured numbers, CalculateScore questions that are
\* really on the paper and can really be answered.
FullMarksAreTotal ==
    \A u \in Users : HasPaper(u) =>
        LET key == [q \in QuestionIds |-> CorrectChoiceIDs(q)]
        IN CalculateScore(papers[u].questions, key) = TotalScore

-----------------------------------------------------------------------------
(***************************************************************************)
(* The stores in memory against those of the contest, RedisDrafts and      *)
(* ScoreTable.                                                             *)
(***************************************************************************)
\* What Redis would hold of a paper.
DraftOf(paper) == [attempt |-> paper.attempt, paper |-> paper.questions, left |-> paper.left]

DraftHash == [u \in Users |-> IF HasPaper(u) THEN DraftOf(papers[u]) ELSE Nil]

AnswersHash == [u \in Users |-> IF HasPaper(u) THEN papers[u].answers ELSE NoAnswers]

\* The answers here have no TTL, and DraftTTL is nowhere used.
Redis == INSTANCE RedisDrafts WITH
    Questions <- QuestionIds,
    Choices <- SUBSET AllChoiceIds,
    Key <- [q \in QuestionIds |-> {}],
    PaperSize <- Cardinality(QuestionIds),
    DraftTTL <- 1,
    DraftsMayExpire <- FALSE,
    drafts <- DraftHash,
    answers <- AnswersHash,
    answersTTL <- [u \in Users |-> -1],
    deadlines <- dueAt,
    locks <- [u \in Users |-> locks[u] = "held"]

\* The rows of the scores table that records are, one for each attempt.
RowsOf(records) ==
    [a \in {r.attempt : r \in records} |-> (CHOOSE r \in records : r.attempt = a).score]

Rows == [u \in Users |-> RowsOf(scores[u])]

Table == INSTANCE ScoreTable WITH
    Questions <- QuestionIds,
    Choices <- SUBSET AllChoiceIds,
    Key <- [q \in QuestionIds |-> {}],
    PaperSize <- Cardinality(QuestionIds),
    scores <- Rows

\* Nil is none of the things it stands for the absence of.
ASSUME NilAssumption ==
    /\ Nil \notin Paper \union Redis!Draft \union {"held"}
    /\ \A ids \in SUBSET AllChoiceIds : ids # Nil

\* Calls that write to the draft store: with the same arguments, Redis is left
\* as memory is, and gives the same answer.  The difference: Redis takes an
\* answer to a paper that is gone, memory reports an error and writes nothing.
SameWrite(p) ==
    /\ Create(p) => Redis!CreateScript(User(p), DraftOf(NewPaper(p)), Deadline + 1)
    /\ Save(p) =>
          IF Redis!DraftExists(User(p))
          THEN Redis!PutAnswer(User(p), task[p].question, task[p].ids)
               /\ UNCHANGED <<DraftHash, dueAt, locks>>
          ELSE UNCHANGED draftVars
    /\ Lock(p) => \E acquired \in BOOLEAN :
                    /\ Redis!AcquireLock(User(p), acquired)
                    /\ task'[p].at = IF acquired THEN "read" ELSE "idle"
    /\ Delete(p) => Redis!DeleteDraft(User(p))
    /\ Unlock(p) => Redis!ReleaseLock(User(p))

\* Calls that read it.  Where more users are due than a batch holds, Redis
\* gives the earliest of them and memory any.
SameRead(p) ==
    /\ Read(p) =>
          IF Redis!DraftExists(User(p))
          THEN /\ task'[p].at = "insert"
               /\ task'[p].attempt = DraftHash[User(p)].attempt
               /\ task'[p].score = CalculateScore(DraftHash[User(p)].paper,
                                                  AnswersHash[User(p)])
          ELSE task'[p].at = "unlock"
    /\ p \in Tickers /\ TickerDue(p) =>
          /\ queue'[p] \subseteq Redis!DueUsers
          /\ queue'[p] = Redis!DueUsers \/ Cardinality(queue'[p]) = BatchLimit

\* Calls to the store of scores.
SameScores(p) ==
    /\ Insert(p) => Table!InsertScore(User(p), task[p].attempt, task[p].score)
    /\ task[p].at = "idle" /\ task'[p].at = "create" =>
          task'[p].attempt = Table!CountAttempts(task'[p].user) + 1

\* Nothing else writes, but for the clock and locks that run out.
OnlyTheseWrite ==
    \/ UNCHANGED draftVars
    \/ \E p \in Procs : Create(p) \/ Save(p) \/ Lock(p) \/ Delete(p) \/ Unlock(p)
    \/ Tick /\ Redis!RedisTick
    \/ \E u \in Users : LockLapses(u) /\ Redis!ReleaseLock(u)

SameStep ==
    /\ \A p \in Procs : SameWrite(p) /\ SameRead(p) /\ SameScores(p)
    /\ OnlyTheseWrite

\* What the tests run on behaves like what the contest runs on: call by call,
\* with its arguments and results, but for the two differences named above
\* and the TTLs, which memory ignores.
StoresContract == Redis!RedisInit /\ Table!ScoresInit /\ [][SameStep]_vars
=============================================================================
