---------------------------- MODULE MemoryStores ----------------------------
(***************************************************************************)
(* The stores the program uses with USE_MEMORY_STORE=1                     *)
(* (internal/store/memory.go).  Each operator is one method: it holds the  *)
(* mutex from beginning to end, so it is one step.  Times are kept as the  *)
(* ticks left until them.                                                  *)
(***************************************************************************)
EXTENDS QuestionBank

CONSTANTS
    Users,      \* usernames
    MaxTries,   \* attempts a user may have recorded
    Deadline    \* clock ticks a paper may be worked on

ASSUME StoresAssumption == {MaxTries, Deadline} \subseteq Nat \ {0}

VARIABLES
    papers,     \* s.papers
    dueAt,      \* s.deadlines
    locks,      \* s.locks: an entry stays when its time has "lapsed"
    scores      \* s.scores: the records of each user, sorted by attempt

draftVars == <<papers, dueAt, locks>>

storeVars == <<draftVars, scores>>

Timer == -1 .. Deadline

AllChoiceIds == {q * IdStride + i - 1 : q \in QuestionIds, i \in 1 .. MaxChoices}

NoAnswers == [q \in QuestionIds |-> Nil]

Paper == [attempt: 1 .. MaxTries, questions: SUBSET QuestionIds, left: Timer,
          answers: [QuestionIds -> (SUBSET AllChoiceIds) \union {Nil}]]

Result == [attempt: 1 .. MaxTries, score: Int]

StoresTypeOK ==
    /\ papers \in [Users -> Paper \union {Nil}]
    /\ dueAt \in [Users -> Timer \union {Nil}]
    /\ locks \in [Users -> {"held", "lapsed", Nil}]
    /\ \A u \in Users :
          /\ scores[u] \subseteq Result
          /\ \A r, s \in scores[u] : r.attempt = s.attempt => r = s

StoresInit ==
    /\ papers = [u \in Users |-> Nil]
    /\ dueAt = [u \in Users |-> Nil]
    /\ locks = [u \in Users |-> Nil]
    /\ scores = [u \in Users |-> {}]

HasPaper(u) == papers[u] # Nil

\* An existing paper wins.  The TTL is not used: a paper never expires.
MemCreate(u, p) ==
    /\ IF HasPaper(u)
       THEN UNCHANGED <<papers, dueAt>>
       ELSE /\ papers' = [papers EXCEPT ![u] = p]
            /\ dueAt' = [dueAt EXCEPT ![u] = p.left]
    /\ UNCHANGED locks

\* ErrDraftNotFound, and nothing written, where there is no paper.
MemSaveAnswer(u, q, ids) ==
    /\ papers' = IF HasPaper(u) THEN [papers EXCEPT ![u].answers[q] = ids] ELSE papers
    /\ UNCHANGED <<dueAt, locks>>

\* Mutant: the deadline stays behind.
MemDeletePaperOnly(u) ==
    /\ papers' = [papers EXCEPT ![u] = Nil]
    /\ UNCHANGED <<dueAt, locks>>

MemDelete(u) ==
    /\ papers' = [papers EXCEPT ![u] = Nil]
    /\ dueAt' = [dueAt EXCEPT ![u] = Nil]
    /\ UNCHANGED locks

Due == {u \in Users : dueAt[u] # Nil /\ dueAt[u] <= 0}

\* What Due may return: any of the users due, up to the limit, since the map
\* is walked in no particular order.
MemDue(limit) ==
    {S \in SUBSET Due : Cardinality(S) = limit \/ (Cardinality(S) < limit /\ S = Due)}

MemLockSubmit(u, acquired) ==
    /\ acquired = (locks[u] # "held")
    /\ locks' = [locks EXCEPT ![u] = "held"]
    /\ UNCHANGED <<papers, dueAt>>

\* Whoever took it.
MemUnlockSubmit(u) ==
    /\ locks' = [locks EXCEPT ![u] = Nil]
    /\ UNCHANGED <<papers, dueAt>>

\* Mutant: a second record of one attempt is taken.
MemInsertAgain(u, a, s) ==
    scores' = [scores EXCEPT ![u] = @ \union {[attempt |-> a, score |-> s]}]

MemCountAttempts(u) == Cardinality(scores[u])

\* A record of the attempt that is there already stays.
MemInsert(u, a, s) ==
    scores' = IF \E r \in scores[u] : r.attempt = a
              THEN scores
              ELSE [scores EXCEPT ![u] = @ \union {[attempt |-> a, score |-> s]}]

-----------------------------------------------------------------------------
(***************************************************************************)
(* The clock.  The ten seconds of a lock may run out at any time.          *)
(***************************************************************************)
Elapsed(t) == IF t = -1 THEN -1 ELSE t - 1

MemTick ==
    /\ papers' = [u \in Users |->
           IF HasPaper(u) THEN [papers[u] EXCEPT !.left = Elapsed(@)] ELSE Nil]
    /\ dueAt' = [u \in Users |-> IF dueAt[u] = Nil THEN Nil ELSE Elapsed(dueAt[u])]
    /\ UNCHANGED <<locks, scores>>

MemLockLapses(u) ==
    /\ locks[u] = "held"
    /\ locks' = [locks EXCEPT ![u] = "lapsed"]
    /\ UNCHANGED <<papers, dueAt>>
=============================================================================
