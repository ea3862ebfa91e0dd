----------------------------- MODULE RedisDrafts -----------------------------
(***************************************************************************)
(* The Redis side of the service (internal/store/redis_draft.go).  Each    *)
(* operator is one command, script or MULTI/EXEC block: Redis runs it      *)
(* atomically, and nothing spans two of them.                              *)
(***************************************************************************)
EXTENDS ContestModel

CONSTANTS
    DraftTTL,           \* ticks a draft is kept beyond its deadline
    DraftsMayExpire     \* may a draft reach its TTL before it is submitted?

\* Nothing validates the TTL that the environment sets.
ASSUME ExpiryAssumption ==
    /\ DraftTTL \in Int
    /\ DraftsMayExpire \in BOOLEAN

VARIABLES
    drafts,     \* hash  draft:<user>
    answers,    \* hash  draft:<user>:answers
    answersTTL, \* ticks until the answers lapse: -1 if overdue, or no answers
    deadlines,  \* sorted set  deadlines, one member per user
    locks       \* key   submit_lock:<user>

redisVars == <<drafts, answers, answersTTL, deadlines, locks>>

TTL == {-1} \union 0 .. (Deadline + DraftTTL)

RedisTypeOK ==
    /\ drafts \in [Users -> Draft \union {Nil}]
    /\ answers \in [Users -> Answers]
    /\ answersTTL \in [Users -> TTL]
    /\ deadlines \in [Users -> Timer \union {Nil}]
    /\ locks \in [Users -> BOOLEAN]

RedisInit ==
    /\ drafts = [u \in Users |-> Nil]
    /\ answers = [u \in Users |-> NoAnswers]
    /\ answersTTL = [u \in Users |-> -1]
    /\ deadlines = [u \in Users |-> Nil]
    /\ locks = [u \in Users |-> FALSE]

-----------------------------------------------------------------------------
DraftExists(u) == drafts[u] # Nil

\* The answers hash goes, deleted or at the end of its TTL.
DropAnswers(u) ==
    /\ answers' = [answers EXCEPT ![u] = NoAnswers]
    /\ answersTTL' = [answersTTL EXCEPT ![u] = -1]

\* EXPIRE with a TTL of zero or less deletes the key.
Expiring(d, ttl) == IF ttl > 0 THEN d ELSE Nil

\* Mutant: the script without its ZADD.
CreateScriptNoZAdd(u, d, ttl) ==
    /\ IF DraftExists(u)
       THEN UNCHANGED <<drafts, answers, answersTTL>>
       ELSE /\ drafts' = [drafts EXCEPT ![u] = Expiring(d, ttl)]
            /\ DropAnswers(u)
    /\ UNCHANGED <<deadlines, locks>>

\* Mutant: the script clears the answers before it looks for a draft.
CreateScriptClearsFirst(u, d, ttl) ==
    /\ DropAnswers(u)
    /\ IF DraftExists(u)
       THEN UNCHANGED <<drafts, deadlines>>
       ELSE /\ drafts' = [drafts EXCEPT ![u] = Expiring(d, ttl)]
            /\ deadlines' = [deadlines EXCEPT ![u] = d.left]
    /\ UNCHANGED locks

\* Mutant: the script writes the fields of the draft over an existing one.
CreateScriptOverwrites(u, d, ttl) ==
    /\ drafts' = [drafts EXCEPT ![u] = Expiring(d, ttl)]
    /\ deadlines' = [deadlines EXCEPT ![u] = d.left]
    /\ IF DraftExists(u) THEN UNCHANGED <<answers, answersTTL>> ELSE DropAnswers(u)
    /\ UNCHANGED locks

\* createDraftScript: one script, so one step.  An existing draft wins.
CreateScript(u, d, ttl) ==
    /\ IF DraftExists(u)
       THEN UNCHANGED <<drafts, answers, answersTTL, deadlines>>
       ELSE /\ drafts' = [drafts EXCEPT ![u] = Expiring(d, ttl)]
            /\ DropAnswers(u)
            /\ deadlines' = [deadlines EXCEPT ![u] = d.left]
    /\ UNCHANGED locks

PutAnswer(u, q, c) == answers' = [answers EXCEPT ![u][q] = c]

\* HSET and EXPIRE of the answers hash, whatever became of the draft in the
\* meantime: the TTL of the last answer written is that of all.
WriteAnswer(u, q, c, ttl) ==
    /\ \/ /\ ttl > 0
          /\ PutAnswer(u, q, c)
          /\ answersTTL' = [answersTTL EXCEPT ![u] = ttl]
       \/ /\ ttl <= 0
          /\ DropAnswers(u)
    /\ UNCHANGED <<drafts, deadlines, locks>>

\* DEL of both hashes and ZREM, by user name alone.
DeleteDraft(u) ==
    /\ drafts' = [drafts EXCEPT ![u] = Nil]
    /\ DropAnswers(u)
    /\ deadlines' = [deadlines EXCEPT ![u] = Nil]
    /\ UNCHANGED locks

\* Members of the sorted set whose deadline is now or earlier.
DueUsers == {u \in Users : deadlines[u] # Nil /\ deadlines[u] <= 0}

\* Mutant: a plain SET, which succeeds on a lock that is held.
AcquireLockNoNX(u, acquired) ==
    /\ acquired
    /\ locks' = [locks EXCEPT ![u] = TRUE]
    /\ UNCHANGED <<drafts, answers, answersTTL, deadlines>>

\* SETNX: acquired tells the caller whether the key was absent.  The value
\* is the constant "1", so a lock does not know who holds it.
AcquireLock(u, acquired) ==
    /\ acquired = ~locks[u]
    /\ locks' = [locks EXCEPT ![u] = TRUE]
    /\ UNCHANGED <<drafts, answers, answersTTL, deadlines>>

\* DEL of the lock key, whoever set it.
ReleaseLock(u) ==
    /\ locks' = [locks EXCEPT ![u] = FALSE]
    /\ UNCHANGED <<drafts, answers, answersTTL, deadlines>>

-----------------------------------------------------------------------------
(***************************************************************************)
(* Time and key expiry.  A draft is given DraftTTL beyond its deadline;    *)
(* its member of the sorted set has no TTL and stays behind.  The answers  *)
(* lapse at a time of their own, however long their draft has to live.     *)
(***************************************************************************)
RedisTick ==
    /\ drafts' = [u \in Users |->
           IF DraftExists(u)
           THEN [drafts[u] EXCEPT !.left = TimerElapsed(@)]
           ELSE Nil]
    /\ deadlines' = [u \in Users |->
           IF deadlines[u] # Nil THEN TimerElapsed(deadlines[u]) ELSE Nil]
    /\ answersTTL' = [u \in Users |-> TimerElapsed(answersTTL[u])]
    /\ UNCHANGED <<answers, locks>>

\* With a DraftTTL below zero that is possible before the deadline.
ExpireDraft(u) ==
    /\ DraftsMayExpire
    /\ DraftExists(u)
    /\ drafts[u].left < 0 \/ drafts[u].left + DraftTTL < 0
    /\ drafts' = [drafts EXCEPT ![u] = Nil]
    /\ UNCHANGED <<answers, answersTTL, deadlines, locks>>

ExpireAnswers(u) ==
    /\ answersTTL[u] < 0
    /\ answers[u] # NoAnswers
    /\ DropAnswers(u)
    /\ UNCHANGED <<drafts, deadlines, locks>>
=============================================================================
