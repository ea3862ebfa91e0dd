------------------------ MODULE MemoryContestProofs ------------------------
(***************************************************************************)
(* Proofs about MemoryContest.                                             *)
(***************************************************************************)
EXTENDS MemoryContest, FiniteSetTheorems, TLAPS

-----------------------------------------------------------------------------
(***************************************************************************)
(* What Validate lets through has answers that are taken and that score.   *)
(***************************************************************************)
\* The correct choices of a question can be counted.
LEMMA CorrectChoicesFinite ==
    ASSUME BankTypeOK, NEW q \in QuestionIds
    PROVE  /\ IsFiniteSet({i \in DOMAIN choices[q] : choices[q][i]})
           /\ NCorrect(q) \in Nat
<1>1. DOMAIN choices[q] = 1 .. Len(choices[q]) /\ Len(choices[q]) \in Nat
    BY DEF BankTypeOK
<1>2. IsFiniteSet(1 .. Len(choices[q]))
    <2>1. 1 \in Int /\ Len(choices[q]) \in Int
        BY <1>1
    <2> QED BY <2>1, FS_Interval
<1>3. IsFiniteSet({i \in DOMAIN choices[q] : choices[q][i]})
    BY <1>1, <1>2, FS_Subset
<1> QED BY <1>3, FS_CardinalityType DEF NCorrect

\* Exactly one correct choice makes exactly one correct id; one or more make
\* at least one.
LEMMA CorrectIds ==
    ASSUME BankTypeOK, NEW q \in QuestionIds
    PROVE  /\ CorrectChoiceIDs(q) \subseteq ChoiceIds(q)
           /\ NCorrect(q) >= 1 => CorrectChoiceIDs(q) # {}
           /\ NCorrect(q) = 1 => Cardinality(CorrectChoiceIDs(q)) = 1
<1>1. CorrectChoiceIDs(q) \subseteq ChoiceIds(q)
    BY DEF CorrectChoiceIDs, ChoiceIds
<1>2. ASSUME NCorrect(q) >= 1 PROVE CorrectChoiceIDs(q) # {}
    <2>1. {i \in DOMAIN choices[q] : choices[q][i]} # {}
        BY <1>2, FS_EmptySet DEF NCorrect
    <2> QED BY <2>1 DEF CorrectChoiceIDs
<1>3. ASSUME NCorrect(q) = 1 PROVE Cardinality(CorrectChoiceIDs(q)) = 1
    <2>1. PICK i : {j \in DOMAIN choices[q] : choices[q][j]} = {i}
        BY <1>3, CorrectChoicesFinite, FS_Singleton DEF NCorrect
    <2>2. CorrectChoiceIDs(q) = {ChoiceId(q, i)}
        BY <2>1 DEF CorrectChoiceIDs
    <2> QED BY <2>2, FS_Singleton
<1> QED BY <1>1, <1>2, <1>3

\* Validate is enough for KeyAcceptable.
LEMMA ValidKeys ==
    ASSUME BankTypeOK, Valid
    PROVE  KeyAcceptable
<1> SUFFICES ASSUME NEW q \in Known
             PROVE  /\ Acceptable(q, CorrectChoiceIDs(q), FALSE)
                    /\ SameChoiceSet(CorrectChoiceIDs(q), CorrectChoiceIDs(q))
    BY DEF KeyAcceptable
<1>1. q \in QuestionIds /\ category[q] \in {"B", "R", "M"}
    BY DEF Known, BankTypeOK, Categories
<1>2. WellFormed(q)
    BY DEF Valid
<1>3. NCorrect(q) >= 1 /\ (category[q] # "M" => NCorrect(q) = 1)
    <2>1. NCorrect(q) \in Nat
        BY <1>1, CorrectChoicesFinite
    <2> QED BY <1>1, <1>2, <2>1 DEF WellFormed
<1> QED BY <1>1, <1>3, CorrectIds DEF Acceptable, SameChoiceSet

\* The bank keeps its types, and only a valid one is served.
BankInv == BankTypeOK /\ (phase = "serving" => Valid)

\* The empty bank has its types and is not served.
LEMMA BankInvInit == ASSUME Init PROVE BankInv
  BY BankAssumption DEF Init, BankInit, BankInv, BankTypeOK, Categories

\* A record only adds to the bank, and only while it is loaded.
LEMMA RecordsKeepTypes ==
    ASSUME BankTypeOK,
           \/ \E pk \in QuestionIds, c \in Categories : LoadQuestion(pk, c)
           \/ \E q \in QuestionIds, correct \in BOOLEAN : LoadChoice(q, correct)
    PROVE  BankTypeOK' /\ phase' # "serving"
<1>1. ASSUME NEW pk \in QuestionIds, NEW c \in Categories, LoadQuestion(pk, c)
      PROVE  BankTypeOK' /\ phase' # "serving"
    <2>1. CASE Duplicate(pk) /\ Fails
        BY <2>1 DEF BankTypeOK, Fails
    <2>2. CASE ~(Duplicate(pk) /\ Fails)
        <3>1. /\ phase' = "loading" /\ choices' = choices /\ counts' = counts
              /\ category' = [category EXCEPT ![pk] = c]
              /\ qids' = [qids EXCEPT ![c] = Append(@, pk)]
            BY <1>1, <2>2 DEF LoadQuestion
        <3>2. Append(qids[c], pk) \in Seq(QuestionIds)
            BY DEF BankTypeOK
        <3> QED BY <3>1, <3>2 DEF BankTypeOK
    <2> QED BY <2>1, <2>2
<1>2. ASSUME NEW q \in QuestionIds, NEW correct \in BOOLEAN, LoadChoice(q, correct)
      PROVE  BankTypeOK' /\ phase' # "serving"
    <2>1. CASE q \notin Known /\ Fails
        BY <2>1 DEF BankTypeOK, Fails
    <2>2. CASE ~(q \notin Known /\ Fails)
        <3>1. /\ phase' = "loading" /\ counts' = counts
              /\ category' = category /\ qids' = qids
              /\ choices' = [choices EXCEPT ![q] = Append(@, correct)]
            BY <1>2, <2>2 DEF LoadChoice
        <3>2. Append(choices[q], correct) \in Seq(BOOLEAN)
            BY DEF BankTypeOK
        <3> QED BY <3>1, <3>2 DEF BankTypeOK
    <2> QED BY <2>1, <2>2
<1> QED BY <1>1, <1>2

\* What the bank is validated by depends on nothing but the bank.
LEMMA ValidStable ==
    ASSUME Valid, category' = category, choices' = choices
    PROVE  Valid'
  BY DEF Valid, Known, WellFormed, NCorrect

\* BankInv is inductive.
LEMMA BankInvNext == ASSUME BankInv, [Next]_vars PROVE BankInv'
<1>1. ASSUME LoadNext PROVE BankInv'
    <2>1. CASE \/ \E pk \in QuestionIds, c \in Categories : LoadQuestion(pk, c)
               \/ \E q \in QuestionIds, correct \in BOOLEAN : LoadChoice(q, correct)
        BY <2>1, RecordsKeepTypes DEF BankInv
    <2>2. CASE BadRecord
        BY <2>2 DEF BadRecord, Fails, BankInv, BankTypeOK
    <2>3. CASE EndOfFile
        <3>1. BankTypeOK'
            BY <2>3 DEF EndOfFile, BankInv, BankTypeOK
        <3>2. ASSUME phase' = "serving" PROVE Valid'
            BY <2>3, <3>2, ValidStable DEF EndOfFile
        <3> QED BY <3>1, <3>2 DEF BankInv
    <2> QED BY <1>1, <2>1, <2>2, <2>3 DEF LoadNext
<1>2. ASSUME UNCHANGED bankVars PROVE BankInv'
    BY <1>2, ValidStable DEF bankVars, BankInv, BankTypeOK
<1>3. CASE Load
    BY <1>3, <1>1 DEF Load
<1>4. ASSUME NEW p \in Handlers, Handle(p) PROVE UNCHANGED bankVars
    BY <1>4 DEF Handle, Exam, Submit, Create, Answer, Save
<1>5. ASSUME NEW p \in Procs, HandIn(p) PROVE UNCHANGED bankVars
    BY <1>5 DEF HandIn, Lock, Read, Insert, Delete, Unlock
<1>6. ASSUME NEW t \in Tickers, TickerDue(t) \/ \E u \in Users : TickerNext(t, u)
      PROVE  UNCHANGED bankVars
    BY <1>6 DEF TickerDue, TickerNext
<1>7. ASSUME Tick \/ \E u \in Users : LockLapses(u) PROVE UNCHANGED bankVars
    BY <1>7 DEF Tick, LockLapses
<1>8. CASE UNCHANGED vars
    BY <1>8, <1>2 DEF vars
<1> QED BY <1>2, <1>3, <1>4, <1>5, <1>6, <1>7, <1>8 DEF Next

\* Whatever the file holds, a program that serves has no question whose
\* correct answer is refused or cannot score.
THEOREM KeysAcceptable == Spec => []KeyAcceptable
<1>1. Init => BankInv
    BY BankInvInit
<1>2. BankInv /\ [Next]_vars => BankInv'
    BY BankInvNext
<1>3. BankInv => KeyAcceptable
    BY ValidKeys DEF BankInv, KeyAcceptable
<1> QED BY <1>1, <1>2, <1>3, PTL DEF Spec

-----------------------------------------------------------------------------
(***************************************************************************)
(* The papers drawn from the bank are full.                                *)
(***************************************************************************)
\* The lists Load makes name each question once, under its own category.
ListsOK ==
    \A c \in Categories :
        /\ \A i, j \in DOMAIN qids[c] : qids[c][i] = qids[c][j] => i = j
        /\ \A i \in DOMAIN qids[c] : category[qids[c][i]] = c

Full(Q) == \A c \in Categories : Cardinality({q \in Q : category[q] = c}) = counts[c]

\* Papers come up once the bank is served, and it does not change any more.
PapersInv ==
    /\ ListsOK
    /\ \A u \in Users : HasPaper(u) => phase = "serving" /\ Full(papers[u].questions)
    /\ \A p \in Procs : task[p].at = "create" =>
          phase = "serving" /\ Full(task[p].questions)

\* A draw of places without replacement is a draw of as many questions.
LEMMA DrawnPapersFull ==
    ASSUME BankTypeOK, ListsOK, NEW Q \in PickPaper
    PROVE  Full(Q)
<1>1. PICK I \in Draws : Q = UNION {{qids[c][i] : i \in I[c]} : c \in Categories}
    BY DEF PickPaper
<1>2. SUFFICES ASSUME NEW c \in Categories
               PROVE  Cardinality({q \in Q : category[q] = c}) = counts[c]
    BY DEF Full
<1>3. \A d \in Categories : I[d] \subseteq DOMAIN qids[d]
    BY DEF Draws
<1> DEFINE T == {q \in Q : category[q] = c}
           f == [i \in I[c] |-> qids[c][i]]
<1>4. T = {qids[c][i] : i \in I[c]}
    <2>1. ASSUME NEW q \in T PROVE q \in {qids[c][i] : i \in I[c]}
        <3>1. PICK d \in Categories : \E i \in I[d] : q = qids[d][i]
            BY <1>1
        <3>2. d = c
            BY <1>3, <3>1 DEF ListsOK
        <3> QED BY <3>1, <3>2
    <2>2. ASSUME NEW i \in I[c] PROVE qids[c][i] \in T
        BY <1>1, <1>3 DEF ListsOK
    <2> QED BY <2>1, <2>2
<1>5. f \in Bijection(I[c], T)
    <2>1. \A i, j \in I[c] : f[i] = f[j] => i = j
        BY <1>3 DEF ListsOK
    <2>2. f \in [I[c] -> T] /\ \A t \in T : \E i \in I[c] : f[i] = t
        BY <1>4
    <2> HIDE DEF f, T
    <2> QED BY <2>1, <2>2 DEF Bijection, Injection, Surjection, IsInjective
<1>6. IsFiniteSet(I[c])
    <2>1. Cardinality(QuestionIds) \in Nat
        BY BankAssumption, FS_CardinalityType
    <2>2. IsFiniteSet(1 .. Cardinality(QuestionIds))
        BY <2>1, FS_Interval
    <2>3. I[c] \subseteq 1 .. Cardinality(QuestionIds)
        BY DEF Draws
    <2> QED BY <2>2, <2>3, FS_Subset
<1>7. Cardinality(T) = Cardinality(I[c])
    <2>1. ExistsBijection(I[c], T)
        BY <1>5 DEF ExistsBijection
    <2> QED BY <1>6, <2>1, FS_Bijection
<1> QED BY <1>7 DEF Draws

\* A question Load takes is new, so it is on no list yet.
LEMMA ListsStayOK ==
    ASSUME BankTypeOK, ListsOK, LoadNext
    PROVE  ListsOK'
<1>1. ASSUME UNCHANGED <<category, qids>> PROVE ListsOK'
    BY <1>1 DEF ListsOK
<1>2. ASSUME NEW pk \in QuestionIds, NEW c \in Categories, LoadQuestion(pk, c),
             category' # category \/ qids' # qids
      PROVE  ListsOK'
    <2>1. /\ category[pk] = Nil
          /\ category' = [category EXCEPT ![pk] = c]
          /\ qids' = [qids EXCEPT ![c] = Append(@, pk)]
        BY <1>2 DEF LoadQuestion, Fails, Duplicate, Known
    <2>2. ASSUME NEW d \in Categories
          PROVE  /\ \A i \in DOMAIN qids[d] : qids[d][i] # pk
                 /\ qids[d] \in Seq(QuestionIds)
        BY <2>1, BankAssumption DEF ListsOK, BankTypeOK
    <2>3. ASSUME NEW d \in Categories, d # c
          PROVE  qids'[d] = qids[d]
        BY <2>1, <2>3 DEF BankTypeOK
    <2>4. /\ qids'[c] = Append(qids[c], pk) /\ qids[c] \in Seq(QuestionIds)
          /\ category'[pk] = c
          /\ \A q \in QuestionIds : q # pk => category'[q] = category[q]
        BY <2>1 DEF BankTypeOK
    <2>5. ASSUME NEW d \in Categories, d # c
          PROVE  /\ \A i, j \in DOMAIN qids'[d] : qids'[d][i] = qids'[d][j] => i = j
                 /\ \A i \in DOMAIN qids'[d] : category'[qids'[d][i]] = d
        BY <2>2, <2>3, <2>4, <2>5 DEF ListsOK
    <2>6. /\ DOMAIN qids'[c] = DOMAIN qids[c] \union {Len(qids[c]) + 1}
          /\ Len(qids[c]) + 1 \notin DOMAIN qids[c]
          /\ \A i \in DOMAIN qids[c] : qids'[c][i] = qids[c][i] /\ qids[c][i] \in QuestionIds
          /\ qids'[c][Len(qids[c]) + 1] = pk
        BY <2>4
    <2>7. /\ \A i, j \in DOMAIN qids'[c] : qids'[c][i] = qids'[c][j] => i = j
          /\ \A i \in DOMAIN qids'[c] : category'[qids'[c][i]] = c
        BY <2>2, <2>4, <2>6 DEF ListsOK
    <2> QED BY <2>5, <2>7 DEF ListsOK
<1> QED BY <1>1, <1>2 DEF LoadNext, LoadChoice, BadRecord, EndOfFile, Fails

\* Before the bank is read there are no papers.
LEMMA PapersInvInit == ASSUME Init PROVE PapersInv
  BY DEF Init, BankInit, StoresInit, PapersInv, ListsOK, HasPaper, Idle

\* Where the bank stays, so does what makes a paper full.
LEMMA FullStable ==
    ASSUME UNCHANGED bankVars
    PROVE  /\ ListsOK => ListsOK'
           /\ \A Q : Full(Q) => Full(Q)'
  BY DEF bankVars, ListsOK, Full

\* A step of the contest keeps papers full if each paper, stored or drawn, is
\* an old one or a full one.
LEMMA PapersStayFull ==
    ASSUME PapersInv, UNCHANGED bankVars,
           \A u \in Users : HasPaper(u)' =>
              \/ HasPaper(u) /\ papers'[u].questions = papers[u].questions
              \/ phase = "serving" /\ Full(papers'[u].questions),
           \A p \in Procs : task'[p].at = "create" =>
              \/ task[p].at = "create" /\ task'[p].questions = task[p].questions
              \/ phase = "serving" /\ Full(task'[p].questions)
    PROVE  PapersInv'
<1>1. phase' = phase
    BY DEF bankVars
<1>2. ListsOK'
    BY FullStable DEF PapersInv
<1>3. ASSUME NEW u \in Users, HasPaper(u)'
      PROVE  phase' = "serving" /\ Full(papers[u].questions)'
    <2>1. phase = "serving" /\ Full(papers'[u].questions)
        BY <1>3 DEF PapersInv
    <2> QED BY <1>1, <2>1 DEF Full, bankVars
<1>4. ASSUME NEW p \in Procs, task'[p].at = "create"
      PROVE  phase' = "serving" /\ Full(task[p].questions)'
    <2>1. phase = "serving" /\ Full(task'[p].questions)
        BY <1>4 DEF PapersInv
    <2> QED BY <1>1, <2>1 DEF Full, bankVars
<1> QED BY <1>2, <1>3, <1>4 DEF PapersInv

-----------------------------------------------------------------------------
(***************************************************************************)
(* Each operation of the stores in memory is the one of Redis.             *)
(***************************************************************************)
\* The part of StoresTypeOK about papers, deadlines and locks.
DraftsOK ==
    /\ papers \in [Users -> Paper \union {Nil}]
    /\ dueAt \in [Users -> Timer \union {Nil}]
    /\ locks \in [Users -> {"held", "lapsed", Nil}]

\* A paper in memory is a draft of Redis, and never the marker for none.
LEMMA DraftOfPaper ==
    \A paper \in Paper : DraftOf(paper) \in Redis!Draft /\ DraftOf(paper) # Nil
<1>1. \A paper \in Paper : DraftOf(paper) \in Redis!Draft
    BY DEF DraftOf, Paper, Timer, Redis!Draft, Redis!Timer, Redis!Attempts
<1> QED BY <1>1, NilAssumption

\* What Redis would have of the locks.
Held == [u \in Users |-> locks[u] = "held"]

\* Redis would have a draft of exactly the users with a paper.
LEMMA DraftsExist ==
    ASSUME DraftsOK, NEW u \in Users
    PROVE  /\ DraftHash[u] # Nil <=> HasPaper(u)
           /\ Redis!DraftExists(u) <=> HasPaper(u)
  BY DraftOfPaper DEF DraftsOK, DraftHash, HasPaper, Redis!DraftExists

\* Create of the map is the create script: the first paper wins, and the TTL
\* the script is given is one that keeps it.
LEMMA CreateIsCreate ==
    ASSUME DraftsOK, NEW u \in Users, NEW p \in Paper, p.answers = NoAnswers, MemCreate(u, p)
    PROVE  Redis!CreateScript(u, DraftOf(p), Deadline + 1) /\ DraftsOK'
<1>1. CASE HasPaper(u)
    <2>1. UNCHANGED <<papers, dueAt, locks>>
        BY <1>1 DEF MemCreate
    <2>2. Redis!DraftExists(u)
        BY <1>1, DraftsExist
    <2>3. UNCHANGED <<DraftHash, AnswersHash, dueAt, Held>>
        BY <2>1 DEF DraftHash, AnswersHash, Held, HasPaper
    <2> QED
        BY <2>1, <2>2, <2>3 DEF Redis!CreateScript, Held, DraftsOK
<1>2. CASE ~HasPaper(u)
    <2>1. /\ papers' = [papers EXCEPT ![u] = p]
          /\ dueAt' = [dueAt EXCEPT ![u] = p.left]
          /\ locks' = locks
        BY <1>2 DEF MemCreate
    <2>2. p # Nil
        BY NilAssumption
    <2>3. DraftHash' = [DraftHash EXCEPT ![u] = DraftOf(p)]
        BY <2>1, <2>2 DEF DraftHash, HasPaper, DraftsOK
    <2>4. AnswersHash' = [AnswersHash EXCEPT ![u] = NoAnswers]
        BY <2>1, <2>2 DEF AnswersHash, HasPaper, DraftsOK
    <2>5. dueAt' = [dueAt EXCEPT ![u] = DraftOf(p).left] /\ Held' = Held
        BY <2>1 DEF DraftOf, Held
    <2>6. ~Redis!DraftExists(u)
        BY <1>2, DraftsExist
    <2>7. Redis!Expiring(DraftOf(p), Deadline + 1) = DraftOf(p)
        BY StoresAssumption DEF Redis!Expiring
    <2>8. DraftsOK'
        BY <2>1 DEF DraftsOK, Paper
    <2> QED
        BY <2>3, <2>4, <2>5, <2>6, <2>7, <2>8 DEF Redis!CreateScript, Redis!DropAnswers,
           Redis!NoAnswers, NoAnswers, Held
<1> QED BY <1>1, <1>2

\* Delete of paper and deadline is the MULTI/EXEC block.
LEMMA DeleteIsDelete ==
    ASSUME DraftsOK, NEW u \in Users, MemDelete(u)
    PROVE  Redis!DeleteDraft(u) /\ DraftsOK'
  BY DEF DraftsOK, MemDelete, HasPaper, DraftHash, AnswersHash, Redis!DeleteDraft,
     Redis!DropAnswers, Redis!NoAnswers, NoAnswers

\* A map entry whose time is over is taken like a key that is gone.
LEMMA LockIsLock ==
    ASSUME DraftsOK, NEW u \in Users, NEW acquired \in BOOLEAN, MemLockSubmit(u, acquired)
    PROVE  Redis!AcquireLock(u, acquired) /\ DraftsOK'
  BY DEF DraftsOK, MemLockSubmit, HasPaper, DraftHash, AnswersHash, Redis!AcquireLock

\* A lock whose time is over is free, as one that is released.
LEMMA UnlockIsUnlock ==
    ASSUME DraftsOK, NEW u \in Users, MemUnlockSubmit(u) \/ MemLockLapses(u)
    PROVE  Redis!ReleaseLock(u) /\ DraftsOK'
<1>1. PICK l \in {"lapsed", Nil} : locks' = [locks EXCEPT ![u] = l]
    BY DEF MemUnlockSubmit, MemLockLapses
<1>2. UNCHANGED <<papers, dueAt>>
    BY DEF MemUnlockSubmit, MemLockLapses
<1>3. l # "held"
    BY <1>1, NilAssumption
<1>4. Held' = [Held EXCEPT ![u] = FALSE]
    BY <1>1, <1>3 DEF Held, DraftsOK
<1>5. UNCHANGED <<DraftHash, AnswersHash, dueAt>>
    BY <1>2 DEF DraftHash, AnswersHash, HasPaper
<1>6. DraftsOK'
    BY <1>1, <1>2 DEF DraftsOK
<1> QED BY <1>4, <1>5, <1>6 DEF Redis!ReleaseLock, Held

\* A timer that ticks stays a timer.
LEMMA ElapsedTimer == \A t \in Timer : Elapsed(t) \in Timer
  BY StoresAssumption DEF Elapsed, Timer

\* Time passes for the maps as it does for the keys of Redis.
LEMMA TickIsTick ==
    ASSUME DraftsOK, MemTick
    PROVE  Redis!RedisTick /\ DraftsOK'
<1>1. /\ papers' = [u \in Users |->
             IF HasPaper(u) THEN [papers[u] EXCEPT !.left = Elapsed(@)] ELSE Nil]
      /\ dueAt' = [u \in Users |-> IF dueAt[u] = Nil THEN Nil ELSE Elapsed(dueAt[u])]
      /\ locks' = locks
    BY DEF MemTick
<1>2. ASSUME NEW u \in Users, HasPaper(u)
      PROVE  /\ papers'[u] \in Paper /\ papers'[u] # Nil
             /\ papers'[u].answers = papers[u].answers
             /\ DraftOf(papers'[u]) = [DraftOf(papers[u]) EXCEPT !.left = Elapsed(@)]
    <2>1. papers[u] \in Paper /\ papers'[u] = [papers[u] EXCEPT !.left = Elapsed(@)]
        BY <1>1, <1>2 DEF DraftsOK, HasPaper
    <2>2. papers[u].left \in Timer
        BY <2>1 DEF Paper
    <2>3. papers'[u] \in Paper
        BY <2>1, <2>2, ElapsedTimer DEF Paper
    <2>4. papers'[u].answers = papers[u].answers
        BY <2>1 DEF Paper
    <2>5. DraftOf(papers'[u]) = [DraftOf(papers[u]) EXCEPT !.left = Elapsed(@)]
        BY <2>1 DEF DraftOf, Paper
    <2> QED BY <2>3, <2>4, <2>5, NilAssumption
<1>3. ASSUME NEW u \in Users PROVE HasPaper(u)' <=> HasPaper(u)
    BY <1>1, <1>2 DEF HasPaper
<1>4. DraftHash' = [u \in Users |->
          IF DraftHash[u] # Nil THEN [DraftHash[u] EXCEPT !.left = Elapsed(@)] ELSE Nil]
    <2>1. ASSUME NEW u \in Users
          PROVE  DraftHash'[u] = IF DraftHash[u] # Nil THEN [DraftHash[u] EXCEPT !.left = Elapsed(@)]
                                                ELSE Nil
        BY <1>2, <1>3, DraftsExist DEF DraftHash
    <2> QED BY <2>1 DEF DraftHash
<1>5. AnswersHash' = AnswersHash
    BY <1>2, <1>3 DEF AnswersHash
<1>6. dueAt' = [u \in Users |-> IF dueAt[u] # Nil THEN Elapsed(dueAt[u]) ELSE Nil]
    BY <1>1
<1>7. Held' = Held
    BY <1>1 DEF Held
<1>8. DraftsOK'
    <2>1. papers' \in [Users -> Paper \union {Nil}]
        BY <1>1, <1>2
    <2>2. dueAt' \in [Users -> Timer \union {Nil}]
        BY <1>1, ElapsedTimer DEF DraftsOK
    <2> QED BY <1>1, <2>1, <2>2 DEF DraftsOK
<1> QED BY <1>4, <1>5, <1>6, <1>7, <1>8 DEF Redis!RedisTick, Redis!DraftExists,
        Redis!TimerElapsed, Elapsed, Held

\* SaveAnswer writes one field of the answers, or finds no paper.
LEMMA SaveIsWrite ==
    ASSUME DraftsOK, NEW u \in Users, NEW q \in QuestionIds, NEW ids \in SUBSET AllChoiceIds,
           MemSaveAnswer(u, q, ids)
    PROVE  /\ IF Redis!DraftExists(u)
              THEN Redis!PutAnswer(u, q, ids) /\ UNCHANGED <<DraftHash, dueAt, locks>>
              ELSE UNCHANGED draftVars
           /\ DraftsOK'
<1>1. CASE ~HasPaper(u)
    BY <1>1, DraftsExist DEF MemSaveAnswer, draftVars, DraftsOK
<1>2. CASE HasPaper(u)
    <2>1. papers' = [papers EXCEPT ![u].answers[q] = ids] /\ UNCHANGED <<dueAt, locks>>
        BY <1>2 DEF MemSaveAnswer
    <2>2. papers[u] \in Paper
        BY <1>2 DEF DraftsOK, HasPaper
    <2>3. papers'[u] = [papers[u] EXCEPT !.answers[q] = ids]
        BY <2>1 DEF DraftsOK
    <2>4. /\ papers'[u] \in Paper
          /\ papers'[u].answers = [papers[u].answers EXCEPT ![q] = ids]
          /\ DraftOf(papers'[u]) = DraftOf(papers[u])
        BY <2>2, <2>3 DEF Paper, DraftOf
    <2>5. papers'[u] # Nil
        BY <2>4, NilAssumption
    <2>6. DraftHash' = DraftHash
        BY <1>2, <2>1, <2>4, <2>5 DEF DraftHash, HasPaper, DraftsOK
    <2>7. AnswersHash' = [AnswersHash EXCEPT ![u][q] = ids]
        BY <1>2, <2>1, <2>4, <2>5 DEF AnswersHash, HasPaper, DraftsOK
    <2>8. DraftsOK'
        BY <2>1, <2>4 DEF DraftsOK
    <2> QED BY <1>2, <2>1, <2>6, <2>7, <2>8, DraftsExist DEF Redis!PutAnswer
<1> QED BY <1>1, <1>2

\* The records of a user can be counted, by their attempts.
ScoresOK ==
    /\ DOMAIN scores = Users
    /\ \A u \in Users :
          /\ IsFiniteSet(scores[u])
          /\ \A r, s \in scores[u] : r.attempt = s.attempt => r = s

\* The table counts as the map does.
LEMMA OneCardinality == \A S : Table!Cardinality(S) = Cardinality(S)
  BY DEF Table!Cardinality, Cardinality

\* There are as many records of a user as rows of the table.
LEMMA CountIsCount ==
    ASSUME ScoresOK, NEW u \in Users
    PROVE  MemCountAttempts(u) = Table!CountAttempts(u)
<1> DEFINE A == {r.attempt : r \in scores[u]}
           f == [r \in scores[u] |-> r.attempt]
<1>1. f \in Bijection(scores[u], A)
    <2>1. f \in [scores[u] -> A] /\ \A a \in A : \E r \in scores[u] : f[r] = a
        OBVIOUS
    <2>2. \A r, s \in scores[u] : f[r] = f[s] => r = s
        BY DEF ScoresOK
    <2> HIDE DEF f, A
    <2> QED BY <2>1, <2>2 DEF Bijection, Injection, Surjection, IsInjective
<1>2. Cardinality(A) = Cardinality(scores[u])
    <2>1. ExistsBijection(scores[u], A) /\ IsFiniteSet(scores[u])
        BY <1>1 DEF ExistsBijection, ScoresOK
    <2> QED BY <2>1, FS_Bijection
<1>3. DOMAIN Rows[u] = A
    BY DEF Rows, RowsOf
<1> QED BY <1>2, <1>3, OneCardinality DEF MemCountAttempts, Table!CountAttempts, Table!Recorded

\* One more record is one more row.
LEMMA OneMoreRow ==
    ASSUME NEW S, \A r, t \in S : r.attempt = t.attempt => r = t,
           NEW a, NEW s, \A r \in S : r.attempt # a
    PROVE  RowsOf(S \union {[attempt |-> a, score |-> s]}) = Table!RowsWith(RowsOf(S), a, s)
<1> DEFINE n == [attempt |-> a, score |-> s]
           T == S \union {n}
           A == {r.attempt : r \in S}
           W == Table!RowsWith(RowsOf(S), a, s)
<1>1. n.attempt = a /\ n.score = s
    OBVIOUS
<1>2. {r.attempt : r \in T} = A \union {a}
    BY <1>1
<1>3. DOMAIN RowsOf(T) = A \union {a} /\ DOMAIN RowsOf(S) = A
    BY <1>2 DEF RowsOf
<1>4. RowsOf(T)[a] = s
    <2>1. \A x \in T : x.attempt = a => x = n
        BY <1>1
    <2>2. (CHOOSE x \in T : x.attempt = a) = n
        BY <1>1, <2>1
    <2> HIDE DEF n
    <2> QED BY <1>1, <1>2, <2>2 DEF RowsOf
<1>5. ASSUME NEW b \in A PROVE RowsOf(T)[b] = RowsOf(S)[b] /\ b # a
    <2>1. PICK r \in S : r.attempt = b
        OBVIOUS
    <2>2. b # a /\ n.attempt # b
        BY <1>1, <2>1
    <2>3. (CHOOSE x \in S : x.attempt = b) = r
        BY <2>1
    <2> HIDE DEF n
    <2>4. (CHOOSE x \in T : x.attempt = b) = r
        <3>1. \A x \in T : x.attempt = b => x = r
            BY <2>1, <2>2
        <3> QED BY <2>1, <3>1
    <2> QED BY <1>2, <2>2, <2>3, <2>4 DEF RowsOf
<1>6. W = [i \in A \union {a} |-> IF i = a THEN s ELSE RowsOf(S)[i]]
    BY <1>3 DEF Table!RowsWith
<1>7. RowsOf(T) = [i \in A \union {a} |-> RowsOf(T)[i]]
    BY <1>2 DEF RowsOf
<1> HIDE DEF T, W, A
<1>8. W = RowsOf(T)
    BY <1>4, <1>5, <1>6, <1>7
<1> QED BY <1>8 DEF T, W

\* A record is taken, or not, as a row of the table is.
LEMMA InsertIsInsert ==
    ASSUME ScoresOK, NEW u \in Users, NEW a, NEW s, MemInsert(u, a, s)
    PROVE  Table!InsertScore(u, a, s)
<1>1. Table!Recorded(u) = {r.attempt : r \in scores[u]}
    BY DEF Table!Recorded, Rows, RowsOf
<1>2. CASE \E r \in scores[u] : r.attempt = a
    <2>1. scores' = scores
        BY <1>2 DEF MemInsert
    <2>2. Rows' = Rows
        BY <2>1 DEF Rows
    <2> QED BY <1>1, <1>2, <2>2 DEF Table!InsertScore
<1>3. CASE ~\E r \in scores[u] : r.attempt = a
    <2> DEFINE T == scores[u] \union {[attempt |-> a, score |-> s]}
    <2>1. scores' = [scores EXCEPT ![u] = T]
        BY <1>3 DEF MemInsert
    <2>2. Rows' = [Rows EXCEPT ![u] = RowsOf(T)]
        <3> HIDE DEF T
        <3> QED BY <2>1 DEF Rows, ScoresOK
    <2>3. RowsOf(T) = Table!RowsWith(Rows[u], a, s)
        BY <1>3, OneMoreRow DEF ScoresOK, Rows
    <2> QED BY <1>1, <1>3, <2>2, <2>3 DEF Table!InsertScore
<1> QED BY <1>2, <1>3

-----------------------------------------------------------------------------
(***************************************************************************)
(* Every call of the contest does what it would to Redis and PostgreSQL.   *)
(***************************************************************************)
\* What a process that is about to call a store holds for it.
TaskOK(t) ==
    /\ DOMAIN t = DOMAIN Idle
    /\ t.at # "idle" => t.user \in Users
    /\ t.at = "create" => /\ t.attempt \in 1 .. MaxTries
                          /\ t.questions \in SUBSET QuestionIds
                          /\ t.left \in Timer
    /\ t.at = "save" => t.question \in QuestionIds /\ t.ids \in SUBSET AllChoiceIds

TasksOK == DOMAIN task = Procs /\ \A p \in Procs : TaskOK(task[p])

StoreInv == DraftsOK /\ TasksOK /\ ScoresOK

\* The empty maps keep the invariant and are an empty Redis and an empty table.
LEMMA StoreInvInit ==
    ASSUME Init
    PROVE  StoreInv /\ Redis!RedisInit /\ Table!ScoresInit
<1>1. TaskOK(Idle)
    BY DEF TaskOK, Idle
<1>2. StoreInv
    BY <1>1, FS_EmptySet DEF Init, StoresInit, StoreInv, DraftsOK, TasksOK, ScoresOK
<1>3. \A u \in Users : ~HasPaper(u) /\ locks[u] # "held"
    BY NilAssumption DEF Init, StoresInit, HasPaper
<1>4. Redis!RedisInit
    BY <1>3 DEF Init, StoresInit, DraftHash, AnswersHash, Redis!RedisInit, Redis!NoAnswers,
       NoAnswers
<1>5. Table!ScoresInit
    <2>1. ASSUME NEW u \in Users PROVE Rows[u] = [a \in {} |-> 0]
        <3>1. {r.attempt : r \in scores[u]} = {}
            BY DEF Init, StoresInit
        <3> QED BY <3>1 DEF Rows, RowsOf
    <2>2. Rows = [u \in Users |-> Rows[u]]
        BY DEF Rows
    <2> QED BY <2>1, <2>2 DEF Table!ScoresInit
<1> QED BY <1>2, <1>4, <1>5

\* A process that takes on a task that is in order keeps the tasks so.
LEMMA BecomeOK ==
    ASSUME TasksOK, NEW p \in Procs, NEW t, TaskOK(t), Become(p, t)
    PROVE  TasksOK'
<1>1. DOMAIN task' = Procs
    BY DEF TasksOK, Become
<1>2. \A r \in Procs : task'[r] = t \/ task'[r] = task[r]
    BY DEF TasksOK, Become
<1>3. \A r \in Procs : TaskOK(task'[r])
    BY <1>2 DEF TasksOK
<1> QED BY <1>1, <1>3 DEF TasksOK, TaskOK

\* On the way through Submit a task needs nothing but a user.
LEMMA SubmitTask ==
    ASSUME NEW u \in Users, NEW site \in {"lock", "read", "insert", "delete", "unlock"}
    PROVE  TaskOK([Idle EXCEPT !.at = site, !.user = u]) /\ TaskOK(Idle)
  BY DEF TaskOK, Idle

\* A task that goes on to the next call of Submit stays in order.
LEMMA MovedTask ==
    ASSUME NEW t, TaskOK(t), t.at # "idle",
           NEW site \in {"lock", "read", "insert", "delete", "unlock"}
    PROVE  TaskOK([t EXCEPT !.at = site])
<1> DEFINE m == [t EXCEPT !.at = site]
<1>1. "at" \in DOMAIN t /\ "user" \in DOMAIN t
    BY DEF TaskOK, Idle
<1>2. DOMAIN m = DOMAIN t /\ m.at = site /\ m.user = t.user
    BY <1>1
<1> QED BY <1>2 DEF TaskOK

\* The papers PickPaper draws are made of the questions of the bank.
LEMMA PapersOfTheBank == ASSUME BankTypeOK PROVE PickPaper \subseteq SUBSET QuestionIds
<1> SUFFICES ASSUME NEW I \in Draws, NEW c \in Categories, NEW i \in I[c]
             PROVE  qids[c][i] \in QuestionIds
    BY DEF PickPaper
<1>1. I[c] \subseteq DOMAIN qids[c]
    BY DEF Draws
<1> QED BY <1>1 DEF BankTypeOK

\* GetOrCreatePaper decides on a paper within the limits.
LEMMA ExamStep ==
    ASSUME BankTypeOK, StoreInv, NEW p \in Procs, NEW u \in Users, Exam(p, u)
    PROVE  StoreInv'
<1>1. UNCHANGED <<papers, dueAt, locks, scores>>
    BY DEF Exam, storeVars, draftVars
<1>2. PICK t : Become(p, t) /\ TaskOK(t)
    <2>1. CASE Become(p, [Idle EXCEPT !.at = "lock", !.user = u])
        BY <2>1, SubmitTask
    <2>2. CASE /\ MemCountAttempts(u) < MaxTries
               /\ \E S \in PickPaper :
                    Become(p, [Idle EXCEPT !.at = "create", !.user = u, !.questions = S,
                                           !.left = Deadline,
                                           !.attempt = MemCountAttempts(u) + 1])
        <3>1. MemCountAttempts(u) \in Nat
            BY FS_CardinalityType DEF StoreInv, ScoresOK, MemCountAttempts
        <3>2. MemCountAttempts(u) + 1 \in 1 .. MaxTries /\ Deadline \in Timer
            BY <2>2, <3>1, StoresAssumption DEF Timer
        <3>3. PICK S \in PickPaper :
                Become(p, [Idle EXCEPT !.at = "create", !.user = u, !.questions = S,
                                       !.left = Deadline,
                                       !.attempt = MemCountAttempts(u) + 1])
            BY <2>2
        <3>4. TaskOK([Idle EXCEPT !.at = "create", !.user = u, !.questions = S,
                                  !.left = Deadline,
                                  !.attempt = MemCountAttempts(u) + 1])
            BY <3>2, PapersOfTheBank DEF TaskOK, Idle
        <3> QED BY <3>3, <3>4
    <2> QED BY <2>1, <2>2 DEF Exam
<1>3. TasksOK'
    BY <1>2, BecomeOK DEF StoreInv
<1> QED BY <1>1, <1>3 DEF StoreInv, DraftsOK, ScoresOK, draftVars

\* What GetOrCreatePaper drew is stored by the create script.
LEMMA CreateStep ==
    ASSUME StoreInv, NEW p \in Procs, Create(p)
    PROVE  StoreInv' /\ Redis!CreateScript(User(p), DraftOf(NewPaper(p)), Deadline + 1)
<1>1. MemCreate(User(p), NewPaper(p)) /\ Become(p, Idle) /\ scores' = scores
    BY DEF Create
<1>2. /\ User(p) \in Users /\ task[p].attempt \in 1 .. MaxTries
      /\ task[p].questions \in SUBSET QuestionIds /\ task[p].left \in Timer
    BY DEF Create, At, StoreInv, TasksOK, TaskOK, User
<1>3. NewPaper(p) \in Paper /\ NewPaper(p).answers = NoAnswers
    BY <1>2 DEF NewPaper, Paper, NoAnswers
<1>4. PICK u \in Users, paper \in Paper : u = User(p) /\ paper = NewPaper(p)
    BY <1>2, <1>3
<1>5. MemCreate(u, paper) /\ paper.answers = NoAnswers
    BY <1>1, <1>3, <1>4 DEF MemCreate
<1>6. Redis!CreateScript(u, DraftOf(paper), Deadline + 1) /\ DraftsOK'
    BY <1>5, CreateIsCreate DEF StoreInv
<1>7. Redis!CreateScript(User(p), DraftOf(NewPaper(p)), Deadline + 1)
    BY <1>4, <1>6 DEF Redis!CreateScript, Redis!DraftExists, Redis!Expiring, Redis!DropAnswers
<1>8. TasksOK'
    <2>1. TaskOK(Idle)
        BY <1>2, SubmitTask
    <2> QED BY <1>1, <2>1, BecomeOK DEF StoreInv
<1> QED BY <1>1, <1>6, <1>7, <1>8 DEF StoreInv, ScoresOK

\* SaveAnswer takes only answers to questions there are.
LEMMA AnswerStep ==
    ASSUME StoreInv, NEW p \in Procs, NEW u \in Users, NEW q \in QuestionIds,
           NEW ids \in SUBSET AllChoiceIds, NEW repeats \in BOOLEAN, Answer(p, u, q, ids, repeats)
    PROVE  StoreInv'
<1>1. UNCHANGED <<papers, dueAt, locks, scores>>
    BY DEF Answer, storeVars, draftVars
<1>2. TaskOK([Idle EXCEPT !.at = "save", !.user = u, !.question = q, !.ids = ids])
    BY DEF TaskOK, Idle
<1>3. TasksOK'
    BY <1>2, BecomeOK DEF StoreInv, Answer
<1> QED BY <1>1, <1>3 DEF StoreInv, DraftsOK, ScoresOK, draftVars

\* What SaveAnswer checked is written, if the paper is still there.
LEMMA SaveStep ==
    ASSUME StoreInv, NEW p \in Procs, Save(p)
    PROVE  /\ StoreInv'
           /\ IF Redis!DraftExists(User(p))
              THEN Redis!PutAnswer(User(p), task[p].question, task[p].ids)
                   /\ UNCHANGED <<DraftHash, dueAt, locks>>
              ELSE UNCHANGED draftVars
<1>1. MemSaveAnswer(User(p), task[p].question, task[p].ids) /\ Become(p, Idle) /\ scores' = scores
    BY DEF Save
<1>2. PICK u \in Users, q \in QuestionIds, ids \in SUBSET AllChoiceIds :
        u = User(p) /\ q = task[p].question /\ ids = task[p].ids
    BY DEF Save, At, StoreInv, TasksOK, TaskOK, User
<1>3. /\ IF Redis!DraftExists(u)
         THEN Redis!PutAnswer(u, q, ids) /\ UNCHANGED <<DraftHash, dueAt, locks>>
         ELSE UNCHANGED draftVars
      /\ DraftsOK'
    <2>1. MemSaveAnswer(u, q, ids)
        BY <1>1, <1>2 DEF MemSaveAnswer
    <2> QED BY <2>1, SaveIsWrite DEF StoreInv
<1>4. TasksOK'
    <2>1. TaskOK(Idle)
        BY <1>2, SubmitTask
    <2> QED BY <1>1, <2>1, BecomeOK DEF StoreInv
<1> QED BY <1>1, <1>2, <1>3, <1>4 DEF StoreInv, ScoresOK, Redis!DraftExists, Redis!PutAnswer

\* Submit begins, for a handler or for the ticker.
LEMMA SubmitStep ==
    ASSUME StoreInv, NEW p \in Procs, NEW u \in Users,
           Submit(p, u) \/ (p \in Tickers /\ TickerNext(p, u))
    PROVE  StoreInv'
<1>1. UNCHANGED <<papers, dueAt, locks, scores>>
    BY DEF Submit, TickerNext, storeVars, draftVars
<1>2. Become(p, [Idle EXCEPT !.at = "lock", !.user = u])
    BY DEF Submit, TickerNext
<1>3. TasksOK'
    BY <1>2, SubmitTask, BecomeOK DEF StoreInv
<1> QED BY <1>1, <1>3 DEF StoreInv, DraftsOK, ScoresOK, draftVars

\* Submit takes the lock or gives up.
LEMMA LockStep ==
    ASSUME StoreInv, NEW p \in Procs, Lock(p)
    PROVE  /\ StoreInv'
           /\ \E acquired \in BOOLEAN :
                 /\ Redis!AcquireLock(User(p), acquired)
                 /\ task'[p].at = IF acquired THEN "read" ELSE "idle"
<1>1. PICK acquired \in BOOLEAN :
        /\ MemLockSubmit(User(p), acquired)
        /\ IF acquired THEN MoveTo(p, "read") ELSE Become(p, Idle)
    BY DEF Lock
<1>2. TaskOK(task[p]) /\ task[p].at # "idle" /\ User(p) \in Users
    BY DEF Lock, At, StoreInv, TasksOK, TaskOK, User
<1>3. Redis!AcquireLock(User(p), acquired) /\ DraftsOK'
    BY <1>1, <1>2, LockIsLock DEF StoreInv
<1>4. TasksOK'
    <2>1. CASE acquired
        BY <1>1, <1>2, <2>1, MovedTask, BecomeOK DEF MoveTo, StoreInv
    <2>2. CASE ~acquired
        BY <1>1, <1>2, <2>2, SubmitTask, BecomeOK DEF StoreInv
    <2> QED BY <2>1, <2>2
<1>5. task'[p].at = IF acquired THEN "read" ELSE "idle"
    <2>1. DOMAIN task = Procs /\ "at" \in DOMAIN task[p]
        BY <1>2 DEF TaskOK, Idle, StoreInv, TasksOK
    <2> QED BY <1>1, <2>1 DEF MoveTo, Become, Idle
<1> QED BY <1>3, <1>4, <1>5 DEF StoreInv, ScoresOK, Lock

\* Submit reads the paper and scores it, whatever the score.
LEMMA ReadStep ==
    ASSUME StoreInv, NEW p \in Procs, Read(p)
    PROVE  StoreInv'
<1>1. UNCHANGED <<papers, dueAt, locks, scores>>
    BY DEF Read, storeVars, draftVars
<1>2. TaskOK(task[p]) /\ task[p].at # "idle"
    BY DEF Read, At, StoreInv, TasksOK
<1>3. PICK t : Become(p, t) /\ TaskOK(t)
    <2>1. CASE MoveTo(p, "unlock")
        BY <1>2, <2>1, MovedTask DEF MoveTo
    <2>2. ASSUME NEW a, NEW s,
                 Become(p, [task[p] EXCEPT !.at = "insert", !.attempt = a, !.score = s])
          PROVE  \E t : Become(p, t) /\ TaskOK(t)
        <3> DEFINE t == [task[p] EXCEPT !.at = "insert", !.attempt = a, !.score = s]
        <3>1. {"at", "user", "attempt", "score"} \subseteq DOMAIN task[p]
            BY <1>2 DEF TaskOK, Idle
        <3>2. DOMAIN t = DOMAIN task[p] /\ t.at = "insert" /\ t.user = task[p].user
            BY <3>1
        <3>3. TaskOK(t)
            BY <1>2, <3>2 DEF TaskOK
        <3> QED BY <2>2, <3>3
    <2> QED BY <2>1, <2>2 DEF Read
<1>4. TasksOK'
    BY <1>3, BecomeOK DEF StoreInv
<1> QED BY <1>1, <1>4 DEF StoreInv, DraftsOK, ScoresOK, draftVars

\* The score is a row of the table, unless the attempt has one.
LEMMA InsertStep ==
    ASSUME StoreInv, NEW p \in Procs, Insert(p)
    PROVE  StoreInv' /\ Table!InsertScore(User(p), task[p].attempt, task[p].score)
<1>1. UNCHANGED <<papers, dueAt, locks>>
    BY DEF Insert, draftVars
<1>2. User(p) \in Users
    BY DEF Insert, At, StoreInv, TasksOK, TaskOK, User
<1>3. ScoresOK'
    <2>1. IsFiniteSet(scores[User(p)] \union
              {[attempt |-> task[p].attempt, score |-> task[p].score]})
        BY <1>2, FS_AddElement DEF StoreInv, ScoresOK
    <2> QED BY <1>2, <2>1 DEF Insert, MemInsert, StoreInv, ScoresOK
<1>5. Table!InsertScore(User(p), task[p].attempt, task[p].score)
    BY <1>2, InsertIsInsert DEF Insert, StoreInv
<1>4. TasksOK'
    BY <1>2, SubmitTask, BecomeOK DEF Insert, StoreInv
<1> QED BY <1>1, <1>3, <1>4, <1>5 DEF StoreInv, DraftsOK, draftVars

\* The scored paper is deleted.
LEMMA DeleteStep ==
    ASSUME StoreInv, NEW p \in Procs, Delete(p)
    PROVE  StoreInv' /\ Redis!DeleteDraft(User(p))
<1>1. TaskOK(task[p]) /\ task[p].at # "idle" /\ \E u \in Users : u = User(p)
    BY DEF Delete, At, StoreInv, TasksOK, TaskOK, User
<1> PICK u \in Users : u = User(p)
    BY <1>1
<1>2. Redis!DeleteDraft(u) /\ DraftsOK'
    <2>1. MemDelete(u)
        BY DEF Delete, MemDelete
    <2> QED BY <2>1, DeleteIsDelete DEF StoreInv
<1>3. TasksOK'
    BY <1>1, MovedTask, BecomeOK DEF Delete, MoveTo, StoreInv
<1>4. Redis!DeleteDraft(User(p))
    BY <1>2 DEF Redis!DeleteDraft, Redis!DropAnswers
<1> QED BY <1>2, <1>3, <1>4 DEF StoreInv, ScoresOK, Delete

\* The lock is released.
LEMMA UnlockStep ==
    ASSUME StoreInv, NEW p \in Procs, Unlock(p)
    PROVE  StoreInv' /\ Redis!ReleaseLock(User(p))
<1>1. PICK u \in Users : u = User(p)
    BY DEF Unlock, At, StoreInv, TasksOK, TaskOK, User
<1>2. Redis!ReleaseLock(u) /\ DraftsOK'
    <2>1. MemUnlockSubmit(u)
        BY <1>1 DEF Unlock, MemUnlockSubmit
    <2> QED BY <2>1, UnlockIsUnlock DEF StoreInv
<1>3. TasksOK'
    BY <1>1, SubmitTask, BecomeOK DEF Unlock, StoreInv
<1>4. Redis!ReleaseLock(User(p))
    BY <1>1, <1>2 DEF Redis!ReleaseLock
<1> QED BY <1>2, <1>3, <1>4 DEF StoreInv, ScoresOK, Unlock

\* The clock advances, for the maps and for papers not stored yet.
LEMMA TickStep == ASSUME StoreInv, Tick PROVE StoreInv' /\ Redis!RedisTick
<1>1. Redis!RedisTick /\ DraftsOK'
    BY TickIsTick DEF Tick, StoreInv
<1>2. DOMAIN task' = Procs
    BY DEF Tick
<1>3. ASSUME NEW p \in Procs PROVE TaskOK(task'[p])
    <2>1. TaskOK(task[p]) /\ task'[p] = [task[p] EXCEPT !.left = Elapsed(@)]
        BY DEF Tick, StoreInv, TasksOK
    <2>2. {"at", "user", "attempt", "questions", "left", "question", "ids"} \subseteq DOMAIN task[p]
        BY <2>1 DEF TaskOK, Idle
    <2>3. /\ DOMAIN task'[p] = DOMAIN task[p] /\ task'[p].left = Elapsed(task[p].left)
          /\ \A f \in DOMAIN task[p] : f # "left" => task'[p][f] = task[p][f]
        BY <2>1, <2>2
    <2>4. /\ task'[p].at = task[p].at /\ task'[p].user = task[p].user
          /\ task'[p].attempt = task[p].attempt /\ task'[p].questions = task[p].questions
          /\ task'[p].question = task[p].question /\ task'[p].ids = task[p].ids
        BY <2>2, <2>3
    <2> QED BY <2>1, <2>3, <2>4, ElapsedTimer DEF TaskOK
<1>4. TasksOK' /\ ScoresOK'
    <2>1. ScoresOK'
        BY DEF Tick, MemTick, StoreInv, ScoresOK
    <2> QED BY <1>2, <1>3, <2>1 DEF TasksOK, TaskOK
<1> QED BY <1>1, <1>4 DEF StoreInv

\* A lock lapses: Redis releases it.
LEMMA LapseStep ==
    ASSUME StoreInv, NEW u \in Users, LockLapses(u)
    PROVE  StoreInv' /\ Redis!ReleaseLock(u)
<1>1. Redis!ReleaseLock(u) /\ DraftsOK'
    BY UnlockIsUnlock DEF LockLapses, StoreInv
<1>2. TasksOK' /\ ScoresOK'
    BY DEF LockLapses, StoreInv, TasksOK, ScoresOK
<1> QED BY <1>1, <1>2 DEF StoreInv

\* A step that leaves stores and tasks alone.
LEMMA QuietStep ==
    ASSUME StoreInv, UNCHANGED <<papers, dueAt, locks, scores, task>>
    PROVE  StoreInv'
  BY DEF StoreInv, DraftsOK, TasksOK, ScoresOK, draftVars

\* StoreInv is inductive.
LEMMA StoreInvNext ==
    ASSUME BankInv, StoreInv, [Next]_vars
    PROVE  StoreInv'
<1>1. ASSUME Load \/ (\E t \in Tickers : TickerDue(t)) \/ UNCHANGED vars
      PROVE  StoreInv'
    BY <1>1, QuietStep DEF Load, TickerDue, vars, storeVars, draftVars
<1>2. ASSUME NEW p \in Handlers, Handle(p) PROVE StoreInv'
    <2>1. p \in Procs
        BY DEF Procs
    <2> QED BY <1>2, <2>1, ExamStep, SubmitStep, CreateStep, AnswerStep, SaveStep
            DEF Handle, BankInv
<1>3. ASSUME NEW p \in Procs, HandIn(p) PROVE StoreInv'
    BY <1>3, LockStep, ReadStep, InsertStep, DeleteStep, UnlockStep DEF HandIn
<1>4. ASSUME NEW t \in Tickers, NEW u \in Users, TickerNext(t, u)
      PROVE  StoreInv'
    BY <1>4, SubmitStep DEF Procs
<1>5. ASSUME Tick \/ \E u \in Users : LockLapses(u) PROVE StoreInv'
    BY <1>5, TickStep, LapseStep
<1> QED BY <1>1, <1>2, <1>3, <1>4, <1>5 DEF Next

\* No step but Exam makes a task to create a paper of an idle process.
LEMMA OnlyExamCreates ==
    ASSUME StoreInv, [Next]_vars, NEW p \in Procs,
           task[p].at = "idle", task'[p].at = "create"
    PROVE  \E u \in Users : \E S : Become(p, [Idle EXCEPT !.at = "create", !.user = u,
               !.questions = S, !.left = Deadline, !.attempt = MemCountAttempts(u) + 1])
<1> DOMAIN task = Procs
    BY DEF StoreInv, TasksOK
<1>1. task'[p] # task[p]
    OBVIOUS
<1>2. ASSUME NEW r \in Procs, NEW t, Become(r, t) PROVE r = p /\ t.at = "create"
    BY <1>1, <1>2 DEF Become
<1>3. ASSUME NEW r \in Procs, NEW site \in {"read", "unlock"}, MoveTo(r, site) PROVE FALSE
    <2>1. "at" \in DOMAIN task[r]
        BY DEF StoreInv, TasksOK, TaskOK, Idle
    <2> QED BY <1>2, <1>3, <2>1 DEF MoveTo
<1>4. ASSUME NEW r \in Procs, NEW u \in Users, NEW site, site # "create",
             Become(r, [Idle EXCEPT !.at = site, !.user = u])
      PROVE  FALSE
    <2>1. [Idle EXCEPT !.at = site, !.user = u].at = site
        BY DEF Idle
    <2> QED BY <1>2, <1>4, <2>1
<1>5. ASSUME NEW r \in Procs, Become(r, Idle) PROVE FALSE
    BY <1>2, <1>5 DEF Idle
<1>6. ASSUME NEW r \in Procs, HandIn(r) PROVE FALSE
    <2>1. "at" \in DOMAIN task[r]
        BY DEF StoreInv, TasksOK, TaskOK, Idle
    <2>2. task[r].at # "idle" /\ r # p
        BY <1>6 DEF HandIn, Lock, Read, Insert, Delete, Unlock, At
    <2>3. \E t : Become(r, t)
        BY <1>6 DEF HandIn, Lock, Read, Insert, Delete, Unlock, MoveTo
    <2> QED BY <1>2, <2>2, <2>3
<1>7. ASSUME NEW r \in Handlers, NEW u \in Users, Exam(r, u)
      PROVE  \E S : Become(p, [Idle EXCEPT !.at = "create", !.user = u,
                 !.questions = S, !.left = Deadline, !.attempt = MemCountAttempts(u) + 1])
    <2>1. r \in Procs
        BY DEF Procs
    <2>2. ~Become(r, [Idle EXCEPT !.at = "lock", !.user = u])
        BY <1>4, <2>1
    <2>3. PICK S \in PickPaper :
            Become(r, [Idle EXCEPT !.at = "create", !.user = u, !.questions = S,
                           !.left = Deadline, !.attempt = MemCountAttempts(u) + 1])
        BY <1>7, <2>2 DEF Exam
    <2> QED BY <1>2, <2>1, <2>3
<1>8. ASSUME NEW r \in Handlers, Handle(r), \A u \in Users : ~Exam(r, u) PROVE FALSE
    <2>1. r \in Procs
        BY DEF Procs
    <2>2. ASSUME NEW u \in Users, NEW q, NEW ids, NEW repeats, Answer(r, u, q, ids, repeats)
          PROVE  FALSE
        <3>1. Become(r, [Idle EXCEPT !.at = "save", !.user = u, !.question = q, !.ids = ids])
            BY <2>2 DEF Answer
        <3>2. [Idle EXCEPT !.at = "save", !.user = u, !.question = q, !.ids = ids].at = "save"
            BY DEF Idle
        <3> QED BY <1>2, <2>1, <3>1, <3>2
    <2> QED BY <1>8, <1>4, <1>5, <2>1, <2>2 DEF Handle, Submit, Create, Save
<1>9. ASSUME NEW t \in Tickers, NEW u \in Users, TickerNext(t, u) PROVE FALSE
    BY <1>4, <1>9 DEF TickerNext, Procs
<1>10. ASSUME Tick PROVE FALSE
    <2>1. task'[p] = [task[p] EXCEPT !.left = Elapsed(@)] /\ "at" \in DOMAIN task[p]
        BY <1>10 DEF Tick, StoreInv, TasksOK, TaskOK, Idle
    <2> QED BY <2>1
<1>11. ASSUME \/ Load \/ UNCHANGED vars
              \/ \E t \in Tickers : TickerDue(t)
              \/ \E u \in Users : LockLapses(u)
       PROVE  FALSE
    BY <1>1, <1>11 DEF Load, vars, TickerDue, LockLapses
<1> QED BY <1>6, <1>7, <1>8, <1>9, <1>10, <1>11 DEF Next

\* The calls that write drafts, answers and locks.
LEMMA WritesSame == ASSUME StoreInv, NEW p \in Procs PROVE SameWrite(p)
  BY CreateStep, SaveStep, LockStep, DeleteStep, UnlockStep DEF SameWrite

\* ProcessDue keeps a list for each ticker.
QueueOK == DOMAIN queue = Tickers

\* A step keeps those lists.
LEMMA QueueOKNext == ASSUME QueueOK, [Next]_vars PROVE QueueOK'
  BY DEF QueueOK, Next, vars, Load, Handle, Exam, Submit, Create, Answer, Save, HandIn, Lock,
     Read, Insert, Delete, Unlock, TickerDue, TickerNext, Tick, LockLapses

\* The calls that read drafts and answers.
LEMMA ReadsSame == ASSUME StoreInv, QueueOK, NEW p \in Procs PROVE SameRead(p)
<1>1. ASSUME Read(p)
      PROVE  IF Redis!DraftExists(User(p))
             THEN /\ task'[p].at = "insert"
                  /\ task'[p].attempt = DraftHash[User(p)].attempt
                  /\ task'[p].score = CalculateScore(DraftHash[User(p)].paper,
                                                     AnswersHash[User(p)])
             ELSE task'[p].at = "unlock"
    <2>1. /\ DOMAIN task = Procs /\ {"at", "attempt", "score"} \subseteq DOMAIN task[p]
          /\ User(p) \in Users
        BY <1>1 DEF Read, At, StoreInv, TasksOK, TaskOK, Idle, User
    <2>2. Redis!DraftExists(User(p)) <=> HasPaper(User(p))
        BY <2>1, DraftsExist DEF StoreInv
    <2>3. CASE HasPaper(User(p))
        <3>1. /\ DraftHash[User(p)] = DraftOf(papers[User(p)])
              /\ AnswersHash[User(p)] = papers[User(p)].answers
            BY <2>1, <2>3 DEF DraftHash, AnswersHash
        <3>2. task'[p] = [task[p] EXCEPT !.at = "insert",
                             !.attempt = papers[User(p)].attempt,
                             !.score = CalculateScore(papers[User(p)].questions,
                                                      papers[User(p)].answers)]
            BY <1>1, <2>1, <2>3 DEF Read, Become
        <3> HIDE DEF DraftHash, AnswersHash
        <3> QED BY <2>1, <2>2, <2>3, <3>1, <3>2 DEF DraftOf
    <2>4. CASE ~HasPaper(User(p))
        BY <1>1, <2>1, <2>2, <2>4 DEF Read, MoveTo, Become
    <2> QED BY <2>3, <2>4
<1>2. ASSUME p \in Tickers, TickerDue(p)
      PROVE  /\ queue'[p] \subseteq Redis!DueUsers
             /\ queue'[p] = Redis!DueUsers \/ Cardinality(queue'[p]) = BatchLimit
    <2>1. queue'[p] \in MemDue(BatchLimit)
        BY <1>2 DEF TickerDue, QueueOK
    <2>2. Redis!DueUsers = Due
        BY DEF Redis!DueUsers, Due
    <2> QED BY <2>1, <2>2 DEF MemDue
<1> QED BY <1>1, <1>2 DEF SameRead

\* The calls to the table of scores.
LEMMA ScoresSame ==
    ASSUME StoreInv, [Next]_vars, NEW p \in Procs
    PROVE  SameScores(p)
<1>1. ASSUME Insert(p) PROVE Table!InsertScore(User(p), task[p].attempt, task[p].score)
    BY <1>1, InsertStep
<1>2. ASSUME task[p].at = "idle", task'[p].at = "create"
      PROVE  task'[p].attempt = Table!CountAttempts(task'[p].user) + 1
    <2>1. PICK u \in Users : \E S :
            Become(p, [Idle EXCEPT !.at = "create", !.user = u, !.questions = S,
                           !.left = Deadline, !.attempt = MemCountAttempts(u) + 1])
        BY <1>2, OnlyExamCreates
    <2>2. task'[p].user = u /\ task'[p].attempt = MemCountAttempts(u) + 1
        BY <2>1 DEF Become, Idle, StoreInv, TasksOK
    <2>3. MemCountAttempts(u) = Table!CountAttempts(u)
        BY CountIsCount DEF StoreInv
    <2> QED BY <2>2, <2>3 DEF Table!CountAttempts, Table!Recorded
<1> QED BY <1>1, <1>2 DEF SameScores

\* The steps that touch drafts, answers and locks are calls, or time.
LEMMA NothingElseWrites == ASSUME StoreInv, [Next]_vars PROVE OnlyTheseWrite
<1>1. ASSUME NEW p \in Handlers, Handle(p) PROVE OnlyTheseWrite
    BY <1>1 DEF Handle, Exam, Submit, Answer, OnlyTheseWrite, storeVars, Procs
<1>2. ASSUME NEW p \in Procs, HandIn(p) PROVE OnlyTheseWrite
    BY <1>2 DEF HandIn, Read, Insert, OnlyTheseWrite, storeVars
<1>3. ASSUME Tick \/ \E u \in Users : LockLapses(u) PROVE OnlyTheseWrite
    BY <1>3, TickStep, LapseStep DEF OnlyTheseWrite
<1>4. ASSUME \/ Load \/ UNCHANGED vars
             \/ \E t \in Tickers : TickerDue(t) \/ \E u \in Users : TickerNext(t, u)
      PROVE  OnlyTheseWrite
    BY <1>4 DEF Load, vars, TickerDue, TickerNext, storeVars, OnlyTheseWrite
<1> QED BY <1>1, <1>2, <1>3, <1>4 DEF Next

\* Started with its stores in memory, the program is told by each call what
\* Redis and PostgreSQL would tell it, and leaves behind what they would hold
\* - except that saving an answer to a paper that is gone is refused where
\* Redis takes it, that a batch of fewer than all due users may be any of
\* them, and that nothing in memory has a TTL (StoresContract).
THEOREM MemoryIsRedis == Spec => StoresContract
<1>1. Init => BankInv /\ StoreInv /\ QueueOK /\ Redis!RedisInit /\ Table!ScoresInit
    BY BankInvInit, StoreInvInit DEF Init, QueueOK
<1>2. BankInv /\ StoreInv /\ QueueOK /\ [Next]_vars => (BankInv /\ StoreInv /\ QueueOK)'
    BY BankInvNext, StoreInvNext, QueueOKNext
<1>3. BankInv /\ StoreInv /\ QueueOK /\ [Next]_vars => [SameStep]_vars
    BY WritesSame, ReadsSame, ScoresSame, NothingElseWrites DEF SameStep
<1> QED BY <1>1, <1>2, <1>3, PTL DEF Spec, StoresContract

-----------------------------------------------------------------------------
\* PapersInv is inductive.
LEMMA PapersInvNext ==
    ASSUME BankInv, StoreInv, PapersInv, [Next]_vars
    PROVE  PapersInv'
<1> USE DEF storeVars, draftVars
<1>1. ASSUME UNCHANGED bankVars, papers' = papers,
             \A p \in Procs : task'[p].at = "create" =>
                task[p].at = "create" /\ task'[p].questions = task[p].questions
      PROVE  PapersInv'
    BY <1>1, PapersStayFull DEF HasPaper
<1>2. ASSUME UNCHANGED bankVars, papers' = papers,
             NEW p \in Procs, NEW t, Become(p, t), t.at # "create"
      PROVE  PapersInv'
    <2>1. \A r \in Procs : task'[r] = t \/ task'[r] = task[r]
        BY <1>2 DEF Become, StoreInv, TasksOK
    <2> QED BY <1>1, <1>2, <2>1
<1>3. CASE Load
    <2>1. phase = "loading" /\ UNCHANGED <<papers, task>> /\ LoadNext
        BY <1>3 DEF Load, LoadNext, LoadQuestion, LoadChoice, BadRecord, EndOfFile
    <2>2. ListsOK'
        BY <2>1, ListsStayOK DEF BankInv, PapersInv
    <2> QED BY <2>1, <2>2 DEF PapersInv, HasPaper
<1>4. ASSUME NEW p \in Procs, NEW u \in Users, Exam(p, u) PROVE PapersInv'
    <2>1. phase = "serving" /\ UNCHANGED bankVars /\ papers' = papers
        BY <1>4 DEF Exam, At
    <2>2. CASE Become(p, [Idle EXCEPT !.at = "lock", !.user = u])
        BY <2>1, <2>2, <1>2 DEF Idle
    <2>3. ASSUME NEW Q \in PickPaper, NEW n,
                 Become(p, [Idle EXCEPT !.at = "create", !.user = u, !.questions = Q,
                                        !.left = Deadline, !.attempt = n])
          PROVE  PapersInv'
        <3>1. task'[p].questions = Q
            BY <2>3 DEF Become, Idle, StoreInv, TasksOK
        <3>2. \A r \in Procs : r # p => task'[r] = task[r]
            BY <2>3 DEF Become, StoreInv, TasksOK
        <3>3. Full(Q)
            BY DrawnPapersFull DEF BankInv, PapersInv
        <3>4. \A r \in Procs : task'[r].at = "create" =>
                \/ task[r].at = "create" /\ task'[r].questions = task[r].questions
                \/ phase = "serving" /\ Full(task'[r].questions)
            BY <2>1, <3>1, <3>2, <3>3
        <3> QED BY <2>1, <3>4, PapersStayFull DEF HasPaper
    <2> QED BY <1>4, <2>2, <2>3 DEF Exam
<1>5. ASSUME NEW p \in Procs, Create(p) PROVE PapersInv'
    <2>1. UNCHANGED bankVars /\ Become(p, Idle) /\ phase = "serving" /\ task[p].at = "create"
        BY <1>5 DEF Create, At
    <2>2. Full(task[p].questions)
        BY <2>1 DEF PapersInv
    <2>3. \A r \in Procs : task'[r].at = "create" =>
            task[r].at = "create" /\ task'[r].questions = task[r].questions
        BY <2>1 DEF Become, Idle, StoreInv, TasksOK
    <2>4. \A u \in Users : papers'[u] = papers[u] \/ papers'[u].questions = task[p].questions
        BY <1>5 DEF Create, MemCreate, NewPaper, StoreInv, DraftsOK
    <2>5. \A u \in Users : HasPaper(u)' =>
            \/ HasPaper(u) /\ papers'[u].questions = papers[u].questions
            \/ phase = "serving" /\ Full(papers'[u].questions)
        BY <2>1, <2>2, <2>4 DEF HasPaper
    <2> QED BY <2>1, <2>3, <2>5, PapersStayFull
<1>6. ASSUME NEW p \in Procs, Save(p) PROVE PapersInv'
    <2>1. UNCHANGED bankVars /\ Become(p, Idle)
        BY <1>6 DEF Save
    <2>2. \A r \in Procs : task'[r].at = "create" =>
            task[r].at = "create" /\ task'[r].questions = task[r].questions
        BY <2>1 DEF Become, Idle, StoreInv, TasksOK
    <2>3. ASSUME NEW u \in Users, HasPaper(u)'
          PROVE  HasPaper(u) /\ papers'[u].questions = papers[u].questions
        <3>1. CASE papers'[u] = papers[u]
            BY <2>3, <3>1 DEF HasPaper
        <3>2. CASE papers'[u] # papers[u]
            <4>1. /\ HasPaper(u)
                  /\ papers'[u] = [papers[u] EXCEPT !.answers[task[p].question] = task[p].ids]
                BY <1>6, <3>2 DEF Save, MemSaveAnswer, StoreInv, DraftsOK
            <4>2. papers[u] \in Paper
                BY <4>1 DEF HasPaper, StoreInv, DraftsOK
            <4> QED BY <4>1, <4>2 DEF Paper
        <3> QED BY <3>1, <3>2
    <2> QED BY <2>1, <2>2, <2>3, PapersStayFull
<1>7. ASSUME NEW p \in Procs, NEW u \in Users,
             Submit(p, u) \/ (p \in Tickers /\ TickerNext(p, u))
      PROVE  PapersInv'
    <2>1. /\ UNCHANGED bankVars /\ papers' = papers
          /\ Become(p, [Idle EXCEPT !.at = "lock", !.user = u])
        BY <1>7 DEF Submit, TickerNext
    <2> QED BY <2>1, <1>2 DEF Idle
<1>8. ASSUME NEW p \in Procs, NEW u \in Users, NEW q, NEW ids, NEW repeats,
             Answer(p, u, q, ids, repeats)
      PROVE  PapersInv'
    <2>1. /\ UNCHANGED bankVars /\ papers' = papers
          /\ Become(p, [Idle EXCEPT !.at = "save", !.user = u, !.question = q, !.ids = ids])
        BY <1>8 DEF Answer
    <2> QED BY <2>1, <1>2 DEF Idle
<1>9. ASSUME NEW p \in Procs, HandIn(p) PROVE PapersInv'
    <2>1. /\ UNCHANGED bankVars
          /\ \A u \in Users : papers'[u] \in {papers[u], Nil}
        BY <1>9 DEF HandIn, Lock, Read, Insert, Delete, Unlock, MemLockSubmit, MemDelete,
           MemUnlockSubmit, StoreInv, DraftsOK
    <2>2. PICK t : Become(p, t) /\ t.at # "create"
        <3>1. "at" \in DOMAIN task[p] /\ Idle.at # "create"
            BY DEF StoreInv, TasksOK, TaskOK, Idle
        <3>2. ASSUME NEW site \in {"read", "insert", "unlock"}, MoveTo(p, site)
              PROVE  \E t : Become(p, t) /\ t.at # "create"
            BY <3>1, <3>2 DEF MoveTo
        <3>3. CASE Lock(p) \/ Delete(p) \/ Unlock(p)
            BY <3>1, <3>2, <3>3 DEF Lock, Delete, Unlock
        <3>4. CASE Insert(p)
            <4> DEFINE t == [Idle EXCEPT !.at = "delete", !.user = User(p)]
            <4>1. Become(p, t)
                BY <3>4 DEF Insert
            <4>2. t.at # "create"
                BY DEF Idle
            <4> QED BY <4>1, <4>2
        <3>5. CASE Read(p)
            <4>1. ASSUME NEW a, NEW s,
                         Become(p, [task[p] EXCEPT !.at = "insert", !.attempt = a, !.score = s])
                  PROVE  \E t : Become(p, t) /\ t.at # "create"
                <5>1. {"at", "attempt", "score"} \subseteq DOMAIN task[p]
                    BY DEF StoreInv, TasksOK, TaskOK, Idle
                <5>2. [task[p] EXCEPT !.at = "insert", !.attempt = a, !.score = s].at = "insert"
                    BY <5>1
                <5> QED BY <4>1, <5>2
            <4> QED BY <3>2, <3>5, <4>1 DEF Read
        <3> QED BY <1>9, <3>3, <3>4, <3>5 DEF HandIn
    <2>3. \A r \in Procs : task'[r].at = "create" =>
            task[r].at = "create" /\ task'[r].questions = task[r].questions
        BY <2>2 DEF Become, StoreInv, TasksOK
    <2> QED BY <2>1, <2>3, PapersStayFull DEF HasPaper
<1>10. CASE Tick
    <2>1. UNCHANGED bankVars /\ MemTick
        BY <1>10 DEF Tick
    <2>2. ASSUME NEW p \in Procs
          PROVE  task'[p].at = task[p].at /\ task'[p].questions = task[p].questions
        <3>1. /\ {"at", "questions", "left"} \subseteq DOMAIN task[p]
              /\ task'[p] = [task[p] EXCEPT !.left = Elapsed(@)]
            BY <1>10 DEF Tick, StoreInv, TasksOK, TaskOK, Idle
        <3> QED BY <3>1
    <2>3. ASSUME NEW u \in Users, HasPaper(u)'
          PROVE  HasPaper(u) /\ papers'[u].questions = papers[u].questions
        <3>1. HasPaper(u) /\ papers'[u] = [papers[u] EXCEPT !.left = Elapsed(@)]
            BY <2>1, <2>3 DEF MemTick, HasPaper
        <3>2. papers[u] \in Paper
            BY <3>1 DEF HasPaper, StoreInv, DraftsOK
        <3> QED BY <3>1, <3>2 DEF Paper
    <2> QED BY <2>1, <2>2, <2>3, PapersStayFull
<1>11. CASE (\E u \in Users : LockLapses(u)) \/ (\E t \in Tickers : TickerDue(t)) \/ UNCHANGED vars
    <2>1. UNCHANGED <<bankVars, papers, task>>
        BY <1>11 DEF LockLapses, MemLockLapses, TickerDue, vars
    <2> QED BY <2>1, <1>1
<1> Procs = Handlers \union Tickers
    BY DEF Procs
<1>12. ASSUME NEW p \in Handlers, Handle(p) PROVE PapersInv'
    BY <1>12, <1>4, <1>5, <1>6, <1>7, <1>8 DEF Handle
<1>13. ASSUME NEW t \in Tickers, NEW u \in Users, TickerNext(t, u) PROVE PapersInv'
    BY <1>13, <1>7
<1> QED BY <1>3, <1>9, <1>10, <1>11, <1>12, <1>13 DEF Next

\* Whatever the file and the configured numbers, a paper handed out has exactly
\* as many questions of each category as configured (FullPaper; PickPaper).
THEOREM PapersFull == Spec => []FullPaper
<1>1. Init => BankInv /\ StoreInv /\ PapersInv
    BY BankInvInit, StoreInvInit, PapersInvInit
<1>2. BankInv /\ StoreInv /\ PapersInv /\ [Next]_vars => (BankInv /\ StoreInv /\ PapersInv)'
    BY BankInvNext, StoreInvNext, PapersInvNext
<1>3. PapersInv => FullPaper
    BY DEF PapersInv, FullPaper, Full
<1> QED BY <1>1, <1>2, <1>3, PTL DEF Spec
=============================================================================
