----------------------------- MODULE AutoSubmit -----------------------------
(***************************************************************************)
(* The auto-submit queue: many users, the sorted set of deadlines, and the *)
(* ticker of cmd/server that reads at most Limit members of it at a time   *)
(* and hands in their papers one after the other (Service.ProcessDue).     *)
(*                                                                         *)
(* ExamService takes a Submit apart call by call for one user; here it is  *)
(* one step of whoever runs it, and what matters is who gets their turn.   *)
(***************************************************************************)
EXTENDS Integers, Sequences, SequencesExt

CONSTANTS
    Users,
    MaxTries,
    Deadline,   \* clock ticks a paper may be worked on
    Limit,      \* members of the sorted set read at a time
    MaxLocked,  \* bound: submit locks that are set at one time
    MaxLapsed   \* bound: drafts that lapsed and left their member behind

ASSUME QueueAssumption ==
    /\ {MaxTries, Deadline, Limit} \subseteq Nat \ {0}
    /\ {MaxLocked, MaxLapsed} \subseteq Nat

VARIABLES
    draft,      \* the attempt of each user's draft, 0 if there is none
    recorded,   \* how many attempts of each user have a score
    deadlines,  \* the members of the sorted set, by deadline
    left,       \* ticks until each member's deadline, -1 once it is past
    lock,       \* who holds the submit lock of each user
    batch,      \* what Due returned, less the users already dealt with
    healthy     \* the outages and crashes are over

vars == <<draft, recorded, deadlines, left, lock, batch, healthy>>

\* "request": an HTTP request is in Submit.  "stale": nobody is, the lock was
\* left behind and only its TTL removes it.
LockStates == {"free", "request", "stale"}

TypeOK ==
    /\ draft \in [Users -> 0 .. MaxTries]
    /\ recorded \in [Users -> 0 .. MaxTries]
    /\ deadlines \in Seq(Users) /\ IsInjective(deadlines)
    /\ left \in [Users -> -1 .. Deadline]
    /\ lock \in [Users -> LockStates]
    /\ batch \in Seq(Users) /\ Len(batch) <= Limit
    /\ healthy \in BOOLEAN

Init ==
    /\ draft = [u \in Users |-> 0]
    /\ recorded = [u \in Users |-> 0]
    /\ deadlines = << >>
    /\ left = [u \in Users |-> -1]
    /\ lock = [u \in Users |-> "free"]
    /\ batch = << >>
    /\ healthy = FALSE

-----------------------------------------------------------------------------
(***************************************************************************)
(* The stores.                                                             *)
(***************************************************************************)
DraftExists(u) == draft[u] # 0

Members == ToSet(deadlines)

\* Members whose draft has lapsed.
Lapsed == {u \in Members : ~DraftExists(u)}

Locked == {u \in Users : lock[u] # "free"}

Overdue(u) == DraftExists(u) /\ left[u] = -1

\* Mutant: a list instead of a set, so a user's old member stays.
ScheduleAgain(u) == deadlines' = Append(deadlines, u)

\* Mutant: ZADD NX, so a member a lapsed draft left behind keeps its place.
ScheduleInPlace(u) ==
    deadlines' = IF u \in Members THEN deadlines ELSE Append(deadlines, u)

\* ZADD moves a member that is still there.  Every paper lasts as long, so
\* the new one goes behind all the others; papers issued in the same tick
\* come in any order, as their names would have it.
Schedule(u) == deadlines' = Append(RemoveFirst(deadlines, u), u)

\* ZRANGE BYSCORE -inf now LIMIT 0 limit: the earliest due members.
DueUsers == {u \in Members : left[u] <= 0}

Due(limit) ==
    SubSeq(deadlines, 1, IF Cardinality(DueUsers) < limit
                         THEN Cardinality(DueUsers) ELSE limit)

\* INSERT ... ON CONFLICT DO NOTHING.
InsertScore(u) ==
    recorded' = [recorded EXCEPT ![u] = IF draft[u] > @ THEN draft[u] ELSE @]

\* DEL and ZREM.
DeleteDraft(u) ==
    /\ draft' = [draft EXCEPT ![u] = 0]
    /\ deadlines' = RemoveFirst(deadlines, u)
    /\ left' = [left EXCEPT ![u] = -1]

-----------------------------------------------------------------------------
(***************************************************************************)
(* Students' requests.                                                     *)
(***************************************************************************)
\* GetOrCreatePaper for a user without a draft, whenever the contest is open.
IssuePaper(u) ==
    /\ ~DraftExists(u)
    /\ recorded[u] < MaxTries
    /\ draft' = [draft EXCEPT ![u] = recorded[u] + 1]
    /\ Schedule(u)
    /\ left' = [left EXCEPT ![u] = Deadline]
    /\ UNCHANGED <<recorded, lock, batch, healthy>>

\* POST /api/submit, or GET /api/exam with an overdue draft, takes the lock.
RequestLocks(u) ==
    /\ lock[u] = "free"
    /\ Cardinality(Locked) < MaxLocked
    /\ lock' = [lock EXCEPT ![u] = "request"]
    /\ UNCHANGED <<draft, recorded, deadlines, left, batch, healthy>>

\* The request finishes its Submit, or finds no draft, and unlocks.
RequestSubmits(u) ==
    /\ lock[u] = "request"
    /\ IF DraftExists(u)
       THEN InsertScore(u) /\ DeleteDraft(u)
       ELSE UNCHANGED <<draft, recorded, deadlines, left>>
    /\ lock' = [lock EXCEPT ![u] = "free"]
    /\ UNCHANGED <<batch, healthy>>

\* The request's Submit fails before or after its Insert; the deferred unlock
\* works or fails with it.
RequestFails(u) ==
    /\ ~healthy
    /\ lock[u] = "request"
    /\ UNCHANGED recorded \/ (DraftExists(u) /\ InsertScore(u))
    /\ \E s \in {"free", "stale"} : lock' = [lock EXCEPT ![u] = s]
    /\ UNCHANGED <<draft, deadlines, left, batch, healthy>>

-----------------------------------------------------------------------------
(***************************************************************************)
(* ProcessDue.                                                             *)
(***************************************************************************)
TickerReads ==
    /\ batch = << >>
    /\ DueUsers # {}
    /\ batch' = Due(Limit)
    /\ UNCHANGED <<draft, recorded, deadlines, left, lock, healthy>>

\* Mutant: a draft that is gone is not told from a failure.
TickerSkipsLockedOnly ==
    /\ batch # << >>
    /\ ~DraftExists(Head(batch)) \/ lock[Head(batch)] # "free"
    /\ batch' = IF lock[Head(batch)] # "free" THEN Tail(batch) ELSE << >>
    /\ UNCHANGED <<draft, recorded, deadlines, left, lock, healthy>>

\* ErrSubmitLocked and ErrNoDraft: on to the next user.
TickerSkips ==
    /\ batch # << >>
    /\ ~DraftExists(Head(batch)) \/ lock[Head(batch)] # "free"
    /\ batch' = Tail(batch)
    /\ UNCHANGED <<draft, recorded, deadlines, left, lock, healthy>>

\* Submit hands in whatever draft the user has by now.
TickerSubmits ==
    /\ batch # << >>
    /\ lock[Head(batch)] = "free"
    /\ DraftExists(Head(batch))
    /\ InsertScore(Head(batch))
    /\ DeleteDraft(Head(batch))
    /\ batch' = Tail(batch)
    /\ UNCHANGED <<lock, healthy>>

\* Any other error of Submit ends the batch; the next one starts over at the
\* head of the sorted set.
TickerFails ==
    /\ ~healthy
    /\ batch # << >>
    /\ lock[Head(batch)] = "free"
    /\ UNCHANGED recorded \/ (DraftExists(Head(batch)) /\ InsertScore(Head(batch)))
    /\ \/ UNCHANGED lock
       \/ /\ Cardinality(Locked) < MaxLocked
          /\ lock' = [lock EXCEPT ![Head(batch)] = "stale"]
    /\ batch' = << >>
    /\ UNCHANGED <<draft, deadlines, left, healthy>>

-----------------------------------------------------------------------------
(***************************************************************************)
(* Time, expiry and crashes.                                               *)
(***************************************************************************)
Tick ==
    /\ \E u \in Members : left[u] # -1
    /\ left' = [u \in Users |-> IF left[u] = -1 THEN -1 ELSE left[u] - 1]
    /\ UNCHANGED <<draft, recorded, deadlines, lock, batch, healthy>>

LockExpires(u) ==
    /\ lock[u] = "stale"
    /\ lock' = [lock EXCEPT ![u] = "free"]
    /\ UNCHANGED <<draft, recorded, deadlines, left, batch, healthy>>

\* A draft nobody handed in lapses, DraftTTL after its deadline.  The member
\* of the sorted set has no TTL.
DraftLapses(u) ==
    /\ Overdue(u)
    /\ Cardinality(Lapsed) < MaxLapsed
    /\ draft' = [draft EXCEPT ![u] = 0]
    /\ UNCHANGED <<recorded, deadlines, left, lock, batch, healthy>>

\* The server process dies; locks of requests under way stay behind.
Crash ==
    /\ ~healthy
    /\ batch' = << >>
    /\ lock' = [u \in Users |-> IF lock[u] = "free" THEN "free" ELSE "stale"]
    /\ UNCHANGED <<draft, recorded, deadlines, left, healthy>>

Recover ==
    /\ ~healthy
    /\ healthy' = TRUE
    /\ UNCHANGED <<draft, recorded, deadlines, left, lock, batch>>

-----------------------------------------------------------------------------
Request(u) == IssuePaper(u) \/ RequestLocks(u)

TickerStep == TickerReads \/ TickerSkips \/ TickerSubmits

Environment ==
    \/ TickerFails
    \/ Tick
    \/ Crash
    \/ Recover
    \/ \E u \in Users : RequestFails(u) \/ LockExpires(u) \/ DraftLapses(u)

Next ==
    \/ \E u \in Users : Request(u) \/ RequestSubmits(u)
    \/ TickerStep
    \/ Environment

\* Who holds the submit lock of a user ends its Submit, or its TTL runs out.
LockEnds(u) == RequestSubmits(u) \/ LockExpires(u)

\* As in ExamService: the clock, running requests, the ticker, the TTL of a
\* lock and the end of outages.
Fairness ==
    /\ WF_vars(Tick)
    /\ WF_vars(Recover)
    /\ WF_vars(TickerStep)
    /\ \A u \in Users : WF_vars(LockEnds(u))

Spec == Init /\ [][Next]_vars

FairSpec == Spec /\ Fairness

-----------------------------------------------------------------------------
(***************************************************************************)
(* Properties.                                                             *)
(***************************************************************************)

\* What ProcessDue takes on is the Limit members due earliest: no user is in
\* the batch before their time or ahead of one who waits for longer, and one
\* who is due is left out of a full batch only.  It is what ZRANGE BYSCORE
\* promises of the scores; drafts that lapse, members they leave behind and
\* papers issued over them must not break it.
DueAreEarliest ==
    LET S == ToSet(Due(Limit))
    IN /\ S \subseteq DueUsers
       /\ \A u \in S, v \in DueUsers \ S : left[u] <= left[v]
       /\ Cardinality(S) = Limit \/ S = DueUsers

\* A paper whose time is up does not stay that way, whatever its place among
\* the others: not behind users whose draft has lapsed, whose lock is held,
\* or whose Submit ended the batch they shared.
EveryOverduePaperTaken == \A u \in Users : Overdue(u) ~> ~Overdue(u)
=============================================================================
