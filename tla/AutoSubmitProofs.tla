-------------------------- MODULE AutoSubmitProofs --------------------------
(***************************************************************************)
(* Proofs about AutoSubmit: the list of members stays in the order of the  *)
(* deadlines, so its front is what ZRANGE BYSCORE returns.                 *)
(***************************************************************************)
EXTENDS AutoSubmit, OperatorLemmas

\* Members further down the list are due later, or are overdue as well.
InOrder ==
    \A i, j \in DOMAIN deadlines : i < j => left[deadlines[i]] <= left[deadlines[j]]

QueueInv == TypeOK /\ InOrder

-----------------------------------------------------------------------------
(***************************************************************************)
(* The due members are the front of the list.                              *)
(***************************************************************************)
\* The due members are the first few.
LEMMA DueComeFirst ==
    ASSUME QueueInv
    PROVE  \E k \in 0 .. Len(deadlines) :
              \A i \in DOMAIN deadlines : left[deadlines[i]] <= 0 <=> i <= k
<1> DEFINE W == {i \in DOMAIN deadlines : ~(left[deadlines[i]] <= 0)}
<1>1. /\ DOMAIN deadlines = 1 .. Len(deadlines) /\ Len(deadlines) \in Nat
      /\ \A i \in DOMAIN deadlines : left[deadlines[i]] \in Int
    BY DEF QueueInv, TypeOK
<1>2. CASE W = {}
    <2>1. \A i \in DOMAIN deadlines : left[deadlines[i]] <= 0 <=> i <= Len(deadlines)
        BY <1>1, <1>2
    <2> QED BY <1>1, <2>1
<1>3. CASE W # {}
    <2>1. PICK w \in W : \A i \in W : w <= i
        <3>1. W \in SUBSET Nat
            BY <1>1
        <3> QED BY <1>3, <3>1, NatLeast
    <2>2. \A i \in DOMAIN deadlines : i >= w => ~(left[deadlines[i]] <= 0)
        <3> SUFFICES ASSUME NEW i \in DOMAIN deadlines, i > w
                     PROVE  ~(left[deadlines[i]] <= 0)
            BY <1>1
        <3>1. left[deadlines[w]] <= left[deadlines[i]]
            BY DEF QueueInv, InOrder
        <3> QED BY <1>1, <3>1
    <2>3. w - 1 \in 0 .. Len(deadlines)
        BY <1>1
    <2>4. \A i \in DOMAIN deadlines : left[deadlines[i]] <= 0 <=> i <= w - 1
        BY <1>1, <2>1, <2>2
    <2> QED BY <2>3, <2>4
<1> QED BY <1>2, <1>3

\* The first k members of the list are k users.
LEMMA FrontIsCounted ==
    ASSUME QueueInv, NEW k \in 0 .. Len(deadlines)
    PROVE  /\ IsFiniteSet({deadlines[i] : i \in 1 .. k})
           /\ Cardinality({deadlines[i] : i \in 1 .. k}) = k
<1> DEFINE F == {deadlines[i] : i \in 1 .. k}
           f == [i \in 1 .. k |-> deadlines[i]]
<1>1. 1 .. k \subseteq DOMAIN deadlines
    BY DEF QueueInv, TypeOK
<1>2. f \in Bijection(1 .. k, F)
    <2>1. \A i, j \in 1 .. k : f[i] = f[j] => i = j
        BY <1>1 DEF QueueInv, TypeOK, IsInjective
    <2>2. f \in [1 .. k -> F] /\ \A t \in F : \E i \in 1 .. k : f[i] = t
        OBVIOUS
    <2> HIDE DEF f, F
    <2> QED BY <2>1, <2>2 DEF Bijection, Injection, Surjection, IsInjective
<1>3. IsFiniteSet(1 .. k) /\ Cardinality(1 .. k) = k
    <2>1. k \in Nat
        OBVIOUS
    <2> QED BY <2>1, FS_Interval
<1> QED BY <1>2, <1>3, FS_Bijection DEF ExistsBijection

\* Due returns the first n members, as many as are due or as the limit takes.
LEMMA DueIsFront ==
    ASSUME QueueInv
    PROVE  \E k, n \in 0 .. Len(deadlines) :
              /\ \A i \in DOMAIN deadlines : left[deadlines[i]] <= 0 <=> i <= k
              /\ DueUsers = {deadlines[i] : i \in 1 .. k}
              /\ n = IF k < Limit THEN k ELSE Limit
              /\ Due(Limit) = SubSeq(deadlines, 1, n)
<1>1. PICK k \in 0 .. Len(deadlines) :
        \A i \in DOMAIN deadlines : left[deadlines[i]] <= 0 <=> i <= k
    BY DueComeFirst
<1>2. DOMAIN deadlines = 1 .. Len(deadlines) /\ Len(deadlines) \in Nat
    BY DEF QueueInv, TypeOK
<1>3. DueUsers = {deadlines[i] : i \in 1 .. k}
    BY <1>1, <1>2 DEF DueUsers, Members, ToSet
<1>4. Cardinality(DueUsers) = k
    BY <1>3, FrontIsCounted
<1> DEFINE n == IF k < Limit THEN k ELSE Limit
<1>5. n \in 0 .. Len(deadlines)
    BY <1>2, QueueAssumption
<1>6. Due(Limit) = SubSeq(deadlines, 1, n)
    BY <1>4 DEF Due
<1> QED BY <1>1, <1>3, <1>5, <1>6

\* In a list that is in order Due takes the earliest.
LEMMA EarliestFirst == ASSUME QueueInv PROVE DueAreEarliest
<1>1. PICK k, n \in 0 .. Len(deadlines) :
        /\ \A i \in DOMAIN deadlines : left[deadlines[i]] <= 0 <=> i <= k
        /\ DueUsers = {deadlines[i] : i \in 1 .. k}
        /\ n = IF k < Limit THEN k ELSE Limit
        /\ Due(Limit) = SubSeq(deadlines, 1, n)
    BY DueIsFront
<1>2. DOMAIN deadlines = 1 .. Len(deadlines) /\ Len(deadlines) \in Nat /\ Limit \in Nat
    BY QueueAssumption DEF QueueInv, TypeOK
<1> DEFINE S == {deadlines[i] : i \in 1 .. n}
<1>3. ToSet(Due(Limit)) = S
    <2>1. deadlines \in Seq(Users)
        BY DEF QueueInv, TypeOK
    <2>2. /\ DOMAIN SubSeq(deadlines, 1, n) = 1 .. n
          /\ \A i \in 1 .. n : SubSeq(deadlines, 1, n)[i] = deadlines[i]
        BY <1>2, <2>1
    <2> QED BY <1>1, <2>2 DEF ToSet
<1>4. S \subseteq DueUsers
    BY <1>1, <1>2
<1>5. ASSUME NEW u \in S, NEW v \in DueUsers \ S PROVE left[u] <= left[v]
    <2>1. PICK i \in 1 .. n : u = deadlines[i]
        OBVIOUS
    <2>2. PICK j \in 1 .. k : v = deadlines[j]
        BY <1>1
    <2>3. i < j
        BY <1>1, <1>2, <2>2
    <2> QED BY <1>2, <2>1, <2>2, <2>3 DEF QueueInv, InOrder
<1>6. Cardinality(S) = Limit \/ S = DueUsers
    BY <1>1, <1>2, FrontIsCounted
<1> QED BY <1>3, <1>4, <1>5, <1>6 DEF DueAreEarliest

-----------------------------------------------------------------------------
(***************************************************************************)
(* What the commands do to the list.                                       *)
(***************************************************************************)
\* The list and the ticks left of its members, which change together.
ListOK ==
    /\ deadlines \in Seq(Users) /\ IsInjective(deadlines)
    /\ left \in [Users -> -1 .. Deadline]
    /\ InOrder

\* A paper just issued has the most time left, so its user goes last.
LEMMA ScheduleKeepsOrder ==
    ASSUME ListOK, NEW u \in Users, Schedule(u), left' = [left EXCEPT ![u] = Deadline]
    PROVE  ListOK'
<1> DEFINE r == RemoveFirst(deadlines, u)
<1>1. /\ r \in Seq(Users) /\ IsInjective(r) /\ ToSet(r) = ToSet(deadlines) \ {u}
      /\ \A i, j \in DOMAIN r : i < j =>
            \E k, l \in DOMAIN deadlines :
                k < l /\ r[i] = deadlines[k] /\ r[j] = deadlines[l]
    BY RemoveFirstFacts DEF ListOK
<1>2. deadlines' = Append(r, u)
    BY DEF Schedule
<1> HIDE DEF r
<1>3. /\ deadlines' \in Seq(Users) /\ Len(deadlines') = Len(r) + 1
      /\ DOMAIN deadlines' = DOMAIN r \union {Len(r) + 1}
      /\ \A i \in DOMAIN r : deadlines'[i] = r[i] /\ i < Len(r) + 1
      /\ deadlines'[Len(r) + 1] = u
    BY <1>1, <1>2
<1>4. \A i \in DOMAIN r : r[i] \in Users \ {u}
    <2>1. \A i \in DOMAIN r : r[i] \in ToSet(r) /\ r[i] \in Users
        BY <1>1 DEF ToSet
    <2> QED BY <1>1, <2>1
<1>5. IsInjective(deadlines')
    BY <1>1, <1>3, <1>4 DEF IsInjective
<1>6. left' \in [Users -> -1 .. Deadline] /\ left'[u] = Deadline
    BY QueueAssumption DEF ListOK
<1>7. ASSUME NEW i \in DOMAIN deadlines', NEW j \in DOMAIN deadlines', i < j
      PROVE  left'[deadlines'[i]] <= left'[deadlines'[j]]
    <2>1. i \in DOMAIN r /\ i \in Nat /\ j \in Nat
        BY <1>1, <1>3, <1>7
    <2>2. CASE j = Len(r) + 1
        <3>1. left'[deadlines'[i]] \in -1 .. Deadline
            BY <1>3, <1>4, <1>6, <2>1
        <3> QED BY <1>3, <1>6, <2>2, <3>1, QueueAssumption
    <2>3. CASE j \in DOMAIN r
        <3>1. left'[r[i]] = left[r[i]] /\ left'[r[j]] = left[r[j]]
            BY <1>4, <2>1, <2>3 DEF ListOK
        <3>2. left[r[i]] <= left[r[j]]
            BY <1>1, <1>7, <2>1, <2>3 DEF ListOK, InOrder
        <3> QED BY <1>3, <2>1, <2>3, <3>1, <3>2
    <2> QED BY <1>3, <2>2, <2>3
<1>8. InOrder'
    BY <1>7 DEF InOrder
<1> QED BY <1>3, <1>5, <1>6, <1>8 DEF ListOK

\* ZREM leaves the others in the order they were in.
LEMMA DeleteKeepsOrder ==
    ASSUME ListOK, NEW u \in Users, deadlines' = RemoveFirst(deadlines, u),
           left' = [left EXCEPT ![u] = -1]
    PROVE  ListOK'
<1>1. /\ deadlines' \in Seq(Users) /\ IsInjective(deadlines')
      /\ ToSet(deadlines') = ToSet(deadlines) \ {u}
      /\ \A i, j \in DOMAIN deadlines' : i < j =>
            \E k, l \in DOMAIN deadlines :
                k < l /\ deadlines'[i] = deadlines[k] /\ deadlines'[j] = deadlines[l]
    BY RemoveFirstFacts DEF ListOK
<1>2. \A i \in DOMAIN deadlines' : deadlines'[i] \in Users \ {u}
    <2>1. \A i \in DOMAIN deadlines' : deadlines'[i] \in ToSet(deadlines') /\ deadlines'[i] \in Users
        BY <1>1 DEF ToSet
    <2> QED BY <1>1, <2>1
<1>3. left' \in [Users -> -1 .. Deadline] /\ \A v \in Users \ {u} : left'[v] = left[v]
    BY QueueAssumption DEF ListOK
<1>4. InOrder'
    <2> SUFFICES ASSUME NEW i \in DOMAIN deadlines', NEW j \in DOMAIN deadlines', i < j
                 PROVE  left'[deadlines'[i]] <= left'[deadlines'[j]]
        BY DEF InOrder
    <2>1. left[deadlines'[i]] <= left[deadlines'[j]]
        BY <1>1 DEF ListOK, InOrder
    <2> QED BY <1>2, <1>3, <2>1
<1> QED BY <1>1, <1>3, <1>4 DEF ListOK

\* Time runs for all members alike.
LEMMA TickKeepsOrder == ASSUME ListOK, Tick PROVE ListOK'
<1>1. /\ deadlines' = deadlines
      /\ left' = [u \in Users |-> IF left[u] = -1 THEN -1 ELSE left[u] - 1]
    BY DEF Tick
<1>2. left' \in [Users -> -1 .. Deadline]
    BY <1>1, QueueAssumption DEF ListOK
<1>3. \A u, v \in Users : left[u] <= left[v] => left'[u] <= left'[v]
    BY <1>1, QueueAssumption DEF ListOK
<1>4. \A i \in DOMAIN deadlines : deadlines[i] \in Users
    BY DEF ListOK
<1> QED BY <1>1, <1>2, <1>3, <1>4 DEF ListOK, InOrder

-----------------------------------------------------------------------------
(***************************************************************************)
(* QueueInv is inductive.                                                  *)
(***************************************************************************)
\* The rest of TypeOK.
RestOK ==
    /\ draft \in [Users -> 0 .. MaxTries]
    /\ recorded \in [Users -> 0 .. MaxTries]
    /\ lock \in [Users -> LockStates]
    /\ batch \in Seq(Users) /\ Len(batch) <= Limit
    /\ healthy \in BOOLEAN

\* The invariant is one part about the list and one about the rest.
LEMMA QueueInvParts == QueueInv <=> ListOK /\ RestOK
  BY DEF QueueInv, TypeOK, ListOK, RestOK

\* The same, of the next state.
LEMMA QueueInvPartsNext == QueueInv' <=> ListOK' /\ RestOK'
  BY QueueInvParts, PTL

\* The empty queue is in order.
LEMMA QueueInvInit == ASSUME Init PROVE QueueInv
<1>1. ListOK
    BY QueueAssumption DEF Init, ListOK, InOrder, IsInjective
<1>2. RestOK
    <2>1. << >> \in Seq(Users) /\ Len(<< >>) <= Limit /\ 0 \in 0 .. MaxTries
        BY QueueAssumption
    <2> QED BY <2>1 DEF Init, RestOK, LockStates
<1> QED BY <1>1, <1>2, QueueInvParts

\* A score is that of an attempt there may be.
LEMMA InsertOK ==
    ASSUME RestOK, NEW u \in Users, InsertScore(u)
    PROVE  recorded' \in [Users -> 0 .. MaxTries]
  BY DEF RestOK, InsertScore

\* The user whose turn it is, and those left in the batch.
LEMMA BatchOK ==
    ASSUME RestOK, batch # << >>
    PROVE  Head(batch) \in Users /\ Tail(batch) \in Seq(Users) /\ Len(Tail(batch)) <= Limit
<1>1. batch \in Seq(Users) /\ Len(batch) <= Limit /\ Limit \in Nat
    BY QueueAssumption DEF RestOK
<1>2. Head(batch) \in Users /\ Tail(batch) \in Seq(Users) /\ Len(Tail(batch)) = Len(batch) - 1
    BY <1>1
<1> QED BY <1>1, <1>2

\* A paper is issued: its user becomes the last member.
LEMMA IssueStep == ASSUME QueueInv, NEW u \in Users, IssuePaper(u) PROVE QueueInv'
<1>1. ListOK'
    BY QueueInvParts, ScheduleKeepsOrder DEF IssuePaper
<1>2. RestOK'
    BY QueueInvParts, QueueAssumption DEF IssuePaper, RestOK
<1> QED BY <1>1, <1>2, QueueInvPartsNext

\* A request finishes its Submit.
LEMMA RequestStep == ASSUME QueueInv, NEW u \in Users, RequestSubmits(u) PROVE QueueInv'
<1>1. ListOK /\ RestOK
    BY QueueInvParts
<1>2. CASE InsertScore(u) /\ DeleteDraft(u)
    <2>1. ListOK'
        BY <1>1, <1>2, DeleteKeepsOrder DEF DeleteDraft
    <2>2. RestOK'
        BY <1>1, <1>2, InsertOK, QueueAssumption DEF RequestSubmits, DeleteDraft, RestOK, LockStates
    <2> QED BY <2>1, <2>2, QueueInvPartsNext
<1>3. CASE UNCHANGED <<draft, recorded, deadlines, left>>
    <2>1. ListOK' /\ RestOK'
        BY <1>1, <1>3 DEF RequestSubmits, ListOK, InOrder, RestOK, LockStates
    <2> QED BY <2>1, QueueInvPartsNext
<1> QED BY <1>2, <1>3 DEF RequestSubmits

\* The ticker hands in a paper of its batch.
LEMMA TickerSubmitStep == ASSUME QueueInv, TickerSubmits PROVE QueueInv'
<1>1. ListOK /\ RestOK /\ batch # << >> /\ Head(batch) \in Users
    BY QueueInvParts, BatchOK DEF TickerSubmits
<1>2. InsertScore(Head(batch)) /\ DeleteDraft(Head(batch)) /\ batch' = Tail(batch)
    BY DEF TickerSubmits
<1>3. ListOK'
    BY <1>1, <1>2, DeleteKeepsOrder DEF DeleteDraft
<1>4. recorded' \in [Users -> 0 .. MaxTries]
    BY <1>1, <1>2, InsertOK
<1>5. draft' \in [Users -> 0 .. MaxTries]
    BY <1>1, <1>2, QueueAssumption DEF DeleteDraft, RestOK
<1>6. RestOK'
    BY <1>1, <1>2, <1>4, <1>5, BatchOK DEF TickerSubmits, RestOK
<1> QED BY <1>3, <1>6, QueueInvPartsNext

\* The ticker reads no more than its limit.
LEMMA TickerReadStep == ASSUME QueueInv, TickerReads PROVE QueueInv'
<1>1. ListOK /\ RestOK
    BY QueueInvParts
<1>2. PICK n \in 0 .. Len(deadlines) : n <= Limit /\ Due(Limit) = SubSeq(deadlines, 1, n)
    <2>1. PICK k, n \in 0 .. Len(deadlines) :
            /\ n = IF k < Limit THEN k ELSE Limit
            /\ Due(Limit) = SubSeq(deadlines, 1, n)
        BY DueIsFront
    <2>2. k \in Nat /\ Limit \in Nat
        BY <1>1, QueueAssumption DEF ListOK
    <2> QED BY <2>1, <2>2
<1>3. SubSeq(deadlines, 1, n) \in Seq(Users) /\ Len(SubSeq(deadlines, 1, n)) = n
    BY <1>1 DEF ListOK
<1>4. ListOK' /\ RestOK'
    BY <1>1, <1>2, <1>3 DEF TickerReads, ListOK, InOrder, RestOK
<1> QED BY <1>4, QueueInvPartsNext

\* What fails or is passed over leaves the list alone.
LEMMA QuietStep ==
    ASSUME QueueInv,
           \/ TickerSkips \/ TickerFails \/ Crash \/ Recover
           \/ \E u \in Users : RequestLocks(u) \/ RequestFails(u) \/ LockExpires(u) \/ DraftLapses(u)
    PROVE  QueueInv'
<1>1. ListOK /\ RestOK
    BY QueueInvParts
<1>2. UNCHANGED <<deadlines, left>>
    BY DEF TickerSkips, TickerFails, Crash, Recover, RequestLocks, RequestFails, LockExpires,
           DraftLapses
<1>3. ListOK'
    BY <1>1, <1>2 DEF ListOK, InOrder
<1>4. << >> \in Seq(Users) /\ Len(<< >>) <= Limit
    BY QueueAssumption
<1>5. ASSUME TickerSkips PROVE RestOK'
    BY <1>1, <1>5, BatchOK DEF TickerSkips, RestOK
<1>6. ASSUME TickerFails PROVE RestOK'
    <2>1. Head(batch) \in Users /\ batch' = << >> /\ UNCHANGED <<draft, healthy>>
        BY <1>1, <1>6, BatchOK DEF TickerFails
    <2>2. recorded' \in [Users -> 0 .. MaxTries]
        BY <1>1, <1>6, <2>1, InsertOK DEF TickerFails, RestOK
    <2>3. lock' \in [Users -> LockStates]
        BY <1>1, <1>6, <2>1 DEF TickerFails, RestOK, LockStates
    <2> QED BY <1>1, <1>4, <2>1, <2>2, <2>3 DEF RestOK
<1>7. ASSUME Crash PROVE RestOK'
    BY <1>1, <1>4, <1>7 DEF Crash, RestOK, LockStates
<1>8. ASSUME Recover PROVE RestOK'
    BY <1>1, <1>8 DEF Recover, RestOK
<1>9. ASSUME NEW u \in Users,
             RequestLocks(u) \/ RequestFails(u) \/ LockExpires(u) \/ DraftLapses(u)
      PROVE  RestOK'
    <2>1. UNCHANGED <<batch, healthy>>
        BY <1>9 DEF RequestLocks, RequestFails, LockExpires, DraftLapses
    <2>2. recorded' \in [Users -> 0 .. MaxTries]
        BY <1>1, <1>9, InsertOK DEF RequestLocks, RequestFails, LockExpires, DraftLapses, RestOK
    <2>3. lock' \in [Users -> LockStates]
        BY <1>1, <1>9 DEF RequestLocks, RequestFails, LockExpires, DraftLapses, RestOK, LockStates
    <2>4. draft' \in [Users -> 0 .. MaxTries]
        BY <1>1, <1>9, QueueAssumption DEF RequestLocks, RequestFails, LockExpires, DraftLapses, RestOK
    <2> QED BY <1>1, <2>1, <2>2, <2>3, <2>4 DEF RestOK
<1> QED BY <1>3, <1>5, <1>6, <1>7, <1>8, <1>9, QueueInvPartsNext

\* Every step keeps the invariant.
LEMMA QueueInvNext == ASSUME QueueInv, [Next]_vars PROVE QueueInv'
<1>1. CASE Tick
    <2>1. ListOK'
        BY <1>1, QueueInvParts, TickKeepsOrder
    <2>2. RestOK'
        BY <1>1, QueueInvParts DEF Tick, RestOK
    <2> QED BY <2>1, <2>2, QueueInvPartsNext
<1>2. CASE UNCHANGED vars
    BY <1>2 DEF vars, QueueInv, TypeOK, InOrder
<1>3. CASE \E u \in Users : Request(u) \/ RequestSubmits(u)
    BY <1>3, IssueStep, RequestStep, QuietStep DEF Request
<1>4. CASE TickerStep
    BY <1>4, TickerReadStep, TickerSubmitStep, QuietStep DEF TickerStep
<1>5. CASE Environment /\ ~Tick
    BY <1>5, QuietStep DEF Environment
<1> QED BY <1>1, <1>2, <1>3, <1>4, <1>5 DEF Next

-----------------------------------------------------------------------------
\* The queue never holds a user twice, attempts stay within the limit, and a
\* batch is no longer than what was asked for.
THEOREM QueueTypeCorrect == Spec => []TypeOK
<1>1. Init => QueueInv
    BY QueueInvInit
<1>2. QueueInv /\ [Next]_vars => QueueInv'
    BY QueueInvNext
<1>3. QueueInv => TypeOK
    BY DEF QueueInv
<1> QED BY <1>1, <1>2, <1>3, PTL DEF Spec

\* Nobody overtakes in the queue of deadlines, however many users there are
\* and whatever fails or lapses.
THEOREM EarliestDueFirst == Spec => []DueAreEarliest
<1>1. Init => QueueInv
    BY QueueInvInit
<1>2. QueueInv /\ [Next]_vars => QueueInv'
    BY QueueInvNext
<1>3. QueueInv => DueAreEarliest
    BY EarliestFirst
<1> QED BY <1>1, <1>2, <1>3, PTL DEF Spec
=============================================================================
