-------------------------- MODULE ContestPageProofs --------------------------
(***************************************************************************)
(* Proofs about ContestPage, for any number of questions, changes and      *)
(* saves under way.                                                        *)
(***************************************************************************)
EXTENDS ContestPage, TLAPS

-----------------------------------------------------------------------------
(***************************************************************************)
(* The requests under way: every operation keeps them well-formed, and no  *)
(* two saves of one question share an id.                                  *)
(***************************************************************************)
SavesOK(S) ==
    /\ S \subseteq Save
    /\ \A s, t \in S : s.question = t.question /\ s.id = t.id => s = t

\* What the constants and the empty answers are.
LEMMA Bounds == /\ Deadline \in Nat \ {0} /\ MaxChanges \in Nat \ {0} /\ MaxSaves \in Nat \ {0}
                /\ NoAnswers \in Answers /\ 0 \in Change
  BY PageAssumption DEF PageAssumption, NoAnswers, Answers, Change

\* Removing saves.
LEMMA FewerSaves ==
    ASSUME NEW S, SavesOK(S), NEW T \in SUBSET S
    PROVE  SavesOK(T)
  BY DEF SavesOK

\* A save moves on: it is replaced by itself at another stage.
LEMMA SaveMovesOn ==
    ASSUME NEW S, SavesOK(S), NEW s \in S, NEW r \in Save,
           r.question = s.question, r.id = s.id
    PROVE  SavesOK((S \ {s}) \union {r})
<1> DEFINE T == (S \ {s}) \union {r}
<1>1. T \subseteq Save
    BY DEF SavesOK
<1>2. ASSUME NEW x \in T, NEW y \in T, x.question = y.question, x.id = y.id
      PROVE  x = y
    <2>1. CASE x = r /\ y # r
        BY <1>2, <2>1 DEF SavesOK
    <2>2. CASE x # r /\ y = r
        BY <1>2, <2>2 DEF SavesOK
    <2>3. CASE x # r /\ y # r
        BY <1>2, <2>3 DEF SavesOK
    <2> QED BY <2>1, <2>2, <2>3
<1> QED BY <1>1, <1>2 DEF SavesOK

\* sendAnswer adds a save under an id that is free.
LEMMA MoreSaves ==
    ASSUME TypeOK, NEW Q \in SUBSET Pending, \A q \in Q : FreeIds(q) # {},
           NEW w \in BOOLEAN,
           NEW S, SavesOK(S),
           \A s \in S : \E t \in saves : t.question = s.question /\ t.id = s.id
    PROVE  SavesOK(S \union Sent(Q, w))
<1> DEFINE new(q) == [question |-> q, id |-> CHOOSE i \in FreeIds(q) : TRUE,
                      version |-> pending[q], at |-> "sent", waiting |-> w]
<1>1. Sent(Q, w) = {new(q) : q \in Q}
    BY DEF Sent
<1>2. ASSUME NEW q \in Q
      PROVE  new(q) \in Save /\ new(q).id \in FreeIds(q) /\ new(q).question = q
    <2>1. q \in Questions /\ pending[q] # 0 /\ pending[q] \in Change
        BY DEF Pending, TypeOK, Answers
    <2>2. (CHOOSE i \in FreeIds(q) : TRUE) \in FreeIds(q)
        BY <1>2
    <2>3. FreeIds(q) \subseteq 1 .. MaxSaves
        BY DEF FreeIds
    <2> QED BY <2>1, <2>2, <2>3 DEF Save
<1>3. ASSUME NEW s \in S, NEW q \in Q PROVE s.question # q \/ s.id # new(q).id
    <2>1. PICK t \in saves : t.question = s.question /\ t.id = s.id
        OBVIOUS
    <2> QED BY <2>1, <1>2 DEF FreeIds, Under
<1> HIDE DEF new
<1>4. (S \union Sent(Q, w)) \subseteq Save
    BY <1>1, <1>2 DEF SavesOK
<1>5. ASSUME NEW x \in S \union Sent(Q, w), NEW y \in S \union Sent(Q, w),
             x.question = y.question, x.id = y.id
      PROVE  x = y
    <2>1. CASE x \in S /\ y \in S
        BY <2>1, <1>5 DEF SavesOK
    <2>2. CASE x \in S /\ y \notin S
        BY <2>2, <1>1, <1>2, <1>3, <1>5
    <2>3. CASE x \notin S /\ y \in S
        BY <2>3, <1>1, <1>2, <1>3, <1>5
    <2>4. CASE x \notin S /\ y \notin S
        <3>1. PICK q \in Q : x = new(q)
            BY <2>4, <1>1
        <3>2. PICK r \in Q : y = new(r)
            BY <2>4, <1>1
        <3> QED BY <3>1, <3>2, <1>2, <1>5
    <2> QED BY <2>1, <2>2, <2>3, <2>4
<1> QED BY <1>4, <1>5 DEF SavesOK

\* The page goes away from its saves.
LEMMA AllGivenUp ==
    ASSUME TypeOK
    PROVE  LET S == UNION {GivenUp(s) : s \in saves}
           IN  /\ SavesOK(S)
               /\ \A s \in S : \E t \in saves : t.question = s.question /\ t.id = s.id
<1> DEFINE S == UNION {GivenUp(s) : s \in saves}
<1>1. ASSUME NEW x \in S
      PROVE  x \in Save /\ \E t \in saves :
                /\ t.question = x.question /\ t.id = x.id
                /\ x = [t EXCEPT !.waiting = FALSE]
    <2>1. PICK t \in saves : x \in GivenUp(t)
        OBVIOUS
    <2>2. t \in Save /\ x = [t EXCEPT !.waiting = FALSE]
        BY <2>1 DEF GivenUp, TypeOK
    <2> QED BY <2>2 DEF Save
<1>2. ASSUME NEW x \in S, NEW y \in S, x.question = y.question, x.id = y.id
      PROVE  x = y
    <2>1. PICK t \in saves : /\ t.question = x.question /\ t.id = x.id
                             /\ x = [t EXCEPT !.waiting = FALSE]
        BY <1>1
    <2>2. PICK r \in saves : /\ r.question = y.question /\ r.id = y.id
                             /\ y = [r EXCEPT !.waiting = FALSE]
        BY <1>1
    <2>3. t = r
        BY <1>2, <2>1, <2>2 DEF TypeOK
    <2> QED BY <2>1, <2>2, <2>3
<1> QED BY <1>1, <1>2 DEF SavesOK

-----------------------------------------------------------------------------
(***************************************************************************)
(* Types.                                                                  *)
(***************************************************************************)
\* A page that has just loaded has every type.
LEMMA TypeInit == ASSUME Init PROVE TypeOK
<1>1. Nobody \in Reading
    BY Bounds DEF Reading, Nobody
<1>2. {saveFailed, resendFailed, autoSubmitted, draft} \subseteq BOOLEAN
    BY Zenon DEF Init
<1>3. left \in -1 .. Deadline /\ changes \in Change
    BY Bounds DEF Init
<1>4. saves \subseteq Save /\ timers \subseteq {q \in Questions : pending[q] # 0}
    BY DEF Init
<1>5. \A s, t \in saves : s.question = t.question /\ s.id = t.id => s = t
    BY DEF Init
<1>6. /\ page \in {"open", "loading", "left"} /\ submit \in {"idle", "saving", "posting"}
      /\ post \in {"none", "sent", "running", "done", "refused", "denied"}
      /\ {shown, pending, resent, stored, acked, confirmed} \subseteq Answers
    BY Bounds DEF Init
<1> QED BY <1>1, <1>2, <1>3, <1>4, <1>5, <1>6 DEF Init, TypeOK

\* Taking answers out of pending leaves no timer without its answer.
LEMMA TypeTaken ==
    ASSUME TypeOK, NEW Q \in SUBSET Questions, Taken(Q)
    PROVE  pending' \in Answers /\ timers' \subseteq {q \in Questions : pending'[q] # 0}
  BY Bounds DEF TypeOK, Taken, Answers

\* One of the student's actions, or one of the page's before handing in.
LEMMA TypeForm ==
    ASSUME TypeOK,
           \/ \E q \in Questions : Changed(q) \/ Debounced(q)
           \/ \E s \in saves : SaveSucceeds(s) \/ SaveFails(s)
    PROVE  TypeOK'
<1> USE DEF submitVars, serverVars
<1>0. SavesOK(saves)
    BY DEF TypeOK, SavesOK
<1>1. ASSUME NEW q \in Questions, Changed(q) PROVE TypeOK'
    <2>1. changes' \in Change /\ changes' # 0
        BY <1>1, Bounds DEF Changed, TypeOK, Change
    <2>2. shown' \in Answers /\ pending' \in Answers
        BY <1>1, <2>1 DEF Changed, TypeOK, Answers
    <2>3. timers' \subseteq {r \in Questions : pending'[r] # 0}
        BY <1>1, <2>1 DEF Changed, TypeOK, Answers
    <2> QED BY <1>1, <2>1, <2>2, <2>3 DEF Changed, TypeOK
<1>2. ASSUME NEW q \in Questions, Debounced(q) PROVE TypeOK'
    <2>1. {q} \in SUBSET Pending
        BY <1>2 DEF Debounced, Pending, TypeOK
    <2>2. SavesOK(saves')
        BY <1>0, <1>2, <2>1, MoreSaves DEF Debounced
    <2>3. pending' \in Answers /\ timers' \subseteq {r \in Questions : pending'[r] # 0}
        BY <1>2, TypeTaken DEF Debounced
    <2> QED BY <1>2, <2>2, <2>3 DEF Debounced, TypeOK, SavesOK
<1>3. ASSUME NEW s \in saves, SaveSucceeds(s) PROVE TypeOK'
    <2>1. s.question \in Questions /\ s.version \in Change
        BY DEF TypeOK, Save
    <2>2. acked' \in Answers
        BY <1>3, <2>1 DEF SaveSucceeds, TypeOK, Answers
    <2>3. SavesOK(saves')
        BY <1>0, <1>3, FewerSaves DEF SaveSucceeds
    <2> QED BY <1>3, <2>2, <2>3 DEF SaveSucceeds, StillUnsaved, TypeOK, SavesOK
<1>4. ASSUME NEW s \in saves, SaveFails(s) PROVE TypeOK'
    <2>1. s \in Save /\ s.question \in Questions /\ s.version \in Change \ {0}
        BY DEF TypeOK, Save
    <2>2. SavesOK(saves')
        <3>1. CASE s.at = "sent"
            <4>1. [s EXCEPT !.waiting = FALSE] \in Save
                BY <2>1 DEF Save
            <4> QED BY <1>0, <1>4, <2>1, <3>1, <4>1, SaveMovesOn DEF SaveFails, GivenUp, Save
        <3>2. CASE s.at # "sent"
            BY <1>0, <1>4, <3>2, FewerSaves DEF SaveFails, GivenUp
        <3> QED BY <3>1, <3>2
    <2>3. pending' \in Answers
        BY <1>4, <2>1 DEF SaveFails, TypeOK, Answers
    <2>4. timers' \subseteq {q \in Questions : pending'[q] # 0}
        BY <1>4, <2>1 DEF SaveFails, TypeOK, Answers
    <2> QED BY <1>4, <2>2, <2>3, <2>4 DEF SaveFails, TypeOK, SavesOK
<1> QED BY <1>1, <1>2, <1>3, <1>4

\* A page that goes away leaves nothing behind but its requests.
LEMMA TypeUnload ==
    ASSUME TypeOK, NEW next \in {"loading", "left"}, Unload(next),
           post' \in {"none", "sent", "running", "done", "refused", "denied"}
    PROVE  TypeOK'
<1> DEFINE given == UNION {GivenUp(s) : s \in saves}
<1>1. SavesOK(given) /\ \A s \in given :
          \E t \in saves : t.question = s.question /\ t.id = s.id
    BY AllGivenUp
<1>2. SavesOK(saves')
    <2> DEFINE Q == {q \in Pending : FreeIds(q) # {}}
    <2>1. Q \in SUBSET Pending /\ \A q \in Q : FreeIds(q) # {}
        OBVIOUS
    <2>2. saves' = given \union Sent(Q, FALSE)
        BY DEF Unload
    <2> HIDE DEF given, Q
    <2> QED BY <1>1, <2>1, <2>2, MoreSaves
<1> QED BY <1>2, Bounds DEF Unload, TypeOK, SavesOK, serverVars

\* Types through the hand-in, reloads and the end of a session.
LEMMA TypeHandIn ==
    ASSUME TypeOK,
           \/ Confirmed \/ TimeUp \/ Reloaded \/ Loaded \/ ResendsFail \/ ResendsSucceed
           \/ PostSucceeds \/ PostFails \/ LoggedOut
    PROVE  TypeOK'
<1> USE DEF formVars, submitVars, serverVars
<1>0. SavesOK(saves)
    BY DEF TypeOK, SavesOK
<1>1. ASSUME DoSubmit, autoSubmitted' \in BOOLEAN PROVE TypeOK'
    <2>1. SavesOK(saves')
        BY <1>0, <1>1, MoreSaves DEF DoSubmit
    <2>2. pending' \in Answers /\ timers' \subseteq {q \in Questions : pending'[q] # 0}
        BY <1>1, TypeTaken DEF DoSubmit, Pending
    <2> QED BY <1>1, <2>1, <2>2 DEF DoSubmit, TypeOK, SavesOK
<1>2. CASE Confirmed
    BY <1>1, <1>2 DEF Confirmed, TypeOK
<1>3. CASE TimeUp
    <2>1. CASE DoSubmit
        BY <1>1, <1>3, <2>1 DEF TimeUp
    <2>2. CASE ~DoSubmit
        BY <1>3, <2>2 DEF TimeUp, TypeOK
    <2> QED BY <2>1, <2>2
<1>4. CASE Reloaded
    BY <1>4, TypeUnload DEF Reloaded, TypeOK
<1>5. CASE Loaded
    BY <1>5 DEF Loaded, TypeOK
<1>6. ASSUME BackToForm, post' \in {"none", "sent", "running", "done", "refused", "denied"}
      PROVE  TypeOK'
    BY <1>6, Bounds DEF BackToForm, TypeOK
<1>7. CASE ResendsFail
    BY <1>6, <1>7 DEF ResendsFail, TypeOK
<1>8. CASE ResendsSucceed
    BY <1>8 DEF ResendsSucceed, TypeOK
<1>9. CASE PostSucceeds
    BY <1>9, TypeUnload DEF PostSucceeds
<1>10. CASE PostFails
    BY <1>6, <1>10 DEF PostFails, TypeOK
<1>11. CASE LoggedOut
    BY <1>11, TypeUnload DEF LoggedOut, TypeOK
<1> QED BY <1>2, <1>3, <1>4, <1>5, <1>7, <1>8, <1>9, <1>10, <1>11

\* Types through what the server and the network do.
LEMMA TypeServer ==
    ASSUME TypeOK, Server \/ Tick
    PROVE  TypeOK'
<1> USE DEF pageVars, formVars, submitVars, serverVars
<1>0. SavesOK(saves)
    BY DEF TypeOK, SavesOK
<1>1. ASSUME NEW s \in saves, SaveServed(s) PROVE TypeOK'
    <2>1. s \in Save /\ s.question \in Questions /\ s.version \in Change
        BY DEF TypeOK, Save
    <2>2. PICK reply \in {"saved", "refused", "denied"} :
              /\ stored' = IF reply = "saved" THEN [stored EXCEPT ![s.question] = s.version]
                                              ELSE stored
              /\ saves' = (saves \ {s}) \union
                          IF s.waiting THEN {[s EXCEPT !.at = reply]} ELSE {}
        BY <1>1 DEF SaveServed
    <2>3. stored' \in Answers
        BY <2>1, <2>2 DEF TypeOK, Answers
    <2>4. SavesOK(saves')
        <3>1. CASE s.waiting
            <4>1. [s EXCEPT !.at = reply] \in Save
                BY <2>1 DEF Save
            <4> QED BY <1>0, <2>1, <2>2, <3>1, <4>1, SaveMovesOn DEF Save
        <3>2. CASE ~s.waiting
            BY <1>0, <2>2, <3>2, FewerSaves
        <3> QED BY <3>1, <3>2
    <2> QED BY <1>1, <2>3, <2>4 DEF SaveServed, TypeOK, SavesOK
<1>2. ASSUME NEW s \in saves, SaveCancelled(s) PROVE TypeOK'
    <2>1. SavesOK(saves')
        BY <1>0, <1>2, FewerSaves DEF SaveCancelled
    <2> QED BY <1>2, <2>1 DEF SaveCancelled, TypeOK, SavesOK
<1>3. CASE PostCancelled
    BY <1>3 DEF PostCancelled, TypeOK
<1>4. CASE PostDenied
    BY <1>4 DEF PostDenied, Reply, TypeOK
<1>5. CASE PostRead
    BY <1>5 DEF PostRead, Reply, TypeOK, Reading
<1>6. CASE TickerReads
    BY <1>6 DEF TickerReads, TypeOK, Reading
<1>7. CASE HandInEnds
    BY <1>7, Bounds DEF HandInEnds, Reply, TypeOK, Reading, Nobody
<1>8. CASE HandInFails \/ HandInHalfFails
    <2>1. recorded' \subseteq Answers
        BY <1>8 DEF HandInFails, HandInHalfFails, HandInError, Recorded, TypeOK, Reading
    <2> QED BY <1>8, <2>1, Bounds DEF HandInFails, HandInHalfFails, HandInError, Reply,
            TypeOK, Reading, Nobody
<1>9. CASE Tick
    BY <1>9, Bounds DEF Tick, TypeOK
<1> QED BY <1>1, <1>2, <1>3, <1>4, <1>5, <1>6, <1>7, <1>8, <1>9 DEF Server

\* TypeOK is inductive.
LEMMA TypeNext == ASSUME TypeOK, [Next]_vars PROVE TypeOK'
<1>1. CASE Student
    BY <1>1, TypeForm, TypeHandIn DEF Student
<1>2. CASE Page
    BY <1>2, TypeForm, TypeHandIn DEF Page
<1>3. CASE Server \/ Tick
    BY <1>3, TypeServer
<1>4. CASE UNCHANGED vars
    BY <1>4 DEF vars, pageVars, formVars, submitVars, serverVars, TypeOK
<1> QED BY <1>1, <1>2, <1>3, <1>4 DEF Next

\* What the page knows keeps its type, and two saves under way are never taken
\* for one another (TypeOK; sendAnswer and doSubmit).
THEOREM PageTypeCorrect == Spec => []TypeOK
<1>1. Init => TypeOK
    BY TypeInit
<1>2. TypeOK /\ [Next]_vars => TypeOK'
    BY TypeNext
<1> QED BY <1>1, <1>2, PTL DEF Spec

-----------------------------------------------------------------------------
(***************************************************************************)
(* A failed save is warned about.                                          *)
(***************************************************************************)
\* FailureShown is inductive, given the types.
LEMMA FailureShownNext == ASSUME TypeOK, FailureShown, [Next]_vars PROVE FailureShown'
<1> USE DEF formVars, submitVars, pageVars, serverVars
<1>1. ASSUME UNCHANGED <<pending, timers, saveFailed>> PROVE FailureShown'
    BY <1>1 DEF FailureShown, Pending
<1>2. ASSUME NEW Q \in SUBSET Questions, Taken(Q), saveFailed' = saveFailed
      PROVE  FailureShown'
    BY <1>2 DEF FailureShown, Pending, Taken, TypeOK, Answers
<1>3. ASSUME NEW next, Unload(next) PROVE FailureShown'
    BY <1>3 DEF Unload, FailureShown, Pending, NoAnswers
<1>4. ASSUME NEW q \in Questions, Changed(q) PROVE FailureShown'
    BY <1>4 DEF Changed, FailureShown, Pending, TypeOK, Answers
<1>5. ASSUME NEW q \in Questions, Debounced(q) PROVE FailureShown'
    BY <1>2, <1>5 DEF Debounced
<1>6. ASSUME NEW s \in saves, SaveSucceeds(s) PROVE FailureShown'
    BY <1>6 DEF SaveSucceeds, StillUnsaved, FailureShown, Pending
<1>7. ASSUME NEW s \in saves, SaveFails(s) PROVE FailureShown'
    BY <1>7 DEF SaveFails, FailureShown
<1>8. ASSUME DoSubmit PROVE FailureShown'
    BY <1>2, <1>8 DEF DoSubmit, Pending
<1>9. CASE Student
    BY <1>3, <1>4, <1>8, <1>9 DEF Student, Confirmed, Reloaded
<1>10. CASE Page
    <2>1. CASE TimeUp
        BY <1>1, <1>8, <2>1 DEF TimeUp
    <2>2. CASE ResendsFail \/ ResendsSucceed \/ PostFails \/ Loaded
        BY <1>1, <2>2 DEF ResendsFail, ResendsSucceed, PostFails, Loaded, BackToForm
    <2>3. CASE PostSucceeds \/ LoggedOut
        BY <1>3, <2>3 DEF PostSucceeds, LoggedOut
    <2> QED BY <1>5, <1>6, <1>7, <1>10, <2>1, <2>2, <2>3 DEF Page
<1>11. CASE Server \/ Tick
    BY <1>1, <1>11 DEF Server, Tick, SaveServed, SaveCancelled, PostCancelled, PostDenied,
                      PostRead, TickerReads, HandInEnds, HandInFails, HandInHalfFails,
                      HandInError
<1>12. CASE UNCHANGED vars
    BY <1>1, <1>12 DEF vars
<1> QED BY <1>9, <1>10, <1>11, <1>12 DEF Next

\* No answer waits for the next change or hand-in without the warning being
\* there, however saves fail and succeed (FailureShown; saveFailed).
THEOREM FailuresShown == Spec => []FailureShown
<1>1. Init => FailureShown
    BY DEF Init, FailureShown, Pending, NoAnswers
<1>2. TypeOK /\ FailureShown /\ [Next]_vars => FailureShown'
    BY FailureShownNext
<1> QED BY <1>1, <1>2, PageTypeCorrect, PTL DEF Spec

-----------------------------------------------------------------------------
(***************************************************************************)
(* The page is told its hand-in went well only when it did.                *)
(***************************************************************************)
\* ToldOnceHandedIn is inductive: a draft is never stored again.
LEMMA ToldNext == ASSUME ToldOnceHandedIn, [Next]_vars PROVE ToldOnceHandedIn'
<1> USE DEF formVars, submitVars, pageVars, serverVars
<1>1. ASSUME post' = "done" => post = "done", draft' = draft PROVE ToldOnceHandedIn'
    BY <1>1 DEF ToldOnceHandedIn
<1>2. CASE Student
    BY <1>1, <1>2 DEF Student, Confirmed, Reloaded, Changed, DoSubmit, Unload
<1>3. CASE Page
    <2>1. ASSUME NEW q \in Questions, Debounced(q) PROVE ToldOnceHandedIn'
        BY <1>1, <2>1 DEF Debounced
    <2>2. ASSUME NEW s \in saves, SaveSucceeds(s) \/ SaveFails(s) PROVE ToldOnceHandedIn'
        BY <1>1, <2>2 DEF SaveSucceeds, SaveFails
    <2>3. CASE TimeUp
        BY <1>1, <2>3 DEF TimeUp, DoSubmit
    <2>4. CASE ResendsFail \/ ResendsSucceed \/ PostFails \/ Loaded
        BY <1>1, <2>4 DEF ResendsFail, ResendsSucceed, PostFails, Loaded, BackToForm
    <2>5. CASE PostSucceeds \/ LoggedOut
        BY <1>1, <2>5 DEF PostSucceeds, LoggedOut, Unload
    <2> QED BY <1>3, <2>1, <2>2, <2>3, <2>4, <2>5 DEF Page
<1>4. CASE Server
    <2>1. ASSUME NEW s \in saves, SaveServed(s) \/ SaveCancelled(s) PROVE ToldOnceHandedIn'
        BY <1>1, <2>1 DEF SaveServed, SaveCancelled
    <2>2. CASE \/ PostCancelled \/ PostDenied \/ TickerReads \/ HandInFails
                \/ HandInHalfFails
        BY <1>1, <2>2 DEF PostCancelled, PostDenied, Reply, TickerReads, HandInFails,
                          HandInHalfFails, HandInError
    <2>3. CASE PostRead
        BY <2>3 DEF PostRead, Reply, AlreadySubmitted, ToldOnceHandedIn
    <2>4. CASE HandInEnds
        BY <2>4 DEF HandInEnds, ToldOnceHandedIn
    <2> QED BY <1>4, <2>1, <2>2, <2>3, <2>4 DEF Server
<1>5. CASE Tick
    BY <1>1, <1>5 DEF Tick
<1>6. CASE UNCHANGED vars
    BY <1>1, <1>6 DEF vars
<1> QED BY <1>2, <1>3, <1>4, <1>5, <1>6 DEF Next

\* The reply that sends the page on to /info is given only when no draft is
\* left, never for a Submit under way (ToldOnceHandedIn; handleSubmit).
THEOREM ToldWhenHandedIn == Spec => []ToldOnceHandedIn
<1>1. Init => ToldOnceHandedIn
    BY DEF Init, ToldOnceHandedIn
<1>2. ToldOnceHandedIn /\ [Next]_vars => ToldOnceHandedIn'
    BY ToldNext
<1> QED BY <1>1, <1>2, PTL DEF Spec

-----------------------------------------------------------------------------
(***************************************************************************)
(* The hand-in is posted after its saves.                                  *)
(*                                                                         *)
(* PostedAfterSaves is not inductive: why a re-sent answer is saved by the *)
(* time Promise.all is done has to be followed from the moment it is sent. *)
(***************************************************************************)
\* The page waits for a save of this answer.
Awaited(q, v) == \E s \in saves : s.waiting /\ s.question = q /\ s.version = v

\* Every re-sent answer is saved, has failed or is waited for.
ResendsFollowed ==
    submit = "saving" => \A q \in Questions :
        resent[q] <= acked[q] \/ resendFailed \/ Awaited(q, resent[q])

\* doSubmit runs in an open page only.
SubmitsWhenOpen == page # "open" => submit = "idle"

HandInInv == ResendsFollowed /\ SubmitsWhenOpen /\ PostedAfterSaves

\* Steps that leave doSubmit and what it waits for alone.
LEMMA HandInUndisturbed ==
    ASSUME TypeOK, TypeOK', HandInInv,
           UNCHANGED <<page, submit, resent>>,
           resendFailed => resendFailed',
           \A q \in Questions : acked[q] <= acked'[q],
           \A s \in saves : s.waiting => Awaited(s.question, s.version)'
    PROVE  HandInInv'
<1>1. \A q \in Questions :
          resent[q] \in Nat /\ acked[q] \in Nat /\ acked'[q] \in Nat
    BY Bounds DEF TypeOK, Answers, Change
<1>2. ASSUME NEW q \in Questions, resent[q] <= acked[q] PROVE resent'[q] <= acked'[q]
    BY <1>1, <1>2
<1>3. ASSUME NEW q \in Questions, Awaited(q, resent[q]) PROVE Awaited(q, resent[q])'
    BY <1>3 DEF Awaited
<1>4. ResendsFollowed'
    BY <1>2, <1>3 DEF HandInInv, ResendsFollowed
<1>5. SubmitsWhenOpen' /\ PostedAfterSaves'
    BY <1>2 DEF HandInInv, SubmitsWhenOpen, PostedAfterSaves
<1> QED BY <1>4, <1>5 DEF HandInInv

\* doSubmit is over, or the page is gone.
LEMMA HandInOver == ASSUME submit' = "idle" PROVE HandInInv'
  BY DEF HandInInv, ResendsFollowed, SubmitsWhenOpen, PostedAfterSaves

\* Each answer taken out of pending is in a save.
LEMMA SentEach ==
    ASSUME NEW Q, NEW w
    PROVE  \A q \in Q : \E s \in Sent(Q, w) :
               s.waiting = w /\ s.question = q /\ s.version = pending[q]
<1> DEFINE new(q) == [question |-> q, id |-> CHOOSE i \in FreeIds(q) : TRUE,
                      version |-> pending[q], at |-> "sent", waiting |-> w]
<1>1. Sent(Q, w) = {new(q) : q \in Q}
    BY DEF Sent
<1>2. ASSUME NEW q \in Q
      PROVE  new(q).waiting = w /\ new(q).question = q /\ new(q).version = pending[q]
    OBVIOUS
<1> HIDE DEF new
<1> QED BY <1>1, <1>2

\* doSubmit takes what is pending and waits for it.
LEMMA HandInBegins == ASSUME TypeOK, DoSubmit PROVE HandInInv'
<1>1. ASSUME NEW q \in Pending PROVE Awaited(q, resent[q])'
    <2>1. PICK s \in Sent(Pending, TRUE) :
              s.waiting = TRUE /\ s.question = q /\ s.version = pending[q]
        <3>1. \A r \in Pending : \E s \in Sent(Pending, TRUE) :
                  s.waiting = TRUE /\ s.question = r /\ s.version = pending[r]
            BY SentEach, Zenon
        <3> QED BY <3>1
    <2>2. s \in saves' /\ resent' = pending
        BY DEF DoSubmit
    <2> QED BY <2>1, <2>2 DEF Awaited
<1>2. ASSUME NEW q \in Questions, q \notin Pending PROVE resent'[q] <= acked'[q]
    BY <1>2, Bounds DEF DoSubmit, Pending, TypeOK, Answers, Change
<1>3. page' = "open" /\ submit' = "saving"
    BY DEF DoSubmit
<1> QED BY <1>1, <1>2, <1>3 DEF HandInInv, ResendsFollowed, SubmitsWhenOpen, PostedAfterSaves

\* A reply to a save tells doSubmit about it.
LEMMA HandInSaveSucceeds ==
    ASSUME TypeOK, TypeOK', HandInInv, NEW s \in saves, SaveSucceeds(s)
    PROVE  HandInInv'
<1>1. s.question \in Questions /\ s.version \in Nat
    BY Bounds DEF TypeOK, Save, Change
<1>2. \A q \in Questions :
          resent[q] \in Nat /\ acked[q] \in Nat /\ acked[q] <= acked'[q]
    BY <1>1, Bounds DEF SaveSucceeds, TypeOK, Answers, Change
<1>3. s.version <= acked'[s.question] /\ acked'[s.question] \in Nat
    BY <1>1, <1>2 DEF SaveSucceeds, TypeOK, Answers
<1>4. UNCHANGED <<page, submit, resent, resendFailed>> /\ saves' = saves \ {s}
    BY DEF SaveSucceeds, submitVars
<1>5. \A q \in Questions : acked'[q] \in Nat
    BY Bounds DEF TypeOK, Answers, Change
<1>6. ASSUME submit = "saving", NEW q \in Questions
      PROVE  resent[q] <= acked'[q] \/ resendFailed \/ Awaited(q, resent[q])'
    <2>1. CASE resent[q] <= acked[q]
        BY <1>2, <1>5, <2>1
    <2>2. CASE Awaited(q, resent[q])
        <3>1. PICK t \in saves : t.waiting /\ t.question = q /\ t.version = resent[q]
            BY <2>2 DEF Awaited
        <3>2. CASE t = s
            BY <1>3, <3>1, <3>2
        <3>3. CASE t # s
            BY <1>4, <3>1, <3>3 DEF Awaited
        <3> QED BY <3>2, <3>3
    <2> QED BY <1>6, <2>1, <2>2 DEF HandInInv, ResendsFollowed
<1>7. ResendsFollowed' /\ SubmitsWhenOpen'
    BY <1>4, <1>6 DEF HandInInv, ResendsFollowed, SubmitsWhenOpen
<1>8. PostedAfterSaves'
    BY <1>2, <1>4, <1>5 DEF HandInInv, PostedAfterSaves
<1> QED BY <1>7, <1>8 DEF HandInInv

\* A re-sent answer that fails is noted before it is put back.
LEMMA HandInSaveFails ==
    ASSUME TypeOK, TypeOK', HandInInv, NEW s \in saves, SaveFails(s)
    PROVE  HandInInv'
<1>1. UNCHANGED <<page, submit, resent, acked>>
    BY DEF SaveFails
<1>2. resendFailed' = (resendFailed \/ resent[s.question] = s.version)
    BY DEF SaveFails
<1>3. saves \ {s} \subseteq saves'
    BY DEF SaveFails
<1>4. ASSUME submit = "saving", NEW q \in Questions
      PROVE  resent[q] <= acked[q] \/ resendFailed' \/ Awaited(q, resent[q])'
    <2>1. CASE Awaited(q, resent[q])
        <3>1. PICK t \in saves : t.waiting /\ t.question = q /\ t.version = resent[q]
            BY <2>1 DEF Awaited
        <3>2. CASE t = s
            BY <1>2, <3>1, <3>2
        <3>3. CASE t # s
            BY <1>1, <1>3, <3>1, <3>3 DEF Awaited
        <3> QED BY <3>2, <3>3
    <2> QED BY <1>2, <1>4, <2>1 DEF HandInInv, ResendsFollowed
<1> QED BY <1>1, <1>4 DEF HandInInv, ResendsFollowed, SubmitsWhenOpen, PostedAfterSaves

\* Promise.all is done and nothing has failed: everything re-sent is saved.
LEMMA HandInPosted == ASSUME HandInInv, ResendsSucceed PROVE HandInInv'
<1>1. submit = "saving" /\ ~resendFailed /\ UNCHANGED <<page, resent, acked>>
    BY DEF ResendsSucceed, AllSaved, AllSettled, formVars
<1>2. ASSUME NEW q \in Questions PROVE ~Awaited(q, resent[q])
    BY DEF ResendsSucceed, AllSaved, AllSettled, Awaited
<1>3. \A q \in Questions : resent[q] <= acked[q]
    BY <1>1, <1>2 DEF HandInInv, ResendsFollowed
<1>4. submit' = "posting" /\ page = "open"
    BY <1>1 DEF ResendsSucceed, HandInInv, SubmitsWhenOpen
<1> QED BY <1>1, <1>3, <1>4 DEF HandInInv, ResendsFollowed, SubmitsWhenOpen, PostedAfterSaves

\* HandInInv is inductive.
LEMMA HandInInvNext ==
    ASSUME TypeOK, TypeOK', HandInInv, [Next]_vars
    PROVE  HandInInv'
<1> USE DEF formVars, submitVars, pageVars, serverVars
<1>1. ASSUME UNCHANGED <<page, submit, resent, resendFailed, acked>>,
             \A s \in saves : s.waiting => Awaited(s.question, s.version)'
      PROVE  HandInInv'
    <2>1. \A q \in Questions : acked[q] <= acked'[q]
        BY <1>1, Bounds DEF TypeOK, Answers, Change
    <2> QED BY <1>1, <2>1, HandInUndisturbed
<1>2. ASSUME saves \subseteq saves'
      PROVE  \A s \in saves : s.waiting => Awaited(s.question, s.version)'
    BY <1>2 DEF Awaited
<1>3. ASSUME NEW next, Unload(next) PROVE HandInInv'
    BY <1>3, HandInOver DEF Unload
<1>4. CASE Student
    <2>1. CASE Confirmed
        BY <2>1, HandInBegins DEF Confirmed
    <2>2. CASE Reloaded
        BY <1>3, <2>2 DEF Reloaded
    <2>3. ASSUME NEW q \in Questions, Changed(q) PROVE HandInInv'
        BY <1>1, <1>2, <2>3 DEF Changed
    <2> QED BY <1>4, <2>1, <2>2, <2>3 DEF Student
<1>5. CASE Page
    <2>1. ASSUME NEW q \in Questions, Debounced(q) PROVE HandInInv'
        BY <1>1, <1>2, <2>1 DEF Debounced
    <2>2. ASSUME NEW s \in saves, SaveSucceeds(s) \/ SaveFails(s) PROVE HandInInv'
        BY <2>2, HandInSaveSucceeds, HandInSaveFails
    <2>3. CASE TimeUp
        <3>1. CASE DoSubmit
            BY <3>1, HandInBegins
        <3>2. CASE ~DoSubmit
            BY <1>1, <1>2, <2>3, <3>2 DEF TimeUp
        <3> QED BY <3>1, <3>2
    <2>4. CASE ResendsFail \/ PostFails
        BY <2>4, HandInOver DEF ResendsFail, PostFails, BackToForm
    <2>5. CASE ResendsSucceed
        BY <2>5, HandInPosted
    <2>6. CASE PostSucceeds \/ LoggedOut
        BY <1>3, <2>6 DEF PostSucceeds, LoggedOut
    <2>7. CASE Loaded
        BY <2>7, HandInOver DEF Loaded, HandInInv, SubmitsWhenOpen
    <2> QED BY <1>5, <2>1, <2>2, <2>3, <2>4, <2>5, <2>6, <2>7 DEF Page
<1>6. CASE Server
    <2>1. ASSUME NEW s \in saves, SaveServed(s) PROVE HandInInv'
        <3>1. PICK reply : saves' = (saves \ {s}) \union
                      IF s.waiting THEN {[s EXCEPT !.at = reply]} ELSE {}
            BY <2>1 DEF SaveServed
        <3>2. s.waiting =>
                  LET r == [s EXCEPT !.at = reply]
                  IN r.waiting /\ r.question = s.question /\ r.version = s.version
            BY DEF TypeOK, Save
        <3>3. \A t \in saves : t.waiting => Awaited(t.question, t.version)'
            BY <3>1, <3>2 DEF Awaited
        <3> QED BY <1>1, <2>1, <3>3 DEF SaveServed
    <2>2. ASSUME NEW s \in saves, SaveCancelled(s) PROVE HandInInv'
        <3>1. \A t \in saves : t.waiting => Awaited(t.question, t.version)'
            BY <2>2 DEF SaveCancelled, Awaited
        <3> QED BY <1>1, <2>2, <3>1 DEF SaveCancelled
    <2>3. CASE PostCancelled \/ PostDenied \/ PostRead \/ TickerReads \/ HandInEnds
               \/ HandInFails \/ HandInHalfFails
        BY <1>1, <1>2, <2>3 DEF PostCancelled, PostDenied, PostRead, TickerReads, HandInEnds,
                                HandInFails, HandInHalfFails, HandInError
    <2> QED BY <1>6, <2>1, <2>2, <2>3 DEF Server
<1>7. CASE Tick
    BY <1>1, <1>2, <1>7 DEF Tick
<1>8. CASE UNCHANGED vars
    BY <1>1, <1>2, <1>8 DEF vars
<1> QED BY <1>4, <1>5, <1>6, <1>7, <1>8 DEF Next

\* The hand-in is posted only when all that waited to be sent as it was asked
\* for, or something newer, is saved: however many saves are under way, and in
\* whichever order they come back (PostedAfterSaves; doSubmit's Promise.all).
THEOREM HandInAfterSaves == Spec => []PostedAfterSaves
<1>1. Init => HandInInv
    BY DEF Init, HandInInv, ResendsFollowed, SubmitsWhenOpen, PostedAfterSaves
<1>2. TypeOK /\ TypeOK' /\ HandInInv /\ [Next]_vars => HandInInv'
    BY HandInInvNext
<1>3. HandInInv => PostedAfterSaves
    BY DEF HandInInv
<1> QED BY <1>1, <1>2, <1>3, PageTypeCorrect, PTL DEF Spec
-----------------------------------------------------------------------------
(***************************************************************************)
(* What makes the page forget an answer.                                   *)
(*                                                                         *)
(* NothingForgotten fails (run page_forgets).  It fails for one reason: a  *)
(* save fails while the page still waits for a save of a newer answer to   *)
(* the same question, and the older answer is put back.  Saves that        *)
(* overlap, overtake each other and fail in any other order lose nothing,  *)
(* nor do reloads, hand-ins that fail and answers changed meanwhile.       *)
(***************************************************************************)
\* A save fails only when the page waits for nothing newer than it.
NewestFails ==
    \A s \in saves : SaveFails(s) =>
        \A t \in Under(s.question) : t.waiting => t.version <= s.version

\* No answer is newer than the last change.
Numbered ==
    /\ \A q \in Questions : shown[q] <= changes /\ stored[q] <= changes
    /\ \A s \in saves : s.version <= changes

\* A page that is gone waits for nothing.
GoneQuietly ==
    page # "open" => pending = NoAnswers /\ \A s \in saves : ~s.waiting

\* Nothing the page knows is newer than what it shows, and a put-back answer
\* that is older waits only where what is shown is saved.
ShownIsNewest ==
    page = "open" =>
        \A q \in Questions :
            /\ pending[q] <= shown[q] /\ acked[q] <= shown[q]
            /\ \A s \in Under(q) : s.waiting => s.version <= shown[q]
            /\ pending[q] \in {0, shown[q]} \/ shown[q] = acked[q]

KeptInv == Numbered /\ GoneQuietly /\ ShownIsNewest /\ NothingForgotten

\* The answers are numbers, and so are those in the requests.
LEMMA Numbers ==
    ASSUME TypeOK
    PROVE  /\ changes \in Nat
           /\ \A q \in Questions : {shown[q], pending[q], acked[q], stored[q]} \subseteq Nat
           /\ \A s \in saves : s.question \in Questions /\ s.version \in Nat \ {0}
  BY Bounds DEF TypeOK, Answers, Change, Save

\* NothingForgotten, question by question.
LEMMA KeptEach ==
    ASSUME KeptInv, page = "open", NEW q \in Questions
    PROVE  /\ shown[q] \in {pending[q], acked[q]} \/ Awaited(q, shown[q])
           /\ pending[q] <= shown[q] /\ acked[q] <= shown[q]
           /\ \A s \in saves : s.question = q /\ s.waiting => s.version <= shown[q]
           /\ pending[q] \in {0, shown[q]} \/ shown[q] = acked[q]
  BY DEF KeptInv, NothingForgotten, ShownIsNewest, Under, Awaited

\* What waits to be sent is no newer than the last change.
LEMMA PendingNumbered ==
    ASSUME TypeOK, KeptInv
    PROVE  \A q \in Questions : pending[q] <= changes
<1>1. CASE page = "open"
    <2> SUFFICES ASSUME NEW q \in Questions PROVE pending[q] <= changes
        OBVIOUS
    <2>1. pending[q] <= shown[q] /\ shown[q] <= changes
        BY <1>1, KeptEach DEF KeptInv, Numbered
    <2> QED BY <2>1, Numbers
<1>2. CASE page # "open"
    BY <1>2, Numbers DEF KeptInv, GoneQuietly, NoAnswers
<1> QED BY <1>1, <1>2

\* A save sent carries the answer that was pending.
LEMMA SentWhat ==
    ASSUME NEW Q, NEW w
    PROVE  \A s \in Sent(Q, w) :
               s.question \in Q /\ s.version = pending[s.question] /\ s.waiting = w
<1> SUFFICES ASSUME NEW s \in Sent(Q, w)
             PROVE  s.question \in Q /\ s.version = pending[s.question] /\ s.waiting = w
    OBVIOUS
<1> DEFINE new(q) == [question |-> q, id |-> CHOOSE i \in FreeIds(q) : TRUE,
                      version |-> pending[q], at |-> "sent", waiting |-> w]
<1>1. PICK q \in Q : s = new(q)
    BY DEF Sent
<1>2. new(q).question = q /\ new(q).version = pending[q] /\ new(q).waiting = w
    OBVIOUS
<1> QED BY <1>1, <1>2

\* Steps that leave the form alone and keep what the page waits for.
LEMMA KeptUndisturbed ==
    ASSUME TypeOK, KeptInv,
           UNCHANGED <<page, shown, pending, acked, changes>>,
           \A q \in Questions : stored'[q] <= changes,
           \A s \in saves' : s.version <= changes,
           \A s \in saves' : s.waiting => Awaited(s.question, s.version),
           \A s \in saves : s.waiting => Awaited(s.question, s.version)'
    PROVE  KeptInv'
<1>1. Numbered'
    BY DEF KeptInv, Numbered
<1>2. GoneQuietly'
    BY DEF KeptInv, GoneQuietly, Awaited
<1>3. ASSUME page = "open", NEW q \in Questions
      PROVE  /\ shown[q] \in {pending[q], acked[q]} \/ Awaited(q, shown[q])'
             /\ \A s \in saves' : s.question = q /\ s.waiting => s.version <= shown[q]
    <2>1. Awaited(q, shown[q]) => Awaited(q, shown[q])'
        BY DEF Awaited
    <2>2. ASSUME NEW s \in saves', s.question = q, s.waiting PROVE s.version <= shown[q]
        <3>1. PICK t \in saves : t.waiting /\ t.question = q /\ t.version = s.version
            BY <2>2 DEF Awaited
        <3> QED BY <1>3, <3>1, KeptEach
    <2> QED BY <1>3, <2>1, <2>2, KeptEach
<1>4. ShownIsNewest'
    BY <1>3 DEF KeptInv, ShownIsNewest, Under
<1>5. NothingForgotten'
    BY <1>3 DEF NothingForgotten, Under, Awaited
<1> QED BY <1>1, <1>2, <1>4, <1>5 DEF KeptInv

\* Answers are taken out of pending and sent.
LEMMA KeptSent ==
    ASSUME TypeOK, KeptInv, page = "open",
           NEW Q \in SUBSET Questions, Taken(Q), saves' = saves \union Sent(Q, TRUE),
           UNCHANGED <<page, shown, acked, changes, stored>>
    PROVE  KeptInv'
<1>1. \A s \in Sent(Q, TRUE) :
          s.question \in Q /\ s.version = pending[s.question] /\ s.waiting = TRUE
    BY SentWhat, Zenon
<1>2. \A q \in Questions : pending'[q] = IF q \in Q THEN 0 ELSE pending[q]
    BY DEF Taken
<1>3. Numbered'
    BY <1>1, PendingNumbered DEF KeptInv, Numbered
<1>4. ASSUME NEW q \in Questions
      PROVE  /\ shown[q] \in {pending'[q], acked[q]} \/ Awaited(q, shown[q])'
             /\ pending'[q] <= shown[q] /\ acked[q] <= shown[q]
             /\ \A s \in saves' : s.question = q /\ s.waiting => s.version <= shown[q]
             /\ pending'[q] \in {0, shown[q]} \/ shown[q] = acked[q]
    <2>1. Awaited(q, shown[q]) => Awaited(q, shown[q])'
        BY DEF Awaited
    <2>2. ASSUME q \in Q, shown[q] = pending[q] PROVE Awaited(q, shown[q])'
        <3>1. \A r \in Q : \E s \in Sent(Q, TRUE) :
                  s.waiting = TRUE /\ s.question = r /\ s.version = pending[r]
            BY SentEach, Zenon
        <3>2. PICK s \in Sent(Q, TRUE) :
                  s.waiting = TRUE /\ s.question = q /\ s.version = pending[q]
            BY <2>2, <3>1
        <3> QED BY <2>2, <3>2 DEF Awaited
    <2>3. shown[q] \in {pending'[q], acked[q]} \/ Awaited(q, shown[q])'
        BY <1>2, <2>1, <2>2, KeptEach
    <2>4. \A s \in saves' : s.question = q /\ s.waiting => s.version <= shown[q]
        BY <1>1, KeptEach
    <2>5. /\ pending'[q] <= shown[q]
          /\ pending'[q] \in {0, shown[q]} \/ shown[q] = acked[q]
        BY <1>2, KeptEach, Numbers
    <2> QED BY <1>2, <2>3, <2>4, <2>5, KeptEach, Numbers
<1>5. ShownIsNewest'
    BY <1>4 DEF ShownIsNewest, Under
<1>6. NothingForgotten'
    BY <1>4 DEF NothingForgotten, Under, Awaited
<1>7. GoneQuietly'
    BY DEF GoneQuietly
<1> QED BY <1>3, <1>5, <1>6, <1>7 DEF KeptInv

\* The student changes an answer.
LEMMA KeptChanged ==
    ASSUME TypeOK, KeptInv, NEW q \in Questions, Changed(q)
    PROVE  KeptInv'
<1> USE DEF serverVars
<1>1. changes' = changes + 1 /\ changes \in Nat /\ page = "open" /\ page' = "open"
    BY Numbers DEF Changed
<1>2. UNCHANGED <<saves, stored, acked>>
    BY DEF Changed
<1>3. /\ shown'[q] = changes + 1 /\ pending'[q] = changes + 1
      /\ \A r \in Questions : r # q => shown'[r] = shown[r] /\ pending'[r] = pending[r]
    BY <1>1 DEF Changed, TypeOK, Answers
<1>4. Numbered'
    BY <1>1, <1>2, <1>3, Numbers DEF KeptInv, Numbered
<1>5. ASSUME NEW r \in Questions
      PROVE  /\ shown'[r] \in {pending'[r], acked[r]} \/ (r # q /\ Awaited(r, shown[r]))
             /\ pending'[r] <= shown'[r] /\ acked[r] <= shown'[r]
             /\ \A s \in saves : s.question = r /\ s.waiting => s.version <= shown'[r]
             /\ pending'[r] \in {0, shown'[r]} \/ shown'[r] = acked[r]
    <2>1. CASE r = q
        <3>1. acked[q] <= changes
            BY <1>1, KeptEach, Numbers DEF KeptInv, Numbered
        <3>2. \A s \in saves : s.version <= changes
            BY DEF KeptInv, Numbered
        <3>3. \A s \in saves : s.version <= changes + 1
            BY <1>1, <3>2, Numbers
        <3>4. acked[q] <= changes + 1
            BY <1>1, <3>1, Numbers
        <3> QED BY <1>1, <1>3, <2>1, <3>3, <3>4
    <2>2. CASE r # q
        BY <1>1, <1>3, <2>2, KeptEach
    <2> QED BY <2>1, <2>2
<1>6. ShownIsNewest'
    BY <1>2, <1>5 DEF ShownIsNewest, Under
<1>7. NothingForgotten'
    BY <1>2, <1>3, <1>5 DEF NothingForgotten, Under, Awaited
<1> QED BY <1>1, <1>4, <1>6, <1>7 DEF KeptInv, GoneQuietly

\* A save works out: what was shown while it was under way is saved, or the page
\* goes on waiting for it.
LEMMA KeptSaveSucceeds ==
    ASSUME TypeOK, KeptInv, NEW s \in saves, SaveSucceeds(s)
    PROVE  KeptInv'
<1> USE DEF serverVars
<1>1. page = "open" /\ s.waiting /\ saves' = saves \ {s}
    BY DEF SaveSucceeds, KeptInv, GoneQuietly
<1>2. UNCHANGED <<page, shown, pending, changes, stored>>
    BY DEF SaveSucceeds
<1>3. \A q \in Questions :
          acked'[q] = IF q = s.question /\ s.version > acked[q] THEN s.version ELSE acked[q]
    BY DEF SaveSucceeds, TypeOK, Answers
<1>4. Numbered'
    BY <1>1, <1>2 DEF KeptInv, Numbered
<1>5. ASSUME NEW q \in Questions
      PROVE  /\ shown[q] \in {pending[q], acked'[q]} \/ Awaited(q, shown[q])'
             /\ acked'[q] <= shown[q]
             /\ pending[q] \in {0, shown[q]} \/ shown[q] = acked'[q]
    <2>1. s.version \in Nat /\ {shown[q], acked[q]} \subseteq Nat
        BY Numbers
    <2>2. s.question = q => s.version <= shown[q]
        BY <1>1, KeptEach
    <2>3. acked[q] <= shown[q]
        BY <1>1, KeptEach
    <2>4. acked'[q] <= shown[q] /\ (shown[q] = acked[q] => shown[q] = acked'[q])
        BY <1>3, <2>1, <2>2, <2>3
    <2>5. ASSUME Awaited(q, shown[q])
          PROVE  shown[q] = acked'[q] \/ Awaited(q, shown[q])'
        <3>1. PICK t \in saves : t.waiting /\ t.question = q /\ t.version = shown[q]
            BY <2>5 DEF Awaited
        <3>2. CASE t = s
            BY <1>3, <2>1, <2>3, <3>1, <3>2
        <3>3. CASE t # s
            BY <1>1, <1>2, <3>1, <3>3 DEF Awaited
        <3> QED BY <3>2, <3>3
    <2> QED BY <1>1, <2>4, <2>5, KeptEach
<1>6. ShownIsNewest'
    BY <1>1, <1>2, <1>5, KeptEach DEF ShownIsNewest, Under
<1>7. NothingForgotten'
    BY <1>2, <1>5 DEF NothingForgotten, Under, Awaited
<1> QED BY <1>1, <1>2, <1>4, <1>6, <1>7 DEF KeptInv, GoneQuietly

\* A save fails and nothing newer is waited for: if its answer is the one shown
\* and nothing else keeps it, there is room in pending for it.
LEMMA KeptSaveFails ==
    ASSUME TypeOK, KeptInv, NEW s \in saves, SaveFails(s),
           \A t \in Under(s.question) : t.waiting => t.version <= s.version
    PROVE  KeptInv'
<1> USE DEF serverVars
<1>1. page = "open" /\ s.waiting /\ saves' = (saves \ {s}) \union GivenUp(s)
    BY DEF SaveFails, KeptInv, GoneQuietly
<1>2. UNCHANGED <<page, shown, acked, changes, stored>>
    BY DEF SaveFails
<1>3. \A q \in Questions :
          pending'[q] = IF q = s.question /\ pending[q] = 0 THEN s.version ELSE pending[q]
    BY DEF SaveFails, TypeOK, Answers
<1>4. \A r \in GivenUp(s) : ~r.waiting /\ r.version = s.version
    BY DEF GivenUp, TypeOK, Save
<1>5. Numbered'
    BY <1>1, <1>2, <1>4 DEF KeptInv, Numbered
<1>6. ASSUME NEW q \in Questions
      PROVE  /\ shown[q] \in {pending'[q], acked[q]} \/ Awaited(q, shown[q])'
             /\ pending'[q] <= shown[q]
             /\ pending'[q] \in {0, shown[q]} \/ shown[q] = acked[q]
             /\ \A t \in saves' : t.question = q /\ t.waiting => t.version <= shown[q]
    <2>1. s.version \in Nat \ {0} /\ {shown[q], acked[q], pending[q]} \subseteq Nat
        BY Numbers
    <2>2. s.question = q => s.version <= shown[q]
        BY <1>1, KeptEach
    <2>3. \A t \in saves' : t.question = q /\ t.waiting => t.version <= shown[q]
        BY <1>1, <1>4, KeptEach
    <2>4. pending'[q] <= shown[q]
        BY <1>1, <1>3, <2>2, KeptEach
    <2>5. ASSUME Awaited(q, shown[q]), shown[q] # acked[q]
          PROVE  /\ pending'[q] \in {0, shown[q]}
                 /\ shown[q] = pending'[q] \/ Awaited(q, shown[q])'
        <3>1. PICK t \in saves : t.waiting /\ t.question = q /\ t.version = shown[q]
            BY <2>5 DEF Awaited
        <3>2. pending[q] \in {0, shown[q]}
            BY <1>1, <2>5, KeptEach
        <3>3. CASE q = s.question
            <4>1. s.version = shown[q]
                BY <2>1, <2>2, <3>1, <3>3 DEF Under
            <4> QED BY <1>3, <3>2, <3>3, <4>1
        <3>4. CASE q # s.question
            <4>1. t \in saves'
                BY <1>1, <3>1, <3>4
            <4> QED BY <1>2, <1>3, <3>1, <3>2, <3>4, <4>1 DEF Awaited
        <3> QED BY <3>3, <3>4
    <2>6. ASSUME shown[q] = pending[q], shown[q] # acked[q]
          PROVE  shown[q] = pending'[q]
        <3>1. pending[q] # 0 \/ s.question # q
            BY <2>1, <2>2, <2>6
        <3> QED BY <1>3, <2>6, <3>1
    <2> QED BY <1>1, <2>3, <2>4, <2>5, <2>6, KeptEach
<1>7. ShownIsNewest'
    BY <1>1, <1>2, <1>6, KeptEach DEF ShownIsNewest, Under
<1>8. NothingForgotten'
    BY <1>2, <1>6 DEF NothingForgotten, Under, Awaited
<1> QED BY <1>1, <1>2, <1>5, <1>7, <1>8 DEF KeptInv, GoneQuietly

\* A page that goes away sends what is pending and waits for nothing.
LEMMA KeptUnload ==
    ASSUME TypeOK, KeptInv, NEW next \in {"loading", "left"}, Unload(next)
    PROVE  KeptInv'
<1> USE DEF serverVars
<1> DEFINE Q == {q \in Pending : FreeIds(q) # {}}
<1>1. /\ saves' = (UNION {GivenUp(s) : s \in saves}) \union Sent(Q, FALSE)
      /\ UNCHANGED <<changes, stored>>
      /\ shown' = NoAnswers /\ pending' = NoAnswers /\ page' # "open"
    BY DEF Unload
<1>2. Q \subseteq Questions
    BY DEF Pending
<1> HIDE DEF Q
<1>3. \A s \in Sent(Q, FALSE) :
          s.question \in Q /\ s.version = pending[s.question] /\ s.waiting = FALSE
    BY SentWhat, Zenon
<1>4. ASSUME NEW s \in saves' PROVE ~s.waiting /\ s.version <= changes
    <2>1. CASE s \in Sent(Q, FALSE)
        BY <1>2, <1>3, <2>1, PendingNumbered
    <2>2. CASE s \notin Sent(Q, FALSE)
        <3>1. PICK t \in saves : s \in GivenUp(t)
            BY <1>1, <2>2
        <3>2. ~s.waiting /\ s.version = t.version
            BY <3>1 DEF GivenUp, TypeOK, Save
        <3> QED BY <3>2 DEF KeptInv, Numbered
    <2> QED BY <2>1, <2>2
<1>5. Numbered'
    <2>1. \A q \in Questions : shown'[q] = 0 /\ stored'[q] = stored[q]
        BY <1>1 DEF NoAnswers
    <2>2. \A q \in Questions : shown'[q] <= changes /\ stored'[q] <= changes
        BY <2>1, Numbers DEF KeptInv, Numbered
    <2> QED BY <1>1, <1>4, <2>2 DEF Numbered
<1>6. GoneQuietly' /\ ShownIsNewest' /\ NothingForgotten'
    BY <1>1, <1>4 DEF GoneQuietly, ShownIsNewest, NothingForgotten
<1> QED BY <1>5, <1>6 DEF KeptInv

\* A page that has loaded shows what is stored.
LEMMA KeptLoaded == ASSUME TypeOK, KeptInv, Loaded PROVE KeptInv'
<1> USE DEF serverVars
<1>1. /\ UNCHANGED <<pending, changes, saves, stored>>
      /\ shown' = stored /\ acked' = stored /\ page' = "open"
    BY DEF Loaded
<1>2. pending = NoAnswers /\ \A s \in saves : ~s.waiting
    BY DEF Loaded, KeptInv, GoneQuietly
<1>3. Numbered' /\ GoneQuietly'
    BY <1>1 DEF KeptInv, Numbered, GoneQuietly
<1>4. ShownIsNewest' /\ NothingForgotten'
    BY <1>1, <1>2, Numbers DEF ShownIsNewest, NothingForgotten, Under, NoAnswers
<1> QED BY <1>3, <1>4 DEF KeptInv

\* KeptInv is inductive as long as only the newest saves fail.
LEMMA KeptNext ==
    ASSUME TypeOK, KeptInv, [Next]_vars, [NewestFails]_vars
    PROVE  KeptInv'
<1> USE DEF formVars, pageVars, serverVars
<1>1. ASSUME UNCHANGED <<page, shown, pending, acked, changes, saves>>,
             \A q \in Questions : stored'[q] <= changes
      PROVE  KeptInv'
    <2>1. \A s \in saves : s.waiting => Awaited(s.question, s.version)
        BY DEF Awaited
    <2>2. \A s \in saves : s.waiting => Awaited(s.question, s.version)'
        BY <1>1 DEF Awaited
    <2>3. \A s \in saves' : s.version <= changes
        BY <1>1 DEF KeptInv, Numbered
    <2> QED BY <1>1, <2>1, <2>2, <2>3, KeptUndisturbed
<1>2. ASSUME UNCHANGED <<page, shown, pending, acked, changes, saves, stored>>
      PROVE  KeptInv'
    BY <1>1, <1>2 DEF KeptInv, Numbered
<1>3. ASSUME DoSubmit PROVE KeptInv'
    <2>1. Pending \in SUBSET Questions
        BY DEF Pending
    <2> QED BY <1>3, <2>1, KeptSent DEF DoSubmit
<1>4. CASE Student
    BY <1>3, <1>4, KeptChanged, KeptUnload DEF Student, Confirmed, Reloaded
<1>5. CASE Page
    <2>1. ASSUME NEW q \in Questions, Debounced(q) PROVE KeptInv'
        <3>1. {q} \in SUBSET Questions
            OBVIOUS
        <3> QED BY <2>1, <3>1, KeptSent DEF Debounced
    <2>2. ASSUME NEW s \in saves, SaveFails(s) PROVE KeptInv'
        <3>1. CASE NewestFails
            BY <2>2, <3>1, KeptSaveFails DEF NewestFails
        <3>2. CASE UNCHANGED vars
            BY <1>2, <3>2 DEF vars
        <3> QED BY <3>1, <3>2
    <2>3. CASE TimeUp
        BY <1>2, <1>3, <2>3 DEF TimeUp
    <2>4. CASE ResendsFail \/ ResendsSucceed \/ PostFails
        BY <1>2, <2>4 DEF ResendsFail, ResendsSucceed, PostFails, BackToForm
    <2>5. CASE PostSucceeds \/ LoggedOut
        BY <2>5, KeptUnload DEF PostSucceeds, LoggedOut
    <2>6. CASE Loaded
        BY <2>6, KeptLoaded
    <2> QED BY <1>5, <2>1, <2>2, <2>3, <2>4, <2>5, <2>6, KeptSaveSucceeds DEF Page
<1>6. CASE Server
    <2>1. ASSUME NEW s \in saves, SaveServed(s) PROVE KeptInv'
        <3>1. PICK reply :
                  /\ stored' = IF reply = "saved" THEN [stored EXCEPT ![s.question] = s.version]
                                                  ELSE stored
                  /\ saves' = (saves \ {s}) \union
                              IF s.waiting THEN {[s EXCEPT !.at = reply]} ELSE {}
            BY <2>1 DEF SaveServed
        <3>2. \A r \in saves' : \E t \in saves :
                  /\ t.question = r.question /\ t.version = r.version
                  /\ t.waiting = r.waiting
            BY <3>1 DEF TypeOK, Save
        <3>3. s.waiting =>
                  LET r == [s EXCEPT !.at = reply]
                  IN r.waiting /\ r.question = s.question /\ r.version = s.version
            BY DEF TypeOK, Save
        <3>4. \A t \in saves : t.waiting => Awaited(t.question, t.version)'
            BY <3>1, <3>3 DEF Awaited
        <3>5. \A r \in saves' : r.waiting => Awaited(r.question, r.version)
            BY <3>2 DEF Awaited
        <3>6. \A r \in saves' : r.version <= changes
            BY <3>2 DEF KeptInv, Numbered
        <3>7. \A q \in Questions : stored'[q] <= changes
            BY <3>1 DEF KeptInv, Numbered, TypeOK, Answers
        <3>8. UNCHANGED <<page, shown, pending, acked, changes>>
            BY <2>1 DEF SaveServed
        <3> QED BY <3>4, <3>5, <3>6, <3>7, <3>8, KeptUndisturbed
    <2>2. ASSUME NEW s \in saves, SaveCancelled(s) PROVE KeptInv'
        <3>1. \A t \in saves : t.waiting => Awaited(t.question, t.version)'
            BY <2>2 DEF SaveCancelled, Awaited
        <3>2. \A r \in saves' : /\ r.waiting => Awaited(r.question, r.version)
                                /\ r.version <= changes
            BY <2>2 DEF SaveCancelled, Awaited, KeptInv, Numbered
        <3>3. \A q \in Questions : stored'[q] <= changes
            BY <2>2 DEF SaveCancelled, KeptInv, Numbered
        <3>4. UNCHANGED <<page, shown, pending, acked, changes>>
            BY <2>2 DEF SaveCancelled
        <3> QED BY <3>1, <3>2, <3>3, <3>4, KeptUndisturbed
    <2>3. CASE HandInEnds
        BY <1>1, <2>3, Numbers DEF HandInEnds, NoAnswers
    <2>4. CASE \/ PostCancelled \/ PostDenied \/ PostRead \/ TickerReads
                \/ HandInFails \/ HandInHalfFails
        BY <1>2, <2>4 DEF PostCancelled, PostDenied, PostRead, TickerReads, HandInFails,
                          HandInHalfFails, HandInError
    <2> QED BY <1>6, <2>1, <2>2, <2>3, <2>4 DEF Server
<1>7. CASE Tick \/ UNCHANGED vars
    BY <1>2, <1>7 DEF Tick, vars
<1> QED BY <1>4, <1>5, <1>6, <1>7 DEF Next

\* Together with the initial state: the invariant holds as long as only the
\* newest saves fail.
LEMMA KeptAlways == Spec /\ [][NewestFails]_vars => []KeptInv
<1>1. Init => KeptInv
    BY Bounds DEF Init, KeptInv, Numbered, GoneQuietly, ShownIsNewest, NothingForgotten,
                  NoAnswers, Under
<1>2. TypeOK /\ KeptInv /\ [Next]_vars /\ [NewestFails]_vars => KeptInv'
    BY KeptNext
<1> QED BY <1>1, <1>2, PageTypeCorrect, PTL DEF Spec

\* As long as no save fails while a newer answer to its question is under way,
\* what the form shows is never forgotten: that one order of failures is the
\* only cause of run page_forgets (NothingForgotten; sendAnswer's put-back).
THEOREM ForgottenOnlyBehindNewer == Spec /\ [][NewestFails]_vars => []NothingForgotten
<1>1. KeptInv => NothingForgotten
    BY DEF KeptInv
<1> QED BY <1>1, KeptAlways, PTL

-----------------------------------------------------------------------------
(***************************************************************************)
(* What makes a hand-in score older answers than the student confirmed: a  *)
(* save the page still waits for when the hand-in is asked for, or two     *)
(* saves of one question on their way at a time, which may overtake each   *)
(* other (run page_hand_in); and a Submit that has scored the paper but    *)
(* not deleted it, after which the paper can be worked on and handed in    *)
(* again for nothing.  Without these, the other faults and reloads         *)
(* included, what was confirmed is scored.                                 *)
(***************************************************************************)
\* Saves of one question are on their way one after the other, a save the page
\* has given up included.
NoOverlap == \A s, t \in saves : s.question = t.question => s = t

\* The hand-in is asked for when the page waits for no save.
QuietHandIn == DoSubmit => \A s \in saves : ~s.waiting

\* The store is never ahead of what is on its way to it, nor, until the paper is
\* scored, behind what the page knows it to have.
StoredInOrder ==
    /\ \A s \in saves : /\ stored[s.question] <= s.version
                        /\ draft /\ s.at = "saved" => s.version <= stored[s.question]
    /\ \A q \in Questions : pending[q] # 0 =>
           stored[q] <= pending[q] /\ \A s \in Under(q) : s.version <= pending[q]
    /\ draft => \A q \in Questions : acked[q] <= stored[q]

\* What the page's hand-in has read is no older than what was confirmed.
ConfirmedIsRead ==
    submit = "posting" /\ handIn.by = "page" =>
        \A q \in Questions : handIn.copy[q] >= confirmed[q]

\* One POST at a time, and until the paper is scored what was confirmed is
\* stored or among the answers re-sent.
ConfirmedFollowed ==
    /\ submit = "saving" => post = "none"
    /\ handIn.by = "page" => post = "running"
    /\ draft /\ submit # "idle" => \A q \in Questions :
           confirmed[q] <= stored[q] \/ confirmed[q] <= resent[q]
    /\ ConfirmedIsRead

\* The answers there are besides those of Numbers.
LEMMA MoreNumbers ==
    ASSUME TypeOK
    PROVE  \A q \in Questions : {resent[q], confirmed[q], handIn.copy[q]} \subseteq Nat
  BY Bounds DEF TypeOK, Answers, Change, Reading

\* Answers are taken out of pending and sent.
LEMMA StoredInOrderSent ==
    ASSUME TypeOK, StoredInOrder, NEW Q \in SUBSET Pending, Taken(Q),
           saves' = saves \union Sent(Q, TRUE), UNCHANGED <<stored, draft, acked>>
    PROVE  StoredInOrder'
<1>1. \A s \in Sent(Q, TRUE) :
          s.question \in Q /\ s.version = pending[s.question] /\ s.waiting = TRUE
    BY SentWhat, Zenon
<1>2. \A q \in Questions : pending'[q] = IF q \in Q THEN 0 ELSE pending[q]
    BY DEF Taken
<1>3. Q \subseteq Questions /\ \A q \in Q : pending[q] # 0
    BY DEF Pending
<1>4. \A s \in Sent(Q, TRUE) : s.at = "sent"
    BY DEF Sent
<1>5. \A s \in saves' : /\ stored[s.question] <= s.version
                        /\ draft /\ s.at = "saved" => s.version <= stored[s.question]
    BY <1>1, <1>3, <1>4 DEF StoredInOrder
<1>6. ASSUME NEW q \in Questions, pending'[q] # 0
      PROVE  stored[q] <= pending'[q] /\ \A s \in saves' : s.question = q => s.version <= pending'[q]
    <2>1. q \notin Q /\ pending'[q] = pending[q]
        BY <1>2, <1>6
    <2> QED BY <1>1, <1>6, <2>1 DEF StoredInOrder, Under
<1> QED BY <1>5, <1>6 DEF StoredInOrder, Under

\* The page goes away.
LEMMA StoredInOrderUnload ==
    ASSUME TypeOK, StoredInOrder, NEW next, Unload(next)
    PROVE  StoredInOrder'
<1> USE DEF serverVars
<1> DEFINE Q == {q \in Pending : FreeIds(q) # {}}
<1>1. /\ saves' = (UNION {GivenUp(s) : s \in saves}) \union Sent(Q, FALSE)
      /\ UNCHANGED <<draft, stored>>
      /\ acked' = NoAnswers /\ pending' = NoAnswers
    BY DEF Unload
<1>2. Q \subseteq Questions /\ \A q \in Q : pending[q] # 0
    BY DEF Pending
<1> HIDE DEF Q
<1>3. \A s \in Sent(Q, FALSE) :
          s.question \in Q /\ s.version = pending[s.question] /\ s.waiting = FALSE
    BY SentWhat, Zenon
<1>4. \A s \in Sent(Q, FALSE) : s.at = "sent"
    BY DEF Sent
<1>5. ASSUME NEW s \in saves'
      PROVE  stored[s.question] <= s.version /\ s.at = "sent"
    <2>1. CASE s \in Sent(Q, FALSE)
        BY <1>2, <1>3, <1>4, <2>1 DEF StoredInOrder
    <2>2. CASE s \notin Sent(Q, FALSE)
        <3>1. PICK t \in saves : s \in GivenUp(t)
            BY <1>1, <2>2
        <3>2. s.at = "sent" /\ s.version = t.version /\ s.question = t.question
            BY <3>1 DEF GivenUp, TypeOK, Save
        <3> QED BY <3>2 DEF StoredInOrder
    <2> QED BY <2>1, <2>2
<1>6. \A q \in Questions : pending'[q] = 0 /\ acked'[q] <= stored[q]
    BY <1>1, Numbers DEF NoAnswers
<1> QED BY <1>1, <1>5, <1>6 DEF StoredInOrder

\* A save fails: what is put back is not older than what is stored.
LEMMA StoredInOrderFails ==
    ASSUME TypeOK, NoOverlap, StoredInOrder, NEW s \in saves, SaveFails(s)
    PROVE  StoredInOrder'
<1> USE DEF serverVars
<1>1. saves' = (saves \ {s}) \union GivenUp(s) /\ UNCHANGED <<draft, stored, acked>>
    BY DEF SaveFails
<1>2. \A q \in Questions :
          pending'[q] = IF q = s.question /\ pending[q] = 0 THEN s.version ELSE pending[q]
    BY DEF SaveFails, TypeOK, Answers
<1>3. \A r \in GivenUp(s) : r.at = "sent" /\ r.version = s.version /\ r.question = s.question
    BY DEF GivenUp, TypeOK, Save
<1>4. \A r \in saves' : \E t \in saves :
          r.version = t.version /\ r.question = t.question /\ (r.at = t.at \/ r.at = "sent")
    BY <1>1, <1>3
<1>5. \A r \in saves' : /\ stored[r.question] <= r.version
                        /\ draft /\ r.at = "saved" => r.version <= stored[r.question]
    BY <1>4 DEF StoredInOrder
<1>6. ASSUME NEW q \in Questions, pending'[q] # 0
      PROVE  stored[q] <= pending'[q] /\ \A r \in saves' : r.question = q => r.version <= pending'[q]
    <2>1. CASE q = s.question /\ pending[q] = 0
        <3>1. pending'[q] = s.version /\ stored[q] <= s.version /\ s.version \in Nat
            BY <1>2, <2>1, Numbers DEF StoredInOrder
        <3>2. \A r \in saves' : r.question = q => r.version = s.version
            BY <1>4, <2>1 DEF NoOverlap
        <3> QED BY <3>1, <3>2
    <2>2. CASE ~(q = s.question /\ pending[q] = 0)
        BY <1>2, <1>4, <1>6, <2>2 DEF StoredInOrder, Under
    <2> QED BY <2>1, <2>2
<1> QED BY <1>1, <1>5, <1>6 DEF StoredInOrder, Under

\* A save is served: it is the only one of its question, and not older than what
\* is stored.
LEMMA StoredInOrderServed ==
    ASSUME TypeOK, NoOverlap, StoredInOrder, NEW s \in saves, SaveServed(s)
    PROVE  StoredInOrder' /\ \A q \in Questions : stored[q] <= stored'[q]
<1>1. UNCHANGED <<draft, pending, acked>> /\ s.at = "sent"
    BY DEF SaveServed, pageVars, formVars
<1>2. PICK reply :
          /\ stored' = IF reply = "saved" THEN [stored EXCEPT ![s.question] = s.version]
                                          ELSE stored
          /\ saves' = (saves \ {s}) \union
                      IF s.waiting THEN {[s EXCEPT !.at = reply]} ELSE {}
    BY DEF SaveServed
<1>3. \A q \in Questions :
          stored'[q] = IF reply = "saved" /\ q = s.question THEN s.version ELSE stored[q]
    BY <1>2 DEF TypeOK, Answers
<1>4. \A q \in Questions : stored[q] <= stored'[q] /\ stored'[q] \in Nat
    BY <1>3, Numbers DEF StoredInOrder
<1>5. \A r \in saves' : \/ r \in saves /\ r # s
                        \/ r.version = s.version /\ r.question = s.question /\ r.at = reply
    BY <1>2 DEF TypeOK, Save
<1>6. ASSUME NEW r \in saves'
      PROVE  /\ stored'[r.question] <= r.version
             /\ draft /\ r.at = "saved" => r.version <= stored'[r.question]
    <2>1. CASE r \in saves /\ r # s
        <3>1. r.question # s.question /\ r.question \in Questions
            BY <2>1, Numbers DEF NoOverlap
        <3> QED BY <1>3, <2>1, <3>1 DEF StoredInOrder
    <2>2. CASE r.version = s.version /\ r.question = s.question /\ r.at = reply
        <3>1. stored[s.question] <= s.version /\ s.question \in Questions /\ s.version \in Nat
            BY Numbers DEF StoredInOrder
        <3> QED BY <1>3, <2>2, <3>1
    <2> QED BY <1>5, <2>1, <2>2
<1>7. ASSUME NEW q \in Questions, pending[q] # 0
      PROVE  stored'[q] <= pending[q] /\ \A r \in saves' : r.question = q => r.version <= pending[q]
    <2>1. stored[q] <= pending[q] /\ (s.question = q => s.version <= pending[q])
        BY <1>7 DEF StoredInOrder, Under
    <2> QED BY <1>3, <1>5, <1>7, <2>1 DEF StoredInOrder, Under
<1>8. draft => \A q \in Questions : acked[q] <= stored'[q]
    BY <1>3, <1>4, Numbers DEF StoredInOrder
<1> QED BY <1>1, <1>4, <1>6, <1>7, <1>8 DEF StoredInOrder, Under

\* StoredInOrder is inductive while saves of one question do not overlap.  Until
\* the paper is scored, what is stored only gets newer.
LEMMA StoredInOrderNext ==
    ASSUME TypeOK, KeptInv, NoOverlap, StoredInOrder, [Next]_vars
    PROVE  StoredInOrder' /\ (draft' => draft /\ \A q \in Questions : stored[q] <= stored'[q])
<1> USE DEF formVars, submitVars, pageVars, serverVars
<1> DEFINE Goal ==
        StoredInOrder' /\ (draft' => draft /\ \A q \in Questions : stored[q] <= stored'[q])
<1>1. ASSUME UNCHANGED <<stored, draft>>, StoredInOrder' PROVE Goal
    BY <1>1, Numbers
<1>2. ASSUME UNCHANGED <<stored, draft, saves, pending, acked>> PROVE Goal
    BY <1>1, <1>2 DEF StoredInOrder, Under
<1>3. ASSUME DoSubmit PROVE Goal
    BY <1>1, <1>3, StoredInOrderSent DEF DoSubmit
<1>4. ASSUME NEW next, Unload(next) PROVE Goal
    BY <1>1, <1>4, StoredInOrderUnload DEF Unload
<1>5. CASE Student
    <2>1. ASSUME NEW q \in Questions, Changed(q) PROVE Goal
        <3>1. /\ UNCHANGED <<stored, draft, saves, acked>>
              /\ \A r \in Questions : pending'[r] = IF r = q THEN changes + 1 ELSE pending[r]
            BY <2>1 DEF Changed, TypeOK, Answers
        <3>2. stored[q] <= changes + 1 /\ \A s \in saves : s.version <= changes + 1
            BY Numbers DEF KeptInv, Numbered
        <3>3. StoredInOrder'
            BY <3>1, <3>2 DEF StoredInOrder, Under
        <3> QED BY <1>1, <3>1, <3>3
    <2> QED BY <1>3, <1>4, <1>5, <2>1 DEF Student, Confirmed, Reloaded
<1>6. CASE Page
    <2>1. ASSUME NEW q \in Questions, Debounced(q) PROVE Goal
        <3>1. {q} \in SUBSET Pending
            BY <2>1 DEF Debounced, Pending, TypeOK
        <3> QED BY <1>1, <2>1, <3>1, StoredInOrderSent DEF Debounced
    <2>2. ASSUME NEW s \in saves, SaveSucceeds(s) PROVE Goal
        <3>1. \A q \in Questions : acked'[q] =
                  IF q = s.question /\ s.version > acked[q] THEN s.version ELSE acked[q]
            BY <2>2 DEF SaveSucceeds, TypeOK, Answers
        <3>2. /\ UNCHANGED <<stored, draft, pending>> /\ saves' = saves \ {s}
              /\ s.at = "saved"
            BY <2>2 DEF SaveSucceeds
        <3>3. draft => \A q \in Questions : acked'[q] <= stored[q]
            BY <3>1, <3>2 DEF StoredInOrder
        <3>4. StoredInOrder'
            BY <3>2, <3>3 DEF StoredInOrder, Under
        <3> QED BY <1>1, <3>2, <3>4
    <2>3. ASSUME NEW s \in saves, SaveFails(s) PROVE Goal
        BY <1>1, <2>3, StoredInOrderFails DEF SaveFails
    <2>4. CASE TimeUp
        BY <1>2, <1>3, <2>4 DEF TimeUp
    <2>5. CASE ResendsFail \/ ResendsSucceed \/ PostFails
        BY <1>2, <2>5 DEF ResendsFail, ResendsSucceed, PostFails, BackToForm
    <2>6. CASE PostSucceeds \/ LoggedOut
        BY <1>4, <2>6 DEF PostSucceeds, LoggedOut
    <2>7. CASE Loaded
        <3>1. UNCHANGED <<stored, draft, saves, pending>> /\ acked' = stored
            BY <2>7 DEF Loaded
        <3>2. StoredInOrder'
            BY <3>1, Numbers DEF StoredInOrder, Under
        <3> QED BY <1>1, <3>1, <3>2
    <2> QED BY <1>6, <2>1, <2>2, <2>3, <2>4, <2>5, <2>6, <2>7 DEF Page
<1>7. CASE Server
    <2>1. ASSUME NEW s \in saves, SaveServed(s) PROVE Goal
        BY <2>1, StoredInOrderServed DEF SaveServed
    <2>2. ASSUME NEW s \in saves, SaveCancelled(s) PROVE Goal
        <3>1. UNCHANGED <<stored, draft, pending, acked>> /\ saves' = saves \ {s}
            BY <2>2 DEF SaveCancelled
        <3>2. StoredInOrder'
            BY <3>1 DEF StoredInOrder, Under
        <3> QED BY <1>1, <3>1, <3>2
    <2>3. CASE HandInEnds
        <3>1. /\ UNCHANGED <<saves, pending, acked>>
              /\ stored' = NoAnswers /\ draft' = FALSE
            BY <2>3 DEF HandInEnds
        <3>2. \A q \in Questions : stored'[q] = 0
            BY <3>1 DEF NoAnswers
        <3>3. StoredInOrder'
            BY <3>1, <3>2, Numbers DEF StoredInOrder, Under
        <3> QED BY <3>1, <3>3
    <2>4. CASE \/ PostCancelled \/ PostDenied \/ PostRead \/ TickerReads
                \/ HandInFails \/ HandInHalfFails
        BY <1>2, <2>4 DEF PostCancelled, PostDenied, PostRead, TickerReads, HandInFails,
                          HandInHalfFails, HandInError
    <2> QED BY <1>7, <2>1, <2>2, <2>3, <2>4 DEF Server
<1>8. CASE Tick \/ UNCHANGED vars
    BY <1>2, <1>8 DEF Tick, vars
<1> QED BY <1>5, <1>6, <1>7, <1>8 DEF Next

\* doSubmit begins with nothing waited for: what is shown is stored or re-sent.
LEMMA ConfirmedBegins ==
    ASSUME TypeOK, KeptInv, StoredInOrder, ConfirmedFollowed, DoSubmit,
           \A s \in saves : ~s.waiting
    PROVE  ConfirmedFollowed'
<1> USE DEF serverVars
<1>1. /\ page = "open" /\ post = "none" /\ submit' = "saving"
      /\ confirmed' = shown /\ resent' = pending
      /\ UNCHANGED <<post, draft, stored, handIn>>
    BY DEF DoSubmit
<1>2. ASSUME draft, NEW q \in Questions PROVE shown[q] <= stored[q] \/ shown[q] <= pending[q]
    <2>1. ~Awaited(q, shown[q])
        BY DEF Awaited
    <2>2. shown[q] = pending[q] \/ shown[q] = acked[q]
        BY <1>1, <2>1, KeptEach
    <2>3. acked[q] <= stored[q]
        BY <1>2 DEF StoredInOrder
    <2> QED BY <2>2, <2>3, Numbers
<1> QED BY <1>1, <1>2 DEF ConfirmedFollowed, ConfirmedIsRead

\* Steps that leave the hand-in alone.
LEMMA ConfirmedUndisturbed ==
    ASSUME TypeOK, TypeOK', ConfirmedFollowed,
           UNCHANGED <<submit, resent, confirmed, post, handIn>>,
           draft' => draft /\ \A q \in Questions : stored[q] <= stored'[q]
    PROVE  ConfirmedFollowed'
<1>1. ASSUME draft', submit # "idle", NEW q \in Questions
      PROVE  confirmed[q] <= stored'[q] \/ confirmed[q] <= resent[q]
    <2>1. stored[q] \in Nat /\ stored'[q] \in Nat /\ confirmed[q] \in Nat
        BY Bounds DEF TypeOK, Answers, Change
    <2>2. stored[q] <= stored'[q] /\ (confirmed[q] <= stored[q] \/ confirmed[q] <= resent[q])
        BY <1>1 DEF ConfirmedFollowed
    <2> QED BY <2>1, <2>2
<1> QED BY <1>1 DEF ConfirmedFollowed, ConfirmedIsRead

\* ConfirmedFollowed is inductive when hand-ins are asked for quietly: Submit
\* reads its copy only after the re-sent answers are stored.
LEMMA ConfirmedNext ==
    ASSUME TypeOK, TypeOK', KeptInv, PostedAfterSaves, NoOverlap, StoredInOrder,
           ConfirmedFollowed, [Next]_vars, [QuietHandIn]_vars
    PROVE  ConfirmedFollowed'
<1> USE DEF formVars, submitVars, pageVars, serverVars
<1>0. draft' => draft /\ \A q \in Questions : stored[q] <= stored'[q]
    BY StoredInOrderNext
<1>1. ASSUME UNCHANGED <<submit, resent, confirmed, post, handIn>> PROVE ConfirmedFollowed'
    BY <1>0, <1>1, ConfirmedUndisturbed
<1>2. ASSUME submit' = "idle", UNCHANGED handIn, post' = post \/ post # "running"
      PROVE  ConfirmedFollowed'
    BY <1>2 DEF ConfirmedFollowed, ConfirmedIsRead
<1>3. ASSUME DoSubmit PROVE ConfirmedFollowed'
    <2>1. CASE QuietHandIn
        BY <1>3, <2>1, ConfirmedBegins DEF QuietHandIn
    <2>2. CASE UNCHANGED vars
        BY <1>1, <2>2 DEF vars
    <2> QED BY <2>1, <2>2
<1>4. CASE Student
    <2>1. CASE Reloaded
        BY <1>2, <2>1 DEF Reloaded, Unload
    <2> QED BY <1>1, <1>3, <1>4, <2>1 DEF Student, Confirmed, Changed
<1>5. CASE Page
    <2>1. ASSUME NEW q \in Questions, Debounced(q) PROVE ConfirmedFollowed'
        BY <1>1, <2>1 DEF Debounced
    <2>2. ASSUME NEW s \in saves, SaveSucceeds(s) \/ SaveFails(s) PROVE ConfirmedFollowed'
        BY <1>1, <2>2 DEF SaveSucceeds, SaveFails
    <2>3. CASE TimeUp
        BY <1>1, <1>3, <2>3 DEF TimeUp
    <2>4. CASE ResendsFail
        BY <1>2, <2>4 DEF ResendsFail, BackToForm
    <2>5. CASE ResendsSucceed
        <3>1. /\ submit = "saving" /\ submit' = "posting" /\ post' = "sent"
              /\ UNCHANGED <<resent, confirmed, handIn, draft, stored>>
            BY <2>5 DEF ResendsSucceed, AllSaved, AllSettled
        <3>2. handIn.by # "page"
            BY <3>1 DEF ConfirmedFollowed
        <3> QED BY <3>1, <3>2 DEF ConfirmedFollowed, ConfirmedIsRead
    <2>6. CASE PostSucceeds
        BY <1>2, <2>6 DEF PostSucceeds, Unload
    <2>7. CASE PostFails
        BY <1>2, <2>7 DEF PostFails, BackToForm
    <2>8. CASE LoggedOut
        BY <1>2, <2>8 DEF LoggedOut, Unload
    <2>9. CASE Loaded
        BY <1>1, <2>9 DEF Loaded
    <2> QED BY <1>5, <2>1, <2>2, <2>3, <2>4, <2>5, <2>6, <2>7, <2>8, <2>9 DEF Page
<1>6. CASE Server
    <2>1. ASSUME NEW s \in saves, SaveServed(s) \/ SaveCancelled(s) PROVE ConfirmedFollowed'
        BY <1>1, <2>1 DEF SaveServed, SaveCancelled
    <2>2. CASE PostCancelled
        BY <2>2 DEF PostCancelled, ConfirmedFollowed, ConfirmedIsRead
    <2>3. CASE PostDenied
        BY <2>3 DEF PostDenied, ConfirmedFollowed, ConfirmedIsRead
    <2>4. CASE PostRead
        <3>1. post = "sent" /\ UNCHANGED <<submit, resent, confirmed, draft, stored>>
            BY <2>4 DEF PostRead
        <3>2. CASE draft /\ handIn = Nobody
            <4>1. handIn' = [by |-> "page", copy |-> stored] /\ post' = "running"
                BY <2>4, <3>2 DEF PostRead
            <4>2. ASSUME submit = "posting", NEW q \in Questions
                  PROVE  stored[q] >= confirmed[q]
                <5>1. resent[q] <= acked[q] /\ acked[q] <= stored[q]
                    BY <3>2, <4>2 DEF PostedAfterSaves, StoredInOrder
                <5>2. confirmed[q] <= stored[q] \/ confirmed[q] <= resent[q]
                    BY <3>2, <4>2 DEF ConfirmedFollowed
                <5> QED BY <5>1, <5>2, Numbers, MoreNumbers
            <4>3. submit # "saving"
                BY <3>1 DEF ConfirmedFollowed
            <4>4. ConfirmedIsRead'
                BY <3>1, <4>1, <4>2 DEF ConfirmedIsRead
            <4> QED BY <3>1, <4>1, <4>3, <4>4 DEF ConfirmedFollowed
        <3>3. CASE ~(draft /\ handIn = Nobody)
            BY <2>4, <3>1, <3>3 DEF PostRead, ConfirmedFollowed, ConfirmedIsRead
        <3> QED BY <3>2, <3>3
    <2>5. CASE TickerReads
        BY <2>5 DEF TickerReads, ConfirmedFollowed, ConfirmedIsRead
    <2>6. CASE HandInEnds \/ HandInFails \/ HandInHalfFails
        <3>1. /\ handIn' = Nobody /\ UNCHANGED <<submit, resent, confirmed>>
              /\ handIn.by = "page" \/ UNCHANGED post
            BY <2>6 DEF HandInEnds, HandInFails, HandInHalfFails, HandInError
        <3>2. draft' => UNCHANGED <<draft, stored>>
            BY <2>6 DEF HandInEnds, HandInFails, HandInHalfFails, HandInError
        <3> QED BY <3>1, <3>2 DEF ConfirmedFollowed, ConfirmedIsRead, Nobody
    <2> QED BY <1>6, <2>1, <2>2, <2>3, <2>4, <2>5, <2>6 DEF Server
<1>7. CASE Tick \/ UNCHANGED vars
    BY <1>1, <1>7 DEF Tick, vars
<1> QED BY <1>4, <1>5, <1>6, <1>7 DEF Next

\* A score is put on record for a paper that stays only where Submit ends
\* between Insert and Delete.
LEMMA NothingRecorded ==
    ASSUME recorded = {}, [Next]_vars, [~HandInHalfFails]_vars
    PROVE  recorded' = {}
<1> USE DEF serverVars
<1>1. CASE UNCHANGED vars
    BY <1>1 DEF vars
<1>2. CASE Student
    BY <1>2 DEF Student, Confirmed, DoSubmit, Reloaded, Unload, Changed
<1>3. CASE Page
    BY <1>3 DEF Page, Debounced, SaveSucceeds, SaveFails, TimeUp, DoSubmit, ResendsFail,
       ResendsSucceed, BackToForm, PostSucceeds, PostFails, LoggedOut, Unload, Loaded
<1>4. CASE Server /\ ~HandInHalfFails
    BY <1>4 DEF Server, SaveServed, SaveCancelled, PostCancelled, PostDenied, PostRead,
       TickerReads, HandInEnds, HandInFails
<1>5. CASE Tick
    BY <1>5 DEF Tick
<1> QED BY <1>1, <1>2, <1>3, <1>4, <1>5 DEF Next

\* If saves of one question do not overlap, the hand-in is asked for when none
\* is waited for, and no Submit ends between Insert and Delete, then what the
\* student confirmed is what gets on record, through lost and refused requests,
\* reloads and the ticker (ConfirmedIsScored; doSubmit and Submit).
THEOREM ConfirmedIfQuiet ==
    Spec /\ []NoOverlap /\ [][QuietHandIn]_vars /\ [][~HandInHalfFails]_vars
        => []ConfirmedIsScored
<1> DEFINE Inv == StoredInOrder /\ ConfirmedFollowed /\ recorded = {}
<1>1. Init => Inv
    BY Bounds DEF Init, StoredInOrder, ConfirmedFollowed, ConfirmedIsRead, NoAnswers, Nobody
<1>2. TypeOK /\ NoOverlap => [NewestFails]_vars
    <2> SUFFICES ASSUME TypeOK, NoOverlap, NEW s \in saves, SaveFails(s),
                        NEW t \in Under(s.question), t.waiting
                 PROVE  t.version <= s.version
        BY DEF NewestFails
    <2>1. t \in saves /\ t.question = s.question
        BY DEF Under
    <2>2. t = s
        BY <2>1 DEF NoOverlap
    <2>3. t.version \in Nat
        BY <2>1, Numbers
    <2> QED BY <2>2, <2>3
<1>3. TypeOK /\ TypeOK' /\ KeptInv /\ PostedAfterSaves /\ NoOverlap /\ Inv
          /\ [Next]_vars /\ [QuietHandIn]_vars /\ [~HandInHalfFails]_vars => Inv'
    BY StoredInOrderNext, ConfirmedNext, NothingRecorded
<1>4. Inv => ConfirmedIsScored
    BY DEF ConfirmedFollowed, ConfirmedIsRead, ConfirmedIsScored, Recorded
<1> QED BY <1>1, <1>2, <1>3, <1>4, PageTypeCorrect, KeptAlways, HandInAfterSaves, PTL DEF Spec
=============================================================================
