----------------------------- MODULE ContestPage -----------------------------
(***************************************************************************)
(* The contest page (web/static/js/contest.js) against the service.  One   *)
(* student works on one paper in one page: changes are sent after a pause  *)
(* (debounce), several saves can be under way at once, a failed one is put *)
(* back, and the paper is handed in by the student or when time is up.     *)
(*                                                                         *)
(* The server side is the part of Service.SaveAnswer and Service.Submit    *)
(* that one student's page can tell: see ExamService for the rest.         *)
(*                                                                         *)
(* Changes are numbered in the order the student makes them, and an answer *)
(* is the number of the change that gave it; 0 is the answer before any.   *)
(***************************************************************************)
EXTENDS Integers, FiniteSets

CONSTANTS
    Questions,  \* the questions on the paper
    Deadline,   \* clock ticks the paper may be worked on
    Faults,     \* may requests get lost or fail, and the session be over?
    MaxChanges, \* bound: changes the student makes
    MaxSaves    \* bound: saves of one question under way at a time

ASSUME PageAssumption ==
    /\ IsFiniteSet(Questions)
    /\ {Deadline, MaxChanges, MaxSaves} \subseteq Nat \ {0}
    /\ Faults \in BOOLEAN

VARIABLES
    \* The page.
    page,           \* "open", "loading" it again, or "left" for another page
    shown,          \* what is checked in the form
    pending,        \* the map `pending': answers waiting to be sent, else 0
    timers,         \* the questions with a debounce timer
    saveFailed,
    submit,         \* doSubmit: "idle", "saving" answers, "posting" the hand-in
    resent,         \* the answers doSubmit sends and waits for, else 0
    resendFailed,   \* one of them was not saved
    autoSubmitted,
    \* The network: the requests under way.
    saves,          \* POST /api/answer
    post,           \* POST /api/submit: its stage, "none" if there is none
    \* The server.
    draft,          \* the paper is in the draft store
    stored,         \* the answers in the draft store
    recorded,       \* a score is on record for the paper: the answers it is of
    handIn,         \* the Submit under way: who calls it, the answers it has read
    left,           \* ticks until the deadline, -1 after it
    \* History.
    changes,        \* the number of changes made
    acked,          \* the last change of each question known to be saved
    confirmed       \* what was shown when the hand-in was asked for

formVars == <<page, shown, pending, timers, saveFailed, acked>>
submitVars == <<submit, resent, resendFailed, confirmed>>
pageVars == <<formVars, submitVars, autoSubmitted, changes>>
serverVars == <<draft, stored, recorded, handIn, left>>
vars == <<pageVars, saves, post, serverVars>>

Change == 0 .. MaxChanges

Answers == [Questions -> Change]

NoAnswers == [q \in Questions |-> 0]

\* id tells saves of one question apart.  "sent" is a request on its way, the
\* other stages are replies on theirs: 204, an error, or 401.
Save == [question: Questions, id: 1 .. MaxSaves, version: Change \ {0},
         at: {"sent", "saved", "refused", "denied"}, waiting: BOOLEAN]

Reading == [by: {"nobody", "page", "ticker"}, copy: Answers]

Nobody == [by |-> "nobody", copy |-> NoAnswers]

TypeOK ==
    /\ page \in {"open", "loading", "left"}
    /\ {shown, pending, resent, stored, acked, confirmed} \union recorded \subseteq Answers
    /\ timers \subseteq {q \in Questions : pending[q] # 0}
    /\ {saveFailed, resendFailed, autoSubmitted, draft} \subseteq BOOLEAN
    /\ submit \in {"idle", "saving", "posting"}
    /\ saves \subseteq Save
    /\ \A s, t \in saves : s.question = t.question /\ s.id = t.id => s = t
    /\ post \in {"none", "sent", "running", "done", "refused", "denied"}
    /\ handIn \in Reading
    /\ left \in -1 .. Deadline
    /\ changes \in Change

\* A page that has just loaded a new paper.
Init ==
    /\ page = "open" /\ shown = NoAnswers /\ pending = NoAnswers
    /\ timers = {} /\ saveFailed = FALSE /\ acked = NoAnswers
    /\ submit = "idle" /\ resent = NoAnswers /\ resendFailed = FALSE
    /\ confirmed = NoAnswers /\ autoSubmitted = FALSE /\ changes = 0
    /\ saves = {} /\ post = "none"
    /\ draft = TRUE /\ stored = NoAnswers /\ recorded = {}
    /\ handIn = Nobody /\ left = Deadline

-----------------------------------------------------------------------------
(***************************************************************************)
(* Saving.                                                                 *)
(***************************************************************************)
Under(q) == {s \in saves : s.question = q}

FreeIds(q) == {i \in 1 .. MaxSaves : \A s \in Under(q) : s.id # i}

Pending == {q \in Questions : pending[q] # 0}

\* sendAnswer takes the answers to Q out of pending, with their timers.
Sent(Q, waiting) ==
    {[question |-> q, id |-> CHOOSE i \in FreeIds(q) : TRUE,
      version |-> pending[q], at |-> "sent", waiting |-> waiting] : q \in Q}

\* Mutant: the timers go on.
TakenKeepingTimers(Q) ==
    /\ pending' = [q \in Questions |-> IF q \in Q THEN 0 ELSE pending[q]]
    /\ UNCHANGED timers

Taken(Q) ==
    /\ pending' = [q \in Questions |-> IF q \in Q THEN 0 ELSE pending[q]]
    /\ timers' = timers \ Q

\* scheduleAnswer: the answer is put down and the timer of its question starts
\* over.  Nothing keeps the student from changing answers while submitting.
Changed(q) ==
    /\ page = "open"
    /\ changes < MaxChanges
    /\ changes' = changes + 1
    /\ shown' = [shown EXCEPT ![q] = changes']
    /\ pending' = [pending EXCEPT ![q] = changes']
    /\ timers' = timers \union {q}
    /\ UNCHANGED <<page, saveFailed, acked, submitVars, autoSubmitted, saves, post, serverVars>>

\* sendAnswer, called by the timer.
Debounced(q) ==
    /\ page = "open"
    /\ q \in timers
    /\ FreeIds(q) # {}
    /\ saves' = saves \union Sent({q}, TRUE)
    /\ Taken({q})
    /\ UNCHANGED <<page, shown, saveFailed, acked, submitVars, autoSubmitted, changes,
                   post, serverVars>>

\* Mutant: a save that works out takes the warning back.
StillUnsavedForgotten == FALSE

\* What saveFailed becomes when a save works out.
StillUnsaved == Pending # {}

\* The reply 204 reaches sendAnswer.
SaveSucceeds(s) ==
    /\ s.waiting /\ s.at = "saved"
    /\ saves' = saves \ {s}
    /\ saveFailed' = StillUnsaved
    /\ acked' = [acked EXCEPT ![s.question] = IF s.version > @ THEN s.version ELSE @]
    /\ UNCHANGED <<page, shown, pending, timers, submitVars, autoSubmitted, changes,
                   post, serverVars>>

\* The page no longer waits for s; the server may still be at work on it.
GivenUp(s) == IF s.at = "sent" THEN {[s EXCEPT !.waiting = FALSE]} ELSE {}

\* sendAnswer catches an error: a refusal, or the network's at any point.  The
\* answer is put back to wait for the next change or hand-in, unless another
\* answer to the question is there already.
SaveFails(s) ==
    /\ s.waiting
    /\ s.at = "refused" \/ (Faults /\ s.at # "denied")
    /\ saves' = (saves \ {s}) \union GivenUp(s)
    /\ pending' = [pending EXCEPT ![s.question] = IF @ = 0 THEN s.version ELSE @]
    /\ saveFailed' = TRUE
    /\ resendFailed' = (resendFailed \/ resent[s.question] = s.version)
    /\ UNCHANGED <<page, shown, timers, acked, submit, resent, confirmed,
                   autoSubmitted, changes, post, serverVars>>

\* The page and its state are gone: pagehide sends what is pending once more,
\* and nobody waits for any reply.
Unload(next) ==
    /\ page' = next
    /\ saves' = (UNION {GivenUp(s) : s \in saves})
                \union Sent({q \in Pending : FreeIds(q) # {}}, FALSE)
    /\ shown' = NoAnswers /\ pending' = NoAnswers /\ timers' = {}
    /\ saveFailed' = FALSE /\ acked' = NoAnswers
    /\ submit' = "idle" /\ resent' = NoAnswers /\ resendFailed' = FALSE
    /\ confirmed' = NoAnswers /\ autoSubmitted' = FALSE
    /\ UNCHANGED <<changes, serverVars>>

\* The student reloads the page.
Reloaded == page = "open" /\ Unload("loading") /\ UNCHANGED post

\* loadExam: GET /api/exam resumes the paper with the answers stored by now.
Loaded ==
    /\ page = "loading"
    /\ draft /\ left >= 0
    /\ page' = "open"
    /\ shown' = stored
    /\ acked' = stored
    /\ UNCHANGED <<pending, timers, saveFailed, submitVars, autoSubmitted, changes,
                   saves, post, serverVars>>

-----------------------------------------------------------------------------
(***************************************************************************)
(* Handing in.                                                             *)
(***************************************************************************)
\* doSubmit, up to its first await.  A second POST while one of an earlier
\* try is still on its way is left out.
DoSubmit ==
    /\ page = "open"
    /\ submit = "idle"
    /\ post = "none"
    /\ \A q \in Pending : FreeIds(q) # {}
    /\ saves' = saves \union Sent(Pending, TRUE)
    /\ resent' = pending
    /\ Taken(Pending)
    /\ submit' = "saving"
    /\ confirmed' = shown
    /\ UNCHANGED <<page, shown, saveFailed, acked, resendFailed, changes, post, serverVars>>

\* The student confirms the hand-in, or tries again after an error.
Confirmed == DoSubmit /\ UNCHANGED autoSubmitted

\* updateTimer finds no time left.  It does so once, even if doSubmit returns
\* at once because the student's own hand-in is under way.  The page's clock
\* was set by a reply, so it is never ahead of the server's.
TimeUp ==
    /\ page = "open"
    /\ left <= 0
    /\ ~autoSubmitted
    /\ autoSubmitted' = TRUE
    /\ \/ DoSubmit
       \/ submit # "idle" /\ UNCHANGED <<formVars, submitVars, changes, saves, post, serverVars>>

\* The error path of doSubmit: the form is back, with an offer to try again.
BackToForm ==
    /\ submit' = "idle" /\ resent' = NoAnswers /\ resendFailed' = FALSE
    /\ confirmed' = NoAnswers
    /\ UNCHANGED <<formVars, autoSubmitted, changes, saves, serverVars>>

\* Promise.all is done.
AllSettled ==
    /\ submit = "saving"
    /\ \A s \in saves : s.waiting => resent[s.question] # s.version

\* Mutant: the results of the saves are not looked at.
AllSavedUnchecked == AllSettled

AllSaved == AllSettled /\ ~resendFailed

ResendsFail == AllSettled /\ ~AllSaved /\ BackToForm /\ UNCHANGED post

ResendsSucceed ==
    /\ AllSaved
    /\ submit' = "posting"
    /\ post' = "sent"
    /\ UNCHANGED <<formVars, resent, resendFailed, confirmed, autoSubmitted, changes,
                   saves, serverVars>>

\* The hand-in, or the news that there is no paper any more, reaches the page,
\* which moves on to /info.
PostSucceeds ==
    /\ submit = "posting" /\ post = "done"
    /\ post' = "none"
    /\ Unload("left")

\* Mutant: `submitting' is not reset.
PostFailsStuck ==
    /\ submit = "posting" /\ post = "refused"
    /\ post' = "none"
    /\ UNCHANGED <<pageVars, saves, serverVars>>

\* An error reply, or the network fails while the server may be at work.
PostFails ==
    /\ submit = "posting"
    /\ post = "refused" \/ (Faults /\ post # "denied")
    /\ post' = IF post \in {"sent", "running"} THEN post ELSE "none"
    /\ BackToForm

\* api meets a reply 401 and moves on to the home page.
LoggedOut ==
    /\ \/ \E s \in saves : s.waiting /\ s.at = "denied"
       \/ submit = "posting" /\ post = "denied"
    /\ post' = IF post = "denied" THEN "none" ELSE post
    /\ Unload("left")

-----------------------------------------------------------------------------
(***************************************************************************)
(* The server.                                                             *)
(***************************************************************************)
\* handleAnswer and SaveAnswer.  ExamService takes SaveAnswer apart; here it
\* writes in the same step as it looks at the draft.  requireUser may find the
\* session over.  A reply nobody waits for is gone.
SaveServed(s) ==
    /\ s.at = "sent"
    /\ \E reply \in {IF draft /\ left >= 0 THEN "saved" ELSE "refused"}
                    \union IF Faults THEN {"denied"} ELSE {} :
          /\ stored' = IF reply = "saved" THEN [stored EXCEPT ![s.question] = s.version]
                                          ELSE stored
          /\ saves' = (saves \ {s}) \union
                      IF s.waiting THEN {[s EXCEPT !.at = reply]} ELSE {}
    /\ UNCHANGED <<pageVars, post, draft, recorded, handIn, left>>

\* A request the page has given up is cancelled before it has an effect.
SaveCancelled(s) ==
    /\ ~s.waiting
    /\ saves' = saves \ {s}
    /\ UNCHANGED <<pageVars, post, serverVars>>

PostCancelled ==
    /\ post = "sent" /\ submit # "posting"
    /\ post' = "none"
    /\ UNCHANGED <<pageVars, saves, serverVars>>

\* The reply to the hand-in, if the page still waits for one.
Reply(result) == post' = IF submit = "posting" THEN result ELSE "none"

\* requireUser finds the session over.
PostDenied ==
    /\ Faults
    /\ post = "sent"
    /\ Reply("denied")
    /\ UNCHANGED <<pageVars, saves, serverVars>>

\* Mutant: so is a Submit that is still under way.
AlreadySubmittedOrLocked == TRUE

\* No draft counts as handed in already; a Submit under way has the lock.
AlreadySubmitted == ~draft

\* handleSubmit, and Submit up to its reading of the answers.
PostRead ==
    /\ post = "sent"
    /\ IF draft /\ handIn = Nobody
       THEN handIn' = [by |-> "page", copy |-> stored] /\ post' = "running"
       ELSE Reply(IF AlreadySubmitted THEN "done" ELSE "refused") /\ UNCHANGED handIn
    /\ UNCHANGED <<pageVars, saves, draft, stored, recorded, left>>

\* ProcessDue, or a GET /api/exam for an overdue paper.
TickerReads ==
    /\ left <= 0
    /\ draft
    /\ handIn = Nobody
    /\ handIn' = [by |-> "ticker", copy |-> stored]
    /\ UNCHANGED <<pageVars, saves, post, draft, stored, recorded, left>>

\* What is on record once Insert has done its work: the first copy scored,
\* though a later Submit has read another.
Recorded == IF recorded = {} THEN {handIn.copy} ELSE recorded

\* The rest of Submit: the copy is scored, the draft and its answers deleted.
\* With the paper gone, so is the interest in its record.
HandInEnds ==
    /\ handIn # Nobody
    /\ handIn' = Nobody
    /\ recorded' = {}
    /\ draft' = FALSE
    /\ stored' = NoAnswers
    /\ IF handIn.by = "page" THEN Reply("done") ELSE UNCHANGED post
    /\ UNCHANGED <<pageVars, saves, left>>

\* Submit ends with an error; one after Delete has done its work is to the page
\* what PostFails is.
HandInError ==
    /\ Faults
    /\ handIn # Nobody
    /\ handIn' = Nobody
    /\ IF handIn.by = "page" THEN Reply("refused") ELSE UNCHANGED post
    /\ UNCHANGED <<pageVars, saves, draft, stored, left>>

\* ... before the score is written ...
HandInFails == HandInError /\ UNCHANGED recorded

\* ... or between Insert and Delete: the paper stays, although it is scored, and
\* can be answered and handed in again.
HandInHalfFails == HandInError /\ recorded' = Recorded

Tick ==
    /\ left >= 0
    /\ left' = left - 1
    /\ UNCHANGED <<pageVars, saves, post, draft, stored, recorded, handIn>>

-----------------------------------------------------------------------------
Student == Confirmed \/ Reloaded \/ \E q \in Questions : Changed(q)

\* What the page does by itself, and on replies.
Page ==
    \/ \E q \in Questions : Debounced(q)
    \/ \E s \in saves : SaveSucceeds(s) \/ SaveFails(s)
    \/ TimeUp \/ ResendsFail \/ ResendsSucceed
    \/ PostSucceeds \/ PostFails \/ LoggedOut \/ Loaded

Server ==
    \/ \E s \in saves : SaveServed(s) \/ SaveCancelled(s)
    \/ PostCancelled \/ PostDenied \/ PostRead
    \/ TickerReads \/ HandInEnds \/ HandInFails \/ HandInHalfFails

Next == Student \/ Page \/ Server \/ Tick

Spec == Init /\ [][Next]_vars

SaveStep == \E s \in saves : SaveServed(s) \/ SaveSucceeds(s) \/ SaveFails(s)

\* Handlers are scheduled, saves under way are answered or fail one after the
\* other.  The student, the faults, the timers and the clock are free.
Fairness ==
    /\ WF_vars(ResendsFail \/ ResendsSucceed)
    /\ WF_vars(PostSucceeds \/ PostFails \/ LoggedOut)
    /\ WF_vars(PostRead \/ HandInEnds)
    /\ WF_vars(SaveStep)

FairSpec == Spec /\ Fairness

-----------------------------------------------------------------------------
(***************************************************************************)
(* Properties.                                                             *)
(***************************************************************************)

\* An answer that failed and waits with no timer running is warned about, also
\* after other answers have been saved (saveFailed in sendAnswer).
FailureShown == Pending \ timers # {} => saveFailed

\* When the hand-in is posted, what was waiting to be sent as the student asked
\* for it has been saved, or something newer has (the await in doSubmit).
PostedAfterSaves ==
    submit = "posting" => \A q \in Questions : resent[q] <= acked[q]

\* The page is told that its hand-in went well only once the paper is scored or
\* gone: another Submit still at work is not good enough (handleSubmit).
ToldOnceHandedIn == post = "done" => ~draft

\* A hand-in that has begun comes to an end, so its button, disabled meanwhile,
\* works again or the page has moved on (doSubmit's catch).
SubmittingEnds == submit # "idle" ~> submit = "idle"

\* What the form shows is never just forgotten: it is waiting to be sent, on
\* its way with the page waiting for the outcome, or known to be saved --
\* although saves of one question overlap, overtake each other and fail
\* (sendAnswer's put-back).
NothingForgotten ==
    page = "open" =>
        \A q \in Questions :
            \/ shown[q] \in {pending[q], acked[q]}
            \/ \E s \in Under(q) : s.waiting /\ s.version = shown[q]

\* What a hand-in of the page puts on record, or finds there, is no older than
\* what the form showed when the student asked for it: doSubmit does not go on
\* with unsaved answers.
ConfirmedIsScored ==
    submit = "posting" /\ handIn.by = "page" =>
        \A copy \in Recorded, q \in Questions : copy[q] >= confirmed[q]
=============================================================================
