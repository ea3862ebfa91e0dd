----------------------------- MODULE ScoreTable -----------------------------
(***************************************************************************)
(* The scores table (internal/store/pg_scores.go), which holds the final   *)
(* results.  Its primary key is (username, attempt_no): the rows of a user *)
(* are a function from attempt numbers to scores.                          *)
(***************************************************************************)
EXTENDS ContestModel

VARIABLE scores

Rows == UNION {[S -> Scores] : S \in SUBSET Attempts}

ScoresTypeOK == scores \in [Users -> Rows]

ScoresInit == scores = [u \in Users |-> [a \in {} |-> 0]]

-----------------------------------------------------------------------------
Recorded(u) == DOMAIN scores[u]

\* SELECT count(*) WHERE username = u
CountAttempts(u) == Cardinality(Recorded(u))

RowsWith(rows, a, s) ==
    [i \in DOMAIN rows \union {a} |-> IF i = a THEN s ELSE rows[i]]

\* Mutant: ON CONFLICT DO UPDATE.
InsertScoreUpsert(u, a, s) ==
    scores' = [scores EXCEPT ![u] = RowsWith(scores[u], a, s)]

\* INSERT ... ON CONFLICT (username, attempt_no) DO NOTHING.  Whether a row
\* was added is returned by the code and ignored by its only caller.
InsertScore(u, a, s) ==
    scores' = IF a \in Recorded(u)
              THEN scores
              ELSE [scores EXCEPT ![u] = RowsWith(scores[u], a, s)]
=============================================================================
