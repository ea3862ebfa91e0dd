\* Two questions, lost and failing requests, reloads, a session that ends.
SPECIFICATION FairSpec
CONSTANTS
    Questions = {q1, q2}
    Deadline = 1
    Faults = TRUE
    MaxChanges = 2
    MaxSaves = 2
CHECK_DEADLOCK FALSE
INVARIANTS TypeOK FailureShown PostedAfterSaves ToldOnceHandedIn
PROPERTIES SubmittingEnds
