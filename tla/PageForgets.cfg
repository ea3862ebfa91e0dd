\* Two questions; requests get lost and fail, but nothing else goes wrong.
SPECIFICATION Spec
CONSTANTS
    Questions = {q1, q2}
    Deadline = 1
    Faults = TRUE
    MaxChanges = 2
    MaxSaves = 2
CHECK_DEADLOCK FALSE
INVARIANT NothingForgotten
