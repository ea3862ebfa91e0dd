\* Nothing fails; requests only take their time.
SPECIFICATION Spec
CONSTANTS
    Questions = {q1, q2}
    Deadline = 1
    Faults = FALSE
    MaxChanges = 2
    MaxSaves = 2
CHECK_DEADLOCK FALSE
INVARIANT ConfirmedIsScored
