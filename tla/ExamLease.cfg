\* Two papers to choose from, calls that fail and a server that crashes, but
\* every Submit ends within the TTL of its lock and no command is repeated.
SPECIFICATION Spec
CONSTANTS
    right = right
    Nil = Nil
    Users = {u1}
    Questions = {q1, q2}
    Choices = {right}
    Key <- MCKey
    PaperSize = 1
    MaxTries = 2
    Deadline = 1
    DraftTTL = 1
    DraftsMayExpire = FALSE
    Handlers = {h1, h2}
    Tickers = {ticker}
    Faults = {"crash", "error"}
    OutagesEnd = FALSE
    LeaseCoversSubmit = TRUE
    OpenAtSet = TRUE
    CloseAtSet = FALSE
SYMMETRY Symmetry
INVARIANTS SubmitExclusive
PROPERTIES CopyIsOfOnePaper ResumeKeepsPaper DraftRemovedOnlyWhenScored
