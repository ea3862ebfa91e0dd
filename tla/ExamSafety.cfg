\* Two requests and the ticker, everything that can go wrong allowed to:
\* locks lapse under their holders, keys expire, calls fail, replies get
\* lost, the server crashes.
SPECIFICATION Spec
CONSTANTS
    right = right
    Nil = Nil
    Users = {u1}
    Questions = {q1}
    Choices = {right}
    Key <- MCKey
    PaperSize = 1
    MaxTries = 2
    Deadline = 1
    DraftTTL = 1
    DraftsMayExpire = TRUE
    Handlers = {h1, h2}
    Tickers = {ticker}
    Faults = {"crash", "error", "lostReply"}
    OutagesEnd = FALSE
    LeaseCoversSubmit = FALSE
    OpenAtSet = FALSE
    CloseAtSet = FALSE
SYMMETRY Symmetry
INVARIANTS TypeOK AttemptsContiguous AttemptsInOrder EveryDraftScheduled
PROPERTIES LedgerSpec ResumeKeepsPaper
