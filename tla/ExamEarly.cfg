\* Nothing fails: two requests and the ticker suffice.
SPECIFICATION Spec
CONSTANTS
    right = right
    Nil = Nil
    Users = {u1}
    Questions = {q1}
    Choices = {right}
    Key <- MCKey
    PaperSize = 1
    MaxTries = 2
    Deadline = 1
    DraftTTL = 1
    DraftsMayExpire = FALSE
    Handlers = {h1, h2}
    Tickers = {ticker}
    Faults = {}
    OutagesEnd = FALSE
    LeaseCoversSubmit = TRUE
    OpenAtSet = FALSE
    CloseAtSet = FALSE
SYMMETRY Symmetry
PROPERTIES TickerScoresOnlyDue
