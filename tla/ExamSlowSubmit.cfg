\* Nothing fails, but a Submit may outlive the TTL of its lock.
SPECIFICATION Spec
CONSTANTS
    right = right
    Nil = Nil
    Users = {u1}
    Questions = {q1}
    Choices = {right}
    Key <- MCKey
    PaperSize = 1
    MaxTries = 2
    Deadline = 1
    DraftTTL = 1
    DraftsMayExpire = FALSE
    Handlers = {h1, h2}
    Tickers = {ticker}
    Faults = {}
    OutagesEnd = FALSE
    LeaseCoversSubmit = FALSE
    OpenAtSet = FALSE
    CloseAtSet = FALSE
SYMMETRY Symmetry
PROPERTIES DraftRemovedOnlyWhenScored
