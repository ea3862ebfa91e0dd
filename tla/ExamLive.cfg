\* Two requests and the ticker, one attempt each and a closing time, crashes and
\* failing calls until Recover; Submit ends within its lock's TTL.
SPECIFICATION FairSpec
CONSTANTS
    right = right
    Nil = Nil
    Users = {u1}
    Questions = {q1}
    Choices = {right}
    Key <- MCKey
    PaperSize = 1
    MaxTries = 1
    Deadline = 1
    DraftTTL = 1
    DraftsMayExpire = FALSE
    Handlers = {h1, h2}
    Tickers = {ticker}
    Faults = {"crash", "error"}
    OutagesEnd = TRUE
    LeaseCoversSubmit = TRUE
    OpenAtSet = FALSE
    CloseAtSet = TRUE
PROPERTIES EveryPaperScored CloseSettles
