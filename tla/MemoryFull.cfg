\* The program on its stores in memory, from the empty bank on.
SPECIFICATION Spec
CONSTANTS
    Nil = Nil
    QuestionIds = {1, 2}
    IdStride = 2
    MaxChoices = 3
    PaperCounts <- MCPaperCounts
    ScorePerQuestion <- MCScorePerQuestion
    Users = {u1}
    Handlers = {h}
    Tickers = {ticker}
    MaxTries = 1
    Deadline = 1
    BatchLimit = 1
INVARIANTS TypeOK KeyAcceptable FullPaper FullMarksAreTotal
PROPERTIES RightAnswersScore StoresContract
CHECK_DEADLOCK FALSE
