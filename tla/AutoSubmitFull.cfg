\* Three users, two at a time, and as many members left behind by lapsed
\* drafts as fill a batch.
SPECIFICATION FairSpec
CONSTANTS
    Users = {u1, u2, u3}
    MaxTries = 1
    Deadline = 1
    Limit = 2
    MaxLocked = 1
    MaxLapsed = 2
PROPERTIES EveryOverduePaperTaken
