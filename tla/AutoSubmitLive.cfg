\* Three users, two at a time, and one member left behind by a lapsed draft:
\* one short of what fills a batch.
SPECIFICATION FairSpec
CONSTANTS
    Users = {u1, u2, u3}
    MaxTries = 1
    Deadline = 1
    Limit = 2
    MaxLocked = 1
    MaxLapsed = 1
INVARIANTS TypeOK DueAreEarliest
PROPERTIES EveryOverduePaperTaken
