CONSTANTS
    Thread = {th1, th2}
    Item = {i1, i2}
    MaxDepth = 2
    LOCK_MAX_RETRY = 2
SPECIFICATION FairSpec
INVARIANT TypeOK
INVARIANT OneHolder
INVARIANT CountIsDepth
INVARIANT EachCreatesOnce
PROPERTY EnterEnds
