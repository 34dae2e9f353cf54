CONSTANTS
    Thread = {th1, th2}
    Key = {k1}
    Leaf = {a, b}
    Clock = {1}
    MaxBlock = 2
SPECIFICATION FairSpec
INVARIANT TypeOK
PROPERTY ImplementsAtomicStore
PROPERTY NobodyWaitsForever
