CONSTANTS
    Page = {p1}
    Bag = {b1, b2, b3}
    Path <- Paths
    Thread = {th1, th2}
    MaxWrites = 2
SPECIFICATION Spec
INVARIANT ViewsFollowTheStore
INVARIANT CapturedOnce
INVARIANT ReadWholeAndInOrder
SYMMETRY Symmetric
CHECK_DEADLOCK FALSE
