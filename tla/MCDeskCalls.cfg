CONSTANTS
    Page = {p1, p2}
    Table = {t1}
    User = {u1, u2}
    Connection = {c1, c2}
    Worker = {}
    Key <- KeyDef
    MaxPushes = 1
    MaxQueue = 2
    MaxClock = 2
SPECIFICATION Spec
INVARIANT TypeOK
INVARIANT QueuesHaveOwners
PROPERTY DepartureIsComplete
