CONSTANTS
    Page = {p1, p2}
    Table = {t1}
    Worker = {w1}
    User = {u1}
    Connection = {c1}
    Request = {r1, r2}
    MaxPushes = 1
    MaxDeposits = 1
    DeskRefuses = TRUE
SPECIFICATION Spec
INVARIANT TypeOK
INVARIANT DeliveredOnce
INVARIANT OwedIsOnItsWay
INVARIANT HiddenStaysHome
INVARIANT WakeRestoresIndex
CHECK_DEADLOCK FALSE
SYMMETRY Symmetric
