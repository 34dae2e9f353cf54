CONSTANTS
    Page = {p1}
    Table = {t1}
    Worker = {w1}
    User = {u1}
    Connection = {c1}
    Request = {r1, r2}
    MaxPushes = 1
    MaxDeposits = 0
    DeskRefuses = FALSE
SPECIFICATION Spec
INVARIANT IndexProjectsRows
CHECK_DEADLOCK FALSE
