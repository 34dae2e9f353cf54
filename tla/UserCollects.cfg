CONSTANTS
    Page = {p1, p2}
    Table = {}
    Worker = {}
    User = {guest, mario}
    Connection = {c1}
    Thread = {th1, th2}
    Key <- OneKey
    Kinds = {"user_store", "login", "ping"}
    MaxPushes = 1
    MaxClock = 2
SPECIFICATION Spec
INVARIANT MailDeliveredOnce
PROPERTY CollectLosesNothing
PROPERTY AppliedIsSeen
PROPERTY RetiredIsApplied
CHECK_DEADLOCK FALSE
SYMMETRY Symmetric
