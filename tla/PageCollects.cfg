CONSTANTS
    Page = {p1}
    Table = {}
    Worker = {}
    User = {guest, mario}
    Connection = {c1}
    Thread = {th1, th2}
    Key <- KeyDef
    Kinds = {"page", "page_store", "login"}
    MaxPushes = 1
    MaxClock = 3
SPECIFICATION Spec
INVARIANT TypeOK
INVARIANT BatchInArrivalOrder
INVARIANT MailDeliveredOnce
PROPERTY CollectLosesNothing
CHECK_DEADLOCK FALSE
SYMMETRY Symmetric
