CONSTANTS
    Page = {p1, p2}
    Table = {t1, t2}
    Worker = {w1, w2}
    MaxPushes = 3
SPECIFICATION FairFilterSpec
INVARIANT FilterTypeOK
INVARIANT NoMissedTransition
PROPERTY FilterConverges
