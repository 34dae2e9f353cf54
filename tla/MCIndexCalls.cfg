CONSTANTS
    Page = {p1, p2, p3}
    Table = {t1, t2, t3}
SPECIFICATION CallSpec
INVARIANT IndexInv
PROPERTY ImplementsTableInterest
