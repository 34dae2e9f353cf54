CONSTANTS
    p1 = p1
    p2 = p2
    mario = mario
    Page = {p1, p2}
    Connection = {c1, c2}
    User = {mario}
    Thread = {th1, th2}
    PageName <- Names
    Writer = {p1}
    Filter <- Filters
SPECIFICATION Spec
INVARIANT TypeOK
INVARIANT RowsFormChains
INVARIANT FoldersHaveRows
INVARIANT ReadsAreComplete
INVARIANT BroadcastStaysWithin
PROPERTY FoldersSurvive
SYMMETRY Symmetric
