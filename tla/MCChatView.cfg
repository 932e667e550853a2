CONSTANTS
    Conv = {c, d}
    Group = {c, d}
    LoadCall = {l1, l2}
    SendCall = {s1}
    PageSize = 2
    MaxMessages = 3
    NoConv = NoConv
SPECIFICATION Spec
SYMMETRY Symmetry
INVARIANTS
    TypeOK
    PaneIsUnbroken
    ShownOnce
    NothingMissed
    LoadsAreGuarded
