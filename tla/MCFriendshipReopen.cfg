CONSTANTS
    User = {u1, u2}
    Handler = {h1}
    ConvId = {c1}
    NoConv = NoConv
SPECIFICATION Spec
SYMMETRY Symmetry
INVARIANTS
    NotifiedTargetCanAnswer
CHECK_DEADLOCK FALSE
