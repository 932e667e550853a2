CONSTANTS
    Request = {r1, r2}
    Call = {h1, h2}
    MaxAsks = 2
    NoRequest = NoRequest
SPECIFICATION Spec
SYMMETRY Symmetry
INVARIANTS
    TypeOK
    ToldIsListed
    AnsweredIsGone
