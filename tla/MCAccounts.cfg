CONSTANTS
    User = {u1, u2}
    Password = {p1, p2}
    Device = {d1}
    KeyPair = {k1, k2}
    Handler = {h1, h2, h3}
    NoAccount = NoAccount
SPECIFICATION Spec
SYMMETRY Symmetry
INVARIANTS
    TypeOK
    RegistrationStands
    DevicesAreAuditedOnce
    ConflictOnlyWhenRaced
