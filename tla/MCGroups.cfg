CONSTANTS
    User = {u1, u2, u3}
    ConvId = {g1}
    Handler = {h1, h2, h3}
    NoKey = NoKey
SPECIFICATION Spec
SYMMETRY Symmetry
INVARIANTS
    MembersAreParticipants
    NoticeCarriesStoredKey
    ListedGroupHasKey
PROPERTIES
    LeaderlessGroupIsFrozen
    KeyCustodyIsKept
