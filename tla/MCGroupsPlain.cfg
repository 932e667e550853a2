CONSTANTS
    User = {u1, u2}
    ConvId = {g1}
    Handler = {h1}
    NoKey = NoKey
SPECIFICATION Spec
INVARIANTS
    GroupConversationHasMembers
