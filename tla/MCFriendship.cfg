CONSTANTS
    User = {u1, u2}
    Handler = {h1, h2}
    ConvId = {c1, c2}
    NoConv = NoConv
SPECIFICATION Spec
SYMMETRY Symmetry
INVARIANTS
    ToldOnlyOfUsableConversations
    AgreedHaveConversation
    OneRowUnlessCrossed
    OneConversationUnlessRaced
PROPERTIES
    FreshWritesFollowLifecycle
    ConsentIsKept
CHECK_DEADLOCK FALSE
