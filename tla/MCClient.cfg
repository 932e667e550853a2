CONSTANTS
    Conv = {c, g}
    Group = {g}
    DashCall = {d1, d2}
    Peer = {p}
    NoConv = NoConv
SPECIFICATION ClientSpec
INVARIANTS
    ClientTypeOK
    ShownCanBeOpened
    AnnouncedStays
    IndicatorIsCurrent
    StopIsOwed
PROPERTIES
    OpenStaysServed
