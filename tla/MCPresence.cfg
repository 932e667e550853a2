CONSTANTS
    Conn = {x1, x2}
    Handler = {h1, h2}
    Channel = {chat, groups}
    TTL = 2
SPECIFICATION FairSpec
INVARIANTS
    TypeOK
    OrderlyKeyIsExact
    OrderlyChannelsShowKey
PROPERTIES
    SilentUserGoesOffline
