\* Three requests, redeliveries among them, while hats are equipped and torn down.
SPECIFICATION WebhookSpec
CONSTANTS
    shop = shop
    desk = desk
    depot = depot
    order = order
    other = other
    NoStamp = NoStamp
    MaxRequests = 3
    Hats = {shop, desk, depot}
    Posts <- MCPosts
    Listens <- MCListens
    Routes <- MCRoutes
    SecretHats = {shop}
    NotifierHats = {shop}
    Window = 2
    MaxDaily = 1
    QuietStart = 2
    QuietEnd = 0
    DayHours = 3
    MaxEquips = 2
    MaxTime = 3
INVARIANTS DuplicatesDropped NotificationsRespectLimits SignedOnly
CHECK_DEADLOCK FALSE
