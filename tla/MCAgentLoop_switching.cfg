SPECIFICATION Spec
CONSTANTS
    shop = shop
    desk = desk
    chat = chat
    api = api
    hook = hook
    lookup = lookup
    refund = refund
    gift = gift
    hello = hello
    legal = legal
    angry = angry
    both = both
    NoHat = NoHat
    NoTool = NoTool
    Converse = converse
    Escalate = escalate
    Tools = {lookup, refund, gift, escalate}
    HatTools <- MCHatTools
    WebhookHats = {shop}
    BadHats = {}
    BrokenHats = {}
    Kind <- MCKind
    DefaultHat = shop
    Triggers <- MCTriggers
    RiskFloor <- MCRiskFloor
    AckTools <- MCAckTools
    Hats = {shop, desk}
    RemoteHats = {shop, desk}
    Tasks = {api, hook, operator}
    Sessions = {api, hook}
    Messages = {hello}
    Proposals <- MCRacing
    HatMinTier <- DeskMinYellow
    MaxTurns = 1
    MaxSwitches = 1
INVARIANTS
    TypeOK
    ActsOnlyWhenCleared
    OneActPerTurn
PROPERTIES
    TurnEnds
CHECK_DEADLOCK FALSE
