SPECIFICATION Spec
CONSTANTS
    shop = shop
    desk = desk
    chat = chat
    api = api
    hook = hook
    lookup = lookup
    refund = refund
    gift = gift
    hello = hello
    legal = legal
    angry = angry
    both = both
    NoHat = NoHat
    NoTool = NoTool
    Converse = converse
    Escalate = escalate
    Tools = {lookup, refund, gift, escalate}
    HatTools <- MCHatTools
    WebhookHats = {}
    BadHats = {}
    BrokenHats = {}
    Kind <- MCKind
    DefaultHat = shop
    Triggers <- MCTriggers
    RiskFloor <- MCRiskFloor
    AckTools <- MCAckTools
    Hats = {shop, desk}
    RemoteHats = {}
    Tasks = {api, operator}
    Sessions = {api}
    Messages = {hello}
    Proposals <- MCActing
    HatMinTier <- NoMinTier
    MaxTurns = 1
    MaxSwitches = 1
INVARIANT SnapshotIsDecidingHat
CHECK_DEADLOCK FALSE
