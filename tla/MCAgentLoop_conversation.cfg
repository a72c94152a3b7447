SPECIFICATION Spec
CONSTANTS
    shop = shop
    desk = desk
    chat = chat
    api = api
    hook = hook
    lookup = lookup
    refund = refund
    gift = gift
    hello = hello
    legal = legal
    angry = angry
    both = both
    NoHat = NoHat
    NoTool = NoTool
    Converse = converse
    Escalate = escalate
    Tools = {lookup, refund, gift, escalate}
    HatTools <- MCHatTools
    WebhookHats = {}
    BadHats = {}
    BrokenHats = {}
    Kind <- MCKind
    DefaultHat = shop
    Triggers <- MCTriggers
    RiskFloor <- MCRiskFloor
    AckTools <- MCAckTools
    Hats = {shop}
    RemoteHats = {}
    Tasks = {chat}
    Sessions = {chat}
    Messages = {hello, legal, angry, both}
    Proposals <- MCProposals
    HatMinTier <- NoMinTier
    MaxTurns = 3
    MaxSwitches = 0
INVARIANTS
    NoToolAfterTrigger
    FlooredToolNeverActs
PROPERTIES
    KeepsPromise
CHECK_DEADLOCK FALSE
