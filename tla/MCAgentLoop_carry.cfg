SPECIFICATION Spec
CONSTANTS
    shop = shop
    desk = desk
    chat = chat
    api = api
    hook = hook
    lookup = lookup
    refund = refund
    gift = gift
    hello = hello
    legal = legal
    angry = angry
    both = both
    NoHat = NoHat
    NoTool = NoTool
    Converse = converse
    Escalate = escalate
    Tools = {lookup, refund, gift, escalate}
    HatTools <- MCHatTools
    WebhookHats = {}
    BadHats = {}
    BrokenHats = {}
    Kind <- MCKind
    DefaultHat = shop
    Triggers <- MCTriggers
    RiskFloor <- MCRiskFloor
    AckTools <- MCAckTools
    Hats = {shop}
    RemoteHats = {}
    Tasks = {chat}
    Sessions = {chat}
    Messages = {hello, legal, angry}
    Proposals <- MCProposals
    HatMinTier <- NoMinTier
    MaxTurns = 2
    MaxSwitches = 0
INVARIANT EscalationCarriesForward
CHECK_DEADLOCK FALSE
