SPECIFICATION DisciplineSpec
CONSTANTS
    shop = shop
    desk = desk
    faq = faq
    bad = bad
    broken = broken
    refund = refund
    lookup = lookup
    mail = mail
    NoHat = NoHat
    Hats = {shop, desk, faq, bad, broken}
    Tools = {refund, lookup, mail}
    HatTools <- MCTools
    RemoteHats = {shop, desk}
    WebhookHats = {shop, faq}
    BadHats = {bad}
    BrokenHats = {broken}
    Tasks = {t1, t2}
INVARIANTS
    HatTypeOK
    ActiveHatHasItsTools
    NoOrphanRouter
    NoOverlap
    ActiveHatIsWhole
    NoLeakedClient
PROPERTY EquipEnds
