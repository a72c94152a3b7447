\* Three analyses, concurrent and repeated, while the hat is equipped anew.
SPECIFICATION CacheSpec
CONSTANTS
    shop = shop
    desk = desk
    NoHat = NoHat
    Undeclared = Undeclared
    Hats = {shop, desk}
    Tools = {"lookup", "refund"}
    Candidates <- MCCandidates
    Situation <- MCSituation
    Declared <- MCDeclared
    DefaultTtl = 2
    MaxCalls = 3
    MaxEquips = 2
    MaxTime = 2
INVARIANTS CacheTypeOK ReturnsOwnTree SharedTreeIsFresh NoTreeOfFormerHat
CHECK_DEADLOCK FALSE
