\* Every combination of raw scores and flags, under three hats and two floors.
SPECIFICATION Spec
CONSTANTS
    RawScores  <- MCRawScores
    FlagSets   <- MCFlagSets
    HatConfigs <- MCHatConfigs
    MinTiers   <- MCMinTiers
INVARIANTS
    TypeOK
    FloorsCompose
    TribalVeto
    AgreedSocialEngineeringIsRed
    LoneDissentIsNotGreen
    WorseScoreReassuresAtMostOneLevel
PROPERTIES
    PanelEnds
CHECK_DEADLOCK FALSE
