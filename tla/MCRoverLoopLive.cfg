SPECIFICATION FairSpec
CONSTANTS
    Positions = {p1}
    NoFix = nofix
    NoTarget = notarget
    NotRMC = notrmc
    Tickers = {"step"}
    Kinds = {"Input"}
    Levels = {0, 1, 2}
    Sentences = {p1}
    MaxPoints = 1
PROPERTIES
    PauseStops
    TicksServed
    FramesServed
CHECK_DEADLOCK FALSE
