SPECIFICATION Spec
CONSTANTS
    Positions = {p1}
    NoFix = nofix
    NoTarget = notarget
    NotRMC = notrmc
    Tickers = {"step", "heartbeat"}
    Kinds = {"Input", "Other"}
    Levels = {0, 1, 2}
    Sentences = {p1, notrmc}
    MaxPoints = 2
INVARIANT
    RecorderFollowsSwitch
    EventsCurrent
PROPERTIES
    HaltIsFinal
    MissionInOrder
CHECK_DEADLOCK FALSE
