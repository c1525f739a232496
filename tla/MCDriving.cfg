SPECIFICATION Spec
CONSTANTS
    Unit = 750
    Pi = 2356
    Gains <- MCGains
    Second = 2
    Trips <- MCTrips
INVARIANT
    SilenceNoticed
PROPERTIES
    DrivesOnlyEngaged
    DemandInRange
    IntegralFollowsError
    TurnsTheShortWay
