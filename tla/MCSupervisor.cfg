SPECIFICATION Spec
CONSTANTS
    Channels = {0, 2}
    Throttle = 2
    SeenTicks = 2
    Full = 93
    Widths <- MCWidths
    Demands <- MCDemands
INVARIANTS
    TypeOK
    ThrottleSafe
    PilotAuthority
    ThrottleReleased
    SuppliedByPilot
    ChangesShown
PROPERTIES
    ShutdownEndsIdle
    ServosObeyControl
    ImplementsHandover
