SPECIFICATION FairSpec
CONSTANTS
    Channels = {2}
    Throttle = 2
    SeenTicks = 1
    Full = 93
    Widths <- MCWidths
    Demands <- MCDemands
PROPERTIES
    SilentPilotLoses
    SilentRemoteStops
    EventuallyReported
