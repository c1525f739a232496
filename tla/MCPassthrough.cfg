SPECIFICATION Spec
CONSTANTS
    Channels = {0, 5}
    Durations = {160, 400}
    Saturate = 4
    FrameStart = 200
    Sides = {0, 1}
    Lateness <- MCLateness
PROPERTIES
    ServosFollowSticks
    ResetCutsNothing
