SPECIFICATION LinkSpec
CONSTANTS
    Frames <- MCFrames
    Orders <- MCOrders
    MaxFrame = 9
    RxBufferSize = 12
    MaxLost = 1
INVARIANT
    LinkTypeOK
PROPERTIES
    ImplementsLink
    Recovers
    Drains
    OrdersImplementLink
    OrdersRecover
