SPECIFICATION Spec
CONSTANTS
    Reports = {"before", "after"}
    Wrap = 4
    TickPrescaler = 2
    ShortTicks = 1
    LongTicks = 2
    Offered = {"Request Pong", "Request Version", "Demand", "Dropped"}
    MaxLag = 2
INVARIANTS
    TypeOK
    TicksConserved
    ReportDue
PROPERTIES
    InputSpacing
