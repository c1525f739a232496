SPECIFICATION FairSpec
CONSTANTS
    Reports = {"before", "after"}
    Wrap = 2
    TickPrescaler = 2
    ShortTicks = 5
    LongTicks = 1
    Offered = {"Demand"}
    MaxLag = 1
PROPERTIES
    ReportGoesOut
    InputsReported
