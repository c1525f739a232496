SPECIFICATION Spec
CONSTANTS
    Rates <- AssertedRates
    Periods <- BoardPeriods
INVARIANT
    Punctual
CHECK_DEADLOCK FALSE
