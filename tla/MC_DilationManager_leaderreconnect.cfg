\* A peer that sends reconnect to the Leader: the Leader abandons and then ignores its own loss report.
CONSTANTS
    c1 = c1
    c2 = c2
    NoSideValue = NoSideValue
    Callers <- OneCaller
    Sides <- MCSides
    NoSide <- NoSideValue
SPECIFICATION Spec
INVARIANT StoppingAwaitsLoss
