\* The Manager driven by a single event loop, against an arbitrary peer and
\* application and a well-behaved connection layer.
CONSTANTS
    c1 = c1
    c2 = c2
    NoSideValue = NoSideValue
    Callers <- OneCaller
    Sides <- MCSides
    NoSide <- NoSideValue
SPECIFICATION Spec
INVARIANTS
    TypeOK
    ShellAgreesWithManager
PROPERTIES
    RoleNeverRevised
    StoppedIsFinal
