\* Two goroutines call managerStateMachine at once: the unlocked read of currState races with the other call's write.
CONSTANTS
    c1 = c1
    c2 = c2
    NoSideValue = NoSideValue
    Callers <- TwoCallers
    Sides <- MCSides
    NoSide <- NoSideValue
SPECIFICATION Spec
PROPERTY StoppedIsFinal
