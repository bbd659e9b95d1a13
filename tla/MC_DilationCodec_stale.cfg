CONSTANTS
    NonStringValue = NonStringValue
    AbsentValue = AbsentValue
    FrameTypes <- MCFrameTypes
    NonString <- NonStringValue
    Absent <- AbsentValue
    ObjectTypes <- StringTyped
    MaxFrames <- MCMaxFrames
SPECIFICATION Spec
INVARIANT NoSpuriousEvent
CHECK_DEADLOCK FALSE
