CONSTANTS
    NonStringValue = NonStringValue
    AbsentValue = AbsentValue
    FrameTypes <- MCFrameTypes
    NonString <- NonStringValue
    Absent <- AbsentValue
    ObjectTypes <- AnyTyped
    MaxFrames <- MCMaxFrames
SPECIFICATION Spec
INVARIANT TypeOK
CHECK_DEADLOCK FALSE
