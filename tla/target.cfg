\* Two adjustments from each of the 31 configured targets; work overflows last.
SPECIFICATION TargetSpec
CONSTANTS
    Radix = 4
    Digits = 3
    Bits = 6
    Window = 3
    Expected = 4
    WorkLimit = 192
    Gaps <- MCGaps
    MaxHeight = 6
    Refused = Refused
INVARIANTS
    TargetFollowsHistory
    WorkIsEarned
CHECK_DEADLOCK FALSE
