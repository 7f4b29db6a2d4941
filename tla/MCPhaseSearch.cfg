CONSTANTS
    NSamples = 28
    PhaseCounts <- MCPhaseCounts
    ShiftRanges <- MCShiftRanges
    MseVals = {0, 1}
    NoBest = NoBest
SPECIFICATION Spec
INVARIANT TypeOK
INVARIANT PredictUsesOwnBucket
PROPERTY SearchRefinement
