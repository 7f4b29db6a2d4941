CONSTANTS
    Files <- MCFiles
    StripWidths = {20, 29}
    NumBands = 2
    BandWidth = 28
    Phases = 2
    Taps = 3
    ShiftRanges <- MCShiftRanges
    MseVals = {0, 1}
    FitChoices <- MCFitChoices
    NotHex = NotHex
    NoBest = NoBest
    None = None
SPECIFICATION Spec
INVARIANT TypeOK
INVARIANT WritesIffAcceptable
INVARIANT EmitsWinner
INVARIANT CalibTypeOK
INVARIANT GainMapsWhiteToOne
