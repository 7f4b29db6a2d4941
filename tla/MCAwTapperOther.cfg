CONSTANTS
    Files <- MCFilesOther
    StripWidths = {29}
    NumBands = 2
    BandWidth = 28
    Phases = 2
    Taps = 3
    ShiftRanges <- MCNonEmptyShifts
    MseVals = {0, 1}
    FitChoices <- MCFitChoices
    NotHex = NotHex
    NoBest = NoBest
    None = None
SPECIFICATION Spec
INVARIANT SpecTermination
