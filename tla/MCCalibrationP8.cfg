CONSTANTS
    Phases = 8
    Taps = 3
    BandWidth = 28
    NumBands = 2
    PatternChoices <- MCPatternChoices
    FitChoices <- MCOneFit
    None = None
SPECIFICATION Spec
INVARIANT CalibBucketAgreement
