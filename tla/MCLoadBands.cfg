CONSTANTS
    PatternChoices <- MCPatternChoices
    ColourChoices <- MCColourChoices
    StripWidths <- MCStripWidths
    MaxBands = 3
    Heights = {1, 2}
    BlendRows = {0, 1}
    Black = Black
    BlendColours <- MCBlendColours
    White = White
    Grey = Grey
SPECIFICATION Spec
INVARIANT TypeOK
INVARIANT AlignedSignals
