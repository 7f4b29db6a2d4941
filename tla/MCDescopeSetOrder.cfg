CONSTANTS
    DirChoices <- MCDirsTwoLabels
    HashOrders <- MCBothOrders
    MaxCrashes = 0
    NoName = NoName
    None = None
SPECIFICATION Spec
INVARIANT RenameInjective
