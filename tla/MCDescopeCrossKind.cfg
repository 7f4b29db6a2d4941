CONSTANTS
    DirChoices <- MCDirsCrossKind
    HashOrders <- MCOneOrder
    MaxCrashes = 0
    NoName = NoName
    None = None
SPECIFICATION Spec
INVARIANT NoClash
