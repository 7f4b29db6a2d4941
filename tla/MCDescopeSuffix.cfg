CONSTANTS
    DirChoices <- MCDirsSuffix
    HashOrders <- MCOneOrder
    MaxCrashes = 0
    NoName = NoName
    None = None
SPECIFICATION Spec
INVARIANT NoClash
