CONSTANTS
    DirChoices <- MCDirs
    HashOrders <- MCOneOrder
    MaxCrashes = 1
    NoName = NoName
    None = None
SPECIFICATION Spec
INVARIANT TypeOK
INVARIANT NoClash
INVARIANT BindingPreserved
