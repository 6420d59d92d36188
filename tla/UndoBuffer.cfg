SPECIFICATION Spec
CONSTANTS
    Types = {"Localization", "State"}
    Seeds = 1
    MaxActs = 5
    MaxHasty = 3
    MaxRequests = 2
    MaxFaults = 1
    MaxOthers = 1
INVARIANTS
    TypeOK
    OnlyOwnPruned
    UndoIsExact
    ShownIsCurrent
    EditingComesBack
CHECK_DEADLOCK FALSE
