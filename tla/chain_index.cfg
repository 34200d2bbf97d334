SPECIFICATION Spec
CONSTANTS
    MaxHeight = 40
    ForkHeight = 13
CHECK_DEADLOCK FALSE
INVARIANTS
    AncestorsRight
    ForksRight
    LocatorFindsFork
