SPECIFICATION FairSpec
CONSTANTS
    MaxHeight = 4
    MaxTime = 5
CHECK_DEADLOCK FALSE
PROPERTY
    SearchReturns
