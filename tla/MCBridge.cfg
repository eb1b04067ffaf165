CONSTANTS
    b1 = b1  b2 = b2  b3 = b3
    Branch <- MCBranch
    Calls = 2
    Starts <- MCStarts
SPECIFICATION FairSpec
INVARIANTS TypeOK BlockedIffRequested ExitIsClean EachDispatchedOnce
PROPERTIES ConcurrentImportsReturn
\* the action ends; on some simulators it also hangs
CHECK_DEADLOCK FALSE
