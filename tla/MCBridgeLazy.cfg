CONSTANTS
    b1 = b1  b2 = b2  b3 = b3
    Branch <- MCTwo
    Calls = 1
    Starts <- MCLazy
SPECIFICATION FairSpec
PROPERTIES EveryActionReturns
\* the action ends; on some simulators it also hangs
CHECK_DEADLOCK FALSE
