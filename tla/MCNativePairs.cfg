CONSTANTS
    Pool <- MCPool
    Cap <- MCCap
    Thread <- MCThread
    Scenario <- MCPairs
SPECIFICATION FairSpec
PROPERTIES EveryForkJoins
CHECK_DEADLOCK FALSE
