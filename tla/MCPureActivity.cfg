CONSTANTS
    Pool <- MCPool
    Cap <- MCCap
    Thread <- MCThread
    Chan <- MCChan
    Scenario <- MCScenario
SPECIFICATION FairSpec
INVARIANTS TypeOK CountsExact FeasibleGranted StreamedNeverStuck
PROPERTIES ImplementsAllocator StreamedForkJoins
\* the fork stops at its join, or with a null handle error
CHECK_DEADLOCK FALSE
