CONSTANTS
    Pool <- MCPool
    Cap <- MCCap
    Thread <- MCThread
    Scenario <- MCScenario
SPECIFICATION FairSpec
INVARIANTS TypeOK SharesCovered WrappedAtomicSerial ForkNeverStuck
PROPERTIES ImplementsAllocator OrderedForkJoins
\* the fork stops at its join; actions that lock a pair may also stop earlier
CHECK_DEADLOCK FALSE
