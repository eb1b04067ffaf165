CONSTANTS
    t1 = t1  t2 = t2  t3 = t3
    a = a  b = b
    NoToken = NoToken
    Task <- MCTask
    Token <- MCToken
    MaxSent = 3
SPECIFICATION FairSpec
INVARIANTS TypeOK NoLostWakeup
PROPERTIES ImplementsChannel WaitersServed
\* a system whose tasks all wait, and whose environment posts no more, stops
CHECK_DEADLOCK FALSE
