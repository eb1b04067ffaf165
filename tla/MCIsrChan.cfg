CONSTANTS
    a = a  b = b
    NoToken = NoToken
    Token <- MCToken
    MaxPost = 3
    MaxCall = 3
SPECIFICATION FairSpec
INVARIANTS TypeOK NeverInvents CoalescingKeepsToken
PROPERTIES ImplementsChannel PolledGetReturns
\* the foreground stops when its calls are used up or it waits for a post
CHECK_DEADLOCK FALSE
