\* Three connections over two descriptors, so that a number is used again.
CONSTANTS
    NConn = 3
    MaxFd = 2
    ThreadLimits = {2, 3}
    MaxRequests = 1
SPECIFICATION Spec
\* Connections run out: the system stops.
CHECK_DEADLOCK FALSE
INVARIANTS TypeOK OwnConnection ResponsesReturn
PROPERTIES EndsAtLimitOrRequest EveryRequestAnswered ClosedIsReleased
