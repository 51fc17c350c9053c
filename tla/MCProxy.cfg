SPECIFICATION Spec
CONSTANTS
    Proxies = {p1}
    MaxRequests = 4
    MaxBuffer = 2
INVARIANT RepliesAreDelivered
 
CHECK_DEADLOCK FALSE
