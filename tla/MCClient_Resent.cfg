CONSTANTS
    a = a
    r1 = r1
    r2 = r2
    f1 = f1
    f2 = f2
    c1 = c1
    c2 = c2
    Ids = {a}
    Runs = {r1, r2}
    Follows = {f1, f2}
    Closes = {c1, c2, c3}
    None = None
    FollowOf <- MCFollowOf
    CloseOf <- MCCloseOf
    IdOf <- MCIdOf
    Before <- MCBefore
SPECIFICATION ClientSpec
CHECK_DEADLOCK FALSE
INVARIANT ReturnedClientsHaveClosed
