CONSTANTS
    Runners = {r1, r2}
    Closers = {c1, c2}
SPECIFICATION FairSpec
CHECK_DEADLOCK FALSE
INVARIANT RunCapturesResult
