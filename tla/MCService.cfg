CONSTANTS
    a = a
    Ids = {a}
    Runs = {r1, r2}
    Closes = {c1, c2}
    Follows = {}
    None = None
    IdOf <- MCIdOf
SPECIFICATION FairSpec
CHECK_DEADLOCK FALSE
INVARIANTS
    RunningJobsAreRegistered
    RunningJobsHaveDir
    ClosedJobsAreGone
    DirsCanBeRemoved
PROPERTIES
    CallsReturn
