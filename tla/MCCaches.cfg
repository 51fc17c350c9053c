CONSTANTS
    Calls = {"g1", "g2", "g3"}
    ProcessOf <- MCProcessOf
    VersionOf <- MCVersionOf
    Names = {"main", "v1"}
    Commits = {"c1", "c2"}
    Tags <- MCTags
    Branches <- MCBranches
    MaxCrashes = 1
    Fetches = {"f1", "f2", "f3"}
    StepOf <- MCStepOf
    Distributed = {"script"}
SPECIFICATION Spec
CHECK_DEADLOCK FALSE
INVARIANTS
    StepDirsAreWhole
    GetReturnsTheVersion
PROPERTIES
    FetchedStepsAreWhole
