SPECIFICATION Spec
CONSTANTS
    Builds = {b1, b2}
    Promotions = {p1, p2}
    Fetches = {f1}
    Sources <- MCSources
    Rank <- MCRank
    BuildInputs <- MCBuildInputs
    PromoteInputs <- MCPromoteInputs
    FetchInputs <- MCFetchInputs
    Published <- MCPublished
    Private <- MCPrivate
    DockerAuth <- MCDockerAuth
    MaxFaults = 1
SYMMETRY Symmetry
INVARIANT FetchedFilesAreReleased
PROPERTY ReleasesAreKept
PROPERTY MovingTagsAdvance
CHECK_DEADLOCK FALSE
