CONSTANTS
    Names = {"X", "LOG"}
    Strings <- MCStrings
    LogLevel = "LOG"
    Levels <- MCLevels
    YmlFiles = {}
    Files <- MCFiles
    MaxHops = 0
    Jobs = {"job", "other"}
    Roots <- MCRoots
    Exports <- MCExports
    OutputFiles <- MCOutputFiles
    RequestEnvs <- MCRequestEnvs
    JobVars <- MCJobVars
    BuildDir <- MCBuildDir
    ProcessVars <- MCProcessVars
SPECIFICATION FairSpec
CHECK_DEADLOCK FALSE
INVARIANTS
    EnvHasASource
    LaterStepsSeeExports
PROPERTIES
    SequencesAreAllOrNothing
    JobsGetAResult
    CancelledJobsEnd
