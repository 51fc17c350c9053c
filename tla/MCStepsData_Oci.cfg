CONSTANTS
    Names = {"LOG", "X", "CI_SECRET", "PATH"}
    Strings <- MCStrings
    LogLevel = "LOG"
    Levels <- MCLevels
    YmlFiles = {"show.yml"}
    Files <- MCFiles
    MaxHops = 2
    Jobs = {"job"}
    Roots <- MCOciRoots
    Exports <- MCExports
    OutputFiles <- MCOutputFiles
    RequestEnvs <- MCRequestEnvs
    JobVars <- MCJobVars
    BuildDir <- MCBuildDir
    ProcessVars <- MCProcessVars
    RunOptions <- MCRunOptions
    CiSteps <- MCCiSteps
    ExcludedNames = {"CI_SECRET"}
    KnownNames = {"PATH"}
    JobVarNames = {"CI_SECRET"}
    YamlKind <- MCYamlKind
SPECIFICATION CommandSpec
CHECK_DEADLOCK FALSE
INVARIANT ScopedExpressionsResolve
