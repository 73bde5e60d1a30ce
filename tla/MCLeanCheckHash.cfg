CONSTANTS
    silent = silent
    plain = plain
    worded = worded
    NoMode = NoMode
    Absent = Absent
    Checks <- RaceChecks
    Request <- RaceRequest
    Traces <- MCTraces
    Dirs <- MCDirs
    Modes <- MCModes
    BaseMode = "TraceSafe"
    ToolMode = "TraceSafeR"
    DeclaredMode <- MCDeclaredMode
    ToolUse <- MCToolUse
    BesideToolTrace <- MCToolUse
    ModeStatus <- MCModeStatus
    AllowedIssuance <- MCModes
    Admissible <- MCAll
    Generable <- MCAll
    Certifiable <- MCAll
    Provable <- MCAll
    RequiredTheorems <- MCGenerated
    GeneratedTheorems <- MCGenerated
    ReleaseTheorems <- MCReleaseTheorems
    ForbiddenWord = {}
    LakeTimeout = TRUE

SPECIFICATION Spec

INVARIANT HashIsOfCompiledProof
