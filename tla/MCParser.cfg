SPECIFICATION FairSpec
CONSTANTS
    Unreadable = Unreadable
    NoExtends = NoExtends
    Files <- MCFiles
    Disks <- MCDisks
    ComposeFiles <- MCComposeFiles
    ProjectDir = "project"
    EnvFiles <- MCEnvFiles
    EnvText <- MCEnvText
    OSEnv <- MCOSEnv
    References <- MCReferences
    Join <- MCJoin
    Dir <- MCDir
    Limit = 2
INVARIANT ParseIsReference
PROPERTY ParseEnds
