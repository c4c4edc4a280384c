SPECIFICATION Spec
CONSTANTS
    Dirs <- MCDirs
    Root = 0
    Nowhere = 9
    Layouts <- MCLayouts
    Ignored = {4}
    Ino <- MCIno
    Files <- MCFiles
    ComposeNames = {"compose.override.yml", "compose.yml", "docker-compose.yml"}
    Overrides = {"compose.override.yml"}
    MaxDepth = 2
INVARIANTS NothingMissed DepthIsExact ScannerInv
