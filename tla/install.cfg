SPECIFICATION FairSpec
CONSTANTS
    Dirs = {"safe", "downloads", "tools"}
    Safe = "safe"
    Origins = {"downloads"}
    Risky = {"downloads"}
    Writable = {"safe", "tools"}
    Names = {"agent", "renamed"}
    Platforms = {"windows", "darwin"}
    Settings = {"site"}
    MaxVersion = 2
    MaxDrops = 1
    MaxBreaks = 1
INVARIANTS
    TypeOK
    ServiceOutOfRiskyDirs
PROPERTIES
    NoSecondInstall
    ClearUpdateReplaces
    CommandEnds
CHECK_DEADLOCK FALSE
