SPECIFICATION Spec
CONSTANTS
    Dirs = {"safe", "downloads", "tools"}
    Safe = "safe"
    Origins = {"downloads"}
    Risky = {"downloads"}
    Writable = {"safe", "tools"}
    Names = {"agent", "renamed"}
    Platforms = {"linux"}
    Settings = {"site"}
    MaxVersion = 2
    MaxDrops = 1
    MaxBreaks = 1
PROPERTIES
    LoneProgramIsReplaced
CHECK_DEADLOCK FALSE
