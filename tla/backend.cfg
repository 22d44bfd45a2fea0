SPECIFICATION FairSpec
CONSTANTS
    Accounts = {"acme"}
    Keys = {"key"}
    Nodes = {"n1"}
    Virtual = "server"
    Tagged = {"n1"}
    Instances = {"i1", "i2"}
    Last = 2
    Requests = {"r1"}
    MaxCrashes = 1
INVARIANTS TypeOK ServingMeansReady
PROPERTIES LostRaceIsHarmless BlockedStaysOut AllServe EveryRunSettles
