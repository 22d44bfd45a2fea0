SPECIFICATION FairSpec
CONSTANTS
    Ifaces = {"eth", "tun"}
    Physical = {"eth"}
    NicStates <- MCNicStates
    MaxTurns = 2
    None = None
    Checks = {"c1", "c2"}
    Workloads <- MCWorkloads
    V4 = {"a4", "b4"}
    V6 = {"c6"}
    Literal = "a4"
    Answers <- MCAnswers
    Ports = {1}
    Tries = 2
INVARIANTS TypeOK ReportedIsProbed XrayIsKeptInHand
PROPERTIES LostInterfaceIsNamed CheckEnds
