SPECIFICATION Spec
CONSTANTS
    None = None
    c1 = c1
    c2 = c2
    n1 = n1
    n2 = n2
    r1 = r1
    r2 = r2
    r3 = r3
    h1 = h1
    h2 = h2
    h3 = h3
    w1 = w1
    w2 = w2
    Handlers = {h1, h2}
    Sweepers = {w1}
    Checks = {c1}
    Runs = {r1, r2}
    Nodes = {n1, n2}
    CheckOf <- PairChecks
    NodeOf <- PairNodes
    PollLimit = 2
    MaxFaults = 0
    MaxCancels = 0
INVARIANTS
    VerdictFollowsRuns
CHECK_DEADLOCK FALSE
