SPECIFICATION PerceptionFairSpec
CONSTANTS
    v1 = v1
    v2 = v2
    d1 = d1
    d2 = d2
    Vcpus = {v1, v2}
    Domains = {d1, d2}
    Dom <- MCDom
    Plain = {}
    NrViews = 2
INVARIANTS PerceptionTypeOK OnlyVisited
PROPERTY PerceptionSettles
