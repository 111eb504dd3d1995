SPECIFICATION PerceptionSpec
CONSTANTS
    v1 = v1
    v2 = v2
    d1 = d1
    d2 = d2
    Vcpus = {v1, v2}
    Domains = {d1, d2}
    Dom <- MCDom
    Plain = {v2}
    NrViews = 2
INVARIANT TruthfulReport
