SPECIFICATION TablesFairSpec
CONSTANTS
    NrGfns = 2
    Mfns = {m1, m2}
    VCPUs = {v1}
    MaxAltp2m = 2
    MaxOps = 4
    MaxChanges = 2
CHECK_DEADLOCK FALSE
PROPERTY SpecialsKept
