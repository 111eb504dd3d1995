SPECIFICATION Altp2mSpec
CONSTANTS
    NrVcpus = 2
    NrTools = 1
    MaxAltp2m = 2
    MaxOps = 1
    MaxDisorder = 1
INVARIANT EptpFound
