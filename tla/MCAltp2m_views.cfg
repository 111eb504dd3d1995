SPECIFICATION Altp2mFairSpec
CONSTANTS
    NrVcpus = 2
    NrTools = 1
    MaxAltp2m = 2
    MaxOps = 2
    MaxDisorder = 1
INVARIANTS Altp2mTypeOK ActiveCount NoStaleView HandlerSeesView InactiveMeansHost
PROPERTY OpsEnd
