SPECIFICATION FairSpec
CONSTANTS
    vmfunc = vmfunc
    Events = {vmfunc}
    NrCpus = 1
    DataSize = 5
    LostRecSize = 2
    EvtMasks <- MCEvtMasks
    CpuMasks <- MCCpuMasks
    RecSize <- MCRecSize
    MaxLost = 1
    MaxNested = 0
    Discard = TRUE
    MaxRuns = 2
INVARIANTS XTypeOK WindowWritten DrainedAtExit
PROPERTIES RecordsSaved LegalConsumer RecordsRead SignalEndsDaemon
