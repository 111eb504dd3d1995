SPECIFICATION Spec
CONSTANTS
    short = short
    long = long
    NrCpus = 1
    DataSize = 5
    LostRecSize = 2
    Events = {short, long}
    EvtMasks <- MCEvtMasks
    CpuMasks <- MCCpuMasks
    RecSize <- MCRecSize
    MaxLost = 2
    MaxNested = 1
INVARIANTS TypeOK NoOverrun PanicOnlyIfOvertaken
PROPERTIES NoStraddle NoRecordAfterDisable LossesAnnounced
