SPECIFICATION FilterSpec
CONSTANTS
    EventIds <- MCEventIds
    Numbers <- MCNumbers
    MaxArgs = 3
INVARIANTS FilterTypeOK MaskAsAsked VmfuncAlone
