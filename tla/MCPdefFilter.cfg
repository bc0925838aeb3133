SPECIFICATION Spec
CONSTANTS
    Base = 4
    AccBytes = 4
    MaxFilters = 2
    MaxStructs = 16
    SizeLimit = 256
    Files <- MCFiles
    Packets <- MCPackets
    Probes <- MCProbes
    MaxPackets = 2
    MaxCaptures = 3
INVARIANTS
    TypeOK
    LayoutExact
    CodeMeansConditions
    VerdictExact
    OneEndianPerCapture
    WritebackKeepsVerdicts
CHECK_DEADLOCK FALSE
