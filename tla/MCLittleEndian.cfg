SPECIFICATION Spec
CONSTANTS
    Base = 4
    AccBytes = 4
    MaxFilters = 2
    MaxStructs = 16
    SizeLimit = 256
    Files <- MCLittle
    Packets <- MCPackets
    Probes <- MCProbes
    MaxPackets = 2
    MaxCaptures = 3
INVARIANT LittleEndianRead
CHECK_DEADLOCK FALSE
