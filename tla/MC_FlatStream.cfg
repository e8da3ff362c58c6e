CONSTANTS
    Limit <- MC_Limit
    InPlaceSegs <- MC_InPlaceSegs
    MaxSegs <- MC_MaxSegs
    MaxSegLen <- MC_MaxSegLen
SPECIFICATION Spec
INVARIANTS
    TypeOK
    ReportedBytesArePrefix
    WriteWithinLimit
PROPERTIES
    ImplementsWholeWrite
