\* The caller may call ping() while asynchronous operations are outstanding.
CONSTANTS
    None = None
    Issued <- MC_Issued
    SyncPingAnytime = TRUE
SPECIFICATION Spec
INVARIANTS
    OneFrameOnTheWire
