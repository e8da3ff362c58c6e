\* The caller uses ping() only when no asynchronous operation is outstanding.
CONSTANTS
    None = None
    Issued <- MC_Issued
    SyncPingAnytime = FALSE
SPECIFICATION Spec
INVARIANTS
    TypeOK
    LockOwnership
    NoStrandedPause
    CloseFrameIsLast
PROPERTIES
    ControlOpsComplete
