\* Callers keep issuing close and ping on a closed or failed stream.
CONSTANTS
    None = None
    Issued <- MC_Issued
    SyncPingAnytime = FALSE
SPECIFICATION Spec
PROPERTIES
    PausedAbortedOnFailure
