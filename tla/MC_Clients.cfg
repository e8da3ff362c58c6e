\* Each client program runs once; a finished client stops.
CONSTANTS
    Clients <- MC_Clients
SPECIFICATION Spec
CHECK_DEADLOCK FALSE
INVARIANTS
    TypeOK
