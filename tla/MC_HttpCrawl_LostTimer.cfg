CONSTANTS
    w1 = w1
    w2 = w2
    None = None
    Workers <- MC_Workers
    NumHosts <- MC_NumHosts
SPECIFICATION Spec
CHECK_DEADLOCK FALSE
PROPERTIES
    EveryHostReported
