CONSTANTS
    w1 = w1
    w2 = w2
    None = None
    Workers <- MC_Workers
    NumHosts <- MC_NumHosts
SPECIFICATION Spec
\* the program ends once it has printed the report (and stops making
\* progress when a worker hangs)
CHECK_DEADLOCK FALSE
INVARIANTS
    TypeOK
    EveryHostAccountedOnce
    ReportCompleteWhenPrinted
PROPERTIES
    InFlightWithTimerFinishes
