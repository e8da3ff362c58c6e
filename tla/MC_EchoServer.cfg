\* The three echo servers; the program may stop serving once every
\* listener has stopped and every session has ended.
CONSTANTS
    Styles <- MC_Styles
SPECIFICATION Spec
CHECK_DEADLOCK FALSE
INVARIANTS
    TypeOK
PROPERTIES
    SessionEnds
