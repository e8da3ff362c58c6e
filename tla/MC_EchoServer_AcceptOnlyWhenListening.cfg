CONSTANTS
    Styles <- MC_Styles
SPECIFICATION Spec
CHECK_DEADLOCK FALSE
INVARIANTS
    AcceptOnlyWhenListening
