CONSTANTS
    MaxActivation <- MC_MaxActivation
    MaxNotify <- MC_MaxNotify

SPECIFICATION Spec
INVARIANTS
    ClosedTriggerStaysSilent
CHECK_DEADLOCK FALSE
