\* Coffee with the cloud and the assistant, cleaning commands and the clean reminder.
SPECIFICATION Spec
CONSTANTS
    Groups = {"ESPRESSO", "AMERICANO"}
    Faults = {"E06", "A02"}
    Remote = {"GRIND", "EXT", "STOP", "AI", "CLEAN"}
\* A handler that never returns is the end of the program: a LOST state has no successor.
CHECK_DEADLOCK FALSE
INVARIANTS OneJob
PROPERTIES NoStartWhenWarned SnoozeKept
