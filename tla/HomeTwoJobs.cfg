\* A brew command while the machine works.
SPECIFICATION Spec
CONSTANTS
    Groups = {"ESPRESSO", "AMERICANO", "TEA"}
    Faults = {}
    Remote = {"EXT"}
\* A handler that never returns is the end of the program.
CHECK_DEADLOCK FALSE
INVARIANTS OneJob
