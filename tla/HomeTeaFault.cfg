\* A fault while tea is brewed.
SPECIFICATION Spec
CONSTANTS
    Groups = {"ESPRESSO", "AMERICANO", "TEA"}
    Faults = {"E06"}
    Remote = {}
\* A handler that never returns is the end of the program.
CHECK_DEADLOCK FALSE
PROPERTIES FaultStops
