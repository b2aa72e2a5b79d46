\* The tea tab, used at the machine.
SPECIFICATION Spec
CONSTANTS
    Groups = {"ESPRESSO", "AMERICANO", "TEA"}
    Faults = {"E06", "A01"}
    Remote = {}
\* A handler that never returns is the end of the program: a LOST state has no successor.
CHECK_DEADLOCK FALSE
INVARIANTS ButtonsMatch Usable
PROPERTIES DoneStaysDone CountedWhenDone
