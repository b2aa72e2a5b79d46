\* The four coffee tabs, used at the machine.
SPECIFICATION Spec
CONSTANTS
    Groups = {"ESPRESSO", "AMERICANO", "MASTER", "HANDWASH"}
    Faults = {"E06", "A01"}
    Remote = {}
INVARIANTS TypeOK ButtonsMatch Usable NotLost
PROPERTIES DoneStaysDone FaultStops NoStartWhenWarned CountedWhenDone ConfirmStops
