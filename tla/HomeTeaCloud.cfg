\* Tea with the brew commands of the cloud, and heating again.
SPECIFICATION Spec
CONSTANTS
    Groups = {"ESPRESSO", "AMERICANO", "TEA"}
    Faults = {}
    Remote = {"EXT", "REHEAT"}
INVARIANTS NeverGrindIntoWater
