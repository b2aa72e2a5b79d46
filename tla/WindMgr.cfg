SPECIFICATION Spec
CONSTANTS
    Objs = {o1, o2, o3, o4, o5}
    Null = Null
    MaxPages = 4
SYMMETRY Slots
INVARIANTS TypeOK PointersLive NothingInUseIsQueued SleeperIffScreenSaver QueuedHasTimer PopOwnerLive
