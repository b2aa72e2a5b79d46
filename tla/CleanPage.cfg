\* Every kind of warning but pressure, every command.
SPECIFICATION Spec
CONSTANTS
    Warnings = {"A01", "A02", "FAULT"}
    Cloud = {"PIPE", "CAL", "CAL_SECOND"}
    MaxClosing = 2
INVARIANTS TypeOK TwoRounds ToldHasBit
PROPERTIES FramesStartNothing
