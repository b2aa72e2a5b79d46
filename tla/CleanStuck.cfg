\* A tank that is empty for a while.
SPECIFICATION Spec
CONSTANTS
    Warnings = {"A01", "A02"}
    Cloud = {}
    MaxClosing = 2
INVARIANTS BusyIsCleaning
