\* The two workers of main.cc, the check of the network and other tasks, in batches of two.
SPECIFICATION NetSpec
CONSTANTS
    Cells = {c1, c2, c3}
    Workers = {w1, w2}
    None = None
    Batch = 2
    MaxFails = 3
INVARIANTS NetTypeOK OneHolder OneCheck
PROPERTIES NoticesLoss NoticesReturn Served KeepsBoard
