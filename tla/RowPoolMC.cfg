\* The row pool under every interleaving, with fork ids that wrap around.
SPECIFICATION FairSpec
CONSTANTS
    w1 = w1
    w2 = w2
    Main = main
    Workers <- MCWorkers
    MaxRows = 2
    ForkIds = 2
    MaxTriangles = 3
INVARIANTS
    TypeOK
    JobFrozen
    NoMissedWake
PROPERTIES
    JoinEnds
    ImplementsSerial
\* The bound on the triangles stops the main thread.
CHECK_DEADLOCK FALSE
