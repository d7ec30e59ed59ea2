\* One invocation at a time (the single-writer use the design assumes),
\* with executor failures: the session map behaves as an atomic registry.
CONSTANTS
    p1 = p1
    p2 = p2
    p3 = p3
    Procs = {p1, p2, p3}
    NNames = 3
    ExecFaults = TRUE
    Concurrent = FALSE
SPECIFICATION Spec
SYMMETRY Symmetry
PROPERTY SessionsRefineRegistry
\* Every invocation eventually exits; a state where all have exited is final.
CHECK_DEADLOCK FALSE
