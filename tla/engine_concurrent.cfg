\* Overlapping invocations with executor failures: whatever the
\* interleaving, sessions.json names only sessions the executor created.
CONSTANTS
    p1 = p1
    p2 = p2
    p3 = p3
    Procs = {p1, p2}
    NNames = 2
    ExecFaults = TRUE
    Concurrent = TRUE
SPECIFICATION Spec
SYMMETRY Symmetry
INVARIANT TypeOK
INVARIANT TrackedSessionsExist
\* Every invocation eventually exits; a state where all have exited is final.
CHECK_DEADLOCK FALSE
