\* assign on a project that is not initialised, one invocation at a time.
CONSTANTS
    p1 = p1
    p2 = p2
    p3 = p3
    Procs = {p1, p2}
    NNames = 2
    ExecFaults = FALSE
    Concurrent = FALSE
SPECIFICATION Spec
SYMMETRY Symmetry
INVARIANT NoOrphanSessions
CHECK_DEADLOCK FALSE
