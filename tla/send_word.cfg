\* send with an ordinary shell command, one invocation.
CONSTANTS
    p1 = p1
    p2 = p2
    p3 = p3
    Procs = {p1}
    NNames = 1
    ExecFaults = FALSE
    Concurrent = FALSE
SPECIFICATION Spec
SYMMETRY Symmetry
INVARIANT SendDispatches
CHECK_DEADLOCK FALSE
