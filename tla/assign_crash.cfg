\* One invocation, one name, a healthy executor, no concurrency: the
\* plainest `assign` there is.
CONSTANTS
    p1 = p1
    p2 = p2
    p3 = p3
    Procs = {p1}
    NNames = 1
    ExecFaults = FALSE
    Concurrent = FALSE
SPECIFICATION Spec
INVARIANT RunningOnlyIfUnfinished
CHECK_DEADLOCK FALSE
