\* Two overlapping upsert_session calls: one record is lost.
CONSTANTS
    p1 = p1
    p2 = p2
    p3 = p3
    Procs = {p1, p2}
    NNames = 2
    ExecFaults = FALSE
    Concurrent = TRUE
SPECIFICATION Spec
SYMMETRY Symmetry
PROPERTY SessionsRefineRegistry
CHECK_DEADLOCK FALSE
