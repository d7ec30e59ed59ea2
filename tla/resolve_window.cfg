CONSTANTS
    Projects = {p1}
    Ids = {i1, i2, i3}
    Conns = {c1}
    Limit = 2
    StorageFaults = FALSE
    NoConn = NoConn
SPECIFICATION Spec
SYMMETRY Symmetry
INVARIANT QueuedItemsResolvable
