CONSTANTS
    Projects = {p1}
    Ids = {i1, i2}
    Conns = {c1, c2}
    Limit = 2
    StorageFaults = TRUE
    NoConn = NoConn
SPECIFICATION Spec
SYMMETRY Symmetry
INVARIANT RegistryTracksHandlers
