CONSTANTS
    Projects = {p1}
    Ids = {i1, i2}
    Conns = {c1}
    Limit = 2
    StorageFaults = FALSE
    NoConn = NoConn
SPECIFICATION ReadingSpec
PROPERTY ClientConverges
