\* Two clients, two projects; fairness only for the poll task, as the code
\* guarantees it: a client that stops reading holds the tick in drain().
CONSTANTS
    Projects = {p1, p2}
    Ids = {i1, i2, i3}
    Conns = {c1, c2}
    Limit = 2
    StorageFaults = TRUE
    NoConn = NoConn
SPECIFICATION FairSpec
PROPERTY KnownConverges
