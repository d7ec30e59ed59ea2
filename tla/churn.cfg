\* Three clients, three ids, one project; store reads may fail.  Clients
\* connect and leave during ticks, so broadcasts abort and iterators are
\* rewritten under the loop: type, no re-added item, and the store as the
\* abstract attention queue.
CONSTANTS
    Projects = {p1}
    Ids = {i1, i2, i3}
    Conns = {c1, c2, c3}
    Limit = 2
    StorageFaults = TRUE
    NoConn = NoConn
SPECIFICATION Spec
SYMMETRY Symmetry
INVARIANT TypeOK
INVARIANT NoReAdd
PROPERTY StoreRefinesQueue
