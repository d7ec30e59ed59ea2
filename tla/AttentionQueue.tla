--------------------------- MODULE AttentionQueue ---------------------------
(***************************************************************************)
(* What the context store promises the queue server: a set of queued ids  *)
(* and a set of retired ids, each id taken once.  A fresh id either joins  *)
(* the queue (an attention entry) or is retired at once (any other entry); *)
(* resolving an id that is known takes it out of the queue for good and    *)
(* retires the id of the resolution note with it.  Nothing else ever       *)
(* changes the two sets; in particular a retired id never returns.         *)
(***************************************************************************)
CONSTANTS Ids

VARIABLES queue, retired

Known == queue \cup retired

Init == queue = {} /\ retired = {}

\* A fresh attention entry is appended: its id joins the queue.
Enqueue(x) ==
    /\ x \in Ids \ Known
    /\ queue' = queue \cup {x}
    /\ UNCHANGED retired

\* A fresh entry that needs no attention is appended.
Record(x) ==
    /\ x \in Ids \ Known
    /\ retired' = retired \cup {x}
    /\ UNCHANGED queue

\* A known id is resolved, with a resolution note under the fresh id n.
Resolve(x, n) ==
    /\ x \in Known
    /\ n \in Ids \ Known
    /\ queue' = queue \ {x}
    /\ retired' = retired \cup {x, n}

Next ==
    \/ \E x \in Ids : Enqueue(x) \/ Record(x)
    \/ \E x, n \in Ids : Resolve(x, n)

Spec == Init /\ [][Next]_<<queue, retired>>
=============================================================================
