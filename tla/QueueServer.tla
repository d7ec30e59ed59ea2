---------------------------- MODULE QueueServer ----------------------------
(***************************************************************************)
(* The orchestrator's queue server (src/orchestrator/server.py) together   *)
(* with the part of the context store it reads and writes                  *)
(* (src/orchestrator/store.py).                                            *)
(*                                                                         *)
(* One asyncio event loop runs three kinds of coroutine:                   *)
(*   - the poll task _poll_queue, which every tick derives the attention   *)
(*     queue, diffs it against _known_queue_ids and broadcasts             *)
(*     queue_add / queue_remove messages to every registered WebSocket;    *)
(*   - one _handle_ws_upgrade coroutine per WebSocket client, which        *)
(*     registers the connection, sends a queue_snapshot, then reads        *)
(*     frames until the peer goes away;                                    *)
(*   - one _handle_http coroutine per REST request; POST                   *)
(*     /queue/{id}/resolve is the only one that changes state.             *)
(* Other processes (the orchestrator CLI, agents) append to the event     *)
(* logs on disk at any time.                                               *)
(*                                                                         *)
(* Cooperative scheduling is modelled exactly: a coroutine runs without    *)
(* interruption from one await that really suspends to the next.  The      *)
(* poll task's broadcast loop is split into micro-steps; while it is       *)
(* running (not suspended in writer.drain()) no other coroutine of the     *)
(* loop may take a step.                                                   *)
(*                                                                         *)
(* Data is abstracted to what the properties distinguish: an entry is its  *)
(* id and whether the attention predicate holds for it (kind is error or   *)
(* approval_needed, or human_attention_needed is set); a message is its    *)
(* type and the ids it carries.                                            *)
(***************************************************************************)
EXTENDS Naturals, Sequences, FiniteSets

CONSTANTS
    Projects,      \* project directories under <state_dir>/projects
    Ids,           \* entry ids (uuid4 values); every entry takes a fresh one
    Conns,         \* WebSocket connection objects; each is accepted once
    Limit,         \* the limit=1000 that _resolve_entry passes to get_events
    StorageFaults, \* whether store.get_queue() may raise (torn or unreadable log)
    NoConn         \* "the poll task is not suspended on any connection"

ASSUME LimitAssumption == Limit \in Nat \ {0}
ASSUME StorageFaultsAssumption == StorageFaults \in BOOLEAN
ASSUME NoConnAssumption == NoConn \notin Conns

VARIABLES
    log,             \* log[p]: the entries of projects/p/events.jsonl, in order
    resolved,        \* resolved[p]: the persisted resolved-id set of project p
    known_queue_ids, \* QueueServer._known_queue_ids
    ws_clients,      \* QueueServer.ws_clients, the connection registry
    handler,         \* handler[c]: where c's _handle_ws_upgrade coroutine is
    closed,          \* closed[c]: WebSocketConnection.closed
    view,            \* view[c]: the queue ids client c displays
    removedIds,      \* removedIds[c]: ids client c was sent queue_remove for
    pc,              \* the poll task: "sleep" (in asyncio.sleep) or "bcast"
    current_ids,     \* the current_ids of the tick in progress
    pendingAdd,      \* ids of this tick whose queue_add is not yet broadcast
    pendingRemove,   \* ids of this tick whose queue_remove is not yet broadcast
    msg,             \* the message _broadcast is sending
    iterSet,         \* the registry as the running set iterator last saw it
    todo,            \* the registered clients the iterator has still to visit
    waiting          \* the client whose writer.drain() suspended the poll task

storeVars == <<log, resolved>>
connVars == <<ws_clients, handler, closed, view, removedIds>>
pollVars == <<known_queue_ids, pc, current_ids, pendingAdd, pendingRemove,
              msg, iterSet, todo, waiting>>
vars == <<storeVars, connVars, pollVars>>

Entry == [id : Ids, attn : BOOLEAN]
Msg == [type : {"snapshot", "add", "remove"}, ids : SUBSET Ids]
HandlerState == {"idle", "handshake", "open", "gone"}

Snapshot(S) == [type |-> "snapshot", ids |-> S]
AddMsg(x) == [type |-> "add", ids |-> {x}]
RemoveMsg(x) == [type |-> "remove", ids |-> {x}]
NoMsg == [type |-> "remove", ids |-> {}]

-----------------------------------------------------------------------------
(* The store.                                                              *)

\* The ids of the entries of project p's log.
LogIds(p) == {log[p][k].id : k \in DOMAIN log[p]}

\* Every id some log holds; a new entry takes an id outside this set.
UsedIds == UNION {LogIds(p) : p \in Projects}
FreeIds == Ids \ UsedIds

\* store.get_queue(): the attention entries of every project that are not
\* in that project's resolved-id set.
QueueIds ==
    UNION {{log[p][k].id : k \in {k \in DOMAIN log[p] :
                                      /\ log[p][k].attn
                                      /\ log[p][k].id \notin resolved[p]}}
           : p \in Projects}

\* The ids get_events(p, limit=Limit) returns: the last Limit entries.
RecentIds(p) ==
    {log[p][k].id : k \in {k \in DOMAIN log[p] : k > Len(log[p]) - Limit}}

-----------------------------------------------------------------------------
(* The event loop.                                                         *)

\* The poll task holds the loop: it is broadcasting and not suspended.
PollRunning == pc = "bcast" /\ waiting = NoConn

\* A client still connected: its handler is reading and closed is unset.
Live(c) == handler[c] = "open" /\ ~closed[c]

\* The client's transport is still up, so bytes written to it arrive.
TransportUp(c) == handler[c] \in {"handshake", "open"}

\* Client c applies message m: a snapshot replaces what it displays, an add
\* inserts the id, a remove deletes it.
Deliver(c, m) ==
    /\ view' = [view EXCEPT ![c] = CASE m.type = "snapshot" -> m.ids
                                     [] m.type = "add" -> @ \cup m.ids
                                     [] m.type = "remove" -> @ \ m.ids]
    /\ removedIds' = [removedIds EXCEPT ![c] =
                         IF m.type = "remove" THEN @ \cup m.ids ELSE @]

Init ==
    /\ log = [p \in Projects |-> <<>>]
    /\ resolved = [p \in Projects |-> {}]
    /\ known_queue_ids = {}
    /\ ws_clients = {}
    /\ handler = [c \in Conns |-> "idle"]
    /\ closed = [c \in Conns |-> FALSE]
    /\ view = [c \in Conns |-> {}]
    /\ removedIds = [c \in Conns |-> {}]
    /\ pc = "sleep"
    /\ current_ids = {}
    /\ pendingAdd = {}
    /\ pendingRemove = {}
    /\ msg = NoMsg
    /\ iterSet = {}
    /\ todo = {}
    /\ waiting = NoConn

-----------------------------------------------------------------------------
(* Writers outside the server process.                                     *)

\* ContextStore.append_entry: another process appends entry e to project p.
AppendEntry(p, e) ==
    /\ e.id \in FreeIds
    /\ log' = [log EXCEPT ![p] = Append(@, e)]
    /\ UNCHANGED <<resolved, connVars, pollVars>>

-----------------------------------------------------------------------------
(* POST /queue/{id}/resolve.                                               *)

\* Mutant: the resolution note is logged as an attention entry (it keeps the
\* kind of the entry it resolves instead of kind note).
ResolveInStoreAttnNote(p, id, noteId) ==
    /\ resolved' = [resolved EXCEPT ![p] = @ \cup {id}]
    /\ log' = [log EXCEPT ![p] = Append(@, [id |-> noteId, attn |-> TRUE])]

\* ContextStore.resolve_entry: record the id in the project's resolved-id
\* set and append the human resolution note (kind note, so not attention).
ResolveInStore(p, id, noteId) ==
    /\ resolved' = [resolved EXCEPT ![p] = @ \cup {id}]
    /\ log' = [log EXCEPT ![p] = Append(@, [id |-> noteId, attn |-> FALSE])]

\* QueueServer._resolve_entry: look for the id among the last Limit events
\* of each project; resolve it in the first project that has it, else 404.
ResolveEntry(id) ==
    /\ ~PollRunning
    /\ \/ \E p \in Projects, noteId \in FreeIds :
             /\ id \in RecentIds(p)
             /\ ResolveInStore(p, id, noteId)
       \/ /\ \A p \in Projects : id \notin RecentIds(p)
          /\ UNCHANGED storeVars
    /\ UNCHANGED <<connVars, pollVars>>

-----------------------------------------------------------------------------
(* The poll task _poll_queue.                                              *)

\* What the tick does once a message has gone to every client: start the
\* next _broadcast (queue_adds first, then queue_removes), with a fresh
\* iterator over ws_clients, or finish the tick by replacing the remembered
\* ids with the tick's current ids.
NextBroadcast(cur, adds, removes) ==
    \/ \E x \in adds :
         /\ msg' = AddMsg(x)
         /\ pendingAdd' = adds \ {x}
         /\ pendingRemove' = removes
         /\ pc' = "bcast" /\ iterSet' = ws_clients /\ todo' = ws_clients
         /\ UNCHANGED known_queue_ids
    \/ /\ adds = {}
       /\ \E x \in removes :
            /\ msg' = RemoveMsg(x)
            /\ pendingAdd' = {}
            /\ pendingRemove' = removes \ {x}
            /\ pc' = "bcast" /\ iterSet' = ws_clients /\ todo' = ws_clients
       /\ UNCHANGED known_queue_ids
    \/ /\ adds = {} /\ removes = {}
       /\ known_queue_ids' = cur
       /\ pc' = "sleep" /\ msg' = NoMsg /\ iterSet' = {} /\ todo' = {}
       /\ current_ids' = {}
       /\ pendingAdd' = {} /\ pendingRemove' = {}

\* Mutant: the tick remembers the queue's entries, not their ids
\* ("current_ids = set(current)" instead of "{e.id for e in current}").
QueueEntries ==
    UNION {{log[p][k] : k \in {k \in DOMAIN log[p] :
                                   /\ log[p][k].attn
                                   /\ log[p][k].id \notin resolved[p]}}
           : p \in Projects}
PollWakeEntries ==
    /\ pc = "sleep"
    /\ NextBroadcast(QueueEntries, QueueIds \ known_queue_ids,
                     known_queue_ids \ QueueIds)
    /\ current_ids' = IF pc' = "bcast" THEN QueueEntries ELSE {}
    /\ UNCHANGED <<storeVars, connVars, waiting>>

\* Mutant: the remove loop iterates the wrong difference
\* ("current_ids - self._known_queue_ids"), so new items are also removed.
PollWakeSwappedDiff ==
    /\ pc = "sleep"
    /\ NextBroadcast(QueueIds, QueueIds \ known_queue_ids,
                     QueueIds \ known_queue_ids)
    /\ current_ids' = IF pc' = "bcast" THEN QueueIds ELSE {}
    /\ UNCHANGED <<storeVars, connVars, waiting>>

\* The sleep ends and store.get_queue() succeeds: diff the queue against
\* the remembered ids and start broadcasting.
PollWake ==
    /\ pc = "sleep"
    /\ NextBroadcast(QueueIds, QueueIds \ known_queue_ids,
                     known_queue_ids \ QueueIds)
    /\ current_ids' = IF pc' = "bcast" THEN QueueIds ELSE {}
    /\ UNCHANGED <<storeVars, connVars, waiting>>

\* The sleep ends and store.get_queue() raises: "Poll error", next tick.
PollFail ==
    /\ StorageFaults
    /\ pc = "sleep"
    /\ UNCHANGED vars

\* The set iterator's next(): ws_clients changed size since the iterator
\* was created, so RuntimeError escapes _broadcast; the except clause of
\* _poll_queue prints it and the tick ends without updating
\* _known_queue_ids.
BroadcastAbort ==
    /\ PollRunning
    /\ Cardinality(ws_clients) # Cardinality(iterSet)
    /\ pc' = "sleep" /\ msg' = NoMsg /\ iterSet' = {} /\ todo' = {}
    /\ pendingAdd' = {} /\ pendingRemove' = {} /\ current_ids' = {}
    /\ UNCHANGED <<storeVars, connVars, known_queue_ids, waiting>>

\* next() when ws_clients has the same size but other members (one client
\* left and another registered while the loop was suspended): the set's
\* table has been rewritten under the iterator, which goes on from its old
\* position, so which clients it still visits is not determined.
BroadcastReshuffle ==
    /\ PollRunning
    /\ Cardinality(ws_clients) = Cardinality(iterSet)
    /\ ws_clients # iterSet
    /\ iterSet' = ws_clients
    /\ todo' \in SUBSET ws_clients
    /\ UNCHANGED <<storeVars, connVars, known_queue_ids, pc, current_ids,
                   pendingAdd, pendingRemove, msg, waiting>>

\* next() yields client c and _broadcast awaits client.send(msg).  A closed
\* client is skipped.  Otherwise ws_write_frame writes the frame and awaits
\* drain(), which returns at once, suspends the task, or raises (then send
\* sets closed).  A frame written to a dead transport is lost.
BroadcastSend ==
    /\ PollRunning
    /\ ws_clients = iterSet
    /\ \E c \in todo :
         /\ todo' = todo \ {c}
         /\ \/ /\ closed[c]
               /\ UNCHANGED <<view, removedIds, closed, waiting>>
            \/ /\ ~closed[c]
               /\ \/ /\ TransportUp(c)
                     /\ Deliver(c, msg)
                     /\ UNCHANGED <<closed, waiting>>
                  \/ /\ waiting' = c
                     /\ UNCHANGED <<view, removedIds, closed>>
                  \/ /\ closed' = [closed EXCEPT ![c] = TRUE]
                     /\ UNCHANGED <<view, removedIds, waiting>>
    /\ UNCHANGED <<storeVars, ws_clients, handler, known_queue_ids, pc,
                   current_ids, pendingAdd, pendingRemove, msg, iterSet>>

\* The iterator is exhausted: _broadcast drops the (always empty) dead set
\* and the tick goes on with its next message.
BroadcastDone ==
    /\ PollRunning
    /\ ws_clients = iterSet
    /\ todo = {}
    /\ NextBroadcast(current_ids, pendingAdd, pendingRemove)
    /\ current_ids' = IF pc' = "bcast" THEN current_ids ELSE {}
    /\ UNCHANGED <<storeVars, connVars, waiting>>

\* The drain() the poll task was suspended in completes or raises.
DrainResume ==
    /\ waiting # NoConn
    /\ LET c == waiting IN
         \/ /\ TransportUp(c)
            /\ Deliver(c, msg)
            /\ UNCHANGED closed
         \/ /\ closed' = [closed EXCEPT ![c] = TRUE]
            /\ UNCHANGED <<view, removedIds>>
    /\ waiting' = NoConn
    /\ UNCHANGED <<storeVars, ws_clients, handler, known_queue_ids, pc,
                   current_ids, pendingAdd, pendingRemove, msg, iterSet, todo>>

PollStep == BroadcastAbort \/ BroadcastReshuffle \/ BroadcastSend \/ BroadcastDone

-----------------------------------------------------------------------------
(* One WebSocket client's _handle_ws_upgrade coroutine.                    *)

\* The 101 Switching Protocols response is written; the handler awaits
\* writer.drain().
Handshake(c) ==
    /\ ~PollRunning
    /\ handler[c] = "idle"
    /\ handler' = [handler EXCEPT ![c] = "handshake"]
    /\ UNCHANGED <<storeVars, ws_clients, closed, view, removedIds, pollVars>>

\* The connection is registered, then store.get_queue() is read and the
\* queue_snapshot sent, with no await in between.  If get_queue() raises,
\* the exception leaves the handler before its try/finally, so the
\* connection stays registered while _handle_connection closes the writer.
\* If the snapshot's send fails, closed is set, the read loop never runs and
\* the finally clause unregisters the connection.
Upgrade(c) ==
    /\ ~PollRunning
    /\ handler[c] = "handshake"
    /\ \/ /\ ws_clients' = ws_clients \cup {c}
          /\ handler' = [handler EXCEPT ![c] = "open"]
          /\ Deliver(c, Snapshot(QueueIds))
          /\ UNCHANGED closed
       \/ /\ StorageFaults
          /\ ws_clients' = ws_clients \cup {c}
          /\ handler' = [handler EXCEPT ![c] = "gone"]
          /\ UNCHANGED <<closed, view, removedIds>>
       \/ /\ handler' = [handler EXCEPT ![c] = "gone"]
          /\ closed' = [closed EXCEPT ![c] = TRUE]
          /\ UNCHANGED <<ws_clients, view, removedIds>>
    /\ UNCHANGED <<storeVars, pollVars>>

\* conn.recv() returns None: the peer sent a close frame or a frame of an
\* unexpected opcode, or the read failed.  The finally clause discards the
\* connection from ws_clients and closes it.  The client's display is gone
\* with it.
Teardown(c) ==
    /\ ~PollRunning
    /\ handler[c] = "open"
    /\ ws_clients' = ws_clients \ {c}
    /\ handler' = [handler EXCEPT ![c] = "gone"]
    /\ closed' = [closed EXCEPT ![c] = TRUE]
    /\ view' = [view EXCEPT ![c] = {}]
    /\ removedIds' = [removedIds EXCEPT ![c] = {}]
    /\ UNCHANGED <<storeVars, pollVars>>

-----------------------------------------------------------------------------

Next ==
    \/ \E p \in Projects, e \in Entry : AppendEntry(p, e)
    \/ \E id \in Ids : ResolveEntry(id)
    \/ PollWake \/ PollFail \/ PollStep \/ DrainResume
    \/ \E c \in Conns : Handshake(c) \/ Upgrade(c) \/ Teardown(c)

\* What the code guarantees: the poll task's asyncio.sleep always returns
\* and the event loop always resumes a runnable task, so the tick starts and,
\* unless suspended in drain(), runs on.  A failed get_queue() (PollFail) is
\* a tick that ends at once; the timer still fires again.  A drain() on a
\* connection whose handler has closed the writer raises once asyncio sees
\* the connection lost (LostDrain).
LostDrain == DrainResume /\ ~TransportUp(waiting)

Fairness ==
    /\ WF_vars(PollWake)
    /\ WF_vars(PollStep)
    /\ WF_vars(LostDrain)

\* Not guaranteed by the code: every client keeps reading, so each drain()
\* the poll task waits in eventually returns or raises.  ws_write_frame
\* awaits drain() with no timeout (server.py:73) and nothing else ends it.
ReadingClients == WF_vars(DrainResume)

Spec == Init /\ [][Next]_vars
FairSpec == Spec /\ Fairness
ReadingSpec == FairSpec /\ ReadingClients

-----------------------------------------------------------------------------
(* Properties.                                                             *)

\* The abstract queue the store implements: the queued ids are get_queue(),
\* the retired ids every other id some log holds.
Queue == INSTANCE AttentionQueue WITH queue <- QueueIds, retired <- UsedIds \ QueueIds

\* The store as a whole behaves as the abstract attention queue: every
\* append_entry from another process and every resolve_entry call either
\* enqueues or retires a fresh id, or resolves a known id for good, and the
\* server's own steps never change the queue.  This needs every appended
\* id to be fresh (uuid4) and resolve_entry to add to the resolved set.
StoreRefinesQueue == Queue!Spec

TypeOK ==
    /\ log \in [Projects -> Seq(Entry)]
    /\ resolved \in [Projects -> SUBSET Ids]
    /\ known_queue_ids \in SUBSET Ids
    /\ ws_clients \in SUBSET Conns
    /\ handler \in [Conns -> HandlerState]
    /\ closed \in [Conns -> BOOLEAN]
    /\ view \in [Conns -> SUBSET Ids]
    /\ removedIds \in [Conns -> SUBSET Ids]
    /\ pc \in {"sleep", "bcast"}
    /\ current_ids \in SUBSET Ids
    /\ pendingAdd \in SUBSET Ids
    /\ pendingRemove \in SUBSET Ids
    /\ msg \in Msg
    /\ iterSet \in SUBSET Conns
    /\ todo \in SUBSET Conns
    /\ waiting \in Conns \cup {NoConn}

\* Once a client has been sent queue_remove for an id, it is never shown
\* that id again: an item the operator saw disappear never comes back.  It
\* rests on the resolved-id set only growing, on ids never being reused,
\* and on every tick diffing against a queue read after the removal.
NoReAdd == \A c \in Conns : view[c] \cap removedIds[c] = {}

\* Between ticks, every live registered client displays every item that the
\* server remembers as announced and that is still queued: no client is
\* skipped by a broadcast that the server then records as done.
NoMissedItems ==
    pc = "sleep" =>
        \A c \in ws_clients :
            Live(c) => (known_queue_ids \cap QueueIds) \subseteq view[c]

\* The spec (4.4, 5): the poll loop's memory converges once writes stop,
\* _known_queue_ids eventually equals the derived queue for good, and no
\* component waits longer than one I/O operation or one tick sleep.  It
\* needs every drain() the poll task awaits in _broadcast to end.
KnownConverges == <>[](known_queue_ids = QueueIds)

\* The spec (4.4): a push-socket client and a REST client both converge
\* once a poll tick completes; every live client eventually displays
\* exactly the derived queue.
ClientConverges == \A c \in Conns : <>[](Live(c) => view[c] = QueueIds)

\* The spec (4.5): on close or on any fault the connection is removed from
\* the registry; only connections whose handler is reading are registered.
RegistryTracksHandlers == \A c \in ws_clients : handler[c] = "open"

\* The spec (4.2, 4.3): an entry in the queue stays there until it is
\* resolved, and resolving requires only that the id is in the project's
\* log; so every queued item can be resolved by POST /queue/{id}/resolve.
QueuedItemsResolvable == \A x \in QueueIds : \E p \in Projects : x \in RecentIds(p)
=============================================================================
