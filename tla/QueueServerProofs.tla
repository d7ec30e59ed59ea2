------------------------- MODULE QueueServerProofs -------------------------
(***************************************************************************)
(* Machine-checked proofs about QueueServer, for every value of the        *)
(* constants that satisfies the module's assumptions.                      *)
(***************************************************************************)
EXTENDS QueueServer, TLAPS

-----------------------------------------------------------------------------
(* Lemmas about the store's derived sets.                                  *)

\* Every id the store derives from well-typed logs is an entry id.
LEMMA StoreIdsType ==
    ASSUME TypeOK
    PROVE  /\ UsedIds \subseteq Ids
           /\ FreeIds \subseteq Ids
           /\ QueueIds \subseteq Ids
           /\ \A p \in Projects : RecentIds(p) \subseteq Ids
<1>1. \A p \in Projects : \A k \in DOMAIN log[p] : log[p][k].id \in Ids
  <2>. SUFFICES ASSUME NEW p \in Projects, NEW k \in DOMAIN log[p]
                PROVE  log[p][k].id \in Ids
    OBVIOUS
  <2>1. log[p] \in Seq(Entry)
    BY DEF TypeOK
  <2>2. log[p][k] \in Entry
    BY <2>1
  <2>. QED
    BY <2>2 DEF Entry
<1>2. UsedIds \subseteq Ids
  BY <1>1 DEF UsedIds, LogIds
<1>3. QueueIds \subseteq Ids
  BY <1>1 DEF QueueIds
<1>4. \A p \in Projects : RecentIds(p) \subseteq Ids
  BY <1>1 DEF RecentIds
<1>. QED
  BY <1>2, <1>3, <1>4 DEF FreeIds

\* Appending a well-typed entry keeps a project's log well typed.
LEMMA AppendLogType ==
    ASSUME TypeOK, NEW p \in Projects, NEW e \in Entry
    PROVE  [log EXCEPT ![p] = Append(@, e)] \in [Projects -> Seq(Entry)]
BY DEF TypeOK

\* Client c applying a message keeps every display a set of ids.
LEMMA DeliverType ==
    ASSUME TypeOK, NEW c \in Conns, NEW m \in Msg, Deliver(c, m)
    PROVE  /\ view' \in [Conns -> SUBSET Ids]
           /\ removedIds' \in [Conns -> SUBSET Ids]
BY DEF TypeOK, Deliver, Msg

\* Starting the next broadcast, or ending the tick, keeps the poll task's
\* variables well typed.
LEMMA NextBroadcastType ==
    ASSUME TypeOK,
           NEW cur \in SUBSET Ids, NEW adds \in SUBSET Ids,
           NEW removes \in SUBSET Ids,
           NextBroadcast(cur, adds, removes)
    PROVE  /\ known_queue_ids' \in SUBSET Ids
           /\ pc' \in {"sleep", "bcast"}
           /\ pendingAdd' \in SUBSET Ids
           /\ pendingRemove' \in SUBSET Ids
           /\ msg' \in Msg
           /\ iterSet' \in SUBSET Conns
           /\ todo' \in SUBSET Conns
           /\ pc' = "bcast" \/ pc' = "sleep"
BY DEF TypeOK, NextBroadcast, AddMsg, RemoveMsg, NoMsg, Msg

-----------------------------------------------------------------------------
(* Type correctness.                                                       *)

\* The initial state is well typed.
LEMMA InitTypeOK == Init => TypeOK
BY NoConnAssumption DEF Init, TypeOK, NoMsg, Msg, HandlerState

\* Every step of every coroutine, of the other writers and of the clients
\* keeps each variable in its type.
LEMMA TypeOKStep == TypeOK /\ [Next]_vars => TypeOK'
<1>2. TypeOK /\ [Next]_vars => TypeOK'
  <2> SUFFICES ASSUME TypeOK, [Next]_vars PROVE TypeOK'
    OBVIOUS
  <2>. USE StoreIdsType
  <2>1. ASSUME NEW p \in Projects, NEW e \in Entry, AppendEntry(p, e)
        PROVE  TypeOK'
    BY <2>1, AppendLogType DEF AppendEntry, TypeOK, connVars, pollVars
  <2>2. ASSUME NEW id \in Ids, ResolveEntry(id) PROVE TypeOK'
    <3>1. CASE \E p \in Projects, noteId \in FreeIds :
                 /\ id \in RecentIds(p)
                 /\ ResolveInStore(p, id, noteId)
      <4>1. PICK p \in Projects, noteId \in FreeIds :
                 /\ id \in RecentIds(p)
                 /\ ResolveInStore(p, id, noteId)
        BY <3>1
      <4>2. [id |-> noteId, attn |-> FALSE] \in Entry
        BY <4>1 DEF Entry
      <4>. QED
        BY <2>2, <4>1, <4>2, AppendLogType
           DEF ResolveEntry, ResolveInStore, TypeOK, connVars, pollVars
    <3>2. CASE UNCHANGED storeVars
      BY <2>2, <3>2 DEF ResolveEntry, TypeOK, storeVars, connVars, pollVars
    <3>. QED
      BY <2>2, <3>1, <3>2 DEF ResolveEntry
  <2>3. ASSUME PollWake PROVE TypeOK'
    <3>1. QueueIds \subseteq Ids /\ known_queue_ids \subseteq Ids
      BY DEF TypeOK
    <3>2. /\ known_queue_ids' \in SUBSET Ids
          /\ pc' \in {"sleep", "bcast"}
          /\ pendingAdd' \in SUBSET Ids
          /\ pendingRemove' \in SUBSET Ids
          /\ msg' \in Msg
          /\ iterSet' \in SUBSET Conns
          /\ todo' \in SUBSET Conns
      BY <2>3, <3>1, NextBroadcastType DEF PollWake
    <3>. QED
      BY <2>3, <3>1, <3>2 DEF PollWake, TypeOK, storeVars, connVars
  <2>4. ASSUME PollFail PROVE TypeOK'
    BY <2>4 DEF PollFail, TypeOK, vars, storeVars, connVars, pollVars
  <2>5. ASSUME BroadcastAbort PROVE TypeOK'
    BY <2>5 DEF BroadcastAbort, TypeOK, NoMsg, Msg, storeVars, connVars
  <2>6. ASSUME BroadcastReshuffle PROVE TypeOK'
    BY <2>6 DEF BroadcastReshuffle, TypeOK, storeVars, connVars
  <2>7. ASSUME BroadcastSend PROVE TypeOK'
    <3>1. PICK c \in todo :
             /\ todo' = todo \ {c}
             /\ \/ /\ closed[c]
                   /\ UNCHANGED <<view, removedIds, closed, waiting>>
                \/ /\ ~closed[c]
                   /\ \/ /\ TransportUp(c)
                         /\ Deliver(c, msg)
                         /\ UNCHANGED <<closed, waiting>>
                      \/ /\ waiting' = c
                         /\ UNCHANGED <<view, removedIds, closed>>
                      \/ /\ closed' = [closed EXCEPT ![c] = TRUE]
                         /\ UNCHANGED <<view, removedIds, waiting>>
      BY <2>7 DEF BroadcastSend
    <3>2. c \in Conns
      BY <3>1 DEF TypeOK
    <3>3. /\ view' \in [Conns -> SUBSET Ids]
          /\ removedIds' \in [Conns -> SUBSET Ids]
      BY <3>1, <3>2, DeliverType DEF TypeOK
    <3>. QED
      BY <2>7, <3>1, <3>2, <3>3 DEF BroadcastSend, TypeOK, storeVars
  <2>8. ASSUME BroadcastDone PROVE TypeOK'
    <3>1. /\ known_queue_ids' \in SUBSET Ids
          /\ pc' \in {"sleep", "bcast"}
          /\ pendingAdd' \in SUBSET Ids
          /\ pendingRemove' \in SUBSET Ids
          /\ msg' \in Msg
          /\ iterSet' \in SUBSET Conns
          /\ todo' \in SUBSET Conns
      BY <2>8, NextBroadcastType DEF BroadcastDone, TypeOK
    <3>. QED
      BY <2>8, <3>1 DEF BroadcastDone, TypeOK, storeVars, connVars
  <2>9. ASSUME DrainResume PROVE TypeOK'
    <3>1. waiting \in Conns
      BY <2>9 DEF DrainResume, TypeOK
    <3>2. /\ view' \in [Conns -> SUBSET Ids]
          /\ removedIds' \in [Conns -> SUBSET Ids]
      BY <2>9, <3>1, DeliverType DEF DrainResume, TypeOK
    <3>. QED
      BY <2>9, <3>1, <3>2 DEF DrainResume, TypeOK, storeVars
  <2>10. ASSUME NEW c \in Conns, Handshake(c) PROVE TypeOK'
    BY <2>10 DEF Handshake, TypeOK, HandlerState, storeVars, pollVars
  <2>11. ASSUME NEW c \in Conns, Upgrade(c) PROVE TypeOK'
    <3>1. Snapshot(QueueIds) \in Msg
      BY DEF Snapshot, Msg
    <3>2. /\ view' \in [Conns -> SUBSET Ids]
          /\ removedIds' \in [Conns -> SUBSET Ids]
      BY <2>11, <3>1, DeliverType DEF Upgrade, TypeOK
    <3>. QED
      BY <2>11, <3>2 DEF Upgrade, TypeOK, HandlerState, storeVars, pollVars
  <2>12. ASSUME NEW c \in Conns, Teardown(c) PROVE TypeOK'
    BY <2>12 DEF Teardown, TypeOK, HandlerState, storeVars, pollVars
  <2>13. CASE UNCHANGED vars
    BY <2>13 DEF vars, storeVars, connVars, pollVars, TypeOK
  <2>. QED
    BY <2>1, <2>2, <2>3, <2>4, <2>5, <2>6, <2>7, <2>8, <2>9, <2>10, <2>11,
       <2>12, <2>13 DEF Next, PollStep
<1>. QED
  BY <1>2

\* The type invariant holds in every reachable state.
THEOREM TypeCorrect == Spec => []TypeOK
BY InitTypeOK, TypeOKStep, PTL DEF Spec
-----------------------------------------------------------------------------
(* No re-add: the inductive strengthening.                                 *)

\* Ids in the logs that are not queued: settled entries (not attention, or
\* resolved).  Such an id never becomes queued again.
Settled == UsedIds \ QueueIds

\* The ids of the add message being broadcast, if the message is an add.
AddIds == IF msg.type = "add" THEN msg.ids ELSE {}

\* A store write (an append of an entry with a fresh id, and optionally a
\* growth of the resolved-id sets) keeps every used id used and every
\* settled id settled: a resolved or non-attention entry never re-enters
\* the queue.
LEMMA StoreWriteSettled ==
    ASSUME TypeOK, NEW p \in Projects, NEW e \in Entry, e.id \notin UsedIds,
           log' = [log EXCEPT ![p] = Append(@, e)],
           resolved' \in [Projects -> SUBSET Ids],
           \A q \in Projects : resolved[q] \subseteq resolved'[q]
    PROVE  /\ UsedIds \subseteq UsedIds'
           /\ Settled \subseteq Settled'
<1>1. \A q \in Projects : \A k \in DOMAIN log[q] :
          k \in DOMAIN log'[q] /\ log'[q][k] = log[q][k]
  BY DEF TypeOK
<1>2. \A q \in Projects : \A k \in DOMAIN log'[q] :
          k \in DOMAIN log[q] \/ (q = p /\ log'[q][k] = e)
  BY DEF TypeOK
<1>3. UsedIds \subseteq UsedIds'
  BY <1>1 DEF UsedIds, LogIds
<1>4. Settled \subseteq Settled'
  <2>. SUFFICES ASSUME NEW x \in Settled PROVE x \in Settled'
    OBVIOUS
  <2>1. x \in UsedIds /\ x \notin QueueIds
    BY DEF Settled
  <2>2. ASSUME NEW q \in Projects, NEW k \in DOMAIN log'[q],
               log'[q][k].id = x, log'[q][k].attn
        PROVE  x \in resolved'[q]
    <3>1. CASE k \in DOMAIN log[q]
      <4>1. log'[q][k] = log[q][k]
        BY <1>1, <3>1
      <4>2. x \in resolved[q]
        BY <2>1, <2>2, <3>1, <4>1 DEF QueueIds
      <4>. QED
        BY <4>2
    <3>2. CASE q = p /\ log'[q][k] = e
      BY <2>1, <2>2, <3>2
    <3>. QED
      BY <1>2, <3>1, <3>2
  <2>3. x \notin QueueIds'
    BY <2>2 DEF QueueIds
  <2>. QED
    BY <2>1, <2>3, <1>3 DEF Settled
<1>. QED
  BY <1>3, <1>4

\* NoReAdd strengthened until it is inductive: what the poll task remembers
\* and is about to send is consistent with what every client was told to
\* remove, and every removed id stays settled.
IInv ==
    /\ TypeOK
    /\ msg.type \in {"add", "remove"}
    /\ known_queue_ids \subseteq UsedIds
    /\ current_ids \subseteq UsedIds
    /\ pendingRemove \subseteq Settled
    /\ msg.type = "remove" => msg.ids \subseteq Settled /\ pendingAdd = {}
    /\ \A c \in Conns : removedIds[c] \subseteq Settled
    /\ \A c \in Conns : (pendingAdd \cup AddIds) \cap removedIds[c] = {}
    /\ NoReAdd

\* Every queued id is the id of an entry in some log.
LEMMA QueuedUsed ==
    ASSUME TypeOK
    PROVE  QueueIds \subseteq UsedIds
BY DEF QueueIds, UsedIds, LogIds

\* A step that leaves the store alone leaves the used and settled ids alone.
LEMMA StoreUnchanged ==
    ASSUME UNCHANGED storeVars
    PROVE  UsedIds' = UsedIds /\ Settled' = Settled
BY DEF storeVars, Settled, UsedIds, LogIds, QueueIds

\* Starting the next broadcast of a tick, or finishing it, from a current
\* set of used ids, adds no client was told to remove and settled removes,
\* keeps the poll task's part of the strengthening.
LEMMA NextBroadcastInv ==
    ASSUME IInv, NEW cur \in SUBSET UsedIds, NEW adds \in SUBSET Ids,
           NEW removes \in SUBSET Settled,
           \A c \in Conns : adds \cap removedIds[c] = {},
           NextBroadcast(cur, adds, removes)
    PROVE  /\ known_queue_ids' \subseteq UsedIds
           /\ msg'.type \in {"add", "remove"}
           /\ pendingRemove' \subseteq Settled
           /\ msg'.type = "remove" => msg'.ids \subseteq Settled /\ pendingAdd' = {}
           /\ \A c \in Conns :
                (pendingAdd' \cup (IF msg'.type = "add" THEN msg'.ids ELSE {}))
                  \cap removedIds[c] = {}
<1>1. CASE \E x \in adds : /\ msg' = AddMsg(x)
                           /\ pendingAdd' = adds \ {x}
                           /\ pendingRemove' = removes
                           /\ UNCHANGED known_queue_ids
  BY <1>1 DEF IInv, AddMsg
<1>2. CASE /\ adds = {}
           /\ \E x \in removes : /\ msg' = RemoveMsg(x)
                                 /\ pendingAdd' = {}
                                 /\ pendingRemove' = removes \ {x}
           /\ UNCHANGED known_queue_ids
  BY <1>2 DEF IInv, RemoveMsg
<1>3. CASE /\ known_queue_ids' = cur
           /\ msg' = NoMsg /\ pendingAdd' = {} /\ pendingRemove' = {}
  BY <1>3 DEF NoMsg
<1>. QED
  BY <1>1, <1>2, <1>3 DEF NextBroadcast

\* A client applying the message being broadcast keeps the clients' part
\* of the strengthening: an add carries no id the client was told to
\* remove, and a remove is of a settled id while no add is pending.
LEMMA DeliverInv ==
    ASSUME IInv, NEW c \in Conns, Deliver(c, msg)
    PROVE  /\ \A d \in Conns : removedIds'[d] \subseteq Settled
           /\ \A d \in Conns : (pendingAdd \cup AddIds) \cap removedIds'[d] = {}
           /\ NoReAdd'
<1>1. CASE msg.type = "add"
  <2>1. removedIds' = removedIds
    BY <1>1 DEF IInv, TypeOK, Deliver
  <2>2. view' = [view EXCEPT ![c] = @ \cup msg.ids]
    BY <1>1 DEF Deliver
  <2>3. msg.ids \cap removedIds[c] = {}
    BY <1>1 DEF IInv, AddIds
  <2>. QED
    BY <2>1, <2>2, <2>3 DEF IInv, TypeOK, NoReAdd
<1>2. CASE msg.type = "remove"
  <2>1. removedIds' = [removedIds EXCEPT ![c] = @ \cup msg.ids]
    BY <1>2 DEF Deliver
  <2>2. view' = [view EXCEPT ![c] = @ \ msg.ids]
    BY <1>2 DEF Deliver
  <2>3. msg.ids \subseteq Settled /\ pendingAdd = {} /\ AddIds = {}
    BY <1>2 DEF IInv, AddIds
  <2>. QED
    BY <2>1, <2>2, <2>3 DEF IInv, TypeOK, NoReAdd
<1>. QED
  BY <1>1, <1>2 DEF IInv

\* A step that leaves the store and the poll task's memory alone, and
\* changes only what clients display and were told to remove, keeps the
\* strengthening if it keeps its clients' part.
LEMMA ClientStepInv ==
    ASSUME IInv, TypeOK',
           UNCHANGED <<log, resolved, known_queue_ids, current_ids,
                       pendingAdd, pendingRemove, msg>>,
           \A d \in Conns : removedIds'[d] \subseteq Settled,
           \A d \in Conns : (pendingAdd \cup AddIds) \cap removedIds'[d] = {},
           NoReAdd'
    PROVE  IInv'
<1>1. UsedIds' = UsedIds /\ Settled' = Settled
  BY StoreUnchanged DEF storeVars
<1>2. AddIds' = AddIds
  BY DEF AddIds
<1>. QED
  BY <1>1, <1>2 DEF IInv

\* A step of the poll task that leaves the store and the clients alone
\* keeps the strengthening if it keeps the poll task's part.
LEMMA PollStepInv ==
    ASSUME IInv, TypeOK',
           UNCHANGED <<log, resolved, view, removedIds>>,
           known_queue_ids' \subseteq UsedIds,
           current_ids' \subseteq UsedIds,
           msg'.type \in {"add", "remove"},
           pendingRemove' \subseteq Settled,
           msg'.type = "remove" => msg'.ids \subseteq Settled /\ pendingAdd' = {},
           \A c \in Conns :
             (pendingAdd' \cup (IF msg'.type = "add" THEN msg'.ids ELSE {}))
               \cap removedIds[c] = {}
    PROVE  IInv'
<1>1. UsedIds' = UsedIds /\ Settled' = Settled
  BY StoreUnchanged DEF storeVars
<1>. QED
  BY <1>1 DEF IInv, AddIds, NoReAdd

\* The strengthening holds initially: nothing was sent or removed yet.
LEMMA InitIInv == Init => IInv
BY InitTypeOK DEF Init, IInv, NoMsg, AddIds, NoReAdd, Settled

\* Every step preserves the strengthening.
LEMMA IInvStep == IInv /\ [Next]_vars => IInv'
<1>. SUFFICES ASSUME IInv, [Next]_vars PROVE IInv'
  OBVIOUS
<1>0. TypeOK /\ TypeOK'
  BY TypeOKStep DEF IInv
<1>. USE <1>0, QueuedUsed
\* What a client-side step must show when it only shrinks the removed ids.
<1>a. ASSUME UNCHANGED <<log, resolved, known_queue_ids, current_ids,
                         pendingAdd, pendingRemove, msg>>,
             \A d \in Conns : removedIds'[d] \subseteq removedIds[d],
             NoReAdd'
      PROVE  IInv'
  <2>1. /\ \A d \in Conns : removedIds'[d] \subseteq Settled
        /\ \A d \in Conns : (pendingAdd \cup AddIds) \cap removedIds'[d] = {}
    BY <1>a DEF IInv
  <2>. QED
    BY <1>a, <2>1, ClientStepInv
\* Sending the broadcast message to client c, or not.
<1>b. ASSUME NEW c \in Conns,
             UNCHANGED <<log, resolved, known_queue_ids, current_ids,
                         pendingAdd, pendingRemove, msg>>,
             UNCHANGED <<view, removedIds>> \/ Deliver(c, msg)
      PROVE  IInv'
  <2>1. CASE UNCHANGED <<view, removedIds>>
    BY <1>a, <1>b, <2>1 DEF IInv, NoReAdd
  <2>2. CASE Deliver(c, msg)
    BY <1>b, <2>2, DeliverInv, ClientStepInv
  <2>. QED
    BY <1>b, <2>1, <2>2
<1>1. ASSUME NEW p \in Projects, NEW e \in Entry, AppendEntry(p, e)
      PROVE  IInv'
  <2>1. UsedIds \subseteq UsedIds' /\ Settled \subseteq Settled'
    BY <1>1, StoreWriteSettled DEF AppendEntry, FreeIds, TypeOK
  <2>2. UNCHANGED <<known_queue_ids, current_ids, pendingAdd, pendingRemove,
                    msg, view, removedIds>>
    BY <1>1 DEF AppendEntry, connVars, pollVars
  <2>3. AddIds' = AddIds
    BY <2>2 DEF AddIds
  <2>. QED
    BY <2>1, <2>2, <2>3 DEF IInv, NoReAdd
<1>2. ASSUME NEW id \in Ids, ResolveEntry(id) PROVE IInv'
  <2>1. UNCHANGED <<known_queue_ids, current_ids, pendingAdd, pendingRemove,
                    msg, view, removedIds>>
    BY <1>2 DEF ResolveEntry, connVars, pollVars
  <2>2. AddIds' = AddIds
    BY <2>1 DEF AddIds
  <2>3. CASE \E p \in Projects, noteId \in FreeIds :
               /\ id \in RecentIds(p)
               /\ ResolveInStore(p, id, noteId)
    <3>1. PICK p \in Projects, noteId \in FreeIds :
               /\ id \in RecentIds(p)
               /\ ResolveInStore(p, id, noteId)
      BY <2>3
    <3>2. [id |-> noteId, attn |-> FALSE] \in Entry
      BY <3>1 DEF FreeIds, Entry
    <3>3. \A q \in Projects : resolved[q] \subseteq resolved'[q]
      BY <3>1 DEF ResolveInStore, TypeOK
    <3>4. UsedIds \subseteq UsedIds' /\ Settled \subseteq Settled'
      BY <3>1, <3>2, <3>3, StoreWriteSettled DEF ResolveInStore, FreeIds, TypeOK
    <3>. QED
      BY <2>1, <2>2, <3>4 DEF IInv, NoReAdd
  <2>4. CASE UNCHANGED storeVars
    <3>1. UsedIds' = UsedIds /\ Settled' = Settled
      BY <2>4, StoreUnchanged
    <3>. QED
      BY <2>1, <2>2, <3>1 DEF IInv, NoReAdd
  <2>. QED
    BY <1>2, <2>3, <2>4 DEF ResolveEntry
<1>3. ASSUME PollWake PROVE IInv'
  <2>1. /\ QueueIds \ known_queue_ids \in SUBSET Ids
        /\ known_queue_ids \ QueueIds \in SUBSET Settled
        /\ \A c \in Conns : (QueueIds \ known_queue_ids) \cap removedIds[c] = {}
    BY StoreIdsType DEF IInv, Settled
  <2>2. current_ids' \subseteq UsedIds
    BY <1>3 DEF PollWake
  <2>3. UNCHANGED <<log, resolved, view, removedIds>>
    BY <1>3 DEF PollWake, storeVars, connVars
  <2>. QED
    BY <1>3, <2>1, <2>2, <2>3, NextBroadcastInv, PollStepInv DEF PollWake
<1>4. ASSUME PollFail PROVE IInv'
  BY <1>4, <1>a DEF PollFail, vars, storeVars, connVars, pollVars, IInv, NoReAdd
<1>5. ASSUME BroadcastAbort PROVE IInv'
  <2>1. UNCHANGED <<log, resolved, view, removedIds, known_queue_ids>>
    BY <1>5 DEF BroadcastAbort, storeVars, connVars
  <2>2. msg' = NoMsg /\ pendingAdd' = {} /\ pendingRemove' = {} /\ current_ids' = {}
    BY <1>5 DEF BroadcastAbort
  <2>. QED
    BY <2>1, <2>2, PollStepInv DEF IInv, NoMsg
<1>6. ASSUME BroadcastReshuffle PROVE IInv'
  BY <1>6, <1>a DEF BroadcastReshuffle, storeVars, connVars, IInv, NoReAdd
<1>7. ASSUME BroadcastSend PROVE IInv'
  <2>1. PICK c \in todo :
           /\ todo' = todo \ {c}
           /\ \/ UNCHANGED <<view, removedIds>>
              \/ Deliver(c, msg)
    BY <1>7 DEF BroadcastSend
  <2>2. c \in Conns
    BY <2>1 DEF TypeOK
  <2>3. UNCHANGED <<log, resolved, known_queue_ids, current_ids,
                    pendingAdd, pendingRemove, msg>>
    BY <1>7 DEF BroadcastSend, storeVars
  <2>. QED
    BY <2>1, <2>2, <2>3, <1>b
<1>8. ASSUME BroadcastDone PROVE IInv'
  <2>1. /\ current_ids \in SUBSET UsedIds
        /\ pendingAdd \in SUBSET Ids
        /\ pendingRemove \in SUBSET Settled
        /\ \A c \in Conns : pendingAdd \cap removedIds[c] = {}
    BY DEF IInv, TypeOK
  <2>2. current_ids' \subseteq UsedIds
    BY <1>8, <2>1 DEF BroadcastDone
  <2>3. UNCHANGED <<log, resolved, view, removedIds>>
    BY <1>8 DEF BroadcastDone, storeVars, connVars
  <2>. QED
    BY <1>8, <2>1, <2>2, <2>3, NextBroadcastInv, PollStepInv DEF BroadcastDone
<1>9. ASSUME DrainResume PROVE IInv'
  <2>1. waiting \in Conns
    BY <1>9 DEF DrainResume, TypeOK
  <2>2. UNCHANGED <<view, removedIds>> \/ Deliver(waiting, msg)
    BY <1>9 DEF DrainResume
  <2>3. UNCHANGED <<log, resolved, known_queue_ids, current_ids,
                    pendingAdd, pendingRemove, msg>>
    BY <1>9 DEF DrainResume, storeVars
  <2>. QED
    BY <2>1, <2>2, <2>3, <1>b
<1>10. ASSUME NEW c \in Conns, Handshake(c) PROVE IInv'
  BY <1>10, <1>a DEF Handshake, storeVars, pollVars, IInv, NoReAdd
<1>11. ASSUME NEW c \in Conns, Upgrade(c) PROVE IInv'
  <2>1. UNCHANGED <<log, resolved, known_queue_ids, current_ids,
                    pendingAdd, pendingRemove, msg>>
    BY <1>11 DEF Upgrade, storeVars, pollVars
  <2>2. CASE Deliver(c, Snapshot(QueueIds))
    <3>1. view' = [view EXCEPT ![c] = QueueIds]
      BY <2>2 DEF Deliver, Snapshot
    <3>2. removedIds' = removedIds
      BY <2>2 DEF Deliver, Snapshot, TypeOK
    <3>3. \A d \in Conns : QueueIds \cap removedIds[d] = {}
      BY DEF IInv, Settled
    <3>4. NoReAdd'
      BY <3>1, <3>2, <3>3 DEF IInv, NoReAdd, TypeOK
    <3>. QED
      BY <2>1, <3>2, <3>4, <1>a
  <2>3. CASE UNCHANGED <<view, removedIds>>
    BY <2>1, <2>3, <1>a DEF IInv, NoReAdd
  <2>. QED
    BY <1>11, <2>2, <2>3 DEF Upgrade
<1>12. ASSUME NEW c \in Conns, Teardown(c) PROVE IInv'
  <2>1. UNCHANGED <<log, resolved, known_queue_ids, current_ids,
                    pendingAdd, pendingRemove, msg>>
    BY <1>12 DEF Teardown, storeVars, pollVars
  <2>2. /\ view' = [view EXCEPT ![c] = {}]
        /\ removedIds' = [removedIds EXCEPT ![c] = {}]
    BY <1>12 DEF Teardown
  <2>3. /\ \A d \in Conns : removedIds'[d] \subseteq removedIds[d]
        /\ NoReAdd'
    BY <2>2 DEF IInv, NoReAdd, TypeOK
  <2>. QED
    BY <2>1, <2>3, <1>a
<1>13. CASE UNCHANGED vars
  BY <1>13, <1>a DEF vars, storeVars, connVars, pollVars, IInv, NoReAdd
<1>. QED
  BY <1>1, <1>2, <1>3, <1>4, <1>5, <1>6, <1>7, <1>8, <1>9, <1>10, <1>11,
     <1>12, <1>13 DEF Next, PollStep

\* A client is never shown again an item it was told to remove, in every
\* behaviour of the server, whatever the numbers of projects, ids and
\* connections: the property the churn run checks on three clients.
THEOREM NoReAddHolds == Spec => []NoReAdd
<1>1. IInv => NoReAdd
  BY DEF IInv
<1>. QED
  BY InitIInv, IInvStep, <1>1, PTL DEF Spec

-----------------------------------------------------------------------------
(* The store refines the abstract attention queue.                         *)

\* Ids are never shared between projects: every append takes a fresh uuid4.
UniqueIds == \A p, q \in Projects : p # q => LogIds(p) \cap LogIds(q) = {}

\* A project's resolved set only holds ids of its own log: _resolve_entry
\* resolves an id only in the project whose recent events hold it.
ResolvedUsed == \A p \in Projects : resolved[p] \subseteq LogIds(p)

\* The invariant the refinement rests on.
StoreInv == TypeOK /\ UniqueIds /\ ResolvedUsed

\* Appending entry e to project p's log adds e's id to p's ids and leaves
\* every other project's ids alone.
LEMMA AppendLogIds ==
    ASSUME TypeOK, NEW p \in Projects, NEW e \in Entry,
           log' = [log EXCEPT ![p] = Append(@, e)]
    PROVE  \A q \in Projects :
              LogIds(q)' = IF q = p THEN LogIds(p) \cup {e.id} ELSE LogIds(q)
<1>. SUFFICES ASSUME NEW q \in Projects
              PROVE  LogIds(q)' = IF q = p THEN LogIds(p) \cup {e.id} ELSE LogIds(q)
  OBVIOUS
<1>1. CASE q = p
  <2>1. log[p] \in Seq(Entry)
    BY DEF TypeOK
  <2>2. /\ DOMAIN log'[p] = 1 .. Len(log[p]) + 1
        /\ \A k \in 1 .. Len(log[p]) : log'[p][k] = log[p][k]
        /\ log'[p][Len(log[p]) + 1] = e
    BY <2>1 DEF TypeOK
  <2>3. DOMAIN log[p] = 1 .. Len(log[p])
    BY <2>1
  <2>. QED
    BY <1>1, <2>2, <2>3 DEF LogIds
<1>2. CASE q # p
  BY <1>2 DEF LogIds, TypeOK
<1>. QED
  BY <1>1, <1>2

\* An append of an entry with a fresh id, with the resolved sets unchanged,
\* queues that id if the entry is an attention entry and changes nothing
\* else in the queue.
LEMMA AppendQueue ==
    ASSUME TypeOK, ResolvedUsed, NEW p \in Projects, NEW e \in Entry,
           e.id \notin UsedIds,
           log' = [log EXCEPT ![p] = Append(@, e)], resolved' = resolved
    PROVE  QueueIds' = IF e.attn THEN QueueIds \cup {e.id} ELSE QueueIds
<1>1. log[p] \in Seq(Entry)
  BY DEF TypeOK
<1>2. \A q \in Projects : \A k \in DOMAIN log[q] :
          k \in DOMAIN log'[q] /\ log'[q][k] = log[q][k]
  BY DEF TypeOK
<1>3. \A q \in Projects : \A k \in DOMAIN log'[q] :
          k \in DOMAIN log[q] \/ (q = p /\ log'[q][k] = e)
  BY DEF TypeOK
<1>4. e.id \notin resolved[p]
  BY DEF ResolvedUsed, UsedIds
<1>5. Len(log[p]) + 1 \in DOMAIN log'[p] /\ log'[p][Len(log[p]) + 1] = e
  BY <1>1 DEF TypeOK
<1>. QED
  BY <1>2, <1>3, <1>4, <1>5 DEF QueueIds

\* get_queue() as a function of the logs and the resolved sets.
QueueOf(lg, rs) ==
    UNION {{lg[p][k].id : k \in {k \in DOMAIN lg[p] :
                                    /\ lg[p][k].attn
                                    /\ lg[p][k].id \notin rs[p]}}
           : p \in Projects}

\* An id is in get_queue() of some logs and resolved sets iff some project
\* logs it as an attention entry that is not in that project's resolved set.
LEMMA QueueOfMember ==
    ASSUME NEW lg, NEW rs, NEW y
    PROVE  y \in QueueOf(lg, rs) <=>
                \E q \in Projects : \E k \in DOMAIN lg[q] :
                    lg[q][k].attn /\ lg[q][k].id \notin rs[q] /\ y = lg[q][k].id
BY DEF QueueOf

\* An id is queued iff some project logs it as an attention entry that is
\* not in that project's resolved set, before and after a step.
LEMMA QueueIdsMember ==
    ASSUME NEW y
    PROVE  /\ y \in QueueIds <=>
                \E q \in Projects : \E k \in DOMAIN log[q] :
                    log[q][k].attn /\ log[q][k].id \notin resolved[q] /\ y = log[q][k].id
           /\ y \in QueueIds' <=>
                \E q \in Projects : \E k \in DOMAIN log'[q] :
                    log'[q][k].attn /\ log'[q][k].id \notin resolved'[q] /\ y = log'[q][k].id
<1>1. QueueIds = QueueOf(log, resolved) /\ QueueIds' = QueueOf(log', resolved')
  BY DEF QueueIds, QueueOf
<1>. QED
  BY <1>1, QueueOfMember

\* resolve_entry(p, id) for an id of p's log, with a fresh note id, takes
\* exactly that id out of the queue: ids are not shared, so no other
\* project still queues it, and the note is no attention entry.
LEMMA ResolveQueue ==
    ASSUME TypeOK, UniqueIds, NEW p \in Projects, NEW id \in LogIds(p),
           NEW noteId \in Ids \ UsedIds, ResolveInStore(p, id, noteId)
    PROVE  QueueIds' = QueueIds \ {id}
<1>1. \A q \in Projects : \A k \in DOMAIN log[q] :
          k \in DOMAIN log'[q] /\ log'[q][k] = log[q][k]
  BY DEF TypeOK, ResolveInStore
<1>2. \A q \in Projects : \A k \in DOMAIN log'[q] :
          k \in DOMAIN log[q] \/ (q = p /\ ~log'[q][k].attn)
  BY DEF TypeOK, ResolveInStore
<1>3. \A q \in Projects : resolved'[q] = IF q = p THEN resolved[q] \cup {id} ELSE resolved[q]
  BY DEF TypeOK, ResolveInStore
<1>4. \A q \in Projects : \A k \in DOMAIN log[q] : log[q][k].id = id => q = p
  BY DEF UniqueIds, LogIds
<1>5. QueueIds' \subseteq QueueIds \ {id}
  <2>. SUFFICES ASSUME NEW y \in QueueIds' PROVE y \in QueueIds /\ y # id
    OBVIOUS
  <2>0. PICK q \in Projects : \E k \in DOMAIN log'[q] :
              /\ log'[q][k].attn
              /\ log'[q][k].id \notin resolved'[q]
              /\ y = log'[q][k].id
    BY QueueIdsMember
  <2>1. PICK k \in DOMAIN log'[q] :
              /\ log'[q][k].attn
              /\ log'[q][k].id \notin resolved'[q]
              /\ y = log'[q][k].id
    BY <2>0
  <2>2. k \in DOMAIN log[q] /\ log'[q][k] = log[q][k]
    BY <1>1, <1>2, <2>1
  <2>3. y # id
    <3>. SUFFICES ASSUME y = id PROVE FALSE
      OBVIOUS
    <3>1. q = p
      BY <1>4, <2>1, <2>2
    <3>2. id \in resolved'[q]
      BY <1>3, <3>1
    <3>. QED
      BY <2>1, <3>2
  <2>4. y \notin resolved[q]
    BY <1>3, <2>1
  <2>. QED
    BY <2>1, <2>2, <2>3, <2>4, QueueIdsMember
<1>6. QueueIds \ {id} \subseteq QueueIds'
  <2>. SUFFICES ASSUME NEW y \in QueueIds, y # id PROVE y \in QueueIds'
    OBVIOUS
  <2>0. PICK q \in Projects : \E k \in DOMAIN log[q] :
              /\ log[q][k].attn
              /\ log[q][k].id \notin resolved[q]
              /\ y = log[q][k].id
    BY QueueIdsMember
  <2>1. PICK k \in DOMAIN log[q] :
              /\ log[q][k].attn
              /\ log[q][k].id \notin resolved[q]
              /\ y = log[q][k].id
    BY <2>0
  <2>2. k \in DOMAIN log'[q] /\ log'[q][k] = log[q][k]
    BY <1>1, <2>1
  <2>3. y \notin resolved'[q]
    BY <1>3, <2>1
  <2>. QED
    BY <2>1, <2>2, <2>3, QueueIdsMember
<1>. QED
  BY <1>5, <1>6

\* An append adds exactly the appended entry's id to the used ids.
LEMMA AppendUsed ==
    ASSUME TypeOK, NEW p \in Projects, NEW e \in Entry,
           log' = [log EXCEPT ![p] = Append(@, e)]
    PROVE  UsedIds' = UsedIds \cup {e.id}
<1>1. \A q \in Projects :
          LogIds(q)' = IF q = p THEN LogIds(p) \cup {e.id} ELSE LogIds(q)
  BY AppendLogIds
<1>2. UsedIds' \subseteq UsedIds \cup {e.id}
  <2>. SUFFICES ASSUME NEW y \in UsedIds' PROVE y \in UsedIds \cup {e.id}
    OBVIOUS
  <2>1. PICK q \in Projects : y \in LogIds(q)'
    BY DEF UsedIds
  <2>. QED
    BY <1>1, <2>1 DEF UsedIds
<1>3. UsedIds \cup {e.id} \subseteq UsedIds'
  <2>1. e.id \in LogIds(p)'
    BY <1>1
  <2>2. \A q \in Projects : LogIds(q) \subseteq LogIds(q)'
    BY <1>1
  <2>. QED
    BY <2>1, <2>2 DEF UsedIds
<1>. QED
  BY <1>2, <1>3

\* A store write that appends an entry with a fresh id and resolves only
\* ids of the project's own log keeps ids unshared and resolved ids used.
LEMMA StoreWriteInv ==
    ASSUME TypeOK, UniqueIds, ResolvedUsed, NEW p \in Projects, NEW e \in Entry,
           e.id \notin UsedIds,
           log' = [log EXCEPT ![p] = Append(@, e)],
           \A q \in Projects : resolved'[q] \subseteq resolved[q] \cup LogIds(q)
    PROVE  UniqueIds' /\ ResolvedUsed'
<1>1. \A q \in Projects :
          LogIds(q)' = IF q = p THEN LogIds(p) \cup {e.id} ELSE LogIds(q)
  BY AppendLogIds
<1>2. \A q \in Projects : e.id \notin LogIds(q)
  BY DEF UsedIds
<1>3. UniqueIds'
  BY <1>1, <1>2 DEF UniqueIds
<1>4. ResolvedUsed'
  BY <1>1 DEF ResolvedUsed
<1>. QED
  BY <1>3, <1>4

\* A step that leaves the store alone keeps the store invariant's two
\* conjuncts about the logs.
LEMMA StoreFrameInv ==
    ASSUME UniqueIds, ResolvedUsed, UNCHANGED storeVars
    PROVE  UniqueIds' /\ ResolvedUsed'
<1>1. log' = log /\ resolved' = resolved
  BY DEF storeVars
<1>2. \A p \in Projects : LogIds(p)' = LogIds(p)
  BY <1>1 DEF LogIds
<1>. QED
  BY <1>1, <1>2 DEF UniqueIds, ResolvedUsed

\* _resolve_entry resolves only an id found in the project's recent events,
\* so in an id of that project's log.
LEMMA RecentUsed ==
    ASSUME NEW p \in Projects
    PROVE  RecentIds(p) \subseteq LogIds(p)
BY DEF RecentIds, LogIds

LEMMA InitStoreInv == Init => StoreInv
<1>. SUFFICES ASSUME Init PROVE StoreInv
  OBVIOUS
<1>1. TypeOK
  BY InitTypeOK
<1>2. \A p \in Projects : LogIds(p) = {} /\ resolved[p] = {}
  BY DEF Init, LogIds
<1>. QED
  BY <1>1, <1>2 DEF StoreInv, UniqueIds, ResolvedUsed

LEMMA StoreInvStep == StoreInv /\ [Next]_vars => StoreInv'
<1>. SUFFICES ASSUME StoreInv, [Next]_vars PROVE StoreInv'
  OBVIOUS
<1>0. TypeOK /\ UniqueIds /\ ResolvedUsed /\ TypeOK'
  BY TypeOKStep DEF StoreInv
<1>1. CASE \E p \in Projects, e \in Entry : AppendEntry(p, e)
  <2>1. PICK p \in Projects, e \in Entry : AppendEntry(p, e)
    BY <1>1
  <2>. QED
    BY <1>0, <2>1, StoreWriteInv DEF AppendEntry, FreeIds, StoreInv
<1>2. CASE \E id \in Ids : ResolveEntry(id)
  <2>1. PICK id \in Ids : ResolveEntry(id)
    BY <1>2
  <2>2. CASE \E p \in Projects, noteId \in FreeIds :
               /\ id \in RecentIds(p)
               /\ ResolveInStore(p, id, noteId)
    <3>1. PICK p \in Projects, noteId \in FreeIds :
                 id \in RecentIds(p) /\ ResolveInStore(p, id, noteId)
      BY <2>2
    <3>2. [id |-> noteId, attn |-> FALSE] \in Entry
      BY <3>1 DEF FreeIds, Entry
    <3>3. \A q \in Projects : resolved'[q] \subseteq resolved[q] \cup LogIds(q)
      BY <1>0, <3>1, RecentUsed DEF ResolveInStore, TypeOK
    <3>4. /\ [id |-> noteId, attn |-> FALSE].id \notin UsedIds
          /\ log' = [log EXCEPT ![p] = Append(@, [id |-> noteId, attn |-> FALSE])]
      BY <3>1 DEF ResolveInStore, FreeIds
    <3>. QED
      BY <1>0, <3>2, <3>3, <3>4, StoreWriteInv DEF StoreInv
  <2>3. CASE UNCHANGED storeVars
    BY <1>0, <2>3, StoreFrameInv DEF StoreInv
  <2>. QED
    BY <2>1, <2>2, <2>3 DEF ResolveEntry
<1>3. CASE UNCHANGED storeVars
  BY <1>0, <1>3, StoreFrameInv DEF StoreInv
<1>4. CASE PollWake \/ PollFail \/ DrainResume
  <2>1. UNCHANGED storeVars
    BY <1>4 DEF PollWake, PollFail, DrainResume, vars
  <2>. QED
    BY <1>0, <2>1, StoreFrameInv DEF StoreInv
<1>5. CASE PollStep
  <2>1. UNCHANGED storeVars
    BY <1>5 DEF PollStep, BroadcastAbort, BroadcastReshuffle, BroadcastSend, BroadcastDone
  <2>. QED
    BY <1>0, <2>1, StoreFrameInv DEF StoreInv
<1>6. CASE \E c \in Conns : Handshake(c) \/ Upgrade(c) \/ Teardown(c)
  <2>1. UNCHANGED storeVars
    BY <1>6 DEF Handshake, Upgrade, Teardown
  <2>. QED
    BY <1>0, <2>1, StoreFrameInv DEF StoreInv
<1>. QED
  BY <1>1, <1>2, <1>3, <1>4, <1>5, <1>6 DEF Next, vars

\* A step that leaves the store alone is a stutter of the abstract queue.
LEMMA StoreFrameQueue ==
    ASSUME UNCHANGED storeVars
    PROVE  UNCHANGED <<QueueIds, UsedIds \ QueueIds>>
<1>1. log' = log /\ resolved' = resolved
  BY DEF storeVars
<1>. QED
  BY <1>1 DEF QueueIds, UsedIds, LogIds

\* Every step of the server and of the processes writing the store is a step
\* of the abstract attention queue under the mapping queue <- get_queue(),
\* retired <- the other logged ids, or leaves both alone.
LEMMA StoreStepRefines ==
    StoreInv /\ [Next]_vars => [Queue!Next]_<<QueueIds, UsedIds \ QueueIds>>
<1>. SUFFICES ASSUME StoreInv, [Next]_vars
              PROVE  [Queue!Next]_<<QueueIds, UsedIds \ QueueIds>>
  OBVIOUS
<1>0. /\ TypeOK /\ UniqueIds /\ ResolvedUsed
      /\ QueueIds \subseteq UsedIds
      /\ UsedIds \subseteq Ids
  BY QueuedUsed, StoreIdsType DEF StoreInv
<1>1. CASE \E p \in Projects, e \in Entry : AppendEntry(p, e)
  <2>1. PICK p \in Projects, e \in Entry : AppendEntry(p, e)
    BY <1>1
  <2>2. /\ e.id \in Ids \ UsedIds
        /\ log' = [log EXCEPT ![p] = Append(@, e)]
        /\ resolved' = resolved
    BY <2>1 DEF AppendEntry, FreeIds
  <2>3. UsedIds' = UsedIds \cup {e.id}
    BY <1>0, <2>2, AppendUsed
  <2>4. QueueIds' = IF e.attn THEN QueueIds \cup {e.id} ELSE QueueIds
    BY <1>0, <2>2, AppendQueue
  <2>5. CASE e.attn
    <3>1. Queue!Enqueue(e.id)
      BY <1>0, <2>2, <2>3, <2>4, <2>5 DEF Queue!Enqueue, Queue!Known
    <3>. QED
      BY <2>2, <3>1 DEF Queue!Next
  <2>6. CASE ~e.attn
    <3>1. Queue!Record(e.id)
      BY <1>0, <2>2, <2>3, <2>4, <2>6 DEF Queue!Record, Queue!Known
    <3>. QED
      BY <2>2, <3>1 DEF Queue!Next
  <2>. QED
    BY <2>5, <2>6
<1>2. CASE \E id \in Ids : ResolveEntry(id)
  <2>1. PICK id \in Ids : ResolveEntry(id)
    BY <1>2
  <2>2. CASE \E p \in Projects, noteId \in FreeIds :
               /\ id \in RecentIds(p)
               /\ ResolveInStore(p, id, noteId)
    <3>1. PICK p \in Projects, noteId \in FreeIds :
                 id \in RecentIds(p) /\ ResolveInStore(p, id, noteId)
      BY <2>2
    <3>2. /\ id \in LogIds(p)
          /\ noteId \in Ids \ UsedIds
          /\ [id |-> noteId, attn |-> FALSE] \in Entry
          /\ log' = [log EXCEPT ![p] = Append(@, [id |-> noteId, attn |-> FALSE])]
      BY <3>1, RecentUsed DEF ResolveInStore, FreeIds, Entry
    <3>3. UsedIds' = UsedIds \cup {noteId}
      BY <1>0, <3>2, AppendUsed
    <3>4. QueueIds' = QueueIds \ {id}
      BY <1>0, <3>1, <3>2, ResolveQueue
    <3>5. id \in UsedIds
      BY <3>2 DEF UsedIds
    <3>6. Queue!Resolve(id, noteId)
      BY <1>0, <3>2, <3>3, <3>4, <3>5 DEF Queue!Resolve, Queue!Known
    <3>. QED
      BY <3>2, <3>6 DEF Queue!Next
  <2>3. CASE UNCHANGED storeVars
    BY <2>3, StoreFrameQueue
  <2>. QED
    BY <2>1, <2>2, <2>3 DEF ResolveEntry
<1>3. CASE UNCHANGED storeVars
  BY <1>3, StoreFrameQueue
<1>4. CASE PollWake \/ PollFail \/ DrainResume
  <2>1. UNCHANGED storeVars
    BY <1>4 DEF PollWake, PollFail, DrainResume, vars
  <2>. QED
    BY <2>1, StoreFrameQueue
<1>5. CASE PollStep
  <2>1. UNCHANGED storeVars
    BY <1>5 DEF PollStep, BroadcastAbort, BroadcastReshuffle, BroadcastSend, BroadcastDone
  <2>. QED
    BY <2>1, StoreFrameQueue
<1>6. CASE \E c \in Conns : Handshake(c) \/ Upgrade(c) \/ Teardown(c)
  <2>1. UNCHANGED storeVars
    BY <1>6 DEF Handshake, Upgrade, Teardown
  <2>. QED
    BY <2>1, StoreFrameQueue
<1>. QED
  BY <1>1, <1>2, <1>3, <1>4, <1>5, <1>6 DEF Next, vars

\* The store implements the abstract attention queue: from the empty logs
\* every behaviour of the server together with the appending processes and
\* POST /queue/{id}/resolve is a behaviour of AttentionQueue, for every set
\* of projects, ids and connections.  The proof rests on StoreInv: ids are
\* never shared between projects (so resolving in one project dequeues the
\* id) and resolved ids are logged ids (so a fresh id is never born resolved).
THEOREM StoreRefinement == Spec => StoreRefinesQueue
<1>1. Init => Queue!Init
  BY DEF Init, Queue!Init, QueueIds, UsedIds, LogIds
<1>2. Spec => []StoreInv
  BY InitStoreInv, StoreInvStep, PTL DEF Spec
<1>. QED
  BY <1>1, <1>2, StoreStepRefines, PTL DEF Spec, StoreRefinesQueue, Queue!Spec

=============================================================================
