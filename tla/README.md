# Formal models of the wsh orchestrator

This directory holds TLA+ models of the orchestrator in `src/orchestrator/`.
It has TLC configurations that check them on small instances, and TLAPS proofs
that hold for every value of the constants.

## 1. The system

The orchestrator has two kinds of process that share one directory of files
under `ContextStore.root`.

* **CLI processes** (`main.py` → `OrchestratorEngine` in `engine.py`). They
  create projects and sessions, dispatch commands to wsh sessions through
  `WshApiClient`, and append events to `events.jsonl` (`store.append_entry`).
  Some events carry `human_attention_needed`.
* **The queue server** (`server.py`, `QueueServer`). It is one asyncio event
  loop with three kinds of coroutine:
  * `_poll_queue`: one task. Every 2 s it reads `store.get_queue()`, diffs it
    against `_known_queue_ids`, and calls `_broadcast` for each `queue_add`,
    then for each `queue_remove`. Only after all of them does it set
    `_known_queue_ids = current_ids`.
  * `_broadcast`: iterates the live set `ws_clients` and awaits `client.send`
    on each. `send` writes a frame and awaits `writer.drain()`. Any error sets
    `closed` and is swallowed.
  * `_handle_connection`: one coroutine per TCP connection. It serves the HTTP
    routes. `POST /queue/{id}/resolve` → `_resolve_entry` looks for the id in
    the last 1000 events of each project and calls `store.resolve_entry`. On a
    WebSocket upgrade it runs `_handle_ws_upgrade`: write the 101 response,
    register in `ws_clients`, send a `queue_snapshot`, read until close, then
    unregister.

They interact only through the store files (the event log and the
resolved-id sets) and, inside the server, through `ws_clients` and the event
loop. The event loop switches coroutine only at an `await` that really
suspends. Here those are `asyncio.sleep`, a `drain()` on a paused or closing
transport, and reads.

### Inventory

| component | source | state | operations | status |
|---|---|---|---|---|
| poll-diff broadcaster | server.py 142-174 | `_known_queue_ids`, the tick's position, the set iterator | sleep/get_queue, broadcast each add/remove, send to each client, update known | modelled (`QueueServer`) |
| registry and WS handler | server.py 76-115, 350-387 | `ws_clients`, per-connection `closed`, handler stage | handshake, register+snapshot, recv loop, teardown | partly (ping recursion not yet) |
| resolution | server.py 311-320, store `resolve_entry` | per-project resolved ids, resolution notes | POST resolve | modelled |
| queue deriver | store `get_queue` | derived | read | modelled (spec-modelled: not defined in src/) |
| event log | store.py 65-82, models.py 49-90 | `events.jsonl` per project | append, tail read | partly (id-less lines planned) |
| HTTP parsing | server.py 178-346 | per request | parse request, read body, route | not modelled (planned) |
| WS framing | server.py 30-73 | none | encode/decode | not modelled (planned) |
| engine | engine.py 21-88, 214-228, store.py 32-58, 98-125 | `project.json`, `sessions.json`, snapshot, executor sessions | ensure_project, create_session, dispatch_command up to its TypeError | partly (`Engine`; the rest of dispatch_command and run_task are unreachable; the event appends are `QueueServer`'s) |
| session registry (abstract) | store.py 98-125 | the session map | upsert | `SessionRegistry` |
| attention queue (abstract) | store.py 65-71, server.py 311-320 | queued and retired ids | enqueue, record, resolve | `AttentionQueue`, refined by `QueueServer` |
| executor client | wsh_client.py 23-44 | none | a request that returns or raises | modelled (`ExecCall`) |
| CLI | main.py | subcommand, exit code | init, assign, send | partly (status, pull, list are read-only) |
| config | config.py | none | environment plumbing | not modelled |

## 2. The model `QueueServer.tla`

**Constants.**
* `Projects`, `Ids` and `Conns` are sets of model values.
* `Limit` is `_resolve_entry`'s `limit=1000`, scaled down.
* `StorageFaults` lets `get_queue()` raise, for example on a torn line written
  concurrently by `append_entry`.
* `NoConn` is a sentinel.

**Data abstraction.**
* An entry is `[id, attn]`. Ids are fresh, as `uuid4` makes them.
* A message is `[type, ids]`.
* A client is abstracted to `view[c]`, the ids it displays after applying
  every message in order, and `removedIds[c]`, the ids it was told to remove.
  Frames on a live transport arrive in order, so a client's state is a fold of
  its messages, and the model applies each message at the write.

**Control.** `pc` is the poll task's position (`sleep` or `bcast`). The rest
of the tick is tracked by these variables:
* `current_ids`;
* `pendingAdd` and `pendingRemove`, the broadcasts still to do;
* `msg`, the message now being broadcast;
* `iterSet`, the set the iterator was created over;
* `todo`, the clients it still visits;
* `waiting`, the client whose `drain()` suspended the task.

`PollRunning` means the task holds the loop. Every action of another coroutine
is guarded by `~PollRunning`. This is the cooperative scheduling of asyncio.

| action | code |
|---|---|
| `AppendEntry` | `store.append_entry` from any process |
| `ResolveEntry` / `ResolveInStore` | `_resolve_entry` + `store.resolve_entry` (the note entry included) |
| `PollWake`, `PollFail` | `sleep` ends, `get_queue` succeeds / raises (`except` prints) |
| `NextBroadcast` | the tick's loops: next add, else next remove, else `_known_queue_ids = current_ids` |
| `BroadcastSend` | one iteration of `for client in self.ws_clients` + `send` (skip closed, deliver, suspend in drain, fail) |
| `BroadcastAbort` | `next()` raises `RuntimeError: Set changed size during iteration`; tick aborted without updating known |
| `BroadcastReshuffle` | `next()` after a same-size mutation: the iterator continues over the rewritten table and visits an undetermined subset |
| `BroadcastDone` | iterator exhausted |
| `DrainResume` | the suspended `drain()` returns or raises |
| `Handshake`, `Upgrade`, `Teardown` | `_handle_ws_upgrade`: 101 + drain; register + `get_queue` + snapshot (3 outcomes); the `recv` loop ends, `finally` discards and closes (380-387) |

## 3. Runs (`MCQueueServer.tla` adds symmetry)

| run | cfg | checks | expect |
|---|---|---|---|
| churn | 3 ids, 3 conns, 1 project, Limit 2, faults | `TypeOK`, `NoReAdd`, `StoreRefinesQueue` | pass (264,362 states) |
| stall | 3 ids, 2 conns, 2 projects, faults, `FairSpec` | `KnownConverges` | violation |
| iter_skip | 3 ids, 3 conns, no faults | `NoMissedItems` | violation |
| ghost | 2 ids, 1 conn, `ReadingSpec` | `ClientConverges` | violation |
| registry_leak | 2 ids, 2 conns, faults | `RegistryTracksHandlers` | violation |
| resolve_window | 3 ids, 1 conn, Limit 2 | `QueuedItemsResolvable` | violation |

**The properties.**
* `NoReAdd`: a client never displays an id it was told to remove. Ids are
  fresh and resolution is permanent, so a re-add would be a broadcast bug.
  It takes a tick that remembers too little (an aborted one re-sends its
  adds) or removes sent before their adds to break it.
* `StoreRefinesQueue`: the store implements `AttentionQueue.tla`, the
  abstract queue the server relies on. It has two sets, `queue` and
  `retired`. A fresh id is enqueued (an attention entry) or retired (any other
  entry). Resolving a known id dequeues it and retires it together with the
  note's fresh id. Nothing else changes the two sets. The mapping is
  `queue <- QueueIds` (`get_queue()`) and `retired <- UsedIds \ QueueIds`.
  Its mutant logs the resolution note as an attention entry.
* `NoMissedItems`: between ticks, every live registered client displays every
  queued item the server believes it announced. It fails with three
  connections (iter_skip).
* `KnownConverges`: `_known_queue_ids` eventually always equals the queue
  (spec 4.4, with spec 5's rule that no component waits longer than one I/O
  operation or one tick sleep).
* `ClientConverges`: every live client eventually displays exactly the queue.
* `RegistryTracksHandlers`: every registered connection still has a running
  handler.
* `QueuedItemsResolvable`: every queued item can be found by
  `_resolve_entry`.

**Bounds.**
* Three clients are the fewest for the same-size mutation in `iter_skip`: one
  leaves, one joins, one is being sent to. churn uses three as well, so the
  iterator's rewritten-set and size-change cases both occur there.
* Three ids allow two items in flight plus a resolution note.
* A window of `Limit = 2` makes the 1000-event window reachable with three
  appends.

Symmetry over `Ids` and `Conns` is used only in the safety runs. The
properties treat ids and connections uniformly.

**Fairness.** `FairSpec` assumes only what the code guarantees:
* `PollWake` and `PollStep`: the poll task's `asyncio.sleep` always returns
  and the loop always resumes a runnable task, so a tick starts and, unless
  it is suspended in `drain()`, runs on. A failed `get_queue()` (`PollFail`)
  ends the tick at once; the timer fires again.
* `LostDrain` (`DrainResume` on a connection whose handler has closed the
  writer): asyncio raises in the suspended `drain()` once the connection is
  lost.

`ReadingSpec` adds `ReadingClients`, weak fairness of every `DrainResume`:
each client keeps reading, so every `drain()` ends. The code does not
guarantee this. `ws_write_frame` awaits `drain()` with no timeout
(server.py:73), and nothing else ends it. Handlers and other processes get no
fairness. Nothing forces a client to connect or a human to resolve.

**Findings** (details in `PROJECT.json`):
1. `_broadcast` iterates the live set, so a client can be skipped for good
   (iter_skip).
2. A live client that stops reading holds the single poll task in `drain()`
   for good, so no client gets another update (stall). TLC's trace ends in a
   `BroadcastSend` whose client's handler is still open, then stutters.
3. The on-connect snapshot can show an item that no `queue_remove` ever
   clears (ghost). This holds even when every client reads (`ReadingSpec`),
   so it is a separate defect from the stall.
4. A `get_queue` failure during the upgrade leaks a registration
   (registry_leak).
5. Items older than the resolution window cannot be resolved
   (resolve_window).

## 4. Proofs (`QueueServerProofs.tla`)

The proofs assume `LimitAssumption` and `NoConnAssumption`. Every lemma and
theorem is checked by TLAPS (685 obligations).

* **`TypeCorrect: Spec => []TypeOK`.**
  * `TypeOK` is inductive as it stands: `InitTypeOK` and `TypeOKStep`, with
    one step per action.
  * It rests on `StoreIdsType` (the derived id sets are sets of ids),
    `AppendLogType`, `DeliverType` and `NextBroadcastType`.
* **`NoReAddHolds: Spec => []NoReAdd`.** `NoReAdd` alone is not inductive.
  Whether a client is later shown an id depends on what the poll task
  remembers and is about to send. The strengthening `IInv` adds these facts
  to `TypeOK`:
  * the poll task's `known_queue_ids` and `current_ids` are ids in the logs;
  * the message being broadcast is an add or a remove;
  * every pending remove, every remove being broadcast, and every id a client
    was told to remove is *settled* (`Settled`: in a log and not queued);
  * while a remove is broadcast, no add is pending;
  * pending adds and the add being broadcast avoid every client's removed ids.

  `IInv` was model-checked with TLC on the churn instance before it was
  proved. The key lemma is `StoreWriteSettled`. Appends take fresh ids and
  resolved-id sets only grow, so a settled id never re-enters the queue.
  From that, `NextBroadcastInv` and `DeliverInv` carry the strengthening
  across the tick's steps. The frame lemmas `ClientStepInv` and
  `PollStepInv` cover the steps that touch only one side. `IInvStep` has one
  step per action.

* **`StoreRefinement: Spec => StoreRefinesQueue`.** The invariant `StoreInv`
  is `TypeOK` plus two facts:
  * `UniqueIds`: no id is in two projects' logs;
  * `ResolvedUsed`: a project's resolved set holds only ids of its own log.

  Without `UniqueIds`, resolving an id in the first project that has it
  would leave the id queued in another project. Without `ResolvedUsed`, a
  fresh attention entry could be born resolved. Both hold because appends
  take fresh ids and `_resolve_entry` resolves only ids it found in that
  project's recent events (`RecentUsed`). `StoreInv` was model-checked on the
  two-project instance of the stall run (1,187,935 states) before it was
  proved.

  The store lemmas compute the abstract variables after each write:
  * `AppendLogIds` and `AppendUsed`: an append adds the entry's id;
  * `AppendQueue`: the id joins the queue only for an attention entry;
  * `ResolveQueue`: `resolve_entry` removes exactly the resolved id.

  `StoreStepRefines` then matches each action:
  * `AppendEntry` is `Enqueue` or `Record`;
  * the store branch of `ResolveEntry` is `Resolve`;
  * every other step stutters (`StoreFrameQueue`).

**Only model-checked.** These stay with TLC:
* the liveness properties `KnownConverges` and `ClientConverges`, which rely
  on fairness and ENABLED and are out of the prover's reach (and are false
  in the code: stall and ghost);
* the violation runs.

## 5. The CLI engine: `Engine.tla`, `SessionRegistry.tla`

Each CLI call (`main.py`) is an OS process that runs `OrchestratorEngine`
methods against the same project directory. `Procs` are those invocations.
Their steps interleave at every file operation and executor request. With
`Concurrent = FALSE`, an invocation starts only when no other is in progress
(`MayStart`). This is the single writer process that spec section 5 assumes.
With `Concurrent = TRUE`, invocations overlap, as two shells calling the CLI
do.

**State.**
* `projectFile` and `sessFile` are `absent`, `torn` or `ok`. `torn` is the
  moment between the truncate and the write of `Path.write_text`. A read then
  decodes an empty file, `json.loads` raises, and main does not catch it
  (`crash`).
* `sessions` is the map `sessions.json` holds, from names to `none`,
  `running` or `idle`. The other fields of a record are data no property
  reads.
* `wsh` is the executor's set of sessions. `snapshot` is whether
  `snapshot.json` exists.
* Per invocation: `pc`, the subcommand `cmd`, `arg`, the session `name`, and
  the map `buf` that an upsert in progress will write.

**Actions.** Every store call is split at its file operations:
* `ensure_project`: `EnsureTruncate`, `EnsureWrite`, `EnsureSessions`,
  `EnsureSessTrunc`, `EnsureSessWrite`.
* `upsert_session`: `UpsertLoad` (load and modify), `UpsertTrunc`,
  `UpsertWrite`.
* `create_session`: `NextName` (`_next_session_name` takes the least free
  name), `Create` (the executor call, made first), `GetProject`.
* `dispatch_command`: `DRequire` (line 80) and `DRequire2` (lines 81-86).

`DRequire2` ends every invocation that reaches it. The argument
`**asdict(self._require_session(...))` is evaluated first, so a torn file
crashes and a missing record is a `RuntimeError` (exit 2). After that the
`SessionContext(...)` call gets `state`, `last_signal` and `next_action`
twice, once from `asdict` and once as keywords. Python raises `TypeError` on
every call, and main does not catch it. The rest of `dispatch_command` (the
executor calls, the closing `idle` upsert, the heartbeat snapshot) and
`run_task`'s loop after its first dispatch are never reached, so they are
not modelled.

A failed executor request is an HTTP error or a refused connection.
`WshClientError` subclasses `RuntimeError`, so main reports it as exit 2, and
its exit-3 handler is dead code. A `URLError` is a traceback (`ExecErrors`).
Event appends are left out; `QueueServer` models the log. `created.get("name")`
is taken to be the requested name.

**Runs** (`MCEngine.tla` adds symmetry over `Procs`; `CHECK_DEADLOCK FALSE`,
because every invocation ends):

| run | instance | checks | expect |
|---|---|---|---|
| engine_seq | 3 invocations, 3 names, executor faults, sequential | `SessionsRefineRegistry` | pass |
| engine_concurrent | 2 invocations, 2 names, executor faults, concurrent | `TypeOK`, `TrackedSessionsExist` | pass |
| assign_crash | 1 invocation, 1 name, healthy executor | `RunningOnlyIfUnfinished` | violation |
| lost_update | 2 concurrent | `SessionsRefineRegistry` | violation |
| orphan_session | 2 sequential, project absent at first | `NoOrphanSessions` | violation |
| send_word | 1 invocation | `SendDispatches` | violation |

**The properties.**
* `SessionsRefineRegistry`: the session map changes only by atomic upserts
  (`SessionRegistry`, with `registry <- sessions`). Under it, a record, once
  written, is never lost.
* `TrackedSessionsExist`: every recorded session was created by the executor.
* `RunningOnlyIfUnfinished`: a `running` record has an invocation still
  working on it. `dispatch_command` is written to end with the `idle` upsert
  (lines 119-126).
* `DistinctAutoNames` (stated, not a run): two assigns without
  `--session-name` never pick the same name.

Two names are enough for two invocations to collide, and three invocations
in sequence reach a second upsert of a record already in the file. Three
concurrent invocations were checked for `IInv` with TLC; that instance is
too slow for a routine run.

**Findings:**
1. Every `assign` crashes in `dispatch_command` with a `TypeError`
   (engine.py:82-86), and leaves its session recorded `running` for good
   (assign_crash). The shortest trace is a single assign with a healthy
   executor.
2. The lost update (store.py:102, 49-50).
3. The orphan executor session (engine.py:44).
4. `send` never dispatches: the send subparser's positional `command`
   overwrites the subcommand name (main.py:24/42/89). A `send` that got past
   this would meet the same `TypeError`.

The lost update occurs only outside the single-writer assumption, so it is
listed as a spec gap. The same missing per-project lock causes two more
hazards, listed in `PROJECT.json` without runs of their own:
* a read between another invocation's truncate and write dies with an
  uncaught `JSONDecodeError` (store.py:36/104, main.py:116);
* two assigns choose the same automatic name (engine.py:221).
  `DistinctAutoNames` states this, and TLC finds it violated with two
  concurrent invocations in under 400 states.

**Proofs (`EngineProofs.tla`, 854 obligations).** These hold for all `Procs`
and `NNames` under `NamesAssumption` (finitely many invocations, no more than
names) and `FlagsAssumption`.
* `EngineTypeCorrect` (`[]TypeOK`) and `TrackedSessionsExistHolds`.
  `TrackedSessionsExist` is not inductive. An upsert's buffer and a
  `get_project` step may carry a name not yet in the file. `IInv` adds that
  every such name, and every recorded one, is `Backed`: created by the
  executor and owned by an invocation past naming (`Owner`). `IInvStep` has
  one step per action.
* `AutoNameWithinBound`. It rests on `FreeNameExists`, a counting argument:
  the tracked names are owned by other invocations, which are fewer than
  `NNames` (`FS_Surjection`, `FS_Subset`). It also rests on `LeastExists`,
  the least element by the well-foundedness of `<` on `Nat`.
* `SequentialRefinement`: with `~Concurrent`, `Spec => Registry!Spec`. `SeqInv`
  says that at most one invocation is in progress, and what its `buf` holds
  at each step of an upsert. `buf` at `up_trunc` is the file with one entry
  set to `running`, so the truncate is `Registry!Upsert`, and every other
  step stutters on `sessions` (`RefineStep`).

## 6. Not modelled, and why

* The WS accept key (SHA-1/base64) and JSON encoding are pure data
  conversions. No property distinguishes them.
* `wsh_client.py` appears only as a request that succeeds or raises.
* main's status, pull and list only read. `config.py` is environment
  plumbing.
* `dispatch_command` after line 86 and `run_task` after its first dispatch:
  unreachable because of the `TypeError` (section 5).

## 7. Plan for later work

1. **Connection details.** Add ping handling to `QueueServer`, with the depth
   of `recv()`'s recursion bounded by a named constant (hazard server.py:100).
2. **`WsFrame.tla`** (TLC only). Model `ws_write_frame` and `ws_read_frame` as
   operators on byte sequences, checked for the round trip across lengths
   125/126/65535/65536 and with masking.
3. **Engine.** Add the event appends to `Engine`, composing it with
   `QueueServer` through the log. Once the `TypeError` is fixed, model the
   rest of `dispatch_command` and `run_task`.
4. **Client view.** An abstract queue that clients observe, with
   `QueueServer` shown to refine it where the findings allow (the store side
   is done: `AttentionQueue`).
5. **Proofs.** Prove `NoMissedItems` for any number of connections in a model
   whose iterator runs over a copy of the set, as the fix for iter_skip would.
