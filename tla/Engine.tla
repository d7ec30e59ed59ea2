------------------------------- MODULE Engine -------------------------------
(***************************************************************************)
(* The orchestrator CLI (main.py -> Orchestrator in engine.py) acting on   *)
(* one project's metadata files (store.py) and on the Session Executor.   *)
(* Each CLI invocation is a separate OS process; processes share the files *)
(* project.json and sessions.json and the executor's set of sessions.      *)
(* A process's steps are its file operations and executor calls, so any   *)
(* two invocations run concurrently interleave at those points.  The       *)
(* constant Concurrent says whether invocations may overlap at all.        *)
(*                                                                         *)
(* Path.write_text opens the file with truncation and then writes it, so  *)
(* a write is two steps and a reader in between sees an empty or partial  *)
(* file ("torn"), on which json.loads raises JSONDecodeError.  main()      *)
(* catches only RuntimeError (exit 2) and WshClientError (exit 3): a       *)
(* decode error ends the process with a traceback ("crash").               *)
(*                                                                         *)
(* dispatch_command rebuilds the session record with                      *)
(* SessionContext( **asdict(session), state=..., last_signal=...,         *)
(* next_action=...), passing those keywords twice: Python raises          *)
(* TypeError there on every call, after the second _require_session.      *)
(* Every `assign` (argparse requires one or more commands) and every     *)
(* `send` that gets that far ends there, so the executor calls, the       *)
(* closing "idle" upsert, the snapshots and run_task's loop after the     *)
(* first dispatch are never reached and are not modelled.                 *)
(*                                                                         *)
(* Event-log appends made by the engine (status, handoff and note entries) *)
(* are left out: none of them asks for attention and no engine decision    *)
(* reads them.                                                             *)
(***************************************************************************)
EXTENDS Naturals, FiniteSets

CONSTANTS
    Procs,        \* CLI invocations
    NNames,       \* session names are 1..NNames (auto-naming takes the least free)
    ExecFaults,   \* whether an executor call may fail (non-2xx -> WshClientError)
    Concurrent    \* whether invocations may overlap

ASSUME NamesAssumption ==
    NNames \in Nat /\ IsFiniteSet(Procs) /\ Cardinality(Procs) <= NNames
ASSUME FlagsAssumption == ExecFaults \in BOOLEAN /\ Concurrent \in BOOLEAN

Names == 1..NNames
NoName == 0                  \* `assign` without --session-name
SessStates == {"none", "running", "idle"}
NoSessions == [n \in Names |-> "none"]
FileStates == {"absent", "torn", "ok"}

(* How a failed executor request ends the invocation: an HTTP error raises *)
(* WshClientError, a RuntimeError subclass that main's first handler turns *)
(* into exit 2 (so the exit-3 handler is dead code); a refused connection  *)
(* raises URLError, which nothing catches.  They are kept apart from the   *)
(* other exit-2 and traceback endings so that properties can name them.    *)
ExecErrors == {"exec_error", "exec_crash"}

Exits == {"exit0", "exit1", "exit2", "crash"} \cup ExecErrors
Steps == {"start", "init_trunc", "init_write", "init_sess", "init_sess_trunc",
          "init_sess_write", "next_name", "create", "get_project", "up_load",
          "up_trunc", "up_write", "d_require", "d_require2"}

VARIABLES
    projectFile,  \* project.json
    sessFile,     \* sessions.json
    sessions,     \* the session map sessions.json holds (or is being written with)
    wsh,          \* names of the sessions the executor has created
    snapshot,     \* whether snapshot.json exists
    pc,           \* each process's position
    cmd,          \* its subcommand
    arg,          \* its --session-name / session_name argument
    name,         \* the session it works on
    buf           \* the map an upsert_session in progress will write

fileVars == <<projectFile, sessFile, sessions, wsh, snapshot>>
procVars == <<pc, cmd, arg, name, buf>>
vars == <<fileVars, procVars>>

(* store._load_sessions: a missing file is the empty map. *)
Loaded == IF sessFile = "absent" THEN NoSessions ELSE sessions

(* store.list_sessions / get_session: the names with a record. *)
Tracked == {n \in Names : Loaded[n] # "none"}

Active(p) == pc[p] \notin Exits

(* Sequential use: an invocation starts only when none is in progress. *)
MayStart(p) == Concurrent \/ \A q \in Procs \ {p} : ~Active(q) \/ pc[q] = "start"

Goto(p, s) == pc' = [pc EXCEPT ![p] = s]

(* A read of a JSON file: absent -> onAbsent, torn -> JSONDecodeError. *)
ReadJson(p, file, onAbsent, onOk) ==
    Goto(p, CASE file = "absent" -> onAbsent
              [] file = "torn"   -> "crash"
              [] file = "ok"     -> onOk)

(* An executor request: it returns, or it raises. *)
ExecCall(p, onOk) ==
    \/ Goto(p, onOk)
    \/ ExecFaults /\ \E e \in ExecErrors : Goto(p, e)

Init ==
    /\ \/ projectFile = "absent" /\ sessFile = "absent"
       \/ projectFile = "ok" /\ sessFile = "ok"
    /\ sessions = NoSessions
    /\ wsh = {}
    /\ snapshot = (projectFile = "ok")
    /\ pc = [p \in Procs |-> "start"]
    /\ cmd = [p \in Procs |-> "none"]
    /\ arg = [p \in Procs |-> NoName]
    /\ name = [p \in Procs |-> NoName]
    /\ buf = [p \in Procs |-> NoSessions]

(* main(), `init`: ensure_project.                                         *)
StartInit(p) ==
    /\ cmd' = [cmd EXCEPT ![p] = "init"]
    /\ Goto(p, "init_trunc")
    /\ UNCHANGED <<arg, name>>

(* Mutant: create_session drops the `if session_name is None` test and  *)
(* asks the executor for a session with no name.                         *)
StartAssignNoAutoName(p, a) ==
    /\ cmd' = [cmd EXCEPT ![p] = "assign"]
    /\ arg' = [arg EXCEPT ![p] = a]
    /\ name' = [name EXCEPT ![p] = a]
    /\ Goto(p, "create")

(* main(), `assign`: run_task with --session-name a (or none); the        *)
(* commands and --heartbeat matter only after the first dispatch, which   *)
(* never returns.                                                         *)
StartAssign(p, a) ==
    /\ cmd' = [cmd EXCEPT ![p] = "assign"]
    /\ arg' = [arg EXCEPT ![p] = a]
    /\ name' = [name EXCEPT ![p] = a]
    /\ Goto(p, IF a = NoName THEN "next_name" ELSE "create")

(* main(), `send PROJECT SESSION COMMAND`.  The subparser's positional    *)
(* `command` has the dest of the subcommand itself, so args.command is    *)
(* the shell command, and main's if-chain reaches dispatch_command only  *)
(* when that command is the word "send"; any other word prints the help   *)
(* and returns 1.                                                         *)
StartSend(p, a, isSendWord) ==
    /\ cmd' = [cmd EXCEPT ![p] = "send"]
    /\ arg' = [arg EXCEPT ![p] = a]
    /\ name' = [name EXCEPT ![p] = a]
    /\ Goto(p, IF isSendWord THEN "d_require" ELSE "exit1")

(* A new CLI invocation.                                                  *)
Start(p) ==
    /\ pc[p] = "start"
    /\ MayStart(p)
    /\ \/ StartInit(p)
       \/ \E a \in Names \cup {NoName} : StartAssign(p, a)
       \/ \E a \in Names, w \in BOOLEAN : StartSend(p, a, w)
    /\ UNCHANGED <<fileVars, buf>>

(* store.ensure_project: project.json is truncated, then written; then   *)
(* snapshot.json is written if absent, and sessions.json is set to "{}"   *)
(* if absent, each check and write separate steps.                        *)
EnsureTruncate(p) ==
    /\ pc[p] = "init_trunc"
    /\ projectFile' = "torn"
    /\ Goto(p, "init_write")
    /\ UNCHANGED <<sessFile, sessions, wsh, snapshot, cmd, arg, name, buf>>

EnsureWrite(p) ==
    /\ pc[p] = "init_write"
    /\ projectFile' = "ok"
    /\ snapshot' = TRUE
    /\ Goto(p, "init_sess")
    /\ UNCHANGED <<sessFile, sessions, wsh, cmd, arg, name, buf>>

EnsureSessions(p) ==
    /\ pc[p] = "init_sess"
    /\ Goto(p, IF sessFile = "absent" THEN "init_sess_trunc" ELSE "exit0")
    /\ UNCHANGED <<fileVars, cmd, arg, name, buf>>

EnsureSessTrunc(p) ==
    /\ pc[p] = "init_sess_trunc"
    /\ sessFile' = "torn"
    /\ sessions' = NoSessions
    /\ Goto(p, "init_sess_write")
    /\ UNCHANGED <<projectFile, wsh, snapshot, cmd, arg, name, buf>>

EnsureSessWrite(p) ==
    /\ pc[p] = "init_sess_write"
    /\ sessFile' = "ok"
    /\ sessions' = NoSessions
    /\ Goto(p, "exit0")
    /\ UNCHANGED <<projectFile, wsh, snapshot, cmd, arg, name, buf>>

(* The least name with no record: _next_session_name counts up from 1.    *)
LeastFree == CHOOSE n \in Names \ Tracked : \A m \in Names \ Tracked : n <= m

(* _require_session: a torn file raises, a missing record is RuntimeError. *)
Require(p, next) ==
    Goto(p, CASE sessFile = "torn"                         -> "crash"
              [] sessFile # "torn" /\ name[p] \in Tracked    -> next
              [] sessFile # "torn" /\ name[p] \notin Tracked -> "exit2")

(* create_session, lines 42-43: an unnamed session gets the least free    *)
(* name from list_sessions.                                               *)
NextName(p) ==
    /\ pc[p] = "next_name"
    /\ \/ sessFile = "torn" /\ Goto(p, "crash") /\ UNCHANGED name
       \/ sessFile # "torn" /\ Goto(p, "create")
          /\ name' = [name EXCEPT ![p] = LeastFree]
    /\ UNCHANGED <<fileVars, cmd, arg, buf>>

(* Mutant: a WshClientError from create is swallowed and the session is  *)
(* recorded anyway.                                                        *)
CreateIgnoreFailure(p) ==
    /\ pc[p] = "create"
    /\ \/ wsh' = wsh \cup {name[p]} /\ Goto(p, "get_project")
       \/ ExecFaults /\ Goto(p, "get_project") /\ UNCHANGED wsh
    /\ UNCHANGED <<projectFile, sessFile, sessions, snapshot, cmd, arg, name, buf>>

(* create_session, line 44: the executor creates the session first.       *)
Create(p) ==
    /\ pc[p] = "create"
    /\ \/ wsh' = wsh \cup {name[p]} /\ Goto(p, "get_project")
       \/ ExecFaults /\ (\E e \in ExecErrors : Goto(p, e)) /\ UNCHANGED wsh
    /\ UNCHANGED <<projectFile, sessFile, sessions, snapshot, cmd, arg, name, buf>>

(* create_session, lines 47-60: only then is the project looked up; the   *)
(* session is recorded as running, and run_task's loop follows.           *)
GetProject(p) ==
    /\ pc[p] = "get_project"
    /\ ReadJson(p, projectFile, "exit2", "up_load")
    /\ UNCHANGED <<fileVars, cmd, arg, name, buf>>

(* Mutant: the record is written into a fresh map, not the loaded one.    *)
UpsertLoadFresh(p) ==
    /\ pc[p] = "up_load"
    /\ \/ sessFile = "torn" /\ Goto(p, "crash") /\ UNCHANGED buf
       \/ sessFile # "torn" /\ Goto(p, "up_trunc")
          /\ buf' = [buf EXCEPT ![p] = [NoSessions EXCEPT ![name[p]] = "running"]]
    /\ UNCHANGED <<fileVars, cmd, arg, name>>

(* store.upsert_session: load the map, set one record, write_text it.     *)
(* Its one reachable caller is create_session, recording "running".       *)
UpsertLoad(p) ==
    /\ pc[p] = "up_load"
    /\ \/ sessFile = "torn" /\ Goto(p, "crash") /\ UNCHANGED buf
       \/ sessFile # "torn" /\ Goto(p, "up_trunc")
          /\ buf' = [buf EXCEPT ![p] = [Loaded EXCEPT ![name[p]] = "running"]]
    /\ UNCHANGED <<fileVars, cmd, arg, name>>

UpsertTrunc(p) ==
    /\ pc[p] = "up_trunc"
    /\ sessFile' = "torn"
    /\ sessions' = buf[p]
    /\ Goto(p, "up_write")
    /\ UNCHANGED <<projectFile, wsh, snapshot, cmd, arg, name, buf>>

UpsertWrite(p) ==
    /\ pc[p] = "up_write"
    /\ sessFile' = "ok"
    /\ sessions' = buf[p]
    /\ buf' = [buf EXCEPT ![p] = NoSessions]    \* the local goes out of scope
    /\ Goto(p, "d_require")
    /\ UNCHANGED <<projectFile, wsh, snapshot, cmd, arg, name>>

(* dispatch_command, line 80: the session must be tracked.                *)
DRequire(p) ==
    /\ pc[p] = "d_require"
    /\ Require(p, "d_require2")
    /\ UNCHANGED <<fileVars, cmd, arg, name, buf>>

(* lines 81-86: the argument **asdict(self._require_session(...)) is    *)
(* evaluated first (torn file: crash; no record: RuntimeError, exit 2);  *)
(* then the SessionContext call raises TypeError, which main does not    *)
(* catch.                                                                 *)
DRequire2(p) ==
    /\ pc[p] = "d_require2"
    /\ Require(p, "crash")
    /\ UNCHANGED <<fileVars, cmd, arg, name, buf>>

Step(p) ==
    \/ Start(p) \/ EnsureTruncate(p) \/ EnsureWrite(p) \/ EnsureSessions(p)
    \/ EnsureSessTrunc(p) \/ EnsureSessWrite(p) \/ NextName(p) \/ Create(p)
    \/ GetProject(p) \/ UpsertLoad(p) \/ UpsertTrunc(p) \/ UpsertWrite(p)
    \/ DRequire(p) \/ DRequire2(p)

Next == \E p \in Procs : Step(p)

Spec == Init /\ [][Next]_vars

-----------------------------------------------------------------------------
TypeOK ==
    /\ projectFile \in FileStates /\ sessFile \in FileStates
    /\ sessions \in [Names -> SessStates]
    /\ wsh \subseteq Names
    /\ snapshot \in BOOLEAN
    /\ pc \in [Procs -> Steps \cup Exits]
    /\ cmd \in [Procs -> {"none", "init", "assign", "send"}]
    /\ arg \in [Procs -> Names \cup {NoName}]
    /\ name \in [Procs -> Names \cup {NoName}]
    /\ buf \in [Procs -> [Names -> SessStates]]

(* sessions.json only ever names sessions the executor has created:      *)
(* create_session calls the executor before it records the session, and  *)
(* every later upsert rewrites a map loaded from the file.                *)
TrackedSessionsExist == \A n \in Names : sessions[n] # "none" => n \in wsh

(* Every session the executor created for this project is recorded in    *)
(* sessions.json, or an invocation working on it is still running.        *)
NoOrphanSessions ==
    \A n \in wsh : sessions[n] # "none" \/ \E p \in Procs : Active(p) /\ name[p] = n

(* dispatch_command ends by recording the session "idle" with           *)
(* last_signal "completed_dispatch" (lines 119-126): a session is          *)
(* recorded as "running" only while an invocation working on it is still *)
(* in progress.                                                           *)
RunningOnlyIfUnfinished ==
    \A n \in Names : sessions[n] = "running" =>
        \E p \in Procs : name[p] = n /\ Active(p)

(* Two `assign` runs without --session-name never pick the same name.     *)
DistinctAutoNames ==
    \A p, q \in Procs :
        /\ p # q /\ Active(p) /\ Active(q)
        /\ cmd[p] = "assign" /\ cmd[q] = "assign" /\ arg[p] = NoName /\ arg[q] = NoName
        /\ pc[p] \notin {"start", "next_name"} /\ pc[q] \notin {"start", "next_name"}
        => name[p] # name[q]

(* `send PROJECT SESSION COMMAND` ("send a command to an existing tracked *)
(* session") never ends by printing the usage.                            *)
SendDispatches == \A p \in Procs : cmd[p] = "send" => pc[p] # "exit1"

(* The session map behaves as an atomic registry: each change of it is   *)
(* one upsert of one session.                                             *)
Registry == INSTANCE SessionRegistry WITH registry <- sessions
SessionsRefineRegistry == Registry!Spec
=============================================================================
