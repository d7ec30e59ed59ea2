---------------------------- MODULE EngineProofs ----------------------------
(***************************************************************************)
(* Proofs about Engine, for every number of invocations and names.        *)
(***************************************************************************)
EXTENDS Engine, FiniteSetTheorems, WellFoundedInduction, TLAPS

InitSteps == {"init_trunc", "init_write", "init_sess", "init_sess_trunc", "init_sess_write"}
CreateSteps == {"next_name", "create", "get_project"}
DispatchSteps == {"up_load", "up_trunc", "up_write", "d_require", "d_require2"}

(* The control point of each invocation agrees with its subcommand, and  *)
(* once its session name is fixed it is a name of the bound.              *)
Phase(p) ==
    /\ pc[p] \in InitSteps => cmd[p] = "init"
    /\ pc[p] \in CreateSteps => cmd[p] = "assign"
    /\ pc[p] \in DispatchSteps => cmd[p] \in {"assign", "send"}
    /\ pc[p] \in {"create", "get_project"} \cup DispatchSteps => name[p] \in Names

(* An `assign` invocation past naming that works on session n.           *)
Owner(n) == \E q \in Procs : cmd[q] = "assign" /\ pc[q] \notin {"start", "next_name"} /\ name[q] = n

(* n is an executor session and some `assign` has claimed it.            *)
Backed(n) == n \in wsh /\ Owner(n)

(* Every record sessions.json holds is backed.                            *)
SessionsBacked == \A n \in Names : sessions[n] # "none" => Backed(n)

(* What an invocation holds: the map it is writing has only backed       *)
(* records, and the session it is about to record is backed.            *)
ProcInv(p) ==
    /\ Phase(p)
    /\ pc[p] \in {"up_trunc", "up_write"} =>
           \A n \in Names : buf[p][n] # "none" => Backed(n)
    /\ pc[p] \in {"get_project", "up_load"} => Backed(name[p])

(* The inductive strengthening of TypeOK and TrackedSessionsExist.        *)
IInv == TypeOK /\ SessionsBacked /\ \A p \in Procs : ProcInv(p)

(* An invocation that has started and not yet exited.                     *)
InProgress(p) == pc[p] \notin {"start"} \cup Exits

(* In sequential use: one invocation at a time, and an upsert_session in *)
(* progress holds the file's map with its one record set.                *)
SeqInv ==
    /\ sessFile = "absent" => sessions = NoSessions
    /\ \A p, q \in Procs : InProgress(p) /\ InProgress(q) => p = q
    /\ \A p \in Procs : pc[p] = "up_trunc" =>
           buf[p] = [sessions EXCEPT ![name[p]] = "running"]
    /\ \A p \in Procs : pc[p] = "up_write" => buf[p] = sessions
    /\ \A p \in Procs : pc[p] \in {"init_sess_trunc", "init_sess_write"} => sessions = NoSessions

-----------------------------------------------------------------------------
(* A nonempty set of naturals has a least element (from the               *)
(* well-foundedness of < on Nat).                                         *)
LEMMA LeastExists ==
    ASSUME NEW T \in SUBSET Nat, T # {}
    PROVE  \E x \in T : \A y \in T : x <= y
<1>1. \E x \in T : \A y \in T : ~(<<y, x>> \in OpToRel(<, Nat))
  BY NatLessThanWellFounded, WFMin
<1>2. ASSUME NEW x \in T, NEW y \in T, ~(<<y, x>> \in OpToRel(<, Nat))
      PROVE  x <= y
  <2>1. <<y, x>> \in Nat \X Nat
    OBVIOUS
  <2>2. ~(y < x)
    BY <2>1, <1>2 DEF OpToRel
  <2>. QED
    BY <2>2
<1>. QED
  BY <1>1, <1>2

(* _next_session_name always finds a name within the bound: every tracked *)
(* name is claimed by another `assign` invocation, and there are fewer of *)
(* those than names (NamesAssumption).                                    *)
LEMMA FreeNameExists ==
    ASSUME IInv, NEW p \in Procs, pc[p] = "next_name"
    PROVE  Names \ Tracked # {}
<1> DEFINE Others == Procs \ {p}
           Img == {name[q] : q \in Others}
           f == [q \in Others |-> name[q]]
<1> HIDE DEF Others, Img, f
<1>1. Tracked \subseteq Img
  <2> SUFFICES ASSUME NEW n \in Tracked PROVE n \in Img
    OBVIOUS
  <2>1. sessions[n] # "none"
    BY DEF Tracked, Loaded, NoSessions
  <2>2. PICK q \in Procs : cmd[q] = "assign" /\ pc[q] \notin {"start", "next_name"} /\ name[q] = n
    BY <2>1 DEF IInv, SessionsBacked, Backed, Owner, Tracked
  <2>3. q # p
    BY <2>2
  <2>. QED
    BY <2>2, <2>3 DEF Img, Others
<1>2. IsFiniteSet(Others) /\ Cardinality(Others) = Cardinality(Procs) - 1
  BY NamesAssumption, FS_RemoveElement DEF Others
<1>3. f \in Surjection(Others, Img)
  BY DEF Surjection, f, Img
<1>4. IsFiniteSet(Img) /\ Cardinality(Img) <= Cardinality(Others)
  BY <1>2, <1>3, FS_Surjection
<1>5. IsFiniteSet(Names) /\ Cardinality(Names) = NNames
  BY NamesAssumption, FS_Interval DEF Names
<1>6. SUFFICES ASSUME Names \subseteq Img PROVE FALSE
  BY <1>1 DEF Tracked
<1>7. Cardinality(Names) <= Cardinality(Img)
  BY <1>4, <1>6, FS_Subset
<1>8. Cardinality(Procs) \in Nat
  BY NamesAssumption, FS_CardinalityType
<1>9. Cardinality(Img) \in Nat /\ Cardinality(Others) \in Nat
  BY <1>2, <1>4, FS_CardinalityType
<1>10. Cardinality(Names) <= Cardinality(Procs) - 1
  BY <1>2, <1>4, <1>5, <1>7, <1>8, <1>9, NamesAssumption
<1>. QED
  BY <1>5, <1>8, <1>10, NamesAssumption

(* So the name chosen is a free name of the bound.                       *)
LEMMA LeastFreeFree ==
    ASSUME IInv, NEW p \in Procs, pc[p] = "next_name"
    PROVE  LeastFree \in Names \ Tracked
<1>a. Names \ Tracked \in SUBSET Nat
  BY DEF Names
<1>b. Names \ Tracked # {}
  BY FreeNameExists
<1>1. \E x \in Names \ Tracked : \A y \in Names \ Tracked : x <= y
  BY <1>a, <1>b, LeastExists
<1>. QED
  BY <1>1 DEF LeastFree

(* One invocation's step leaves every other invocation's local state     *)
(* alone; once past naming, an invocation keeps its subcommand and name   *)
(* and never returns to naming; the executor never loses a session.       *)
LEMMA StepFrame ==
    ASSUME TypeOK, NEW p \in Procs, Step(p)
    PROVE  /\ \A q \in Procs \ {p} :
                  /\ pc'[q] = pc[q] /\ cmd'[q] = cmd[q] /\ name'[q] = name[q]
                  /\ buf'[q] = buf[q]
           /\ pc[p] \notin {"start", "next_name"} =>
                  /\ cmd'[p] = cmd[p] /\ name'[p] = name[p]
                  /\ pc'[p] \notin {"start", "next_name"}
           /\ wsh \subseteq wsh'
<1> USE DEF TypeOK, FileStates, fileVars, Goto, ReadJson, ExecCall, ExecErrors, Require, Steps, Exits, SessStates, NoSessions, Loaded
<1>1. CASE Start(p)
  BY <1>1 DEF Start, StartInit, StartAssign, StartSend
<1>2. CASE EnsureTruncate(p)
  BY <1>2 DEF EnsureTruncate
<1>3. CASE EnsureWrite(p)
  BY <1>3 DEF EnsureWrite
<1>4. CASE EnsureSessions(p)
  BY <1>4 DEF EnsureSessions
<1>5. CASE EnsureSessTrunc(p)
  BY <1>5 DEF EnsureSessTrunc
<1>6. CASE EnsureSessWrite(p)
  BY <1>6 DEF EnsureSessWrite
<1>7. CASE NextName(p)
  BY <1>7 DEF NextName
<1>8. CASE Create(p)
  BY <1>8 DEF Create
<1>9. CASE GetProject(p)
  BY <1>9 DEF GetProject
<1>10. CASE UpsertLoad(p)
  BY <1>10 DEF UpsertLoad
<1>11. CASE UpsertTrunc(p)
  BY <1>11 DEF UpsertTrunc
<1>12. CASE UpsertWrite(p)
  BY <1>12 DEF UpsertWrite
<1>13. CASE DRequire(p)
  BY <1>13 DEF DRequire
<1>14. CASE DRequire2(p)
  BY <1>14 DEF DRequire2
<1>. QED
  BY <1>1, <1>2, <1>3, <1>4, <1>5, <1>6, <1>7, <1>8, <1>9, <1>10, <1>11, <1>12, <1>13, <1>14 DEF Step

(* So a backed name stays backed.                                        *)
LEMMA BackedStable ==
    ASSUME TypeOK, NEW p \in Procs, Step(p)
    PROVE  \A n : Backed(n) => Backed(n)'
<1> SUFFICES ASSUME NEW n, Backed(n) PROVE Backed(n)'
  OBVIOUS
<1>1. n \in wsh'
  BY StepFrame DEF Backed
<1>2. PICK q \in Procs : cmd[q] = "assign" /\ pc[q] \notin {"start", "next_name"} /\ name[q] = n
  BY DEF Backed, Owner
<1>3. cmd'[q] = "assign" /\ pc'[q] \notin {"start", "next_name"} /\ name'[q] = n
  BY <1>2, StepFrame
<1>. QED
  BY <1>1, <1>3 DEF Backed, Owner

(* And the other invocations keep their part of the invariant.           *)
LEMMA ProcInvFrame ==
    ASSUME IInv, NEW p \in Procs, Step(p)
    PROVE  \A q \in Procs \ {p} : ProcInv(q)'
<1> SUFFICES ASSUME NEW q \in Procs \ {p} PROVE ProcInv(q)'
  OBVIOUS
<1>1. pc'[q] = pc[q] /\ cmd'[q] = cmd[q] /\ name'[q] = name[q] /\ buf'[q] = buf[q]
  BY StepFrame DEF IInv
<1>2. \A n : Backed(n) => Backed(n)'
  BY BackedStable DEF IInv
<1>3. ProcInv(q)
  BY DEF IInv
<1>. QED
  BY <1>1, <1>2, <1>3 DEF ProcInv, Phase

(* The initial states satisfy the invariant.                             *)
LEMMA InitIInv == Init => IInv
<1> SUFFICES ASSUME Init PROVE IInv
  OBVIOUS
<1>1. TypeOK
  BY DEF Init, TypeOK, NoSessions, FileStates, Steps, Exits, ExecErrors, SessStates
<1>2. SessionsBacked
  BY DEF Init, SessionsBacked, NoSessions
<1>3. \A p \in Procs : ProcInv(p)
  BY DEF Init, ProcInv, Phase, InitSteps, CreateSteps, DispatchSteps
<1>. QED
  BY <1>1, <1>2, <1>3 DEF IInv

(* Every step preserves it.                                              *)
LEMMA IInvStep == IInv /\ [Next]_vars => IInv'
<1> SUFFICES ASSUME IInv, [Next]_vars PROVE IInv'
  OBVIOUS
<1>1. CASE UNCHANGED vars
  BY <1>1 DEF vars, fileVars, procVars, IInv, TypeOK, SessionsBacked, ProcInv, Phase, Backed, Owner
<1>2. ASSUME NEW p \in Procs, Step(p) PROVE IInv'
<2>s. \A n : Backed(n) => Backed(n)'
  BY <1>2, BackedStable DEF IInv
<2>f. \A q \in Procs \ {p} : ProcInv(q)'
  BY <1>2, ProcInvFrame
<2>1. CASE Start(p)
  <3>1. TypeOK'
    <4> USE DEF IInv, TypeOK, Goto, Steps, Exits, ExecErrors, fileVars
    <4>1. UNCHANGED <<fileVars, buf>>
      BY <2>1 DEF Start
    <4>2. CASE StartInit(p)
      BY <4>1, <4>2 DEF StartInit
    <4>3. ASSUME NEW a \in Names \cup {NoName}, StartAssign(p, a)
          PROVE  TypeOK'
      BY <4>1, <4>3 DEF StartAssign, Names, NoName
    <4>4. ASSUME NEW a \in Names, NEW w \in BOOLEAN, StartSend(p, a, w)
          PROVE  TypeOK'
      BY <4>1, <4>4 DEF StartSend
    <4>. QED
      BY <2>1, <4>2, <4>3, <4>4 DEF Start
  <3>2. SessionsBacked'
    BY <2>1, <2>s DEF Start, StartInit, StartAssign, StartSend, IInv, SessionsBacked, ProcInv, TypeOK, FileStates, fileVars, Goto, ReadJson, ExecCall, ExecErrors, Require, Steps, Exits, SessStates, NoSessions, Loaded
  <3>3. ProcInv(p)'
    <4> USE DEF IInv, ProcInv, Phase, InitSteps, CreateSteps, DispatchSteps, Goto, TypeOK
    <4>1. UNCHANGED <<fileVars, buf>>
      BY <2>1 DEF Start
    <4>2. CASE StartInit(p)
      BY <4>1, <4>2 DEF StartInit
    <4>3. ASSUME NEW a \in Names \cup {NoName}, StartAssign(p, a)
          PROVE  ProcInv(p)'
      BY <4>1, <4>3 DEF StartAssign, Names, NoName
    <4>4. ASSUME NEW a \in Names, NEW w \in BOOLEAN, StartSend(p, a, w)
          PROVE  ProcInv(p)'
      BY <4>1, <4>4 DEF StartSend
    <4>. QED
      BY <2>1, <4>2, <4>3, <4>4 DEF Start
  <3>. QED
    BY <3>1, <3>2, <3>3, <2>f DEF IInv
<2>2. CASE EnsureTruncate(p)
  <3>1. TypeOK'
    BY <2>2 DEF EnsureTruncate, IInv, ProcInv, Phase, InitSteps, CreateSteps, DispatchSteps, TypeOK, FileStates, fileVars, Goto, ReadJson, ExecCall, ExecErrors, Require, Steps, Exits, SessStates, NoSessions, Loaded
  <3>2. SessionsBacked'
    BY <2>2, <2>s DEF EnsureTruncate, IInv, SessionsBacked, ProcInv, TypeOK, FileStates, fileVars, Goto, ReadJson, ExecCall, ExecErrors, Require, Steps, Exits, SessStates, NoSessions, Loaded
  <3>3. ProcInv(p)'
    BY <2>2, <2>s DEF EnsureTruncate, IInv, ProcInv, Phase, Tracked, SessionsBacked, InitSteps, CreateSteps, DispatchSteps, TypeOK, FileStates, fileVars, Goto, ReadJson, ExecCall, ExecErrors, Require, Steps, Exits, SessStates, NoSessions, Loaded
  <3>. QED
    BY <3>1, <3>2, <3>3, <2>f DEF IInv
<2>3. CASE EnsureWrite(p)
  <3>1. TypeOK'
    BY <2>3 DEF EnsureWrite, IInv, ProcInv, Phase, InitSteps, CreateSteps, DispatchSteps, TypeOK, FileStates, fileVars, Goto, ReadJson, ExecCall, ExecErrors, Require, Steps, Exits, SessStates, NoSessions, Loaded
  <3>2. SessionsBacked'
    BY <2>3, <2>s DEF EnsureWrite, IInv, SessionsBacked, ProcInv, TypeOK, FileStates, fileVars, Goto, ReadJson, ExecCall, ExecErrors, Require, Steps, Exits, SessStates, NoSessions, Loaded
  <3>3. ProcInv(p)'
    BY <2>3, <2>s DEF EnsureWrite, IInv, ProcInv, Phase, Tracked, SessionsBacked, InitSteps, CreateSteps, DispatchSteps, TypeOK, FileStates, fileVars, Goto, ReadJson, ExecCall, ExecErrors, Require, Steps, Exits, SessStates, NoSessions, Loaded
  <3>. QED
    BY <3>1, <3>2, <3>3, <2>f DEF IInv
<2>4. CASE EnsureSessions(p)
  <3>1. TypeOK'
    BY <2>4 DEF EnsureSessions, IInv, ProcInv, Phase, InitSteps, CreateSteps, DispatchSteps, TypeOK, FileStates, fileVars, Goto, ReadJson, ExecCall, ExecErrors, Require, Steps, Exits, SessStates, NoSessions, Loaded
  <3>2. SessionsBacked'
    BY <2>4, <2>s DEF EnsureSessions, IInv, SessionsBacked, ProcInv, TypeOK, FileStates, fileVars, Goto, ReadJson, ExecCall, ExecErrors, Require, Steps, Exits, SessStates, NoSessions, Loaded
  <3>3. ProcInv(p)'
    BY <2>4, <2>s DEF EnsureSessions, IInv, ProcInv, Phase, Tracked, SessionsBacked, InitSteps, CreateSteps, DispatchSteps, TypeOK, FileStates, fileVars, Goto, ReadJson, ExecCall, ExecErrors, Require, Steps, Exits, SessStates, NoSessions, Loaded
  <3>. QED
    BY <3>1, <3>2, <3>3, <2>f DEF IInv
<2>5. CASE EnsureSessTrunc(p)
  <3>1. TypeOK'
    BY <2>5 DEF EnsureSessTrunc, IInv, ProcInv, Phase, InitSteps, CreateSteps, DispatchSteps, TypeOK, FileStates, fileVars, Goto, ReadJson, ExecCall, ExecErrors, Require, Steps, Exits, SessStates, NoSessions, Loaded
  <3>2. SessionsBacked'
    BY <2>5, <2>s DEF EnsureSessTrunc, IInv, SessionsBacked, ProcInv, TypeOK, FileStates, fileVars, Goto, ReadJson, ExecCall, ExecErrors, Require, Steps, Exits, SessStates, NoSessions, Loaded
  <3>3. ProcInv(p)'
    BY <2>5, <2>s DEF EnsureSessTrunc, IInv, ProcInv, Phase, Tracked, SessionsBacked, InitSteps, CreateSteps, DispatchSteps, TypeOK, FileStates, fileVars, Goto, ReadJson, ExecCall, ExecErrors, Require, Steps, Exits, SessStates, NoSessions, Loaded
  <3>. QED
    BY <3>1, <3>2, <3>3, <2>f DEF IInv
<2>6. CASE EnsureSessWrite(p)
  <3>1. TypeOK'
    BY <2>6 DEF EnsureSessWrite, IInv, ProcInv, Phase, InitSteps, CreateSteps, DispatchSteps, TypeOK, FileStates, fileVars, Goto, ReadJson, ExecCall, ExecErrors, Require, Steps, Exits, SessStates, NoSessions, Loaded
  <3>2. SessionsBacked'
    BY <2>6, <2>s DEF EnsureSessWrite, IInv, SessionsBacked, ProcInv, TypeOK, FileStates, fileVars, Goto, ReadJson, ExecCall, ExecErrors, Require, Steps, Exits, SessStates, NoSessions, Loaded
  <3>3. ProcInv(p)'
    BY <2>6, <2>s DEF EnsureSessWrite, IInv, ProcInv, Phase, Tracked, SessionsBacked, InitSteps, CreateSteps, DispatchSteps, TypeOK, FileStates, fileVars, Goto, ReadJson, ExecCall, ExecErrors, Require, Steps, Exits, SessStates, NoSessions, Loaded
  <3>. QED
    BY <3>1, <3>2, <3>3, <2>f DEF IInv
<2>7. CASE NextName(p)
  <3>1. TypeOK'
    <4>1. LeastFree \in Names
      BY <2>7, LeastFreeFree DEF NextName
    <4>2. CASE sessFile = "torn"
      BY <2>7, <4>2 DEF NextName, IInv, TypeOK, Goto, fileVars, Steps, Exits, ExecErrors
    <4>3. CASE sessFile # "torn"
      BY <4>1, <2>7, <4>3 DEF NextName, IInv, TypeOK, Goto, fileVars, Steps, Exits, ExecErrors
    <4>. QED
      BY <4>2, <4>3
  <3>2. SessionsBacked'
    BY <2>7, <2>s DEF NextName, IInv, SessionsBacked, ProcInv, TypeOK, FileStates, fileVars, Goto, ReadJson, ExecCall, ExecErrors, Require, Steps, Exits, SessStates, NoSessions, Loaded
  <3>3. ProcInv(p)'
    <4>1. CASE sessFile = "torn"
      BY <2>7, <4>1 DEF NextName, IInv, ProcInv, Phase, InitSteps, CreateSteps, DispatchSteps, TypeOK, fileVars, Goto
    <4>2. CASE sessFile # "torn"
      BY <2>7, <4>2, LeastFreeFree DEF NextName, IInv, ProcInv, Phase, InitSteps, CreateSteps, DispatchSteps, TypeOK, fileVars, Goto
    <4>. QED
      BY <4>1, <4>2
  <3>. QED
    BY <3>1, <3>2, <3>3, <2>f DEF IInv
<2>8. CASE Create(p)
  <3>1. TypeOK'
    <4>1. name[p] \in Names
      BY <2>8 DEF Create, IInv, ProcInv, Phase, CreateSteps
    <4>2. CASE wsh' = wsh \cup {name[p]} /\ Goto(p, "get_project")
      BY <2>8, <4>1, <4>2 DEF Create, IInv, TypeOK, Goto, Steps
    <4>3. CASE ExecFaults /\ (\E e \in ExecErrors : Goto(p, e)) /\ UNCHANGED wsh
      BY <2>8, <4>3 DEF Create, IInv, TypeOK, Goto, Exits, ExecErrors
    <4>. QED
      BY <2>8, <4>2, <4>3 DEF Create
  <3>2. SessionsBacked'
    BY <2>8, <2>s DEF Create, IInv, SessionsBacked, ProcInv, TypeOK, FileStates, fileVars, Goto, ReadJson, ExecCall, ExecErrors, Require, Steps, Exits, SessStates, NoSessions, Loaded
  <3>3. ProcInv(p)'
    <4>1. cmd[p] = "assign" /\ name[p] \in Names
      BY <2>8 DEF Create, IInv, ProcInv, Phase, CreateSteps
    <4>2. CASE wsh' = wsh \cup {name[p]} /\ Goto(p, "get_project")
      <5>1. Owner(name[p])'
        BY <4>1, <4>2, <2>8 DEF Create, Owner, Goto, TypeOK, IInv
      <5>2. Backed(name[p])'
        BY <5>1, <4>2, <2>8 DEF Create, Backed
      <5>. QED
        BY <4>1, <4>2, <5>2, <2>8 DEF Create, ProcInv, Phase, Goto, TypeOK, IInv, CreateSteps, DispatchSteps, InitSteps
    <4>3. CASE ExecFaults /\ (\E e \in ExecErrors : Goto(p, e)) /\ UNCHANGED wsh
      BY <4>3, <2>8 DEF ExecErrors,  Create, ProcInv, Phase, Goto, TypeOK, IInv, CreateSteps, DispatchSteps, InitSteps
    <4>. QED
      BY <4>2, <4>3, <2>8 DEF Create
  <3>. QED
    BY <3>1, <3>2, <3>3, <2>f DEF IInv
<2>9. CASE GetProject(p)
  <3>1. TypeOK'
    BY <2>9 DEF GetProject, IInv, ProcInv, Phase, InitSteps, CreateSteps, DispatchSteps, TypeOK, FileStates, fileVars, Goto, ReadJson, ExecCall, ExecErrors, Require, Steps, Exits, SessStates, NoSessions, Loaded
  <3>2. SessionsBacked'
    BY <2>9, <2>s DEF GetProject, IInv, SessionsBacked, ProcInv, TypeOK, FileStates, fileVars, Goto, ReadJson, ExecCall, ExecErrors, Require, Steps, Exits, SessStates, NoSessions, Loaded
  <3>3. ProcInv(p)'
    BY <2>9, <2>s DEF GetProject, IInv, ProcInv, Phase, Tracked, SessionsBacked, InitSteps, CreateSteps, DispatchSteps, TypeOK, FileStates, fileVars, Goto, ReadJson, ExecCall, ExecErrors, Require, Steps, Exits, SessStates, NoSessions, Loaded
  <3>. QED
    BY <3>1, <3>2, <3>3, <2>f DEF IInv
<2>10. CASE UpsertLoad(p)
  <3>1. TypeOK'
    <4>1. Loaded \in [Names -> SessStates]
      BY DEF Loaded, NoSessions, TypeOK, IInv, SessStates
    <4>2. [Loaded EXCEPT ![name[p]] = "running"] \in [Names -> SessStates]
      BY <4>1 DEF SessStates
    <4>3. CASE sessFile = "torn" /\ Goto(p, "crash") /\ UNCHANGED buf
      BY <4>3, <2>10 DEF UpsertLoad, TypeOK, IInv, Goto, Steps, Exits, ExecErrors, fileVars
    <4>4. CASE sessFile # "torn" /\ Goto(p, "up_trunc")
               /\ buf' = [buf EXCEPT ![p] = [Loaded EXCEPT ![name[p]] = "running"]]
      BY <4>2, <4>4, <2>10 DEF UpsertLoad, TypeOK, IInv, Goto, Steps, Exits, ExecErrors, fileVars
    <4>. QED
      BY <4>3, <4>4, <2>10 DEF UpsertLoad
  <3>2. SessionsBacked'
    BY <2>10, <2>s DEF UpsertLoad, IInv, SessionsBacked, ProcInv, TypeOK, FileStates, fileVars, Goto, ReadJson, ExecCall, ExecErrors, Require, Steps, Exits, SessStates, NoSessions, Loaded
  <3>3. ProcInv(p)'
    <4>1. CASE sessFile = "torn" /\ Goto(p, "crash") /\ UNCHANGED buf
      BY <4>1, <2>10 DEF UpsertLoad, IInv, ProcInv, Phase, Goto, TypeOK, InitSteps, CreateSteps, DispatchSteps
    <4>2. CASE sessFile # "torn" /\ Goto(p, "up_trunc")
               /\ buf' = [buf EXCEPT ![p] = [Loaded EXCEPT ![name[p]] = "running"]]
      <5>1. Phase(p)'
        BY <4>2, <2>10 DEF UpsertLoad, IInv, ProcInv, Phase, Goto, TypeOK, InitSteps, CreateSteps, DispatchSteps
      <5>2. ASSUME NEW n \in Names, buf'[p][n] # "none" PROVE Backed(n)
        <6>1. CASE n = name[p]
          BY <6>1, <2>10 DEF UpsertLoad, IInv, ProcInv
        <6>2. CASE n # name[p]
          <7>1. Loaded[n] # "none"
            BY <4>2, <5>2, <6>2 DEF TypeOK, IInv
          <7>2. sessions[n] # "none"
            BY <7>1 DEF Loaded, NoSessions
          <7>. QED
            BY <7>2 DEF IInv, SessionsBacked
        <6>. QED
          BY <6>1, <6>2
      <5>. QED
        BY <5>1, <5>2, <2>s, <4>2 DEF ProcInv, Goto, TypeOK, IInv
    <4>. QED
      BY <4>1, <4>2, <2>10 DEF UpsertLoad
  <3>. QED
    BY <3>1, <3>2, <3>3, <2>f DEF IInv
<2>11. CASE UpsertTrunc(p)
  <3>1. TypeOK'
    BY <2>11 DEF UpsertTrunc, IInv, ProcInv, Phase, InitSteps, CreateSteps, DispatchSteps, TypeOK, FileStates, fileVars, Goto, ReadJson, ExecCall, ExecErrors, Require, Steps, Exits, SessStates, NoSessions, Loaded
  <3>2. SessionsBacked'
    <4>1. \A n \in Names : buf[p][n] # "none" => Backed(n)
      BY <2>11 DEF UpsertTrunc, IInv, ProcInv
    <4>. QED
      BY <4>1, <2>s, <2>11 DEF UpsertTrunc, SessionsBacked
  <3>3. ProcInv(p)'
    BY <2>11, <2>s DEF UpsertTrunc, IInv, ProcInv, Phase, Tracked, SessionsBacked, InitSteps, CreateSteps, DispatchSteps, TypeOK, FileStates, fileVars, Goto, ReadJson, ExecCall, ExecErrors, Require, Steps, Exits, SessStates, NoSessions, Loaded
  <3>. QED
    BY <3>1, <3>2, <3>3, <2>f DEF IInv
<2>12. CASE UpsertWrite(p)
  <3>1. TypeOK'
    BY <2>12 DEF UpsertWrite, IInv, ProcInv, Phase, InitSteps, CreateSteps, DispatchSteps, TypeOK, FileStates, fileVars, Goto, ReadJson, ExecCall, ExecErrors, Require, Steps, Exits, SessStates, NoSessions, Loaded
  <3>2. SessionsBacked'
    <4>1. \A n \in Names : buf[p][n] # "none" => Backed(n)
      BY <2>12 DEF UpsertWrite, IInv, ProcInv
    <4>. QED
      BY <4>1, <2>s, <2>12 DEF UpsertWrite, SessionsBacked
  <3>3. ProcInv(p)'
    BY <2>12, <2>s DEF UpsertWrite, IInv, ProcInv, Phase, Tracked, SessionsBacked, InitSteps, CreateSteps, DispatchSteps, TypeOK, FileStates, fileVars, Goto, ReadJson, ExecCall, ExecErrors, Require, Steps, Exits, SessStates, NoSessions, Loaded
  <3>. QED
    BY <3>1, <3>2, <3>3, <2>f DEF IInv
<2>13. CASE DRequire(p)
  <3>1. TypeOK'
    BY <2>13 DEF DRequire, IInv, ProcInv, Phase, InitSteps, CreateSteps, DispatchSteps, TypeOK, FileStates, fileVars, Goto, ReadJson, ExecCall, ExecErrors, Require, Steps, Exits, SessStates, NoSessions, Loaded
  <3>2. SessionsBacked'
    BY <2>13, <2>s DEF DRequire, IInv, SessionsBacked, ProcInv, TypeOK, FileStates, fileVars, Goto, ReadJson, ExecCall, ExecErrors, Require, Steps, Exits, SessStates, NoSessions, Loaded
  <3>3. ProcInv(p)'
    BY <2>13, <2>s DEF DRequire, IInv, ProcInv, Phase, Tracked, SessionsBacked, InitSteps, CreateSteps, DispatchSteps, TypeOK, FileStates, fileVars, Goto, ReadJson, ExecCall, ExecErrors, Require, Steps, Exits, SessStates, NoSessions, Loaded
  <3>. QED
    BY <3>1, <3>2, <3>3, <2>f DEF IInv
<2>14. CASE DRequire2(p)
  <3>1. TypeOK'
    BY <2>14 DEF DRequire2, IInv, ProcInv, Phase, InitSteps, CreateSteps, DispatchSteps, TypeOK, FileStates, fileVars, Goto, ReadJson, ExecCall, ExecErrors, Require, Steps, Exits, SessStates, NoSessions, Loaded
  <3>2. SessionsBacked'
    BY <2>14, <2>s DEF DRequire2, IInv, SessionsBacked, ProcInv, TypeOK, FileStates, fileVars, Goto, ReadJson, ExecCall, ExecErrors, Require, Steps, Exits, SessStates, NoSessions, Loaded
  <3>3. ProcInv(p)'
    <4>1. CASE sessFile # "torn" /\ name[p] \in Tracked
      <5>1. sessions[name[p]] # "none"
        BY <4>1 DEF Tracked, Loaded, NoSessions
      <5>2. Backed(name[p])
        BY <5>1, <4>1 DEF IInv, SessionsBacked, Tracked
      <5>. QED
        BY <5>2, <4>1, <2>s, <2>14 DEF DRequire2, Require, IInv, ProcInv, Phase, Goto, TypeOK, InitSteps, CreateSteps, DispatchSteps, FileStates
    <4>2. CASE ~(sessFile # "torn" /\ name[p] \in Tracked)
      BY <4>2, <2>14 DEF DRequire2, Require, IInv, ProcInv, Phase, Goto, TypeOK, InitSteps, CreateSteps, DispatchSteps, FileStates
    <4>. QED
      BY <4>1, <4>2
  <3>. QED
    BY <3>1, <3>2, <3>3, <2>f DEF IInv
<2>. QED
  BY <1>2, <2>1, <2>2, <2>3, <2>4, <2>5, <2>6, <2>7, <2>8, <2>9, <2>10, <2>11, <2>12, <2>13, <2>14 DEF Step
<1>. QED
  BY <1>1, <1>2 DEF Next

(* In sequential use every step keeps SeqInv: only the one invocation in *)
(* progress moves, and nothing else touches sessions.json under it.      *)
LEMMA SeqInvStep ==
    ASSUME ~Concurrent
    PROVE  IInv /\ SeqInv /\ [Next]_vars => SeqInv'
<1> SUFFICES ASSUME IInv, SeqInv, [Next]_vars PROVE SeqInv'
  OBVIOUS
<1>1. CASE UNCHANGED vars
  BY <1>1 DEF vars, fileVars, procVars, SeqInv, InProgress
<1>2. ASSUME NEW p \in Procs, Step(p) PROVE SeqInv'
<2>a. \A q \in Procs \ {p} :
          /\ pc'[q] = pc[q] /\ cmd'[q] = cmd[q] /\ name'[q] = name[q]
          /\ buf'[q] = buf[q]
  BY <1>2, StepFrame DEF IInv
<2>1. CASE Start(p)
  <3>1. \A q \in Procs \ {p} : ~InProgress(q)
    BY <2>1 DEF Start, MayStart, Active, InProgress
  <3>2. UNCHANGED <<fileVars, buf>>
    BY <2>1 DEF Start
  <3>3. pc'[p] \in {"init_trunc", "next_name", "create", "d_require", "exit1"}
    BY <2>1 DEF Start, StartInit, StartAssign, StartSend, Goto, IInv, TypeOK
  <3>. QED
    BY <3>1, <3>2, <3>3, <2>a DEF SeqInv, InProgress, fileVars, Exits, ExecErrors
<2>b. ~Start(p) => \A q \in Procs \ {p} : ~InProgress(q)
  <3> SUFFICES ASSUME ~Start(p) PROVE \A q \in Procs \ {p} : ~InProgress(q)
    OBVIOUS
  <3>1. InProgress(p)
    BY <1>2 DEF Step, Start, EnsureTruncate, EnsureWrite, EnsureSessions, EnsureSessTrunc, EnsureSessWrite, NextName, Create, GetProject, UpsertLoad, UpsertTrunc, UpsertWrite, DRequire, DRequire2, InProgress, Exits, ExecErrors
  <3>. QED
    BY <3>1 DEF SeqInv
<2>c. ASSUME ~Start(p),
             sessFile' = "absent" => sessions' = NoSessions,
             pc'[p] = "up_trunc" => buf'[p] = [sessions' EXCEPT ![name'[p]] = "running"],
             pc'[p] = "up_write" => buf'[p] = sessions',
             pc'[p] \in {"init_sess_trunc", "init_sess_write"} => sessions' = NoSessions
      PROVE  SeqInv'
  <3>1. \A q \in Procs \ {p} : ~InProgress(q)'
    BY <2>a, <2>b, <2>c DEF InProgress
  <3>3. \A p1, q1 \in Procs : InProgress(p1)' /\ InProgress(q1)' => p1 = q1
    BY <3>1
  <3>4. \A q \in Procs \ {p} : pc'[q] \notin {"up_trunc", "up_write", "init_sess_trunc", "init_sess_write"}
    BY <3>1 DEF InProgress, Exits, ExecErrors
  <3>. QED
    BY <3>3, <3>4, <2>c DEF SeqInv
<2>2. CASE EnsureTruncate(p)
  <3>1. ~Start(p)
    BY <2>2 DEF EnsureTruncate, Start
  <3>2. sessFile' = "absent" => sessions' = NoSessions
    BY <2>2 DEF EnsureTruncate, SeqInv, IInv, TypeOK, FileStates, fileVars, Goto, ReadJson, ExecCall, ExecErrors, Require, Steps, Exits, SessStates, NoSessions, Loaded
  <3>3. pc'[p] = "up_trunc" => buf'[p] = [sessions' EXCEPT ![name'[p]] = "running"]
    BY <2>2 DEF EnsureTruncate, SeqInv, IInv, TypeOK, FileStates, fileVars, Goto, ReadJson, ExecCall, ExecErrors, Require, Steps, Exits, SessStates, NoSessions, Loaded
  <3>4. pc'[p] = "up_write" => buf'[p] = sessions'
    BY <2>2 DEF EnsureTruncate, SeqInv, IInv, TypeOK, FileStates, fileVars, Goto, ReadJson, ExecCall, ExecErrors, Require, Steps, Exits, SessStates, NoSessions, Loaded
  <3>5. pc'[p] \in {"init_sess_trunc", "init_sess_write"} => sessions' = NoSessions
    BY <2>2 DEF EnsureTruncate, SeqInv, IInv, TypeOK, FileStates, fileVars, Goto, ReadJson, ExecCall, ExecErrors, Require, Steps, Exits, SessStates, NoSessions, Loaded
  <3>. QED
    BY <3>1, <3>2, <3>3, <3>4, <3>5, <2>c
<2>3. CASE EnsureWrite(p)
  <3>1. ~Start(p)
    BY <2>3 DEF EnsureWrite, Start
  <3>2. sessFile' = "absent" => sessions' = NoSessions
    BY <2>3 DEF EnsureWrite, SeqInv, IInv, TypeOK, FileStates, fileVars, Goto, ReadJson, ExecCall, ExecErrors, Require, Steps, Exits, SessStates, NoSessions, Loaded
  <3>3. pc'[p] = "up_trunc" => buf'[p] = [sessions' EXCEPT ![name'[p]] = "running"]
    BY <2>3 DEF EnsureWrite, SeqInv, IInv, TypeOK, FileStates, fileVars, Goto, ReadJson, ExecCall, ExecErrors, Require, Steps, Exits, SessStates, NoSessions, Loaded
  <3>4. pc'[p] = "up_write" => buf'[p] = sessions'
    BY <2>3 DEF EnsureWrite, SeqInv, IInv, TypeOK, FileStates, fileVars, Goto, ReadJson, ExecCall, ExecErrors, Require, Steps, Exits, SessStates, NoSessions, Loaded
  <3>5. pc'[p] \in {"init_sess_trunc", "init_sess_write"} => sessions' = NoSessions
    BY <2>3 DEF EnsureWrite, SeqInv, IInv, TypeOK, FileStates, fileVars, Goto, ReadJson, ExecCall, ExecErrors, Require, Steps, Exits, SessStates, NoSessions, Loaded
  <3>. QED
    BY <3>1, <3>2, <3>3, <3>4, <3>5, <2>c
<2>4. CASE EnsureSessions(p)
  <3>1. ~Start(p)
    BY <2>4 DEF EnsureSessions, Start
  <3>2. sessFile' = "absent" => sessions' = NoSessions
    BY <2>4 DEF EnsureSessions, SeqInv, IInv, TypeOK, FileStates, fileVars, Goto, ReadJson, ExecCall, ExecErrors, Require, Steps, Exits, SessStates, NoSessions, Loaded
  <3>3. pc'[p] = "up_trunc" => buf'[p] = [sessions' EXCEPT ![name'[p]] = "running"]
    BY <2>4 DEF EnsureSessions, SeqInv, IInv, TypeOK, FileStates, fileVars, Goto, ReadJson, ExecCall, ExecErrors, Require, Steps, Exits, SessStates, NoSessions, Loaded
  <3>4. pc'[p] = "up_write" => buf'[p] = sessions'
    BY <2>4 DEF EnsureSessions, SeqInv, IInv, TypeOK, FileStates, fileVars, Goto, ReadJson, ExecCall, ExecErrors, Require, Steps, Exits, SessStates, NoSessions, Loaded
  <3>5. pc'[p] \in {"init_sess_trunc", "init_sess_write"} => sessions' = NoSessions
    BY <2>4 DEF EnsureSessions, SeqInv, IInv, TypeOK, FileStates, fileVars, Goto, ReadJson, ExecCall, ExecErrors, Require, Steps, Exits, SessStates, NoSessions, Loaded
  <3>. QED
    BY <3>1, <3>2, <3>3, <3>4, <3>5, <2>c
<2>5. CASE EnsureSessTrunc(p)
  <3>1. ~Start(p)
    BY <2>5 DEF EnsureSessTrunc, Start
  <3>2. sessFile' = "absent" => sessions' = NoSessions
    BY <2>5 DEF EnsureSessTrunc, SeqInv, IInv, TypeOK, FileStates, fileVars, Goto, ReadJson, ExecCall, ExecErrors, Require, Steps, Exits, SessStates, NoSessions, Loaded
  <3>3. pc'[p] = "up_trunc" => buf'[p] = [sessions' EXCEPT ![name'[p]] = "running"]
    BY <2>5 DEF EnsureSessTrunc, SeqInv, IInv, TypeOK, FileStates, fileVars, Goto, ReadJson, ExecCall, ExecErrors, Require, Steps, Exits, SessStates, NoSessions, Loaded
  <3>4. pc'[p] = "up_write" => buf'[p] = sessions'
    BY <2>5 DEF EnsureSessTrunc, SeqInv, IInv, TypeOK, FileStates, fileVars, Goto, ReadJson, ExecCall, ExecErrors, Require, Steps, Exits, SessStates, NoSessions, Loaded
  <3>5. pc'[p] \in {"init_sess_trunc", "init_sess_write"} => sessions' = NoSessions
    BY <2>5 DEF EnsureSessTrunc, SeqInv, IInv, TypeOK, FileStates, fileVars, Goto, ReadJson, ExecCall, ExecErrors, Require, Steps, Exits, SessStates, NoSessions, Loaded
  <3>. QED
    BY <3>1, <3>2, <3>3, <3>4, <3>5, <2>c
<2>6. CASE EnsureSessWrite(p)
  <3>1. ~Start(p)
    BY <2>6 DEF EnsureSessWrite, Start
  <3>2. sessFile' = "absent" => sessions' = NoSessions
    BY <2>6 DEF EnsureSessWrite, SeqInv, IInv, TypeOK, FileStates, fileVars, Goto, ReadJson, ExecCall, ExecErrors, Require, Steps, Exits, SessStates, NoSessions, Loaded
  <3>3. pc'[p] = "up_trunc" => buf'[p] = [sessions' EXCEPT ![name'[p]] = "running"]
    BY <2>6 DEF EnsureSessWrite, SeqInv, IInv, TypeOK, FileStates, fileVars, Goto, ReadJson, ExecCall, ExecErrors, Require, Steps, Exits, SessStates, NoSessions, Loaded
  <3>4. pc'[p] = "up_write" => buf'[p] = sessions'
    BY <2>6 DEF EnsureSessWrite, SeqInv, IInv, TypeOK, FileStates, fileVars, Goto, ReadJson, ExecCall, ExecErrors, Require, Steps, Exits, SessStates, NoSessions, Loaded
  <3>5. pc'[p] \in {"init_sess_trunc", "init_sess_write"} => sessions' = NoSessions
    BY <2>6 DEF EnsureSessWrite, SeqInv, IInv, TypeOK, FileStates, fileVars, Goto, ReadJson, ExecCall, ExecErrors, Require, Steps, Exits, SessStates, NoSessions, Loaded
  <3>. QED
    BY <3>1, <3>2, <3>3, <3>4, <3>5, <2>c
<2>7. CASE NextName(p)
  <3>1. ~Start(p)
    BY <2>7 DEF NextName, Start
  <3>2. sessFile' = "absent" => sessions' = NoSessions
    BY <2>7 DEF NextName, SeqInv, IInv, TypeOK, FileStates, fileVars, Goto, ReadJson, ExecCall, ExecErrors, Require, Steps, Exits, SessStates, NoSessions, Loaded
  <3>3. pc'[p] = "up_trunc" => buf'[p] = [sessions' EXCEPT ![name'[p]] = "running"]
    BY <2>7 DEF NextName, SeqInv, IInv, TypeOK, FileStates, fileVars, Goto, ReadJson, ExecCall, ExecErrors, Require, Steps, Exits, SessStates, NoSessions, Loaded
  <3>4. pc'[p] = "up_write" => buf'[p] = sessions'
    BY <2>7 DEF NextName, SeqInv, IInv, TypeOK, FileStates, fileVars, Goto, ReadJson, ExecCall, ExecErrors, Require, Steps, Exits, SessStates, NoSessions, Loaded
  <3>5. pc'[p] \in {"init_sess_trunc", "init_sess_write"} => sessions' = NoSessions
    BY <2>7 DEF NextName, SeqInv, IInv, TypeOK, FileStates, fileVars, Goto, ReadJson, ExecCall, ExecErrors, Require, Steps, Exits, SessStates, NoSessions, Loaded
  <3>. QED
    BY <3>1, <3>2, <3>3, <3>4, <3>5, <2>c
<2>8. CASE Create(p)
  <3>1. ~Start(p)
    BY <2>8 DEF Create, Start
  <3>2. sessFile' = "absent" => sessions' = NoSessions
    BY <2>8 DEF Create, SeqInv, IInv, TypeOK, FileStates, fileVars, Goto, ReadJson, ExecCall, ExecErrors, Require, Steps, Exits, SessStates, NoSessions, Loaded
  <3>3. pc'[p] = "up_trunc" => buf'[p] = [sessions' EXCEPT ![name'[p]] = "running"]
    BY <2>8 DEF Create, SeqInv, IInv, TypeOK, FileStates, fileVars, Goto, ReadJson, ExecCall, ExecErrors, Require, Steps, Exits, SessStates, NoSessions, Loaded
  <3>4. pc'[p] = "up_write" => buf'[p] = sessions'
    BY <2>8 DEF Create, SeqInv, IInv, TypeOK, FileStates, fileVars, Goto, ReadJson, ExecCall, ExecErrors, Require, Steps, Exits, SessStates, NoSessions, Loaded
  <3>5. pc'[p] \in {"init_sess_trunc", "init_sess_write"} => sessions' = NoSessions
    BY <2>8 DEF Create, SeqInv, IInv, TypeOK, FileStates, fileVars, Goto, ReadJson, ExecCall, ExecErrors, Require, Steps, Exits, SessStates, NoSessions, Loaded
  <3>. QED
    BY <3>1, <3>2, <3>3, <3>4, <3>5, <2>c
<2>9. CASE GetProject(p)
  <3>1. ~Start(p)
    BY <2>9 DEF GetProject, Start
  <3>2. sessFile' = "absent" => sessions' = NoSessions
    BY <2>9 DEF GetProject, SeqInv, IInv, TypeOK, FileStates, fileVars, Goto, ReadJson, ExecCall, ExecErrors, Require, Steps, Exits, SessStates, NoSessions, Loaded
  <3>3. pc'[p] = "up_trunc" => buf'[p] = [sessions' EXCEPT ![name'[p]] = "running"]
    BY <2>9 DEF GetProject, SeqInv, IInv, TypeOK, FileStates, fileVars, Goto, ReadJson, ExecCall, ExecErrors, Require, Steps, Exits, SessStates, NoSessions, Loaded
  <3>4. pc'[p] = "up_write" => buf'[p] = sessions'
    BY <2>9 DEF GetProject, SeqInv, IInv, TypeOK, FileStates, fileVars, Goto, ReadJson, ExecCall, ExecErrors, Require, Steps, Exits, SessStates, NoSessions, Loaded
  <3>5. pc'[p] \in {"init_sess_trunc", "init_sess_write"} => sessions' = NoSessions
    BY <2>9 DEF GetProject, SeqInv, IInv, TypeOK, FileStates, fileVars, Goto, ReadJson, ExecCall, ExecErrors, Require, Steps, Exits, SessStates, NoSessions, Loaded
  <3>. QED
    BY <3>1, <3>2, <3>3, <3>4, <3>5, <2>c
<2>10. CASE UpsertLoad(p)
  <3>1. ~Start(p)
    BY <2>10 DEF UpsertLoad, Start
  <3>2. sessFile' = "absent" => sessions' = NoSessions
    BY <2>10 DEF UpsertLoad, SeqInv, IInv, TypeOK, FileStates, fileVars, Goto, ReadJson, ExecCall, ExecErrors, Require, Steps, Exits, SessStates, NoSessions, Loaded
  <3>3. pc'[p] = "up_trunc" => buf'[p] = [sessions' EXCEPT ![name'[p]] = "running"]
    <4>1. Loaded = sessions
      BY DEF SeqInv, Loaded
    <4>2. CASE sessFile = "torn" /\ Goto(p, "crash") /\ UNCHANGED buf
      BY <4>2, <2>10 DEF UpsertLoad, Goto, IInv, TypeOK
    <4>3. CASE sessFile # "torn" /\ Goto(p, "up_trunc")
               /\ buf' = [buf EXCEPT ![p] = [Loaded EXCEPT ![name[p]] = "running"]]
      BY <4>1, <4>3, <2>10 DEF UpsertLoad, IInv, TypeOK, fileVars
    <4>. QED
      BY <4>2, <4>3, <2>10 DEF UpsertLoad
  <3>4. pc'[p] = "up_write" => buf'[p] = sessions'
    BY <2>10 DEF UpsertLoad, SeqInv, IInv, TypeOK, FileStates, fileVars, Goto, ReadJson, ExecCall, ExecErrors, Require, Steps, Exits, SessStates, NoSessions, Loaded
  <3>5. pc'[p] \in {"init_sess_trunc", "init_sess_write"} => sessions' = NoSessions
    BY <2>10 DEF UpsertLoad, SeqInv, IInv, TypeOK, FileStates, fileVars, Goto, ReadJson, ExecCall, ExecErrors, Require, Steps, Exits, SessStates, NoSessions, Loaded
  <3>. QED
    BY <3>1, <3>2, <3>3, <3>4, <3>5, <2>c
<2>11. CASE UpsertTrunc(p)
  <3>1. ~Start(p)
    BY <2>11 DEF UpsertTrunc, Start
  <3>2. sessFile' = "absent" => sessions' = NoSessions
    BY <2>11 DEF UpsertTrunc, SeqInv, IInv, TypeOK, FileStates, fileVars, Goto, ReadJson, ExecCall, ExecErrors, Require, Steps, Exits, SessStates, NoSessions, Loaded
  <3>3. pc'[p] = "up_trunc" => buf'[p] = [sessions' EXCEPT ![name'[p]] = "running"]
    BY <2>11 DEF UpsertTrunc, SeqInv, IInv, TypeOK, FileStates, fileVars, Goto, ReadJson, ExecCall, ExecErrors, Require, Steps, Exits, SessStates, NoSessions, Loaded
  <3>4. pc'[p] = "up_write" => buf'[p] = sessions'
    BY <2>11 DEF UpsertTrunc, SeqInv, IInv, TypeOK, FileStates, fileVars, Goto, ReadJson, ExecCall, ExecErrors, Require, Steps, Exits, SessStates, NoSessions, Loaded
  <3>5. pc'[p] \in {"init_sess_trunc", "init_sess_write"} => sessions' = NoSessions
    BY <2>11 DEF UpsertTrunc, SeqInv, IInv, TypeOK, FileStates, fileVars, Goto, ReadJson, ExecCall, ExecErrors, Require, Steps, Exits, SessStates, NoSessions, Loaded
  <3>. QED
    BY <3>1, <3>2, <3>3, <3>4, <3>5, <2>c
<2>12. CASE UpsertWrite(p)
  <3>1. ~Start(p)
    BY <2>12 DEF UpsertWrite, Start
  <3>2. sessFile' = "absent" => sessions' = NoSessions
    BY <2>12 DEF UpsertWrite, SeqInv, IInv, TypeOK, FileStates, fileVars, Goto, ReadJson, ExecCall, ExecErrors, Require, Steps, Exits, SessStates, NoSessions, Loaded
  <3>3. pc'[p] = "up_trunc" => buf'[p] = [sessions' EXCEPT ![name'[p]] = "running"]
    BY <2>12 DEF UpsertWrite, SeqInv, IInv, TypeOK, FileStates, fileVars, Goto, ReadJson, ExecCall, ExecErrors, Require, Steps, Exits, SessStates, NoSessions, Loaded
  <3>4. pc'[p] = "up_write" => buf'[p] = sessions'
    BY <2>12 DEF UpsertWrite, SeqInv, IInv, TypeOK, FileStates, fileVars, Goto, ReadJson, ExecCall, ExecErrors, Require, Steps, Exits, SessStates, NoSessions, Loaded
  <3>5. pc'[p] \in {"init_sess_trunc", "init_sess_write"} => sessions' = NoSessions
    BY <2>12 DEF UpsertWrite, SeqInv, IInv, TypeOK, FileStates, fileVars, Goto, ReadJson, ExecCall, ExecErrors, Require, Steps, Exits, SessStates, NoSessions, Loaded
  <3>. QED
    BY <3>1, <3>2, <3>3, <3>4, <3>5, <2>c
<2>13. CASE DRequire(p)
  <3>1. ~Start(p)
    BY <2>13 DEF DRequire, Start
  <3>2. sessFile' = "absent" => sessions' = NoSessions
    BY <2>13 DEF DRequire, SeqInv, IInv, TypeOK, FileStates, fileVars, Goto, ReadJson, ExecCall, ExecErrors, Require, Steps, Exits, SessStates, NoSessions, Loaded
  <3>3. pc'[p] = "up_trunc" => buf'[p] = [sessions' EXCEPT ![name'[p]] = "running"]
    BY <2>13 DEF DRequire, SeqInv, IInv, TypeOK, FileStates, fileVars, Goto, ReadJson, ExecCall, ExecErrors, Require, Steps, Exits, SessStates, NoSessions, Loaded
  <3>4. pc'[p] = "up_write" => buf'[p] = sessions'
    BY <2>13 DEF DRequire, SeqInv, IInv, TypeOK, FileStates, fileVars, Goto, ReadJson, ExecCall, ExecErrors, Require, Steps, Exits, SessStates, NoSessions, Loaded
  <3>5. pc'[p] \in {"init_sess_trunc", "init_sess_write"} => sessions' = NoSessions
    BY <2>13 DEF DRequire, SeqInv, IInv, TypeOK, FileStates, fileVars, Goto, ReadJson, ExecCall, ExecErrors, Require, Steps, Exits, SessStates, NoSessions, Loaded
  <3>. QED
    BY <3>1, <3>2, <3>3, <3>4, <3>5, <2>c
<2>14. CASE DRequire2(p)
  <3>1. ~Start(p)
    BY <2>14 DEF DRequire2, Start
  <3>2. sessFile' = "absent" => sessions' = NoSessions
    BY <2>14 DEF DRequire2, SeqInv, IInv, TypeOK, FileStates, fileVars, Goto, ReadJson, ExecCall, ExecErrors, Require, Steps, Exits, SessStates, NoSessions, Loaded
  <3>3. pc'[p] = "up_trunc" => buf'[p] = [sessions' EXCEPT ![name'[p]] = "running"]
    BY <2>14 DEF DRequire2, SeqInv, IInv, TypeOK, FileStates, fileVars, Goto, ReadJson, ExecCall, ExecErrors, Require, Steps, Exits, SessStates, NoSessions, Loaded
  <3>4. pc'[p] = "up_write" => buf'[p] = sessions'
    BY <2>14 DEF DRequire2, SeqInv, IInv, TypeOK, FileStates, fileVars, Goto, ReadJson, ExecCall, ExecErrors, Require, Steps, Exits, SessStates, NoSessions, Loaded
  <3>5. pc'[p] \in {"init_sess_trunc", "init_sess_write"} => sessions' = NoSessions
    BY <2>14 DEF DRequire2, SeqInv, IInv, TypeOK, FileStates, fileVars, Goto, ReadJson, ExecCall, ExecErrors, Require, Steps, Exits, SessStates, NoSessions, Loaded
  <3>. QED
    BY <3>1, <3>2, <3>3, <3>4, <3>5, <2>c
<2>. QED
  BY <2>1, <2>2, <2>3, <2>4, <2>5, <2>6, <2>7, <2>8, <2>9, <2>10, <2>11, <2>12, <2>13, <2>14, <1>2 DEF Step
<1>. QED
  BY <1>1, <1>2 DEF Next

(* In sequential use a step of the engine changes the session map only   *)
(* as one upsert of one session, or leaves it alone.                     *)
LEMMA RefineStep ==
    ASSUME ~Concurrent
    PROVE  IInv /\ SeqInv /\ [Next]_vars => [Registry!Next]_sessions
<1> SUFFICES ASSUME IInv, SeqInv, [Next]_vars PROVE [Registry!Next]_sessions
  OBVIOUS
<1>1. CASE UNCHANGED vars
  BY <1>1 DEF vars, fileVars
<1>2. ASSUME NEW p \in Procs, Step(p) PROVE [Registry!Next]_sessions
<2>1. CASE Start(p)
  BY <2>1 DEF Start, StartInit, StartAssign, StartSend, fileVars
<2>2. CASE EnsureTruncate(p)
  BY <2>2 DEF EnsureTruncate, fileVars
<2>3. CASE EnsureWrite(p)
  BY <2>3 DEF EnsureWrite, fileVars
<2>4. CASE EnsureSessions(p)
  BY <2>4 DEF EnsureSessions, fileVars
<2>5. CASE EnsureSessTrunc(p)
  BY <2>5 DEF EnsureSessTrunc, SeqInv
<2>6. CASE EnsureSessWrite(p)
  BY <2>6 DEF EnsureSessWrite, SeqInv
<2>7. CASE NextName(p)
  BY <2>7 DEF NextName, fileVars
<2>8. CASE Create(p)
  BY <2>8 DEF Create, fileVars
<2>9. CASE GetProject(p)
  BY <2>9 DEF GetProject, fileVars
<2>10. CASE UpsertLoad(p)
  BY <2>10 DEF UpsertLoad, fileVars
<2>11. CASE UpsertTrunc(p)
  <3>1. name[p] \in Names /\ "running" \in Registry!States
    BY <2>11 DEF UpsertTrunc, IInv, ProcInv, Phase, DispatchSteps, TypeOK, Registry!States
  <3>2. sessions' = [sessions EXCEPT ![name[p]] = "running"]
    BY <2>11 DEF UpsertTrunc, SeqInv
  <3>. QED
    BY <3>1, <3>2 DEF Registry!Next, Registry!Upsert
<2>12. CASE UpsertWrite(p)
  BY <2>12 DEF UpsertWrite, SeqInv
<2>13. CASE DRequire(p)
  BY <2>13 DEF DRequire, fileVars
<2>14. CASE DRequire2(p)
  BY <2>14 DEF DRequire2, fileVars
<2>. QED
  BY <1>2, <2>1, <2>2, <2>3, <2>4, <2>5, <2>6, <2>7, <2>8, <2>9, <2>10, <2>11, <2>12, <2>13, <2>14 DEF Step
<1>. QED
  BY <1>1, <1>2 DEF Next

(* Initially no invocation is in progress and sessions.json is empty or  *)
(* absent.                                                               *)
LEMMA InitSeqInv == Init => SeqInv
BY DEF Init, SeqInv, InProgress, Exits, ExecErrors

(* IInv gives TrackedSessionsExist: a backed name is an executor session. *)
LEMMA IInvTracked == IInv => TrackedSessionsExist
BY DEF IInv, SessionsBacked, Backed, TrackedSessionsExist

-----------------------------------------------------------------------------
(* Every reachable state of the CLI invocations, the store files and the *)
(* executor is well typed: an invocation's name is a name of the bound or *)
(* none, the map upsert_session writes is a map of session states, and   *)
(* file states are absent, torn or ok.                                   *)
THEOREM EngineTypeCorrect == Spec => []TypeOK
<1>1. IInv => TypeOK
  BY DEF IInv
<1>. QED
  BY <1>1, InitIInv, IInvStep, PTL DEF Spec

(* Whatever the interleaving of invocations and whichever executor calls *)
(* fail, sessions.json never records a session the executor has not     *)
(* created: create_session calls the executor before upsert_session, and *)
(* every other upsert rewrites a map loaded from the file.               *)
THEOREM TrackedSessionsExistHolds == Spec => []TrackedSessionsExist
BY InitIInv, IInvStep, IInvTracked, PTL DEF Spec

(* _next_session_name always finds a free name below the bound: with    *)
(* NNames at least the number of invocations, some name is untracked     *)
(* whenever an `assign` picks one.                                       *)
THEOREM AutoNameWithinBound ==
    Spec => [](\A p \in Procs : pc[p] = "next_name" => Names \ Tracked # {})
<1>1. IInv => \A p \in Procs : pc[p] = "next_name" => Names \ Tracked # {}
  BY FreeNameExists
<1>. QED
  BY <1>1, InitIInv, IInvStep, PTL DEF Spec

(* Used one invocation at a time (the single-writer discipline the       *)
(* design assumes), the session map that upsert_session maintains is an  *)
(* atomic registry: every change is one upsert of one session, and no     *)
(* record is ever lost.                                                  *)
THEOREM SequentialRefinement ==
    ASSUME ~Concurrent
    PROVE  Spec => SessionsRefineRegistry
<1>1. Init => IInv /\ SeqInv
  BY InitIInv, InitSeqInv
<1>2. IInv /\ SeqInv /\ [Next]_vars => (IInv /\ SeqInv)'
  BY IInvStep, SeqInvStep
<1>3. IInv /\ SeqInv /\ [Next]_vars => [Registry!Next]_sessions
  BY RefineStep
<1>4. Init => Registry!Init
  BY DEF Init, Registry!Init, Registry!Unknown, NoSessions
<1>. QED
  BY <1>1, <1>2, <1>3, <1>4, PTL DEF Spec, SessionsRefineRegistry, Registry!Spec
=============================================================================
