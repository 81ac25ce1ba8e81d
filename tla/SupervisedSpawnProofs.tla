----------------------- MODULE SupervisedSpawnProofs -----------------------
(***************************************************************************)
(* For every set of signals and of worker threads: the types of            *)
(* SupervisedSpawn, that no signal is lost, that a signal forwarded to the *)
(* agent cancels the launch, and that the launcher removes what it started.*)
(***************************************************************************)
EXTENDS SupervisedSpawn, TLAPS

\* Before the sandbox process exists, and after it has been dealt with.
BeforeSpawn == AgentPoints \cup {"check", "block", "abortCheck", "spawn"}
Sweeping == {"sweep", "rmdir"}
AfterSandbox == {"clearBox", "unwind", "killAgent", "reapAgent", "exit", "exited"} \cup Sweeping

\* PENDING_SIGNAL is never reset, so an empty one says no handler ever ran.
PendingRemembers ==
    pending = NoSignal =>
        /\ caught = {}
        /\ got[Agent] = {}
        /\ \A t \in Threads, s \in Signals : at[t][s] = "idle"

\* From its registration to its reaping CHILD_PID names the sandbox.
SandboxRegistered ==
    pc \in {"boxLoad", "restore", "cancelCheck", "release", "wait"} => childPid = Sandbox

\* Past the last look at PENDING_SIGNAL every handler aims at the sandbox and
\* the ones that have returned have hit it.
HandlersAimed ==
    pc \in {"release", "wait"} =>
        /\ \A t \in Threads, s \in Signals : at[t][s] = "loaded" => reg[t][s] = Sandbox
        /\ proc[Sandbox] \in Live => caught \subseteq got[Sandbox]
        /\ got[Agent] = {}

\* The command runs only once the gate is open, and the gate is open only
\* while the launcher waits for the command or after it has reaped it.
GateOrder ==
    /\ proc[Sandbox] = "running" => byte
    /\ byte => pc = "wait" \/ pc \in AfterSandbox
    /\ pc \in BeforeSpawn => proc[Sandbox] = "unborn"
    /\ pc \in AfterSandbox => proc[Sandbox] \in {"unborn", "reaped"}

\* The directory is there only with the agent, until the agent is gone; so
\* nothing is put into it once it is being removed.
AgentOrder ==
    /\ pc \in {"start", "staged"} => proc[Agent] = "unborn"
    /\ pc \in {"exit", "exited"} \cup Sweeping => proc[Agent] \in {"unborn", "reaped"}
    /\ proc[Agent] = "unborn" /\ pc \notin {"staged"} \cup Sweeping => base = "none"
    /\ pc = "rmdir" => base # "bound"
    /\ pc \in {"exit", "exited"} => base = "none"

IInv ==
    /\ PendingRemembers
    /\ SandboxRegistered
    /\ HandlersAimed
    /\ GateOrder
    /\ AgentOrder

----------------------------------------------------------------------------
\* Every variable of the launcher keeps its type (the control points, the two
\* atomics, the handler activations and the process states of signals.rs).
THEOREM TypeCorrect == Spec => []TypeOK
<1> USE DEF TypeOK, Pids, Agent, Sandbox, NoPid, ProcStates, MainPoints, AgentPoints, BaseStates
<1>1. Init => TypeOK
  <2> SUFFICES ASSUME Init PROVE TypeOK
    OBVIOUS
  <2>1. raises \in 0..MaxRaises
    BY RaisesAssumption, SMT DEF Init
  <2>2. /\ at \in [Threads -> [Signals -> {"idle", "stored", "loaded"}]]
        /\ reg \in [Threads -> [Signals -> Pids \cup {NoPid}]]
    BY SMT DEF Init
  <2>3. proc \in [Pids -> ProcStates] /\ got \in [Pids -> SUBSET Signals]
    BY SMT DEF Init
  <2> QED
    BY <2>1, <2>2, <2>3 DEF Init
<1>2. TypeOK /\ [Next]_vars => TypeOK'
  <2> SUFFICES ASSUME TypeOK, [Next]_vars PROVE TypeOK'
    OBVIOUS
  <2> USE DEF signalVars, procVars, At, Goto
  <2>1. ASSUME NEW s \in Signals, Raise(s) PROVE TypeOK'
    BY <2>1, RaisesAssumption DEF Raise
  <2>2. ASSUME NEW t \in Threads, NEW s \in Signals, HandlerStore(t, s) PROVE TypeOK'
    BY <2>2 DEF HandlerStore
  <2>3. ASSUME NEW t \in Threads, NEW s \in Signals, HandlerLoad(t, s) PROVE TypeOK'
    BY <2>3 DEF HandlerLoad
  <2>4. ASSUME NEW t \in Threads, NEW s \in Signals, HandlerKill(t, s) PROVE TypeOK'
    BY <2>4 DEF HandlerKill, Kill
  <2>5. CASE MainStep
    <3>1. CASE SkipAgent \/ StageAgent \/ SpawnAgent \/ AwaitSocket \/ LoadKeys \/ AgentReady
      BY <3>1 DEF SkipAgent, StageAgent, SpawnAgent, AwaitSocket, LoadKeys, AgentReady
    <3>7. CASE PrepareSandbox \/ BlockSignals \/ SweepBase \/ RemoveBase
      BY <3>7 DEF PrepareSandbox, BlockSignals, SweepBase, RemoveBase
    <3>2. CASE AbortIfCancelled \/ SpawnGate \/ RestoreMask \/ CancelCheck \/ ReleaseGate
      BY <3>2 DEF AbortIfCancelled, SpawnGate, RestoreMask, CancelCheck, ReleaseGate
    <3>3. CASE KillSandbox \/ ReapAborted \/ ClearAborted \/ WaitChild
      BY <3>3 DEF KillSandbox, ReapAborted, ClearAborted, WaitChild
    <3>4. CASE DropRuntime \/ KillAgent \/ ReapAgent \/ Exit
      BY <3>4 DEF DropRuntime, KillAgent, ReapAgent, Exit
    <3>5. CASE RegisterStore(Agent, "agentStore", "agentLoad")
                 \/ RegisterStore(Sandbox, "boxStore", "boxLoad")
      BY <3>5 DEF RegisterStore
    <3>6. CASE RegisterForward(Agent, "agentLoad", "agentWait")
                 \/ RegisterForward(Sandbox, "boxLoad", "restore")
      BY <3>6 DEF RegisterForward, Kill, cancelled
    <3> QED
      BY <2>5, <3>1, <3>2, <3>3, <3>4, <3>5, <3>6, <3>7 DEF MainStep
  <2>6. CASE GateStep
    BY <2>6 DEF GateStep, GateUnblock, GateExec
  <2>7. ASSUME NEW p \in Pids, ProcExit(p) PROVE TypeOK'
    BY <2>7 DEF ProcExit
  <2>8. CASE UNCHANGED vars
    BY <2>8 DEF vars
  <2>9. CASE AgentBinds
    BY <2>9 DEF AgentBinds
  <2> QED
    BY <2>1, <2>2, <2>3, <2>4, <2>5, <2>6, <2>7, <2>8, <2>9 DEF Next, Handler
<1> QED
  BY <1>1, <1>2, PTL DEF Spec

----------------------------------------------------------------------------
\* The strengthened invariant holds when the handlers have just been installed.
LEMMA Initially == Init => IInv
  BY DEF Init, IInv, PendingRemembers, SandboxRegistered, HandlersAimed, GateOrder,
         AgentOrder, BeforeSpawn, AfterSandbox, Sweeping, AgentPoints, Pids, Agent, Sandbox

\* A handler never breaks the strengthened invariant (forward_signal).
LEMMA HandlerKeeps ==
  ASSUME TypeOK, IInv, NEW t \in Threads, NEW s \in Signals, Handler(t, s)
  PROVE  IInv'
<1> USE SignalsAssumption
    DEF IInv, TypeOK, procVars, BeforeSpawn, AfterSandbox, Sweeping, AgentPoints, Pids, Agent,
        Sandbox, NoPid, Live
<1>1. CASE HandlerStore(t, s)
  BY <1>1 DEF HandlerStore, PendingRemembers, SandboxRegistered, HandlersAimed, GateOrder, AgentOrder
<1>2. CASE HandlerLoad(t, s)
  BY <1>2 DEF HandlerLoad, PendingRemembers, SandboxRegistered, HandlersAimed, GateOrder, AgentOrder
<1>3. CASE HandlerKill(t, s)
  <2> USE <1>3 DEF HandlerKill, Kill
  <2>1. PendingRemembers'
    BY DEF PendingRemembers
  <2>2. SandboxRegistered'
    BY DEF SandboxRegistered
  <2>3. HandlersAimed'
    BY DEF HandlersAimed
  <2>4. GateOrder' /\ AgentOrder'
    BY DEF GateOrder, AgentOrder, ProcStates
  <2> QED
    BY <2>1, <2>2, <2>3, <2>4
<1> QED
  BY <1>1, <1>2, <1>3 DEF Handler

\* Nor does a step of the launch code (run, start_validated, spawn_supervised,
\* wait_child and the drop of the agent).
LEMMA MainKeeps ==
  ASSUME TypeOK, IInv, MainStep
  PROVE  IInv'
<1> USE DEF IInv, TypeOK, signalVars, procVars, At, Goto, BeforeSpawn, AfterSandbox,
            Sweeping, AgentPoints, BaseStates, Pids, Agent, Sandbox, NoPid, Live, ProcStates, PendingRemembers, SandboxRegistered,
            HandlersAimed, GateOrder, AgentOrder
<1>1. CASE SkipAgent \/ StageAgent \/ SpawnAgent
  BY <1>1 DEF SkipAgent, StageAgent, SpawnAgent
<1>2. CASE AwaitSocket \/ LoadKeys \/ AgentReady \/ PrepareSandbox \/ BlockSignals
  BY <1>2 DEF AwaitSocket, LoadKeys, AgentReady, PrepareSandbox, BlockSignals
<1>3. CASE AbortIfCancelled \/ SpawnGate \/ RestoreMask
  BY <1>3 DEF AbortIfCancelled, SpawnGate, RestoreMask
<1>4. CASE CancelCheck
  BY <1>4 DEF CancelCheck, cancelled
<1>5. CASE ReleaseGate \/ KillSandbox
  BY <1>5 DEF ReleaseGate, KillSandbox
<1>6. CASE ReapAborted \/ ClearAborted \/ WaitChild
  BY <1>6 DEF ReapAborted, ClearAborted, WaitChild
<1>7. CASE DropRuntime \/ KillAgent \/ ReapAgent \/ SweepBase \/ RemoveBase
  BY <1>7 DEF DropRuntime, KillAgent, ReapAgent, SweepBase, RemoveBase
<1>8. CASE Exit
  BY <1>8 DEF Exit
<1>9. CASE RegisterStore(Agent, "agentStore", "agentLoad")
              \/ RegisterStore(Sandbox, "boxStore", "boxLoad")
  BY <1>9 DEF RegisterStore
<1>10. CASE RegisterForward(Agent, "agentLoad", "agentWait")
               \/ RegisterForward(Sandbox, "boxLoad", "restore")
  BY <1>10 DEF RegisterForward, Kill, cancelled
<1> QED
  BY <1>1, <1>2, <1>3, <1>4, <1>5, <1>6, <1>7, <1>8, <1>9, <1>10 DEF MainStep

\* The strengthened invariant holds of every reachable state.
LEMMA Inductive == Spec => []IInv
<1>1. TypeOK /\ IInv /\ [Next]_vars => IInv'
  <2> SUFFICES ASSUME TypeOK, IInv, [Next]_vars PROVE IInv'
    OBVIOUS
  <2> USE DEF IInv, PendingRemembers, SandboxRegistered, HandlersAimed, GateOrder, AgentOrder
  <2>1. ASSUME NEW s \in Signals, Raise(s) PROVE IInv'
    BY <2>1 DEF Raise, procVars
  <2>2. CASE GateStep
    BY <2>2 DEF GateStep, GateUnblock, GateExec, signalVars, TypeOK, Pids, Agent, Sandbox,
                Live, BeforeSpawn, AfterSandbox, Sweeping, AgentPoints
  <2>3. ASSUME NEW p \in Pids, ProcExit(p) PROVE IInv'
    BY <2>3 DEF ProcExit, signalVars, TypeOK, Pids, Agent, Sandbox, Live, BeforeSpawn,
                AfterSandbox, Sweeping, AgentPoints
  <2>4. CASE UNCHANGED vars
    BY <2>4 DEF vars
  <2>5. CASE AgentBinds
    BY <2>5 DEF AgentBinds, signalVars, procVars, Sweeping
  <2> QED
    BY <2>1, <2>2, <2>3, <2>4, <2>5, HandlerKeeps, MainKeeps DEF Next
<1> QED
  BY <1>1, Initially, TypeCorrect, PTL DEF Spec

\* While the sandboxed command runs, every signal whose handler has returned
\* has been sent to it (set_child_pid against forward_signal, and the check
\* before the gate write), for any number of threads and signals.
THEOREM SignalsReachTheCommand == Spec => []NoLostSignal
<1>1. TypeOK /\ IInv => NoLostSignal
  BY DEF TypeOK, IInv, GateOrder, HandlersAimed, NoLostSignal, AfterSandbox, Live
<1> QED
  BY <1>1, TypeCorrect, Inductive, PTL

\* The command never runs beside an ssh-agent the launcher has signalled.
THEOREM AgentSignalsCancel == Spec => []AgentSignalCancels
<1>1. TypeOK /\ IInv => AgentSignalCancels
  BY DEF TypeOK, IInv, GateOrder, HandlersAimed, AgentSignalCancels, AfterSandbox, Live
<1> QED
  BY <1>1, TypeCorrect, Inductive, PTL

\* On every path the launcher has reaped its children and removed the agent's
\* directory when it exits (the error paths of start_validated and of
\* spawn_supervised, wait_child and Drop for Runtime).
THEOREM ExitsClean == Spec => []NothingLeftBehind
<1>1. TypeOK /\ IInv => NothingLeftBehind
  BY DEF TypeOK, IInv, GateOrder, AgentOrder, NothingLeftBehind, AfterSandbox, Pids
<1> QED
  BY <1>1, TypeCorrect, Inductive, PTL
=============================================================================
