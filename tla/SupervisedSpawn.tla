-------------------------- MODULE SupervisedSpawn --------------------------
(***************************************************************************)
(* The launcher's signal handling around its two children: the optional    *)
(* restricted ssh-agent and the gated sandbox process (src/signals.rs,     *)
(* with its callers in src/ssh_restricted.rs, src/main.rs and src/pty.rs). *)
(*                                                                         *)
(* CHILD_PID and PENDING_SIGNAL are two SeqCst atomics.  A handler stores  *)
(* the signal and then loads the pid; registration stores the pid and then *)
(* loads the signal.  The handled signals are blocked in the MAIN thread   *)
(* only while it spawns, so a worker thread (a proxy or relay thread) can  *)
(* run the handler between any two steps of the main thread.  While the    *)
(* main thread itself runs a handler, its launch code is suspended.        *)
(*                                                                         *)
(* The gate is a pipe.  Both ends are inherited by the sandbox process     *)
(* (nix::unistd::pipe sets no close-on-exec flag), which therefore holds a *)
(* write end of the pipe it reads: closing the launcher's end never shows  *)
(* it an end of file, and only a byte or a signal gets it out of read().   *)
(***************************************************************************)
EXTENDS Integers, FiniteSets

CONSTANTS Signals,    \* the handled signals: SIGINT, SIGTERM, SIGHUP
          NoSignal,   \* PENDING_SIGNAL = 0
          Main,       \* the launcher's main thread
          Workers,    \* its other threads, up once the proxy may have started
          MaxRaises   \* bound on the signals the environment sends

ASSUME SignalsAssumption == NoSignal \notin Signals
ASSUME ThreadsAssumption == Main \notin Workers
ASSUME RaisesAssumption == MaxRaises \in Nat

Threads == {Main} \cup Workers
Agent   == "agent"
Sandbox == "sandbox"
NoPid   == "none"
Pids    == {Agent, Sandbox}

\* The agent's directory under /tmp: with "bound" its socket is in it.
BaseStates == {"none", "made", "bound"}

ProcStates == {"unborn", "masked", "reading", "running", "zombie", "reaped"}
Live       == {"masked", "reading", "running", "zombie"}   \* a pid kill(2) may name

AgentPoints == {"start", "staged", "agentStore", "agentLoad", "agentWait", "agentKeys",
                "agentReady"}
MainPoints == AgentPoints \cup
              {"check", "block", "abortCheck", "spawn", "boxStore", "boxLoad", "restore",
               "cancelCheck", "release", "wait", "killBox", "reapBox", "clearBox",
               "unwind", "killAgent", "reapAgent", "sweep", "rmdir", "exit", "exited"}

VARIABLES
    pc,         \* control point of the main thread
    childPid,   \* CHILD_PID
    pending,    \* PENDING_SIGNAL
    masked,     \* HandledSignalMask held by the main thread
    kernel,     \* signals pending for the launcher in the kernel
    at,         \* progress of forward_signal per thread and signal
    reg,        \* the pid that activation loaded
    proc,       \* state of the two child processes
    got,        \* signals each child process has been sent
    byte,       \* the gate pipe holds, or has passed on, the release byte
    base,       \* the directory made for the agent
    raises,     \* signals the environment has sent
    caught      \* history: signals whose handler has returned

procVars   == <<proc, got>>
signalVars == <<kernel, at, reg, raises, caught>>
vars == <<pc, childPid, pending, masked, kernel, at, reg, proc, got, byte,
          base, raises, caught>>

TypeOK ==
    /\ pc \in MainPoints
    /\ childPid \in Pids \cup {NoPid}
    /\ pending \in Signals \cup {NoSignal}
    /\ masked \in BOOLEAN
    /\ kernel \in SUBSET Signals
    /\ at \in [Threads -> [Signals -> {"idle", "stored", "loaded"}]]
    /\ reg \in [Threads -> [Signals -> Pids \cup {NoPid}]]
    /\ proc \in [Pids -> ProcStates]
    /\ got \in [Pids -> SUBSET Signals]
    /\ byte \in BOOLEAN
    /\ base \in BaseStates
    /\ raises \in 0..MaxRaises
    /\ caught \in SUBSET Signals

\* install_handlers has just run and no child exists.
Init ==
    /\ pc = "start"
    /\ childPid = NoPid
    /\ pending = NoSignal
    /\ masked = FALSE
    /\ kernel = {}
    /\ at = [t \in Threads |-> [s \in Signals |-> "idle"]]
    /\ reg = [t \in Threads |-> [s \in Signals |-> NoPid]]
    /\ proc = [p \in Pids |-> "unborn"]
    /\ got = [p \in Pids |-> {}]
    /\ byte = FALSE
    /\ base = "none"
    /\ raises = 0
    /\ caught = {}

----------------------------------------------------------------------------
\* The environment and the handler, forward_signal.

\* A handled signal is sent to the launcher; pending signals coalesce.
Raise(s) ==
    /\ pc # "exited"
    /\ raises < MaxRaises
    /\ raises' = raises + 1
    /\ kernel' = kernel \cup {s}
    /\ UNCHANGED <<pc, childPid, pending, masked, at, reg, procVars, byte, base, caught>>

\* Threads other than the main one exist once the egress proxy may be up.
Takes(t) ==
    IF t = Main THEN ~masked ELSE pc \notin AgentPoints \cup {"exited"}

\* A handler that forwards but forgets to leave the signal for the launch code.
HandlerStoreForgets(t, s) ==
    /\ pc # "exited" /\ s \in kernel /\ at[t][s] = "idle" /\ Takes(t)
    /\ kernel' = kernel \ {s}
    /\ at' = [at EXCEPT ![t][s] = "stored"]
    /\ UNCHANGED <<pc, childPid, pending, masked, reg, procVars, byte, base, raises, caught>>

\* Entry of forward_signal on a thread that does not block the signal: the
\* signal is stored in PENDING_SIGNAL, over whatever was there.
HandlerStore(t, s) ==
    /\ pc # "exited"
    /\ s \in kernel
    /\ at[t][s] = "idle"
    /\ Takes(t)
    /\ kernel' = kernel \ {s}
    /\ pending' = s
    /\ at' = [at EXCEPT ![t][s] = "stored"]
    /\ UNCHANGED <<pc, childPid, masked, reg, procVars, byte, base, raises, caught>>

HandlerLoad(t, s) ==
    /\ at[t][s] = "stored"
    /\ at' = [at EXCEPT ![t][s] = "loaded"]
    /\ reg' = [reg EXCEPT ![t][s] = childPid]
    /\ UNCHANGED <<pc, childPid, pending, masked, kernel, procVars, byte, base, raises, caught>>

\* kill(2): a process waiting at the gate has the default disposition and
\* dies; one that still blocks the signal dies when it unblocks it; a running
\* one does what it likes.
Kill(p, s) ==
    /\ proc' = [proc EXCEPT ![p] = IF @ = "reading" THEN "zombie" ELSE @]
    /\ got' = [got EXCEPT ![p] = IF proc[p] \in Live THEN @ \cup {s} ELSE @]

HandlerKill(t, s) ==
    /\ at[t][s] = "loaded"
    /\ IF reg[t][s] \in Pids THEN Kill(reg[t][s], s) ELSE UNCHANGED procVars
    /\ at' = [at EXCEPT ![t][s] = "idle"]
    /\ caught' = caught \cup {s}
    /\ UNCHANGED <<pc, childPid, pending, masked, kernel, reg, byte, base, raises>>

Handler(t, s) == HandlerStore(t, s) \/ HandlerLoad(t, s) \/ HandlerKill(t, s)

----------------------------------------------------------------------------
\* The main thread.  None of its steps run while it is inside a handler.

MainFree == \A s \in Signals : at[Main][s] = "idle"

At(point) == pc = point /\ MainFree

Goto(point) == pc' = point

cancelled == pending # NoSignal     \* cancellation_signal().is_some()

\* A registration that keeps an earlier child registered.
RegisterOnce(p, here, next) ==
    /\ At(here)
    /\ childPid' = IF childPid = NoPid THEN p ELSE childPid
    /\ Goto(next)
    /\ UNCHANGED <<pending, masked, signalVars, procVars, byte, base>>

\* set_child_pid, first half: publish the pid.
RegisterStore(p, here, next) ==
    /\ At(here)
    /\ childPid' = p
    /\ Goto(next)
    /\ UNCHANGED <<pending, masked, signalVars, procVars, byte, base>>

\* A registration that looks at no earlier signal.
RegisterSilently(p, here, next) ==
    /\ At(here)
    /\ Goto(next)
    /\ UNCHANGED <<childPid, pending, masked, signalVars, procVars, byte, base>>

\* set_child_pid, second half: forward a signal that arrived before the pid.
RegisterForward(p, here, next) ==
    /\ At(here)
    /\ IF cancelled THEN Kill(p, pending) ELSE UNCHANGED procVars
    /\ Goto(next)
    /\ UNCHANGED <<childPid, pending, masked, signalVars, byte, base>>

\* No selected-key SSH in the policy.
SkipAgent ==
    /\ At("start")
    /\ Goto("check")
    /\ UNCHANGED <<childPid, pending, masked, signalVars, procVars, byte, base>>

\* Plan::start_validated up to the directory: it fails when cancelled, when a
\* tool has changed, or when the path is there already.
StageAgent ==
    /\ At("start")
    /\ \/ Goto("exit") /\ UNCHANGED base
       \/ ~cancelled /\ base' = "made" /\ Goto("staged")
    /\ UNCHANGED <<childPid, pending, masked, signalVars, procVars, byte>>

\* What the directory holds, a last look for a signal, and the spawn.  A
\* failure of any drops StagingCleanup.
SpawnAgent ==
    /\ At("staged")
    /\ \/ Goto("sweep") /\ UNCHANGED proc
       \/ ~cancelled /\ proc' = [proc EXCEPT ![Agent] = "running"] /\ Goto("agentStore")
    /\ UNCHANGED <<childPid, pending, masked, signalVars, got, byte, base>>

\* The wait for the socket.  It ends without one when cancelled, when the agent
\* has exited, or after 3 seconds, in which the socket may appear too late.
AwaitSocket ==
    /\ At("agentWait")
    /\ \/ Goto("unwind")
       \/ base = "bound" /\ ~cancelled /\ Goto("agentKeys")
    /\ UNCHANGED <<childPid, pending, masked, signalVars, procVars, byte, base>>

\* load_keys: ssh-add may refuse a key, and finds no agent that has ended.
LoadKeys ==
    /\ At("agentKeys")
    /\ \/ Goto("unwind")
       \/ proc[Agent] = "running" /\ Goto("agentReady")
    /\ UNCHANGED <<childPid, pending, masked, signalVars, procVars, byte, base>>

\* The last look of start_validated, after which the Runtime is handed on.
AgentReady ==
    /\ At("agentReady")
    /\ Goto(IF cancelled THEN "unwind" ELSE "check")
    /\ UNCHANGED <<childPid, pending, masked, signalVars, procVars, byte, base>>

\* run(): from abort_if_cancelled to the wrapped command.  The preparation of
\* the sandbox can fail on its own.
PrepareSandbox ==
    /\ At("check")
    /\ \/ Goto("unwind")
       \/ ~cancelled /\ Goto("block")
    /\ UNCHANGED <<childPid, pending, masked, signalVars, procVars, byte, base>>

\* HandledSignalMask::block.
BlockSignals ==
    /\ At("block")
    /\ masked' = TRUE
    /\ Goto("abortCheck")
    /\ UNCHANGED <<childPid, pending, signalVars, procVars, byte, base>>

\* abort_if_cancelled inside the mask; an error drops, and so restores, it.
AbortIfCancelled ==
    /\ At("abortCheck")
    /\ IF cancelled THEN masked' = FALSE /\ Goto("unwind")
                    ELSE UNCHANGED masked /\ Goto("spawn")
    /\ UNCHANGED <<childPid, pending, signalVars, procVars, byte, base>>

\* Command::spawn: the child inherits the mask.  A failed spawn returns.
SpawnGate ==
    /\ At("spawn")
    /\ \/ /\ proc' = [proc EXCEPT ![Sandbox] = "masked"]
          /\ Goto("boxStore")
          /\ UNCHANGED masked
       \/ masked' = FALSE /\ Goto("unwind") /\ UNCHANGED proc
    /\ UNCHANGED <<childPid, pending, signalVars, got, byte, base>>

\* mask.restore(); when it fails the child is killed.  The Drop of the mask
\* tries again, so the mask is off when spawn_supervised has returned.
RestoreMask ==
    /\ At("restore")
    /\ masked' = FALSE
    /\ Goto("cancelCheck") \/ Goto("killBox")
    /\ UNCHANGED <<childPid, pending, signalVars, procVars, byte, base>>

\* The last look at PENDING_SIGNAL before the gate opens.
CancelCheck ==
    /\ At("cancelCheck")
    /\ Goto(IF cancelled THEN "reapBox" ELSE "release")
    /\ UNCHANGED <<childPid, pending, masked, signalVars, procVars, byte, base>>

\* One byte is written and the write end dropped.  With no reader left the
\* write fails and the child is killed.
ReleaseGate ==
    /\ At("release")
    /\ IF proc[Sandbox] = "zombie"
         THEN byte' = byte /\ Goto("killBox")
         ELSE byte' = TRUE /\ Goto("wait")
    /\ UNCHANGED <<childPid, pending, masked, signalVars, procVars, base>>

\* child.kill(): SIGKILL.
KillSandbox ==
    /\ At("killBox")
    /\ proc' = [proc EXCEPT ![Sandbox] = "zombie"]
    /\ Goto("reapBox")
    /\ UNCHANGED <<childPid, pending, masked, signalVars, got, byte, base>>

\* child.wait() on the error paths of spawn_supervised.
ReapAborted ==
    /\ At("reapBox")
    /\ proc[Sandbox] = "zombie"
    /\ proc' = [proc EXCEPT ![Sandbox] = "reaped"]
    /\ Goto("clearBox")
    /\ UNCHANGED <<childPid, pending, masked, signalVars, got, byte, base>>

\* clear_child_pid_if(pid) of the sandbox, then the error returns.
ClearAborted ==
    /\ At("clearBox")
    /\ childPid' = IF childPid = Sandbox THEN NoPid ELSE childPid
    /\ Goto("unwind")
    /\ UNCHANGED <<pending, masked, signalVars, procVars, byte, base>>

\* wait_child after a launch; CHILD_PID keeps the reaped pid.  The audit
\* record and the guards follow.
WaitChild ==
    /\ At("wait")
    /\ proc[Sandbox] = "zombie"
    /\ proc' = [proc EXCEPT ![Sandbox] = "reaped"]
    /\ Goto("unwind")
    /\ UNCHANGED <<childPid, pending, masked, signalVars, got, byte, base>>

\* A drop that takes the registered child for the agent.
DropRegistered ==
    /\ At("unwind")
    /\ childPid' = NoPid
    /\ Goto(IF childPid = Agent THEN "killAgent" ELSE "exit")
    /\ UNCHANGED <<pending, masked, signalVars, procVars, byte, base>>

\* Drop for Runtime: clear the pid if it is the agent's, kill, wait.
DropRuntime ==
    /\ At("unwind")
    /\ IF proc[Agent] = "unborn"
         THEN UNCHANGED childPid /\ Goto("exit")
         ELSE /\ childPid' = IF childPid = Agent THEN NoPid ELSE childPid
              /\ Goto("killAgent")
    /\ UNCHANGED <<pending, masked, signalVars, procVars, byte, base>>

KillAgent ==
    /\ At("killAgent")
    /\ proc' = [proc EXCEPT ![Agent] = "zombie"]
    /\ Goto("reapAgent")
    /\ UNCHANGED <<childPid, pending, masked, signalVars, got, byte, base>>

ReapAgent ==
    /\ At("reapAgent")
    /\ proc[Agent] = "zombie"
    /\ proc' = [proc EXCEPT ![Agent] = "reaped"]
    /\ Goto("sweep")
    /\ UNCHANGED <<childPid, pending, masked, signalVars, got, byte, base>>

\* remove_dir_all: what the directory holds is removed, and then the directory,
\* unless something was put into it meanwhile.  The error is ignored.
SweepBase ==
    /\ At("sweep")
    /\ base' = IF base = "bound" THEN "made" ELSE base
    /\ Goto("rmdir")
    /\ UNCHANGED <<childPid, pending, masked, signalVars, procVars, byte>>

RemoveBase ==
    /\ At("rmdir")
    /\ base' = IF base = "made" THEN "none" ELSE base
    /\ Goto("exit")
    /\ UNCHANGED <<childPid, pending, masked, signalVars, procVars, byte>>

\* process::exit ends every thread, whatever handler it is in.
Exit ==
    /\ At("exit")
    /\ Goto("exited")
    /\ at' = [t \in Threads |-> [s \in Signals |-> "idle"]]
    /\ kernel' = {}
    /\ UNCHANGED <<childPid, pending, masked, reg, procVars, byte, base, raises, caught>>

MainStep ==
    \/ SkipAgent \/ StageAgent \/ SpawnAgent
    \/ RegisterStore(Agent, "agentStore", "agentLoad")
    \/ RegisterForward(Agent, "agentLoad", "agentWait")
    \/ AwaitSocket \/ LoadKeys \/ AgentReady \/ PrepareSandbox
    \/ BlockSignals \/ AbortIfCancelled \/ SpawnGate
    \/ RegisterStore(Sandbox, "boxStore", "boxLoad")
    \/ RegisterForward(Sandbox, "boxLoad", "restore")
    \/ RestoreMask \/ CancelCheck \/ ReleaseGate
    \/ KillSandbox \/ ReapAborted \/ ClearAborted \/ WaitChild
    \/ DropRuntime \/ KillAgent \/ ReapAgent \/ SweepBase \/ RemoveBase \/ Exit

----------------------------------------------------------------------------
\* The child processes.

\* run_supervised_exec unblocks the handled signals; one that is pending
\* takes the process with it.
GateUnblock ==
    /\ proc[Sandbox] = "masked"
    /\ proc' = [proc EXCEPT ![Sandbox] = IF got[Sandbox] # {} THEN "zombie" ELSE "reading"]
    /\ UNCHANGED <<pc, childPid, pending, masked, signalVars, got, byte, base>>

\* The byte arrives and the sandbox command is executed.
GateExec ==
    /\ proc[Sandbox] = "reading"
    /\ byte
    /\ proc' = [proc EXCEPT ![Sandbox] = "running"]
    /\ UNCHANGED <<pc, childPid, pending, masked, signalVars, got, byte, base>>

\* ssh-agent -D -a makes its socket.
AgentBinds ==
    /\ proc[Agent] = "running"
    /\ base = "made"
    /\ base' = "bound"
    /\ UNCHANGED <<pc, childPid, pending, masked, signalVars, procVars, byte>>

\* The agent or the sandboxed command ends, by itself or by a signal.  An agent
\* may remove its socket before.
ProcExit(p) ==
    /\ proc[p] = "running"
    /\ proc' = [proc EXCEPT ![p] = "zombie"]
    /\ base' \in {base} \cup (IF p = Agent /\ base = "bound" THEN {"made"} ELSE {})
    /\ UNCHANGED <<pc, childPid, pending, masked, signalVars, got, byte>>

GateStep == GateUnblock \/ GateExec

Next ==
    \/ \E s \in Signals : Raise(s)
    \/ \E t \in Threads, s \in Signals : Handler(t, s)
    \/ MainStep
    \/ GateStep
    \/ AgentBinds
    \/ \E p \in Pids : ProcExit(p)

Spec == Init /\ [][Next]_vars

\* The kernel runs every ready thread and the gate process.  Nothing is
\* assumed of the environment, nor of how long the agent or the sandboxed
\* command lives; ssh-add, which has no deadline, is assumed to return.
FairSpec ==
    /\ Spec
    /\ WF_vars(MainStep)
    /\ WF_vars(GateStep)
    /\ \A t \in Threads, s \in Signals : WF_vars(Handler(t, s))

----------------------------------------------------------------------------
\* Correctness.

\* A signal that a handler took is never lost: while the sandboxed command
\* runs, every signal whose handler has returned has been sent to it.  A
\* signal taken before the gate opened therefore keeps the command from
\* running at all, since a gate process that got one dies in the gate.
\* (set_child_pid, forward_signal and the check before the gate write.)
NoLostSignal ==
    proc[Sandbox] = "running" => caught \subseteq got[Sandbox]

\* A signal forwarded to the ssh-agent, which was registered first, always
\* cancels the launch: the command never runs beside an agent that the
\* launcher itself has signalled.
AgentSignalCancels ==
    proc[Sandbox] = "running" => got[Agent] = {}

\* When the launcher has exited it has reaped everything it started and removed
\* the agent's directory, on the normal path and on every error and
\* cancellation path: also where the wait for the socket gives up while the
\* agent makes it (Drop for Runtime and for StagingCleanup).
NothingLeftBehind ==
    pc = "exited" => base = "none" /\ \A p \in Pids : proc[p] \in {"unborn", "reaped"}

\* A launch that was cancelled before it last looked ends: in particular
\* child.wait() on the cancelled path returns, although the gate process
\* never sees an end of file.
CancelledLaunchEnds ==
    (cancelled /\ pc \notin {"release", "wait"}) ~> (pc = "exited")
=============================================================================
