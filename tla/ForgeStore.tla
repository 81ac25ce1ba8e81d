----------------------------- MODULE ForgeStore -----------------------------
(***************************************************************************)
(* The forge access of one project, src/forge_auth.rs: a binding file and  *)
(* a credential file of a fresh name that it refers to, kept by `forge     *)
(* setup` (which rotates), `forge status` and `forge remove` run by        *)
(* several ai-jail processes.  Processes die, writes and directory syncs   *)
(* fail, and the power may go.                                             *)
(*                                                                         *)
(* A file is never seen half written (its bytes are synced before it is    *)
(* renamed into place); what a power loss can undo is a change of a        *)
(* directory that was not synced since.  A step whose sync fails stands    *)
(* also for a process that dies between the change and the sync.           *)
(***************************************************************************)
EXTENDS Integers, FiniteSets

CONSTANTS Procs,      \* ai-jail processes; each runs commands in turn
          Ids,        \* credential ids, each drawn once
          MaxLosses,  \* bound on the power losses
          NoProc, NoId

ASSUME NamesAssumption == NoProc \notin Procs /\ NoId \notin Ids /\ MaxLosses \in Nat

VARIABLES
    binding,   \* forges/<key>.toml: the credential id in it
    creds,     \* credentials/*.toml of this project
    undo,      \* the bindings a power loss may leave
    unsynced,  \* credential files a power loss may bring back or take away
    lock,      \* the holder of the store's lock
    pc, op,    \* the command of each process, and where it is
    id,        \* the credential id a process made, or read from the binding
    prev,      \* save_with: the binding it replaces
    used,      \* ids drawn so far
    lost,      \* history: credentials `status` or `remove` unlinked
    losses

store == <<binding, creds, undo, unsynced>>
vars == <<binding, creds, undo, unsynced, lock, pc, op, id, prev, used, lost, losses>>

Points == {"idle", "lock", "load", "save", "install", "abandon", "retire", "sweep",
           "check", "unbind", "erase", "done", "failed"}

TypeOK ==
    /\ binding \in Ids \cup {NoId}
    /\ creds \subseteq used
    /\ undo \subseteq Ids \cup {NoId}
    /\ unsynced \subseteq used
    /\ lock \in Procs \cup {NoProc}
    /\ pc \in [Procs -> Points]
    /\ op \in [Procs -> {"none", "setup", "status", "remove"}]
    /\ id \in [Procs -> Ids \cup {NoId}]
    /\ prev \in [Procs -> Ids \cup {NoId}]
    /\ used \subseteq Ids
    /\ lost \subseteq used
    /\ losses \in 0..MaxLosses

Init ==
    /\ binding = NoId
    /\ creds = {}
    /\ undo = {NoId}
    /\ unsynced = {}
    /\ lock = NoProc
    /\ pc = [p \in Procs |-> "idle"]
    /\ op = [p \in Procs |-> "none"]
    /\ id = [p \in Procs |-> NoId]
    /\ prev = [p \in Procs |-> NoId]
    /\ used = {}
    /\ lost = {}
    /\ losses = 0

Goto(p, point) == pc' = [pc EXCEPT ![p] = point]

----------------------------------------------------------------------------
\* Commands and the store's lock.

\* setup: probe the forge, then save under an id drawn at random.
Setup(p) ==
    /\ pc[p] = "idle"
    /\ \E i \in Ids \ used :
         /\ id' = [id EXCEPT ![p] = i]
         /\ used' = used \cup {i}
    /\ op' = [op EXCEPT ![p] = "setup"]
    /\ Goto(p, "lock")
    /\ UNCHANGED <<store, lock, prev, lost, losses>>

\* status: the binding is read before the lock is taken.
Status(p) ==
    /\ pc[p] = "idle"
    /\ id' = [id EXCEPT ![p] = binding]
    /\ op' = [op EXCEPT ![p] = "status"]
    /\ Goto(p, IF binding = NoId THEN "lock" ELSE "check")
    /\ UNCHANGED <<store, lock, prev, used, lost, losses>>

\* status: the credential of that binding must load.
CheckCredential(p) ==
    /\ pc[p] = "check"
    /\ Goto(p, IF id[p] \in creds THEN "lock" ELSE "failed")
    /\ UNCHANGED <<store, lock, op, id, prev, used, lost, losses>>

Remove(p) ==
    /\ pc[p] = "idle"
    /\ op' = [op EXCEPT ![p] = "remove"]
    /\ Goto(p, "lock")
    /\ UNCHANGED <<store, lock, id, prev, used, lost, losses>>

AfterLock(p) == [setup |-> "load", status |-> "sweep", remove |-> "unbind"][op[p]]

\* A store whose lock file is opened but not locked.
TakeUnlocked(p) ==
    /\ pc[p] = "lock"
    /\ lock' = p
    /\ Goto(p, AfterLock(p))
    /\ UNCHANGED <<store, op, id, prev, used, lost, losses>>

\* StorePaths::prepare.
TakeLock(p) ==
    /\ pc[p] = "lock"
    /\ lock = NoProc
    /\ lock' = p
    /\ Goto(p, AfterLock(p))
    /\ UNCHANGED <<store, op, id, prev, used, lost, losses>>

Finish(p) ==
    /\ lock' = IF lock = p THEN NoProc ELSE lock
    /\ pc' = [pc EXCEPT ![p] = "idle"]
    /\ op' = [op EXCEPT ![p] = "none"]
    /\ id' = [id EXCEPT ![p] = NoId]
    /\ prev' = [prev EXCEPT ![p] = NoId]
    /\ UNCHANGED <<store, used, lost, losses>>

\* The command returns and its lock guard drops.
Return(p) == pc[p] \in {"done", "failed"} /\ Finish(p)

\* The process dies, or a command fails before it changes anything more.
Die(p) == pc[p] # "idle" /\ Finish(p)

----------------------------------------------------------------------------
\* save_with.

LoadPrevious(p) ==
    /\ pc[p] = "load"
    /\ prev' = [prev EXCEPT ![p] = binding]
    /\ Goto(p, "save")
    /\ UNCHANGED <<store, lock, op, id, used, lost, losses>>

\* atomic_private_write of the credential: installed and synced, installed
\* but not synced, or not installed.
WriteCredential(p) ==
    /\ pc[p] = "save"
    /\ \/ /\ creds' = creds \cup {id[p]}
          /\ unsynced' = {}
          /\ Goto(p, "install")
       \/ /\ creds' = creds \cup {id[p]}
          /\ unsynced' = unsynced \cup {id[p]}
          /\ Goto(p, "failed")
       \/ UNCHANGED <<creds, unsynced>> /\ Goto(p, "failed")
    /\ UNCHANGED <<binding, undo, lock, op, id, prev, used, lost, losses>>

\* An installation whose directory sync is best effort.
InstallBestEffort(p) ==
    /\ pc[p] = "install"
    /\ \/ /\ binding' = id[p]
          /\ undo' \in {{id[p]}, undo \cup {id[p]}}
          /\ Goto(p, "retire")
       \/ UNCHANGED <<binding, undo>> /\ Goto(p, "abandon")
    /\ UNCHANGED <<creds, unsynced, lock, op, id, prev, used, lost, losses>>

\* atomic_private_write of the binding: Ok, InstalledButSyncFailed, NotInstalled.
InstallBinding(p) ==
    /\ pc[p] = "install"
    /\ \/ /\ binding' = id[p]
          /\ undo' = {id[p]}
          /\ Goto(p, "retire")
       \/ /\ binding' = id[p]
          /\ undo' = undo \cup {id[p]}
          /\ Goto(p, "failed")
       \/ UNCHANGED <<binding, undo>> /\ Goto(p, "abandon")
    /\ UNCHANGED <<creds, unsynced, lock, op, id, prev, used, lost, losses>>

\* durable_remove: unlinked and synced, unlinked but not synced, or neither
\* (so it is when there is no such file).
DurableRemove(p, i, next) ==
    \/ /\ i \in creds
       /\ creds' = creds \ {i}
       /\ \/ unsynced' = {} /\ Goto(p, next)
          \/ unsynced' = unsynced \cup {i} /\ Goto(p, "failed")
    \/ UNCHANGED <<creds, unsynced>> /\ Goto(p, "failed")

\* The binding was not installed: its credential goes again.
Abandon(p) ==
    /\ pc[p] = "abandon"
    /\ DurableRemove(p, id[p], "failed")
    /\ UNCHANGED <<binding, undo, lock, op, id, prev, used, lost, losses>>

\* The credential of the binding that was replaced goes.
Retire(p) ==
    /\ pc[p] = "retire"
    /\ IF prev[p] = NoId THEN Goto(p, "sweep") /\ UNCHANGED <<creds, unsynced>>
                         ELSE DurableRemove(p, prev[p], "sweep")
    /\ UNCHANGED <<binding, undo, lock, op, id, prev, used, lost, losses>>

----------------------------------------------------------------------------
\* cleanup_orphan_credentials_unlocked, for setup and status: every credential
\* goes but the one whose id the caller passed.

Sweep(p) ==
    /\ pc[p] = "sweep"
    /\ \E i \in creds \ {id[p]} :
         /\ DurableRemove(p, i, "sweep")
         /\ lost' = IF op[p] = "status" /\ i \notin creds' THEN lost \cup {i} ELSE lost
    /\ UNCHANGED <<binding, undo, lock, op, id, prev, used, losses>>

SweepDone(p) ==
    /\ pc[p] = "sweep"
    /\ creds \subseteq {id[p]}
    /\ Goto(p, "done")
    /\ UNCHANGED <<store, lock, op, id, prev, used, lost, losses>>

----------------------------------------------------------------------------
\* remove, which syncs neither directory.

Unbind(p) ==
    /\ pc[p] = "unbind"
    /\ binding' = NoId
    /\ undo' = undo \cup {NoId}
    /\ Goto(p, "erase")
    /\ UNCHANGED <<creds, unsynced, lock, op, id, prev, used, lost, losses>>

Erase(p) ==
    /\ pc[p] = "erase"
    /\ \E i \in creds :
         /\ creds' = creds \ {i}
         /\ unsynced' = unsynced \cup {i}
         /\ lost' = lost \cup {i}
    /\ UNCHANGED <<binding, undo, lock, pc, op, id, prev, used, losses>>

EraseDone(p) ==
    /\ pc[p] = "erase"
    /\ creds = {}
    /\ Goto(p, "done")
    /\ UNCHANGED <<store, lock, op, id, prev, used, lost, losses>>

----------------------------------------------------------------------------
\* The power goes: every process ends, and of the changes that were not
\* synced any may be undone.
PowerLoss ==
    /\ losses < MaxLosses
    /\ losses' = losses + 1
    /\ binding' \in undo
    /\ undo' = {binding'}
    /\ \E flipped \in SUBSET unsynced :
         creds' = (creds \ flipped) \cup (flipped \ creds)
    /\ unsynced' = {}
    /\ lock' = NoProc
    /\ pc' = [p \in Procs |-> "idle"]
    /\ op' = [p \in Procs |-> "none"]
    /\ id' = [p \in Procs |-> NoId]
    /\ prev' = [p \in Procs |-> NoId]
    /\ UNCHANGED <<used, lost>>

Command(p) ==
    \/ Setup(p) \/ Status(p) \/ CheckCredential(p) \/ Remove(p)
    \/ TakeLock(p) \/ Return(p) \/ Die(p)
    \/ LoadPrevious(p) \/ WriteCredential(p) \/ InstallBinding(p)
    \/ Abandon(p) \/ Retire(p) \/ Sweep(p) \/ SweepDone(p)
    \/ Unbind(p) \/ Erase(p) \/ EraseDone(p)

Next == PowerLoss \/ \E p \in Procs : Command(p)

Spec == Init /\ [][Next]_vars

----------------------------------------------------------------------------
\* Correctness.

\* The installed binding, and every one a power loss could put back, has its
\* credential on disk for good: wherever a rotation stops, fails or loses the
\* power, the old pair or the new one is whole.  Only what `status` or
\* `remove` unlinked can be missing.
PairKept ==
    \A i \in undo \cup {binding} :
        i = NoId \/ i \in lost \/ (i \in creds /\ i \notin unsynced)

\* A command that reports success tells the truth.  After setup the new pair
\* is the only one and survives a power loss; after remove nothing is left;
\* after status there is no credential but the one it found in use.
ReportsTrue ==
    \A p \in Procs : pc[p] = "done" =>
        /\ op[p] = "setup" => /\ binding = id[p] /\ undo = {id[p]}
                             /\ creds = {id[p]} /\ unsynced = {}
        /\ op[p] = "status" => creds \subseteq {id[p]}
        /\ op[p] = "remove" => binding = NoId /\ creds = {}

\* docs/FORGE_AUTH.md: rotation atomically replaces the stored credential, so
\* a binding that is installed always has the credential it names.
BindingHasCredential == binding # NoId => binding \in creds
=============================================================================
