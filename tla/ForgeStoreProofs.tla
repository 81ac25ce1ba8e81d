-------------------------- MODULE ForgeStoreProofs --------------------------
(* Proofs about ForgeStore for any number of processes and credential ids. *)
EXTENDS ForgeStore, TLAPS

Held == {"load", "save", "install", "abandon", "retire", "sweep", "unbind", "erase", "done"}

\* The lock is held from the point it is taken to the report.
Locked == \A p \in Procs : pc[p] \in Held => lock = p

\* Which command is at which point.
Commands == \A p \in Procs :
    /\ pc[p] \in {"load", "save", "install", "abandon", "retire"} => op[p] = "setup"
    /\ pc[p] \in {"unbind", "erase"} => op[p] = "remove"
    /\ pc[p] = "check" => op[p] = "status"
    /\ pc[p] = "sweep" => op[p] \in {"setup", "status"}
    /\ pc[p] \in {"lock", "done"} => op[p] \in {"setup", "status", "remove"}

\* Ids are drawn once, and a drawn id is nowhere in the store before its
\* process puts it there.
Drawn ==
    /\ binding \in used \cup {NoId} /\ undo \subseteq used \cup {NoId}
    /\ \A p \in Procs : op[p] = "setup" => id[p] \in used
    /\ \A p, q \in Procs : op[p] = "setup" /\ op[q] = "setup" /\ p # q => id[p] # id[q]
    /\ \A p \in Procs : op[p] = "setup" /\ pc[p] \in {"lock", "load", "save"} =>
         id[p] \notin creds /\ id[p] \notin unsynced
    /\ \A p \in Procs : op[p] = "setup" /\ pc[p] \in {"lock", "load", "save", "install", "abandon"} =>
         id[p] \notin undo /\ id[p] # binding

\* What a setup has achieved at each point.
Rotating == \A p \in Procs :
    /\ pc[p] \in {"save", "install", "abandon"} => prev[p] = binding
    /\ pc[p] = "install" => id[p] \in creds /\ unsynced = {}
    /\ pc[p] \in {"retire", "sweep"} /\ op[p] = "setup" =>
         binding = id[p] /\ undo = {id[p]} /\ id[p] \in creds /\ unsynced = {}
    /\ pc[p] = "retire" => prev[p] # id[p]

Removing == \A p \in Procs : pc[p] = "erase" => binding = NoId

IInv == TypeOK /\ Locked /\ Commands /\ Drawn /\ Rotating /\ Removing /\ PairKept /\ ReportsTrue

USE NamesAssumption

LEMMA InitIInv == Init => IInv
  BY DEF Init, IInv, TypeOK, Points, Locked, Held, Commands, Drawn, Rotating, Removing,
         PairKept, ReportsTrue

\* A step of one process that leaves the store alone.
LEMMA QuietSteps ==
  ASSUME IInv, NEW p \in Procs,
         Setup(p) \/ Status(p) \/ CheckCredential(p) \/ Remove(p) \/ TakeLock(p)
           \/ Return(p) \/ Die(p) \/ LoadPrevious(p) \/ SweepDone(p) \/ EraseDone(p)
  PROVE  IInv'
<1> USE DEF IInv, TypeOK, Points, Locked, Held, Commands, Drawn, Rotating, Removing,
            PairKept, ReportsTrue, Goto, store
<1>1. CASE Setup(p)
  BY <1>1 DEF Setup
<1>2. CASE Status(p)
  BY <1>2 DEF Status
<1>3. CASE CheckCredential(p)
  BY <1>3 DEF CheckCredential
<1>4. CASE Remove(p)
  BY <1>4 DEF Remove
<1>5. CASE TakeLock(p)
  BY <1>5 DEF TakeLock, AfterLock
<1>6. CASE Return(p) \/ Die(p)
  BY <1>6 DEF Return, Die, Finish
<1>7. CASE LoadPrevious(p)
  BY <1>7 DEF LoadPrevious
<1>8. CASE SweepDone(p)
  BY <1>8 DEF SweepDone
<1>9. CASE EraseDone(p)
  BY <1>9 DEF EraseDone
<1> QED BY <1>1, <1>2, <1>3, <1>4, <1>5, <1>6, <1>7, <1>8, <1>9

\* A step that writes the store: only the holder of the lock takes one.
LEMMA StoreSteps ==
  ASSUME IInv, NEW p \in Procs,
         WriteCredential(p) \/ InstallBinding(p) \/ Abandon(p) \/ Retire(p) \/ Sweep(p)
           \/ Unbind(p) \/ Erase(p)
  PROVE  IInv'
<1> USE DEF IInv, TypeOK, Points, Locked, Held, Commands, Drawn, Rotating, Removing,
            PairKept, ReportsTrue, Goto
<1>1. CASE WriteCredential(p)
  BY <1>1 DEF WriteCredential
<1>2. CASE InstallBinding(p)
  BY <1>2 DEF InstallBinding
<1>3. CASE Abandon(p)
  BY <1>3 DEF Abandon, DurableRemove
<1>4. CASE Retire(p)
  BY <1>4 DEF Retire, DurableRemove
<1>5. CASE Sweep(p)
  BY <1>5 DEF Sweep, DurableRemove
<1>6. CASE Unbind(p)
  BY <1>6 DEF Unbind
<1>7. CASE Erase(p)
  BY <1>7 DEF Erase
<1> QED BY <1>1, <1>2, <1>3, <1>4, <1>5, <1>6, <1>7

\* The power loss keeps what was synced and ends every command.
LEMMA LossStep == IInv /\ PowerLoss => IInv'
  BY DEF IInv, TypeOK, Points, Locked, Held, Commands, Drawn, Rotating, Removing,
         PairKept, ReportsTrue, PowerLoss

LEMMA Stutter == IInv /\ UNCHANGED vars => IInv'
  BY DEF IInv, TypeOK, Points, Locked, Held, Commands, Drawn, Rotating, Removing,
         PairKept, ReportsTrue, vars, store

LEMMA Inductive == Spec => []IInv
<1>1. IInv /\ [Next]_vars => IInv'
  BY QuietSteps, StoreSteps, LossStep, Stutter DEF Next, Command
<1> QED BY InitIInv, <1>1, PTL DEF Spec

\* The store and every command's record of it keep their types.
THEOREM TypeCorrect == Spec => []TypeOK
<1>1. IInv => TypeOK
  BY DEF IInv
<1> QED BY Inductive, <1>1, PTL

\* A rotation in src/forge_auth.rs never leaves an installed binding without
\* the credential it names, before or after a power loss, however many
\* processes work on the store; `status` and `remove` alone can unlink it.
THEOREM PairsAreKept == Spec => []PairKept
<1>1. IInv => PairKept
  BY DEF IInv
<1> QED BY Inductive, <1>1, PTL

\* A setup, status or remove that succeeds has done what it reports.
THEOREM ReportsAreTrue == Spec => []ReportsTrue
<1>1. IInv => ReportsTrue
  BY DEF IInv
<1> QED BY Inductive, <1>1, PTL
=============================================================================
