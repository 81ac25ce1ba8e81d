-------------------------- MODULE ConfigStoreProofs -------------------------
(* Proofs about ConfigStore for any number of launches, files and texts.   *)
EXTENDS ConfigStore, TLAPS

Held == {"read", "install", "move", "verify", "unlink", "put"}

\* The lock is held from the point it is taken to the last change under it.
Locked == \A p \in Procs : pc[p] \in Held => lock = p

\* What is going to be written was made from the document of now.
Copied == \A p \in Procs : pc[p] = "install" => copy[p] = doc

\* What an import has read, written and set aside at each point.
Importing == \A p \in Procs :
    /\ pc[p] = "install" /\ op[p] = "import" => source[p] \in made
    /\ pc[p] \in {"move", "verify", "unlink"} =>
         source[p] \in made \ pending /\ Text[source[p]] \in doc.digest
    /\ pc[p] \in {"verify", "unlink", "put"} => held[p] \in aside
    /\ pc[p] = "unlink" => held[p] = source[p]

\* A placeholder is nobody's text, and what the name is since a check found it
\* free, or the placeholder's, came in between.
Masked == \A p \in Procs :
    /\ mask[p] # NoFile => mask[p] \in made \ pending
    /\ pc[p] = "put" => legacy \in crossed \cup {NoFile}
    /\ pc[p] = "drop" => mask[p] # NoFile /\ legacy \in crossed \cup {NoFile, mask[p]}

IInv ==
    /\ TypeOK /\ Locked /\ Copied /\ Importing /\ Masked
    /\ GrantsKept /\ RemovedIsImported /\ NothingLost

USE NamesAssumption

LEMMA InitIInv == Init => IInv
  BY DEF Init, IInv, TypeOK, Docs, NoDoc, Points, Ops, Locked, Held, Copied, Importing,
         Masked, GrantsKept, RemovedIsImported, NothingLost

\* A write, for whatever it is, by the holder of the lock, who made the new
\* document of the one of now: the rest of the state follows.
LEMMA ReplaceStep ==
  ASSUME IInv, NEW p \in Procs, NEW d \in Docs, NEW next \in {"move", "ready", "saved"},
         Replace(p, d, next), next = "move" => Text[source[p]] \in d.digest /\ source[p] \notin pending',
         next = "move" => op[p] = "import",
         granted' \in Grants \cup {NoGrants}, granted' = d.grants,
         owed' \subseteq Restrictions,
         pending' = pending \/ (op[p] = "import" /\ pending' = pending \ {source[p]}),
         crossed' = crossed
  PROVE  IInv'
<1> USE DEF IInv
<1>1. pc[p] = "install" /\ doc' = d /\ lock = p
  BY DEF Replace, Locked, Held
<1>2. \A q \in Procs \ {p} : pc[q] \notin Held /\ pc'[q] = pc[q]
  BY <1>1 DEF Locked, Replace, Leave, Goto, TypeOK
<1>3. TypeOK'
  <2>1. NoDoc \in Docs
    BY DEF NoDoc, Docs
  <2>2. copy' \in [Procs -> Docs]
    BY <2>1 DEF TypeOK, Replace, Leave
  <2> QED BY <1>1, <2>2 DEF TypeOK, Replace, Leave, Goto, Unlock, Points, Ops
<1>4. Locked' /\ Copied'
  BY <1>1, <1>2 DEF TypeOK, Locked, Copied, Held, Replace, Leave, Goto, Unlock
<1>5. Importing'
  BY <1>1, <1>2 DEF TypeOK, Importing, Held, Replace, Leave, Goto
<1>6. Masked'
  BY <1>1, <1>2 DEF TypeOK, Masked, Replace, Leave, Goto
<1>7. GrantsKept'
  BY <1>1 DEF GrantsKept
<1>8. RemovedIsImported'
  BY <1>1, <1>2 DEF RemovedIsImported, Held, Replace, Leave, Goto, TypeOK
<1>9. NothingLost'
  BY DEF NothingLost, Replace
<1> QED BY <1>3, <1>4, <1>5, <1>6, <1>7, <1>8, <1>9

\* The lock and the document: a write replaces what its holder read.
LEMMA DocumentSteps ==
  ASSUME IInv, NEW p \in Procs,
         TakeLock(p) \/ WriteImport(p) \/ WriteGrants(p) \/ WriteConstraints(p)
  PROVE  IInv'
<1>1. CASE TakeLock(p)
  <2> USE <1>1 DEF IInv, TakeLock, Goto, history, TypeOK
  <2>1. TypeOK'
    <3>1. copy' \in [Procs -> Docs]
      OBVIOUS
    <3> QED BY <3>1 DEF Points, Ops
  <2>2. Locked' /\ Copied'
    BY DEF Locked, Copied, Held
  <2>3. Importing' /\ Masked'
    BY DEF Importing, Masked
  <2>4. GrantsKept' /\ RemovedIsImported' /\ NothingLost'
    BY DEF GrantsKept, RemovedIsImported, NothingLost
  <2> QED BY <2>1, <2>2, <2>3, <2>4
<1>2. CASE WriteImport(p)
  <2>1. pc[p] = "install" /\ op[p] = "import" /\ copy[p] = doc /\ doc \in Docs /\ source[p] \in made
    BY <1>2 DEF WriteImport, Replace, IInv, Copied, Importing, TypeOK
  <2>2. Text[source[p]] \in SUBSET Restrictions
    BY <2>1 DEF IInv, TypeOK
  <2>3. Imported(p) \in Docs /\ Imported(p).grants = doc.grants /\ Text[source[p]] \in Imported(p).digest
    BY <2>1, <2>2 DEF Imported, Docs
  <2>4. owed' \subseteq Restrictions
    BY <1>2, <2>2 DEF WriteImport, IInv, TypeOK
  <2>5. granted' = Imported(p).grants /\ granted' \in Grants \cup {NoGrants}
    BY <1>2, <2>3 DEF WriteImport, IInv, GrantsKept, TypeOK
  <2> QED BY <1>2, <2>1, <2>3, <2>4, <2>5, ReplaceStep DEF WriteImport
<1>3. CASE WriteGrants(p)
  <2>1. pc[p] = "install" /\ copy[p] = doc /\ doc \in Docs
    BY <1>3 DEF WriteGrants, Replace, IInv, Copied, TypeOK
  <2>2. PICK g \in Grants :
          /\ Replace(p, [copy[p] EXCEPT !.present = TRUE, !.grants = g], "ready")
          /\ granted' = g
    BY <1>3 DEF WriteGrants
  <2> DEFINE d == [copy[p] EXCEPT !.present = TRUE, !.grants = g]
  <2>3. d \in Docs /\ d.grants = g
    BY <2>1 DEF Docs
  <2>4. owed' \subseteq Restrictions /\ pending' = pending /\ crossed' = crossed
    BY <1>3 DEF WriteGrants, IInv, TypeOK
  <2> QED BY <2>2, <2>3, <2>4, ReplaceStep
<1>4. CASE WriteConstraints(p)
  <2>1. pc[p] = "install" /\ copy[p] = doc /\ doc \in Docs
    BY <1>4 DEF WriteConstraints, Replace, IInv, Copied, TypeOK
  <2>2. PICK asked, waived \in SUBSET Restrictions :
          /\ Replace(p, [copy[p] EXCEPT !.present = TRUE,
                                        !.constraints = (snapshot[p] \cup asked) \ waived],
                     "saved")
          /\ owed' = owed \ waived
    BY <1>4 DEF WriteConstraints
  <2> DEFINE d == [copy[p] EXCEPT !.present = TRUE,
                                  !.constraints = (snapshot[p] \cup asked) \ waived]
  <2>3. snapshot[p] \subseteq Restrictions /\ owed \subseteq Restrictions
    BY DEF IInv, TypeOK
  <2>4. d \in Docs /\ d.grants = doc.grants
    BY <2>1, <2>3 DEF Docs
  <2>5. granted' = d.grants /\ granted' \in Grants \cup {NoGrants} /\ pending' = pending
        /\ crossed' = crossed
    BY <1>4, <2>4 DEF WriteConstraints, IInv, GrantsKept, TypeOK
  <2> QED BY <2>2, <2>3, <2>4, <2>5, ReplaceStep
<1> QED BY <1>1, <1>2, <1>3, <1>4

\* The import of the legacy file.
LEMMA ImportSteps ==
  ASSUME IInv, NEW p \in Procs,
         Launch(p) \/ NoSource(p) \/ ReadSource(p) \/ MoveAside(p) \/ Verify(p)
           \/ Unlink(p) \/ PutBack(p)
  PROVE  IInv'
<1> USE DEF IInv, TypeOK, Docs, NoDoc, Points, Ops, Locked, Held, Copied, Importing,
            Masked, GrantsKept, RemovedIsImported, NothingLost, Goto, Unlock, Leave,
            history, locals
<1>1. CASE Launch(p)
  BY <1>1 DEF Launch, Lock
<1>2. CASE NoSource(p)
  BY <1>2 DEF NoSource
<1>3. CASE ReadSource(p)
  BY <1>3 DEF ReadSource
<1>4. CASE MoveAside(p)
  BY <1>4 DEF MoveAside
<1>5. CASE Verify(p)
  BY <1>5 DEF Verify
<1>6. CASE Unlink(p)
  BY <1>6 DEF Unlink
<1>7. CASE PutBack(p)
  BY <1>7 DEF PutBack, Take, Between
<1> QED BY <1>1, <1>2, <1>3, <1>4, <1>5, <1>6, <1>7

\* The rest of a launch, and the person.
LEMMA LaunchSteps ==
  ASSUME IInv, NEW p \in Procs,
         LoadProject(p) \/ LoadLegacy(p) \/ SaveGrants(p) \/ SaveConstraints(p)
           \/ Mask(p) \/ CheckMask(p) \/ DropMask(p) \/ Stop(p)
  PROVE  IInv'
<1> USE DEF IInv, TypeOK, Docs, NoDoc, Points, Ops, Locked, Held, Copied, Importing,
            Masked, GrantsKept, RemovedIsImported, NothingLost, Goto, Unlock, Leave,
            history, locals
<1>1. CASE LoadProject(p)
  <2>1. snapshot' \in [Procs -> SUBSET Restrictions]
    <3>1. doc.constraints \in SUBSET Restrictions
      BY DEF Docs
    <3> QED BY <1>1, <3>1 DEF LoadProject
  <2> QED BY <1>1, <2>1 DEF LoadProject
<1>2. CASE LoadLegacy(p)
  BY <1>2 DEF LoadLegacy
<1>3. CASE SaveGrants(p) \/ SaveConstraints(p)
  BY <1>3 DEF SaveGrants, SaveConstraints, Lock
<1>4. CASE Mask(p)
  BY <1>4 DEF Mask, Take, Between
<1>5. CASE CheckMask(p)
  BY <1>5 DEF CheckMask
<1>6. CASE DropMask(p)
  BY <1>6 DEF DropMask
<1>7. CASE Stop(p)
  BY <1>7 DEF Stop
<1> QED BY <1>1, <1>2, <1>3, <1>4, <1>5, <1>6, <1>7

LEMMA PersonStep == IInv /\ UserWrite => IInv'
  BY DEF IInv, TypeOK, Docs, NoDoc, Points, Ops, Locked, Held, Copied, Importing, Masked,
         GrantsKept, RemovedIsImported, NothingLost, UserWrite, Take, Between, locals

LEMMA Stutter == IInv /\ UNCHANGED vars => IInv'
  BY DEF IInv, TypeOK, Docs, NoDoc, Points, Ops, Locked, Held, Copied, Importing, Masked,
         GrantsKept, RemovedIsImported, NothingLost, vars, locals, history

LEMMA Inductive == Spec => []IInv
<1>1. IInv /\ [Next]_vars => IInv'
  BY DocumentSteps, ImportSteps, LaunchSteps, PersonStep, Stutter DEF Next, Step
<1> QED BY InitIInv, <1>1, PTL DEF Spec

\* The store, the project directory and the locals of every launch keep their types.
THEOREM TypeCorrect == Spec => []TypeOK
<1>1. IInv => TypeOK
  BY DEF IInv
<1> QED BY Inductive, <1>1, PTL

\* The document of src/config_store.rs holds the grants decided on last: the
\* read-modify-writes of imports, grants and constraints never undo each other's.
THEOREM GrantsAreKept == Spec => []GrantsKept
<1>1. IInv => GrantsKept
  BY DEF IInv
<1> QED BY Inductive, <1>1, PTL

\* quarantine_remove unlinks only what the document has imported.
THEOREM OnlyImportsAreRemoved == Spec => []RemovedIsImported
<1>1. IInv => RemovedIsImported
  BY DEF IInv
<1> QED BY Inductive, <1>1, PTL

\* A file a person wrote stays until it is imported or replaced by a person,
\* unless it took the name `.ai-jail` in the moment between a launch's check of
\* the name and its rename or removal.
THEOREM NoFileIsLost == Spec => []NothingLost
<1>1. IInv => NothingLost
  BY DEF IInv
<1> QED BY Inductive, <1>1, PTL
=============================================================================
