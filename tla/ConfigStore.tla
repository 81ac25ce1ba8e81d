---------------------------- MODULE ConfigStore ----------------------------
(***************************************************************************)
(* The trusted policy document of one project, src/config_store.rs, and    *)
(* the steps of a launch, src/main.rs, that use it: a launch imports the   *)
(* restrictions of a legacy `.ai-jail` and removes the file, loads the     *)
(* document, may save grants and then constraints, and masks an absent     *)
(* `.ai-jail` by an empty placeholder while the command runs.  Launches    *)
(* run concurrently, a person edits `.ai-jail`, processes die at any step. *)
(*                                                                         *)
(* A policy is the set of its restrictions and grants are one value.  A    *)
(* file stands for one inode with one text, so an edit in place is another *)
(* file; the digest of a source is its text.  Left out: the global         *)
(* document, symbolic links, and the power going.                          *)
(***************************************************************************)
EXTENDS Integers, FiniteSets

CONSTANTS Procs, Restrictions, Grants,
          Files,     \* what `.ai-jail` can be; none is written twice
          Text,      \* the restrictions in each
          NoProc, NoFile, NoGrants

ASSUME NamesAssumption ==
    /\ NoProc \notin Procs /\ NoFile \notin Files /\ NoGrants \notin Grants
    /\ Text \in [Files -> SUBSET Restrictions]

VARIABLES
    doc,       \* projects/<identity>.toml
    lock,      \* the holder of the store's lock
    legacy,    \* the file named `.ai-jail`
    aside,     \* the quarantined files
    made,      \* the files that were ever written
    pc, op,    \* where each launch is, and what it has the lock for
    copy,      \* the document it read under the lock
    source,    \* the legacy file it read
    held,      \* the file it quarantined
    snapshot,  \* the constraints it loaded
    mask,      \* the placeholder it created
    granted, owed, pending, crossed     \* history:

\* granted: the grants saved last.  owed: restrictions that were imported and
\* that no later invocation waived by its flags.  pending: the files a person
\* wrote, that no person replaced and no document imported yet.  crossed: those
\* that took the name between a launch's check of it and its use of it.
history == <<granted, owed, pending, crossed>>
locals == <<copy, source, held, snapshot, mask>>
vars == <<doc, lock, legacy, aside, made, pc, op, locals, history>>

\* digest: of the source it imported last, if it imported any.
Docs == [present : BOOLEAN, grants : Grants \cup {NoGrants},
         constraints : SUBSET Restrictions, digest : SUBSET SUBSET Restrictions]
NoDoc == [present |-> FALSE, grants |-> NoGrants, constraints |-> {}, digest |-> {}]

Points == {"idle", "lock", "read", "install", "move", "verify", "unlink", "put",
           "load", "compat", "loaded", "ready", "saved", "run", "drop"}
Ops == {"import", "grants", "constraints"}

TypeOK ==
    /\ doc \in Docs
    /\ lock \in Procs \cup {NoProc}
    /\ legacy \in made \cup {NoFile}
    /\ aside \subseteq made /\ legacy \notin aside
    /\ made \subseteq Files
    /\ pc \in [Procs -> Points]
    /\ op \in [Procs -> Ops]
    /\ copy \in [Procs -> Docs]
    /\ source \in [Procs -> made \cup {NoFile}]
    /\ held \in [Procs -> made \cup {NoFile}]
    /\ snapshot \in [Procs -> SUBSET Restrictions]
    /\ mask \in [Procs -> made \cup {NoFile}]
    /\ granted \in Grants \cup {NoGrants}
    /\ owed \subseteq Restrictions
    /\ pending \subseteq made /\ crossed \subseteq made

Init ==
    /\ doc = NoDoc
    /\ lock = NoProc
    /\ legacy = NoFile
    /\ aside = {} /\ made = {}
    /\ pc = [p \in Procs |-> "idle"]
    /\ op = [p \in Procs |-> "import"]
    /\ copy = [p \in Procs |-> NoDoc]
    /\ source = [p \in Procs |-> NoFile]
    /\ held = [p \in Procs |-> NoFile]
    /\ snapshot = [p \in Procs |-> {}]
    /\ mask = [p \in Procs |-> NoFile]
    /\ granted = NoGrants
    /\ owed = {} /\ pending = {} /\ crossed = {}

Goto(p, point) == pc' = [pc EXCEPT ![p] = point]
Unlock(p) == lock' = IF lock = p THEN NoProc ELSE lock

\* A launch ends: its locals go, and its descriptor of the lock.
Leave(p) ==
    /\ Goto(p, "idle")
    /\ Unlock(p)
    /\ op' = [op EXCEPT ![p] = "import"]
    /\ copy' = [copy EXCEPT ![p] = NoDoc]
    /\ source' = [source EXCEPT ![p] = NoFile]
    /\ held' = [held EXCEPT ![p] = NoFile]
    /\ snapshot' = [snapshot EXCEPT ![p] = {}]
    /\ mask' = [mask EXCEPT ![p] = NoFile]

\* A launch looks at the name `.ai-jail` and then acts on it, in another call,
\* in two places: it puts a quarantined file back (put) and removes its
\* placeholder (drop).  Step by step p, the name becomes file's in between.
Between(p) == \E q \in Procs \ {p} : pc[q] \in {"put", "drop"}
Take(p, file) ==
    /\ legacy' = file
    /\ crossed' = crossed \cup (IF Between(p) THEN {file} \ {NoFile} ELSE {})

----------------------------------------------------------------------------
\* The store's lock, and the write of the document under it.

\* A session that goes ahead without the lock.
TakeUnlocked(p) ==
    /\ pc[p] = "lock"
    /\ lock' = p
    /\ \/ op[p] = "import" /\ Goto(p, "read") /\ UNCHANGED copy
       \/ op[p] # "import" /\ Goto(p, "install") /\ copy' = [copy EXCEPT ![p] = doc]
    /\ UNCHANGED <<doc, legacy, aside, made, op, source, held, snapshot, mask, history>>

TakeLock(p) ==
    /\ pc[p] = "lock"
    /\ lock = NoProc
    /\ lock' = p
    /\ \/ op[p] = "import" /\ Goto(p, "read") /\ UNCHANGED copy
       \/ op[p] # "import" /\ Goto(p, "install") /\ copy' = [copy EXCEPT ![p] = doc]
    /\ UNCHANGED <<doc, legacy, aside, made, op, source, held, snapshot, mask, history>>

Lock(p, what) == Goto(p, "lock") /\ op' = [op EXCEPT ![p] = what]

\* durable_write: where the sync after the rename fails, the launch fails though
\* the new document is in place; where an earlier step fails, see Stop.
Replace(p, document, next) ==
    /\ pc[p] = "install"
    /\ doc' = document
    /\ \/ Leave(p)
       \/ /\ Goto(p, next)
          /\ lock' = IF next = "move" THEN lock ELSE NoProc
          /\ copy' = [copy EXCEPT ![p] = NoDoc]
          /\ UNCHANGED <<op, source, held, snapshot, mask>>
    /\ UNCHANGED <<legacy, aside, made>>

Imported(p) ==
    [copy[p] EXCEPT !.present = TRUE,
                    !.constraints = @ \cup Text[source[p]],
                    !.digest = {Text[source[p]]}]

WriteImport(p) ==
    /\ op[p] = "import"
    /\ Replace(p, Imported(p), "move")
    /\ owed' = owed \cup (IF pc'[p] = "move" THEN Text[source[p]] ELSE {})
    /\ pending' = pending \ {source[p]}
    /\ UNCHANGED <<granted, crossed>>

WriteGrants(p) ==
    /\ op[p] = "grants"
    /\ \E g \in Grants :
         /\ Replace(p, [copy[p] EXCEPT !.present = TRUE, !.grants = g], "ready")
         /\ granted' = g
    /\ UNCHANGED <<owed, pending, crossed>>

\* What the launch loaded, with the flags of the invocation: some restrictions
\* are asked for, some are waived.
WriteConstraints(p) ==
    /\ op[p] = "constraints"
    /\ \E asked, waived \in SUBSET Restrictions :
         /\ asked \cap waived = {}
         /\ Replace(p, [copy[p] EXCEPT !.present = TRUE,
                                       !.constraints = (snapshot[p] \cup asked) \ waived],
                    "saved")
         /\ owed' = owed \ waived
    /\ UNCHANGED <<granted, pending, crossed>>

----------------------------------------------------------------------------
\* The import of `.ai-jail`, all of it under the lock.

Launch(p) ==
    /\ pc[p] = "idle"
    /\ Lock(p, "import")
    /\ UNCHANGED <<doc, lock, legacy, aside, made, locals, history>>

NoSource(p) ==
    /\ pc[p] = "read"
    /\ legacy = NoFile
    /\ Goto(p, "load")
    /\ lock' = NoProc
    /\ UNCHANGED <<doc, legacy, aside, made, op, locals, history>>

ReadSource(p) ==
    /\ pc[p] = "read"
    /\ legacy # NoFile
    /\ source' = [source EXCEPT ![p] = legacy]
    /\ copy' = [copy EXCEPT ![p] = doc]
    /\ \/ Text[legacy] \notin doc.digest /\ Goto(p, "install") /\ UNCHANGED pending
       \/ /\ Text[legacy] \in doc.digest     \* imported before: only remove it
          /\ Goto(p, "move")
          /\ pending' = pending \ {legacy}
    /\ UNCHANGED <<doc, lock, legacy, aside, made, op, held, snapshot, mask, granted, owed,
                    crossed>>

\* quarantine_remove: the file under the name now is set aside, looked at
\* there, and only then unlinked.  Where the name is gone, see Stop.
MoveAside(p) ==
    /\ pc[p] = "move"
    /\ legacy # NoFile
    /\ held' = [held EXCEPT ![p] = legacy]
    /\ aside' = aside \cup {legacy}
    /\ legacy' = NoFile
    /\ Goto(p, "verify")
    /\ UNCHANGED <<doc, lock, made, op, copy, source, snapshot, mask, history>>

\* A quarantine that compares neither inode nor bytes.
VerifyNothing(p) ==
    /\ pc[p] = "verify"
    /\ Goto(p, "unlink")
    /\ UNCHANGED <<doc, lock, legacy, aside, made, op, locals, history>>

\* Another file, with the name taken again, stays in quarantine: see Stop.
Verify(p) ==
    /\ pc[p] = "verify"
    /\ \/ held[p] = source[p] /\ Goto(p, "unlink")
       \/ held[p] # source[p] /\ legacy = NoFile /\ Goto(p, "put")
    /\ UNCHANGED <<doc, lock, legacy, aside, made, op, locals, history>>

Unlink(p) ==
    /\ pc[p] = "unlink"
    /\ aside' = aside \ {held[p]}
    /\ lock' = NoProc
    /\ Goto(p, "load")
    /\ source' = [source EXCEPT ![p] = NoFile]
    /\ held' = [held EXCEPT ![p] = NoFile]
    /\ UNCHANGED <<doc, legacy, made, op, copy, snapshot, mask, history>>

\* The rename replaces whatever the name is by then; the launch fails.
PutBack(p) ==
    /\ pc[p] = "put"
    /\ Take(p, held[p])
    /\ aside' = aside \ {held[p]}
    /\ Leave(p)
    /\ UNCHANGED <<doc, made, granted, owed, pending>>

----------------------------------------------------------------------------
\* The rest of a launch.

LoadProject(p) ==
    /\ pc[p] = "load"
    /\ \/ /\ doc.present
          /\ snapshot' = [snapshot EXCEPT ![p] = doc.constraints]
          /\ Goto(p, "loaded")
       \/ ~doc.present /\ Goto(p, "compat") /\ UNCHANGED snapshot
    /\ UNCHANGED <<doc, lock, legacy, aside, made, op, copy, source, held, mask, history>>

\* Without a document a file that turned up meanwhile is read in its place.
LoadLegacy(p) ==
    /\ pc[p] = "compat"
    /\ snapshot' = [snapshot EXCEPT ![p] = IF legacy = NoFile THEN {} ELSE Text[legacy]]
    /\ Goto(p, "loaded")
    /\ UNCHANGED <<doc, lock, legacy, aside, made, op, copy, source, held, mask, history>>

SaveGrants(p) ==
    /\ pc[p] = "loaded"
    /\ Lock(p, "grants")
    /\ UNCHANGED <<doc, lock, legacy, aside, made, locals, history>>

SaveConstraints(p) ==
    /\ pc[p] \in {"loaded", "ready"}
    /\ Lock(p, "constraints")
    /\ UNCHANGED <<doc, lock, legacy, aside, made, locals, history>>

Mask(p) ==
    /\ pc[p] \in {"loaded", "ready", "saved"}
    /\ Goto(p, "run")
    /\ \/ /\ doc.present /\ legacy = NoFile
          /\ \E f \in Files \ made :
               /\ Text[f] = {}
               /\ Take(p, f)
               /\ made' = made \cup {f}
               /\ mask' = [mask EXCEPT ![p] = f]
       \/ ~doc.present /\ UNCHANGED <<legacy, made, mask, crossed>>
       \/ legacy # NoFile /\ UNCHANGED <<legacy, made, mask, crossed>>
    /\ UNCHANGED <<doc, lock, aside, op, copy, source, held, snapshot, granted, owed, pending>>

\* A cleanup that takes any file under the name for its placeholder.
CheckAny(p) ==
    /\ pc[p] = "run"
    /\ mask[p] # NoFile
    /\ legacy # NoFile
    /\ Goto(p, "drop")
    /\ UNCHANGED <<doc, lock, legacy, aside, made, op, locals, history>>

\* The command has ended; the name is removed if it still is the placeholder.
CheckMask(p) ==
    /\ pc[p] = "run"
    /\ mask[p] # NoFile
    /\ legacy = mask[p]
    /\ Goto(p, "drop")
    /\ UNCHANGED <<doc, lock, legacy, aside, made, op, locals, history>>

DropMask(p) ==
    /\ pc[p] = "drop"
    /\ legacy' = NoFile
    /\ Leave(p)
    /\ UNCHANGED <<doc, aside, made, history>>

\* The end of a launch whose placeholder is gone or not its own any more, a
\* death, and the error return of every other step.
Stop(p) ==
    /\ pc[p] # "idle"
    /\ Leave(p)
    /\ UNCHANGED <<doc, legacy, aside, made, history>>

\* A person writes or removes `.ai-jail`.
UserWrite ==
    /\ \E f \in (Files \ made) \cup {NoFile} :
         /\ Take(NoProc, f)
         /\ made' = made \cup ({f} \ {NoFile})
         /\ pending' = (pending \ {legacy}) \cup ({f} \ {NoFile})
    /\ UNCHANGED <<doc, lock, aside, pc, op, locals, granted, owed>>

Step(p) ==
    \/ Launch(p) \/ TakeLock(p) \/ NoSource(p) \/ ReadSource(p)
    \/ WriteImport(p) \/ WriteGrants(p) \/ WriteConstraints(p)
    \/ MoveAside(p) \/ Verify(p) \/ Unlink(p) \/ PutBack(p)
    \/ LoadProject(p) \/ LoadLegacy(p) \/ SaveGrants(p) \/ SaveConstraints(p)
    \/ Mask(p) \/ CheckMask(p) \/ DropMask(p) \/ Stop(p)

Next == UserWrite \/ \E p \in Procs : Step(p)

Spec == Init /\ [][Next]_vars

----------------------------------------------------------------------------
\* What the store promises.

\* The grants in the document are the ones a person decided on last: no import
\* and no auto-save of another launch, begun before that decision, undoes it
\* (the read-modify-write of migrate_project, save_project_constraints).
GrantsKept == doc.grants = granted

\* A source that is going to be unlinked is the one the document says it
\* imported, whatever else launches and persons did since it was read
\* (quarantine_remove after write_project_document).
RemovedIsImported ==
    \A p \in Procs : pc[p] = "unlink" => Text[held[p]] \in doc.digest /\ held[p] \notin pending

\* A file a person wrote is there, under its name or in quarantine, until it was
\* imported or a person replaced it; a launch that races the edit, fails or dies
\* does not lose it (quarantine_remove, LegacyMaskPlaceholder), unless the file
\* took the name between a launch's check of it and its use: such a file the
\* rename of a put-back replaces and the removal of a placeholder removes.
NothingLost == pending \ crossed \subseteq aside \cup {legacy}

\* A restriction that was imported stays in the document until an invocation
\* waives it by its flags (releases/v3.0.0.md: "Repository restrictions survive
\* migration"; save_project_constraints after load_project).
RestrictionsSurvive == owed \subseteq doc.constraints

============================================================================
