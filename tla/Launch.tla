-------------------------------- MODULE Launch ---------------------------------
(***************************************************************************)
(* One invocation of ai-jail, from its arguments to the end of the harness *)
(* (run in src/main.rs), and the plain invocation of the same command that *)
(* follows it.  What is on disk outlives the invocation; everything else   *)
(* is decided anew by each.                                                *)
(*                                                                         *)
(* The store is read and written in one step here: ConfigStore has its     *)
(* crashes and its races.  The gate the harness waits behind and its       *)
(* signals are SupervisedSpawn, the egress proxy is EgressProxy.           *)
(***************************************************************************)
EXTENDS LaunchPolicy, MountPlan

CONSTANTS
    Launches,        \* invocations, each with the host and the disk it finds
    Selections,      \* what a person may turn on in the review
    ForgeAccess,     \* the forge bindings the project may have
    MaxLaunches      \* bound on the invocations of a behaviour

ASSUME LaunchBound == MaxLaunches \in Nat \ {0}

VARIABLES
    in,          \* the arguments, the terminal and the host's environment
    disk,        \* the stored document, the legacy file, the global file, the forge
    pc,          \* what the invocation does next
    loaded,      \* the layers as they were read
    cfg,         \* the configuration in hand
    review,      \* how the review ended, and the launch it confirmed
    final,       \* the finalized launch
    exit,        \* how the invocation ended
    kept,        \* capabilities an earlier invocation stored a refusal of
    count        \* invocations begun

launchVars == <<in, disk, pc, loaded, cfg, review, final, exit, kept, count>>

Mode(m) == m \in in.modes
Host == [env |-> in.env, netns |-> in.netns]

NoDoc == [present |-> FALSE, onboarded |-> FALSE, grants |-> EmptyConfig,
          constraints |-> EmptyConfig, approved |-> {}, ssh |-> FALSE]

\* A layer as it is read: no entry gives the value of a variable that is not set.
WellFormedLayer(c) == WellFormed(c) /\ c.env \in Seq(Entry) /\ IsFiniteSet(c.secrets)
Requests(rs) == IsFiniteSet(rs) /\ \A r \in rs : r.value \in STRING
Mentions(env, key) == \E i \in DOMAIN env : env[i].key = key

\* A launch as the types of CliArgs, GlobalConfig and the stored document have
\* it; an approved variable is one of the entries the same review stored.
WellFormedLaunch(l) ==
    /\ DOMAIN l.in = {"modes", "cli", "terminal", "available", "netns", "tty", "env",
                      "requests", "rotates"}
    /\ DOMAIN l.disk = {"doc", "legacy", "trusts", "global", "tables", "forge"}
    /\ DOMAIN l.disk.doc = DOMAIN NoDoc
    /\ DOMAIN l.disk.legacy = {"present", "config"}
    /\ \A c \in {l.in.cli, l.disk.doc.grants, l.disk.doc.constraints, l.disk.legacy.config,
                  l.disk.global} : WellFormedLayer(c)
    /\ \A c \in DOMAIN l.disk.tables : WellFormedLayer(l.disk.tables[c])
    /\ Requests(l.in.requests) /\ Requests(l.disk.doc.approved)
    /\ \A a \in l.disk.doc.approved : a.kind = "secret" => Mentions(l.disk.doc.grants.env, a.value)
    /\ {l.in.cli.command, l.disk.global.command} \subseteq DOMAIN l.disk.tables
    /\ ~l.disk.doc.onboarded => l.disk.doc.grants = EmptyConfig
    /\ ~l.disk.legacy.present => l.disk.legacy.config = EmptyConfig
    /\ Settled(l.disk.doc.constraints) \cap Cleared = {}
    /\ l.disk.doc.grants.command = NoCommand /\ l.disk.doc.constraints.command = NoCommand

NotLoaded == [doc |-> NoDoc, legacy |-> EmptyConfig, global |-> EmptyConfig,
              trusted |-> FALSE, harness |-> NoCommand]
NoLaunch == [config |-> EmptyConfig, secrets |-> {}, ssh |-> FALSE,
             reviewed |-> Unreviewed, forge |-> NoForge]
NoReview == [end |-> "none", grants |-> EmptyConfig, approved |-> {}, ssh |-> FALSE,
             launch |-> NoLaunch]

ASSUME LaunchesAssumption == \A l \in Launches : WellFormedLaunch(l)

LaunchInit ==
    /\ \E l \in Launches : in = l.in /\ disk = l.disk
    /\ pc = "flags" /\ loaded = NotLoaded /\ cfg = EmptyConfig
    /\ review = NoReview /\ final = NoLaunch /\ exit = "none"
    /\ kept = {} /\ count = 1

End(how) == pc' = "done" /\ exit' = how

(***************************************************************************)
(* Before anything is read.                                                *)
(***************************************************************************)
\* validate_write_flags
FlagsConflict ==
    \/ Mode("init") /\ ~SavesConfig(in.cli)
    \/ Mode("configure") /\ (~SavesConfig(in.cli) \/ Mode("dry_run") \/ Mode("init"))

CheckFlags ==
    /\ pc = "flags"
    /\ CASE FlagsConflict -> End("conflict")
         [] ~FlagsConflict /\ Mode("configure") /\ in.terminal = "none" -> End("not interactive")
         [] ~FlagsConflict /\ ~(Mode("configure") /\ in.terminal = "none") ->
                pc' = "migrate" /\ UNCHANGED exit
    /\ UNCHANGED <<in, disk, loaded, cfg, review, final, kept, count>>

\* What a stored document keeps of a configuration's refusals: fields that
\* say no themselves, not those that lockdown only holds off.
Refusals(c) ==
    ((c.no \cap (GrantedByYes \cup GrantedUnlocked))
        \cup (c.yes \cap (GrantedByNo \cup GrantedUnlessYes))) \ Cleared

\* migrate, in one step: the project's file becomes constraints of the store.
Migrate ==
    /\ pc = "migrate"
    /\ IF in.modes \cap {"dry_run", "status", "clean"} = {} /\ in.available /\ disk.legacy.present
       THEN /\ disk' = [disk EXCEPT
                    !.legacy = [present |-> FALSE, config |-> EmptyConfig],
                    !.doc.present = TRUE,
                    !.doc.constraints = MergeProject(@, Constraints(disk.legacy.config))]
            /\ kept' = kept \cup Refusals(disk.legacy.config)
       ELSE UNCHANGED <<disk, kept>>
    /\ pc' = "load"
    /\ UNCHANGED <<in, loaded, cfg, review, final, exit, count>>

(***************************************************************************)
(* The layers.                                                             *)
(***************************************************************************)
Stored == IF Mode("clean") \/ ~in.available THEN NoDoc ELSE disk.doc

Layers ==
    [doc |-> Stored,
     legacy |-> IF Mode("clean") \/ Stored.present THEN EmptyConfig ELSE disk.legacy.config,
     global |-> GlobalFor(in.cli, disk),
     trusted |-> ~Stored.present /\ disk.trusts,
     harness |-> NoCommand]

\* The global file, the stored grants and the command line.
Baseline(l) == MergeCli(in.cli, MergeTrusted(l.global, l.doc.grants))

ApprovedNamesSet ==
    \A i \in DOMAIN Stored.grants.env : in.env[Stored.grants.env[i].key] # NoValue

LoadPolicy ==
    /\ pc = "load"
    /\ LET merged == WithProject(Baseline(Layers), Layers) IN
       IF ~ApprovedNamesSet /\ ~Mode("configure")
       THEN End("variable missing") /\ UNCHANGED <<loaded, cfg>>
       ELSE /\ loaded' = [Layers EXCEPT !.harness = Harness(merged)]
            /\ cfg' = merged
            /\ pc' = "review"
            /\ UNCHANGED exit
    /\ UNCHANGED <<in, disk, review, final, kept, count>>

(***************************************************************************)
(* The review, and what takes its place.                                   *)
(***************************************************************************)
FirstRun ==
    /\ loaded.harness # NoCommand /\ ~loaded.doc.onboarded
    /\ in.modes \cap {"dry_run", "init", "bootstrap", "status", "clean"} = {}

Pending(approved) == in.requests \ approved

SelectedKey(ssh) == ssh /\ "ssh" \notin in.cli.no

Reviewing == Mode("configure") \/ FirstRun

\* Without requests of a wrapper the earlier approvals stand.
Approvals == IF in.requests = {} THEN {loaded.doc.approved} ELSE SUBSET in.requests

\* The person chooses and confirms the finalized launch it makes.  In a plain
\* terminal the forge is not part of what is shown, and only there may the
\* launch be confirmed without saving.
Confirm ==
    /\ pc = "review" /\ Reviewing /\ in.terminal # "none" /\ loaded.harness # NoCommand
    /\ \E sel \in Selections, approved \in Approvals :
        LET grants == SelectionGrants(sel, approved, loaded.harness, TRUE)
            ssh == "selected_key" \in sel
            effective == BuildEffective(loaded.global, grants, in.cli, loaded)
            forge == IF in.terminal = "plain" THEN Unreviewed
                     ELSE IF Mode("clean") \/ Lockdown(effective) THEN NoForge
                     ELSE disk.forge
        IN  /\ Finalizes(effective, SelectedKey(ssh), Host)
            /\ \E end \in {"saved", "once"} :
                /\ end = "once" => in.terminal = "plain" /\ ~Mode("configure")
                /\ review' = [end |-> end, grants |-> grants, approved |-> approved, ssh |-> ssh,
                              launch |-> [Finalized(effective, SelectedKey(ssh), Host)
                                            EXCEPT !.reviewed = forge]]
    /\ pc' = "confirmed"
    /\ UNCHANGED <<in, disk, loaded, cfg, final, exit, kept, count>>

\* The profile is saved before anything can refuse the launch.
SaveProfile ==
    /\ pc = "confirmed" /\ review.end = "saved"
    /\ IF in.available
       THEN /\ disk' = [disk EXCEPT
                    !.doc = [present |-> TRUE, onboarded |-> TRUE, grants |-> review.grants,
                             constraints |-> @.constraints, approved |-> review.approved,
                             ssh |-> review.ssh]]
            /\ IF Mode("configure") THEN End("configured") ELSE pc' = "reviewed" /\ UNCHANGED exit
       ELSE End("no store") /\ UNCHANGED disk
    /\ UNCHANGED <<in, loaded, cfg, review, final, kept, count>>

LaunchReviewed ==
    /\ \/ pc = "reviewed"
       \/ pc = "confirmed" /\ review.end = "once"
    /\ IF Pending(review.approved) # {}
       THEN End("grant required") /\ UNCHANGED cfg
       ELSE cfg' = review.launch.config /\ pc' = "settle" /\ UNCHANGED exit
    /\ UNCHANGED <<in, disk, loaded, review, final, kept, count>>

CancelReview ==
    /\ pc = "review" /\ Reviewing /\ in.terminal # "none"
    /\ review' = [review EXCEPT !.end = "cancelled"]
    /\ End(IF loaded.harness = NoCommand THEN "no harness" ELSE "cancelled")
    /\ UNCHANGED <<in, disk, loaded, cfg, final, kept, count>>

\* Nobody to ask: the launch gets the restrictions and saves nothing.
SkipReview ==
    /\ pc = "review" /\ FirstRun /\ in.terminal = "none"
    /\ review' = [review EXCEPT !.end = "skipped"]
    /\ IF in.requests # {}
       THEN End("grant required") /\ UNCHANGED cfg
       ELSE cfg' = NonInteractive(loaded, in.cli) /\ pc' = "settle" /\ UNCHANGED exit
    /\ UNCHANGED <<in, disk, loaded, final, kept, count>>

\* apply_approved_runtime: a variable the wrapper may have, bound to its host.
ApplyApproved(c) ==
    LET granted == in.requests \cap loaded.doc.approved
        secrets == {a \in granted : a.kind = "secret"}
    IN  [c EXCEPT
            !.env = @ \o SetToSeq({[key |-> a.value, value |-> FromHost] :
                                    a \in {s \in secrets : ~Mentions(c.env, s.value)}}),
            !.secrets = {b \in @ : b[1] \notin {a.value : a \in secrets}}
                        \cup {<<a.value, a.host>> : a \in secrets}]

\* A known agent whose profile was saved before.
UseProfile ==
    /\ pc = "review" /\ ~Reviewing /\ loaded.doc.onboarded
    /\ loaded.harness # NoCommand /\ in.modes \cap {"dry_run", "init", "bootstrap"} = {}
    /\ IF Pending(loaded.doc.approved) # {} /\ ~Mode("status")
       THEN End("grant required") /\ UNCHANGED cfg
       ELSE /\ cfg' = ApplyApproved(
                        BuildEffective(loaded.global, loaded.doc.grants, in.cli, loaded))
            /\ pc' = "settle" /\ UNCHANGED exit
    /\ UNCHANGED <<in, disk, loaded, review, final, kept, count>>

UseLayers ==
    /\ pc = "review" /\ ~Reviewing
    /\ \/ ~loaded.doc.onboarded \/ loaded.harness = NoCommand
       \/ in.modes \cap {"dry_run", "init", "bootstrap"} # {}
    /\ pc' = "settle"
    /\ UNCHANGED <<in, disk, loaded, cfg, review, final, exit, kept, count>>

(***************************************************************************)
(* The command, the browser profile and the modes that only read or write. *)
(***************************************************************************)
CommandFromProject == in.cli.command = NoCommand /\ Project(loaded).command # NoCommand

SettleCommand ==
    /\ pc = "settle"
    /\ LET command == IF CommandFromProject THEN Project(loaded).command
                      ELSE Override(in.cli.command, cfg.command, NoCommand)
           settled == ApplyBrowser([cfg EXCEPT !.command = command],
                                   ~CommandFromProject \/ loaded.trusted)
       IN  /\ cfg' = settled
           /\ IF NetworkFlagsAgree(settled) THEN pc' = "modes" /\ UNCHANGED exit
              ELSE End("network refused")
    /\ UNCHANGED <<in, disk, loaded, review, final, kept, count>>

ShowStatus ==
    /\ pc = "modes" /\ Mode("status")
    /\ End("shown")
    /\ UNCHANGED <<in, disk, loaded, cfg, review, final, kept, count>>

\* The status bar the user asked for becomes the global preference.
SavePreferences ==
    /\ pc = "modes" /\ ~Mode("status")
    /\ disk' = IF in.cli.bar # "unset" /\ ~Mode("dry_run") /\ ~Mode("exec") /\ in.available
               THEN [disk EXCEPT !.global.bar = Override(cfg.bar, @, "unset")] ELSE disk
    /\ pc' = "write"
    /\ UNCHANGED <<in, loaded, cfg, review, final, exit, kept, count>>

\* The document's constraints are replaced.  Of the refusals it held, those
\* the command line says nothing of stay, and with --clean none.
\* (The quantifier has TLC evaluate the configuration once.)
StoreConstraints(config) ==
    /\ \E c \in {config} :
        disk' = [disk EXCEPT !.doc.present = TRUE, !.doc.constraints = Constraints(c)]
    /\ kept' = Refusals(in.cli)
               \cup (IF Mode("clean") THEN {} ELSE kept \ Settled(in.cli))

InitSaves ==
    /\ pc = "write" /\ Mode("init")
    /\ IF in.available
       THEN StoreConstraints(ProjectForInit(in.cli, Project(loaded))) /\ End("saved")
       ELSE UNCHANGED <<disk, kept>> /\ End("no store")
    /\ UNCHANGED <<in, loaded, cfg, review, final, count>>

Bootstrap ==
    /\ pc = "write" /\ ~Mode("init") /\ Mode("bootstrap")
    /\ End("bootstrapped")
    /\ UNCHANGED <<in, disk, loaded, cfg, review, final, kept, count>>

(***************************************************************************)
(* The launch.                                                             *)
(***************************************************************************)
Confirmed == review.end \in {"saved", "once"}

Finalize ==
    /\ pc = "write" /\ ~Mode("init") /\ ~Mode("bootstrap")
    /\ \/ Confirmed /\ final' = review.launch /\ pc' = "ports" /\ UNCHANGED exit
       \/ /\ ~Confirmed /\ Finalizes(cfg, SelectedKey(loaded.doc.ssh), Host)
          /\ final' = Finalized(cfg, SelectedKey(loaded.doc.ssh), Host)
          /\ pc' = "ports" /\ UNCHANGED exit
       \/ /\ ~Confirmed /\ ~Finalizes(cfg, SelectedKey(loaded.doc.ssh), Host)
          /\ End("not finalized") /\ UNCHANGED final
    /\ UNCHANGED <<in, disk, loaded, cfg, review, kept, count>>

\* The proxy, the forwards and the published ports, each bound or the end.
PortsBound ==
    /\ pc = "ports"
    /\ pc' = "autosave"
    /\ UNCHANGED <<in, disk, loaded, cfg, review, final, exit, kept, count>>

PortTaken ==
    /\ pc = "ports"
    /\ FilteredHosts(final.config) \cup final.config.forward \cup final.config.publish # {}
    /\ End("port taken")
    /\ UNCHANGED <<in, disk, loaded, cfg, review, final, kept, count>>

\* A rule that saves after a review that was skipped.
SavesSkipped ==
    /\ in.available /\ review.end # "once"
    /\ ~Mode("dry_run") /\ ~Lockdown(final.config) /\ SavesConfig(final.config)

SavesItself ==
    /\ in.available /\ review.end \notin {"once", "skipped"}
    /\ ~Mode("dry_run") /\ ~Lockdown(final.config) /\ SavesConfig(final.config)

AutoSave ==
    /\ pc = "autosave"
    /\ IF SavesItself
       THEN StoreConstraints(ProjectForAutoSave(in.cli, Project(loaded)))
       ELSE UNCHANGED <<disk, kept>>
    /\ IF Mode("dry_run")
       THEN End(IF PlanFits(final.config) THEN "shown" ELSE "plan refused")
       ELSE pc' = "forge" /\ UNCHANGED exit
    /\ UNCHANGED <<in, loaded, cfg, review, final, count>>

\* A comparison that is content with any access where one was shown.
SomeForge ==
    \/ final.reviewed = Unreviewed
    \/ (final.reviewed = NoForge) = (disk.forge = NoForge)

\* attach_forge: what the review showed is what the project must still have.
ForgeAsReviewed == final.reviewed \in {Unreviewed, disk.forge}

AttachForge ==
    /\ pc = "forge"
    /\ \/ /\ (Mode("clean") \/ Lockdown(final.config)) /\ UNCHANGED <<final, exit>>
          /\ pc' = "spawn"
       \/ /\ ~Mode("clean") /\ ~Lockdown(final.config)
          /\ IF ForgeAsReviewed
             THEN final' = [final EXCEPT !.forge = disk.forge] /\ pc' = "spawn" /\ UNCHANGED exit
             ELSE End("forge changed") /\ UNCHANGED final
    /\ UNCHANGED <<in, disk, loaded, cfg, review, kept, count>>

PassthroughMissing ==
    /\ pc = "spawn" /\ Mode("exec") /\ in.tty /\ "terminal_passthrough" \notin final.config.yes
    /\ End("needs passthrough")
    /\ UNCHANGED <<in, disk, loaded, cfg, review, final, kept, count>>

PlanRefused ==
    /\ pc = "spawn" /\ (Mode("exec") /\ in.tty => "terminal_passthrough" \in final.config.yes)
    /\ ~PlanFits(final.config)
    /\ End("plan refused")
    /\ UNCHANGED <<in, disk, loaded, cfg, review, final, kept, count>>

Spawn ==
    /\ pc = "spawn" /\ (Mode("exec") /\ in.tty => "terminal_passthrough" \in final.config.yes)
    /\ PlanFits(final.config)
    /\ pc' = "running"
    /\ UNCHANGED <<in, disk, loaded, cfg, review, final, exit, kept, count>>

ChildExits ==
    /\ pc = "running"
    /\ End("harness ended")
    /\ UNCHANGED <<in, disk, loaded, cfg, review, final, kept, count>>

\* The same command again, with no options.
Relaunch ==
    /\ pc = "done" /\ count < MaxLaunches
    /\ in' = [in EXCEPT !.modes = {},
                        !.cli = [EmptyConfig EXCEPT !.command = in.cli.command]]
    /\ pc' = "flags" /\ loaded' = NotLoaded /\ cfg' = EmptyConfig
    /\ review' = NoReview /\ final' = NoLaunch /\ exit' = "none"
    /\ count' = count + 1
    /\ UNCHANGED <<disk, kept>>

\* ai-jail forge, in another terminal.
ForgeChanges ==
    /\ in.rotates
    /\ pc \in {"confirmed", "reviewed", "settle", "modes", "write", "ports", "autosave", "forge"}
    /\ \E f \in ForgeAccess \cup {NoForge} :
        f # disk.forge /\ disk' = [disk EXCEPT !.forge = f]
    /\ UNCHANGED <<in, pc, loaded, cfg, review, final, exit, kept, count>>

\* What the invocation does by itself once the review is over.
Proceed ==
    \/ CheckFlags \/ Migrate \/ LoadPolicy \/ SkipReview \/ UseProfile \/ UseLayers
    \/ SaveProfile \/ LaunchReviewed \/ SettleCommand
    \/ ShowStatus \/ SavePreferences \/ InitSaves \/ Bootstrap \/ Finalize
    \/ AutoSave \/ AttachForge \/ PassthroughMissing \/ PlanRefused

\* What depends on a person or on the host.
Decided == Confirm \/ CancelReview \/ PortTaken \/ ForgeChanges
================================================================================
