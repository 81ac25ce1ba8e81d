------------------------------ MODULE PolicyMerge ------------------------------
(***************************************************************************)
(* The layering of configuration in src/config.rs: the global file and its *)
(* [commands.<name>] tables, the stored grants, the command line and the   *)
(* project's own file, which is untrusted and may only tighten.            *)
(*                                                                         *)
(* A configuration is a record.  Its Option<bool> fields are two sets of   *)
(* their names: yes, those that are Some(true), and no, those that are     *)
(* Some(false), in the sense of the field (no_gpu in no gives the GPU).    *)
(* Lists whose order is irrelevant are sets.                               *)
(***************************************************************************)
EXTENDS Naturals, FiniteSets, Sequences, SequencesExt

CONSTANTS
    Maps,      \* the directory maps a layer can name
    Inside,    \* those whose source and destination resolve inside the project
    Overlap,   \* pairs of maps, one destination at or below the other
    Credential \* Credential[f]: what option f shows of the home, where the host has it

ASSUME MapsAssumption ==
    /\ Inside \subseteq Maps
    /\ Overlap \subseteq Maps \X Maps
    /\ \A m, n \in Maps : <<m, n>> \in Overlap => <<n, m>> \in Overlap

CredentialOptions == {"aws", "kube", "gcloud", "docker_config"}

ASSUME CredentialAssumption ==
    /\ DOMAIN Credential \subseteq CredentialOptions
    /\ \A f \in DOMAIN Credential : Credential[f] \in Maps

\* Fields whose capability is given by Some(true).
GrantedByYes ==
    {"tailscale", "audio", "github", "aws", "kube", "gcloud", "docker_config",
     "kvm", "prompt_hosts", "network", "macos_host_ipc", "macos_chromium",
     "macos_trustd", "allow_pty", "allow_loopback_listen", "allow_loopback_connect",
     "x11", "host_shm", "terminal_passthrough",
     "no_hide_config", "ssh", "pictures", "no_landlock", "no_seccomp",
     "no_rlimits", "systemd_user", "inherit_env", "update_check", "audit_log"}

\* Fields whose capability is given only by Some(false).
GrantedByNo == {"no_gpu", "no_docker", "no_display", "no_worktree", "private_home"}

\* Fields whose capability is there unless Some(true) takes it away.
GrantedUnlessYes == {"no_mise", "no_toolchains", "lockdown"}

\* Given unless Some(false), and never under lockdown.
GrantedUnlocked == {"agent_state"}

Capabilities == GrantedByYes \cup GrantedByNo \cup GrantedUnlessYes \cup GrantedUnlocked

Flags == Capabilities \cup {"no_save_config"}

NoCommand == "no command"
NoValue == "no value"       \* of a variable that is not set
FromHost == "from host"     \* the value of an --env entry that names no value
Entry == [key : STRING, value : {FromHost} \cup (STRING \ {NoValue})]

EmptyConfig ==
    [command |-> NoCommand, yes |-> {}, no |-> {},
     ro |-> {}, rw |-> {}, overlay |-> {}, closed |-> {}, exceptions |-> {},
     hosts |-> {}, private |-> {}, tcp |-> {}, forward |-> {}, publish |-> {}, env |-> <<>>,
     secrets |-> {}, browser |-> "unset", bar |-> "unset"]

Settled(c) == c.yes \cup c.no

\* What the type Config gives: every field, and an Option<bool> in one state.
WellFormed(c) ==
    /\ DOMAIN c = DOMAIN EmptyConfig
    /\ Settled(c) \subseteq Flags
    /\ c.yes \cap c.no = {}

Lockdown(c) == "lockdown" \in c.yes
BrowserProfile(c) == c.browser \in {"hard", "soft"}
SavesConfig(c) == "no_save_config" \notin c.yes
FilteredHosts(c) == c.hosts \cup c.private

\* credential_ro_paths: those that are asked for, unless lockdown keeps them out.
AskedCredentials(c) == {Credential[f] : f \in DOMAIN Credential \cap c.yes}
CredentialPaths(c) == IF Lockdown(c) THEN {} ELSE AskedCredentials(c)

\* The fields named, answered; a field is never in both sets.
Answer(c, yes, no) ==
    [c EXCEPT !.yes = yes \cup (@ \ no), !.no = no \cup (@ \ yes)]

\* allow_loopback_connect judged by what the launch makes of it under lockdown.
GrantsInEffect(c, f) ==
    \/ f \in (GrantedByYes \ {"allow_loopback_connect"}) \cap c.yes
    \/ f \in GrantedByNo \cap c.no
    \/ f \in GrantedUnlessYes \ c.yes
    \/ f \in GrantedUnlocked \ c.no /\ ~Lockdown(c)
    \/ f = "allow_loopback_connect" /\ f \in c.yes /\ ~Lockdown(c)

(* The predicate each monotonic! line of merge_with_global_report applies. *)
Grants(c, f) ==
    \/ f \in GrantedByYes \cap c.yes
    \/ f \in GrantedByNo \cap c.no
    \/ f \in GrantedUnlessYes \ c.yes
    \/ f \in GrantedUnlocked \ c.no /\ ~Lockdown(c)

Granted(c) == {f \in Capabilities : Grants(c, f)}

(***************************************************************************)
(* Trusted layers.                                                         *)
(***************************************************************************)
Override(high, low, unset) == IF high = unset THEN low ELSE high

\* The entries of s at the indices in I, in order.
Picked(s, I) ==
    [k \in 1 .. Cardinality(I) |-> s[CHOOSE i \in I : Cardinality({j \in I : j <= i}) = k]]

\* A removal of duplicates that keeps the first occurrence.
DedupEnvFirst(s) == Picked(s, {i \in DOMAIN s : \A j \in DOMAIN s : j < i => s[j] # s[i]})

\* The last occurrence of every complete entry, in order.
DedupEnv(s) == Picked(s, {i \in DOMAIN s : \A j \in DOMAIN s : j > i => s[j] # s[i]})

\* The entries of other variables.
Without(s, keys) == Picked(s, {i \in DOMAIN s : s[i].key \notin keys})

\* What every trusted layer adds to the one below, in config.rs twice.
Layer(high, low) ==
    [Answer(low, high.yes, high.no) EXCEPT
        !.command = Override(high.command, @, NoCommand),
        !.ro = @ \cup high.ro,
        !.rw = @ \cup high.rw,
        !.overlay = @ \cup high.overlay,
        !.closed = @ \cup high.closed,
        !.exceptions = @ \cup high.exceptions,
        !.hosts = @ \cup high.hosts,
        !.private = @ \cup high.private,
        !.tcp = @ \cup high.tcp,
        !.forward = @ \cup high.forward,
        !.publish = @ \cup high.publish,
        !.env = DedupEnv(@ \o high.env),
        !.secrets = high.secrets \cup
                    {b \in @ : \A other \in high.secrets : other[1] # b[1]},
        !.browser = Override(high.browser, @, "unset")]

\* A stored trusted layer leaves the status bar to the layer below it.
MergeTrusted(global, local) == Layer(local, global)

\* The command line, whose switches include the status bar.
MergeCli(cli, config) ==
    [Layer(cli, config) EXCEPT !.bar = Override(cli.bar, @, "unset")]

(***************************************************************************)
(* The project layer.                                                      *)
(***************************************************************************)
Take(c, local, fields) == Answer(c, local.yes \cap fields, local.no \cap fields)

\* A line that takes whatever the project sets.
TakesAll(c, local, f) == f \in Settled(local)

\* One monotonic! line: a value is taken when it grants nothing, or nothing
\* that the configuration so far did not grant already.
Tightens(c, local, f) ==
    f \in Settled(local) /\ (Grants(Take(c, local, {f}), f) => Grants(c, f))

\* One predicate reads lockdown, that of agent_state: it is applied after the
\* project's own lockdown is taken.
TightenFlags(base, local) ==
    LET early == Take(base, local, {f \in Capabilities \ GrantedUnlocked : Tightens(base, local, f)})
        late == {f \in GrantedUnlocked : Tightens(early, local, f)}
    IN  Take(early, local, late \cup {"no_save_config"})

\* append_project_maps: a map the baseline has, or one inside the project.
AppendMaps(base, local) == base \cup (local \cap Inside)

\* The project's writable maps give way to every read-only one; trusted ones stay.
WritableMaps(base, local) ==
    LET ro == AppendMaps(base.ro, local.ro) IN
    {m \in AppendMaps(base.rw, local.rw) :
        m \in base.rw \/ \A n \in ro : <<m, n>> \notin Overlap}

(* merge_with_global_report: everything it does not name stays the baseline's. *)
MergeProject(base, local) ==
    [TightenFlags(base, local) EXCEPT
        !.command = Override(@, local.command, NoCommand),
        !.ro = AppendMaps(@, local.ro),
        !.rw = WritableMaps(base, local),
        !.overlay = AppendMaps(@, local.overlay),
        !.closed = @ \cup local.closed]

(* monotonic_project_constraints: what a stored constraint document keeps. *)
Cleared == {"no_save_config", "no_hide_config", "update_check", "audit_log"}

Constraints(config) ==
    [MergeProject(EmptyConfig, config) EXCEPT
        !.command = NoCommand, !.yes = @ \ Cleared, !.no = @ \ Cleared, !.bar = "unset"]

(***************************************************************************)
(* What a launch writes back.                                              *)
(***************************************************************************)
DropLaunchOnly(c) == [c EXCEPT !.forward = {}, !.publish = {}, !.private = {}]

ProjectForInit(cli, project) == DropLaunchOnly(MergeCli(cli, project))

\* A save of this invocation's options without the project's own.
AutoSavesOptions(cli, project) == DropLaunchOnly(MergeCli(cli, EmptyConfig))

\* A positional command does not replace the one the project has.
ProjectForAutoSave(cli, project) ==
    LET merged == MergeCli(cli, project) IN
    DropLaunchOnly(
        IF project.command # NoCommand /\ cli.command # NoCommand
        THEN [merged EXCEPT !.command = project.command] ELSE merged)

(***************************************************************************)
(* The environment of the child.                                           *)
(***************************************************************************)
\* The value an entry gives: its own, or the host variable's.
EntryValue(e, host) == IF e.value = FromHost THEN host[e.key] ELSE e.value

\* apply_env_pass: entries in order, those without a value skipped.
ChildValue(env, host, key) ==
    LET giving == {i \in DOMAIN env :
                    env[i].key = key /\ EntryValue(env[i], host) # NoValue}
    IN  IF giving = {} THEN NoValue
        ELSE EntryValue(env[CHOOSE i \in giving : \A j \in giving : j <= i], host)
================================================================================
