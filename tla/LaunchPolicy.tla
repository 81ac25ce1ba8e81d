------------------------------ MODULE LaunchPolicy -----------------------------
(***************************************************************************)
(* What a launch computes from its layers: the functions of src/main.rs    *)
(* between the merge of the configuration and the start of anything, and   *)
(* the grants the review in src/onboarding.rs makes of its choices.        *)
(*                                                                         *)
(* The host is a record: env gives its environment variables, netns says   *)
(* whether filtered egress is possible at all.                             *)
(***************************************************************************)
EXTENDS PolicyMerge

CONSTANTS
    Harnesses,       \* the commands that are known agents
    Browsers,        \* the commands that are known browsers
    ApiHosts,        \* ApiHosts[h]: the hosts of harness h's own API
    ApiKey,          \* ApiKey[h]: the variable of harness h's API key
    RegistryHosts    \* the package registries of the toolchains

\* No name of canonical_harness_name is in BROWSER_COMMANDS.
ASSUME CommandsAssumption ==
    Harnesses \cap Browsers = {} /\ NoCommand \notin Harnesses \cup Browsers

\* The harness is the command itself: --harness and launchers are left out.
Harness(c) == IF c.command \in Harnesses THEN c.command ELSE NoCommand

(***************************************************************************)
(* The layers of one launch.                                               *)
(***************************************************************************)
(* global_config_for_command_report: the table of the command the command  *)
(* line names, or else of the global file's own.                           *)
GlobalFor(cli, d) ==
    LET selected == Override(cli.command, d.global.command, NoCommand)
    IN  MergeTrusted(d.global, d.tables[selected])

(* The project's layer: the stored constraints, or a file not imported yet.*)
Project(l) == IF l.doc.present THEN l.doc.constraints ELSE l.legacy

WithProject(baseline, l) ==
    IF l.trusted THEN MergeTrusted(baseline, Project(l))
                 ELSE MergeProject(baseline, Project(l))

(* apply_browser_profile: a browser gives up every tool an agent is given, *)
(* and only a trusted choice of browser takes lockdown away.               *)
ApplyBrowser(c, trustedCommand) ==
    LET explicit == BrowserProfile(c)
        lifted == IF explicit \/ trustedCommand \/ ~Lockdown(c) THEN {"lockdown"} ELSE {}
    IN  IF c.browser = "off" \/ (~explicit /\ c.command \notin Browsers) THEN c
        ELSE [Answer(c, {"no_docker", "no_worktree", "no_mise", "no_toolchains",
                         "no_save_config"} \cup ({"no_gpu"} \ c.no),
                        {"ssh", "pictures", "agent_state"} \cup lifted)
              EXCEPT !.browser = IF explicit THEN @ ELSE "hard", !.bar = "yes"]

(* build_onboarding_effective *)
BuildEffective(global, proposed, cli, l) ==
    LET merged == WithProject(MergeCli(cli, MergeTrusted(global, proposed)), l)
    IN  ApplyBrowser([merged EXCEPT !.command = Override(cli.command, @, NoCommand)], TRUE)

(***************************************************************************)
(* The review.                                                             *)
(***************************************************************************)
BasicYes == {"agent_state", "ssh", "github"}
BasicNo == {"no_mise", "no_toolchains", "no_docker"}
OnlyOpened == {"network", "allow_loopback_connect"}
AdditionalYes ==
    {"lockdown", "systemd_user", "tailscale", "audio", "kvm", "x11", "host_shm",
     "terminal_passthrough", "aws", "kube", "gcloud", "docker_config", "macos_host_ipc",
     "macos_chromium", "macos_trustd", "allow_pty", "allow_loopback_listen",
     "inherit_env", "pictures", "audit_log"}
AdditionalNo == {"no_gpu", "no_display", "no_worktree", "private_home"}

(* Selection::grants_for.  An item of a selection is named by the field    *)
(* whose capability it opens.  A field the person looked at is written out *)
(* either way; the network and the host's loopback only when opened.       *)
SelectionGrants(sel, approved, harness, explicit) ==
    LET settled == IF explicit THEN AdditionalYes \cup AdditionalNo ELSE sel
        yes == BasicYes \cup (AdditionalYes \cap settled) \cup (OnlyOpened \cap sel)
        no == BasicNo \cup (AdditionalNo \cap settled)
        secrets == {r \in approved : r.kind = "secret"}
    IN  [Answer(EmptyConfig, (yes \cap sel) \cup (no \ sel), (yes \ sel) \cup (no \cap sel))
         EXCEPT
            !.hosts = (IF "api_access" \in sel THEN ApiHosts[harness] ELSE {})
                        \cup {r.value : r \in approved \ secrets},
            !.env = SetToSeq({[key |-> r.value, value |-> FromHost] : r \in secrets}),
            !.secrets = {<<r.value, r.host>> : r \in secrets}]

(* AccessPreset: the three starting points of the review. *)
FullyClosed == {}
Developer == {"api_access", "agent_state", "no_mise", "no_toolchains", "github"}
MostlyOpen == Developer \cup {"ssh", "network", "allow_loopback_connect"}

(* apply_secure_defaults *)
SecureDefaults(c, cli) ==
    Answer(c, {"no_toolchains"} \ Settled(cli), {"agent_state", "ssh", "github"} \ Settled(cli))

(* build_noninteractive_onboarding_effective: of the global file only the  *)
(* restrictions it holds, and nothing granted but the harness's own API.   *)
NonInteractive(l, cli) ==
    LET restrictions == [Constraints(l.global) EXCEPT
            !.ro = {}, !.rw = {}, !.overlay = {}]
        api == "network" \notin restrictions.no /\ ~Lockdown(restrictions)
        safe == SelectionGrants(IF api THEN {"api_access"} ELSE {}, {}, l.harness, FALSE)
    IN  SecureDefaults(
            BuildEffective(restrictions, safe, cli, [l EXCEPT !.trusted = FALSE]), cli)

(***************************************************************************)
(* The checks and the host-derived parts of a launch.                      *)
(***************************************************************************)
(* validate_network_flags *)
NetworkFlagsAgree(c) ==
    /\ c.tcp = {}
    /\ FilteredHosts(c) # {} => "network" \notin c.yes /\ ~BrowserProfile(c)
    /\ c.forward \cup c.publish # {} => "network" \notin c.yes
    /\ c.forward \cap c.publish = {}

(* The hosts a launch is given when nobody took a stand on the network. *)
DefaultHosts(c, host) ==
    IF "network" \in Settled(c) \/ Lockdown(c) \/ c.browser # "unset" \/ ~host.netns
    THEN {}
    ELSE (IF Harness(c) = NoCommand THEN {} ELSE ApiHosts[Harness(c)])
         \cup (IF "no_toolchains" \in c.yes THEN {} ELSE RegistryHosts)

(* The harness's API key, when the host has it and no entry names it yet. *)
DefaultKeys(c, host) ==
    IF Harness(c) = NoCommand \/ ~Grants(c, "agent_state") THEN <<>>
    ELSE LET key == ApiKey[Harness(c)] IN
         IF host.env[key] = NoValue \/ \E i \in DOMAIN c.env : c.env[i].key = key
         THEN <<>> ELSE <<[key |-> key, value |-> FromHost]>>

(* The credentials that are on, read-only where nothing is mapped to their *)
(* place (toolchain_dest_already_mapped).                                  *)
NewCredentials(c) == CredentialPaths(c) \ (c.ro \cup c.rw \cup c.overlay)

Exposed(c, host) ==
    [c EXCEPT !.hosts = @ \cup DefaultHosts(c, host), !.ro = @ \cup NewCredentials(c),
              !.env = @ \o DefaultKeys(c, host)]

Placeholder == "placeholder"

BoundKeys(c) == {b[1] : b \in c.secrets}

(* prepare_secrets refuses a binding it could not keep. *)
SecretsFit(c, host) ==
    c.secrets # {} =>
        /\ "network" \notin c.yes /\ FilteredHosts(c) # {}
        /\ \A b \in c.secrets :
            b[2] \in FilteredHosts(c) /\ ChildValue(c.env, host.env, b[1]) # NoValue

(* It replaces every entry of a bound variable by one placeholder, and     *)
(* the proxy keeps the value the child would have had.                     *)
HideSecrets(c) ==
    [c EXCEPT !.env = Without(@, BoundKeys(c))
                      \o SetToSeq({[key |-> k, value |-> Placeholder] : k \in BoundKeys(c)})]
Bindings(c, host) ==
    {[key |-> b[1], host |-> b[2], value |-> ChildValue(c.env, host.env, b[1])] :
        b \in c.secrets}

Unreviewed == "unreviewed"
NoForge == "no forge"

(* finalize_launch_config_with_ssh, and when it refuses. *)
UsesSelectedKey(c, ssh) == ssh /\ "ssh" \notin c.yes /\ ~Lockdown(c)
Finalizes(c, ssh, host) ==
    /\ UsesSelectedKey(c, ssh) => "network" \in c.yes
    /\ SecretsFit(Exposed(c, host), host)
Finalized(c, ssh, host) ==
    [config |-> HideSecrets(Exposed(c, host)), secrets |-> Bindings(Exposed(c, host), host),
     ssh |-> UsesSelectedKey(c, ssh), reviewed |-> Unreviewed, forge |-> NoForge]
================================================================================
