------------------------------ MODULE JailSession ------------------------------
(***************************************************************************)
(* A session: the invocations of Launch with the sandbox and the ports of  *)
(* PortBridge.  The ports are bound from the finalized configuration, the  *)
(* sandbox starts when the launch spawns, the launch ends when the sandbox *)
(* does, and what the supervisor holds goes when it returns.               *)
(***************************************************************************)
EXTENDS Launch, ChildEnvironment, SeatbeltProfile, WrapperLayers, PortBridge

\* The ports a layer names are among those of PortBridge.
ASSUME PortsNamed ==
    \A l \in Launches :
        \A c \in {l.in.cli, l.disk.doc.grants, l.disk.doc.constraints, l.disk.legacy.config,
                 l.disk.global} \cup {l.disk.tables[k] : k \in DOMAIN l.disk.tables} :
            c.forward \cup c.publish \subseteq Ports

vars == <<launchVars, portVars>>

Init == LaunchInit /\ PortsClosed

OpenPorts == PortsBound /\ BindPorts(final.config.forward, final.config.publish)
StartSandbox == Spawn /\ SandboxStarts
EndLaunch == ChildExits /\ wrapper = "ended" /\ UNCHANGED portVars
Return == pc = "done" /\ SupervisorExits /\ UNCHANGED launchVars
Again == Relaunch /\ wrapper = "none" /\ Asked = {} /\ UNCHANGED portVars

Next ==
    \/ Proceed /\ UNCHANGED portVars
    \/ Decided /\ UNCHANGED portVars
    \/ OpenPorts \/ StartSandbox \/ EndLaunch \/ Return \/ Again
    \/ SandboxEnds /\ UNCHANGED launchVars
    \/ PortStep /\ UNCHANGED launchVars

(***************************************************************************)
(* The launcher runs on from bound ports to the harness, and returns when  *)
(* the sandbox is gone; the wrapper starts its bridges and is not stuck;   *)
(* the accept loops and the relays' threads are scheduled.  Nothing makes  *)
(* the harness end, a bridge die or a relay finish.                        *)
(***************************************************************************)
LauncherStep ==
    \/ (AutoSave \/ AttachForge \/ PassthroughMissing \/ PlanRefused) /\ UNCHANGED portVars
    \/ StartSandbox \/ EndLaunch \/ Return

WrapperStep ==
    /\ \/ AgentStarts
       \/ wrapper = "failed" /\ SandboxEnds
       \/ \E p \in Ports : StartBridge(p) \/ BridgeReady(p) \/ BridgeFails(p)
    /\ UNCHANGED launchVars

Fairness ==
    /\ WF_vars(LauncherStep)
    /\ WF_vars(WrapperStep)
    /\ \A p \in Ports : WF_vars(TakePeer(p) /\ UNCHANGED launchVars)
    /\ \A c \in Clients :
        WF_vars((HandOver(c) \/ BridgeConnects(c) \/ Admit(c) \/ Connect(c) \/ Release(c))
                /\ UNCHANGED launchVars)

Spec == Init /\ [][Next]_vars
FairSpec == Spec /\ Fairness

(***************************************************************************)
(* What a session promises.                                                *)
(***************************************************************************)
(* Every variable stays in the set the code's types and enums give it.     *)
TypeOK ==
    /\ pc \in {"flags", "migrate", "load", "review", "confirmed", "reviewed", "settle", "modes",
              "write", "ports", "autosave", "forge", "spawn", "running", "done"}
    /\ review.end \in {"none", "saved", "once", "cancelled", "skipped"}
    /\ \A c \in {in.cli, cfg, final.config, disk.doc.grants, disk.doc.constraints} :
        WellFormed(c)
    /\ kept \subseteq Capabilities /\ count \in 1 .. MaxLaunches
    /\ (exit = "none") = (pc # "done")
    /\ forwards \subseteq Ports /\ publishes \subseteq Ports
    /\ wrapper \in {"none", "starting", "failed", "agent", "ended"}
    /\ bridge \in [Ports -> {"none", "spawned", "ready", "dead"}]
    /\ callers \in [Ports -> Seq({"stranger", "bridge", "agent"})]
    /\ peer \in [Ports -> {"none", "awaited", "bridge", "agent", "closed"}]
    /\ active \in [Ports -> Nat]
    /\ conn \in [Clients -> [at : {"idle", "dialed", "queued", "handed", "over",
                                    "connecting", "relaying", "ending", "closed"},
                             port : Ports \cup {NoPort}]]

(* A layer somebody trusted: the global file, the profile in force, the    *)
(* command line.                                                           *)
Trusted ==
    MergeCli(in.cli, MergeTrusted(loaded.global,
                        IF Confirmed THEN review.grants ELSE loaded.doc.grants))

Opens ==
    IF Lockdown(Trusted)
       /\ \/ BrowserProfile(Trusted)
          \/ BrowserProfile(cfg) /\ (~CommandFromProject \/ review.end = "skipped")
    THEN {"lockdown"} ELSE {}

(* Whatever the project's own file or its stored constraints say, and on   *)
(* whichever path the launch took, an untrusted project opens nothing that *)
(* no trusted layer opened (merge_with_global_report), and its maps stay   *)
(* inside it; a credential that is shown was asked for by such a layer.    *)
(* Only a browser the user chose lifts lockdown; and, where    *)
(* nobody could be asked and nothing can be stored, one that the project's *)
(* file names.                                                             *)
ProjectOnlyTightens ==
    pc = "modes" /\ ~loaded.trusted =>
        /\ Granted(cfg) \subseteq Granted(Trusted) \cup Opens
        /\ Trusted.closed \subseteq cfg.closed
        /\ cfg.exceptions \subseteq Trusted.exceptions
        /\ (cfg.ro \ AskedCredentials(Trusted)) \cup cfg.rw \cup cfg.overlay
                \subseteq Inside \cup Trusted.ro \cup Trusted.rw \cup Trusted.overlay
        /\ \A m \in cfg.rw \ Trusted.rw, n \in cfg.ro \ AskedCredentials(Trusted) :
                <<m, n>> \notin Overlap
        /\ cfg.hosts \subseteq Trusted.hosts \cup RegistryHosts
                    \cup UNION {ApiHosts[h] : h \in {loaded.harness} \ {NoCommand}}
        /\ cfg.private \subseteq Trusted.private

(* What the project refused, or the user with an option that was saved, is *)
(* still refused by the next plain invocation: no save of the profile, of  *)
(* the constraints or of a migration loses it.                             *)
TightenedStaysTight ==
    pc = "running" /\ in.modes = {} =>
        (kept \ Settled(in.cli)) \cap Granted(final.config)
            \subseteq (IF BrowserProfile(final.config) THEN {"lockdown"} ELSE {})

(* A harness that starts after a review runs with the configuration, the   *)
(* secrets and the key the person confirmed, and with the forge access     *)
(* they were shown, whatever changed on disk since.                        *)
LaunchesWhatWasConfirmed ==
    pc = "running" /\ Confirmed =>
        /\ final.config = review.launch.config
        /\ final.secrets = review.launch.secrets
        /\ final.ssh = review.launch.ssh
        /\ review.launch.reviewed \in {Unreviewed, final.forge}

\* The entries of the layers the launch was made of, the strongest last; where
\* nobody could be asked, only what the command line gives.
GivenEntries ==
    IF review.end = "skipped" THEN in.cli.env
    ELSE loaded.global.env
         \o (IF Confirmed THEN review.grants.env ELSE loaded.doc.grants.env)
         \o in.cli.env
         \o (IF loaded.trusted THEN Project(loaded).env ELSE <<>>)

(* An entry of the environment has the value of the strongest layer that   *)
(* gives one, or a placeholder where that very value is the proxy's to     *)
(* insert, bound to its host: neither the removal of duplicates nor the    *)
(* default key changes which value it is (dedup_env_pass, apply_env_pass,  *)
(* prepare_secrets).                                                       *)
EntriesResolve(launch, given) ==
    \A key \in DOMAIN in.env :
        LET wanted == ChildValue(given, in.env, key)
            default == ChildValue(DefaultKeys([launch.config EXCEPT !.env = <<>>], Host),
                                  in.env, key)
            value == IF wanted = NoValue THEN default ELSE wanted
        IN  /\ ChildValue(launch.config.env, in.env, key)
                    = IF key \in BoundKeys(launch.config) THEN Placeholder ELSE value
            /\ \A b \in launch.secrets : b.key = key =>
                b.value = value /\ b.host \in FilteredHosts(launch.config)

(* The harness finds that in its environment, in the order in which the    *)
(* launcher clears and sets variables: on both platforms a bound secret is *)
(* only ever a placeholder, filtered egress leads to the proxy and the     *)
(* chosen key's agent replaces the user's, whatever is passed or           *)
(* inherited; on Linux each opened socket has the variable that names it   *)
(* and no other socket has, and lockdown leaves nothing of the host but    *)
(* its home and its terminal (isolation_args, apply_child_env, env_vars).  *)
EnvironmentHidesSecrets ==
    pc = "running" =>
        /\ EntriesResolve(final, GivenEntries)
        /\ ForcedHold(final, LinuxEnvironment(final, Host))
        /\ ForcedHold(final, MacEnvironment(final, Host))
        /\ SocketsNamed(final, Host) /\ LockedNamesNothing(final, Host)

(* Nothing is written for an invocation that only looks, nor after a       *)
(* review that was left, skipped or confirmed for once; only a review that *)
(* was saved changes what is granted; --no-save-config leaves the document *)
(* to the review and to the migration.                                     *)
WritesOnlyWhenAsked == [][
    disk'.doc # disk.doc =>
        /\ (Mode("status") => Mode("configure")) /\ (Mode("dry_run") => Mode("init"))
        /\ review.end \notin {"once", "cancelled", "skipped"}
        /\ disk'.doc.grants # disk.doc.grants \/ disk'.doc.onboarded # disk.doc.onboarded
                => review.end = "saved" /\ pc = "confirmed"
        /\ pc \in {"write", "autosave"} => SavesConfig(in.cli)]_vars

(* When the agent begins, every port it was promised has had its bridge    *)
(* reported ready, and the one stream of a publish is never the agent's:   *)
(* nothing in the sandbox runs before its bridge has connected.            *)
PortsReachTheAgent ==
    /\ wrapper = "agent" =>
        /\ forwards = final.config.forward /\ publishes = final.config.publish
        /\ \A p \in Asked : bridge[p] \in {"ready", "dead"}
    /\ \A p \in Ports : peer[p] # "agent"

(* A port never relays more connections than its limit, and its counter is *)
(* exact: a relay that ends, or one refused at the limit, gives its place  *)
(* back once.                                                              *)
ConnectionsBounded ==
    \A p \in Ports :
        /\ Cardinality(Relaying(p)) <= MaxConnections
        /\ active[p] = Cardinality(Relaying(p)) + Cardinality(At("over", p))

(* The mounts of the sandbox that runs keep what its configuration says of *)
(* paths that overlap, whatever layers it came from: a closed path shows   *)
(* nothing, under lockdown or a browser profile nothing named is written,  *)
(* a read-only map or an overlay keeps its files from being written, and a *)
(* map shows its own source (ordered_mounts, split_by_project,             *)
(* extra_mounts_with_check).                                               *)
MountsKeepPolicy ==
    pc = "running" => \A p \in Maps :
        /\ ClosedStaysClosed(final.config, p)
        /\ ShutWritesNothing(final.config, p)
        /\ Keeps(final.config.overlay, final.config, p)
        /\ ProjectNotMapped(final.config) => Keeps(final.config.ro, final.config, p)
        /\ ShowsItsSource(final.config, p)

(* Each read-only map inside the project is read-only.                     *)
ReadOnlyMapsHold ==
    pc = "running" => \A p \in Maps : Keeps(final.config.ro, final.config, p)

(* On macOS nothing is mounted, and the order of the profile's rules keeps *)
(* the policy: a closed path is not written, and not read but through a    *)
(* credential that is on and is not closed by its own name, which is read  *)
(* whatever is closed around it; under lockdown or for a browser nothing   *)
(* named is written, a read-only map or an overlay is not written even     *)
(* where it lies in the project or in a writable map, and nothing can be   *)
(* overwritten that cannot be read (generate_sbpl_profile_for_tty,         *)
(* push_file_read_section).                                                *)
ProfileKeepsPolicy ==
    pc = "running" /\ ProfileFits(final.config) => \A p \in Maps :
        /\ Shuts(final.config, p) =>
                /\ ~Writable(final.config, p)
                /\ Readable(final.config, p) => Opened(final.config, p)
        /\ Shut(final.config) => ~Writable(final.config, p)
        /\ (\E d \in final.config.ro \cup Overlays(final.config) : AtOrBelow(p, d)) =>
                ~Writable(final.config, p)
        /\ Writable(final.config, p) => Readable(final.config, p)

(* The two platforms give one configuration the same meaning: but for the  *)
(* differences Alike and ReadsAlike name, the harness can write the same   *)
(* paths on the host through the mounts and through the profile, and read  *)
(* the same, except that the profile leaves maps readable where the mounts *)
(* have none (discover_mounts_full and generate_sbpl_profile_for_tty).     *)
PlatformsAgree ==
    pc = "running" /\ Alike(final.config) => \A p \in Maps :
        /\ WritesAlike(final.config, p)
        /\ ~Shut(final.config) => ReadsAlike(final.config, p)

(* The wrapper's own layers, inside the mounts, enforce the configuration  *)
(* the launcher settled on although they are only told of it by options:   *)
(* each capability they read is the same, but for three they are not told  *)
(* of: audio and a shared home they never grant, agent state they grant    *)
(* unless it is locked down.  The ports of the bridges stay open; under    *)
(* lockdown nothing is written, nothing runs without Landlock's filesystem *)
(* rules and nothing relies on its network rules; and what the mounts let  *)
(* the harness write, but for the shared part of a repository outside the  *)
(* home and the copies of overlays, Landlock does too                      *)
(* (landlock_wrapper_args, run_landlock_exec, landlock::apply).            *)
LayersAgree ==
    pc = "running" =>
        /\ SameInside(final.config) /\ NeverHalfLocked(final.config)
        /\ \A p \in Maps : LayersAgreeOn(final.config, p)

(* A connection made to a port is relayed or closed; it does not wait for  *)
(* ever on a bridge that failed or died, or behind the limit.              *)
ClientsAnswered == \A c \in Clients : Waiting(c) ~> ~Waiting(c)
================================================================================
