---------------------------- MODULE ChildEnvironment ----------------------------
(***************************************************************************)
(* The environment the harness ends up with.  On Linux bwrap starts with   *)
(* an empty one and sets variables in the order it is told                 *)
(* (isolation_args and env_args in src/sandbox/bwrap.rs); on macOS the     *)
(* launcher sets them itself (apply_child_env in src/sandbox/seatbelt.rs). *)
(*                                                                         *)
(* An environment is a function on the variables that are set, and         *)
(* env ++ earlier is earlier with env's variables set after it: the @@ of  *)
(* the module TLC, spelled out for the proofs.  There is a variable of     *)
(* each kind the code tells apart.  Every socket a variable can name is    *)
(* there, in a directory that passes the code's checks.                    *)
(***************************************************************************)
EXTENDS LaunchPolicy

env ++ earlier ==
    [v \in DOMAIN env \cup DOMAIN earlier |-> IF v \in DOMAIN env THEN env[v] ELSE earlier[v]]

Only(env, names) == [v \in names \cap DOMAIN env |-> env[v]]
NotSet == <<>>     \* the function on no variable

(***************************************************************************)
(* What both platforms begin with.                                         *)
(***************************************************************************)
(* DEFAULT_ENV_ALLOWLIST and DEFAULT_ENV_PREFIXES *)
InheritedByDefault == {"PATH", "HOME", "TERM", "XDG_RUNTIME_DIR", "http_proxy", "no_proxy"}

HostVariables(host) == Only(host.env, {v \in DOMAIN host.env : host.env[v] # NoValue})

(* plan_validated_with_tools: the entries that reach a selected key.       *)
SelectedAgent == "the selected keys' agent"
EnvPass(launch) ==
    IF ~launch.ssh THEN launch.config.env
    ELSE Append(Without(launch.config.env, {"SSH_AUTH_SOCK"}),
                [key |-> "SSH_AUTH_SOCK", value |-> SelectedAgent])

Named(launch) == {e.key : e \in ToSet(EnvPass(launch))}

(* apply_env_pass *)
Passed(launch, host) ==
    LET env == [v \in Named(launch) |-> ChildValue(EnvPass(launch), host.env, v)]
    IN  Only(env, {v \in DOMAIN env : env[v] # NoValue})

(* filtered_child_env, or with --inherit-env all of the host's.            *)
InheritedOrPassed(launch, host) ==
    Passed(launch, host)
    ++ (IF "inherit_env" \in launch.config.yes THEN HostVariables(host)
        ELSE Only(HostVariables(host), InheritedByDefault))

(* network_mode *)
FilteredEgress(c) == "network" \notin c.yes /\ FilteredHosts(c) # {}

ProxyAddress == "the egress proxy"
Loopback == "loopback names"
Nowhere == "nothing"

(* env_vars of src/proxy.rs; a loopback that is the host's is left to the  *)
(* proxy, unless a port of it is forwarded.                                *)
ProxyVariables(c, isolated) ==
    IF ~FilteredEgress(c) THEN NotSet
    ELSE [http_proxy |-> ProxyAddress,
          no_proxy |-> IF isolated \/ c.forward # {} THEN Loopback ELSE Nowhere]

LockdownPath == "the system's directories"

(***************************************************************************)
(* Linux.                                                                  *)
(***************************************************************************)
Reaches(c, f) ==
    Grants(c, f) /\ ~Lockdown(c) /\ (f \in {"ssh", "systemd_user"} => ~BrowserProfile(c))

(* discover_display, discover_audio, discover_docker, discover_systemd_user*)
(* and discover_ssh: the capability each variable names the socket of.     *)
SocketOf ==
    [DISPLAY |-> "x11", WAYLAND_DISPLAY |-> "no_display", DOCKER_HOST |-> "no_docker",
     DBUS_SESSION_BUS_ADDRESS |-> "systemd_user", SSH_AUTH_SOCK |-> "ssh"]

\* These two are named by the path the socket is found at.
Found == [DOCKER_HOST |-> "container engine", DBUS_SESSION_BUS_ADDRESS |-> "user bus"]

CapabilityVariables(c, host) ==
    Only(Found ++ HostVariables(host), {v \in DOMAIN SocketOf : Reaches(c, SocketOf[v])})

(* login_name_env: nothing else gives a filtered environment a user.       *)
LoginName(launch) ==
    IF "inherit_env" \in launch.config.yes \/ "USER" \in Named(launch) THEN NotSet
    ELSE [USER |-> "login name"]

Locked(host) == [PATH |-> LockdownPath] ++ Only(HostVariables(host), {"HOME", "TERM"})

\* Lockdown passes no entry; the placeholders are added to the proxy's variables.
BoundPlaceholders(launch, host) == Only(Passed(launch, host), BoundKeys(launch.config))

\* What #122 was: the capabilities before --clearenv, which discards them.
ClearedLast(launch, host) == LoginName(launch) ++ InheritedOrPassed(launch, host)

(* The order of #122: env_args carries --clearenv, the capabilities follow.*)
Unlocked(launch, host) ==
    CapabilityVariables(launch.config, host) ++ LoginName(launch) ++ InheritedOrPassed(launch, host)

LinuxEnvironment(launch, host) ==
    LET proxy == ProxyVariables(launch.config, TRUE) IN
    IF Lockdown(launch.config) THEN BoundPlaceholders(launch, host) ++ proxy ++ Locked(host)
    ELSE proxy ++ Unlocked(launch, host)

(***************************************************************************)
(* macOS, which has no clean slate for lockdown: entries and inheritance   *)
(* apply there too, and only PATH is the system's.                         *)
(***************************************************************************)
ClaudeUser(launch, host) ==
    IF /\ Grants(launch.config, "agent_state") /\ launch.config.command = "claude"
       /\ "USER" \notin Named(launch)
    THEN Only(HostVariables(host), {"USER"}) ELSE NotSet

MacEnvironment(launch, host) ==
    LET c == launch.config IN
    ProxyVariables(c, "allow_loopback_connect" \in c.yes /\ ~Lockdown(c))
    ++ (IF Reaches(c, "no_docker") /\ ~BrowserProfile(c) THEN Only(Found, {"DOCKER_HOST"}) ELSE NotSet)
    ++ (IF Lockdown(c) THEN [PATH |-> LockdownPath] ELSE NotSet)
    ++ ClaudeUser(launch, host)
    ++ InheritedOrPassed(launch, host)

(***************************************************************************)
(* What the environments promise.                                          *)
(***************************************************************************)
Sees(env, v, value) == v \in DOMAIN env /\ env[v] = value

\* The launcher sets these itself; nothing stops a user from binding a secret
\* to one of them, and then either value may be the last.
SetItself == DOMAIN SocketOf \cup {"PATH", "http_proxy", "no_proxy"}

\* On either platform, with whatever is inherited or passed.
ForcedHold(launch, env) ==
    BoundKeys(launch.config) \cap SetItself = {} =>
        /\ \A key \in BoundKeys(launch.config) : Sees(env, key, Placeholder)
        /\ FilteredEgress(launch.config) =>
            Sees(env, "http_proxy", ProxyAddress) /\ env.no_proxy \in {Loopback, Nowhere}
        /\ launch.ssh => Sees(env, "SSH_AUTH_SOCK", SelectedAgent)
        /\ Lockdown(launch.config) => Sees(env, "PATH", LockdownPath)

\* A variable names a socket just where the socket was opened, unless the user
\* passed it or inherits everything.
SocketsNamed(launch, host) ==
    LET env == LinuxEnvironment(launch, host) IN
    /\ \A v \in DOMAIN CapabilityVariables(launch.config, host) :
        Sees(env, v, CapabilityVariables(launch.config, host)[v])
    /\ "inherit_env" \notin launch.config.yes =>
        DOMAIN env \cap DOMAIN SocketOf
            \subseteq DOMAIN CapabilityVariables(launch.config, host) \cup Named(launch)

\* Under lockdown nothing of the host is left but its home and its terminal.
LockedNamesNothing(launch, host) ==
    Lockdown(launch.config) =>
        DOMAIN LinuxEnvironment(launch, host)
            \subseteq {"PATH", "HOME", "TERM", "http_proxy", "no_proxy"} \cup BoundKeys(launch.config)
================================================================================
