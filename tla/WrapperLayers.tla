------------------------------ MODULE WrapperLayers ------------------------------
(***************************************************************************)
(* The second layer on Linux.  Inside the mounts the wrapper restricts     *)
(* itself with Landlock before it becomes the harness, by a configuration  *)
(* it rebuilds from its command line: landlock_wrapper_args in             *)
(* src/sandbox/bwrap.rs, run_landlock_exec in src/main.rs and              *)
(* src/sandbox/landlock.rs.                                                *)
(***************************************************************************)
EXTENDS MountPlan

CONSTANTS
    HomeDir,       \* the map of the user's home, or Elsewhere
    GitDir         \* what the repository keeps of this worktree alone, or Elsewhere

Elsewhere == "elsewhere"

ASSUME LayersAssumption ==
    /\ {HomeDir, GitDir} \subseteq Maps \cup {Elsewhere}
    /\ Worktree # NoWorktree => AtOrBelow(GitDir, Worktree)

(***************************************************************************)
(* What the wrapper is told.                                               *)
(***************************************************************************)
\* Options that are given in either sense, or only where they hold, or as set.
GivenEitherWay ==
    {"no_landlock", "network", "no_seccomp", "no_rlimits", "no_gpu", "kvm", "no_docker",
     "tailscale", "no_display"}
GivenIfHeld == {"agent_state", "ssh", "pictures"}

\* A worktree whose refusal the wrapper is not told.
GivenRefused == {"systemd_user"}

GivenAsSet == {"systemd_user", "no_worktree"}

(* landlock_wrapper_args, but for the paths of the maps; the overlays have *)
(* no option.                                                              *)
WrapperArgs(c) ==
    LET held == {f \in Capabilities : Grants(c, f)}
        told == [f \in GivenEitherWay |-> IF f \in held THEN f \in GrantedByYes
                                          ELSE f \in GrantedByNo]
    IN  [EmptyConfig EXCEPT
            !.command = c.command,
            !.yes = {f \in GivenEitherWay : told[f]} \cup (GivenIfHeld \cap held)
                    \cup (GivenAsSet \cap c.yes)
                    \cup (IF Lockdown(c) THEN {"lockdown"} ELSE {})
                    \cup ({"private_home"} \ c.no),
            !.no = {f \in GivenEitherWay : ~told[f]} \cup (GivenAsSet \cap c.no),
            !.closed = c.closed, !.hosts = c.hosts, !.private = c.private,
            !.tcp = c.tcp, !.forward = c.forward, !.publish = c.publish,
            !.browser = IF BrowserProfile(c) THEN c.browser ELSE "unset"]

(* run_landlock_exec                                                       *)
Inner(c) == MergeCli(WrapperArgs(c), EmptyConfig)

\* The paths of --landlock-rw-path: the maps that were mounted to be written.
MountedWritable(c) ==
    IF Shut(c) THEN {} ELSE {b.dest : b \in {x \in ExtraMounts(c) : x.access = "rw"}}

(***************************************************************************)
(* What the wrapper enforces.                                              *)
(***************************************************************************)
\* What a kernel makes of each of the three rulesets that are stacked.
Outcomes == {"full", "partial", "none", "error"}
Kernels == [fs : Outcomes, net : Outcomes, scope : Outcomes]

(* apply: lockdown accepts no less than the whole of the filesystem rules; *)
(* the network rules, which only lockdown has, may fail unless ports of    *)
(* the host are allowed, and the scope rules may always (apply_net_rules,  *)
(* apply_scope_rules).                                                     *)
Refuses(i, kernel) ==
    /\ Lockdown(i)
    /\ \/ "no_landlock" \in i.yes
       \/ kernel.fs # "full"
       \/ i.tcp # {} /\ kernel.net # "full"

\* --network prevails, and lockdown relies on the network rules.
UnlessNetwork(c) == "network" \notin c.yes

\* The network of the sandbox is its own: --unshare-net.
PrivateNet(c) == "network" \notin c.yes \/ Lockdown(c)

(* collect_lockdown_paths and collect_normal_paths_with_mounted_paths.     *)
LandlockPaths(i, mounted) ==
    IF Lockdown(i) THEN {}
    ELSE {HomeDir}
         \cup (IF BrowserProfile(i) THEN {}
               ELSE {ProjectDir} \cup mounted \cup i.overlay
                    \cup (IF WorktreePaths(i) = {} THEN {} ELSE {GitDir}))

LandlockWrites(c, p) == \E d \in LandlockPaths(Inner(c), MountedWritable(c)) : AtOrBelow(p, d)

ProxyBridge == "proxy bridge"

(* allowed_connect_ports and allowed_bind_ports, which lockdown leaves.    *)
TcpConnects(i) ==
    i.tcp \cup i.forward \cup i.publish
    \cup (IF "network" \notin i.yes /\ FilteredHosts(i) # {} THEN {ProxyBridge} ELSE {})
TcpBinds(i) == i.publish

(***************************************************************************)
(* What the layers owe each other.                                         *)
(***************************************************************************)
\* The capabilities that a layer inside the sandbox reads; and of these the
\* ones the wrapper is not told of, or not of their refusal.
LayersRead ==
    GivenEitherWay \cup GivenAsSet \cup GivenIfHeld \cup {"audio", "private_home"}
Untold == {"audio", "agent_state", "private_home"}

SameInside(c) ==
    LET i == Inner(c) IN
    /\ \A f \in LayersRead \ Untold : Grants(i, f) = Grants(c, f)
    /\ ~Grants(i, "audio") /\ ~Grants(i, "private_home")
    /\ Grants(i, "agent_state") = ~Lockdown(c)
    /\ Lockdown(i) = Lockdown(c) /\ BrowserProfile(i) = BrowserProfile(c)
    /\ TcpConnects(i) = TcpConnects(c) /\ TcpBinds(i) = TcpBinds(c)

\* Under lockdown the harness runs behind all of the filesystem rules, writes
\* nothing, and is cut off from the host's network whatever the kernel makes of
\* the network rules; or it does not run.
NeverHalfLocked(c) ==
    Lockdown(c) =>
        /\ \A kernel \in Kernels :
            \/ Refuses(Inner(c), kernel)
            \/ kernel.fs = "full" /\ (PrivateNet(c) \/ kernel.net = "full")
        /\ \A p \in Maps : ~LandlockWrites(c, p)

\* What the repository shares with its other worktrees is left read-only.
SharedRepository(c, p) ==
    \E d \in WorktreePaths(c) : AtOrBelow(p, d) /\ ~AtOrBelow(p, GitDir)

\* A path mounted to be written can be, and nothing else but the home.
LayersAgreeOn(c, p) ==
    /\ (\E b \in Top(c, p) : b.access = "rw") => LandlockWrites(c, p) \/ SharedRepository(c, p)
    /\ LandlockWrites(c, p) =>
        AtOrBelow(p, HomeDir) \/ \E b \in Covering(c, p) : b.access = "rw"
================================================================================
