-------------------------------- MODULE MCLaunch --------------------------------
(***************************************************************************)
(* JailSession on families of launches: each varies what one part of the   *)
(* sequence depends on and leaves the rest at its default.                 *)
(***************************************************************************)
EXTENDS JailSession

\* A project in a directory that may be mapped, a directory of the project that
\* another one is mapped into, the repository whose worktree it is, which keeps
\* some files for this worktree alone, and a directory with a credential.
MCInside == {"project", "src", "src/gen", "src/gen/out"}
Repository == {"repository", "worktrees"}
Docker == {"docker", "docker/config"}
MCMaps == {"work"} \cup MCInside \cup Repository \cup Docker
MCDepth == [work |-> 1, project |-> 2, src |-> 3, repository |-> 2, worktrees |-> 3, docker |-> 2] @@
           ("src/gen" :> 4) @@ ("src/gen/out" :> 5) @@ ("docker/config" :> 3)
Beside(m, n) ==
    \/ {m, n} \cap Repository # {} /\ {m, n} \cap MCInside # {}
    \/ {m, n} \cap Docker # {} /\ {m, n} \ Docker # {}
MCOverlap == {mn \in MCMaps \X MCMaps : ~Beside(mn[1], mn[2])}
MCSamePath == MCMaps \ {"src/gen"}
MCCredential == "docker_config" :> "docker/config"
MCHarnesses == {"claude"}
MCBrowsers == {"firefox"}
MCApiHosts == [h \in {"claude"} |-> {"api"}]
MCApiKey == [h \in {"claude"} |-> "API_KEY"]
MCRegistryHosts == {"registry"}
MCPorts == {"5432", "8080"}
MCForgeAccess == {"forge A", "forge B"}
MCSelections ==
    {FullyClosed, Developer, MostlyOpen, {"network", "selected_key"}, {"ssh", "lockdown"}}

(***************************************************************************)
(* What a launch finds by default: claude, a profile, nobody at a terminal.*)
(***************************************************************************)
Choice == {"unset", "yes", "no"}
With(c, f, v) == CASE v = "unset" -> c
                   [] v = "yes" -> Answer(c, {f}, {})
                   [] v = "no" -> Answer(c, {}, {f})
Running(command) == [EmptyConfig EXCEPT !.command = command]
Onboarded == [NoDoc EXCEPT !.present = TRUE, !.onboarded = TRUE]
NoLegacy == [present |-> FALSE, config |-> EmptyConfig]
NoEnv == [key \in {"API_KEY", "TOKEN"} |-> NoValue]

DefaultIn ==
    [modes |-> {}, cli |-> Running("claude"), terminal |-> "none", available |-> TRUE,
     netns |-> TRUE, tty |-> FALSE, env |-> NoEnv, requests |-> {}, rotates |-> FALSE]
DefaultDisk ==
    [doc |-> Onboarded, legacy |-> NoLegacy, trusts |-> FALSE, global |-> EmptyConfig,
     tables |-> [c \in {"claude", "firefox", "bash", NoCommand} |-> EmptyConfig], forge |-> NoForge]

DefaultLaunch == [in |-> DefaultIn, disk |-> DefaultDisk]

(***************************************************************************)
(* The layers: every choice of a field in each of them.                    *)
(***************************************************************************)
Probes == {"network", "no_gpu", "no_landlock", "no_mise", "ssh", "lockdown", "agent_state"}

\* The project's part is stored, or still a file that is imported, trusted or
\* in a place where nothing can be stored.
Layered(p) ==
    {[in |-> [DefaultIn EXCEPT !.available = store # "none"],
      disk |-> [DefaultDisk EXCEPT
        !.doc = IF store = "stored" THEN [Onboarded EXCEPT !.constraints = Constraints(p)] ELSE NoDoc,
        !.legacy = IF store = "stored" THEN NoLegacy ELSE [present |-> TRUE, config |-> p],
        !.trusts = trusts]] :
        store \in {"stored", "file", "none"}, trusts \in BOOLEAN}

LayerLaunches ==
    UNION {{[l EXCEPT !.in.cli = With([@ EXCEPT !.command = command], f, c),
                      !.disk.global = With(@, f, g),
                      !.disk.doc.grants = IF l.disk.doc.present THEN With(@, f, s) ELSE @] :
                c \in Choice, g \in Choice, s \in {"unset", "yes"},
                command \in {IF f \in {"no_mise", "ssh", "agent_state"} THEN "claude" ELSE "bash"},
                l \in UNION {Layered(With(EmptyConfig, f, v)) : v \in Choice}} : f \in Probes}

\* lockdown with the fields whose predicates read it, and with a browser.
LockdownLaunches ==
    {[l EXCEPT !.in.cli = With([@ EXCEPT !.command = command, !.browser = b], "lockdown", c)] :
        c \in Choice, b \in {"unset", "soft", "off"}, command \in {"claude", "firefox", NoCommand},
        l \in UNION {Layered(With(With([EmptyConfig EXCEPT !.command = named],
                                                    "lockdown", v), f, a)) :
                v \in Choice, f \in {"allow_loopback_connect", "agent_state"},
                a \in {"unset", "yes"},
                named \in {NoCommand, "firefox"}}}

\* The same when an option that is saved takes lockdown away, and when it is
\* saved before the file is imported.
SavedLaunches ==
    {[l EXCEPT !.in.modes = {mode}, !.in.cli = With(@, given, "no")] :
        mode \in {"init", "clean"}, given \in {"lockdown", "agent_state"},
        l \in UNION {Layered(With(With(EmptyConfig, "lockdown", "yes"), f, a)) :
                f \in {"allow_loopback_connect", "agent_state"}, a \in Choice}}

\* A command the project's file names, where the global file has a harness.
NamedLaunches ==
    {[in |-> [DefaultIn EXCEPT !.cli.command = NoCommand, !.terminal = terminal, !.available = FALSE],
      disk |-> [DefaultDisk EXCEPT
        !.doc = NoDoc, !.global = With(Running("claude"), "lockdown", v),
        !.legacy = [present |-> TRUE, config |-> With(Running(named), "allow_loopback_connect", a)]]] :
        terminal \in {"none", "plain"}, v \in Choice, named \in {NoCommand, "bash", "firefox"},
        a \in Choice}

MapLaunches ==
    {[l EXCEPT !.disk.global.rw = rw, !.disk.global.exceptions = {"work"}] :
        rw \in {{}, {"src"}, {"work"}},
        l \in UNION {Layered([EmptyConfig EXCEPT
                        !.ro = ro, !.rw = w, !.overlay = {"work"}, !.closed = {"src"},
                        !.exceptions = {"src"}, !.hosts = {"evil"}, !.private = {"lan"}]) :
                ro \in SUBSET {"src", "src/gen"}, w \in SUBSET {"src", "src/gen", "work"}}}

\* The walk over the list of mounts retains those that ExtraMounts names.
ASSUME RetainedAgrees ==
    \A ro, rw \in SUBSET (Maps \ ({"worktrees"} \cup Docker)) :
        LET c    == [EmptyConfig EXCEPT !.ro = ro, !.rw = rw]
            list == SetToSortSeq(Listed(c), LAMBDA a, b : Depth[a.dest] < Depth[b.dest])
        IN  InOrder(list) /\ Retained(list) = ExtraMounts(c)

\* Maps of the user over one another and over the project.
MountLaunches ==
    {[in |-> [DefaultIn EXCEPT !.cli = With([@ EXCEPT !.ro = ro, !.rw = rw, !.browser = b], "lockdown", v)],
      disk |-> [DefaultDisk EXCEPT !.global = With([@ EXCEPT !.overlay = o, !.closed = closed],
                                                   "no_worktree", "no")]] :
        ro \in SUBSET {"work", "src", "src/gen", "src/gen/out"},
        rw \in {{}, {"work", "src"}, {"src/gen/out", "src"}, {"src/gen/out", "repository"}},
        <<b, v>> \in {<<"unset", "unset">>, <<"hard", "unset">>, <<"unset", "yes">>},
        o \in {{}, {"src"}, {"src/gen"}, {"src", "src/gen"}}, closed \in {{}, {"src/gen"}}}

\* A credential below, at or beside a path that is closed or mapped; and one that
\* is confirmed, which the project asks for, refuses or leaves to the user.
CredentialLaunches ==
    {[in |-> [DefaultIn EXCEPT !.cli = With(With([@ EXCEPT
                !.closed = closed, !.rw = rw, !.browser = b], "docker_config", f), "lockdown", v)],
      disk |-> [DefaultDisk EXCEPT !.global = With(@, "docker_config", g)]] :
        closed \in SUBSET Docker, rw \in {{}, {"docker"}},
        <<b, v>> \in {<<"unset", "unset">>, <<"hard", "unset">>, <<"unset", "yes">>},
        f \in Choice, g \in {"unset", "yes"}}
    \cup {[in |-> [DefaultIn EXCEPT !.terminal = "plain", !.cli = With(@, "docker_config", g)],
           disk |-> [DefaultDisk EXCEPT !.doc = NoDoc,
                        !.legacy = [present |-> TRUE,
                                    config |-> With([EmptyConfig EXCEPT !.rw = {"src"}],
                                                    "docker_config", p)]]] :
            g \in Choice, p \in Choice}

\* The network, audio and the shared home, with and without lockdown.
WrapperLaunches ==
    {[DefaultLaunch EXCEPT !.in.cli = With(With(With([@ EXCEPT !.overlay = {"work"}],
                                        "network", n), f, "yes"), "lockdown", v)] :
        n \in Choice, v \in Choice, f \in {"audio", "no_landlock"}}
    \cup {[DefaultLaunch EXCEPT !.in.cli = With(With(@, f, "no"), "lockdown", v)] :
        v \in Choice, f \in {"private_home", "agent_state"}}

(***************************************************************************)
(* The modes, the terminal and the review.                                 *)
(***************************************************************************)
AllModes == {"dry_run", "init", "bootstrap", "status", "clean", "configure", "exec"}

ModeLaunches ==
    {[in |-> [DefaultIn EXCEPT
                !.modes = modes, !.terminal = terminal, !.available = available,
                !.tty = available, !.cli = With([@ EXCEPT
                    !.command = command, !.bar = IF terminal = "plain" THEN "yes" ELSE "unset"],
                    f, "yes")],
      disk |-> [DefaultDisk EXCEPT !.doc = doc, !.legacy = legacy]] :
        modes \in {m \in SUBSET AllModes : Cardinality(m) <= 2},
        terminal \in {"none", "plain"}, available \in BOOLEAN, command \in {"claude", "bash"},
        f \in {"no_gpu", "no_save_config"}, doc \in {NoDoc, Onboarded},
        legacy \in {NoLegacy, [present |-> TRUE, config |-> With(EmptyConfig, "no_mise", "yes")]}}

Api == [kind |-> "host", value |-> "docs", host |-> "docs"]
Token == [kind |-> "secret", value |-> "TOKEN", host |-> "api"]

ReviewLaunches ==
    {[in |-> [DefaultIn EXCEPT !.terminal = terminal, !.modes = modes, !.requests = requests,
                               !.env = env, !.cli = With(@, "network", network), !.netns = netns],
      disk |-> [DefaultDisk EXCEPT !.doc = NoDoc, !.forge = "forge A"]] :
        terminal \in {"plain", "tui", "none"}, modes \in {{}, {"configure"}},
        requests \in SUBSET {Api, Token}, netns \in BOOLEAN,
        env \in {NoEnv, [NoEnv EXCEPT !["TOKEN"] = "host's"]}, network \in Choice}

\* A profile that was saved with an approved variable.
Approved ==
    [Onboarded EXCEPT !.approved = {Token},
                      !.grants = [EmptyConfig EXCEPT !.hosts = {"api"}, !.secrets = {<<"TOKEN", "api">>},
                                    !.env = <<[key |-> "TOKEN", value |-> FromHost]>>]]

ApprovedLaunches ==
    {[in |-> [DefaultIn EXCEPT !.requests = requests, !.env = env, !.modes = modes,
                               !.cli.env = given],
      disk |-> [DefaultDisk EXCEPT !.doc = Approved]] :
        requests \in SUBSET {Api, Token}, modes \in {{}, {"status"}},
        given \in {<<>>, <<[key |-> "TOKEN", value |-> "given"]>>},
        env \in {NoEnv, [NoEnv EXCEPT !["TOKEN"] = "host's"]}}

ForgeLaunches ==
    {[in |-> [DefaultIn EXCEPT !.terminal = terminal, !.rotates = TRUE],
      disk |-> [DefaultDisk EXCEPT !.doc = NoDoc, !.forge = forge]] :
        terminal \in {"plain", "tui"}, forge \in {NoForge, "forge A"}}

(***************************************************************************)
(* The environment.                                                        *)
(***************************************************************************)
Entries == {[key |-> k, value |-> v] : k \in {"API_KEY", "TOKEN"}, v \in {"given", FromHost}}
Lists(n) == UNION {[1 .. k -> Entries] : k \in 0 .. n}

EnvLaunches ==
    {[in |-> [DefaultIn EXCEPT !.cli.env = given, !.env = env, !.cli.secrets = bound],
      disk |-> [DefaultDisk EXCEPT !.global.env = global, !.doc = doc]] :
        given \in Lists(2), global \in Lists(1),
        env \in {[NoEnv EXCEPT !["API_KEY"] = "host's"], [k \in DOMAIN NoEnv |-> "host's"]},
        bound \in {{}, {<<"API_KEY", "api">>}},
        doc \in {NoDoc, Onboarded}}

\* Entries of a project's own file, trusted or not, where it can be stored or not.
FileEnvLaunches ==
    {[in |-> [DefaultIn EXCEPT !.cli.env = given, !.available = available,
                               !.env = [k \in DOMAIN NoEnv |-> "host's"]],
      disk |-> [DefaultDisk EXCEPT !.doc = NoDoc, !.trusts = trusts,
                    !.legacy = [present |-> TRUE, config |-> [EmptyConfig EXCEPT !.env = env]]]] :
        given \in Lists(1), env \in Lists(1), available \in BOOLEAN, trusts \in BOOLEAN}

\* A host with a variable of every kind, and sockets that are opened or not.
Set == [API_KEY |-> "host's", TOKEN |-> "host's", PATH |-> "host's", HOME |-> "host's",
        TERM |-> "host's", USER |-> "host's", http_proxy |-> "host's", no_proxy |-> "host's",
        DISPLAY |-> "host's", DOCKER_HOST |-> "host's", SSH_AUTH_SOCK |-> "host's",
        DBUS_SESSION_BUS_ADDRESS |-> "host's"]

ChildLaunches ==
    {[in |-> [DefaultIn EXCEPT
        !.env = Set, !.terminal = IF key = "SSH_AUTH_SOCK" THEN "tui" ELSE "none",
        !.cli = With(Answer([@ EXCEPT
            !.env = <<[key |-> "TOKEN", value |-> FromHost], [key |-> key, value |-> "given"]>>,
            !.hosts = {b[2] : b \in bound}, !.secrets = bound, !.browser = browser],
            on \cup inherit, off), "lockdown", v)],
      disk |-> [DefaultDisk EXCEPT !.doc = IF key = "SSH_AUTH_SOCK" THEN NoDoc ELSE Onboarded]] :
        key \in {"no_proxy", "SSH_AUTH_SOCK", "USER"}, bound \in {{}, {<<"TOKEN", "api">>}},
        <<browser, v>> \in {<<"unset", "unset">>, <<"hard", "unset">>, <<"unset", "yes">>},
        <<on, off>> \in {<<{}, {}>>, <<{"ssh", "x11"}, {"no_docker"}>>, <<{"systemd_user"}, {}>>},
        inherit \in SUBSET {"inherit_env"}}

(***************************************************************************)
(* The ports.                                                              *)
(***************************************************************************)
PortLaunches ==
    {[in |-> [DefaultIn EXCEPT !.cli = [@ EXCEPT !.command = "bash", !.forward = ports[1],
                                                 !.publish = ports[2]],
                               !.modes = modes],
      disk |-> DefaultDisk] :
        ports \in {<<{"8080"}, {}>>, <<{}, {"8080"}>>, <<{"5432"}, {"8080"}>>, <<{"8080"}, {"8080"}>>},
        modes \in {{}, {"dry_run"}}}
    \cup {[DefaultLaunch EXCEPT !.in.cli.tcp = {"443"}, !.disk.global = With(@, "lockdown", v)] :
            v \in Choice}

\* The union; TLC sorts a set when it compares it, and joins sorted ones faster.
Together(S, T) == IF S = {} THEN T ELSE S \cup T

MCLaunches ==
    FoldLeft(Together, {},
        <<LayerLaunches, LockdownLaunches, SavedLaunches, NamedLaunches, MapLaunches, MountLaunches,
          CredentialLaunches, WrapperLaunches,
          ModeLaunches, ReviewLaunches, ApprovedLaunches, ForgeLaunches, EnvLaunches,
          FileEnvLaunches, ChildLaunches, PortLaunches>>)
================================================================================
