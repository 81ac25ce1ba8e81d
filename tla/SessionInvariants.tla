---------------------------- MODULE SessionInvariants ---------------------------
(***************************************************************************)
(* The inductive invariants of JailSession and the predicates they are     *)
(* made of: why its properties hold in every state.  JailSessionProofs has *)
(* the proofs.                                                             *)
(***************************************************************************)
EXTENDS JailSession

(***************************************************************************)
(* What the layering of configurations preserves.                          *)
(***************************************************************************)
\* The fields of a configuration.
Fields == {"command", "yes", "no", "ro", "rw", "overlay", "closed", "exceptions", "hosts",
           "private", "tcp", "forward", "publish", "env", "secrets", "browser", "bar"}

\* result has what base closes, and maps more only inside the project; but for
\* the read-only maps of what is shown.
PathsTighten(result, base, shown) ==
    /\ base.closed \subseteq result.closed
    /\ \A f \in {"rw", "overlay"} : result[f] \subseteq base[f] \cup Inside
    /\ result.ro \ shown \subseteq base.ro \cup Inside
    /\ \A m \in result.rw \ base.rw, n \in result.ro \ shown : <<m, n>> \notin Overlap

\* result grants nothing that base does not.
TightensOnly(result, base) ==
    /\ Granted(result) \subseteq Granted(base)
    /\ Lockdown(base) => Lockdown(result)
    /\ \A f \in {"exceptions", "hosts", "private", "tcp", "forward", "publish", "env", "secrets",
                 "browser", "bar"} : result[f] = base[f]
    /\ PathsTighten(result, base, {})

\* The fields that are sets, and the listeners among them.
Lists == {"ro", "rw", "overlay", "closed", "exceptions", "hosts", "private", "tcp", "forward",
          "publish"}

Listens(c) == c.forward \cup c.publish

\* What a browser profile gives back.
Lifts(c, trustedCommand, f) ==
    /\ Lockdown(c)
    /\ f = "lockdown"
    /\ BrowserProfile(c) \/ (trustedCommand /\ c.browser # "off" /\ c.command \in Browsers)

\* And what it may give back to a configuration of these trusted layers.
Unlocks(c, trusted) ==
    IF Lockdown(trusted) /\ BrowserProfile(c) THEN {"lockdown"} ELSE {}

\* What a configuration under way to a launch keeps of its trusted layers.
KeepsTrusted(c, trusted) ==
    /\ Granted(c) \subseteq Granted(trusted) \cup Unlocks(c, trusted)
    /\ PathsTighten(c, trusted, AskedCredentials(trusted))
    /\ c.exceptions \subseteq trusted.exceptions
    /\ c.private \subseteq trusted.private

(* A change of the command alone. *)
OnlyCommand(d, c) ==
    DOMAIN d = Fields /\ \A f \in Fields \ {"command"} : d[f] = c[f]

\* A configuration that allows no more than another.
Narrower(narrow, wide) ==
    /\ Granted(narrow) \subseteq Granted(wide)
    /\ Lockdown(narrow) <=> Lockdown(wide)
    /\ wide.closed \subseteq narrow.closed
    /\ \A f \in {"ro", "rw", "overlay", "exceptions", "private"} : narrow[f] \subseteq wide[f]

Restrictions(g) == [Constraints(g) EXCEPT !.ro = {}, !.rw = {}, !.overlay = {}]

SafeGrants(sel, harness) == SelectionGrants(sel, {}, harness, FALSE)

(***************************************************************************)
(* The launch: what is typed, and what each point has decided.             *)
(***************************************************************************)
\* The layers of a launch, as they were read.
LayersShape(l) == DOMAIN l = {"doc", "legacy", "global", "trusted", "harness"}

\* A configuration of a session: its listeners are on ports.
Sound(c) == WellFormed(c) /\ Listens(c) \subseteq Ports

Chosen(sel, approved, harness) == SelectionGrants(sel, approved, harness, TRUE)

DiskOK ==
    /\ DOMAIN in = {"modes", "cli", "terminal", "available", "netns", "tty", "env", "requests",
                    "rotates"}
    /\ DOMAIN disk = {"doc", "legacy", "trusts", "global", "tables", "forge"}
    /\ DOMAIN disk.doc = DOMAIN NoDoc
    /\ Sound(in.cli) /\ Sound(disk.doc.grants) /\ Sound(disk.doc.constraints)
    /\ Sound(disk.legacy.config) /\ Sound(disk.global)
    /\ \A k \in DOMAIN disk.tables : Sound(disk.tables[k])
    /\ in.cli.command \in DOMAIN disk.tables /\ disk.global.command \in DOMAIN disk.tables
    /\ disk.doc.grants.command = NoCommand
    /\ ~disk.doc.onboarded => disk.doc.grants = EmptyConfig

LoadedOK ==
    /\ LayersShape(loaded)
    /\ Sound(loaded.global) /\ Sound(loaded.doc.grants) /\ Sound(Project(loaded))
    /\ loaded.doc.grants.command = NoCommand
    /\ ~loaded.doc.onboarded => loaded.doc.grants = EmptyConfig

ReviewOK ==
    /\ DOMAIN review = DOMAIN NoReview
    /\ DOMAIN review.launch = DOMAIN NoLaunch
    /\ review.end \in {"none", "saved", "once", "cancelled", "skipped"}
    /\ Sound(review.grants) /\ review.grants.command = NoCommand
    /\ Sound(review.launch.config)

FinalOK == DOMAIN final = DOMAIN NoLaunch /\ Sound(final.config)

ControlOK ==
    /\ pc \in {"flags", "migrate", "load", "review", "confirmed", "reviewed", "settle", "modes",
              "write", "ports", "autosave", "forge", "spawn", "running", "done"}
    /\ (exit = "none") = (pc # "done")
    /\ kept \subseteq Capabilities /\ count \in 1 .. MaxLaunches

LaunchOK == DiskOK /\ LoadedOK /\ Sound(cfg) /\ ReviewOK /\ FinalOK /\ ControlOK

LaunchStep == Proceed \/ Decided \/ PortsBound \/ Spawn \/ ChildExits \/ Relaunch

Apart(c) == c.forward \cap c.publish = {}

SameListeners(c, d) == c.forward = d.forward /\ c.publish = d.publish

\* The ports held are those of the finalized configuration.
Listening ==
    /\ pc \in {"flags", "migrate", "load", "review"} => ~Confirmed
    /\ pc \in {"settle", "modes", "write"} /\ Confirmed
            => SameListeners(cfg, review.launch.config)
    /\ pc \in {"modes", "write"} => Apart(cfg)
    /\ pc = "ports" => Apart(final.config)
    /\ pc \in {"autosave", "forge", "spawn", "running"}
            => forwards = final.config.forward /\ publishes = final.config.publish
    /\ forwards \cap publishes = {}
    /\ forwards \subseteq Ports /\ publishes \subseteq Ports

\* After a review, what was confirmed is what goes on, and the forge was compared.
AsConfirmed ==
    Confirmed =>
        /\ review.launch.forge = NoForge
        /\ Mode("clean") \/ Lockdown(review.launch.config)
                => review.launch.reviewed \in {Unreviewed, NoForge}
        /\ pc \in {"ports", "autosave", "forge"} => final = review.launch
        /\ pc \in {"spawn", "running"} =>
            /\ final.config = review.launch.config
            /\ final.secrets = review.launch.secrets
            /\ final.ssh = review.launch.ssh
            /\ review.launch.reviewed \in {Unreviewed, final.forge}

(***************************************************************************)
(* The ports, the wrapper and the connections.                             *)
(***************************************************************************)
\* The points with a finalized configuration.
Late == {"ports", "autosave", "forge", "spawn", "running"}

Places ==
    {"idle", "dialed", "queued", "handed", "over", "connecting", "relaying", "ending", "closed"}

PortTypes ==
    /\ wrapper \in {"none", "starting", "failed", "agent", "ended"}
    /\ bridge \in [Ports -> {"none", "spawned", "ready", "dead"}]
    /\ callers \in [Ports -> Seq({"stranger", "bridge", "agent"})]
    /\ peer \in [Ports -> {"none", "awaited", "bridge", "agent", "closed"}]
    /\ conn \in [Clients -> [at : Places, port : Ports \cup {NoPort}]]

\* The bridge called before anybody in the sandbox did.
BridgeFirst(s) == \A i \in DOMAIN s : s[i] = "agent" => \E j \in DOMAIN s : j < i /\ s[j] = "bridge"

Called(s) == \E i \in DOMAIN s : s[i] = "bridge"

\* The wrapper starts one bridge at a time, and becomes the agent after the last.
WrapperOK ==
    /\ wrapper \in {"starting", "failed", "agent"} => pc = "running"
    /\ wrapper = "none" => \A p \in Ports : bridge[p] = "none"
    /\ \A p \in Ports : bridge[p] = "spawned" => wrapper = "starting"
    /\ \A p, q \in Ports : bridge[p] = "spawned" /\ bridge[q] = "spawned" => p = q
    /\ \A p \in Ports : bridge[p] = "spawned" => p \in Asked
    /\ wrapper = "agent" => \A p \in Asked : bridge[p] \in {"ready", "dead"}

\* Until the agent runs, a publish's socket has been called by its bridge first.
StreamsOK ==
    \A p \in Ports :
        /\ peer[p] # "agent"
        /\ peer[p] = "awaited" => p \in publishes
        /\ BridgeFirst(callers[p])
        /\ peer[p] = "awaited" /\ wrapper \in {"starting", "agent"}
                /\ bridge[p] \in {"ready", "dead"}
                => Called(callers[p])

PortControl == PortTypes /\ WrapperOK /\ StreamsOK

\* The places of a connection with a relay, and of one on its way or beyond the limit.
Held == {"connecting", "relaying", "ending"}

Linked == {"dialed", "queued", "handed", "over"} \cup Held

LinksOK ==
    \A c \in Clients : conn[c].at \in Linked =>
        /\ conn[c].port \in Ports
        /\ c \in JailClients => conn[c].port \in forwards
        /\ c \in HostClients => conn[c].port \in publishes

\* A counter is the number of relays and of the connection beyond the limit.
CountsOK ==
    /\ active \in [Ports -> Nat]
    /\ \A p \in Ports :
        /\ Cardinality(Relaying(p)) <= MaxConnections
        /\ active[p] = Cardinality(Relaying(p)) + Cardinality(At("over", p))

\* A step that moves no connection in or out of a counted place.
SameHolds ==
    \A c \in Clients :
        /\ conn'[c].at \in Held <=> conn[c].at \in Held
        /\ conn'[c].at = "over" <=> conn[c].at = "over"
        /\ conn[c].at \in Held \cup {"over"} => conn'[c].port = conn[c].port

\* A step that takes no connection further than it was.
SameLinks ==
    /\ UNCHANGED <<forwards, publishes>>
    /\ \A c \in Clients : conn'[c].at \in Linked =>
        conn[c].at \in Linked /\ conn'[c].port = conn[c].port

\* The inductive invariant of a session.
SessionOK ==
    LaunchOK /\ AsConfirmed /\ Listening /\ PortControl /\ LinksOK /\ CountsOK

(***************************************************************************)
(* What a project may add, and what a browser gives up.                    *)
(***************************************************************************)
\* What holds of a configuration under way, its hosts included.
Kept(c, trusted, harness) ==
    /\ KeepsTrusted(c, trusted)
    /\ c.hosts \subseteq trusted.hosts \cup RegistryHosts
                    \cup UNION {ApiHosts[h] : h \in {harness} \ {NoCommand}}

HandedOn(c) ==
    ~loaded.trusted =>
        /\ Kept(c, Trusted, loaded.harness)
        /\ BrowserProfile(c) => BrowserProfile(Trusted) \/ review.end = "skipped"

ReviewStarts ==
    pc = "review" => cfg = WithProject(Baseline(loaded), loaded) /\ loaded.harness = Harness(cfg)

\* What the review hands on, with the property itself: inductive beside SessionOK.
Tightening ==
    /\ ReviewStarts
    /\ pc \in {"confirmed", "reviewed"} => HandedOn(review.launch.config)
    /\ pc = "settle" => HandedOn(cfg)
    /\ ProjectOnlyTightens

\* A browser without a worktree.
GivesUp(c) == BrowserProfile(c) => "no_worktree" \notin c.no

\* And with every credential that is on among its maps: a configuration that is
\* finalized.
Fitted(c) == GivesUp(c) /\ CredentialPaths(c) \subseteq c.ro \cup c.rw \cup c.overlay

\* A browser's launch has given up the worktree, on every path.
BrowserShut ==
    /\ pc \in {"modes", "write"} => GivesUp(cfg)
    /\ Fitted(review.launch.config)
    /\ Fitted(final.config)

(***************************************************************************)
(* What is stored: who may be asked to save, and what was refused.         *)
(***************************************************************************)
Stores == "no_save_config"     \* the flag of --no-save-config

\* The command line's --no-save-config is the configuration's.
Obeys(c) == Stores \in in.cli.yes => Stores \in c.yes

Reviewed == review.end \in {"saved", "once", "skipped"}

Looks == {"dry_run", "init", "bootstrap", "status", "clean"}

\* Which modes an invocation can have where it is.
Asking ==
    /\ pc \notin {"flags", "done"} => ~FlagsConflict
    /\ pc \in {"flags", "migrate", "load", "review"} => review.end = "none"
    /\ review.end = "cancelled" => pc = "done"
    /\ Reviewed => Mode("configure") \/ in.modes \cap Looks = {}
    /\ pc \in {"confirmed", "reviewed"} => Confirmed
    /\ pc \in {"write", "ports", "autosave"} => ~Mode("status")

\* An invocation that may save: it can store, and does more than look.
Saving == in.available /\ in.modes \cap {"dry_run", "status"} = {}

ClearedOnDisk ==
    /\ Stores \notin Settled(disk.doc.constraints)
    /\ ~disk.legacy.present => disk.legacy.config = EmptyConfig

\* Where one may save, the command line's --no-save-config is in force.
Obedient ==
    /\ ClearedOnDisk
    /\ pc = "load" /\ Saving /\ ~Mode("clean") => ~disk.legacy.present
    /\ Saving => Stores \notin Settled(Project(loaded))
    /\ Saving /\ pc = "review" => Obeys(cfg)
    /\ Saving /\ pc \in {"settle", "modes", "write"} /\ review.end # "skipped" => Obeys(cfg)
    /\ Saving /\ Confirmed => Obeys(review.launch.config)
    /\ Saving /\ pc \in {"ports", "autosave"} /\ review.end # "skipped" => Obeys(final.config)

\* Under lockdown agent state is refused, whatever its own field says.
Firm(c) == Refusals(c) \cup (IF Lockdown(c) THEN {"agent_state"} ELSE {})

\* A configuration that grants nothing of H, but for a browser without lockdown.
Denies(c, H) ==
    H \cap Granted(c) \subseteq (IF BrowserProfile(c) THEN {"lockdown"} ELSE {})

\* The refusals the command line does not answer itself.
Refused == kept \ Settled(in.cli)

\* What is refused is stored, and read by every invocation but one with --clean.
Rooted ==
    /\ kept # {} => in.available /\ disk.doc.present
    /\ count = 1 /\ pc \in {"flags", "migrate"} => kept = {}
    /\ count > 1 => in.modes = {} /\ Settled(in.cli) = {}
    /\ kept \subseteq Firm(disk.doc.constraints)
    /\ count = 1 /\ pc = "load" => kept \subseteq Refusals(disk.doc.constraints)
    /\ pc \notin {"flags", "migrate", "load", "done"} /\ ~Mode("clean") =>
        /\ Refused # {} => ~loaded.trusted
        /\ Refused \subseteq Firm(Project(loaded))
        /\ count = 1 => Refused \subseteq Refusals(Project(loaded))

\* Every configuration on the way to a launch grants none of it.
Denied ==
    ~Mode("clean") =>
        /\ pc \in {"review", "confirmed", "reviewed", "settle", "modes", "write"} => Denies(cfg, Refused)
        /\ Confirmed => Denies(review.launch.config, Refused)
        /\ pc \in {"ports", "autosave", "forge", "spawn", "running"} => Denies(final.config, Refused)

(***************************************************************************)
(* The environment.                                                        *)
(***************************************************************************)
\* The entry at i says what key has.
Says(s, i, host, key) == s[i].key = key /\ EntryValue(s[i], host) # NoValue

\* The place of i among the indices in I.
Rank(I, i) == Cardinality({j \in I : j <= i})

EnvOK(c) == c.env \in Seq(Entry) /\ IsFiniteSet(c.secrets)

\* Two lists that give every variable the same, on every host.
Agree(s, t) == \A host, key : ChildValue(s, host, key) = ChildValue(t, host, key)

\* What has the same entries and the same bindings.
SameEntries(d, c) == d.env = c.env /\ d.secrets = c.secrets

\* The entries of the layers of a launch, the strongest last.
LayersSay(global, proposed, cli, l) ==
    global.env \o proposed.env \o cli.env \o (IF l.trusted THEN Project(l).env ELSE <<>>)

\* The default key, whatever entries there are: asked for where none is.
Default(c, host) == DefaultKeys([c EXCEPT !.env = <<>>], host)

\* What the environment is made of: every bound variable a placeholder, and no
\* key where there is none to choose.
Hidden(launch) ==
    /\ \E S : launch.config.env \in Seq(S)
    /\ \A host : \A key \in BoundKeys(launch.config) :
            ChildValue(launch.config.env, host, key) = Placeholder
    /\ launch.ssh => "ssh" \notin launch.config.yes /\ ~Lockdown(launch.config)

Profiled(p) ==
    /\ EnvOK(p.grants) /\ Requests(p.approved)
    /\ \A a \in p.approved : a.kind = "secret" => Mentions(p.grants.env, a.value)

\* What is on the disk and on the command line.
DiskSays ==
    /\ EnvOK(in.cli) /\ EnvOK(disk.global) /\ EnvOK(disk.legacy.config)
    /\ \A k \in DOMAIN disk.tables : EnvOK(disk.tables[k])
    /\ Requests(in.requests) /\ Profiled(disk.doc)

\* What was read from it.
LoadedSays ==
    EnvOK(loaded.global) /\ Profiled(loaded.doc) /\ (loaded.trusted => EnvOK(Project(loaded)))

\* And what the review holds.
Saying == DiskSays /\ LoadedSays /\ Profiled(review)

\* The configuration in hand says what the layers say, a finalized one resolves them.
Resolving ==
    /\ pc \in {"review", "settle", "modes", "write"} /\ ~Confirmed =>
            EnvOK(cfg) /\ Agree(cfg.env, GivenEntries)
    /\ Confirmed => EntriesResolve(review.launch, GivenEntries) /\ Hidden(review.launch)
    /\ pc \in Late => EntriesResolve(final, GivenEntries) /\ Hidden(final)
================================================================================
