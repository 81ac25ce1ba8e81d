# ai-jail, verified parts

ai-jail starts an AI coding agent inside a sandbox (bubblewrap, Landlock and
seccomp on Linux, sandbox-exec on macOS). This directory holds TLA+ models of
the parts of it that are hard to test: the protocols between its signal handlers,
threads, processes and files, and the long sequence of decisions that turns a
project's file, a person's choices and a command line into one launch.
TLC checks every model on small instances and TLAPS proves its main invariants
for all of them. `PROJECT.json` lists components, runs, mutants, the source
lines of every definition, findings, hazards and theorems.

Paths below are relative to the repository (`src/signals.rs` and so on); a bare
file name is one under `src/`.

## 1. Inventory

A launch is one run of `main.rs::run`: parse the command line, import a legacy
`.ai-jail` into the policy store, load and merge policy, perhaps show the access
review and save grants, settle the command and the browser profile, handle the
modes that only read or write, finalize the configuration, start the
restricted ssh-agent, open the audit log, build the sandbox plan, start the egress
proxy and the listeners of the ports, save constraints, attach forge access, mask an
absent `.ai-jail`, spawn the sandbox behind a gate, proxy its terminal, wait for it,
write the final audit record, and drop everything in reverse. Several launches run
at once on one machine and share the policy store, the forge store and the audit log.

| Component | State it keeps | Operations | Talks to | Hard behaviour | Correct when |
|---|---|---|---|---|---|
| Signals and gated spawn (`signals.rs`) | `CHILD_PID`, `PENDING_SIGNAL`, the signal mask, the gate pipe | install, register and clear a child, spawn, release, abort, wait | ssh-agent, PTY loop, main | handlers on any thread between any two steps | no signal is lost, nothing outlives the launcher |
| Launch sequence (`main.rs`) | the layers read, the configuration in hand, the review's result, the finalized launch | modes, review, settle, finalize, save, attach, spawn | every other component | minutes between a decision and its use; several modes and endings | what was confirmed runs, only what was asked for is written |
| Port forwards and publishes (`proxy.rs`, the wrapper in `main.rs`) | listeners, bridges, one stream per publish, a counter per port | bind, spawn a bridge, readiness, hand off a descriptor, relay | sandbox, host programs | start order, a bridge that dies, the limit | ports reach the agent, every connection is answered |
| Policy merge (`config.rs`) | none | layering of policies, what is stored | launch | order of layers, predicates over several fields | a project layer only restricts, and a refusal stays |
| Sandbox planning (`sandbox/`) | none | mounts, overlays, masks; the macOS profile; sockets, devices, environment | spawn | order of overlapping mounts and rules, two platforms | a closed path is never covered, and both platforms keep the policy |
| Egress proxy (`proxy.rs`) | connection count, decisions per host, condition variable | accept, judge, prompt, dial, relay | audit log, PTY (prompt) | threads racing on one decision; stale address | limit, one prompt per host, only permitted tunnels |
| Audit log (`audit.rs`) | chained lines in a file; offset, hash and sequence number per handle | open, record, verify | main, proxy | two locks, torn writes, deaths, other sessions | verify blames only torn lines, acknowledged records stay |
| Forge access (`forge_auth.rs`) | binding, credentials, lock | setup (rotation), status, remove; tokens of a launch | policy store's lock | deaths and power loss between two renames | binding and credential go together, reports are true |
| Policy store (`config_store.rs`, `main.rs`) | documents, lock, legacy file, quarantine, placeholder | import, save grants, save constraints, mask | every launch, the person editing `.ai-jail` | read-modify-write by many launches, a source that changes while it is imported | decisions stay, no file is lost |
| Terminal proxy and status bar (`pty.rs`, `statusbar.rs`) | virtual terminal, scanners of the child's output, size, pending redraw, flags of the bar | loop over stdin, master and timers; resize, redraw, teardown | signals, update thread | SIGWINCH at any time, reads cut anywhere | sizes agree, questions answered once, the terminal is given back |
| Onboarding (`onboarding*`) | screens of the access review | keys, presets, save, once, cancel | launch | long protocols of keys | saved is what was shown |
| Wrapper contract (`integration.rs`) | requests and approvals | match | launch | stale approvals | only exact approvals count |
| Restricted ssh-agent (`ssh_restricted.rs`) | child, staging directory, socket | start and validate with a deadline, drop | signals | an abandoned start, a late socket | the agent and its directory never outlive the launch |
| File helpers, bootstrap, github token | files, a child with a deadline | atomic write, backup, lookup | - | crash between steps, deadline | old or new file, never half |
| Landlock, seccomp and limits | the wrapper's own configuration, rebuilt from its command line | one-shot system calls in the child | sandbox planning | one policy told twice, in options of either sense | the layers agree on what is granted |
| Command line, inventories, output, secrets | none | parsing, printing | - | - | - |

## 2. Modules

| Module | Models | Kind |
|---|---|---|
| `SupervisedSpawn` | `signals.rs` with its callers | state machine, liveness |
| `SupervisedSpawnProofs` | | theorems |
| `EgressPolicy` | what the proxy promises | abstract specification |
| `EgressProxy` | `proxy.rs::handle_conn` and below | state machine, refines `EgressPolicy` |
| `EgressProxyProofs` | | theorems |
| `AuditLog` | `audit.rs` | state machine, liveness |
| `MCAuditLog`, `AuditLogProofs` | | instance; theorems |
| `ForgeStore` | the two files of `forge_auth.rs` | state machine with power loss |
| `MCForgeStore`, `ForgeStoreProofs` | | instance; theorems |
| `ConfigStore` | `config_store.rs` (project document) and its use in `main.rs` | state machine |
| `MCConfigStore`, `ConfigStoreProofs` | | instance; theorems |
| `StatusBar` | the layout of the bar's row in `statusbar.rs` | operators |
| `TerminalLoop` | `pty.rs` with the bar's flags | state machine over `StatusBar`, liveness |
| `MCTerminalLoop`, `TerminalLoopProofs` | | instance; theorems |
| `PolicyMerge` | the layers of `config.rs` | operators |
| `LaunchPolicy` | what `main.rs` and `onboarding.rs` compute from them | operators over `PolicyMerge` |
| `MountPlan` | `sandbox/bwrap.rs`, the order of mounts | operators over `PolicyMerge` |
| `SeatbeltProfile` | `sandbox/seatbelt.rs`, the order of rules | operators over `MountPlan` |
| `WrapperLayers` | the options of the wrapper, `sandbox/landlock.rs` | operators over `MountPlan` |
| `ChildEnvironment` | the variables of the harness, `sandbox/bwrap.rs` and `sandbox/seatbelt.rs` | operators over `LaunchPolicy` |
| `Launch` | `main.rs::run` | state machine over `LaunchPolicy` |
| `PortBridge` | forwards and publishes in `proxy.rs` and the wrapper | state machine |
| `JailSession` | `Launch` and `PortBridge` with the plans of the sandbox | composition, liveness |
| `MCLaunch` | | families of launches |
| `SessionInvariants`, `JailSessionProofs` | | inductive invariants; theorems about merge, plans, layers and session |
| `AccessSelection` | the draft of an access review, `onboarding.rs` and its presets | operators |
| `Review` | the screens of the review, `onboarding/tui/app.rs` and below | state machine |
| `MCReview`, `ReviewProofs` | | ways to begin a review; theorems |

Definitions named after a fault (`HandlerStoreForgets`, `TakeUnlocked`,
`AllBeforeProject`, ...) sit before the definition they vary. No specification uses
them; each is a plausible bug, listed under "mutants", that the property named
there catches.

### SupervisedSpawn

`childPid` and `pending` are the two atomics, `kernel` the signals pending for
the process, `masked` the main thread's mask, `at` each handler's place, `proc`
the life of the agent and of the sandbox process, `byte` the gate. A handler is
three steps (store, load, kill) on any thread that does not block the signal;
`set_child_pid` is two (store, then forward what is pending). The main thread's
points follow `run`, `spawn_supervised` and `wait_child`. Both pipe ends are
inherited, so the gate process never reads an end of file: what ends it is a
byte or a signal, and the re-kill at registration is what makes an aborted launch
end. That is `CancelledLaunchEnds`.

The restricted ssh-agent is `start_validated`: its directory (`base`), the spawn, the wait
for the socket with its deadline, the loading of the keys and the last look for a signal. The
agent makes its socket or ends whenever it likes, also when the launcher has just given up;
`SweepBase` and `RemoveBase` are `remove_dir_all`, which leaves a directory that
something was put into meanwhile. Nothing is, because `Runtime` kills and reaps first.

### EgressPolicy and EgressProxy

The abstract state is the answer for each host and the open tunnel of each
connection. The detailed one has the counter, the map of decisions with its
pending markers, and one handler thread per connection: read the request, resolve
(the class of the address may change between two resolutions), look the host up
under the lock, wait or ask, answer or expire, notify, dial, relay, drop the
guard. `ImplementsPolicy` is `EgressPolicy!Spec` under the mapping in
`EgressProxy`; the mapping reads a pending marker as no answer. An answer is
stored and shown to the waiters in two steps, and a waiter may wake for no reason.

### AuditLog

The file is a sequence of lines; a record is written in three cells, so a death or
an error can leave a torn line that the next append closes. Each session's handle
has offset, previous hash, sequence number and the need of a newline; threads of
a session share it behind a mutex, sessions exclude each other by flock, which
belongs to the open file and so does not exclude threads of one session.
`Refreshed` is `ChainState::refresh`. A hash is the text it is taken of, so
collisions do not exist. `Open` may find a log of version 2 (`Legacy`).

### ForgeStore

`binding` and `creds` are the files, `undo` and `unsynced` what a power loss may
still change: the bindings it may put back, the credential files it may take
away or bring back. Setup loads, writes the credential, installs the binding,
retires the old one and sweeps; status reads the binding before it has the lock, as
the code does; remove unbinds and erases. A step whose sync fails also stands
for a death between the change and the sync.

### ConfigStore

`doc` is `projects/<identity>.toml`: grants, constraints, the digest of the source
imported last. `legacy` is the file under the name `.ai-jail`, `aside` the quarantine.
A launch goes lock, read, write, move aside, verify, unlink (or put back), load,
perhaps save grants, perhaps save constraints, mask, run, drop the placeholder.
A file stands for one inode with one text: the code compares both, so an edit in
place counts as another file. `Stop` is a death and the error return of any step
before its effect; an error after the rename of a document is the first
alternative of `Replace`.

A person may write `.ai-jail` between any two steps, also where a session looks at the name and
then acts on it by name: before it puts a quarantined file back (`put`) and before it removes its
placeholder (`drop`). `config_store.rs:1890` renames to a name that was free when it was looked
at, and 169-178 remove by name what `symlink_metadata` has just described. A file that takes the
name there is overwritten or removed, though the comment at `main.rs:1928-1930` has the placeholder's removal
touch "never a replacement made concurrently". `crossed` is the history of those files, and
`NothingLost` promises every other file; without that exception TLC finds a loss in either window.

### StatusBar and TerminalLoop

A byte of the child's output is one of the seven kinds the proxy tells apart: text, the
two ends of a control string, the two halves of a cursor question, and entry and exit
of the alternate screen. The child writes well-formed output; a read cuts it anywhere.
`scan`, `filter`, `osc` and `host` are the places in it of the vt100 parser, the
`TerminalFilter`, the `OscForwarder` and the user's terminal; they move alike and differ
in the bytes they are given, which is where the code can go wrong. `winch`, `dirty` and
`active` are the three atomics. `handle_sigwinch` reads the terminal's size three times, and
each is a step (`Repaint`, `ResizeClears`, `ResizePty`) with a resize possible
between them; SIGWINCH also interrupts `poll` and the write to the child. Steps no
other party can tell apart are one action. `LayoutFits` is the saturating arithmetic of
`draw` over the widths of the texts.

### PolicyMerge, LaunchPolicy and MountPlan

A configuration is a record. Its `Option<bool>` fields are two sets of names, `yes` and
`no`; a field may give its capability by either, so the fields are grouped by what grants
them. `MergeTrusted`, `MergeCli`, `MergeProject` and `Constraints` are
`merge_trusted`, `merge`, `merge_with_global_report` and
`monotonic_project_constraints`. `LaunchPolicy` has the browser profile, the grants a
review makes of its choices, the defaults where nobody can be asked, and the
finalization: default hosts, the credentials that are on (`Credential` has what an option shows
of the home), the environment stripped of duplicates, the values bound to hosts.
`Grants` is the predicate of each line of `merge_with_global_report`. Of these only that of agent
state reads lockdown (`config.rs:1606`); the host's loopback is judged by its own answer
(1583-1585), so no lockdown makes a project's yes to it a restriction.

bwrap applies mounts in order and the later wins, so `MountPlan` gives each mount a turn
(its group in `ordered_mounts`) and, within a group, its depth. `Top` is what the harness
finds at a path. The destinations are a tree, `Overlap` with `Depth`; the project is
one of them. The code drops redundant maps while it walks a sorted list and asks the nearest
map it retained: `Retained`. `ExtraMounts` says which remain without the walk, and the plan is
made of these; that both are the same is a theorem, and the assumption
`RetainedAgrees` of `MCLaunch` has TLC compare them on every pair of sets of six maps.
`WorktreePaths` is the common directory of a linked worktree, where it is exposed.

### SeatbeltProfile and WrapperLayers

macOS mounts nothing: a profile is read in order and the last rule that names a path
decides. `Rules` is that order: what is granted, what is denied, and for reads once more the
credentials that are on and not denied by their own name (`push_file_read_section`).
`ReadPaths`, `WritablePaths` and `WriteDenied` are what `macos_read_paths`,
`macos_writable_paths` and `generate_sbpl_profile_for_tty` collect. `ProfileKeepsPolicy` asks of
it what `MountsKeepPolicy` asks of the mounts, except that a closed path may be read through such a
credential (`Opened`); `PlatformsAgree` compares the two path by path, on the
configurations `Alike` admits and but for those reads. Where they differ by design is said at `Alike`.

On Linux the wrapper runs inside the mounts, rebuilds a configuration from its command line
(`WrapperArgs`, `Inner`) and restricts itself by it. `landlock_wrapper_args` writes every field
out by hand, some in either sense, some only where they hold: `LayersRead` is what the layers
inside ask for, and `SameInside` that they get the answer the launcher settled on.
`Untold` are the three whose answer the wrapper is not given, or not in the sense of a
refusal: audio it then denies, a shared home it never has, agent state it has unless it is locked
down; `SameInside` says that of them instead. Landlock has three rulesets, one on another, and
`Kernels` what becomes of each. Lockdown refuses to run on anything less than all of the filesystem
rules; the network and the scope rules are best effort there too, unless a TCP port of the host is
allowed (`Refuses`). So `NeverHalfLocked` rests the network on `--unshare-net` (`PrivateNet`) and
nothing on the other two. A port of the host cannot be allowed by any launch today
(`validate_network_flags`, `main.rs:317-320`); the field `tcp` is refused by `NetworkFlagsAgree` and has its
part in `TcpConnects` and `Refuses` all the same. `LandlockWrites` is its writable
paths; rules only add up there, so what is read-only within one of them is left to the mounts.
`LayersAgreeOn` has every path that is mounted to be written below one of them, and none of
them, but for the home, where no mount is to be written.

### ChildEnvironment

An environment is a function on the variables that are set, one variable of each kind the code
tells apart: inherited by default or not, forced by filtered egress, bound to a host, naming the
socket of a capability, given by lockdown. `++` is the order (it is TLC's `@@`, which the prover
does not know): bwrap takes `--clearenv` and
`--setenv` one after the other, and `Command::env` replaces what was set. `InheritedOrPassed` is
what is inherited with the user's entries over it, `Unlocked` and `Locked` are the two branches
of `isolation_args`, and `LinuxEnvironment` and `MacEnvironment` the result on the two
platforms. Which sockets exist is the host's affair: all of them do, in directories that pass
the code's checks, a Wayland socket with the runtime directory it lies in. `SetItself` has the
variables the launcher sets on its own: nothing stops `--secret` on one of those, and which of
two values is the last then depends on the platform, so `ForcedHold` promises nothing of them.

### Launch, PortBridge and JailSession

`Launch` follows `run`: `flags`, `migrate`, `load`, `review` (`confirmed`, `reviewed`),
`settle`, `modes`, `write`, `ports`, `autosave`, `forge`, `spawn`, `running`, `done`. Each early
return is an `End` with its reason. What a person decides (`Confirm`, `CancelReview`) and
what the host does (`PortTaken`, `ForgeChanges`: `ai-jail forge` in another terminal) are
actions of their own. `Relaunch` is the same command again without options, so that
what one invocation saved meets the next. Store accesses are one step each here; their
races and crashes are `ConfigStore`, the gate is `SupervisedSpawn`.

`PortBridge` has, for each port, the supervisor's listeners, the bridge inside the
sandbox, who called the publish's Unix socket, whom the supervisor took for the bridge,
and the relays' counter. A connection passes `dialed`, `queued`, `handed`, `connecting`,
`relaying`, `ending`; `over` is one above the limit that still holds a place.
Bridges, the wrapper and the sandbox may die at any time. `JailSession` binds ports from the
finalized configuration, starts the sandbox with `Spawn`, ends the launch with it, and states
the properties of the whole.

`MCLaunch` is a union of families; each varies what one part of the sequence reads and
leaves the rest at a default: layers (one field in every layer), lockdown with the
fields and browsers that touch it, commands the project names, maps, mounts, modes,
reviews, approvals, forges, environments (the entries of the layers, those of a project's file
with the file trusted or not and the review skipped or not, and what a host with
every variable makes of lockdown, a browser, inheritance, bound secrets and sockets), ports.

### AccessSelection and Review

A draft is the set of what it grants: flags of the access list, additional capabilities,
variables, directories in a mode, ssh keys, and what the wrapper's manifest asks for.
`Apply`, `Revoke`, `Enable`, `WithKeys` and `Preset` are the operations of `Selection` and of
the editors on it; `OpenItems` are the grants the code rates `Risk::Open`, those it wants
confirmed.

`Review` has one action for what a key does on the screen that takes it. `screen`, `exit`,
`dialog` and `asking` are the screen, the dialog about unsaved changes, the confirmation of
the access list and the phases a disclosure goes through on the wrapper's, the environment and
the directory screen; `safe` says whether the terminal is large enough, and a
resize may come between any two keys. An action stands for every row the cursor may be
on; cursors, searches and texts are left out. A refusal of `prepare_profile` that the disk
decides is a free choice, one that the draft decides is `Saveable`. `confirmed` and `last` are
history: what the confirmations in force said yes to, and the key before. The `Confirm` and
`CancelReview` of `Launch` are the ways such a review ends.

## 3. Runs

| Run | States | Checks |
|---|---|---|
| `supervised_spawn` | 215k | `NoLostSignal`, `AgentSignalCancels`, `NothingLeftBehind`, liveness `CancelledLaunchEnds` |
| `egress_proxy` | 158k | `ServedWithinLimit`, `OnePromptPerHost`, `TunnelsPermitted`, refinement `ImplementsPolicy`, liveness `NoLostWakeup` |
| `audit_log` | 583k | `OnlyTornLinesBreak`, `AckedRecordsKept`, liveness `RecordReturns` |
| `terminal_loop` | 258k | `SizesAgree`, `AnsweredOnce`, `TitlesInStep`, `BarFits`, liveness `NoticeShown`, `ResizeArrives`, `SessionEnds` |
| `terminal_filter` | finding | `FilterKeepsText` |
| `forge_store` | 82k | `PairKept`, `ReportsTrue` |
| `forge_status` | finding | `BindingHasCredential` |
| `config_store` | 1.35M | `GrantsKept`, `RemovedIsImported`, `NothingLost` |
| `config_autosave` | finding | `RestrictionsSurvive` |
| `launch` | 168k | `ProjectOnlyTightens`, `TightenedStaysTight`, `LaunchesWhatWasConfirmed`, `EnvironmentHidesSecrets`, `PortsReachTheAgent`, `ConnectionsBounded`, `MountsKeepPolicy`, `ProfileKeepsPolicy`, `PlatformsAgree`, `LayersAgree`, the action property `WritesOnlyWhenAsked`, liveness `ClientsAnswered` |
| `launch_mounts` | finding | `ReadOnlyMapsHold` |
| `review` | 4.9M | `OpenConfirmed`, `DecidedFirst`, the action properties `NoDoubleEnter`, `DecisionsHold` |

The type invariants are theorems (section 5) and no run repeats them. That of
`TerminalLoop` leaves out the flags and the scanners' places; where the parser of cursor
questions is follows from the bytes read, and is part of the invariant `Heard`. That the
families of `launch` are well formed is its assumption
`LaunchesAssumption`.

Bounds, and why they are enough for what they are for:

- `supervised_spawn`: two signals, one worker thread, three raises. Losing one
  signal needs two (the second overwrites `PENDING_SIGNAL`) and a handler on
  another thread; the third raise lets one arrive after either. Deadlock is not
  checked because the launcher exits.
- `egress_proxy`: three connections under a limit of two, one listed and one
  unlisted host. Races on a decision need an asker, a waiter and a newcomer. Only
  the listed host has private addresses of its own; the unlisted one gets them by
  the answer.
- `audit_log`: two sessions, one with two threads, three records, one of which may
  find any of five logs at start. Both locks are contended, and a torn line can
  have a successor from its own session or the other.
- `terminal_loop`: heights 1 and 3 (with and without room for the bar), reads of two
  bytes, two bytes of output and one write of input in the kernel, three events around
  the proxy, widths up to 26 (past every text of the bar). A read of two cuts
  any question or string, or joins one with a switch of the screen. The finding needs
  five events. Deadlock is not checked because the session ends.
- `forge_store`: two processes, three ids, one power loss: a rotation over what a
  failed rotation left, with a command of any kind beside it.
- `config_store`: two launches, three files, two grants. A source can be replaced
  while it is imported and that file again; with fewer files nothing is put back.
  Every step of either launch, and those between a check and its use, may have an edit before it.
- `launch`: two invocations (a save and a load of it) over some nine thousand
  first launches; nine destinations: a tree of five, one below the other, with the project
  as the second and one of them mapped from elsewhere, beside the project the repository
  of a linked worktree with what it keeps of this worktree, and apart from both the directory
  of a credential with the credential in it. That much lets a closed path lie at, above or
  beside a credential, and the credential be mapped with its directory. The home of the user is none of
  them, since Landlock's rule for it makes all below it writable. Two ports, two clients on
  each side and a limit of one, so that one connection is over it. Deadlock is not checked
  because the second invocation is the last.
- `review`: four ways to begin: the first review with and without a wrapper's requests, a
  later one whose earlier approvals meet a manifest again, and one with ssh keys and a
  broad directory. There is one flag of each risk and the token besides, one capability, one
  variable (which a request's secret carries) and two directories, one inside the other,
  so every kind of grant meets every screen. Reviews have an end, so deadlock is not checked.

Fairness. Handlers run once entered, the launch thread runs, and a killed process
dies (`SupervisedSpawn!FairSpec`): the scheduler and the kernel see to that;
nothing is assumed about signals that might be sent or a command that might
end. `ssh-add` returns, though the code gives it no deadline: its agent answers, or
dies of the signal that cancels the launch. Proxy threads run and a prompt returns by its deadline
(`prompt_verdict` passes one); clients and upstreams promise nothing, nor do
spurious wakeups. Audit threads run, and nothing is assumed of errors. Neither the
mutex nor flock is fair, so `RecordReturns` holds because finitely many
records compete for them: with an endless stream a thread could starve. The terminal
loop is scheduled, a pending signal is delivered, and the child reads its
input (`TerminalLoop!FairSpec`): the loop writes to it without a timeout, and a child
that stops reading for good stops the loop; that is a hazard. In a session, the launcher
runs on from bound ports, the wrapper starts its bridges, and accept loops and relay
threads are scheduled (`JailSession!Fairness`); nothing makes the harness end, a
bridge die or a relay finish, so `ClientsAnswered` cannot rest on them.

## 4. Findings

- `forge_status`: status reads the binding, a rotation completes, then status takes
  the lock and sweeps every credential but the old one: the new binding names a
  credential that is gone (`forge_auth.rs:473-482`).
- `config_autosave`: the auto-save writes the constraints its launch loaded earlier
  over the document's. A restriction imported in between is dropped, and its source
  is removed as already imported (`main.rs:1876-1887`, `config_store.rs:1734-1761`).
- `terminal_filter`: the filter of the primary screen is not given the bytes of a read
  that switches the screen. A control string that ends in such a read leaves the filter
  inside it, and back on the primary screen plain text is dropped up to the next
  terminator (`pty.rs:419` against 875-876).
- `launch_mounts`: a read-only map inside the project is dropped as redundant where a
  read-only map above the project shows the same files; but that one is applied before
  the project's own writable bind, so the inner directory stays writable
  (`sandbox/bwrap.rs:3701` against its comment and `landlock.rs:772-775`).

Disagreements met while modelling that no run checks; the models follow the code:

- A waiter of an unanswered prompt wakes, but a newcomer may have asked again before it
  looks; it then joins the new prompt instead of being refused (`proxy.rs:614` against the
  comment at 134-136).
- `onboarding/tui/app.rs:490`: saving from the dialog about unsaved changes may ask for the
  token's confirmation while a nested screen is up. That screen is drawn alone; the
  additional screen even hands the keys to the dialog nobody sees (1916), where
  `docs/TUI_DESIGN.md:168-170` has every confirmation visible.
- `onboarding/tui/app.rs:515`, 1288: "Save" in the dialog about unsaved changes, raised on the
  wrapper's screen, stores the earlier approvals although the draft has lost their grants
  (`docs/WRAPPER_INTEGRATION.md:134`). `DecidedFirst` therefore speaks of launches.
- The plain-text review saves a preselected token without its confirmation where the
  launch's own flags close it for this run (`docs/SECURITY.md:100-102`).
- `onboarding/tui/dialog.rs:167`: "a repeated Enter must not accidentally cross a security
  boundary"; closing the dialog about unsaved changes with Enter returns to a confirmation
  left on its consent, which the next Enter gives. `NoDoubleEnter` leaves that Enter out.
- `audit.rs:387-388`: refresh notices a truncation only while the file is shorter than its
  offset. Cut, then outgrown by another session, it is read on from the old offset, and
  the chain breaks without a torn line. Truncation is not part of `AuditLog`.
- The two windows of `ConfigStore` (`crossed`, section 2), against the comment at
  `main.rs:1928-1930`; and `config_store.rs:958`: a source the
  document's digest names is removed without syncing a document whose earlier sync failed.
- `onboarding/tui/app.rs:1020-1029`: the "Mostly open" preset can be saved, and the launch
  that saved it is then refused by `validate_network_flags` (`main.rs:1608`), where
  `docs/USER_GUIDE.md:417-418` says that saving continues into the harness.
- `sandbox/bwrap.rs:3776-3779`: an overlay of the project directory itself is applied
  before the project's writable bind, which covers it. `Prevails` leaves this case, and a
  read-only map of the project, out of what the plan promises.
- `main.rs:1675`: `--status-bar` with a browser command stores the bar as off for every
  later run, since the browser profile turned it off in the merged configuration;
  the comment at 1103-1110 describes that very effect as the reason to skip `--exec`.
- `--clean` (`cli.rs:180`, "ignore saved and legacy project policy") on a launch that
  auto-saves replaces the stored constraints by what is left without them.
- `README.md:133` says `--dry-run` never writes; `--init --dry-run` saves. A read-only
  `--status` with `--configure` runs the review and saves.
- `README.md:731` gives the command line the highest authority; stored constraints
  tighten over it, and a trusted project's layer is merged after it.
- `main.rs:550`: a review in a plain terminal leaves the forge unreviewed, although it
  is an onboarding launch.
- `main.rs:1563`: after a review the launch runs what was confirmed even where a
  legacy file's command takes precedence in the merged configuration.
- `main.rs:1677`: the global preferences are read before the lock is taken.
- `config.rs:1606` applies its rule to `agent_state_enabled()`, which reads lockdown (624-626). While
  a document has lockdown, an imported file's `agent_state = true` replaces the document's refusal
  of it; nothing is granted until an `--init` with lockdown off makes that take effect.
  `Firm` is the part of a refusal that lasts.
- `sandbox/landlock.rs:789-794`: overlays get a rule because one is "required for the feature
  to work"; the wrapper is never told of them, so an overlay outside the project, the home and
  the temporary directory cannot be written while Landlock is on.
- `README.md:255` and `docs/SECURITY.md:54` have the common directory of a linked worktree
  writable "so the agent can commit". bwrap and the macOS profile do that; Landlock's rule
  for it is read-only (`sandbox/landlock.rs:754`, a test at 1843 fixes it), which prevails
  outside the home. `SharedRepository` is this exception in `LayersAgree`.
- The wrapper is not told of audio: Landlock's rules for the sockets, without which "audio silently
  breaks" by their own comment (`sandbox/landlock.rs:885-892`), are never made. It is told that agent state is on but
  not that it is off, where `sandbox/bwrap.rs:1361-1362` has the option so that the inner rules
  "match the outer bwrap state mounts", and not of `--no-private-home`. These two leave it with agent
  state on, which grants no more than the mounts it runs inside, and with a private home, which
  withholds from the harness what the mounts share.
- `sandbox/landlock.rs:306-310` calls the bridge's port the only endpoint of a private network
  namespace; the network rules themselves may be missing under lockdown on an older kernel, and
  it is `--unshare-net` (`sandbox/bwrap.rs:331-338`) that the promise rests on.
- `sandbox/seatbelt.rs:1072-1076` grants the read of a credential again after every denial, the ones
  asked for by `--deny-path` on a directory above it included: `--docker-config` with
  `--deny-path ~/.docker` leaves the credential readable, where `README.md:671` has such paths
  "inaccessible entirely" and the mounts of Linux close them.
- `sandbox/seatbelt.rs:1768-1773`: the sources of all maps are readable under lockdown and for a
  browser too, where the same function has left them out further up, and where bwrap
  mounts none. `Readable` follows the code; `PlatformsAgree` compares reads of other launches only.
- `sandbox/bwrap.rs:362-376` unsets `SSH_AUTH_SOCK`, `DOCKER_HOST` and others before `env_args`,
  which clears everything, or with `--inherit-env` sets every variable of the host again: the
  unsets have no effect in either case, and `README.md:571` describes what happens. The comment at
  `sandbox/seatbelt.rs:204` has bwrap inherit "by omitting `--clearenv`"; bwrap starts empty.
- Under lockdown Linux passes no entry and inherits nothing (`docs/SECURITY.md:46` has entries
  added in lockdown too); on macOS entries and `--inherit-env` apply, and only `PATH` is replaced
  (`sandbox/seatbelt.rs:196-245`, which says it filters identically). `LockedNamesNothing` is therefore about Linux.
- `README.md:806` has `--ssh` share the ambient agent. On macOS no variable names it to the
  harness unless it is passed or everything is inherited; `SocketsNamed` is about Linux.
- `sandbox/seatbelt.rs:466-469` denies masks both ways because a file that cannot be read could
  be overwritten blindly; the hidden dotfiles of the home are denied for reading only.
- `main.rs:798`: where nobody can be asked, a browser command of a legacy file is settled as
  if the user had named it, against the comment at 124-132.

`ProjectOnlyTightens` has the last one, a browser the user chose or is taken to have chosen, as
its one exception (`Opens`).

## 5. Proofs

Each `*Proofs` module proves, for every value of the constants that satisfies the
named assumptions, that the safety invariants of the run hold. The shape is always
`Init => IInv`, `IInv /\ [Next]_vars => IInv'`, `IInv => Inv`, then PTL.
The invariants TLC checks are not inductive; the strengthenings say why they hold.

- `SupervisedSpawnProofs`: `PendingRemembers` (a stored signal stays visible to
  the launch or was sent), `SandboxRegistered`, `HandlersAimed` (a handler past its
  load aims at a registered child), `GateOrder`, `AgentOrder` (the agent's directory goes after
  the agent). Theorems
  `SignalsReachTheCommand`, `AgentSignalsCancel`, `ExitsClean`.
- `EgressProxyProofs`: `Counted` (the counter is the number of live handlers and
  those not refused fit the limit; cardinalities by lemmas), `Askers` (a pending
  marker has exactly one asker), `VerdictsCurrent` (a verdict carried to the dial is
  the decision of now, as decisions never change once settled), `TunnelOwners`.
  `LimitHolds`, `PromptsAreSingle`, `TunnelsStayPermitted`, and `RefinesPolicy`: every
  step is a step of the abstract policy or stutters.
- `AuditLogProofs`: `HandleTrue` (what a handle remembers of the file up to its
  offset is so), `Locks`, `Entries`, `Placed`, `Chained`, `Kept`, `Writing` (the part of
  an entry in the file and the part pending make up the entry), `LinesOrdered`. Theorems
  `OnlyTornLinesBreakTheChain`, `AckedRecordsStay`.
- `ForgeStoreProofs`: `Locked`, `Commands`, `Drawn` (an id drawn is nowhere before it
  is written), `Rotating` (what a rotation has achieved at each point), `Removing`.
  Theorems `PairsAreKept`, `ReportsAreTrue`.
- `ConfigStoreProofs`: `Locked`, `Copied` (what is written was made of the document of
  now), `Importing` (what an import has read, written and set aside at each point),
  `Masked`. Theorems `GrantsAreKept`, `OnlyImportsAreRemoved`, `NoFileIsLost`.
- `TerminalLoopProofs`: `SizesByPoint` (what agrees at each point of the loop, and that
  a flag or a pending signal stands for what does not yet), `Owing` (a question is
  owed only between its read and its answer), `SameBytes` (parser and title forwarder have
  been given the same bytes). `SizesStayInStep`, `QuestionsAreAnswered`,
  `TitlesStayInStep`, `ProxyIsTyped`; `BarAlwaysFits` is arithmetic over all widths, by `RowFits`.
  With raw output the terminal answers too, and a repaint may have put it back to the ground while
  the parser is inside a string or a question. `Shadow` goes through the bytes: such a
  terminal is always where the parser is or on the ground, as the child's output is
  `WellFormed`, so it meets no question the parser does not (`FewerQuestions`). `Heard` says
  that of every read, and that a read the terminal will get has its questions counted.
  Theorem `AnsweredExactlyOnce`.
- `JailSessionProofs` proves what `SessionInvariants` defines. First part: no state. Every operator keeps configurations well formed.
  `ProjectMergeTightens` and `ProjectRefusalsHold` hold of the project merge of any two
  configurations; the lemmas that follow carry them through the command, the browser
  profile, the review's grants and the defaults (`EffectiveKeepsTrusted`,
  `NonInteractiveKeepsTrusted`). `PlansKeepPolicy` is about the plan of any configuration
  over any tree: a closed path is in the last group; whatever covers a read-only
  map in a later group is the project's bind, excluded by `Prevails`; and of nested
  redundant maps the shallowest (`Least` over finite depths) is retained with the same access.
  `WalkRetainsExtraMounts` goes along the sorted list: `Walked` says that after any number of
  mounts, the nearest one retained above a place shows what the nearest one listed would.
- `JailSessionProofs`, second part: `SessionOK` is inductive. Its parts are `LaunchOK` (every layer is
  sound, and what each point has decided), `AsConfirmed` (between the review and the
  spawn, the configuration is the confirmed one, and the forge was compared), `Listening`
  (the ports held are those of the finalized configuration), `PortControl` (who may
  have called a publish's socket before the wrapper became the agent), `LinksOK` and
  `CountsOK` (a counter is the number of its relays and of the connection over the limit).
  From it `TypeCorrect`, `ConfirmedIsWhatRuns`, `BridgesComeFirst`, `RelaysAreBounded`.
  `Tightening` adds what the review hands on, for `ProjectsOnlyTighten`.
  `BrowserShut` (a browser's launch has given up the worktree, on every path), with
  `PlansKeepPolicy`, gives `PlansHold`.
- `JailSessionProofs`, third part: the other layers, again about any configuration. `LastRuleDecides`
  reduces a profile to its three rules, and by `ListedAreCovered` the dropping of redundant maps
  leaves no path of theirs without a mount; so where profile and plan differ, it is at
  a configuration `Alike` leaves out. `PlatformsAlwaysAgree` needs
  `BrowserShut` besides: a finalized configuration is `Fitted`, that is, a browser's has given up
  the worktree, and every credential the profile grants again is one of the maps. For
  `LayersAlwaysAgree`, `InnerFields` computes each field through the wrapper's options and back
  through the merge, `InnerGrants` goes through the senses an option may be given in,
  `InnerIsUntold` through what is not given, and `LockedWhole` through the kernels.
- `JailSessionProofs`, fourth part: what is stored. `Asking` says which modes an invocation can have
  at each point, `Obedient` that the command line's `--no-save-config` is the configuration's
  wherever it is asked; for that a document must never hold the flag (`ConstraintsAreCleared`).
  Theorem `WrittenWhenAsked`. For `RefusalsStay` the merge is looked at from the project's side
  (`MergeTakesRefusals`, `MergeKeepsFirm`): `Rooted` says that what was refused is in the document,
  across saves, imports and invocations, and in the layers read from it; `Denied` that
  every configuration made of those grants none of it, nor will once a browser lifts
  lockdown. Proving it corrected `Refusals`, which had counted what lockdown only holds
  off; the launches in which that differs (`SavedLaunches`) are now part of the run.
- `JailSessionProofs`, fifth part: the environment. `LastGiving` says of any list of entries that the
  last one that gives a variable something decides, which needs no induction: the filtered
  lists (`DedupEnv`, `Without`) are `Picked` at a set of indices, in the order of their
  `Rank`. So the removal of duplicates changes no value, and the merged layers
  `Agree` with the layers joined in order, through every merge, profile and default
  (`EffectiveSays`, `SelectionSays`, `ApprovedSays`). `Saying` is the invariant of the layers and the
  review, `Resolving` that of the configuration in hand and of the finalized one, which is
  also `Hidden`: every bound key has a placeholder, and a selected key closes the agent's socket.
  `LinuxHolds` and `MacHolds` follow the variables of a hidden configuration through both
  platforms. Theorem `SecretsStayHidden`. Proving it corrected three statements that TLC's
  families had not reached. `EntriesResolve` had counted the entries of a trusted file where a
  skipped review leaves only the command line's (`FileEnvLaunches` is part of the run now). The
  placeholders of lockdown stand over the proxy's variables in the code, and stood below
  them in the model. And `ForcedHold` had a placeholder for a variable the launcher sets itself.
- `ReviewProofs`: `Types` adds to the type invariant what a confirmation and a disclosure are
  about, by screen. `AllSure`: every OPEN grant of the draft is confirmed, or is the token the
  developer preset turned on and saving will still ask about; every approval that waits to be
  applied was confirmed too. The step rests on `GainedSure`, which bounds what an action may add
  to the draft. `RequestsOK`: the requests are left once, decided, and until then the draft
  stays without what earlier approvals granted. `Unarmed`: after an Enter no confirmation stands on
  its consent where the next one would reach it, and the screens that hide the
  dialog leave it on Cancel. Theorems `SavedIsConfirmed`, `RepeatedEnterConsentsToNothing`,
  `RequestsComeFirst`, `WithdrawnStaysOut`: all the properties of the run `review`.

The assumptions are `CommandsAssumption` (no agent is a browser), `MapsAssumption` and
`TreeAssumption` (destinations are a tree), `CredentialAssumption` (a credential is one of them), `LayersAssumption` (the
directory of a worktree lies in its repository), `PortsAssumption`, `PortsNamed`,
`SelectionAssumption` and `ReviewAssumption` (what the choices and requests of a review are),
`LaunchesAssumption` (layers have the types of the code), `LaunchBound`, the typing of the other
modules' constants, names that differ, bounds that are naturals, and sessions that own threads.
TLC evaluates each on the instance of a run.

The theorems of the library about induction take an operator as a parameter, which no prover
here can instantiate. Induction is done with sets instead: `Least` (from the library's theorem that
finite sets are well founded under inclusion) gives `Inductive`, that a set of naturals which
holds 0 and with every number the next is `Nat`. With it a recursive function is
shown to exist and to compute what its definition says (`AlongIs`, `WalkIs`), and then what that does
to any input.

Three traits of tlapm 1.4.5 shaped the text. Its SMT translation decides `{a} \cap {b}` of two
enumerated sets by comparing the expressions `a` and `b`, and proves too much where two
expressions have one value: no assumption or invariant intersects enumerations of
expressions, and all the proofs were checked once more with `\cap` written out as a
comprehension. A string literal is not known to be a `STRING` unless an assumption says so,
so `Entry` allows `FromHost` by name. And `@@` of the module TLC cannot be expanded.

Every invariant and every safety action property a run checks is a theorem too. Only
model-checked: the liveness properties (`CancelledLaunchEnds`, `NoLostWakeup`,
`RecordReturns`, `NoticeShown`, `ResizeArrives`, `SessionEnds`, `ClientsAnswered`; fairness is
beyond this prover) and the violations of section 4.

## 6. Plan

The order in which the models were built was: signals and the gated spawn, the proxy, the
two stores and the log; then the terminal, the policy layers with the launch that uses them,
the ports, the mounts, the screens of the review, and last the macOS profile and the layers
inside the mounts. The composition `JailSession` joins launch, policy, plans and ports. What could follow, most useful first:

1. The lookup of `github_auth.rs`, the same shape as the start of the agent: one child, a pipe
   and a deadline.
2. The rest of the plan: missing destinations, the dotfiles of the home, and the mounts of
   sockets and devices in `sandbox/bwrap.rs`.
3. `Review` composed with `Launch`, its `Confirm` as the abstract specification; the
   review in a plain terminal (`run_sequential`, `review_wrapper_requests`) as a second
   front end over `AccessSelection` that must keep `OpenConfirmed`.
4. `ForgeStore` extended by a launch that reads the pair, and by token expiry;
   `ConfigStore` by the global document and power loss; `AuditLog` by truncation.
5. The safety half of the liveness properties as theorems: that from every state of the invariant
   the step they wait for stays possible.

## 7. Not modelled

The map covers about a tenth of the repository's Rust lines. Roughly half of the rest is unit
tests, which stand inside the source files; the larger part of what remains is parsing, argument
lists, tables, text and drawing, where there is no state to go wrong between steps.

- Sandbox planning beyond the mounts, rules and variables above: base system, dotfiles, the mounts
  of sockets and devices, the rest of the macOS profile. A plan is a value; its long lists are facts
  about file systems that a model could only repeat.
- The rest of `landlock.rs` (dotfiles, sockets, devices), `seccomp.rs`, `rlimits.rs`: tables for
  one-shot system calls in the child whose effect is the kernel's. `PortBridge` has their
  failure as an end of the wrapper.
- `cli.rs`, `command.rs`, `output.rs`, the views of `onboarding/tui`,
  `authority_inventory.rs`, `secrets.rs`, macOS shims: no state or one value.
- `bootstrap.rs` and the file helpers: one write and rename for an explicit option; the same
  write is a step of the stores. `github_auth.rs`: one child with a deadline whose
  result is optional.
- The review in a plain terminal, and in the full one: cursors, searches, text fields,
  directories that cannot be read or are symbolic links, one directory requested in both
  modes, a policy under review that the launch's own arguments change.
- Hazards no property covers, since the models have neither the power loss nor a child that
  never reads: `config_store.rs:958` (where the earlier write of the document failed in its
  sync, a power loss takes it together with the source removed meanwhile) and `pty.rs:595` (a
  child that stops reading stops the loop).
- In the modelled components: reuse of pids, SIGKILL of the launcher, exhaustion of
  threads, the test-only `danger_allow_private` and TLS termination in the proxy, the fields of
  audit entries, a verify that overlaps an append, the forge's own answers and the
  tokens of a launch, directory grants and symbolic links in the policy store, the text
  and colours of the bar, the wrapper's launchers and several harnesses in one run, path
  normalisation, missing paths, and two maps of one destination.
