-------------------------------- MODULE MountPlan -------------------------------
(***************************************************************************)
(* The mounts of the sandbox that decide what the harness may do to the    *)
(* project and to the directories the configuration names:                 *)
(* discover_mounts_full in src/sandbox/bwrap.rs and what it calls.  bwrap  *)
(* applies mounts in order and the later one wins, so a plan is a set of   *)
(* mounts, each with its turn.                                             *)
(*                                                                         *)
(* A map stands for its destination, and two maps have two destinations.   *)
(* Every path a map names exists.                                          *)
(***************************************************************************)
EXTENDS PolicyMerge

CONSTANTS
    Depth,         \* Depth[m]: the components of m's destination
    SamePath,      \* the maps whose source is their destination
    ProjectDir,    \* the map of the project's own directory
    Worktree       \* what a linked worktree shares with its repository, or NoWorktree

NoWorktree == "no worktree"

AtOrBelow(m, n) == <<m, n>> \in Overlap /\ Depth[n] <= Depth[m]

\* Destinations form a tree.
ASSUME TreeAssumption ==
    /\ Depth \in [Maps -> Nat]
    /\ SamePath \subseteq Maps /\ ProjectDir \in SamePath
    /\ \A f \in DOMAIN Credential : Credential[f] \in SamePath
    /\ Worktree \in SamePath \cup {NoWorktree}
    /\ \A m \in Maps : <<m, m>> \in Overlap
    /\ \A m, n \in Maps : <<m, n>> \in Overlap /\ m # n => Depth[m] # Depth[n]
    /\ \A m, n, o \in Maps :
        AtOrBelow(m, n) => /\ AtOrBelow(m, o) => <<n, o>> \in Overlap
                           /\ AtOrBelow(n, o) => AtOrBelow(m, o)
    /\ \A m \in Inside : AtOrBelow(m, ProjectDir)

(* split_by_project: a map of the project itself is not inside it. *)
InProject(m) == AtOrBelow(m, ProjectDir) /\ m # ProjectDir

\* lockdown, or the profile of a browser: nothing on the host is written.
Shut(c) == Lockdown(c) \/ BrowserProfile(c)

(***************************************************************************)
(* extra_mounts_with_check.                                                *)
(***************************************************************************)
Gives(access, maps) == {[dest |-> m, access |-> access] : m \in maps}

\* A writable map that touches a read-only one is dropped.
Listed(c) ==
    Gives("ro", c.ro)
    \cup Gives("rw", {m \in c.rw : \A n \in c.ro : <<m, n>> \notin Overlap})

\* The list's mounts that hold b's destination: those above it.
Above(b, list) == {a \in list : a.dest # b.dest /\ AtOrBelow(b.dest, a.dest)}

(* A bind of a path on itself is left out where the nearest mount above it *)
(* already shows the same files with the same access.                      *)
Redundant(b, list) ==
    /\ b.dest \in SamePath
    /\ \E a \in Above(b, list) :
        /\ a.dest \in SamePath /\ a.access = b.access
        /\ \A other \in Above(b, list) : Depth[other.dest] <= Depth[a.dest]

ExtraMounts(c) == {b \in Listed(c) : ~Redundant(b, Listed(c))}

(* As the code finds them: it walks a list of them sorted by depth, keeps   *)
(* the places of those it retains, and asks the last of these above b.      *)
InOrder(list) ==
    \A i, j \in DOMAIN list : i < j => Depth[list[i].dest] <= Depth[list[j].dest]

LeftOut(list, kept, i) ==
    /\ list[i].dest \in SamePath
    /\ \E k \in kept :
        /\ AtOrBelow(list[i].dest, list[k].dest)
        /\ \A j \in kept : AtOrBelow(list[i].dest, list[j].dest) => j <= k
        /\ list[k].dest \in SamePath /\ list[k].access = list[i].access

Walk(list) ==
    LET kept[i \in 0..Len(list)] ==
            IF i = 0 THEN {}
            ELSE kept[i - 1] \cup (IF LeftOut(list, kept[i - 1], i) THEN {} ELSE {i})
    IN  kept

Retained(list) == {list[k] : k \in Walk(list)[Len(list)]}

(***************************************************************************)
(* The plan.                                                               *)
(***************************************************************************)
(* ordered_mounts *)
Turn == [git_worktree |-> 1, extra |-> 2, overlay |-> 3, project |-> 4,
         extra_inside |-> 5, overlay_inside |-> 6, closed |-> 7]

Placed(binds, group) == {[dest |-> b.dest, access |-> b.access, turn |-> Turn[group]] : b \in binds}

\* Every map before the project's own bind, which then shadows those in it.
AllBeforeProject(binds, outside, inside) == Placed(binds, outside)

\* What discover_mounts_full makes of the maps and overlays, each split in two.
Split(binds, outside, inside) ==
    Placed({b \in binds : ~InProject(b.dest)}, outside)
    \cup Placed({b \in binds : InProject(b.dest)}, inside)

WorktreePaths(c) ==
    IF "no_worktree" \in c.no /\ Worktree # NoWorktree THEN {Worktree} ELSE {}

WorktreeMounts(c) == Gives(IF Lockdown(c) THEN "ro" ELSE "rw", WorktreePaths(c))

\* Masked and denied paths, but for those at or below an exception.
Closed(c) == {d \in c.closed : \A e \in c.exceptions : ~AtOrBelow(d, e)}

Mounts(c) ==
    Placed(WorktreeMounts(c), "git_worktree")
    \cup (IF Shut(c) THEN {} ELSE Split(ExtraMounts(c), "extra", "extra_inside"))
    \cup (IF Shut(c) THEN {} ELSE Split(Gives("copy", c.overlay), "overlay", "overlay_inside"))
    \cup Placed(Gives(IF Shut(c) THEN "ro" ELSE "rw", {ProjectDir}), "project")
    \cup Placed(Gives("closed", Closed(c)), "closed")

(* overlay_mounts refuses two overlays that share a subtree. *)
PlanFits(c) ==
    Shut(c) \/ \A m, n \in c.overlay : m # n => <<m, n>> \notin Overlap

(***************************************************************************)
(* What the harness finds at a path.                                       *)
(***************************************************************************)
\* Within a group the mounts are sorted by depth, or do not overlap.
After(a, b) == a.turn > b.turn \/ (a.turn = b.turn /\ Depth[a.dest] > Depth[b.dest])

Covering(c, p) == {b \in Mounts(c) : AtOrBelow(p, b.dest)}

Top(c, p) == {b \in Covering(c, p) : \A a \in Covering(c, p) : ~After(a, b)}

(***************************************************************************)
(* What a plan promises for a path.                                        *)
(***************************************************************************)
ClosedStaysClosed(c, p) ==
    (\E d \in Closed(c) : AtOrBelow(p, d)) => \A b \in Top(c, p) : b.access = "closed"

ShutWritesNothing(c, p) == Shut(c) => \A b \in Top(c, p) : b.access # "rw"

\* The project's own bind wins over a map of the project or of what holds it.
Prevails(d, p) == InProject(d) \/ ~AtOrBelow(p, ProjectDir)

Keeps(maps, c, p) ==
    (\E d \in maps : AtOrBelow(p, d) /\ Prevails(d, p)) =>
        \A b \in Top(c, p) : b.access # "rw"

\* No read-only map holds the whole project.
ProjectNotMapped(c) == \A d \in c.ro : ~AtOrBelow(ProjectDir, d)

\* A map shows its source, unless something else was asked for the same place.
ShowsItsSource(c, p) ==
    \A b \in Listed(c) :
        ( /\ b.dest = p /\ p # ProjectDir /\ ~Shut(c)
          /\ \A d \in Closed(c) \cup c.overlay : ~AtOrBelow(p, d) ) =>
            \A a \in Top(c, p) : a.dest = p \/ {a.dest, p} \subseteq SamePath
================================================================================
