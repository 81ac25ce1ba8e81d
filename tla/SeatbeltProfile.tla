---------------------------- MODULE SeatbeltProfile ----------------------------
(***************************************************************************)
(* The same policy on macOS, where nothing is mounted: the rules of the    *)
(* Seatbelt profile for the project and for the directories the            *)
(* configuration names (generate_sbpl_profile_for_tty in                   *)
(* src/sandbox/seatbelt.rs).  A map is a path here.  The rules are read in *)
(* order and the last that names a path decides; what no rule names is     *)
(* denied.                                                                 *)
(***************************************************************************)
EXTENDS MountPlan

(* prepare_seatbelt_maps refuses a map that goes to another place.         *)
ProfileFits(c) == c.ro \cup c.rw \subseteq SamePath

\* An overlay that goes to another place names no path, and is skipped.
Overlays(c) == c.overlay \cap SamePath

(* macos_read_paths: the sources of all maps, under lockdown too.          *)
ReadPaths(c) == {ProjectDir} \cup WorktreePaths(c) \cup Overlays(c) \cup c.rw \cup c.ro

\* The repository of a linked worktree left out.
WritableHere(c) == IF Shut(c) THEN {} ELSE {ProjectDir} \cup c.rw

(* macos_writable_paths: no map under lockdown or for a browser.           *)
WritablePaths(c) ==
    IF Shut(c) THEN {} ELSE {ProjectDir} \cup WorktreePaths(c) \cup c.rw

WriteDenied(c) == Closed(c) \cup c.ro \cup Overlays(c)

\* A credential shows what it holds although a path above or below is closed.
Reopened(c) == CredentialPaths(c) \ Closed(c)

\* Denying what was closed before the grants, which then prevail.
DenyFirst(granted, denied, reopened) ==
    << [verdict |-> "deny", paths |-> denied],
       [verdict |-> "allow", paths |-> granted \cup reopened] >>

\* Grants before denials, and what is granted in spite of them.
Rules(granted, denied, reopened) ==
    << [verdict |-> "allow", paths |-> granted], [verdict |-> "deny", paths |-> denied],
       [verdict |-> "allow", paths |-> reopened] >>

Names(rule, p) == \E d \in rule.paths : AtOrBelow(p, d)

Allows(rules, p) ==
    \E i \in DOMAIN rules :
        /\ rules[i].verdict = "allow" /\ Names(rules[i], p)
        /\ \A j \in DOMAIN rules : j > i => ~Names(rules[j], p)

\* Every credential after the denials, the ones that are closed themselves too.
ReopenAll(c) == Rules(ReadPaths(c), Closed(c), CredentialPaths(c))

(* push_file_read_section and push_file_write_section                      *)
ReadRules(c) == Rules(ReadPaths(c), Closed(c), Reopened(c))
WriteRules(c) == Rules(WritablePaths(c), WriteDenied(c), {})

Readable(c, p) == Allows(ReadRules(c), p)
Writable(c, p) == Allows(WriteRules(c), p)

\* At or below a path that is closed; and where no credential opens it again.
Shuts(c, p) == \E d \in Closed(c) : AtOrBelow(p, d)
Opened(c, p) == \E d \in Reopened(c) : AtOrBelow(p, d)

(***************************************************************************)
(* Where the plan of the mounts and the profile say the same.  They differ *)
(* in a writable map that touches a read-only one, which only the mounts   *)
(* drop as a whole; in a read-only map or an overlay of what holds the     *)
(* project, which only the profile lets prevail over it; and in what goes  *)
(* to another place.  What they let the harness read differs too where a   *)
(* credential that is on touches a closed path, which only the mounts keep *)
(* closed.                                                                 *)
(***************************************************************************)
Alike(c) ==
    /\ c.ro \cup c.rw \cup c.overlay \subseteq SamePath
    /\ \A m \in c.rw, n \in c.ro : <<m, n>> \notin Overlap
    /\ \A d \in c.ro \cup c.overlay : ~AtOrBelow(ProjectDir, d)

WritesAlike(c, p) == Writable(c, p) <=> \E b \in Top(c, p) : b.access = "rw"

ReadsAlike(c, p) ==
    ~(Shuts(c, p) /\ Opened(c, p)) =>
        (Readable(c, p) <=> \E b \in Top(c, p) : b.access # "closed")
================================================================================
