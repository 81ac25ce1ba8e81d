---------------------------- MODULE AccessSelection ----------------------------
(***************************************************************************)
(* The draft an access review edits (Selection in src/onboarding.rs), as   *)
(* the set of what it grants, and the operations both front ends share.    *)
(* A grant is a pair of its kind and its value; kinds that every operation *)
(* treats alike are values of one kind here.                               *)
(***************************************************************************)
EXTENDS FiniteSets

CONSTANTS
    AllowedFlags,  \* choices of the access list that widen nothing important
    OpenFlags,     \* choices of the access list behind a confirmation
    PresetOpen,    \* those of them that "Mostly open" turns on
    Extras,        \* additional capabilities
    OpenExtras,    \* those of them behind a confirmation
    EnvNames,      \* environment variables a person may share
    UnsetNames,    \* those of them without a value on this host
    Dirs,          \* directories that may be shared
    BroadDirs,     \* those that hold the home or the project
    Nested,        \* pairs of directories, one inside the other
    Keys,          \* ssh identities
    Requests       \* grants the wrapper's manifest asks for

Grants(kind, values) == {kind} \X values
Ssh == <<"flag", "ssh">>
Github == <<"flag", "github">>
Destinations == <<"ssh", "destinations">>
RestrictedSsh == Grants("key", Keys) \union {Destinations}
DirGrants(d) == {<<"ro", d>>, <<"rw", d>>}
EveryDir == {"ro", "rw"} \X Dirs

Items ==
    Grants("flag", AllowedFlags \union OpenFlags) \union Grants("extra", Extras)
      \union Grants("env", EnvNames) \union EveryDir \union RestrictedSsh \union Requests

\* Risk::Open, by kind.
OpenItems ==
    Grants("flag", OpenFlags) \union Grants("extra", OpenExtras)
      \union {i \in Items : i[1] \in {"env", "secret", "private_host"}}
      \union {i \in EveryDir : i[2] \in BroadDirs}

ASSUME SelectionAssumption ==
    /\ {"ssh", "github"} \subseteq OpenFlags /\ PresetOpen \subseteq OpenFlags
    /\ "github" \in PresetOpen
    /\ AllowedFlags \intersect OpenFlags = {} /\ OpenExtras \subseteq Extras
    /\ UnsetNames \subseteq EnvNames /\ BroadDirs \subseteq Dirs /\ Nested \subseteq Dirs \X Dirs
    /\ Requests \subseteq {"host", "private_host"} \X {"service"} \union
         {"env", "secret"} \X EnvNames \union EveryDir \union {<<"flag", "agent_state">>}
    /\ "agent_state" \in AllowedFlags
    /\ \A d \in Dirs : ~(DirGrants(d) \subseteq Requests)

\* A secret also shares the variable that carries it.
Carries(i) == IF i[1] = "secret" THEN {i, <<"env", i[2]>>} ELSE {i}

\* prepare_env_candidate and the overlap check of prepare_directory_candidate.
Prepares(s, i) ==
    /\ i[1] \in {"env", "secret"} => i[2] \notin UnsetNames
    /\ i[1] \in {"ro", "rw"} => \A j \in s \intersect EveryDir :
                                   {<<i[2], j[2]>>, <<j[2], i[2]>>} \intersect Nested = {}

\* A directory is shared in one mode; any other grant is added.
ApplyAll(s, new) ==
    (s \ UNION {DirGrants(i[2]) : i \in new \intersect EveryDir}) \union UNION {Carries(i) : i \in new}
Apply(s, i) == ApplyAll(s, {i})

\* Variant: the variable of a secret is left.
RevokeNames(s, approvals) ==
    s \ (approvals \union UNION {DirGrants(i[2]) : i \in approvals \intersect EveryDir})

\* The grants of earlier approvals.  A directory that is not found under its
\* name takes every directory with it.
Revoke(s, approvals) ==
    LET dirs == approvals \intersect EveryDir
        found == UNION {DirGrants(i[2]) : i \in dirs}
        lost == \E i \in dirs : DirGrants(i[2]) \intersect s = {}
    IN  (s \ UNION {Carries(i) : i \in approvals}) \ (IF lost THEN EveryDir ELSE found)

\* The host's agent and selected keys exclude each other, the last choice wins.
Enable(s, f) == (IF f = "ssh" THEN s \ RestrictedSsh ELSE s) \union {<<"flag", f>>}
WithKeys(s, keys, dests) ==
    IF keys = {} THEN s \ RestrictedSsh
    ELSE (s \ (RestrictedSsh \union {Ssh})) \union Grants("key", keys)
           \union (IF dests THEN {Destinations} ELSE {})
KeysOf(s) == {k \in Keys : <<"key", k>> \in s}

Preset(p) ==
    CASE p = "closed" -> {}
      [] p = "developer" -> Grants("flag", AllowedFlags) \union {Github}
      [] p = "mostly_open" -> Grants("flag", AllowedFlags \union PresetOpen)

\* What prepare_profile refuses whatever the launch adds.
Saveable(s) ==
    /\ KeysOf(s) # {} => Destinations \in s
    /\ \A n \in UnsetNames : <<"env", n>> \notin s
================================================================================
