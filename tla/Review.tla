-------------------------------- MODULE Review ---------------------------------
(***************************************************************************)
(* The screens of the access review (App in src/onboarding/tui/app.rs):    *)
(* one action for what a key does on the screen that takes it, a resize of *)
(* the terminal between any two keys.  Enter and Space are "enter" here,   *)
(* every other key and a resize "other", and a key that closes the dialog  *)
(* about unsaved changes "exit"; a key that changes only a cursor, a       *)
(* search or a message changes nothing.  An action stands for every row    *)
(* the cursor may be on.                                                   *)
(***************************************************************************)
EXTENDS AccessSelection

CONSTANTS
    Reviews,       \* what a review begins with: the grants of the stored policy, the
                   \* approvals, whether it is the first, and the wrapper's requests
    ConfigureOnly  \* `ai-jail configure`: nothing is launched

ASSUME ReviewAssumption ==
    /\ ConfigureOnly \in BOOLEAN
    /\ Reviews \subseteq [sel : SUBSET Items, approved : SUBSET Requests,
                          first : BOOLEAN, requests : SUBSET Requests]
    /\ \A r \in Reviews : r.first => r.sel = {} /\ r.approved = {}

VARIABLES
    start,      \* the draft and the approvals the review began with
    screen,     \* the screen that takes the keys
    safe,       \* the terminal is large enough
    exit,       \* the dialog about unsaved changes is up
    dialog,     \* the confirmation of the access and the additional screen
    asking,     \* the disclosure of a request, a variable or a directory
    sel,        \* the draft
    approved,   \* the approvals that would be saved with it
    decisions,  \* what was decided of each request
    dests,      \* the ssh editor has destinations
    githubOk,   \* the github token need not be confirmed when saving
    end,        \* how the review ended
    confirmed,  \* history: what the confirmations in force said yes to
    last        \* history: the last event, "enter", "exit" or "other"

inputs == <<start, safe>>
draft == <<sel, approved, decisions, dests, githubOk>>
vars == <<start, screen, safe, exit, dialog, asking, draft, end, confirmed, last>>

Screens == {"wrapper", "access", "ssh", "environment", "directory", "additional"}
NoItem == <<"none", "none">>
NoDialog == [kind |-> "none", item |-> NoItem, confirm |-> FALSE, only |-> FALSE]
\* Variant: the dialog opens on its consent.
DialogConsents(kind, i, only) == [kind |-> kind, item |-> i, confirm |-> TRUE, only |-> only]
Dialog(kind, i, only) == [kind |-> kind, item |-> i, confirm |-> FALSE, only |-> only]
NotAsking == [phase |-> "none", item |-> NoItem, confirm |-> FALSE, read |-> FALSE]

\* What a confirmation of a grant says yes to: read and write includes reading.
Covers(i) == IF i[1] = "rw" THEN DirGrants(i[2]) ELSE Carries(i)

Begin(r) ==
    LET begin == IF r.first THEN Preset("developer") ELSE r.sel
    IN  /\ start = [r EXCEPT !.sel = begin]
        /\ sel = IF r.requests = {} THEN begin ELSE Revoke(begin, r.approved)
        /\ screen = IF r.requests = {} THEN "access" ELSE "wrapper"
        /\ approved = r.approved /\ decisions = [q \in r.requests |-> "none"]
        /\ githubOk = (Github \in r.sel)
        /\ confirmed = UNION {Covers(i) : i \in r.sel \intersect OpenItems}
        /\ safe = TRUE /\ exit = FALSE /\ dialog = NoDialog /\ asking = NotAsking
        /\ dests = FALSE /\ end = "open" /\ last = "other"

Init == \E r \in Reviews : Begin(r)

(***************************************************************************)
(* Leaving and saving.                                                     *)
(***************************************************************************)
HasUnsavedChanges == start.first \/ sel # start.sel \/ approved # start.approved

RequestExit ==
    /\ IF HasUnsavedChanges THEN exit' = TRUE /\ UNCHANGED end
                            ELSE end' = "cancelled" /\ UNCHANGED exit

\* prepare_profile may also be refused by what the disk has become.
PrepareSave(only) ==
    \/ Saveable(sel) /\ end' = IF ConfigureOnly \/ only THEN "saved" ELSE "launched"
    \/ UNCHANGED end

RequestSave(only) ==
    IF Github \in sel /\ ~githubOk
    THEN dialog' = Dialog("github", Github, only) /\ UNCHANGED end
    ELSE PrepareSave(only) /\ UNCHANGED dialog

Press(key) == last' = key
PressAny == last' \in {"enter", "other"}
Reviewing == end = "open"
\* A key reaches a screen when no exit dialog is up and the terminal is large.
OnScreen(s) == Reviewing /\ ~exit /\ safe /\ screen = s

\* Enter takes the choice the dialog is on; Esc, d and s have one of their own.
ExitKeep ==
    /\ Reviewing /\ exit /\ exit' = FALSE
    /\ Press("exit") /\ UNCHANGED <<inputs, screen, dialog, asking, draft, end>>

ExitDiscard ==
    /\ Reviewing /\ exit /\ exit' = FALSE /\ end' = "cancelled"
    /\ Press("exit") /\ UNCHANGED <<inputs, screen, dialog, asking, draft>>

ExitSave ==
    /\ Reviewing /\ exit /\ exit' = FALSE /\ RequestSave(TRUE)
    /\ Press("exit") /\ UNCHANGED <<inputs, screen, asking, draft>>

\* A disclosure that fitted may have to be scrolled now, or the other way round.
Resize ==
    /\ Reviewing /\ safe' = ~safe
    /\ IF asking = NotAsking THEN UNCHANGED asking
       ELSE \E fits \in BOOLEAN : asking' = [asking EXCEPT !.read = fits]
    /\ Press("other") /\ UNCHANGED <<start, screen, exit, dialog, draft, end>>

UnsafeExit ==
    /\ Reviewing /\ ~exit /\ ~safe /\ RequestExit
    /\ Press("other") /\ UNCHANGED <<inputs, screen, dialog, asking, draft>>

\* A variant that leaves the wrapper's requests too.
UnsafeBackAnywhere ==
    /\ Reviewing /\ ~exit /\ ~safe /\ screen # "access"
    /\ screen' = "access" /\ asking' = NotAsking
    /\ Press("other") /\ UNCHANGED <<inputs, exit, dialog, draft, end>>

UnsafeBack ==
    /\ Reviewing /\ ~exit /\ ~safe /\ screen \notin {"wrapper", "access"}
    /\ screen' = "access" /\ asking' = NotAsking
    /\ Press("other") /\ UNCHANGED <<inputs, exit, dialog, draft, end>>

\* q, which no text field takes and no dialog of the same screen.
Exit ==
    /\ Reviewing /\ ~exit /\ safe /\ RequestExit
    /\ screen = "additional" => dialog = NoDialog
    /\ screen = "wrapper" => asking = NotAsking
    /\ Press("other") /\ UNCHANGED <<inputs, screen, dialog, asking, draft>>

(***************************************************************************)
(* Disclosures: the phases that the wrapper, the environment and the       *)
(* directory screen have in common.                                        *)
(***************************************************************************)
Asking(phase) == asking.phase = phase /\ OnScreen(screen) /\ screen \in {"wrapper", "environment", "directory"}
Ask(phase, i) == \E fits \in BOOLEAN :
    asking' = [phase |-> phase, item |-> i, confirm |-> FALSE, read |-> fits]

Scroll ==
    /\ Asking(asking.phase) /\ asking # NotAsking /\ asking' = [asking EXCEPT !.read = ~@]
    /\ Press("other") /\ UNCHANGED <<inputs, screen, exit, dialog, draft, end>>

\* "Review through the final disclosure line before approval."
EnterRefused ==
    /\ Reviewing /\ ~exit
    /\ ~safe \/ (asking # NotAsking /\ ~asking.read /\ (asking.phase = "confirm" => asking.confirm))
    /\ PressAny /\ UNCHANGED <<inputs, screen, exit, dialog, asking, draft, end>>

ShowConfirmation ==
    /\ Asking("preview") /\ asking.read /\ Ask("confirm", asking.item)
    /\ Press("enter") /\ UNCHANGED <<inputs, screen, exit, dialog, draft, end>>

ChooseAnswer ==
    /\ Asking("confirm") /\ asking' = [asking EXCEPT !.confirm = ~@]
    /\ Press("other") /\ UNCHANGED <<inputs, screen, exit, dialog, draft, end>>

\* Enter on the choice Cancel, or Esc.  A directory goes back to its
\* disclosure, the others to their list.
Cancels(confirm) == Press("other") \/ (~confirm /\ Press("enter"))

CancelAsking ==
    /\ \/ /\ Asking("confirm") /\ Cancels(asking.confirm)
          /\ IF screen = "directory" THEN Ask("preview", asking.item) ELSE asking' = NotAsking
       \/ Asking("preview") /\ asking' = NotAsking /\ Press("other")
    /\ UNCHANGED <<inputs, screen, exit, dialog, draft, end>>

Agrees == Asking("confirm") /\ asking.confirm /\ asking.read /\ asking' = NotAsking

(***************************************************************************)
(* The requests of the wrapper, shown before anything else.                *)
(***************************************************************************)
PrepareApprove(r) ==
    /\ OnScreen("wrapper") /\ asking = NotAsking /\ Prepares(sel, r) /\ Ask("confirm", r)
    /\ Press("other") /\ UNCHANGED <<inputs, screen, exit, dialog, draft, end>>

ApproveRequest ==
    /\ Agrees /\ screen = "wrapper"
    /\ decisions' = [decisions EXCEPT ![asking.item] = "approve"]
    /\ Press("enter")
    /\ UNCHANGED <<inputs, screen, exit, dialog, sel, approved, dests, githubOk, end>>

RejectRequest(r) ==
    /\ OnScreen("wrapper") /\ asking = NotAsking
    /\ decisions' = [decisions EXCEPT ![r] = "reject"]
    /\ Press("other")
    /\ UNCHANGED <<inputs, screen, exit, dialog, asking, sel, approved, dests, githubOk, end>>

Approvals == {r \in start.requests : decisions[r] = "approve"}

\* Each approved request is prepared again on the draft the ones before it made.
CompleteRequests ==
    /\ OnScreen("wrapper") /\ asking = NotAsking
    /\ \A r \in start.requests : decisions[r] # "none"
    /\ \A r \in Approvals : Prepares(sel \union (Approvals \ {r}), r)
    /\ sel' = ApplyAll(sel, Approvals) /\ approved' = Approvals /\ screen' = "access"
    /\ Press("enter") /\ UNCHANGED <<inputs, exit, dialog, asking, decisions, dests, githubOk, end>>

(***************************************************************************)
(* Selected-key SSH.  The editor keeps destinations of its own; the draft  *)
(* follows it with every change.                                           *)
(***************************************************************************)
SelectKey(k) ==
    /\ OnScreen("ssh")
    /\ LET keys == IF k \in KeysOf(sel) THEN KeysOf(sel) \ {k} ELSE KeysOf(sel) \union {k}
       IN  sel' = WithKeys(sel, keys, dests)
    /\ Press("enter")
    /\ UNCHANGED <<inputs, screen, exit, dialog, asking, approved, decisions, dests, githubOk, end>>

EditDestinations ==
    /\ OnScreen("ssh") /\ dests' = ~dests /\ sel' = WithKeys(sel, KeysOf(sel), dests')
    /\ PressAny
    /\ UNCHANGED <<inputs, screen, exit, dialog, asking, approved, decisions, githubOk, end>>

DisableKeys ==
    /\ OnScreen("ssh") /\ sel' = sel \ RestrictedSsh /\ screen' = "access"
    /\ Press("other")
    /\ UNCHANGED <<inputs, exit, dialog, asking, approved, decisions, dests, githubOk, end>>

(***************************************************************************)
(* Environment variables and directories.                                  *)
(***************************************************************************)
ChooseVariable(n) ==
    /\ OnScreen("environment") /\ asking = NotAsking
    /\ \/ /\ <<"env", n>> \in sel /\ sel' = sel \ {<<"env", n>>} /\ UNCHANGED asking
       \/ /\ <<"env", n>> \notin sel /\ Prepares(sel, <<"env", n>>)
          /\ Ask("preview", <<"env", n>>) /\ UNCHANGED sel
    /\ Press("enter")
    /\ UNCHANGED <<inputs, screen, exit, dialog, approved, decisions, dests, githubOk, end>>

ShareVariable ==
    /\ Agrees /\ screen = "environment" /\ sel' = Apply(sel, asking.item)
    /\ Press("enter")
    /\ UNCHANGED <<inputs, screen, exit, dialog, approved, decisions, dests, githubOk, end>>

\* Space adds a directory that is not broad; m changes the mode of one that is
\* listed, and only a change to read and write asks.
AddDirectory(g) ==
    /\ OnScreen("directory") /\ asking = NotAsking /\ Prepares(sel, g)
    /\ IF g \in OpenItems THEN Ask("preview", g) /\ UNCHANGED sel
                           ELSE sel' = Apply(sel, g) /\ UNCHANGED asking
    /\ Press("enter")
    /\ UNCHANGED <<inputs, screen, exit, dialog, approved, decisions, dests, githubOk, end>>

ToggleMode(d) ==
    /\ OnScreen("directory") /\ asking = NotAsking
    /\ \E was \in DirGrants(d) \intersect sel, g \in DirGrants(d) :
        /\ g # was /\ Prepares(sel, g)
        /\ IF g \in OpenItems /\ g[1] = "rw" THEN Ask("preview", g) /\ UNCHANGED sel
                                            ELSE sel' = Apply(sel, g) /\ UNCHANGED asking
    /\ Press("other")
    /\ UNCHANGED <<inputs, screen, exit, dialog, approved, decisions, dests, githubOk, end>>

ShareDirectory ==
    /\ Agrees /\ screen = "directory" /\ Prepares(sel, asking.item)
    /\ sel' = Apply(sel, asking.item)
    /\ Press("enter")
    /\ UNCHANGED <<inputs, screen, exit, dialog, approved, decisions, dests, githubOk, end>>

RemoveDirectory(d) ==
    /\ OnScreen("directory") /\ asking = NotAsking
    /\ \E g \in DirGrants(d) \intersect sel : sel' = sel \ {g}
    /\ Press("enter")
    /\ UNCHANGED <<inputs, screen, exit, dialog, asking, approved, decisions, dests, githubOk, end>>

(***************************************************************************)
(* Additional capabilities and the access list.                            *)
(***************************************************************************)
ToggleExtra(x) ==
    /\ OnScreen("additional") /\ dialog = NoDialog
    /\ LET g == <<"extra", x>>
       IN  IF g \in sel THEN sel' = sel \ {g} /\ UNCHANGED dialog
           ELSE IF g \in OpenItems THEN dialog' = Dialog("extra", g, FALSE) /\ UNCHANGED sel
           ELSE sel' = sel \union {g} /\ UNCHANGED dialog
    /\ Press("enter")
    /\ UNCHANGED <<inputs, screen, exit, asking, approved, decisions, dests, githubOk, end>>

\* Esc; the environment and the directory screen have it only on their lists,
\* the additional screen only without a dialog.
Back ==
    /\ Reviewing /\ ~exit /\ safe /\ screen \in {"ssh", "environment", "directory", "additional"}
    /\ asking = NotAsking /\ (screen = "additional" => dialog = NoDialog)
    /\ screen' = "access"
    /\ Press("other") /\ UNCHANGED <<inputs, exit, dialog, asking, draft, end>>

OnList == OnScreen("access") /\ dialog = NoDialog

OpenScreen(s) ==
    /\ OnList /\ s \in {"ssh", "environment", "directory", "additional"} /\ screen' = s
    /\ dests' = IF s = "ssh" THEN Destinations \in sel ELSE dests
    /\ PressAny
    /\ UNCHANGED <<inputs, exit, dialog, asking, sel, approved, decisions, githubOk, end>>

ToggleFlag(f) ==
    /\ OnList
    /\ LET g == <<"flag", f>>
       IN  IF g \in sel THEN sel' = sel \ {g} /\ UNCHANGED dialog
           ELSE IF g \in OpenItems THEN dialog' = Dialog("open", g, FALSE) /\ UNCHANGED sel
           ELSE sel' = Enable(sel, f) /\ UNCHANGED dialog
    /\ PressAny
    /\ UNCHANGED <<inputs, screen, exit, asking, approved, decisions, dests, githubOk, end>>

\* A preset replaces the draft and forgets the approvals.
ApplyPreset(p) == sel' = Preset(p) /\ approved' = {}

\* Variant: an earlier consent to the token counts for the developer preset too.
ChoosePresetTrusting(p) ==
    /\ OnList
    /\ IF p = "mostly_open"
       THEN dialog' = Dialog("mostly", NoItem, FALSE) /\ UNCHANGED <<sel, approved>>
       ELSE ApplyPreset(p) /\ UNCHANGED dialog
    /\ Press("enter")
    /\ UNCHANGED <<inputs, screen, exit, asking, decisions, dests, githubOk, end>>

ChoosePreset(p) ==
    /\ OnList
    /\ IF p = "mostly_open"
       THEN dialog' = Dialog("mostly", NoItem, FALSE) /\ UNCHANGED <<sel, approved, githubOk>>
       ELSE /\ ApplyPreset(p) /\ UNCHANGED dialog
            /\ githubOk' = IF p = "developer" THEN FALSE ELSE githubOk
    /\ Press("enter")
    /\ UNCHANGED <<inputs, screen, exit, asking, decisions, dests, end>>

Save ==
    /\ OnList /\ RequestSave(FALSE)
    /\ Press("enter") /\ UNCHANGED <<inputs, screen, exit, asking, draft>>

(***************************************************************************)
(* The confirmation.  The additional screen hands every confirmation its   *)
(* keys, though it draws its own alone.                                    *)
(***************************************************************************)
DialogUp == Reviewing /\ ~exit /\ safe /\ screen \in {"access", "additional"} /\ dialog # NoDialog

ChooseConfirm ==
    /\ DialogUp /\ dialog' = [dialog EXCEPT !.confirm = ~@]
    /\ Press("other") /\ UNCHANGED <<inputs, screen, exit, asking, draft, end>>

CancelDialog ==
    /\ DialogUp /\ dialog' = NoDialog /\ Cancels(dialog.confirm)
    /\ UNCHANGED <<inputs, screen, exit, asking, draft, end>>

ConfirmDialog ==
    /\ DialogUp /\ dialog.confirm /\ dialog' = NoDialog
    /\ CASE dialog.kind = "open" ->
              /\ sel' = Enable(sel, dialog.item[2])
              /\ githubOk' = (githubOk \/ dialog.item = Github) /\ UNCHANGED <<approved, end>>
         [] dialog.kind = "mostly" ->
              /\ ApplyPreset("mostly_open") /\ githubOk' = TRUE /\ UNCHANGED end
         [] dialog.kind = "extra" ->
              /\ sel' = sel \union {dialog.item} /\ UNCHANGED <<approved, githubOk, end>>
         [] dialog.kind = "github" ->
              /\ githubOk' = TRUE /\ PrepareSave(dialog.only) /\ UNCHANGED <<sel, approved>>
    /\ Press("enter") /\ UNCHANGED <<inputs, screen, exit, asking, decisions, dests>>

(***************************************************************************)
(* What was confirmed.                                                     *)
(***************************************************************************)
\* Grants that may still count as confirmed: what the draft has, and what was
\* approved of the wrapper's requests while they are shown.
Standing ==
    UNION {Covers(i) : i \in sel \union (IF screen = "wrapper" THEN Approvals ELSE {})}
Confirms(new) == confirmed' = (confirmed \intersect Standing') \union (new \intersect OpenItems)

InDialog == IF dialog.kind = "mostly" THEN Preset("mostly_open") ELSE {dialog.item}

Quiet ==
    \/ ExitKeep \/ ExitDiscard \/ ExitSave \/ Resize \/ UnsafeExit \/ UnsafeBack \/ Exit
    \/ Scroll \/ EnterRefused \/ ShowConfirmation \/ ChooseAnswer \/ CancelAsking
    \/ \E r \in start.requests : PrepareApprove(r) \/ RejectRequest(r)
    \/ CompleteRequests
    \/ \E k \in Keys : SelectKey(k)
    \/ EditDestinations \/ DisableKeys
    \/ \E n \in EnvNames : ChooseVariable(n)
    \/ \E g \in EveryDir : AddDirectory(g)
    \/ \E d \in Dirs : ToggleMode(d) \/ RemoveDirectory(d)
    \/ \E x \in Extras : ToggleExtra(x)
    \/ Back \/ \E s \in Screens : OpenScreen(s)
    \/ \E f \in AllowedFlags \union OpenFlags : ToggleFlag(f)
    \/ \E p \in {"closed", "developer", "mostly_open"} : ChoosePreset(p)
    \/ Save \/ ChooseConfirm \/ CancelDialog

Next ==
    \/ Quiet /\ Confirms({})
    \/ (ApproveRequest \/ ShareVariable \/ ShareDirectory) /\ Confirms(Covers(asking.item))
    \/ ConfirmDialog /\ Confirms(InDialog)

Spec == Init /\ [][Next]_vars

(***************************************************************************)
(* Properties.                                                             *)
(***************************************************************************)
\* Every variable has its type, and a disclosure is open only on a screen that
\* has them.
TypeOK ==
    /\ start.sel \subseteq Items /\ start.approved \subseteq Requests
    /\ start.first \in BOOLEAN /\ start.requests \subseteq Requests
    /\ screen \in Screens /\ {safe, exit, dests, githubOk} \subseteq BOOLEAN
    /\ dialog \in [kind : {"none", "open", "mostly", "extra", "github"},
                   item : Items \union {NoItem}, confirm : BOOLEAN, only : BOOLEAN]
    /\ asking \in [phase : {"none", "preview", "confirm"},
                   item : Items \union {NoItem}, confirm : BOOLEAN, read : BOOLEAN]
    /\ asking # NotAsking => screen \in {"wrapper", "environment", "directory"}
    /\ sel \subseteq Items /\ approved \subseteq Requests /\ confirmed \subseteq OpenItems
    /\ decisions \in [start.requests -> {"none", "approve", "reject"}]
    /\ end \in {"open", "cancelled", "saved", "launched"}
    /\ last \in {"enter", "other", "exit"}

\* Every OPEN grant that a review saves stood in the stored policy or was
\* confirmed since it was last off, whatever presets, screens, dialogs and
\* resizes came in between; the token the developer preset turns on is
\* confirmed before it is saved, from whichever screen the saving starts.
OpenConfirmed == end \in {"saved", "launched"} => sel \intersect OpenItems \subseteq confirmed

\* "A repeated Enter must not accidentally cross a security boundary"
\* (ConfirmDialog::new): no confirmation, of any screen, is given by an Enter
\* that follows another.  The Enter that closes the dialog about unsaved
\* changes is not counted: it leaves a dialog beneath as it was.
NoDoubleEnter == [][confirmed' \ confirmed # {} => last # "enter"]_vars

\* Nothing is launched before every request of the wrapper was decided, and
\* only what was approved then is recorded as approved.
DecidedFirst ==
    end = "launched" /\ start.requests # {} =>
        /\ \A r \in start.requests : decisions[r] # "none"
        /\ approved \subseteq Approvals

\* When the requests are decided, what an earlier review approved and this one
\* did not is gone from the draft, unless another approved request brings it.
DecisionsHold ==
    [][screen = "wrapper" /\ screen' = "access" =>
         \A r \in start.approved \ approved' :
            \A i \in Carries(r) : i \in sel' => \E a \in approved' : i \in Carries(a)]_vars
================================================================================
