----------------------------- MODULE ReviewProofs -----------------------------
(***************************************************************************)
(* For every set of choices, requests and ways to begin: what a review     *)
(* saves was confirmed, a confirmation never comes from an Enter that      *)
(* follows another, and the wrapper's requests are decided before anything *)
(* is launched.                                                            *)
(***************************************************************************)
EXTENDS Review, TLAPS

(***************************************************************************)
(* Grants.                                                                 *)
(***************************************************************************)
LEMMA ConstantGrants ==
  /\ Github \in Items /\ Github \in OpenItems /\ Destinations \in Items
  /\ Ssh \in Items
  /\ \A f \in AllowedFlags : <<"flag", f>> \in Items /\ <<"flag", f>> \notin OpenItems
  /\ \A f \in OpenFlags : <<"flag", f>> \in Items
  /\ \A k \in Keys : <<"key", k>> \in Items
  /\ \A i \in RestrictedSsh : i \in Items /\ i \notin OpenItems
  /\ EveryDir \subseteq Items /\ OpenItems \subseteq Items /\ Requests \subseteq Items
  /\ \A n \in EnvNames : <<"env", n>> \in Items
  /\ \A x \in Extras : <<"extra", x>> \in Items
PROOF
  <1>1. Github \in Items /\ Github \in OpenItems /\ Ssh \in Items
    BY SelectionAssumption DEF Github, Ssh, Items, OpenItems, Grants
  <1>2. \A f \in AllowedFlags : <<"flag", f>> \in Items /\ <<"flag", f>> \notin OpenItems
    BY SelectionAssumption DEF Items, OpenItems, Grants, EveryDir
  <1>3. \A i \in RestrictedSsh : i \in Items /\ i \notin OpenItems
    BY DEF RestrictedSsh, Items, OpenItems, Grants, EveryDir, Destinations
  <1>4. \A k \in Keys : <<"key", k>> \in RestrictedSsh
    BY DEF RestrictedSsh, Grants
  <1>5. Destinations \in RestrictedSsh
    BY DEF RestrictedSsh
  <1>6. OpenItems \subseteq Items
    BY SelectionAssumption DEF OpenItems, Items, Grants, EveryDir
  <1> QED BY <1>1, <1>2, <1>3, <1>4, <1>5, <1>6 DEF Items, Grants

\* What a grant carries or covers is a grant, and it is among what it covers.
LEMMA CoversGrants ==
  ASSUME NEW i \in Items
  PROVE  /\ Carries(i) \subseteq Covers(i) /\ i \in Carries(i)
         /\ Covers(i) \subseteq Items
         /\ i \in OpenItems => Covers(i) \subseteq OpenItems
         /\ \A j \in Carries(i) : Covers(j) \subseteq Covers(i)
PROOF
  <1>1. CASE i[1] = "rw"
    <2>1. i \in EveryDir
      BY <1>1, SelectionAssumption DEF Items, Grants, EveryDir, RestrictedSsh, Destinations
    <2>2. PICK d \in Dirs : i = <<"rw", d>>
      BY <1>1, <2>1 DEF EveryDir
    <2>3. Carries(i) = {i} /\ Covers(i) = DirGrants(d)
      BY <2>2 DEF Carries, Covers
    <2>4. DirGrants(d) \subseteq EveryDir /\ i \in DirGrants(d)
      BY <2>2 DEF DirGrants, EveryDir
    <2>5. i \in OpenItems => DirGrants(d) \subseteq OpenItems
      <3>1. i \in OpenItems => d \in BroadDirs
        BY <2>2, SelectionAssumption DEF OpenItems, Grants, EveryDir
      <3> QED BY <3>1, <2>4 DEF OpenItems, DirGrants, EveryDir
    <2> QED BY <2>3, <2>4, <2>5, ConstantGrants
  <1>2. CASE i[1] = "secret"
    <2>1. i \in Requests
      BY <1>2 DEF Items, Grants, EveryDir, RestrictedSsh, Destinations
    <2>2. PICK n \in EnvNames : i = <<"secret", n>>
      BY <1>2, <2>1, SelectionAssumption DEF EveryDir
    <2>3. Carries(i) = {i, <<"env", n>>} /\ Covers(i) = Carries(i)
          /\ Covers(<<"env", n>>) = {<<"env", n>>}
      BY <2>2 DEF Carries, Covers
    <2>4. <<"env", n>> \in OpenItems /\ <<"env", n>> \in Items
      BY ConstantGrants DEF OpenItems
    <2> QED BY <2>3, <2>4
  <1>3. CASE i[1] \notin {"rw", "secret"}
    <2>1. Carries(i) = {i} /\ Covers(i) = {i}
      BY <1>3 DEF Carries, Covers
    <2> QED BY <2>1
  <1> QED BY <1>1, <1>2, <1>3
\* The operations on a draft make drafts.
LEMMA DraftsStayGrants ==
  ASSUME NEW s, s \subseteq Items
  PROVE  /\ \A new : new \subseteq Items => ApplyAll(s, new) \subseteq Items
         /\ \A i \in Items : Apply(s, i) \subseteq Items
         /\ \A f \in AllowedFlags \union OpenFlags : Enable(s, f) \subseteq Items
         /\ \A keys, d : keys \subseteq Keys => WithKeys(s, keys, d) \subseteq Items
         /\ \A old : Revoke(s, old) \subseteq s
PROOF
  <1>1. \A new : new \subseteq Items => ApplyAll(s, new) \subseteq Items
    BY CoversGrants DEF ApplyAll
  <1>2. \A i \in Items : Apply(s, i) \subseteq Items
    BY <1>1 DEF Apply
  <1>3. \A f \in AllowedFlags \union OpenFlags : Enable(s, f) \subseteq Items
    BY ConstantGrants DEF Enable
  <1>4. \A keys, d : keys \subseteq Keys => WithKeys(s, keys, d) \subseteq Items
    BY ConstantGrants DEF WithKeys, Grants
  <1>5. \A old : Revoke(s, old) \subseteq s
    BY DEF Revoke
  <1> QED BY <1>1, <1>2, <1>3, <1>4, <1>5

LEMMA PresetsAreGrants ==
  ASSUME NEW p \in {"closed", "developer", "mostly_open"}
  PROVE  Preset(p) \subseteq Items /\ (p # "mostly_open" => Preset(p) \intersect OpenItems \subseteq {Github})
PROOF
  <1>1. \A f \in PresetOpen : <<"flag", f>> \in Items
    BY ConstantGrants, SelectionAssumption
  <1> QED BY <1>1, ConstantGrants DEF Preset, Grants

(***************************************************************************)
(* Types.  What a confirmation or a disclosure is about is of its kind.    *)
(***************************************************************************)
Asked ==
  IF screen = "wrapper" THEN start.requests
  ELSE IF screen = "environment" THEN Grants("env", EnvNames) ELSE EveryDir

PlaceOK ==
  /\ start.sel \subseteq Items /\ start.approved \subseteq Requests
  /\ start.first \in BOOLEAN /\ start.requests \subseteq Requests
  /\ screen \in Screens /\ safe \in BOOLEAN /\ exit \in BOOLEAN
  /\ end \in {"open", "cancelled", "saved", "launched"} /\ last \in {"enter", "other", "exit"}

DraftOK ==
  /\ sel \subseteq Items /\ approved \subseteq Requests
  /\ decisions \in [start.requests -> {"none", "approve", "reject"}]
  /\ dests \in BOOLEAN /\ githubOk \in BOOLEAN

DialogOK ==
  /\ dialog \in [kind : {"none", "open", "mostly", "extra", "github"},
                 item : Items \union {NoItem}, confirm : BOOLEAN, only : BOOLEAN]
  /\ dialog.kind = "none" => dialog = NoDialog
  /\ dialog.kind = "open" => dialog.item \in Grants("flag", OpenFlags)
  /\ dialog.kind = "extra" => dialog.item \in Grants("extra", Extras)
  /\ dialog.kind = "github" => dialog.item = Github

AskingOK ==
  /\ asking \in [phase : {"none", "preview", "confirm"},
                 item : Items \union {NoItem}, confirm : BOOLEAN, read : BOOLEAN]
  /\ asking.phase = "none" <=> asking = NotAsking
  /\ asking # NotAsking => asking.item \in Asked /\ screen \in {"wrapper", "environment", "directory"}

Types == PlaceOK /\ DraftOK /\ DialogOK /\ AskingOK /\ confirmed \subseteq OpenItems

LEMMA TypesAreTyped == Types => TypeOK
  BY DEF Types, PlaceOK, DraftOK, DialogOK, AskingOK, TypeOK

LEMMA TypesBegin == Init => Types
PROOF
  <1> SUFFICES ASSUME Init PROVE Types
    OBVIOUS
  <1>1. PICK r \in Reviews : Begin(r)
    BY DEF Init
  <1> USE DEF Begin
  <1> DEFINE begin == IF r.first THEN Preset("developer") ELSE r.sel
  <1>2. r \in [sel : SUBSET Items, approved : SUBSET Requests, first : BOOLEAN, requests : SUBSET Requests]
    BY ReviewAssumption
  <1>3. begin \subseteq Items
    BY <1>2, PresetsAreGrants
  <1>4. sel \subseteq Items
    BY <1>1, <1>3, DraftsStayGrants
  <1>5. start = [r EXCEPT !.sel = begin]
    BY <1>1
  <1>6. start.sel = begin /\ start.approved = r.approved /\ start.first = r.first /\ start.requests = r.requests
    BY <1>2, <1>5
  <1>7. confirmed \subseteq OpenItems
    BY <1>1, <1>2, CoversGrants
  <1> HIDE DEF begin
  <1>8. /\ start.sel \subseteq Items /\ start.approved \subseteq Requests
        /\ start.first \in BOOLEAN /\ start.requests \subseteq Requests
    BY <1>2, <1>3, <1>6
  <1>9. /\ screen \in Screens /\ {safe, exit, dests, githubOk} \subseteq BOOLEAN
        /\ approved \subseteq Requests /\ end = "open" /\ last = "other"
    <2>1. githubOk \in BOOLEAN
      BY <1>1
    <2> QED BY <1>1, <1>2, <2>1 DEF Screens
  <1>10. dialog = NoDialog /\ asking = NotAsking
    BY <1>1
  <1>11. decisions \in [start.requests -> {"none", "approve", "reject"}]
    BY <1>1, <1>6
  <1> QED BY <1>4, <1>7, <1>8, <1>9, <1>10, <1>11
        DEF Types, PlaceOK, DraftOK, DialogOK, AskingOK, NoDialog, NotAsking
(***************************************************************************)
(* What the actions leave alone.                                           *)
(***************************************************************************)
Confirming == ApproveRequest \/ ShareVariable \/ ShareDirectory \/ ConfirmDialog

LEMMA DialogAlone ==
  ASSUME \/ ExitKeep \/ ExitDiscard \/ Resize \/ UnsafeExit \/ UnsafeBack \/ Exit \/ Scroll
         \/ EnterRefused \/ ShowConfirmation \/ ChooseAnswer \/ CancelAsking
         \/ CompleteRequests \/ EditDestinations \/ DisableKeys \/ Back
         \/ ApproveRequest \/ ShareVariable \/ ShareDirectory
         \/ \E r \in start.requests : PrepareApprove(r) \/ RejectRequest(r)
         \/ \E k \in Keys : SelectKey(k)
         \/ \E n \in EnvNames : ChooseVariable(n)
         \/ \E g \in EveryDir : AddDirectory(g)
         \/ \E d \in Dirs : ToggleMode(d) \/ RemoveDirectory(d)
         \/ \E p \in Screens : OpenScreen(p)
  PROVE  dialog' = dialog
  BY DEF ExitKeep, ExitDiscard, Resize, UnsafeExit, UnsafeBack, Exit, Scroll, EnterRefused,
         ShowConfirmation, ChooseAnswer, CancelAsking, CompleteRequests, EditDestinations,
         DisableKeys, Back, ApproveRequest, ShareVariable, ShareDirectory, PrepareApprove,
         RejectRequest, SelectKey, ChooseVariable, AddDirectory, ToggleMode, RemoveDirectory,
         OpenScreen

LEMMA AskingAlone ==
  ASSUME \/ ExitKeep \/ ExitDiscard \/ ExitSave \/ UnsafeExit \/ Exit
         \/ EnterRefused \/ EditDestinations
         \/ \E r \in start.requests : RejectRequest(r)
         \/ \E k \in Keys : SelectKey(k)
         \/ \E d \in Dirs : RemoveDirectory(d)
         \/ \E x \in Extras : ToggleExtra(x)
         \/ \E f \in AllowedFlags \union OpenFlags : ToggleFlag(f)
         \/ \E p \in {"closed", "developer", "mostly_open"} : ChoosePreset(p)
         \/ Save \/ ChooseConfirm \/ CancelDialog \/ ConfirmDialog
  PROVE  asking' = asking /\ screen' = screen
  BY DEF ExitKeep, ExitDiscard, ExitSave, UnsafeExit, Exit, EnterRefused, EditDestinations,
         RejectRequest, SelectKey, RemoveDirectory, ToggleExtra, ToggleFlag, ChoosePreset,
         Save, ChooseConfirm, CancelDialog, ConfirmDialog, inputs
LEMMA StartStays ==
  ASSUME Quiet \/ Confirming
  PROVE  start' = start
  BY DEF Quiet, Confirming, inputs, ExitKeep, ExitDiscard, ExitSave, Resize, UnsafeExit, UnsafeBack,
         Exit, Scroll, EnterRefused, ShowConfirmation, ChooseAnswer, CancelAsking, PrepareApprove,
         RejectRequest, CompleteRequests, SelectKey, EditDestinations, DisableKeys, ChooseVariable,
         AddDirectory, ToggleMode, RemoveDirectory, ToggleExtra, Back, OpenScreen, ToggleFlag,
         ChoosePreset, Save, ChooseConfirm, CancelDialog, ApproveRequest, ShareVariable,
         ShareDirectory, ConfirmDialog

(***************************************************************************)
(* Every action keeps the types.                                           *)
(***************************************************************************)
LEMMA DialogStep ==
  ASSUME Types, Quiet \/ Confirming
  PROVE  DialogOK'
PROOF
  <1> USE DEF Types
  <1>1. \A kind \in {"none", "open", "mostly", "extra", "github"}, i \in Items \union {NoItem}, only \in BOOLEAN :
          Dialog(kind, i, only) \in [kind : {"none", "open", "mostly", "extra", "github"},
                item : Items \union {NoItem}, confirm : BOOLEAN, only : BOOLEAN]
    BY DEF Dialog
  <1>2. NoDialog = Dialog("none", NoItem, FALSE)
    BY DEF NoDialog, Dialog
  <1>3. dialog' = dialog => DialogOK'
    BY DEF DialogOK
  <1>4. dialog' = NoDialog => DialogOK'
    BY <1>1, <1>2 DEF DialogOK, Dialog
  <1>5. \A only \in BOOLEAN : dialog' = Dialog("github", Github, only) => DialogOK'
    BY <1>1, ConstantGrants DEF DialogOK, Dialog
  <1>6. ASSUME NEW only \in BOOLEAN, RequestSave(only) PROVE DialogOK'
    BY <1>3, <1>5, <1>6 DEF RequestSave
  <1>7. ASSUME NEW x \in Extras, ToggleExtra(x) PROVE DialogOK'
    <2>1. dialog' = Dialog("extra", <<"extra", x>>, FALSE) => DialogOK'
      BY <1>1, ConstantGrants DEF DialogOK, Dialog, Grants
    <2> QED BY <1>3, <1>7, <2>1 DEF ToggleExtra
  <1>8. ASSUME NEW f \in AllowedFlags \union OpenFlags, ToggleFlag(f) PROVE DialogOK'
    <2>1. <<"flag", f>> \in OpenItems => f \in OpenFlags
      BY ConstantGrants
    <2>2. f \in OpenFlags /\ dialog' = Dialog("open", <<"flag", f>>, FALSE) => DialogOK'
      BY <1>1, ConstantGrants DEF DialogOK, Dialog, Grants
    <2> QED BY <1>3, <1>8, <2>1, <2>2 DEF ToggleFlag
  <1>9. ASSUME NEW p \in {"closed", "developer", "mostly_open"}, ChoosePreset(p) PROVE DialogOK'
    <2>1. dialog' = Dialog("mostly", NoItem, FALSE) => DialogOK'
      BY <1>1 DEF DialogOK, Dialog
    <2> QED BY <1>3, <1>9, <2>1 DEF ChoosePreset
  <1>10. ASSUME ChooseConfirm PROVE DialogOK'
    <2>1. dialog' = [dialog EXCEPT !.confirm = ~@] /\ dialog # NoDialog
      BY <1>10 DEF ChooseConfirm, DialogUp
    <2>2. dialog.kind # "none"
      BY <2>1 DEF DialogOK
    <2> QED BY <2>1, <2>2 DEF DialogOK
  <1>11. ExitSave \/ Save => \E only \in BOOLEAN : RequestSave(only)
    BY DEF ExitSave, Save
  <1>12. CancelDialog \/ ConfirmDialog => dialog' = NoDialog
    BY DEF CancelDialog, ConfirmDialog
  <1> QED BY <1>3, <1>4, <1>6, <1>7, <1>8, <1>9, <1>10, <1>11, <1>12, DialogAlone DEF Quiet, Confirming
LEMMA AskingStep ==
  ASSUME Types, Quiet \/ Confirming
  PROVE  AskingOK'
PROOF
  <1> USE DEF Types
  <1> DEFINE Shows == screen' = screen /\ screen \in {"wrapper", "environment", "directory"}
  <1>1. start' = start
    BY StartStays
  <1>2. UNCHANGED <<asking, screen>> => AskingOK'
    BY <1>1 DEF AskingOK, Asked
  <1>3. asking' = NotAsking => AskingOK'
    BY DEF AskingOK, NotAsking
  <1>4. ASSUME NEW phase \in {"preview", "confirm"}, NEW i \in Asked \intersect Items, Shows, Ask(phase, i)
        PROVE  AskingOK'
    <2>1. PICK fits \in BOOLEAN :
            asking' = [phase |-> phase, item |-> i, confirm |-> FALSE, read |-> fits]
      BY <1>4 DEF Ask
    <2>2. Asked' = Asked
      BY <1>1, <1>4 DEF Asked
    <2> QED BY <1>4, <2>1, <2>2 DEF AskingOK, NotAsking
  <1>5. ASSUME screen' = screen, asking # NotAsking, NEW b \in BOOLEAN,
               \/ asking' = [asking EXCEPT !.read = b]
               \/ asking' = [asking EXCEPT !.confirm = b]
        PROVE  AskingOK'
    <2>1. Asked' = Asked
      BY <1>1, <1>5 DEF Asked
    <2> QED BY <1>5, <2>1 DEF AskingOK, NotAsking
  <1>6. asking # NotAsking => asking.item \in Asked \intersect Items /\ asking.phase \in {"preview", "confirm"}
    <2>1. Asked \subseteq Items
      BY ConstantGrants DEF Asked, PlaceOK, Grants
    <2> QED BY <2>1 DEF AskingOK
  <1>7. CASE Resize
    BY <1>2, <1>5, <1>7 DEF Resize
  <1>8. CASE Scroll \/ ChooseAnswer
    <2>1. asking # NotAsking /\ screen' = screen
      BY <1>8 DEF Scroll, ChooseAnswer, Asking, NotAsking
    <2>2. asking.read \in BOOLEAN /\ asking.confirm \in BOOLEAN
      BY DEF AskingOK
    <2>3. \/ asking' = [asking EXCEPT !.read = ~asking.read]
          \/ asking' = [asking EXCEPT !.confirm = ~asking.confirm]
      BY <1>8 DEF Scroll, ChooseAnswer
    <2> QED BY <1>5, <2>1, <2>2, <2>3
  <1>9. CASE ShowConfirmation \/ CancelAsking
    <2>1. asking # NotAsking /\ Shows
      BY <1>9 DEF ShowConfirmation, CancelAsking, Asking, NotAsking
    <2>2. \/ asking' = NotAsking
          \/ \E phase \in {"preview", "confirm"} : Ask(phase, asking.item)
      BY <1>9 DEF ShowConfirmation, CancelAsking
    <2> QED BY <1>3, <1>4, <1>6, <2>1, <2>2
  <1>10. ASSUME NEW r \in start.requests, PrepareApprove(r) PROVE AskingOK'
    <2>1. r \in Asked \intersect Items /\ Shows /\ Ask("confirm", r)
      BY <1>10, ConstantGrants DEF PrepareApprove, OnScreen, Asked, PlaceOK
    <2> QED BY <1>4, <2>1
  <1>11. ASSUME NEW n \in EnvNames, ChooseVariable(n) PROVE AskingOK'
    <2>1. <<"env", n>> \in Asked \intersect Items /\ Shows
      BY <1>11, ConstantGrants DEF ChooseVariable, OnScreen, Asked, Grants
    <2>2. UNCHANGED asking \/ Ask("preview", <<"env", n>>)
      BY <1>11 DEF ChooseVariable
    <2> QED BY <1>2, <1>4, <2>1, <2>2
  <1>12. ASSUME NEW g \in EveryDir, screen = "directory", UNCHANGED screen,
                UNCHANGED asking \/ Ask("preview", g)
         PROVE  AskingOK'
    <2>1. g \in Asked \intersect Items /\ Shows
      BY <1>12, ConstantGrants DEF Asked
    <2> QED BY <1>2, <1>4, <1>12, <2>1
  <1>13. ASSUME NEW g \in EveryDir, AddDirectory(g) PROVE AskingOK'
    BY <1>12, <1>13 DEF AddDirectory, OnScreen
  <1>14. ASSUME NEW d \in Dirs, ToggleMode(d) PROVE AskingOK'
    <2>1. \E g \in EveryDir : UNCHANGED asking \/ Ask("preview", g)
      BY <1>14 DEF ToggleMode, DirGrants, EveryDir
    <2> QED BY <1>12, <1>14, <2>1 DEF ToggleMode, OnScreen
  <1>15. UnsafeBack \/ CompleteRequests \/ Back \/ ApproveRequest \/ ShareVariable \/ ShareDirectory
           => asking' = NotAsking
    BY DEF UnsafeBack, CompleteRequests, Back, ApproveRequest, ShareVariable, ShareDirectory, Agrees
  <1>16. DisableKeys \/ (\E s \in Screens : OpenScreen(s)) => asking' = NotAsking
    BY DEF DisableKeys, OpenScreen, OnList, OnScreen, AskingOK
  <1> QED BY <1>2, <1>3, <1>7, <1>8, <1>9, <1>10, <1>11, <1>13, <1>14, <1>15, <1>16, AskingAlone
        DEF Quiet, Confirming

LEMMA EndAlone ==
  ASSUME \/ ExitKeep \/ Resize \/ UnsafeBack \/ Scroll \/ EnterRefused
         \/ ShowConfirmation \/ ChooseAnswer \/ CancelAsking \/ CompleteRequests
         \/ EditDestinations \/ DisableKeys \/ Back \/ ChooseConfirm \/ CancelDialog
         \/ ApproveRequest \/ ShareVariable \/ ShareDirectory
         \/ \E r \in start.requests : PrepareApprove(r) \/ RejectRequest(r)
         \/ \E k \in Keys : SelectKey(k)
         \/ \E n \in EnvNames : ChooseVariable(n)
         \/ \E g \in EveryDir : AddDirectory(g)
         \/ \E d \in Dirs : ToggleMode(d) \/ RemoveDirectory(d)
         \/ \E x \in Extras : ToggleExtra(x)
         \/ \E p \in Screens : OpenScreen(p)
         \/ \E f \in AllowedFlags \union OpenFlags : ToggleFlag(f)
         \/ \E p \in {"closed", "developer", "mostly_open"} : ChoosePreset(p)
  PROVE  end' = end
  BY DEF ExitKeep, Resize, UnsafeBack, Scroll, EnterRefused, ShowConfirmation, ChooseAnswer,
         CancelAsking, CompleteRequests, EditDestinations, DisableKeys, Back, ChooseConfirm,
         CancelDialog, ApproveRequest, ShareVariable, ShareDirectory, PrepareApprove,
         RejectRequest, SelectKey, ChooseVariable, AddDirectory, ToggleMode, RemoveDirectory,
         ToggleExtra, OpenScreen, ToggleFlag, ChoosePreset

\* What a confirmation of the dialog changes besides.
LEMMA ConfirmDialogChanges ==
  ASSUME Types, ConfirmDialog
  PROVE  \/ /\ dialog.kind = "open" /\ sel' = Enable(sel, dialog.item[2])
            /\ githubOk' = (githubOk \/ dialog.item = Github) /\ UNCHANGED <<approved, end>>
         \/ /\ dialog.kind = "mostly" /\ ApplyPreset("mostly_open") /\ githubOk' = TRUE /\ UNCHANGED end
         \/ /\ dialog.kind = "extra" /\ sel' = sel \union {dialog.item}
            /\ UNCHANGED <<approved, githubOk, end>>
         \/ /\ dialog.kind = "github" /\ githubOk' = TRUE /\ PrepareSave(dialog.only)
            /\ UNCHANGED <<sel, approved>>
PROOF
  <1>1. dialog.kind \in {"open", "mostly", "extra", "github"}
    BY DEF ConfirmDialog, DialogUp, Types, DialogOK
  <1> QED BY <1>1 DEF ConfirmDialog

LEMMA PlaceStep ==
  ASSUME Types, Quiet \/ Confirming
  PROVE  PlaceOK'
PROOF
  <1> USE DEF Types
  <1>1. start' = start
    BY StartStays
  <1> DEFINE Ends == {"open", "cancelled", "saved", "launched"}
  <1>2. end' = end => end' \in Ends
    BY DEF PlaceOK
  <1>3. \A only : PrepareSave(only) \/ RequestSave(only) => end' \in Ends
    BY <1>2 DEF PrepareSave, RequestSave
  <1>4. RequestExit => end' \in Ends /\ exit' \in BOOLEAN
    BY DEF RequestExit, PlaceOK
  <1>5. screen' \in Screens /\ safe' \in BOOLEAN /\ exit' \in BOOLEAN
    BY <1>4 DEF PlaceOK, Screens, Quiet, Confirming, inputs, ExitKeep, ExitDiscard, ExitSave,
       Resize, UnsafeExit, UnsafeBack, Exit, Scroll, EnterRefused, ShowConfirmation, ChooseAnswer,
       CancelAsking, PrepareApprove, RejectRequest, CompleteRequests, SelectKey, EditDestinations,
       DisableKeys, ChooseVariable, AddDirectory, ToggleMode, RemoveDirectory, ToggleExtra, Back,
       OpenScreen, ToggleFlag, ChoosePreset, Save, ChooseConfirm, CancelDialog, ApproveRequest,
       ShareVariable, ShareDirectory, ConfirmDialog
  <1>6. ExitDiscard \/ ExitSave \/ UnsafeExit \/ Exit \/ Save \/ ConfirmDialog => end' \in Ends
    <2>1. ExitDiscard => end' \in Ends
      BY DEF ExitDiscard
    <2>2. ExitSave \/ Save \/ UnsafeExit \/ Exit => end' \in Ends
      BY <1>3, <1>4 DEF ExitSave, Save, UnsafeExit, Exit
    <2>3. ConfirmDialog => end' \in Ends
      BY <1>2, <1>3, ConfirmDialogChanges
    <2> QED BY <2>1, <2>2, <2>3
  <1>7. end' \in Ends
    BY <1>2, <1>6, EndAlone DEF Quiet, Confirming
  <1>8. last' \in {"enter", "other", "exit"}
    BY DEF Quiet, Confirming, Press, PressAny, Cancels, ExitKeep, ExitDiscard, ExitSave, Resize,
       UnsafeExit, UnsafeBack, Exit, Scroll, EnterRefused, ShowConfirmation, ChooseAnswer,
       CancelAsking, PrepareApprove, RejectRequest, CompleteRequests, SelectKey, EditDestinations,
       DisableKeys, ChooseVariable, AddDirectory, ToggleMode, RemoveDirectory, ToggleExtra, Back,
       OpenScreen, ToggleFlag, ChoosePreset, Save, ChooseConfirm, CancelDialog, ApproveRequest,
       ShareVariable, ShareDirectory, ConfirmDialog
  <1> QED BY <1>1, <1>5, <1>7, <1>8 DEF PlaceOK

LEMMA DraftAlone ==
  ASSUME \/ ExitKeep \/ ExitDiscard \/ ExitSave \/ Resize \/ UnsafeExit \/ UnsafeBack \/ Exit
         \/ Scroll \/ EnterRefused \/ ShowConfirmation \/ ChooseAnswer \/ CancelAsking
         \/ Back \/ Save \/ ChooseConfirm \/ CancelDialog
         \/ \E r \in start.requests : PrepareApprove(r)
  PROVE  UNCHANGED draft
  BY DEF ExitKeep, ExitDiscard, ExitSave, Resize, UnsafeExit, UnsafeBack, Exit, Scroll,
         EnterRefused, ShowConfirmation, ChooseAnswer, CancelAsking, Back, Save, ChooseConfirm,
         CancelDialog, PrepareApprove

LEMMA DraftStep ==
  ASSUME Types, Quiet \/ Confirming
  PROVE  DraftOK'
PROOF
  <1> USE DEF Types
  <1>1. start' = start
    BY StartStays
  <1>2. UNCHANGED draft => DraftOK'
    BY <1>1 DEF draft, DraftOK
  <1>3. sel' \subseteq Items /\ UNCHANGED <<approved, decisions, githubOk>> /\ dests' \in BOOLEAN => DraftOK'
    BY <1>1 DEF DraftOK
  <1>4. \A p \in {"closed", "developer", "mostly_open"} : ApplyPreset(p) => sel' \subseteq Items /\ approved' = {}
    BY PresetsAreGrants DEF ApplyPreset
  <1>5. asking # NotAsking => asking.item \in Items
    BY ConstantGrants DEF AskingOK, Asked, PlaceOK, Grants
  <1>6. CASE ApproveRequest
    <2>1. asking.item \in start.requests
      BY <1>6 DEF ApproveRequest, Agrees, Asking, AskingOK, Asked, NotAsking
    <2> QED BY <1>1, <1>6, <2>1 DEF ApproveRequest, DraftOK
  <1>7. ASSUME NEW r \in start.requests, RejectRequest(r) PROVE DraftOK'
    BY <1>1, <1>7 DEF RejectRequest, DraftOK
  <1>8. CASE CompleteRequests
    <2>1. Approvals \subseteq Requests /\ Approvals \subseteq Items
      BY ConstantGrants DEF Approvals, PlaceOK
    <2> QED BY <1>1, <1>8, <2>1, DraftsStayGrants DEF CompleteRequests, DraftOK
  <1>9. ASSUME NEW k \in Keys, SelectKey(k) PROVE DraftOK'
    <2>1. \E keys \in SUBSET Keys : sel' = WithKeys(sel, keys, dests)
      BY <1>9 DEF SelectKey, KeysOf
    <2> QED BY <1>3, <1>9, <2>1, DraftsStayGrants DEF SelectKey, DraftOK
  <1>10. CASE EditDestinations
    <2>1. KeysOf(sel) \subseteq Keys
      BY DEF KeysOf
    <2> QED BY <1>3, <1>10, <2>1, DraftsStayGrants DEF EditDestinations, DraftOK
  <1>11. CASE DisableKeys
    BY <1>3, <1>11 DEF DisableKeys, DraftOK
  <1>12. ASSUME NEW n \in EnvNames, ChooseVariable(n) PROVE DraftOK'
    BY <1>3, <1>12 DEF ChooseVariable, DraftOK
  <1>13. CASE ShareVariable \/ ShareDirectory
    <2>1. asking # NotAsking
      BY <1>13 DEF ShareVariable, ShareDirectory, Agrees, Asking, NotAsking
    <2> QED BY <1>3, <1>5, <1>13, <2>1, DraftsStayGrants DEF ShareVariable, ShareDirectory, DraftOK
  <1>14. ASSUME NEW g \in EveryDir, AddDirectory(g) PROVE DraftOK'
    BY <1>3, <1>14, ConstantGrants, DraftsStayGrants DEF AddDirectory, DraftOK
  <1>15. ASSUME NEW d \in Dirs, ToggleMode(d) \/ RemoveDirectory(d) PROVE DraftOK'
    <2>1. DirGrants(d) \subseteq Items
      BY ConstantGrants DEF DirGrants, EveryDir
    <2>2. sel' \subseteq Items
      <3>1. CASE ToggleMode(d)
        <4>1. PICK was \in DirGrants(d) \intersect sel, g \in DirGrants(d) :
                /\ g # was /\ Prepares(sel, g)
                /\ IF g \in OpenItems /\ g[1] = "rw" THEN Ask("preview", g) /\ UNCHANGED sel
                                                    ELSE sel' = Apply(sel, g) /\ UNCHANGED asking
          BY <3>1 DEF ToggleMode
        <4>2. sel' = sel \/ sel' = Apply(sel, g)
          BY <4>1
        <4> QED BY <2>1, <4>2, DraftsStayGrants DEF DraftOK
      <3>2. CASE RemoveDirectory(d)
        BY <3>2 DEF RemoveDirectory, DraftOK
      <3> QED BY <1>15, <3>1, <3>2
    <2> QED BY <1>3, <1>15, <2>2 DEF ToggleMode, RemoveDirectory, DraftOK
  <1>16. ASSUME NEW x \in Extras, ToggleExtra(x) PROVE DraftOK'
    <2>1. sel' \subseteq sel \union {<<"extra", x>>}
      BY <1>16 DEF ToggleExtra
    <2> QED BY <1>3, <1>16, <2>1, ConstantGrants DEF ToggleExtra, DraftOK
  <1>17. ASSUME NEW p \in Screens, OpenScreen(p) PROVE DraftOK'
    <2>1. dests' = IF p = "ssh" THEN Destinations \in sel ELSE dests
      BY <1>17 DEF OpenScreen
    <2>2. dests' \in BOOLEAN
      <3>1. CASE p = "ssh"
        <4>1. dests' = (Destinations \in sel)
          BY <2>1, <3>1
        <4>2. (Destinations \in sel) \in BOOLEAN
          OBVIOUS
        <4> QED BY <4>1, <4>2
      <3>2. CASE p # "ssh"
        BY <2>1, <3>2 DEF DraftOK
      <3> QED BY <3>1, <3>2
    <2>3. sel' = sel /\ UNCHANGED <<approved, decisions, githubOk>>
      BY <1>17 DEF OpenScreen
    <2>4. sel' \subseteq Items
      BY <2>3 DEF DraftOK
    <2> QED BY <1>3, <2>2, <2>3, <2>4
  <1>18. ASSUME NEW f \in AllowedFlags \union OpenFlags, ToggleFlag(f) PROVE DraftOK'
    <2>1. sel' \subseteq sel \/ sel' = Enable(sel, f)
      BY <1>18 DEF ToggleFlag
    <2>2. sel' \subseteq Items
      BY <2>1, DraftsStayGrants DEF DraftOK
    <2> QED BY <1>3, <1>18, <2>2 DEF ToggleFlag, DraftOK
  <1>19. ASSUME NEW p \in {"closed", "developer", "mostly_open"}, ChoosePreset(p) PROVE DraftOK'
    BY <1>1, <1>4, <1>19 DEF ChoosePreset, DraftOK
  <1>20. CASE ConfirmDialog
    <2>1. UNCHANGED <<decisions, dests>>
      BY <1>20 DEF ConfirmDialog
    <2>2. dialog.kind = "open" => dialog.item[2] \in AllowedFlags \union OpenFlags
      BY DEF DialogOK, Grants
    <2>3. dialog.kind = "extra" => dialog.item \in Items
      BY ConstantGrants DEF DialogOK, Grants
    <2>4. sel' \subseteq Items /\ approved' \subseteq Requests
      BY <1>4, <1>20, <2>2, <2>3, ConfirmDialogChanges, DraftsStayGrants DEF DraftOK
    <2>5. githubOk' \in BOOLEAN
      BY <1>20, ConfirmDialogChanges DEF DraftOK
    <2> QED BY <1>1, <2>1, <2>4, <2>5 DEF DraftOK
  <1> QED BY <1>2, <1>6, <1>7, <1>8, <1>9, <1>10, <1>11, <1>12, <1>13, <1>14, <1>15, <1>16, <1>17,
             <1>18, <1>19, <1>20, DraftAlone DEF Quiet, Confirming
LEMMA ConfirmedAreOpen ==
  ASSUME Types, NEW new, Confirms(new)
  PROVE  confirmed' \subseteq OpenItems
  BY DEF Confirms, Types

LEMMA TypesStep == Types /\ [Next]_vars => Types'
PROOF
  <1> SUFFICES ASSUME Types, [Next]_vars PROVE Types'
    OBVIOUS
  <1>1. CASE Next
    <2>1. Quiet \/ Confirming
      BY <1>1 DEF Next, Confirming
    <2>2. confirmed' \subseteq OpenItems
      BY <1>1, ConfirmedAreOpen DEF Next
    <2> QED BY <2>1, <2>2, PlaceStep, DraftStep, DialogStep, AskingStep DEF Types
  <1>2. CASE UNCHANGED vars
    BY <1>2 DEF vars, inputs, draft, Types, PlaceOK, DraftOK, DialogOK, AskingOK, Asked
  <1> QED BY <1>1, <1>2

(* Every variable of a review keeps its type, whatever the choices, the    *)
(* requests and the ways to begin.                                         *)
THEOREM ReviewsAreTyped == Spec => []TypeOK
PROOF
  <1>1. Spec => []Types
    BY TypesBegin, TypesStep, PTL DEF Spec
  <1> QED BY <1>1, TypesAreTyped, PTL

(***************************************************************************)
(* What is saved was confirmed.  Every OPEN grant of the draft was, except *)
(* the token that the developer preset turns on, and so was every approval *)
(* of the wrapper's requests that waits to be applied.                     *)
(***************************************************************************)
Sure(i) == Covers(i) \subseteq confirmed \/ (i = Github /\ ~githubOk)

DraftSure == \A i \in sel \intersect OpenItems : Sure(i)
ApprovalsSure ==
  screen = "wrapper" => \A q \in Approvals : Covers(q) \intersect OpenItems \subseteq confirmed
SavedSure == end \in {"saved", "launched"} /\ Github \in sel => githubOk

AllSure == DraftSure /\ ApprovalsSure /\ SavedSure

LEMMA SureIsConfirmed ==
  ASSUME Types, AllSure
  PROVE  OpenConfirmed
PROOF
  <1> SUFFICES ASSUME end \in {"saved", "launched"}, NEW i \in sel \intersect OpenItems
               PROVE  i \in confirmed
    BY DEF OpenConfirmed
  <1>1. i \in Covers(i)
    BY CoversGrants DEF Types, DraftOK
  <1>2. ~(i = Github /\ ~githubOk)
    BY DEF AllSure, SavedSure
  <1> QED BY <1>1, <1>2 DEF AllSure, DraftSure, Sure

LEMMA SureBegins == Init => AllSure
PROOF
  <1> SUFFICES ASSUME Init PROVE AllSure
    OBVIOUS
  <1>1. PICK r \in Reviews : Begin(r)
    BY DEF Init
  <1> USE DEF Begin
  <1> DEFINE begin == IF r.first THEN Preset("developer") ELSE r.sel
  <1>2. r \in [sel : SUBSET Items, approved : SUBSET Requests, first : BOOLEAN, requests : SUBSET Requests]
        /\ (r.first => r.sel = {})
    BY ReviewAssumption
  <1>3. begin \subseteq Items
    BY <1>2, PresetsAreGrants
  <1>4. sel \subseteq begin
    BY <1>1, <1>3, DraftsStayGrants
  <1>5. ASSUME r.first PROVE DraftSure
    <2>1. sel \intersect OpenItems \subseteq {Github}
      BY <1>4, <1>5, PresetsAreGrants
    <2>2. ~githubOk
      <3>1. githubOk = (Github \in r.sel)
        BY <1>1
      <3>2. Github \notin r.sel
        BY <1>2, <1>5
      <3> QED BY <3>1, <3>2
    <2> QED BY <2>1, <2>2 DEF DraftSure, Sure
  <1>6. ASSUME ~r.first PROVE DraftSure
    <2>1. sel \subseteq r.sel
      BY <1>4, <1>6
    <2>2. confirmed = UNION {Covers(i) : i \in r.sel \intersect OpenItems}
      BY <1>1
    <2> QED BY <2>1, <2>2 DEF DraftSure, Sure
  <1>7. ApprovalsSure
    <2>1. decisions = [q \in r.requests |-> "none"] /\ start.requests = r.requests
      BY <1>1, <1>2
    <2>2. Approvals = {}
      BY <2>1 DEF Approvals
    <2> QED BY <2>2 DEF ApprovalsSure
  <1>8. SavedSure
    BY <1>1 DEF SavedSure
  <1>9. DraftSure
    BY <1>5, <1>6
  <1> QED BY <1>7, <1>8, <1>9 DEF AllSure

(* A grant gained is confirmed, now or before, or is the token that a      *)
(* preset turned on.                                                       *)
GainedSure(new) ==
  /\ \A i \in (sel' \intersect OpenItems) \ sel :
        Covers(i) \subseteq confirmed \union new \/ (i = Github /\ ~githubOk')
  /\ githubOk' => githubOk \/ Github \in new

LEMMA GainedIsSure ==
  ASSUME Types, Types', DraftSure, NEW new, Confirms(new), GainedSure(new)
  PROVE  DraftSure'
PROOF
  <1> SUFFICES ASSUME NEW i \in sel' \intersect OpenItems, ~(i = Github /\ ~githubOk')
               PROVE  Covers(i) \subseteq confirmed'
    BY DEF DraftSure, Sure
  <1>1. Covers(i) \subseteq OpenItems /\ Covers(i) \subseteq Standing'
    BY CoversGrants DEF Standing, Types, DraftOK
  <1>2. Covers(Github) = {Github}
    BY DEF Covers, Carries, Github
  <1>3. Covers(i) \subseteq confirmed \union new
    <2>1. CASE i \notin sel
      BY <2>1 DEF GainedSure
    <2>2. CASE i \in sel /\ Covers(i) \subseteq confirmed
      BY <2>2
    <2>3. CASE i \in sel /\ i = Github /\ ~githubOk
      BY <1>2, <2>3 DEF GainedSure
    <2> QED BY <2>1, <2>2, <2>3 DEF DraftSure, Sure
  <1> QED BY <1>1, <1>3 DEF Confirms

LEMMA QuietGains ==
  ASSUME Types, DraftSure, ApprovalsSure, Quiet
  PROVE  GainedSure({})
PROOF
  <1> USE DEF Types
  <1>1. sel' \intersect OpenItems \subseteq sel /\ githubOk' = githubOk => GainedSure({})
    BY DEF GainedSure
  <1>2. UNCHANGED draft => GainedSure({})
    BY DEF GainedSure, draft
  <1>3. CASE CompleteRequests
    <2>1. githubOk' = githubOk /\ screen = "wrapper" /\ sel' = ApplyAll(sel, Approvals)
      BY <1>3 DEF CompleteRequests, OnScreen
    <2>2. SUFFICES ASSUME NEW i \in (sel' \intersect OpenItems) \ sel
                   PROVE  Covers(i) \subseteq confirmed
      BY <2>1 DEF GainedSure
    <2>3. PICK q \in Approvals : i \in Carries(q)
      BY <2>1 DEF ApplyAll
    <2>4. q \in Items
      BY ConstantGrants DEF Approvals, PlaceOK
    <2>5. Covers(i) \subseteq Covers(q) /\ Covers(i) \subseteq OpenItems
      BY <2>3, <2>4, ConstantGrants, CoversGrants
    <2> QED BY <2>1, <2>5 DEF ApprovalsSure
  <1>4. \A keys, d : sel' = WithKeys(sel, keys, d) /\ keys \subseteq Keys => sel' \intersect OpenItems \subseteq sel
    <2>1. \A keys, d : keys \subseteq Keys => WithKeys(sel, keys, d) \subseteq sel \union RestrictedSsh
      BY DEF WithKeys, RestrictedSsh, Grants
    <2> QED BY <2>1, ConstantGrants
  <1>5. ASSUME NEW k \in Keys, SelectKey(k) PROVE GainedSure({})
    <2>1. \E keys \in SUBSET Keys : sel' = WithKeys(sel, keys, dests)
      BY <1>5 DEF SelectKey, KeysOf
    <2> QED BY <1>1, <1>4, <1>5, <2>1 DEF SelectKey
  <1>6. CASE EditDestinations
    <2>1. KeysOf(sel) \subseteq Keys
      BY DEF KeysOf
    <2> QED BY <1>1, <1>4, <1>6, <2>1 DEF EditDestinations
  <1>7. CASE DisableKeys
    BY <1>1, <1>7 DEF DisableKeys
  <1>8. ASSUME NEW n \in EnvNames, ChooseVariable(n) PROVE GainedSure({})
    BY <1>1, <1>8 DEF ChooseVariable
  <1>9. ASSUME NEW r \in start.requests, RejectRequest(r) PROVE GainedSure({})
    BY <1>1, <1>9 DEF RejectRequest
  <1>10. ASSUME NEW g \in EveryDir, sel' = Apply(sel, g), NEW i \in (sel' \intersect OpenItems) \ sel
         PROVE  i = g
    BY <1>10 DEF Apply, ApplyAll, Carries, EveryDir
  <1>11. ASSUME NEW g \in EveryDir, AddDirectory(g) PROVE GainedSure({})
    BY <1>1, <1>10, <1>11 DEF AddDirectory
  <1>12. ASSUME NEW d \in Dirs, RemoveDirectory(d) PROVE GainedSure({})
    <2>1. sel' \subseteq sel /\ githubOk' = githubOk
      BY <1>12 DEF RemoveDirectory
    <2> QED BY <1>1, <2>1
  <1>13. ASSUME NEW d \in Dirs, ToggleMode(d) PROVE GainedSure({})
    <2>1. PICK was \in DirGrants(d) \intersect sel, g \in DirGrants(d) :
            /\ g # was /\ Prepares(sel, g)
            /\ IF g \in OpenItems /\ g[1] = "rw" THEN Ask("preview", g) /\ UNCHANGED sel
                                                ELSE sel' = Apply(sel, g) /\ UNCHANGED asking
      BY <1>13 DEF ToggleMode
    <2>2. githubOk' = githubOk
      BY <1>13 DEF ToggleMode
    <2>3. CASE sel' = sel
      BY <1>1, <2>2, <2>3
    <2>4. CASE sel' = Apply(sel, g) /\ g \notin OpenItems
      <3>1. g \in EveryDir
        BY DEF DirGrants, EveryDir
      <3> QED BY <1>1, <1>10, <2>2, <2>4, <3>1
    <2>5. CASE sel' = Apply(sel, g) /\ g \in OpenItems /\ g[1] # "rw"
      <3>1. g = <<"ro", d>> /\ was = <<"rw", d>>
        BY <2>1, <2>5 DEF DirGrants
      <3>2. was \in OpenItems /\ was # Github
        <4>1. d \in BroadDirs
          BY <2>5, <3>1, SelectionAssumption DEF OpenItems, Grants, EveryDir
        <4> QED BY <3>1, <4>1 DEF OpenItems, EveryDir, Github
      <3>3. Covers(was) \subseteq confirmed
        BY <3>2 DEF DraftSure, Sure
      <3>4. Covers(g) \subseteq Covers(was)
        BY <3>1 DEF Covers, Carries, DirGrants
      <3>5. g \in EveryDir
        BY DEF DirGrants, EveryDir
      <3> QED BY <1>10, <2>2, <2>5, <3>3, <3>4, <3>5 DEF GainedSure
    <2> QED BY <2>1, <2>3, <2>4, <2>5
  <1>14. ASSUME NEW x \in Extras, ToggleExtra(x) PROVE GainedSure({})
    <2>1. sel' \subseteq sel \/ (<<"extra", x>> \notin OpenItems /\ sel' = sel \union {<<"extra", x>>})
      BY <1>14 DEF ToggleExtra
    <2> QED BY <1>1, <1>14, <2>1 DEF ToggleExtra
  <1>15. ASSUME NEW p \in Screens, OpenScreen(p) PROVE GainedSure({})
    BY <1>1, <1>15 DEF OpenScreen
  <1>16. ASSUME NEW f \in AllowedFlags \union OpenFlags, ToggleFlag(f) PROVE GainedSure({})
    <2>1. sel' \subseteq sel \/ (<<"flag", f>> \notin OpenItems /\ sel' = Enable(sel, f))
      BY <1>16 DEF ToggleFlag
    <2>2. sel' \intersect OpenItems \subseteq sel
      BY <2>1 DEF Enable
    <2>3. githubOk' = githubOk
      BY <1>16 DEF ToggleFlag
    <2> QED BY <1>1, <2>2, <2>3
  <1>17. ASSUME NEW p \in {"closed", "developer", "mostly_open"}, ChoosePreset(p) PROVE GainedSure({})
    <2>1. CASE p = "mostly_open"
      BY <1>1, <1>17, <2>1 DEF ChoosePreset
    <2>2. CASE p = "developer"
      <3>1. sel' \intersect OpenItems \subseteq {Github} /\ githubOk' = FALSE
        BY <1>17, <2>2, PresetsAreGrants DEF ChoosePreset, ApplyPreset
      <3> QED BY <3>1 DEF GainedSure
    <2>3. CASE p = "closed"
      <3>1. sel' = {} /\ githubOk' = githubOk
        BY <1>17, <2>3 DEF ChoosePreset, ApplyPreset, Preset
      <3> QED BY <1>1, <3>1
    <2> QED BY <2>1, <2>2, <2>3
  <1> QED BY <1>2, <1>3, <1>5, <1>6, <1>7, <1>8, <1>9, <1>11, <1>12, <1>13, <1>14, <1>15, <1>16, <1>17,
             DraftAlone DEF Quiet

LEMMA DisclosureGains ==
  ASSUME Types, ApproveRequest \/ ShareVariable \/ ShareDirectory
  PROVE  GainedSure(Covers(asking.item)) /\ asking.item \in Items
PROOF
  <1>1. asking # NotAsking
    BY DEF ApproveRequest, ShareVariable, ShareDirectory, Agrees, Asking, NotAsking
  <1>2. asking.item \in Items
    BY <1>1, ConstantGrants DEF Types, AskingOK, Asked, PlaceOK, Grants
  <1>3. githubOk' = githubOk
    BY DEF ApproveRequest, ShareVariable, ShareDirectory
  <1>4. sel' \subseteq sel \union Carries(asking.item)
    BY DEF ApproveRequest, ShareVariable, ShareDirectory, Apply, ApplyAll
  <1>5. \A i \in Carries(asking.item) : Covers(i) \subseteq Covers(asking.item)
    BY <1>2, CoversGrants
  <1> QED BY <1>2, <1>3, <1>4, <1>5 DEF GainedSure

LEMMA DialogGains ==
  ASSUME Types, ConfirmDialog
  PROVE  GainedSure(InDialog)
PROOF
  <1> USE DEF Types
  <1>1. \A f : Covers(<<"flag", f>>) = {<<"flag", f>>}
    BY DEF Covers, Carries
  <1>2. CASE dialog.kind = "open"
    <2>1. /\ sel' = Enable(sel, dialog.item[2])
          /\ githubOk' = (githubOk \/ dialog.item = Github)
      BY <1>2, ConfirmDialogChanges
    <2>2. PICK f \in OpenFlags : dialog.item = <<"flag", f>>
      BY <1>2 DEF DialogOK, Grants
    <2>3. sel' \subseteq sel \union {dialog.item}
      BY <2>1, <2>2 DEF Enable
    <2>4. InDialog = {dialog.item}
      BY <1>2 DEF InDialog
    <2> QED BY <1>1, <2>1, <2>2, <2>3, <2>4 DEF GainedSure
  <1>3. CASE dialog.kind = "mostly"
    <2>1. sel' = Preset("mostly_open") /\ InDialog = Preset("mostly_open")
      BY <1>3, ConfirmDialogChanges DEF ApplyPreset, InDialog
    <2>2. Github \in Preset("mostly_open")
      BY SelectionAssumption DEF Github, Preset, Grants
    <2>3. \A i \in Preset("mostly_open") : Covers(i) = {i}
      BY <1>1 DEF Preset, Grants
    <2> QED BY <2>1, <2>2, <2>3 DEF GainedSure
  <1>4. CASE dialog.kind = "extra"
    <2>1. sel' = sel \union {dialog.item} /\ githubOk' = githubOk
      BY <1>4, ConfirmDialogChanges
    <2>2. PICK x \in Extras : dialog.item = <<"extra", x>>
      BY <1>4 DEF DialogOK, Grants
    <2>3. Covers(dialog.item) = {dialog.item} /\ InDialog = {dialog.item}
      BY <1>4, <2>2 DEF Covers, Carries, InDialog
    <2> QED BY <2>1, <2>3 DEF GainedSure
  <1>5. CASE dialog.kind = "github"
    <2>1. sel' = sel
      BY <1>5, ConfirmDialogChanges
    <2>2. InDialog = {Github}
      BY <1>5 DEF InDialog, DialogOK
    <2> QED BY <2>1, <2>2 DEF GainedSure
  <1> QED BY <1>2, <1>3, <1>4, <1>5, ConfirmDialogChanges

LEMMA StillReviewing ==
  ASSUME Quiet \/ Confirming
  PROVE  end = "open"
  BY DEF Quiet, Confirming, Reviewing, OnScreen, OnList, DialogUp, Asking, Agrees,
         ExitKeep, ExitDiscard, ExitSave, Resize, UnsafeExit, UnsafeBack,
         Exit, Scroll, EnterRefused, ShowConfirmation, ChooseAnswer, CancelAsking, PrepareApprove,
         RejectRequest, CompleteRequests, SelectKey, EditDestinations, DisableKeys, ChooseVariable,
         AddDirectory, ToggleMode, RemoveDirectory, ToggleExtra, Back, OpenScreen, ToggleFlag,
         ChoosePreset, Save, ChooseConfirm, CancelDialog, ApproveRequest, ShareVariable,
         ShareDirectory, ConfirmDialog

\* No screen leads back to the wrapper's requests.
LEMMA WrapperFirst ==
  ASSUME Quiet \/ Confirming, screen' = "wrapper"
  PROVE  screen = "wrapper"
  BY DEF Quiet, Confirming, OnScreen,
         ExitKeep, ExitDiscard, ExitSave, Resize, UnsafeExit, UnsafeBack, inputs,
         Exit, Scroll, EnterRefused, ShowConfirmation, ChooseAnswer, CancelAsking, PrepareApprove,
         RejectRequest, CompleteRequests, SelectKey, EditDestinations, DisableKeys, ChooseVariable,
         AddDirectory, ToggleMode, RemoveDirectory, ToggleExtra, Back, OpenScreen, ToggleFlag,
         ChoosePreset, Save, ChooseConfirm, CancelDialog, ApproveRequest, ShareVariable,
         ShareDirectory, ConfirmDialog

LEMMA DecisionsAlone ==
  ASSUME \/ CompleteRequests \/ EditDestinations \/ DisableKeys
         \/ ShareVariable \/ ShareDirectory \/ ConfirmDialog
         \/ \E k \in Keys : SelectKey(k)
         \/ \E n \in EnvNames : ChooseVariable(n)
         \/ \E g \in EveryDir : AddDirectory(g)
         \/ \E d \in Dirs : ToggleMode(d) \/ RemoveDirectory(d)
         \/ \E x \in Extras : ToggleExtra(x)
         \/ \E p \in Screens : OpenScreen(p)
         \/ \E f \in AllowedFlags \union OpenFlags : ToggleFlag(f)
         \/ \E p \in {"closed", "developer", "mostly_open"} : ChoosePreset(p)
  PROVE  decisions' = decisions
  BY DEF CompleteRequests, EditDestinations, DisableKeys, ShareVariable, ShareDirectory,
     ConfirmDialog, SelectKey, ChooseVariable, AddDirectory, ToggleMode, RemoveDirectory,
     ToggleExtra, OpenScreen, ToggleFlag, ChoosePreset

\* What is approved grows only by the answer to a disclosure.
LEMMA ApprovalsStep ==
  ASSUME Types, Quiet \/ Confirming
  PROVE  /\ Quiet \/ ConfirmDialog => Approvals' \subseteq Approvals
         /\ Approvals' \subseteq Approvals \union {asking.item}
PROOF
  <1> USE DEF Types
  <1>1. start' = start
    BY StartStays
  <1>2. decisions' = decisions => Approvals' = Approvals
    BY <1>1 DEF Approvals
  <1>3. ASSUME ApproveRequest PROVE Approvals' \subseteq Approvals \union {asking.item}
    <2>1. decisions' = [decisions EXCEPT ![asking.item] = "approve"]
      BY <1>3 DEF ApproveRequest
    <2> QED BY <1>1, <2>1 DEF Approvals, DraftOK
  <1>4. ASSUME NEW r \in start.requests, RejectRequest(r) PROVE Approvals' \subseteq Approvals
    <2>1. decisions' = [decisions EXCEPT ![r] = "reject"]
      BY <1>4 DEF RejectRequest
    <2> QED BY <1>1, <2>1 DEF Approvals, DraftOK
  <1>5. UNCHANGED draft => decisions' = decisions
    BY DEF draft
  <1> QED BY <1>2, <1>3, <1>4, <1>5, DraftAlone, DecisionsAlone DEF Quiet, Confirming

LEMMA ApprovalsStaySure ==
  ASSUME Types, Types', ApprovalsSure, Quiet \/ Confirming, NEW new, Confirms(new),
         Approvals' \subseteq Approvals \/ new = Covers(asking.item)
  PROVE  ApprovalsSure'
PROOF
  <1> SUFFICES ASSUME screen' = "wrapper", NEW q \in Approvals', NEW x \in Covers(q) \intersect OpenItems
               PROVE  x \in confirmed'
    BY DEF ApprovalsSure
  <1>1. screen = "wrapper"
    BY WrapperFirst
  <1>2. x \in Standing'
    BY DEF Standing
  <1>3. q \in Approvals \/ (q = asking.item /\ new = Covers(asking.item))
    BY ApprovalsStep
  <1>4. x \in confirmed \/ x \in new
    BY <1>1, <1>3 DEF ApprovalsSure
  <1> QED BY <1>2, <1>4 DEF Confirms

LEMMA SavedStaysSure ==
  ASSUME Types, SavedSure, Quiet \/ Confirming
  PROVE  SavedSure'
PROOF
  <1> SUFFICES ASSUME end' \in {"saved", "launched"}, Github \in sel' PROVE githubOk'
    BY DEF SavedSure
  <1>1. end = "open" /\ end' # end
    BY StillReviewing
  <1>2. CASE ExitDiscard \/ UnsafeExit \/ Exit
    BY <1>1, <1>2 DEF ExitDiscard, UnsafeExit, Exit, RequestExit
  <1>3. CASE ExitSave \/ Save
    <2>1. \E only : RequestSave(only)
      BY <1>3 DEF ExitSave, Save
    <2>2. ~(Github \in sel /\ ~githubOk)
      BY <1>1, <2>1 DEF RequestSave
    <2>3. sel' = sel /\ githubOk' = githubOk
      BY <1>3 DEF ExitSave, Save, draft
    <2> QED BY <2>2, <2>3
  <1>4. CASE ConfirmDialog
    BY <1>1, <1>4, ConfirmDialogChanges
  <1> QED BY <1>1, <1>2, <1>3, <1>4, EndAlone DEF Quiet, Confirming

LEMMA SureStep == Types /\ Types' /\ AllSure /\ [Next]_vars => AllSure'
PROOF
  <1> SUFFICES ASSUME Types, Types', AllSure, [Next]_vars PROVE AllSure'
    OBVIOUS
  <1> USE DEF AllSure
  <1>1. CASE Quiet /\ Confirms({})
    BY <1>1, ApprovalsStep, QuietGains, GainedIsSure, ApprovalsStaySure, SavedStaysSure
  <1>2. CASE (ApproveRequest \/ ShareVariable \/ ShareDirectory) /\ Confirms(Covers(asking.item))
    BY <1>2, DisclosureGains, GainedIsSure, ApprovalsStaySure, SavedStaysSure DEF Confirming
  <1>3. CASE ConfirmDialog /\ Confirms(InDialog)
    BY <1>3, ApprovalsStep, DialogGains, GainedIsSure, ApprovalsStaySure, SavedStaysSure DEF
       Confirming
  <1>4. CASE UNCHANGED vars
    BY <1>4 DEF vars, draft, inputs, DraftSure, Sure, ApprovalsSure, Approvals, SavedSure
  <1> QED BY <1>1, <1>2, <1>3, <1>4 DEF Next

(* Every OPEN grant that a review saves was confirmed since it was last    *)
(* off, or stood in the stored policy, for any choices, requests and keys. *)
THEOREM SavedIsConfirmed == Spec => []OpenConfirmed
PROOF
  <1>1. Spec => []Types
    BY TypesBegin, TypesStep, PTL DEF Spec
  <1>2. Spec => []AllSure
    BY <1>1, SureBegins, SureStep, PTL DEF Spec
  <1> QED BY <1>1, <1>2, SureIsConfirmed, PTL

(***************************************************************************)
(* The wrapper's requests.  They are left by deciding them, once, and      *)
(* until then the draft stays without what earlier approvals granted.      *)
(***************************************************************************)
LEMMA WrapperStep ==
  ASSUME Quiet \/ Confirming, screen = "wrapper"
  PROVE  CompleteRequests \/ (screen' = "wrapper" /\ UNCHANGED <<sel, approved>>)
  BY DEF Quiet, Confirming, OnScreen, OnList, DialogUp, Asking, inputs, draft,
         ExitKeep, ExitDiscard, ExitSave, Resize, UnsafeExit, UnsafeBack,
         Exit, Scroll, EnterRefused, ShowConfirmation, ChooseAnswer, CancelAsking, PrepareApprove,
         RejectRequest, CompleteRequests, SelectKey, EditDestinations, DisableKeys, ChooseVariable,
         AddDirectory, ToggleMode, RemoveDirectory, ToggleExtra, Back, OpenScreen, ToggleFlag,
         ChoosePreset, Save, ChooseConfirm, CancelDialog, ApproveRequest, ShareVariable,
         ShareDirectory, ConfirmDialog

\* Past the requests nothing is decided any more, and approvals are only forgotten.
LEMMA LaterStep ==
  ASSUME Types, Quiet \/ Confirming, screen # "wrapper"
  PROVE  decisions' = decisions /\ approved' \in {approved, {}}
PROOF
  <1>1. UNCHANGED draft => decisions' = decisions /\ approved' = approved
    BY DEF draft
  <1>2. ~ApproveRequest /\ ~CompleteRequests /\ \A r \in start.requests : ~RejectRequest(r)
    BY DEF ApproveRequest, CompleteRequests, RejectRequest, OnScreen
  <1>3. ConfirmDialog => approved' \in {approved, {}}
    BY ConfirmDialogChanges DEF ApplyPreset
  <1>4. \A p \in {"closed", "developer", "mostly_open"} : ChoosePreset(p) => approved' \in {approved, {}}
    BY DEF ChoosePreset, ApplyPreset
  <1>5. ASSUME \/ EditDestinations \/ DisableKeys \/ ShareVariable \/ ShareDirectory
               \/ \E k \in Keys : SelectKey(k)
               \/ \E n \in EnvNames : ChooseVariable(n)
               \/ \E g \in EveryDir : AddDirectory(g)
               \/ \E d \in Dirs : ToggleMode(d) \/ RemoveDirectory(d)
               \/ \E x \in Extras : ToggleExtra(x)
               \/ \E p \in Screens : OpenScreen(p)
               \/ \E f \in AllowedFlags \union OpenFlags : ToggleFlag(f)
        PROVE  approved' = approved
    BY <1>5 DEF EditDestinations, DisableKeys, ShareVariable, ShareDirectory, SelectKey,
       ChooseVariable, AddDirectory, ToggleMode, RemoveDirectory, ToggleExtra, OpenScreen,
       ToggleFlag
  <1> QED BY <1>1, <1>2, <1>3, <1>4, <1>5, DraftAlone, DecisionsAlone DEF Quiet, Confirming

AllDecided ==
  screen # "wrapper" /\ start.requests # {} =>
    (\A r \in start.requests : decisions[r] # "none") /\ approved \subseteq Approvals
LaunchedLater == end = "launched" => screen # "wrapper"
Withdrawn ==
  screen = "wrapper" => \A r \in start.approved : sel \intersect Carries(r) = {}

RequestsOK == AllDecided /\ LaunchedLater /\ Withdrawn

LEMMA RequestsBegin == Init => RequestsOK
PROOF
  <1> SUFFICES ASSUME Init PROVE RequestsOK
    OBVIOUS
  <1>1. PICK r \in Reviews : Begin(r)
    BY DEF Init
  <1> USE DEF Begin
  <1>2. r \in [sel : SUBSET Items, approved : SUBSET Requests, first : BOOLEAN, requests : SUBSET Requests]
    BY ReviewAssumption
  <1>3. start.requests = r.requests /\ start.approved = r.approved
    BY <1>1, <1>2
  <1>4. AllDecided /\ LaunchedLater
    BY <1>1, <1>3 DEF AllDecided, LaunchedLater
  <1>5. ASSUME screen = "wrapper", NEW q \in start.approved PROVE sel \intersect Carries(q) = {}
    <2>1. \E begin : sel = Revoke(begin, r.approved)
      BY <1>1, <1>5
    <2> QED BY <1>3, <2>1 DEF Revoke
  <1> QED BY <1>4, <1>5 DEF RequestsOK, Withdrawn

LEMMA RequestsStep == Types /\ RequestsOK /\ [Next]_vars => RequestsOK'
PROOF
  <1> SUFFICES ASSUME Types, RequestsOK, [Next]_vars PROVE RequestsOK'
    OBVIOUS
  <1> USE DEF RequestsOK
  <1>1. ASSUME Quiet \/ Confirming PROVE RequestsOK'
    <2>1. start' = start
      BY <1>1, StartStays
    <2>2. CASE CompleteRequests
      <3>1. /\ \A r \in start.requests : decisions[r] # "none"
            /\ approved' = Approvals /\ decisions' = decisions /\ screen' = "access"
        BY <2>2 DEF CompleteRequests
      <3>2. Approvals' = Approvals
        BY <2>1, <3>1 DEF Approvals
      <3> QED BY <2>1, <3>1, <3>2 DEF AllDecided, LaunchedLater, Withdrawn
    <2>3. CASE screen = "wrapper" /\ ~CompleteRequests
      <3>1. screen' = "wrapper" /\ UNCHANGED <<sel, approved>>
        BY <1>1, <2>3, WrapperStep
      <3>2. end' # "launched"
        <4>1. ~Save /\ ~ConfirmDialog
          BY <2>3 DEF Save, OnList, OnScreen, ConfirmDialog, DialogUp
        <4>2. ExitSave => end' # "launched"
          BY <2>3 DEF ExitSave, RequestSave, PrepareSave, LaunchedLater
        <4>3. ExitDiscard \/ UnsafeExit \/ Exit => end' # "launched"
          BY <2>3 DEF ExitDiscard, UnsafeExit, Exit, RequestExit, LaunchedLater
        <4>4. end' = end => end' # "launched"
          BY <2>3 DEF LaunchedLater
        <4> QED BY <1>1, <4>1, <4>2, <4>3, <4>4, EndAlone DEF Quiet, Confirming
      <3>3. AllDecided' /\ LaunchedLater'
        BY <3>1, <3>2 DEF AllDecided, LaunchedLater
      <3>4. Withdrawn'
        BY <2>1, <2>3, <3>1 DEF Withdrawn
      <3> QED BY <3>3, <3>4
    <2>4. CASE screen # "wrapper"
      <3>1. screen' # "wrapper"
        BY <1>1, <2>4, WrapperFirst
      <3>2. decisions' = decisions /\ approved' \in {approved, {}}
        BY <1>1, <2>4, LaterStep
      <3>3. Approvals' = Approvals
        BY <2>1, <3>2 DEF Approvals
      <3> QED BY <2>1, <2>4, <3>1, <3>2, <3>3 DEF AllDecided, LaunchedLater, Withdrawn
    <2> QED BY <2>2, <2>3, <2>4
  <1>2. CASE UNCHANGED vars
    BY <1>2 DEF vars, inputs, draft, AllDecided, LaunchedLater, Withdrawn, Approvals
  <1> QED BY <1>1, <1>2 DEF Next, Confirming

LEMMA Decides ==
  ASSUME RequestsOK, [Next]_vars, screen = "wrapper", screen' = "access",
         NEW r \in start.approved \ approved', NEW i \in Carries(r), i \in sel'
  PROVE  \E a \in approved' : i \in Carries(a)
PROOF
  <1>1. CompleteRequests
    BY WrapperStep DEF Next, Confirming, vars
  <1>2. sel' = ApplyAll(sel, Approvals) /\ approved' = Approvals
    BY <1>1 DEF CompleteRequests
  <1>3. i \notin sel
    BY DEF RequestsOK, Withdrawn
  <1> QED BY <1>2, <1>3 DEF ApplyAll

(* Nothing is launched before the wrapper's requests were decided, and     *)
(* what is recorded as approved was approved.                              *)
THEOREM RequestsComeFirst == Spec => []DecidedFirst
PROOF
  <1>1. Spec => []Types
    BY TypesBegin, TypesStep, PTL DEF Spec
  <1>2. RequestsOK => DecidedFirst
    BY DEF RequestsOK, AllDecided, LaunchedLater, DecidedFirst
  <1> QED BY <1>1, <1>2, RequestsBegin, RequestsStep, PTL DEF Spec

(* Deciding the requests leaves nothing of an approval that was not given  *)
(* again, except what another approval brings.                             *)
THEOREM WithdrawnStaysOut == Spec => DecisionsHold
PROOF
  <1>1. Spec => []Types
    BY TypesBegin, TypesStep, PTL DEF Spec
  <1>2. RequestsOK /\ [Next]_vars =>
          [screen = "wrapper" /\ screen' = "access" =>
             \A r \in start.approved \ approved' :
                \A i \in Carries(r) : i \in sel' => \E a \in approved' : i \in Carries(a)]_vars
    BY Decides
  <1> QED BY <1>1, <1>2, RequestsBegin, RequestsStep, PTL DEF Spec, DecisionsHold

(***************************************************************************)
(* A repeated Enter.  After an Enter no confirmation stands on its         *)
(* consent, unless the terminal is too small to take the next one; and     *)
(* the screens that keep the dialog's keys from it leave it on Cancel.     *)
(***************************************************************************)
Armed == dialog.confirm \/ (asking.phase = "confirm" /\ asking.confirm /\ asking.read)
Unarmed ==
  /\ screen \notin {"access", "additional"} => ~dialog.confirm
  /\ last = "enter" /\ safe => ~Armed

LEMMA FreshDialog ==
  /\ ~NoDialog.confirm
  /\ \A kind, i, only : ~Dialog(kind, i, only).confirm
  BY DEF NoDialog, Dialog

\* Only the keys of a dialog that is up move its choice to the consent.
LEMMA ConsentIsChosen ==
  ASSUME Types, Quiet \/ Confirming, dialog'.confirm
  PROVE  ChooseConfirm \/ dialog' = dialog
PROOF
  <1>1. \A only : RequestSave(only) => dialog' = dialog
    BY FreshDialog DEF RequestSave
  <1>2. ~ConfirmDialog /\ ~CancelDialog
    BY FreshDialog DEF ConfirmDialog, CancelDialog
  <1>3. ExitSave \/ Save => dialog' = dialog
    BY <1>1 DEF ExitSave, Save
  <1>4. \A x \in Extras : ToggleExtra(x) => dialog' = dialog
    BY FreshDialog DEF ToggleExtra
  <1>5. \A f \in AllowedFlags \union OpenFlags : ToggleFlag(f) => dialog' = dialog
    BY FreshDialog DEF ToggleFlag
  <1>6. \A p \in {"closed", "developer", "mostly_open"} : ChoosePreset(p) => dialog' = dialog
    BY FreshDialog DEF ChoosePreset
  <1> QED BY <1>2, <1>3, <1>4, <1>5, <1>6, DialogAlone DEF Quiet, Confirming

LEMMA LeavingTheList ==
  ASSUME Quiet \/ Confirming, screen' \notin {"access", "additional"}
  PROVE  screen' = screen \/ dialog = NoDialog
  BY DEF Quiet, Confirming, OnList, OnScreen, inputs,
         ExitKeep, ExitDiscard, ExitSave, Resize, UnsafeExit, UnsafeBack,
         Exit, Scroll, EnterRefused, ShowConfirmation, ChooseAnswer, CancelAsking, PrepareApprove,
         RejectRequest, CompleteRequests, SelectKey, EditDestinations, DisableKeys, ChooseVariable,
         AddDirectory, ToggleMode, RemoveDirectory, ToggleExtra, Back, OpenScreen, ToggleFlag,
         ChoosePreset, Save, ChooseConfirm, CancelDialog, ApproveRequest, ShareVariable,
         ShareDirectory, ConfirmDialog

\* A consent is given where the keys reach it, by Enter.
LEMMA Armable ==
  ASSUME Confirming
  PROVE  Armed /\ safe
  BY DEF Confirming, Armed, ApproveRequest, ShareVariable, ShareDirectory, ConfirmDialog, DialogUp,
         Agrees, Asking, OnScreen

LEMMA EnterDisarms ==
  ASSUME Types, Unarmed, Quiet \/ Confirming, last' = "enter", safe'
  PROVE  ~Armed'
PROOF
  <1> USE DEF Types
  <1>1. asking # NotAsking => screen \in {"wrapper", "environment", "directory"}
    BY DEF AskingOK
  <1>2. ASSUME dialog' = dialog, screen \notin {"access", "additional"} PROVE ~dialog'.confirm
    BY <1>2 DEF Unarmed
  <1>3. asking' = NotAsking => ~(asking'.phase = "confirm")
    BY DEF NotAsking
  <1>4. \A phase, i : Ask(phase, i) => ~asking'.confirm
    BY DEF Ask
  <1>5. \A i : Ask("preview", i) => asking'.phase # "confirm"
    BY DEF Ask
  <1>6. \A only : RequestSave(only) /\ dialog = NoDialog => ~dialog'.confirm
    BY FreshDialog DEF RequestSave
  <1>7. ~(ExitKeep \/ ExitDiscard \/ ExitSave \/ Resize \/ UnsafeExit \/ UnsafeBack \/ Exit
          \/ Scroll \/ ChooseAnswer \/ DisableKeys \/ Back \/ ChooseConfirm)
    BY DEF Press, ExitKeep, ExitDiscard, ExitSave, Resize, UnsafeExit, UnsafeBack, Exit, Scroll,
           ChooseAnswer, DisableKeys, Back, ChooseConfirm
  <1>8. ~(\/ \E r \in start.requests : PrepareApprove(r) \/ RejectRequest(r)
          \/ \E d \in Dirs : ToggleMode(d))
    BY DEF Press, PrepareApprove, RejectRequest, ToggleMode
  <1>9. CASE EnterRefused
    <2>1. asking' = asking /\ dialog' = dialog /\ safe
      BY <1>9 DEF EnterRefused, inputs
    <2>2. asking # NotAsking /\ ~asking.read
      BY <1>9, <2>1 DEF EnterRefused
    <2> QED BY <1>1, <1>2, <2>1, <2>2 DEF Armed
  <1>10. CASE ShowConfirmation \/ CancelAsking
    <2>1. screen \in {"wrapper", "environment", "directory"} /\ dialog' = dialog
      BY <1>10 DEF ShowConfirmation, CancelAsking, Asking
    <2>2. asking' = NotAsking \/ \E phase, i : Ask(phase, i)
      BY <1>10 DEF ShowConfirmation, CancelAsking
    <2> QED BY <1>2, <1>3, <1>4, <2>1, <2>2 DEF Armed
  <1>11. CASE \/ ApproveRequest \/ ShareVariable \/ ShareDirectory \/ CompleteRequests \/ EditDestinations
              \/ \E k \in Keys : SelectKey(k)
              \/ \E d \in Dirs : RemoveDirectory(d)
    <2>1. screen \notin {"access", "additional"} /\ dialog' = dialog
      BY <1>11 DEF ApproveRequest, ShareVariable, ShareDirectory, CompleteRequests,
         EditDestinations, SelectKey, RemoveDirectory, OnScreen
    <2>2. asking' = NotAsking
      BY <1>1, <1>11 DEF ApproveRequest, ShareVariable, ShareDirectory, CompleteRequests,
         EditDestinations, SelectKey, RemoveDirectory, OnScreen, Agrees
    <2> QED BY <1>2, <1>3, <2>1, <2>2 DEF Armed
  <1>12. CASE \/ \E n \in EnvNames : ChooseVariable(n)
              \/ \E g \in EveryDir : AddDirectory(g)
    <2>1. screen \notin {"access", "additional"} /\ dialog' = dialog
      BY <1>12 DEF ChooseVariable, AddDirectory, OnScreen
    <2>2. asking' = NotAsking \/ \E i : Ask("preview", i)
      BY <1>12 DEF ChooseVariable, AddDirectory
    <2> QED BY <1>2, <1>3, <1>5, <2>1, <2>2 DEF Armed
  <1>13. ASSUME screen \in {"access", "additional"}, asking' = asking, ~dialog'.confirm PROVE ~Armed'
    BY <1>1, <1>3, <1>13 DEF Armed
  <1>14. ASSUME NEW x \in Extras, ToggleExtra(x) PROVE ~Armed'
    BY <1>13, <1>14, FreshDialog DEF ToggleExtra, OnScreen
  <1>15. ASSUME NEW p \in Screens, OpenScreen(p) PROVE ~Armed'
    BY <1>13, <1>15, FreshDialog DEF OpenScreen, OnList, OnScreen
  <1>16. ASSUME NEW f \in AllowedFlags \union OpenFlags, ToggleFlag(f) PROVE ~Armed'
    BY <1>13, <1>16, FreshDialog DEF ToggleFlag, OnList, OnScreen
  <1>17. ASSUME NEW p \in {"closed", "developer", "mostly_open"}, ChoosePreset(p) PROVE ~Armed'
    BY <1>13, <1>17, FreshDialog DEF ChoosePreset, OnList, OnScreen
  <1>18. CASE Save
    BY <1>6, <1>13, <1>18 DEF Save, OnList, OnScreen
  <1>19. CASE CancelDialog \/ ConfirmDialog
    BY <1>13, <1>19, FreshDialog DEF CancelDialog, ConfirmDialog, DialogUp
  <1> QED BY <1>7, <1>8, <1>9, <1>10, <1>11, <1>12, <1>14, <1>15, <1>16, <1>17, <1>18, <1>19
          DEF Quiet, Confirming

LEMMA UnarmedBegins == Init => Unarmed
  BY FreshDialog DEF Init, Begin, Unarmed

LEMMA UnarmedStep == Types /\ Unarmed /\ [Next]_vars => Unarmed'
PROOF
  <1> SUFFICES ASSUME Types, Unarmed, [Next]_vars PROVE Unarmed'
    OBVIOUS
  <1>1. ASSUME Quiet \/ Confirming PROVE Unarmed'
    <2>1. ASSUME screen' \notin {"access", "additional"}, dialog'.confirm PROVE FALSE
      <3>1. screen' = screen \/ dialog = NoDialog
        BY <1>1, <2>1, LeavingTheList
      <3>2. CASE ChooseConfirm
        BY <2>1, <3>2 DEF ChooseConfirm, DialogUp
      <3>3. CASE dialog' = dialog
        BY <2>1, <3>1, <3>3, FreshDialog DEF Unarmed
      <3> QED BY <1>1, <2>1, <3>2, <3>3, ConsentIsChosen
    <2> QED BY <1>1, <2>1, EnterDisarms DEF Unarmed
  <1>2. CASE UNCHANGED vars
    BY <1>2 DEF vars, inputs, Unarmed, Armed
  <1> QED BY <1>1, <1>2 DEF Next, Confirming

(* No confirmation, of any screen, is given by an Enter that follows       *)
(* another, in any order of keys, screens and resizes.                     *)
THEOREM RepeatedEnterConsentsToNothing == Spec => NoDoubleEnter
PROOF
  <1>1. Spec => []Types
    BY TypesBegin, TypesStep, PTL DEF Spec
  <1>2. Unarmed /\ [Next]_vars => [confirmed' \ confirmed # {} => last # "enter"]_vars
    <2> SUFFICES ASSUME Unarmed, Next, confirmed' \ confirmed # {} PROVE last # "enter"
      OBVIOUS
    <2>1. ~(Quiet /\ Confirms({}))
      BY DEF Confirms
    <2>2. Confirming
      BY <2>1 DEF Next, Confirming
    <2> QED BY <2>2, Armable DEF Unarmed
  <1> QED BY <1>1, <1>2, UnarmedBegins, UnarmedStep, PTL DEF Spec, NoDoubleEnter
================================================================================
