--------------------------- MODULE JailSessionProofs ---------------------------
(***************************************************************************)
(* For every launch, host, port and limit: the session stays typed, a port *)
(* relays no more than its limit, the agent starts behind its bridges, and *)
(* a confirmed launch is the one that runs.                                *)
(***************************************************************************)
EXTENDS SessionInvariants, FiniteSetTheorems, TLAPS

USE DEF GrantedUnlocked

(***************************************************************************)
(* What the layering of configurations preserves, for any configurations,  *)
(* maps, harnesses and hosts: every operator keeps a configuration well    *)
(* formed, and the project's layer opens nothing.                          *)
(***************************************************************************)

(***************************************************************************)
(* Answers.                                                                *)
(***************************************************************************)
LEMMA FieldsOfConfig == DOMAIN EmptyConfig = Fields
  BY DEF EmptyConfig, Fields

LEMMA EmptyIsWellFormed == WellFormed(EmptyConfig)
  BY DEF WellFormed, Settled, EmptyConfig

LEMMA Answered ==
  ASSUME NEW c, DOMAIN c = Fields, NEW yes, NEW no
  PROVE  /\ DOMAIN Answer(c, yes, no) = Fields
         /\ Answer(c, yes, no).yes = yes \cup (c.yes \ no)
         /\ Answer(c, yes, no).no = no \cup (c.no \ yes)
         /\ \A f \in Fields \ {"yes", "no"} : Answer(c, yes, no)[f] = c[f]
  BY DEF Answer, Fields

LEMMA AnswerIsWellFormed ==
  ASSUME NEW c, WellFormed(c), NEW yes, NEW no, yes \subseteq Flags, no \subseteq Flags,
         yes \cap no = {}
  PROVE  WellFormed(Answer(c, yes, no))
  BY Answered, FieldsOfConfig DEF WellFormed, Settled

(* A configuration whose flags are those of another is as well formed and  *)
(* grants the same.                                                        *)
LEMMA SameFlags ==
  ASSUME NEW c, NEW d, DOMAIN d = Fields, d.yes = c.yes, d.no = c.no
  PROVE  /\ WellFormed(c) => WellFormed(d)
         /\ \A f : Grants(d, f) <=> Grants(c, f)
  BY FieldsOfConfig DEF WellFormed, Settled, Grants, Lockdown

LEMMA LayerIsWellFormed ==
  ASSUME NEW high, WellFormed(high), NEW low, WellFormed(low)
  PROVE  /\ WellFormed(Layer(high, low))
         /\ DOMAIN Layer(high, low) = Fields
         /\ Layer(high, low).yes = high.yes \cup (low.yes \ high.no)
         /\ Layer(high, low).no = high.no \cup (low.no \ high.yes)
  <1> DEFINE a == Answer(low, high.yes, high.no)
  <1>1. /\ WellFormed(a) /\ DOMAIN a = Fields
        /\ a.yes = high.yes \cup (low.yes \ high.no) /\ a.no = high.no \cup (low.no \ high.yes)
    BY AnswerIsWellFormed, Answered, FieldsOfConfig DEF WellFormed, Settled
  <1>2. /\ DOMAIN Layer(high, low) = DOMAIN a
        /\ Layer(high, low).yes = a.yes /\ Layer(high, low).no = a.no
    BY <1>1 DEF Layer, Fields
  <1> QED BY <1>1, <1>2, SameFlags

LEMMA MergeCliIsWellFormed ==
  ASSUME NEW cli, WellFormed(cli), NEW c, WellFormed(c)
  PROVE  /\ WellFormed(MergeCli(cli, c))
         /\ MergeCli(cli, c).yes = cli.yes \cup (c.yes \ cli.no)
         /\ MergeCli(cli, c).no = cli.no \cup (c.no \ cli.yes)
  <1> DEFINE l == Layer(cli, c)
  <1>1. /\ WellFormed(l) /\ DOMAIN l = Fields
        /\ l.yes = cli.yes \cup (c.yes \ cli.no) /\ l.no = cli.no \cup (c.no \ cli.yes)
    BY LayerIsWellFormed
  <1>2. /\ DOMAIN MergeCli(cli, c) = DOMAIN l /\ MergeCli(cli, c).yes = l.yes
        /\ MergeCli(cli, c).no = l.no
    BY <1>1 DEF MergeCli, Fields
  <1> QED BY <1>1, <1>2, SameFlags

(***************************************************************************)
(* The project's layer.                                                    *)
(***************************************************************************)
LEMMA TakeIsWellFormed ==
  ASSUME NEW c, WellFormed(c), NEW local, WellFormed(local), NEW fields
  PROVE  /\ WellFormed(Take(c, local, fields))
         /\ DOMAIN Take(c, local, fields) = Fields
         /\ Take(c, local, fields).yes = (local.yes \cap fields) \cup (c.yes \ (local.no \cap fields))
         /\ Take(c, local, fields).no = (local.no \cap fields) \cup (c.no \ (local.yes \cap fields))
         /\ \A f \in Fields \ {"yes", "no"} : Take(c, local, fields)[f] = c[f]
  <1>1. /\ local.yes \cap fields \subseteq Flags /\ local.no \cap fields \subseteq Flags
        /\ (local.yes \cap fields) \cap (local.no \cap fields) = {}
    BY DEF WellFormed, Settled
  <1>2. DOMAIN c = Fields
    BY FieldsOfConfig DEF WellFormed
  <1>3. WellFormed(Take(c, local, fields))
    BY <1>1, AnswerIsWellFormed DEF Take
  <1>4. /\ DOMAIN Take(c, local, fields) = Fields
        /\ Take(c, local, fields).yes = (local.yes \cap fields) \cup (c.yes \ (local.no \cap fields))
        /\ Take(c, local, fields).no = (local.no \cap fields) \cup (c.no \ (local.yes \cap fields))
        /\ \A f \in Fields \ {"yes", "no"} : Take(c, local, fields)[f] = c[f]
    BY <1>2, Answered DEF Take
  <1> QED BY <1>3, <1>4

(* The flags of a project that tightens grant nothing the baseline did not, *)
(* and lockdown, once on, stays on.                                         *)
LEMMA FlagsTighten ==
  ASSUME NEW base, WellFormed(base), NEW local, WellFormed(local)
  PROVE  /\ WellFormed(TightenFlags(base, local))
         /\ DOMAIN TightenFlags(base, local) = Fields
         /\ \A f \in Fields \ {"yes", "no"} : TightenFlags(base, local)[f] = base[f]
         /\ \A f : Grants(TightenFlags(base, local), f) => Grants(base, f)
         /\ Lockdown(base) => Lockdown(TightenFlags(base, local))
  <1> DEFINE first == {f \in Capabilities \ {"agent_state"} : Tightens(base, local, f)}
             early == Take(base, local, first)
             late == {f \in {"agent_state"} : Tightens(early, local, f)}
             last == late \cup {"no_save_config"}
             all == Take(early, local, last)
  <1>1. all = TightenFlags(base, local)
    BY DEF TightenFlags
  <1>2. /\ WellFormed(early) /\ DOMAIN early = Fields
        /\ early.yes = (local.yes \cap first) \cup (base.yes \ (local.no \cap first))
        /\ early.no = (local.no \cap first) \cup (base.no \ (local.yes \cap first))
        /\ \A f \in Fields \ {"yes", "no"} : early[f] = base[f]
    BY TakeIsWellFormed
  <1>3. /\ WellFormed(all) /\ DOMAIN all = Fields
        /\ all.yes = (local.yes \cap last) \cup (early.yes \ (local.no \cap last))
        /\ all.no = (local.no \cap last) \cup (early.no \ (local.yes \cap last))
        /\ \A f \in Fields \ {"yes", "no"} : all[f] = early[f]
    <2> HIDE DEF early, last
    <2> QED BY <1>2, TakeIsWellFormed
  <1>4. \A f :
            /\ Take(base, local, {f}).yes
                  = (local.yes \cap {f}) \cup (base.yes \ (local.no \cap {f}))
            /\ Take(base, local, {f}).no
                  = (local.no \cap {f}) \cup (base.no \ (local.yes \cap {f}))
    BY TakeIsWellFormed
  <1>5. \A f :
            /\ Take(early, local, {f}).yes
                  = (local.yes \cap {f}) \cup (early.yes \ (local.no \cap {f}))
            /\ Take(early, local, {f}).no
                  = (local.no \cap {f}) \cup (early.no \ (local.yes \cap {f}))
    <2> HIDE DEF early
    <2> QED BY <1>2, TakeIsWellFormed
  <1>6. Lockdown(base) => Lockdown(early)
    <2> SUFFICES ASSUME Lockdown(base) PROVE "lockdown" \notin local.no \cap first
      BY <1>2 DEF Lockdown
    <2>1. ASSUME "lockdown" \in local.no, "lockdown" \in first PROVE FALSE
      <3>1. ~Grants(base, "lockdown")
        BY DEF Grants, Lockdown, GrantedByYes, GrantedByNo, GrantedUnlessYes
      <3>2. "lockdown" \notin Take(base, local, {"lockdown"}).yes
        BY <2>1, <1>4 DEF WellFormed
      <3>3. Grants(Take(base, local, {"lockdown"}), "lockdown")
        BY <3>2 DEF Grants, GrantedUnlessYes
      <3> QED BY <2>1, <3>1, <3>3 DEF Tightens
    <2> QED BY <2>1
  <1>7. ASSUME NEW f, Grants(early, f) PROVE Grants(base, f)
    <2>1. CASE f \in first
      <3>1. f \in Capabilities /\ f # "agent_state" /\ (Grants(Take(base, local, {f}), f) => Grants(base, f))
        BY <2>1 DEF Tightens
      <3>2. (f \in early.yes <=> f \in Take(base, local, {f}).yes)
            /\ (f \in early.no <=> f \in Take(base, local, {f}).no)
        <4> DEFINE one == Take(base, local, {f})
        <4>1. /\ one.yes = (local.yes \cap {f}) \cup (base.yes \ (local.no \cap {f}))
              /\ one.no = (local.no \cap {f}) \cup (base.no \ (local.yes \cap {f}))
          BY <1>4
        <4> HIDE DEF first, early, one
        <4>2. f \in early.yes <=> f \in one.yes
          BY <1>2, <2>1, <4>1
        <4>3. f \in early.no <=> f \in one.no
          BY <1>2, <2>1, <4>1
        <4> QED BY <4>2, <4>3 DEF one
      <3> QED BY <1>7, <3>1, <3>2 DEF Grants
    <2>2. CASE f \notin first
      <3>1. (f \in early.yes <=> f \in base.yes) /\ (f \in early.no <=> f \in base.no)
        BY <1>2, <2>2
      <3> QED BY <1>6, <1>7, <3>1 DEF Grants
    <2> QED BY <2>1, <2>2
  <1>8. ASSUME NEW f, Grants(all, f) PROVE Grants(early, f)
    <2>0. Lockdown(all) <=> Lockdown(early)
      BY <1>3 DEF Lockdown
    <2>1. CASE f \in last /\ f \in Settled(local)
      <3>1. f = "agent_state" \/ f = "no_save_config"
        BY <2>1
      <3>2. f # "no_save_config"
        BY <1>8 DEF Grants, GrantedByYes, GrantedByNo, GrantedUnlessYes
      <3>3. f = "agent_state" /\ f \in late
        BY <3>1, <3>2, <2>1
      <3>4. f \notin all.no /\ ~Lockdown(early)
        BY <1>8, <2>0, <3>3 DEF Grants, GrantedByYes, GrantedByNo, GrantedUnlessYes
      <3>5. f \notin Take(early, local, {f}).no /\ ~Lockdown(Take(early, local, {f}))
        <4> HIDE DEF early, late, all
        <4>1. f \notin Take(early, local, {f}).no
          <5>1. /\ f \notin (local.no \cap late) \cup (early.no \ (local.yes \cap late))
                /\ f \in late
            BY <3>3, <3>4, <1>3
          <5>2. f \notin (local.no \cap {f}) \cup (early.no \ (local.yes \cap {f}))
            BY <5>1
          <5> QED BY <5>2, <1>5
        <4>2. "lockdown" \in Take(early, local, {f}).yes => "lockdown" \in early.yes
          BY <3>3, <1>5
        <4> QED BY <4>1, <4>2, <3>4 DEF Lockdown
      <3>6. Grants(Take(early, local, {f}), f)
        BY <3>3, <3>5 DEF Grants
      <3> QED BY <3>3, <3>6 DEF Tightens
    <2>2. CASE ~(f \in last /\ f \in Settled(local))
      <3>1. (f \in all.yes <=> f \in early.yes) /\ (f \in all.no <=> f \in early.no)
        BY <1>3, <2>2 DEF Settled
      <3> QED BY <1>8, <2>0, <3>1 DEF Grants
    <2> QED BY <2>1, <2>2
  <1>9. Lockdown(base) => Lockdown(all)
    BY <1>6, <1>3 DEF Lockdown
  <1> HIDE DEF all, early
  <1> QED BY <1>1, <1>2, <1>3, <1>7, <1>8, <1>9

(* A project's own lockdown is always taken, and nothing takes it away.     *)
LEMMA LockdownTaken ==
  ASSUME NEW base, WellFormed(base), NEW local, WellFormed(local)
  PROVE  Lockdown(TightenFlags(base, local)) <=> Lockdown(base) \/ Lockdown(local)
  <1> DEFINE first == {f \in Capabilities \ {"agent_state"} : Tightens(base, local, f)}
             early == Take(base, local, first)
             last == {f \in {"agent_state"} : Tightens(early, local, f)} \cup {"no_save_config"}
             all == Take(early, local, last)
  <1>1. all = TightenFlags(base, local)
    BY DEF TightenFlags
  <1>2. /\ WellFormed(early)
        /\ early.yes = (local.yes \cap first) \cup (base.yes \ (local.no \cap first))
    BY TakeIsWellFormed
  <1>3. all.yes = (local.yes \cap last) \cup (early.yes \ (local.no \cap last))
    <2> HIDE DEF early, last
    <2> QED BY <1>2, TakeIsWellFormed
  <1>4. "lockdown" \notin last
    OBVIOUS
  <1>5. "lockdown" \in all.yes <=> "lockdown" \in early.yes
    <2> HIDE DEF all, early, last
    <2> QED BY <1>3, <1>4
  <1>6. \A f : Take(base, local, {f}).yes = (local.yes \cap {f}) \cup (base.yes \ (local.no \cap {f}))
    BY TakeIsWellFormed
  <1>7. ASSUME Lockdown(local) PROVE "lockdown" \in early.yes
    <2>1. "lockdown" \in Take(base, local, {"lockdown"}).yes
      BY <1>6, <1>7 DEF Lockdown
    <2>2. ~Grants(Take(base, local, {"lockdown"}), "lockdown")
      BY <2>1 DEF Grants, GrantedByYes, GrantedByNo, GrantedUnlessYes
    <2>3. "lockdown" \in first
      BY <1>7, <2>2 DEF Tightens, Settled, Lockdown, Capabilities, GrantedUnlessYes
    <2> QED BY <1>2, <1>7, <2>3 DEF Lockdown
  <1>9. "lockdown" \in early.yes => "lockdown" \in base.yes \cup local.yes
    <2> HIDE DEF first, early
    <2> QED BY <1>2
  <1>10. Lockdown(base) => Lockdown(TightenFlags(base, local))
    BY FlagsTighten
  <1> HIDE DEF all, early
  <1> QED BY <1>1, <1>5, <1>7, <1>9, <1>10 DEF Lockdown

(***************************************************************************)
(* The merge of an untrusted project, whatever either side says: the result *)
(* grants nothing the baseline did not (the monotonic! lines), keeps its    *)
(* lockdown and its closed paths, takes no host, port, variable, secret or  *)
(* exception, and its new maps lie inside the project and give way to the   *)
(* read-only ones.                                                          *)
(***************************************************************************)
THEOREM ProjectMergeTightens ==
  ASSUME NEW base, WellFormed(base), NEW local, WellFormed(local)
  PROVE  /\ WellFormed(MergeProject(base, local))
         /\ TightensOnly(MergeProject(base, local), base)
         /\ Lockdown(MergeProject(base, local)) <=> Lockdown(base) \/ Lockdown(local)
  <1> DEFINE t == TightenFlags(base, local)
             c == MergeProject(base, local)
  <1>1. /\ WellFormed(t) /\ DOMAIN t = Fields
        /\ \A f \in Fields \ {"yes", "no"} : t[f] = base[f]
        /\ \A f : Grants(t, f) => Grants(base, f)
        /\ Lockdown(base) => Lockdown(t)
    BY FlagsTighten
  <1>2. Lockdown(t) <=> Lockdown(base) \/ Lockdown(local)
    BY LockdownTaken
  <1> HIDE DEF t
  <1>3. /\ DOMAIN c = Fields /\ c.yes = t.yes /\ c.no = t.no
        /\ c.ro = AppendMaps(t.ro, local.ro) /\ c.rw = WritableMaps(base, local)
        /\ c.overlay = AppendMaps(t.overlay, local.overlay)
        /\ c.closed = t.closed \cup local.closed
        /\ \A f \in Fields \ {"command", "yes", "no", "ro", "rw", "overlay", "closed"} : c[f] = t[f]
    BY <1>1 DEF MergeProject, t, Fields
  <1> HIDE DEF c
  <1>4. WellFormed(c) /\ \A f : Grants(c, f) => Grants(base, f)
    BY <1>1, <1>3, SameFlags
  <1>5. Lockdown(c) <=> Lockdown(base) \/ Lockdown(local)
    BY <1>1, <1>2, <1>3 DEF Lockdown
  <1>6. t.ro = base.ro /\ t.overlay = base.overlay /\ t.closed = base.closed
    BY <1>1 DEF Fields
  <1>7. /\ c.ro \subseteq base.ro \cup Inside /\ c.rw \subseteq base.rw \cup Inside
        /\ c.overlay \subseteq base.overlay \cup Inside
    BY <1>3, <1>6 DEF AppendMaps, WritableMaps
  <1>8. \A m \in c.rw \ base.rw, n \in c.ro : <<m, n>> \notin Overlap
    BY <1>3, <1>6 DEF WritableMaps
  <1>9. \A f \in {"exceptions", "hosts", "private", "tcp", "forward", "publish", "env",
                  "secrets", "browser", "bar"} : c[f] = base[f]
    BY <1>1, <1>3 DEF Fields
  <1>10. Granted(c) \subseteq Granted(base)
    BY <1>4 DEF Granted
  <1>11. \A f \in {"ro", "rw", "overlay"} : c[f] \subseteq base[f] \cup Inside
    BY <1>7
  <1>12. base.closed \subseteq c.closed
    BY <1>3, <1>6
  <1>13. TightensOnly(c, base)
    BY <1>5, <1>8, <1>9, <1>10, <1>11, <1>12 DEF TightensOnly, PathsTighten
  <1> QED BY <1>4, <1>5, <1>13 DEF c

(***************************************************************************)
(* What a project refuses stays refused by the merge, whatever the layers   *)
(* below it grant: the other half of the monotonic! lines.                  *)
(***************************************************************************)
THEOREM ProjectRefusalsHold ==
  ASSUME NEW base, WellFormed(base), NEW local, WellFormed(local),
         NEW f \in Capabilities \cap Settled(local), ~Grants(local, f)
  PROVE  ~Grants(MergeProject(base, local), f)
  <1> DEFINE first == {g \in Capabilities \ {"agent_state"} : Tightens(base, local, g)}
             early == Take(base, local, first)
             late == {g \in {"agent_state"} : Tightens(early, local, g)}
             last == late \cup {"no_save_config"}
             all == Take(early, local, last)
             m == MergeProject(base, local)
  <1>1. /\ WellFormed(early)
        /\ early.yes = (local.yes \cap first) \cup (base.yes \ (local.no \cap first))
        /\ early.no = (local.no \cap first) \cup (base.no \ (local.yes \cap first))
    BY TakeIsWellFormed
  <1>2. /\ all.yes = (local.yes \cap last) \cup (early.yes \ (local.no \cap last))
        /\ all.no = (local.no \cap last) \cup (early.no \ (local.yes \cap last))
    <2> HIDE DEF early, last
    <2> QED BY <1>1, TakeIsWellFormed
  <1>3. m.yes = all.yes /\ m.no = all.no
    <2>1. all = TightenFlags(base, local) /\ DOMAIN all = Fields
      BY FlagsTighten DEF TightenFlags
    <2> HIDE DEF all
    <2> QED BY <2>1 DEF MergeProject, Fields
  <1>4. Lockdown(local) => Lockdown(m)
    BY ProjectMergeTightens
  <1>5. /\ Take(base, local, {f}).yes = (local.yes \cap {f}) \cup (base.yes \ (local.no \cap {f}))
        /\ Take(base, local, {f}).no = (local.no \cap {f}) \cup (base.no \ (local.yes \cap {f}))
    BY TakeIsWellFormed
  <1>6. local.yes \cap local.no = {} /\ f \in local.yes \cup local.no
    BY DEF WellFormed, Settled
  <1>7. f \notin {"agent_state", "no_save_config"}
            => (f \in m.yes <=> f \in early.yes) /\ (f \in m.no <=> f \in early.no)
    <2> HIDE DEF early, all, m
    <2> QED BY <1>2, <1>3
  <1>8. CASE f \in GrantedByYes
    <2>1. f \in local.no /\ f \notin GrantedByNo /\ f \notin GrantedUnlessYes
          /\ f \notin {"agent_state", "no_save_config"}
      BY <1>6, <1>8 DEF Grants, GrantedByYes, GrantedByNo, GrantedUnlessYes
    <2>2. ~Grants(Take(base, local, {f}), f)
      BY <1>5, <1>6, <2>1 DEF Grants
    <2>3. f \in first
      BY <2>1, <2>2 DEF Tightens
    <2>4. f \notin early.yes
      BY <1>1, <1>6, <2>1, <2>3
    <2> QED BY <1>7, <2>1, <2>4 DEF Grants
  <1>9. CASE f \in GrantedByNo
    <2>1. f \in local.yes /\ f \notin GrantedByYes /\ f \notin GrantedUnlessYes
          /\ f \notin {"agent_state", "no_save_config"}
      BY <1>6, <1>9 DEF Grants, GrantedByYes, GrantedByNo, GrantedUnlessYes
    <2>2. ~Grants(Take(base, local, {f}), f)
      BY <1>5, <1>6, <2>1 DEF Grants
    <2>3. f \in first
      BY <2>1, <2>2 DEF Tightens
    <2>4. f \notin early.no
      BY <1>1, <1>6, <2>1, <2>3
    <2> QED BY <1>7, <2>1, <2>4 DEF Grants
  <1>10. CASE f \in GrantedUnlessYes
    <2>1. f \in local.yes /\ f \notin GrantedByYes /\ f \notin GrantedByNo
          /\ f \notin {"agent_state", "no_save_config"}
      BY <1>6, <1>10 DEF Grants, GrantedByYes, GrantedByNo, GrantedUnlessYes
    <2>2. ~Grants(Take(base, local, {f}), f)
      BY <1>5, <1>6, <2>1 DEF Grants
    <2>3. f \in first
      BY <2>1, <2>2 DEF Tightens
    <2>4. f \in early.yes
      BY <1>1, <1>6, <2>1, <2>3
    <2> QED BY <1>7, <2>1, <2>4 DEF Grants
  <1>11. CASE f \in GrantedUnlocked
    <2>1. f \notin GrantedByYes \cup GrantedByNo \cup GrantedUnlessYes \cup {"no_save_config"}
      BY <1>11 DEF GrantedUnlocked, GrantedByYes, GrantedByNo, GrantedUnlessYes
    <2>2. CASE Lockdown(local)
      BY <1>4, <2>1, <2>2 DEF Grants
    <2>4. CASE ~Lockdown(local) /\ f = "agent_state"
      <3>1. f \in local.no
        BY <2>1, <2>4 DEF Grants
      <3>2. f \in Take(early, local, {f}).no
        <4> HIDE DEF early
        <4> QED BY <1>1, <3>1, TakeIsWellFormed
      <3>3. ~Grants(Take(early, local, {f}), f)
        BY <2>1, <2>4, <3>2 DEF Grants
      <3>4. f \in last
        BY <2>4, <3>3 DEF Tightens
      <3>5. f \in m.no
        <4> HIDE DEF early, last, all, m
        <4> QED BY <1>2, <1>3, <3>1, <3>4
      <3> QED BY <2>1, <2>4, <3>5 DEF Grants
    <2> QED BY <1>11, <2>2, <2>4
  <1> QED BY <1>8, <1>9, <1>10, <1>11 DEF Capabilities

(***************************************************************************)
(* The lists of the layers, and the listeners among them.                  *)
(***************************************************************************)
LEMMA LayerFields ==
  ASSUME NEW high, NEW low, WellFormed(low)
  PROVE  /\ \A f \in Lists : Layer(high, low)[f] = low[f] \cup high[f]
         /\ Layer(high, low).command = Override(high.command, low.command, NoCommand)
         /\ Layer(high, low).browser = Override(high.browser, low.browser, "unset")
         /\ \A f \in Lists : MergeCli(high, low)[f] = low[f] \cup high[f]
         /\ MergeCli(high, low).command = Override(high.command, low.command, NoCommand)
         /\ MergeCli(high, low).browser = Override(high.browser, low.browser, "unset")
  <1> DEFINE a == Answer(low, high.yes, high.no)
             l == Layer(high, low)
             m == MergeCli(high, low)
  <1>1. DOMAIN a = Fields /\ \A f \in Fields \ {"yes", "no"} : a[f] = low[f]
    BY Answered, FieldsOfConfig DEF WellFormed
  <1>2. /\ DOMAIN l = Fields
        /\ l.command = Override(high.command, low.command, NoCommand)
        /\ l.browser = Override(high.browser, low.browser, "unset")
    <2> HIDE DEF a
    <2> QED BY <1>1 DEF Layer, a, Fields
  <1>3. /\ l.ro = low.ro \cup high.ro /\ l.rw = low.rw \cup high.rw
        /\ l.overlay = low.overlay \cup high.overlay /\ l.closed = low.closed \cup high.closed
        /\ l.exceptions = low.exceptions \cup high.exceptions
    <2> HIDE DEF a
    <2> QED BY <1>1 DEF Layer, a, Fields
  <1>4. /\ l.hosts = low.hosts \cup high.hosts /\ l.private = low.private \cup high.private
        /\ l.tcp = low.tcp \cup high.tcp
        /\ l.forward = low.forward \cup high.forward
        /\ l.publish = low.publish \cup high.publish
    <2> HIDE DEF a
    <2> QED BY <1>1 DEF Layer, a, Fields
  <1>5. m = [l EXCEPT !.bar = Override(high.bar, @, "unset")]
    BY DEF MergeCli
  <1> HIDE DEF l
  <1>6. \A f \in Fields \ {"bar"} : m[f] = l[f]
    BY <1>2, <1>5 DEF Fields
  <1>7. \A f \in Lists : l[f] = low[f] \cup high[f]
    BY <1>3, <1>4 DEF Lists
  <1> HIDE DEF m
  <1> QED BY <1>2, <1>6, <1>7 DEF l, m, Fields, Lists

(***************************************************************************)
(* What is stored, and what the review makes of its choices.               *)
(***************************************************************************)
LEMMA ConstraintsAreWellFormed ==
  ASSUME NEW c, WellFormed(c)
  PROVE  /\ WellFormed(Constraints(c))
         /\ Constraints(c).command = NoCommand
         /\ Granted(Constraints(c)) \subseteq Granted(EmptyConfig) \cap Granted(c)
         /\ Lockdown(c) <=> Lockdown(Constraints(c))
         /\ c.closed \subseteq Constraints(c).closed
         /\ \A f \in {"exceptions", "hosts", "private", "tcp", "forward", "publish", "env", "secrets",
                      "browser"} : Constraints(c)[f] = EmptyConfig[f]
  <1> DEFINE m == MergeProject(EmptyConfig, c)
             k == Constraints(c)
  <1>0. ~Lockdown(EmptyConfig) /\ EmptyConfig.yes = {} /\ EmptyConfig.no = {}
    BY DEF Lockdown, EmptyConfig
  <1>1. /\ WellFormed(m) /\ TightensOnly(m, EmptyConfig) /\ (Lockdown(c) <=> Lockdown(m))
    BY <1>0, EmptyIsWellFormed, ProjectMergeTightens
  <1>11. \A f \in Capabilities \cap Settled(c) : ~Grants(c, f) => ~Grants(m, f)
    BY EmptyIsWellFormed, ProjectRefusalsHold
  <1>2. DOMAIN TightenFlags(EmptyConfig, c) = Fields
    BY EmptyIsWellFormed, FlagsTighten
  <1>3. c.closed \subseteq m.closed
    BY <1>2 DEF MergeProject, Fields
  <1>4. /\ DOMAIN k = Fields /\ k.yes = m.yes \ Cleared /\ k.no = m.no \ Cleared
        /\ k.command = NoCommand
        /\ \A f \in Fields \ {"command", "yes", "no", "bar"} : k[f] = m[f]
    <2>1. DOMAIN m = Fields
      BY <1>1, FieldsOfConfig DEF WellFormed
    <2> HIDE DEF m
    <2> QED BY <2>1 DEF Constraints, m, Fields
  <1> HIDE DEF m, k
  <1>5. WellFormed(k)
    BY <1>1, <1>4, FieldsOfConfig DEF WellFormed, Settled
  <1>6. ASSUME NEW f \in Capabilities, Grants(k, f) PROVE Grants(EmptyConfig, f)
    <2>1. Lockdown(k) <=> Lockdown(m)
      BY <1>4 DEF Lockdown, Cleared
    <2>2. CASE f \in Cleared
      BY <1>4, <1>6, <2>2 DEF Grants, Cleared, GrantedByYes, GrantedByNo, GrantedUnlessYes
    <2>3. CASE f \notin Cleared
      <3>1. Grants(m, f)
        BY <1>4, <1>6, <2>1, <2>3 DEF Grants
      <3> QED BY <1>1, <3>1 DEF TightensOnly, Granted
    <2> QED BY <2>2, <2>3
  <1>7. Lockdown(c) <=> Lockdown(k)
    BY <1>1, <1>4 DEF Lockdown, Cleared
  <1>10. ASSUME NEW f \in Capabilities, Grants(k, f) PROVE Grants(c, f)
    <2>1. Grants(EmptyConfig, f)
      BY <1>6, <1>10
    <2>2. f \in GrantedUnlessYes \cup {"agent_state"}
      BY <1>0, <2>1 DEF Grants
    <2>3. f \notin GrantedByYes \cup GrantedByNo \cup Cleared
      BY <2>2 DEF GrantedByYes, GrantedByNo, GrantedUnlessYes, Cleared
    <2>7. (f \in k.yes <=> f \in m.yes) /\ (f \in k.no <=> f \in m.no)
      BY <1>4, <2>3
    <2>4. Grants(m, f)
      BY <1>1, <1>7, <1>10, <2>3, <2>7 DEF Grants
    <2>5. CASE f \in Settled(c)
      BY <1>11, <2>4, <2>5
    <2>6. CASE f \notin Settled(c)
      BY <1>1, <2>2, <2>3, <2>4, <2>6 DEF Grants, Settled
    <2> QED BY <2>5, <2>6
  <1>8. \A f \in {"exceptions", "hosts", "private", "tcp", "forward", "publish", "env", "secrets",
                  "browser"} : k[f] = EmptyConfig[f]
    BY <1>1, <1>4 DEF TightensOnly, Fields
  <1>9. c.closed \subseteq k.closed
    BY <1>3, <1>4 DEF Fields
  <1> QED BY <1>4, <1>5, <1>6, <1>7, <1>8, <1>9, <1>10 DEF k, Granted

LEMMA DropLaunchOnlyIsWellFormed ==
  ASSUME NEW c, WellFormed(c)
  PROVE  WellFormed(DropLaunchOnly(c))
  BY FieldsOfConfig, SameFlags DEF DropLaunchOnly, WellFormed, Fields

LEMMA SavesAreWellFormed ==
  ASSUME NEW cli, WellFormed(cli), NEW project, WellFormed(project)
  PROVE  /\ WellFormed(ProjectForInit(cli, project))
         /\ WellFormed(ProjectForAutoSave(cli, project))
  <1> DEFINE m == MergeCli(cli, project)
             n == [m EXCEPT !.command = project.command]
  <1>1. WellFormed(m)
    BY MergeCliIsWellFormed
  <1>2. WellFormed(n)
    <2> HIDE DEF m
    <2>1. DOMAIN m = Fields
      BY <1>1, FieldsOfConfig DEF WellFormed
    <2>2. DOMAIN n = Fields /\ n.yes = m.yes /\ n.no = m.no
      BY <2>1 DEF Fields
    <2> HIDE DEF n
    <2> QED BY <1>1, <2>2, SameFlags
  <1>3. ProjectForInit(cli, project) = DropLaunchOnly(m)
    BY DEF ProjectForInit
  <1>4. ProjectForAutoSave(cli, project) \in {DropLaunchOnly(m), DropLaunchOnly(n)}
    BY DEF ProjectForAutoSave
  <1> HIDE DEF m, n
  <1> QED BY <1>1, <1>2, <1>3, <1>4, DropLaunchOnlyIsWellFormed

LEMMA SelectionIsWellFormed ==
  ASSUME NEW sel, NEW approved, NEW harness, NEW explicit
  PROVE  /\ WellFormed(SelectionGrants(sel, approved, harness, explicit))
         /\ SelectionGrants(sel, approved, harness, explicit).command = NoCommand
         /\ SelectionGrants(sel, approved, harness, explicit).browser = "unset"
         /\ \A f \in Lists \ {"hosts"} : SelectionGrants(sel, approved, harness, explicit)[f] = {}
  <1> DEFINE settled == IF explicit THEN AdditionalYes \cup AdditionalNo ELSE sel
             yes == BasicYes \cup (AdditionalYes \cap settled) \cup (OnlyOpened \cap sel)
             no == BasicNo \cup (AdditionalNo \cap settled)
             y == (yes \cap sel) \cup (no \ sel)
             n == (yes \ sel) \cup (no \cap sel)
             a == Answer(EmptyConfig, y, n)
             g == SelectionGrants(sel, approved, harness, explicit)
  <1>1. /\ BasicYes \cup AdditionalYes \cup OnlyOpened \subseteq Flags
        /\ BasicNo \cup AdditionalNo \subseteq Flags
        /\ (BasicYes \cup AdditionalYes \cup OnlyOpened) \cap (BasicNo \cup AdditionalNo) = {}
    BY DEF BasicYes, BasicNo, AdditionalYes, AdditionalNo, OnlyOpened, Flags, Capabilities,
       GrantedByYes, GrantedByNo, GrantedUnlessYes, GrantedUnlocked
  <1>2. /\ yes \subseteq BasicYes \cup AdditionalYes \cup OnlyOpened
        /\ no \subseteq BasicNo \cup AdditionalNo
    OBVIOUS
  <1>3. y \subseteq Flags /\ n \subseteq Flags /\ y \cap n = {}
    <2> HIDE DEF yes, no
    <2> QED BY <1>1, <1>2
  <1>4. /\ WellFormed(a) /\ DOMAIN a = Fields
        /\ \A f \in Fields \ {"yes", "no"} : a[f] = EmptyConfig[f]
    <2> HIDE DEF y, n
    <2>1. WellFormed(a)
      BY <1>3, AnswerIsWellFormed, EmptyIsWellFormed
    <2> QED BY <2>1, Answered, FieldsOfConfig
  <1>5. /\ g.yes = a.yes /\ g.no = a.no /\ DOMAIN g = Fields
        /\ \A f \in Fields \ {"hosts", "env", "secrets"} : g[f] = a[f]
    BY <1>4 DEF SelectionGrants, Fields
  <1> HIDE DEF g, a
  <1>6. \A f \in Fields \ {"yes", "no", "hosts", "env", "secrets"} : g[f] = EmptyConfig[f]
    BY <1>4, <1>5
  <1>7. \A f \in Lists \ {"hosts"} : f \in Fields /\ EmptyConfig[f] = {}
    BY DEF Lists, EmptyConfig, Fields
  <1>8. g.command = NoCommand /\ g.browser = "unset"
    BY <1>6 DEF EmptyConfig, Fields
  <1>9. \A f \in Lists \ {"hosts"} : g[f] = {}
    BY <1>6, <1>7 DEF Lists
  <1> QED BY <1>4, <1>5, <1>8, <1>9, SameFlags DEF g

(***************************************************************************)
(* The browser profile.  It lifts lockdown for a browser that a trusted    *)
(* layer chose; it grants no more.                                         *)
(***************************************************************************)
LEMMA BrowserProfileGrants ==
  ASSUME NEW c, WellFormed(c), NEW trustedCommand
  PROVE  /\ WellFormed(ApplyBrowser(c, trustedCommand))
         /\ \A f \in Fields \ {"yes", "no", "browser", "bar"} :
                ApplyBrowser(c, trustedCommand)[f] = c[f]
         /\ \A f : Grants(ApplyBrowser(c, trustedCommand), f)
                => Grants(c, f) \/ Lifts(c, trustedCommand, f)
         /\ BrowserProfile(c) => BrowserProfile(ApplyBrowser(c, trustedCommand))
         /\ BrowserProfile(ApplyBrowser(c, trustedCommand)) /\ c.command \notin Browsers
                => BrowserProfile(c)
         /\ \A f : Lifts(c, trustedCommand, f) => BrowserProfile(ApplyBrowser(c, trustedCommand))
  <1> DEFINE r == ApplyBrowser(c, trustedCommand)
             explicit == BrowserProfile(c)
             skip == c.browser = "off" \/ (~explicit /\ c.command \notin Browsers)
             lifted == IF explicit \/ trustedCommand \/ ~Lockdown(c) THEN {"lockdown"} ELSE {}
             yes == {"no_docker", "no_worktree", "no_mise", "no_toolchains",
                     "no_save_config"} \cup ({"no_gpu"} \ c.no)
             no == {"ssh", "pictures", "agent_state"} \cup lifted
             a == Answer(c, yes, no)
  <1>1. CASE skip
    <2>1. r = c
      BY <1>1 DEF ApplyBrowser
    <2>2. ~BrowserProfile(c) \/ c.browser = "off"
      BY <1>1
    <2>3. c.browser = "off" => ~BrowserProfile(c)
      BY DEF BrowserProfile
    <2>4. \A f : ~Lifts(c, trustedCommand, f)
      BY <1>1, <2>3 DEF Lifts, BrowserProfile
    <2> QED BY <2>1, <2>4
  <1>2. CASE ~skip
    <2>1. yes \subseteq Flags /\ no \subseteq Flags /\ yes \cap no = {}
      BY DEF Flags, Capabilities, GrantedByYes, GrantedByNo, GrantedUnlessYes, GrantedUnlocked
    <2>2. DOMAIN c = Fields
      BY FieldsOfConfig DEF WellFormed
    <2>3. /\ WellFormed(a) /\ DOMAIN a = Fields
          /\ a.yes = yes \cup (c.yes \ no) /\ a.no = no \cup (c.no \ yes)
          /\ \A f \in Fields \ {"yes", "no"} : a[f] = c[f]
      <3> HIDE DEF yes, no
      <3> QED BY <2>1, <2>2, AnswerIsWellFormed, Answered
    <2>4. r = [a EXCEPT !.browser = IF explicit THEN @ ELSE "hard", !.bar = "yes"]
      BY <1>2 DEF ApplyBrowser
    <2>5. /\ DOMAIN r = Fields /\ r.yes = a.yes /\ r.no = a.no
          /\ r.browser = (IF explicit THEN c.browser ELSE "hard")
          /\ \A f \in Fields \ {"yes", "no", "browser", "bar"} : r[f] = c[f]
      <3> HIDE DEF a, r
      <3> QED BY <2>3, <2>4 DEF Fields
    <2>6. WellFormed(r)
      <3> HIDE DEF a, r
      <3> QED BY <2>3, <2>5, SameFlags
    <2>7. BrowserProfile(r)
      <3> HIDE DEF r
      <3> QED BY <2>5 DEF BrowserProfile
    <2>8. explicit \/ c.command \in Browsers
      BY <1>2
    <2>9. ASSUME NEW f, Grants(r, f), ~Grants(c, f) PROVE Lifts(c, trustedCommand, f)
      <3>1. (f \in r.yes => f \in yes \cup c.yes) /\ (f \in r.no => f \in no \cup c.no)
        BY <2>3, <2>5
      <3>2. CASE Lockdown(c) /\ ~Lockdown(r)
        <4>1. "lockdown" \in no
          BY <2>3, <2>5, <3>2 DEF Lockdown
        <4>2. explicit \/ trustedCommand
          BY <4>1, <3>2
        <4>3. f # "agent_state"
          BY <2>3, <2>5, <2>9 DEF Grants, GrantedByYes, GrantedByNo, GrantedUnlessYes
        <4>4. f = "lockdown"
          <5>1. CASE f \in GrantedByYes \cap r.yes
            BY <2>9, <3>1, <5>1 DEF Grants, GrantedByYes
          <5>2. CASE f \in GrantedByNo \cap r.no
            BY <2>9, <3>1, <5>2 DEF Grants, GrantedByNo
          <5>3. CASE f \in GrantedUnlessYes \ r.yes
            BY <2>3, <2>5, <2>9, <5>3 DEF Grants, GrantedUnlessYes
          <5> QED BY <2>9, <4>3, <5>1, <5>2, <5>3 DEF Grants
        <4> QED BY <1>2, <2>8, <3>2, <4>2, <4>4 DEF Lifts
      <3>3. CASE Lockdown(r) \/ ~Lockdown(c)
        <4>1. ~Lockdown(r) => ~Lockdown(c)
          BY <3>3
        <4>2. f # "agent_state"
          BY <2>3, <2>5, <2>9 DEF Grants, GrantedByYes, GrantedByNo, GrantedUnlessYes
        <4>3. CASE f \in GrantedByYes \cap r.yes
          BY <2>9, <3>1, <4>3 DEF Grants, GrantedByYes
        <4>4. CASE f \in GrantedByNo \cap r.no
          BY <2>9, <3>1, <4>4 DEF Grants, GrantedByNo
        <4>5. CASE f \in GrantedUnlessYes \ r.yes
          BY <2>3, <2>5, <2>9, <3>3, <4>5 DEF Grants, GrantedUnlessYes, Lockdown
        <4> QED BY <2>9, <4>2, <4>3, <4>4, <4>5 DEF Grants
      <3> QED BY <3>2, <3>3
    <2> HIDE DEF r
    <2> QED BY <2>5, <2>6, <2>7, <2>8, <2>9 DEF r
  <1> QED BY <1>1, <1>2

(***************************************************************************)
(* The effective configuration of a review or of a saved profile.          *)
(***************************************************************************)
LEMMA TrustedIsWellFormed ==
  ASSUME NEW global, WellFormed(global), NEW proposed, WellFormed(proposed),
         NEW cli, WellFormed(cli)
  PROVE  /\ WellFormed(MergeTrusted(global, proposed))
         /\ WellFormed(MergeCli(cli, MergeTrusted(global, proposed)))
  BY LayerIsWellFormed, MergeCliIsWellFormed DEF MergeTrusted

LEMMA MergedKeepsTrusted ==
  ASSUME NEW base, WellFormed(base), NEW local, WellFormed(local)
  PROVE  KeepsTrusted(MergeProject(base, local), base)
  BY ProjectMergeTightens DEF KeepsTrusted, TightensOnly, PathsTighten

LEMMA CommandChanges ==
  ASSUME NEW c, WellFormed(c), NEW command, NEW d, d = [c EXCEPT !.command = command]
  PROVE  OnlyCommand(d, c) /\ d.command = command
  BY FieldsOfConfig DEF WellFormed, OnlyCommand, Fields

LEMMA OnlyCommandChanges ==
  ASSUME NEW c, WellFormed(c), NEW d, OnlyCommand(d, c)
  PROVE  /\ WellFormed(d)
         /\ \A f \in Fields \ {"command"} : d[f] = c[f]
         /\ \A f : Grants(d, f) <=> Grants(c, f)
  <1>1. /\ DOMAIN d = Fields /\ d.yes = c.yes /\ d.no = c.no
        /\ \A f \in Fields \ {"command"} : d[f] = c[f]
    BY DEF OnlyCommand, Fields
  <1>2. WellFormed(d) /\ \A f : Grants(d, f) <=> Grants(c, f)
    BY <1>1, SameFlags
  <1> QED BY <1>1, <1>2

LEMMA BrowserKeepsTrusted ==
  ASSUME NEW c, WellFormed(c), NEW trusted, KeepsTrusted(c, trusted),
         NEW d, OnlyCommand(d, c), NEW trustedCommand
  PROVE  LET e == ApplyBrowser(d, trustedCommand) IN
         /\ WellFormed(e) /\ KeepsTrusted(e, trusted)
         /\ e.command = d.command /\ e.hosts = c.hosts
         /\ BrowserProfile(c) => BrowserProfile(e)
         /\ BrowserProfile(e) /\ d.command \notin Browsers => BrowserProfile(c)
  <1> DEFINE e == ApplyBrowser(d, trustedCommand)
  <1>1. /\ WellFormed(d)
        /\ \A f \in Fields \ {"command"} : d[f] = c[f]
        /\ \A f : Grants(d, f) <=> Grants(c, f)
    BY OnlyCommandChanges
  <1>2. /\ WellFormed(e)
        /\ \A f \in Fields \ {"yes", "no", "browser", "bar"} : e[f] = d[f]
        /\ \A f : Grants(e, f) => Grants(d, f) \/ Lifts(d, trustedCommand, f)
        /\ BrowserProfile(d) => BrowserProfile(e)
        /\ BrowserProfile(e) /\ d.command \notin Browsers => BrowserProfile(d)
        /\ \A f : Lifts(d, trustedCommand, f) => BrowserProfile(e)
    BY <1>1, BrowserProfileGrants
  <1> HIDE DEF e
  <1>3. (BrowserProfile(d) <=> BrowserProfile(c)) /\ (Lockdown(d) <=> Lockdown(c))
    BY <1>1 DEF BrowserProfile, Lockdown, Fields
  <1>4. /\ e.command = d.command /\ e.hosts = c.hosts /\ e.closed = c.closed /\ e.ro = c.ro
        /\ e.rw = c.rw /\ e.overlay = c.overlay /\ e.exceptions = c.exceptions
        /\ e.private = c.private
    BY <1>1, <1>2 DEF Fields
  <1>5. ASSUME NEW f \in Granted(e) PROVE f \in Granted(trusted) \cup Unlocks(e, trusted)
    <2>1. f \in Capabilities /\ (Grants(c, f) \/ Lifts(d, trustedCommand, f))
      BY <1>1, <1>2, <1>5 DEF Granted
    <2>2. CASE Grants(c, f)
      <3>1. f \in Granted(trusted) \cup Unlocks(c, trusted)
        BY <2>1, <2>2 DEF Granted, KeepsTrusted
      <3> QED BY <1>2, <1>3, <3>1 DEF Unlocks
    <2>3. CASE Lifts(d, trustedCommand, f)
      <3>1. BrowserProfile(e)
        BY <1>2, <2>3
      <3>2. f = "lockdown"
        BY <2>3 DEF Lifts
      <3>3. CASE Lockdown(trusted)
        BY <3>1, <3>2, <3>3 DEF Unlocks
      <3>4. CASE ~Lockdown(trusted)
        <4>1. Grants(trusted, f)
          BY <3>2, <3>4 DEF Grants, Lockdown, GrantedUnlessYes
        <4> QED BY <2>1, <4>1 DEF Granted
      <3> QED BY <3>3, <3>4
    <2> QED BY <2>1, <2>2, <2>3
  <1>6. PathsTighten(e, trusted, AskedCredentials(trusted))
    BY <1>4 DEF KeepsTrusted, PathsTighten
  <1>7. KeepsTrusted(e, trusted)
    BY <1>2, <1>3, <1>4, <1>5, <1>6 DEF KeepsTrusted
  <1> QED BY <1>1, <1>2, <1>3, <1>4, <1>7 DEF e

LEMMA EffectiveKeepsTrusted ==
  ASSUME NEW global, WellFormed(global), NEW proposed, WellFormed(proposed),
         NEW cli, WellFormed(cli), NEW l, WellFormed(Project(l))
  PROVE  LET trusted == MergeCli(cli, MergeTrusted(global, proposed))
             e == BuildEffective(global, proposed, cli, l)
         IN  /\ WellFormed(e)
             /\ Listens(e) \subseteq Listens(trusted) \cup Listens(Project(l))
             /\ ~l.trusted =>
                /\ KeepsTrusted(e, trusted)
                /\ e.command = Override(cli.command, MergeProject(trusted, Project(l)).command,
                                        NoCommand)
                /\ e.hosts = trusted.hosts
                /\ BrowserProfile(e) /\ e.command \notin Browsers => BrowserProfile(trusted)
  <1> DEFINE trusted == MergeCli(cli, MergeTrusted(global, proposed))
             merged == WithProject(trusted, l)
             command == Override(cli.command, merged.command, NoCommand)
             e == BuildEffective(global, proposed, cli, l)
  <1>1. WellFormed(trusted)
    BY TrustedIsWellFormed
  <1>2. e = ApplyBrowser([merged EXCEPT !.command = command], TRUE)
    BY DEF BuildEffective
  <1> HIDE DEF trusted
  <1>3. WellFormed(merged)
    BY <1>1, LayerIsWellFormed, ProjectMergeTightens DEF WithProject, MergeTrusted
  <1> DEFINE d == [merged EXCEPT !.command = command]
  <1>4. e = ApplyBrowser(d, TRUE)
    BY <1>2
  <1>5. OnlyCommand(d, merged) /\ d.command = command
    BY <1>3, CommandChanges
  <1>8. Listens(merged) \subseteq Listens(trusted) \cup Listens(Project(l))
    <2>1. CASE l.trusted
      <3>1. /\ merged.forward = trusted.forward \cup Project(l).forward
            /\ merged.publish = trusted.publish \cup Project(l).publish
        BY <1>1, <2>1, LayerFields DEF WithProject, MergeTrusted, Lists
      <3> QED BY <3>1 DEF Listens
    <2>2. CASE ~l.trusted
      <3>1. merged.forward = trusted.forward /\ merged.publish = trusted.publish
        BY <1>1, <2>2, ProjectMergeTightens DEF WithProject, TightensOnly
      <3> QED BY <3>1 DEF Listens
    <2> QED BY <2>1, <2>2
  <1>9. WellFormed(e) /\ Listens(e) \subseteq Listens(trusted) \cup Listens(Project(l))
    <2> HIDE DEF merged, command, d, e
    <2>1. WellFormed(d) /\ d.forward = merged.forward /\ d.publish = merged.publish
      BY <1>3, <1>5, OnlyCommandChanges DEF Fields
    <2>2. /\ WellFormed(ApplyBrowser(d, TRUE))
          /\ ApplyBrowser(d, TRUE).forward = d.forward
          /\ ApplyBrowser(d, TRUE).publish = d.publish
      BY <2>1, BrowserProfileGrants DEF Fields
    <2> QED BY <1>4, <1>8, <2>1, <2>2 DEF Listens
  <1>6. CASE l.trusted
    <2> HIDE DEF e
    <2> QED BY <1>6, <1>9 DEF e, trusted
  <1>7. CASE ~l.trusted
    <2>1. merged = MergeProject(trusted, Project(l))
      BY <1>7 DEF WithProject
    <2>2. KeepsTrusted(merged, trusted) /\ TightensOnly(merged, trusted)
      BY <1>1, <2>1, MergedKeepsTrusted, ProjectMergeTightens
    <2>3. merged.hosts = trusted.hosts /\ merged.browser = trusted.browser
      BY <2>2 DEF TightensOnly
    <2>4. command = Override(cli.command, MergeProject(trusted, Project(l)).command, NoCommand)
      BY <2>1
    <2> HIDE DEF merged, command, d, e
    <2>5. /\ WellFormed(e) /\ KeepsTrusted(e, trusted) /\ e.command = command
          /\ e.hosts = merged.hosts
          /\ BrowserProfile(e) /\ command \notin Browsers => BrowserProfile(merged)
      BY <1>3, <1>4, <1>5, <2>2, BrowserKeepsTrusted
    <2>6. BrowserProfile(merged) <=> BrowserProfile(trusted)
      BY <2>3 DEF BrowserProfile
    <2> QED BY <1>9, <2>3, <2>4, <2>5, <2>6 DEF trusted, e
  <1> QED BY <1>6, <1>7

LEMMA SecureDefaultsGrantNoMore ==
  ASSUME NEW c, WellFormed(c), NEW cli
  PROVE  /\ WellFormed(SecureDefaults(c, cli))
         /\ \A f \in Fields \ {"yes", "no"} : SecureDefaults(c, cli)[f] = c[f]
         /\ \A f : Grants(SecureDefaults(c, cli), f) => Grants(c, f)
  <1> DEFINE yes == {"no_toolchains"} \ Settled(cli)
             no == {"agent_state", "ssh", "github"} \ Settled(cli)
             d == SecureDefaults(c, cli)
  <1>1. DOMAIN c = Fields
    BY FieldsOfConfig DEF WellFormed
  <1>2. yes \subseteq Flags /\ no \subseteq Flags /\ yes \cap no = {}
    BY DEF Flags, Capabilities, GrantedByYes, GrantedByNo, GrantedUnlessYes, GrantedUnlocked
  <1>3. /\ d.yes = yes \cup (c.yes \ no) /\ d.no = no \cup (c.no \ yes)
        /\ \A f \in Fields \ {"yes", "no"} : d[f] = c[f]
    <2> HIDE DEF yes, no
    <2> QED BY <1>1, Answered DEF SecureDefaults, yes, no
  <1>4. WellFormed(d)
    <2> HIDE DEF yes, no
    <2> QED BY <1>2, AnswerIsWellFormed DEF SecureDefaults, yes, no
  <1>5. Lockdown(d) <=> Lockdown(c)
    BY <1>3 DEF Lockdown
  <1>6. ASSUME NEW f, Grants(d, f) PROVE Grants(c, f)
    <2>1. f \in d.yes => f \in c.yes \/ f = "no_toolchains"
      BY <1>3
    <2>2. f \in d.no => f \in c.no \/ f \in {"agent_state", "ssh", "github"}
      BY <1>3
    <2>3. f \in c.yes /\ f \notin d.yes => f \in {"agent_state", "ssh", "github"}
      BY <1>3
    <2>4. f \in c.no /\ f \notin d.no => f = "no_toolchains"
      BY <1>3
    <2> HIDE DEF d
    <2> QED BY <1>5, <1>6, <2>1, <2>2, <2>3, <2>4
             DEF Grants, GrantedByYes, GrantedByNo, GrantedUnlessYes
  <1> QED BY <1>3, <1>4, <1>6

(***************************************************************************)
(* A launch that nobody could review (build_noninteractive_onboarding_     *)
(* effective): of the global file only what it refuses.                    *)
(***************************************************************************)
\* Who is granted more asks for no fewer credentials.
LEMMA CredentialsGranted ==
  ASSUME NEW c, NEW d, Granted(c) \subseteq Granted(d) \cup {"lockdown"}
  PROVE  AskedCredentials(c) \subseteq AskedCredentials(d)
  <1> SUFFICES ASSUME NEW f \in DOMAIN Credential, f \in c.yes PROVE f \in d.yes
    BY DEF AskedCredentials
  <1>1. f \in {"aws", "kube", "gcloud", "docker_config"}
    BY CredentialAssumption DEF CredentialOptions
  <1>2. f \in Granted(c) /\ f # "lockdown"
    BY <1>1 DEF Granted, Grants, Capabilities, GrantedByYes
  <1>3. Grants(d, f)
    BY <1>2 DEF Granted
  <1> QED BY <1>1, <1>3 DEF Grants, GrantedByYes, GrantedByNo, GrantedUnlessYes

LEMMA FewerGrantsKeepTrusted ==
  ASSUME NEW c, NEW d, NEW trusted, KeepsTrusted(c, trusted),
         Granted(d) \subseteq Granted(c), d.browser = c.browser,
         \A f \in Lists \ {"hosts", "ro"} : d[f] = c[f],
         d.ro \subseteq c.ro \cup AskedCredentials(c)
  PROVE  KeepsTrusted(d, trusted)
  <1>1. /\ d.closed = c.closed /\ d.rw = c.rw /\ d.overlay = c.overlay
        /\ d.exceptions = c.exceptions /\ d.private = c.private
    BY DEF Lists
  <1>2. AskedCredentials(c) \subseteq AskedCredentials(trusted)
    BY CredentialsGranted DEF KeepsTrusted, Unlocks
  <1>3. PathsTighten(d, trusted, AskedCredentials(trusted))
    BY <1>1, <1>2 DEF KeepsTrusted, PathsTighten
  <1>4. Unlocks(d, trusted) = Unlocks(c, trusted)
    BY DEF Unlocks, BrowserProfile
  <1> QED BY <1>1, <1>3, <1>4 DEF KeepsTrusted

LEMMA KeepsWiderTrusted ==
  ASSUME NEW c, NEW narrow, NEW wide, KeepsTrusted(c, narrow), Narrower(narrow, wide)
  PROVE  KeepsTrusted(c, wide)
  <1>1. /\ narrow.ro \subseteq wide.ro /\ narrow.rw \subseteq wide.rw
        /\ narrow.overlay \subseteq wide.overlay /\ narrow.exceptions \subseteq wide.exceptions
        /\ narrow.private \subseteq wide.private
    BY DEF Narrower
  <1> DEFINE shown == AskedCredentials(wide)
  <1>2. PathsTighten(c, narrow, AskedCredentials(narrow)) /\ AskedCredentials(narrow) \subseteq shown
    BY CredentialsGranted DEF KeepsTrusted, Narrower
  <1> HIDE DEF shown
  <1>3. /\ c.ro \ shown \subseteq wide.ro \cup Inside /\ c.rw \subseteq wide.rw \cup Inside
        /\ c.overlay \subseteq wide.overlay \cup Inside /\ wide.closed \subseteq c.closed
        /\ \A m \in c.rw \ wide.rw, n \in c.ro \ shown : <<m, n>> \notin Overlap
    BY <1>1, <1>2 DEF PathsTighten, Narrower
  <1>4. PathsTighten(c, wide, shown)
    BY <1>3 DEF PathsTighten
  <1>5. Unlocks(c, narrow) = Unlocks(c, wide)
    BY DEF Unlocks, Narrower
  <1> QED BY <1>1, <1>4, <1>5 DEF KeepsTrusted, Narrower, shown

LEMMA Restricted ==
  ASSUME NEW g, WellFormed(g)
  PROVE  LET r == Restrictions(g) IN
         /\ WellFormed(r)
         /\ Lockdown(r) <=> Lockdown(g)
         /\ \A f \in Capabilities : Grants(r, f) => Grants(g, f)
         /\ g.closed \subseteq r.closed
         /\ \A f \in Lists \ {"closed"} : r[f] = {}
         /\ r.command = NoCommand /\ r.browser = "unset"
  <1> DEFINE k == Constraints(g)
             r == [k EXCEPT !.ro = {}, !.rw = {}, !.overlay = {}]
  <1>1. /\ WellFormed(k) /\ k.command = NoCommand
        /\ Granted(k) \subseteq Granted(g) /\ (Lockdown(k) <=> Lockdown(g))
        /\ g.closed \subseteq k.closed
        /\ \A f \in {"exceptions", "hosts", "private", "tcp", "forward", "publish", "env", "secrets",
                      "browser"} : k[f] = EmptyConfig[f]
    BY ConstraintsAreWellFormed
  <1> HIDE DEF k
  <1>2. /\ DOMAIN r = Fields /\ r.yes = k.yes /\ r.no = k.no
        /\ r.ro = {} /\ r.rw = {} /\ r.overlay = {}
        /\ \A f \in Fields \ {"ro", "rw", "overlay"} : r[f] = k[f]
    BY <1>1, FieldsOfConfig DEF WellFormed, Fields
  <1>3. WellFormed(r) /\ \A f : Grants(r, f) <=> Grants(k, f)
    <2> HIDE DEF r
    <2> QED BY <1>1, <1>2, SameFlags
  <1> HIDE DEF r
  <1>4. Lockdown(r) <=> Lockdown(g)
    BY <1>1, <1>2 DEF Lockdown
  <1>5. \A f \in Capabilities : Grants(r, f) => Grants(g, f)
    BY <1>1, <1>3 DEF Granted
  <1>6. g.closed \subseteq r.closed /\ r.command = NoCommand
    BY <1>1, <1>2 DEF Fields
  <1>7. /\ r.exceptions = {} /\ r.hosts = {} /\ r.private = {} /\ r.forward = {} /\ r.publish = {}
        /\ r.tcp = {} /\ r.browser = "unset"
    BY <1>1, <1>2 DEF Fields, EmptyConfig
  <1>8. \A f \in Lists \ {"closed"} : r[f] = {}
    BY <1>2, <1>7 DEF Lists
  <1> QED BY <1>3, <1>4, <1>5, <1>6, <1>7, <1>8 DEF r, k, Restrictions

LEMMA SafeSelection ==
  ASSUME NEW harness, NEW sel \in {{}, {"api_access"}}
  PROVE  LET safe == SafeGrants(sel, harness) IN
         /\ WellFormed(safe) /\ \A f \in Lists \ {"hosts"} : safe[f] = {}
         /\ safe.yes = {"no_mise", "no_toolchains", "no_docker"}
         /\ safe.no = {"agent_state", "ssh", "github"}
         /\ safe.hosts \subseteq ApiHosts[harness]
  <1> DEFINE settled == sel
             yes == BasicYes \cup (AdditionalYes \cap settled) \cup (OnlyOpened \cap sel)
             no == BasicNo \cup (AdditionalNo \cap settled)
             a == Answer(EmptyConfig, (yes \cap sel) \cup (no \ sel), (yes \ sel) \cup (no \cap sel))
             safe == SafeGrants(sel, harness)
  <1>8. WellFormed(safe) /\ \A f \in Lists \ {"hosts"} : safe[f] = {}
    BY SelectionIsWellFormed DEF SafeGrants
  <1>1. yes = BasicYes /\ no = BasicNo
    BY DEF AdditionalYes, AdditionalNo, OnlyOpened
  <1>2. /\ (yes \cap sel) \cup (no \ sel) = BasicNo
        /\ (yes \ sel) \cup (no \cap sel) = BasicYes
    BY <1>1 DEF BasicYes, BasicNo
  <1>3. a = Answer(EmptyConfig, BasicNo, BasicYes)
    BY <1>2
  <1>4. a.yes = BasicNo /\ a.no = BasicYes /\ DOMAIN a = Fields
    <2> DEFINE b == Answer(EmptyConfig, BasicNo, BasicYes)
    <2>1. /\ DOMAIN b = Fields /\ b.yes = BasicNo \cup (EmptyConfig.yes \ BasicYes)
          /\ b.no = BasicYes \cup (EmptyConfig.no \ BasicNo)
      BY Answered, FieldsOfConfig
    <2>2. EmptyConfig.yes = {} /\ EmptyConfig.no = {}
      BY DEF EmptyConfig
    <2> HIDE DEF a, b
    <2> QED BY <1>3, <2>1, <2>2 DEF b
  <1>5. /\ safe.yes = a.yes /\ safe.no = a.no
        /\ safe.hosts = (IF "api_access" \in sel THEN ApiHosts[harness] ELSE {})
                            \cup {r.value : r \in {} \ {r \in {} : r.kind = "secret"}}
    BY <1>4 DEF SafeGrants, SelectionGrants, Fields
  <1> HIDE DEF safe
  <1>6. safe.hosts \subseteq ApiHosts[harness]
    BY <1>5
  <1>7. safe.yes = {"no_mise", "no_toolchains", "no_docker"}
        /\ safe.no = {"agent_state", "ssh", "github"}
    BY <1>4, <1>5 DEF BasicYes, BasicNo
  <1> QED BY <1>6, <1>7, <1>8 DEF safe

LEMMA RestrictionsUnderCli ==
  ASSUME NEW g, WellFormed(g), NEW cli, WellFormed(cli), NEW harness,
         NEW sel \in {{}, {"api_access"}}
  PROVE  LET r == Restrictions(g)
             safe == SafeGrants(sel, harness)
             narrow == MergeCli(cli, MergeTrusted(r, safe))
             wide == MergeCli(cli, MergeTrusted(g, EmptyConfig))
         IN  /\ WellFormed(r) /\ WellFormed(safe) /\ WellFormed(narrow)
             /\ Narrower(narrow, wide)
             /\ narrow.hosts \subseteq cli.hosts \cup ApiHosts[harness]
             /\ cli.hosts \subseteq wide.hosts
             /\ Listens(narrow) \subseteq Listens(cli)
  <1> DEFINE r == Restrictions(g)
             safe == SafeGrants(sel, harness)
             under == MergeTrusted(r, safe)
             below == MergeTrusted(g, EmptyConfig)
             narrow == MergeCli(cli, under)
             wide == MergeCli(cli, below)
  <1>1. /\ WellFormed(r) /\ (Lockdown(r) <=> Lockdown(g))
        /\ \A f \in Capabilities : Grants(r, f) => Grants(g, f)
        /\ g.closed \subseteq r.closed
        /\ \A f \in Lists \ {"closed"} : r[f] = {}
    BY Restricted
  <1>2. /\ WellFormed(safe) /\ \A f \in Lists \ {"hosts"} : safe[f] = {}
        /\ safe.yes = {"no_mise", "no_toolchains", "no_docker"}
        /\ safe.no = {"agent_state", "ssh", "github"}
        /\ safe.hosts \subseteq ApiHosts[harness]
    BY SafeSelection
  <1> HIDE DEF r, safe
  <1>3. /\ WellFormed(under) /\ under.yes = safe.yes \cup (r.yes \ safe.no)
        /\ under.no = safe.no \cup (r.no \ safe.yes)
        /\ \A f \in Lists : under[f] = r[f] \cup safe[f]
    BY <1>1, <1>2, LayerIsWellFormed, LayerFields DEF MergeTrusted
  <1>4. /\ WellFormed(below)
        /\ below.yes = EmptyConfig.yes \cup (g.yes \ EmptyConfig.no)
        /\ below.no = EmptyConfig.no \cup (g.no \ EmptyConfig.yes)
        /\ \A f \in Lists : below[f] = g[f] \cup EmptyConfig[f]
    BY EmptyIsWellFormed, LayerIsWellFormed, LayerFields DEF MergeTrusted
  <1>5. /\ below.yes = g.yes /\ below.no = g.no
        /\ \A f \in Lists : below[f] = g[f]
    <2>1. /\ EmptyConfig.yes = {} /\ EmptyConfig.no = {}
          /\ \A f \in Lists : EmptyConfig[f] = {}
      BY DEF EmptyConfig, Lists
    <2> HIDE DEF below
    <2> QED BY <1>4, <2>1
  <1> HIDE DEF under, below
  <1>6. /\ WellFormed(narrow) /\ narrow.yes = cli.yes \cup (under.yes \ cli.no)
        /\ narrow.no = cli.no \cup (under.no \ cli.yes)
        /\ \A f \in Lists : narrow[f] = under[f] \cup cli[f]
    BY <1>3, MergeCliIsWellFormed, LayerFields
  <1>7. /\ wide.yes = cli.yes \cup (g.yes \ cli.no)
        /\ wide.no = cli.no \cup (g.no \ cli.yes)
        /\ \A f \in Lists : wide[f] = g[f] \cup cli[f]
    <2>1. /\ wide.yes = cli.yes \cup (below.yes \ cli.no)
          /\ wide.no = cli.no \cup (below.no \ cli.yes)
          /\ \A f \in Lists : wide[f] = below[f] \cup cli[f]
      BY <1>4, MergeCliIsWellFormed, LayerFields
    <2> HIDE DEF wide
    <2> QED BY <1>5, <2>1
  <1> HIDE DEF narrow, wide
  <1>8. Lockdown(narrow) <=> Lockdown(wide)
    BY <1>1, <1>2, <1>3, <1>6, <1>7 DEF Lockdown
  <1>10. ASSUME NEW f \in Capabilities, Grants(narrow, f) PROVE Grants(wide, f)
    <2>0. Grants(r, f) => Grants(g, f)
      BY <1>1
    <2>1. CASE f \in GrantedByYes \cap narrow.yes
      <3>1. f \notin safe.yes /\ f \notin GrantedByNo /\ f \notin GrantedUnlessYes
            /\ f # "agent_state"
        BY <1>2, <2>1 DEF GrantedByYes, GrantedByNo, GrantedUnlessYes
      <3>2. f \in cli.yes \/ (f \in r.yes /\ f \notin cli.no)
        BY <1>3, <1>6, <2>1, <3>1
      <3>3. f \in r.yes => f \in g.yes
        BY <2>0, <2>1, <3>1 DEF Grants
      <3> QED BY <1>7, <2>1, <3>2, <3>3 DEF Grants
    <2>2. CASE f \in GrantedByNo \cap narrow.no
      <3>1. f \notin safe.no /\ f \notin GrantedByYes /\ f \notin GrantedUnlessYes
            /\ f # "agent_state"
        BY <1>2, <2>2 DEF GrantedByYes, GrantedByNo, GrantedUnlessYes
      <3>2. f \in cli.no \/ (f \in r.no /\ f \notin cli.yes)
        BY <1>3, <1>6, <2>2, <3>1
      <3>3. f \in r.no => f \in g.no
        BY <2>0, <2>2, <3>1 DEF Grants
      <3> QED BY <1>7, <2>2, <3>2, <3>3 DEF Grants
    <2>3. CASE f \in GrantedUnlessYes \ narrow.yes
      <3>1. f \notin safe.no /\ f \notin GrantedByYes /\ f \notin GrantedByNo
            /\ f # "agent_state"
        BY <1>2, <2>3 DEF GrantedByYes, GrantedByNo, GrantedUnlessYes
      <3>2. f \notin cli.yes /\ (f \in cli.no \/ f \notin r.yes)
        BY <1>3, <1>6, <2>3, <3>1
      <3>3. f \notin r.yes => f \notin g.yes
        BY <2>0, <2>3, <3>1 DEF Grants
      <3> QED BY <1>7, <2>3, <3>2, <3>3 DEF Grants
    <2>4. CASE f = "agent_state" /\ f \notin narrow.no /\ ~Lockdown(narrow)
      BY <1>2, <1>3, <1>6, <1>7, <1>8, <2>4 DEF Grants
    <2> QED BY <1>10, <2>1, <2>2, <2>3, <2>4 DEF Grants
  <1>11. \A f \in Lists : narrow[f] = (r[f] \cup safe[f]) \cup cli[f]
    BY <1>3, <1>6
  <1>12. \A f \in Lists \ {"closed", "hosts"} : narrow[f] = cli[f] /\ wide[f] = g[f] \cup cli[f]
    <2> TAKE f \in Lists \ {"closed", "hosts"}
    <2>1. r[f] = {} /\ safe[f] = {}
      BY <1>1, <1>2
    <2>2. narrow[f] = (r[f] \cup safe[f]) \cup cli[f] /\ wide[f] = g[f] \cup cli[f]
      BY <1>7, <1>11
    <2> QED BY <2>1, <2>2
  <1>13. /\ wide.closed \subseteq narrow.closed
         /\ narrow.hosts \subseteq cli.hosts \cup ApiHosts[harness]
         /\ cli.hosts \subseteq wide.hosts
    BY <1>1, <1>2, <1>7, <1>11 DEF Lists
  <1>14. /\ \A f \in {"ro", "rw", "overlay", "exceptions", "private"} : narrow[f] \subseteq wide[f]
         /\ Listens(narrow) \subseteq Listens(cli)
    BY <1>12 DEF Lists, Listens
  <1>15. Granted(narrow) \subseteq Granted(wide)
    BY <1>10 DEF Granted
  <1> QED BY <1>1, <1>2, <1>6, <1>8, <1>13, <1>14, <1>15
           DEF r, safe, under, below, narrow, wide, Narrower

LEMMA NonInteractiveKeepsTrusted ==
  ASSUME NEW l, LayersShape(l), WellFormed(l.global), WellFormed(Project(l)),
         NEW cli, WellFormed(cli)
  PROVE  LET n == NonInteractive(l, cli)
             wide == MergeCli(cli, MergeTrusted(l.global, EmptyConfig))
         IN  /\ WellFormed(n) /\ KeepsTrusted(n, wide)
             /\ n.hosts \subseteq wide.hosts \cup ApiHosts[l.harness]
             /\ Listens(n) \subseteq Listens(cli) \cup Listens(Project(l))
  <1> DEFINE r == Restrictions(l.global)
             api == "network" \notin r.no /\ ~Lockdown(r)
             sel == IF api THEN {"api_access"} ELSE {}
             safe == SafeGrants(sel, l.harness)
             narrow == MergeCli(cli, MergeTrusted(r, safe))
             wide == MergeCli(cli, MergeTrusted(l.global, EmptyConfig))
             untrusted == [l EXCEPT !.trusted = FALSE]
             e == BuildEffective(r, safe, cli, untrusted)
             n == NonInteractive(l, cli)
  <1>1. n = SecureDefaults(e, cli)
    BY DEF NonInteractive, Restrictions, SafeGrants
  <1>2. sel \in {{}, {"api_access"}}
    OBVIOUS
  <1>11. e = BuildEffective(r, safe, cli, untrusted)
    OBVIOUS
  <1>12. narrow = MergeCli(cli, MergeTrusted(r, safe))
    OBVIOUS
  <1> HIDE DEF sel
  <1>3. /\ WellFormed(r) /\ WellFormed(safe) /\ WellFormed(narrow)
        /\ Narrower(narrow, wide)
        /\ narrow.hosts \subseteq cli.hosts \cup ApiHosts[l.harness]
        /\ cli.hosts \subseteq wide.hosts
        /\ Listens(narrow) \subseteq Listens(cli)
    BY <1>2, RestrictionsUnderCli
  <1> HIDE DEF r, safe, narrow, wide, e
  <1>4. ~untrusted.trusted /\ Project(untrusted) = Project(l)
    BY DEF LayersShape, Project
  <1> HIDE DEF untrusted
  <1>5. /\ WellFormed(e) /\ KeepsTrusted(e, narrow) /\ e.hosts = narrow.hosts
        /\ Listens(e) \subseteq Listens(narrow) \cup Listens(Project(l))
    BY <1>3, <1>4, <1>11, <1>12, EffectiveKeepsTrusted
  <1>6. KeepsTrusted(e, wide)
    BY <1>3, <1>5, KeepsWiderTrusted
  <1>7. /\ WellFormed(n) /\ \A f \in Fields \ {"yes", "no"} : n[f] = e[f]
        /\ \A f : Grants(n, f) => Grants(e, f)
    BY <1>1, <1>5, SecureDefaultsGrantNoMore
  <1> HIDE DEF n
  <1>8. /\ n.browser = e.browser /\ n.hosts = e.hosts
        /\ n.forward = e.forward /\ n.publish = e.publish
        /\ n.ro = e.ro /\ \A f \in Lists \ {"hosts", "ro"} : n[f] = e[f]
    BY <1>7 DEF Fields, Lists
  <1>9. Granted(n) \subseteq Granted(e)
    BY <1>7 DEF Granted
  <1>10. KeepsTrusted(n, wide)
    BY <1>6, <1>7, <1>8, <1>9, FewerGrantsKeepTrusted
  <1> QED BY <1>3, <1>5, <1>7, <1>8, <1>10 DEF Listens, n, wide

(* What finalize_launch_config adds: hosts nobody took a stand on, the     *)
(* credentials that are on, and the environment.                           *)
LEMMA FinalizedAdds ==
  ASSUME NEW c, WellFormed(c), NEW ssh, NEW host
  PROVE  LET f == Finalized(c, ssh, host).config IN
         /\ WellFormed(f)
         /\ \A g \in Fields \ {"hosts", "env", "ro"} : f[g] = c[g]
         /\ \A g : Grants(f, g) <=> Grants(c, g)
         /\ f.hosts = c.hosts \cup DefaultHosts(c, host)
         /\ f.ro = c.ro \cup NewCredentials(c)
  <1> DEFINE e == Exposed(c, host)
             f == HideSecrets(e)
  <1>1. DOMAIN c = Fields
    BY FieldsOfConfig DEF WellFormed
  <1>2. /\ DOMAIN e = Fields /\ \A g \in Fields \ {"hosts", "env", "ro"} : e[g] = c[g]
        /\ e.hosts = c.hosts \cup DefaultHosts(c, host)
        /\ e.ro = c.ro \cup NewCredentials(c)
    BY <1>1 DEF Exposed, Fields
  <1> HIDE DEF e
  <1>3. /\ DOMAIN f = Fields /\ \A g \in Fields \ {"env"} : f[g] = e[g]
    BY <1>2 DEF HideSecrets, Fields
  <1>4. Finalized(c, ssh, host).config = f
    BY DEF Finalized, e
  <1> HIDE DEF f
  <1>5. /\ \A g \in Fields \ {"hosts", "env", "ro"} : f[g] = c[g]
        /\ f.hosts = c.hosts \cup DefaultHosts(c, host)
        /\ f.ro = c.ro \cup NewCredentials(c)
    BY <1>2, <1>3 DEF Fields
  <1>6. f.yes = c.yes /\ f.no = c.no
    BY <1>5 DEF Fields
  <1>7. WellFormed(f) /\ \A g : Grants(f, g) <=> Grants(c, g)
    BY <1>3, <1>6, SameFlags
  <1> QED BY <1>4, <1>5, <1>7

LEMMA DefaultHostsAre ==
  ASSUME NEW c, NEW host
  PROVE  DefaultHosts(c, host) \subseteq RegistryHosts
            \cup (IF c.command \in Harnesses /\ c.command # NoCommand
                  THEN ApiHosts[c.command] ELSE {})
  BY DEF DefaultHosts, Harness

(***************************************************************************)
(* The mounts of a configuration.  Every mount has the turn of its group,  *)
(* so what lies on top of a path follows from the turns; where a redundant *)
(* map was left out, the shallowest of those it repeats is still there.    *)
(***************************************************************************)
\* A set of naturals has a least element.
LEMMA Least ==
  ASSUME NEW T \in SUBSET Nat, T # {}
  PROVE  \E x \in T : \A y \in T : x <= y
  <1> DEFINE Below(n) == 0 .. (n - 1)
             Belows == {Below(n) : n \in T}
  <1>1. \A n \in T : Below(n) \in FiniteSubsetsOf(Nat)
    <2> TAKE n \in T
    <2>1. IsFiniteSet(0 .. (n - 1))
      BY FS_Interval
    <2>2. 0 .. (n - 1) \subseteq Nat
      OBVIOUS
    <2> QED BY <2>1, <2>2 DEF FiniteSubsetsOf
  <1>2. Belows \subseteq FiniteSubsetsOf(Nat) /\ Belows # {}
    BY <1>1
  <1> HIDE DEF Belows
  <1>3. PICK b \in Belows : \A a \in Belows : <<a, b>> \notin StrictSubsetOrdering(Nat)
    BY <1>2, FS_StrictSubsetOrderingWellFounded, WFMin, Zenon
  <1>4. PICK x \in T : b = Below(x)
    BY <1>3 DEF Belows
  <1>5. ASSUME NEW y \in T, y < x PROVE FALSE
    <2>1. Below(y) \in Belows /\ Below(y) \in FiniteSubsetsOf(Nat) /\ b \in FiniteSubsetsOf(Nat)
      BY <1>1, <1>4 DEF Belows
    <2>2. Below(y) \subseteq b /\ y \in b /\ y \notin Below(y)
      BY <1>4, <1>5
    <2> HIDE DEF Below
    <2>3. Below(y) \in SUBSET Nat /\ b \in SUBSET Nat /\ Below(y) # b
      BY <2>1, <2>2 DEF FiniteSubsetsOf
    <2>4. <<Below(y), b>> \in StrictSubsetOrdering(Nat)
      BY <2>2, <2>3 DEF StrictSubsetOrdering
    <2> QED BY <1>3, <2>1, <2>4
  <1> QED BY <1>5

(* The destinations above one place are a chain.                           *)
LEMMA Tree ==
  /\ ProjectDir \in SamePath
  /\ \A m \in Maps : AtOrBelow(m, m) /\ Depth[m] \in Nat
  /\ \A m, n : AtOrBelow(m, n) =>
        /\ m \in Maps /\ n \in Maps
        /\ m # n => Depth[n] < Depth[m] /\ ~AtOrBelow(n, m)
  /\ \A m, n, o : AtOrBelow(m, n) /\ AtOrBelow(m, o) =>
        /\ <<n, o>> \in Overlap
        /\ n # o /\ Depth[n] <= Depth[o] => AtOrBelow(o, n) /\ Depth[n] < Depth[o]
        /\ AtOrBelow(n, o) \/ AtOrBelow(o, n)
  /\ \A m, n, o : AtOrBelow(m, n) /\ AtOrBelow(n, o) => AtOrBelow(m, o)
  <1> USE MapsAssumption, TreeAssumption
  <1>1. ASSUME NEW m \in Maps PROVE AtOrBelow(m, m) /\ Depth[m] \in Nat
    <2>1. Depth[m] \in Nat /\ <<m, m>> \in Overlap
      OBVIOUS
    <2> QED BY <2>1 DEF AtOrBelow
  <1>2. \A m, n : AtOrBelow(m, n) => m \in Maps /\ n \in Maps
    BY DEF AtOrBelow
  <1>3. ASSUME NEW m, NEW n, AtOrBelow(m, n), m # n
        PROVE  Depth[n] < Depth[m] /\ ~AtOrBelow(n, m)
    <2>1. m \in Maps /\ n \in Maps /\ Depth[m] \in Nat /\ Depth[n] \in Nat
      BY <1>1, <1>2, <1>3
    <2>2. Depth[m] # Depth[n] /\ Depth[n] <= Depth[m]
      BY <1>3, <2>1 DEF AtOrBelow
    <2>3. Depth[n] < Depth[m]
      BY <2>1, <2>2
    <2> QED BY <2>1, <2>3 DEF AtOrBelow
  <1>4. ASSUME NEW m, NEW n, NEW o, AtOrBelow(m, n), AtOrBelow(m, o)
        PROVE  /\ <<n, o>> \in Overlap
               /\ n # o /\ Depth[n] <= Depth[o] => AtOrBelow(o, n) /\ Depth[n] < Depth[o]
               /\ AtOrBelow(n, o) \/ AtOrBelow(o, n)
    <2>1. /\ m \in Maps /\ n \in Maps /\ o \in Maps
          /\ Depth[n] \in Nat /\ Depth[o] \in Nat
      BY <1>1, <1>2, <1>4
    <2>2. <<n, o>> \in Overlap
      BY <1>4, <2>1
    <2>3. <<o, n>> \in Overlap
      BY <2>1, <2>2
    <2>4. n # o => Depth[n] # Depth[o]
      BY <2>1, <2>2
    <2>5. Depth[n] <= Depth[o] => AtOrBelow(o, n)
      BY <2>3 DEF AtOrBelow
    <2>6. Depth[o] <= Depth[n] => AtOrBelow(n, o)
      BY <2>2 DEF AtOrBelow
    <2> QED BY <2>1, <2>2, <2>4, <2>5, <2>6
  <1>5. ASSUME NEW m, NEW n, NEW o, AtOrBelow(m, n), AtOrBelow(n, o) PROVE AtOrBelow(m, o)
    BY <1>2, <1>5
  <1> QED BY <1>1, <1>2, <1>3, <1>4, <1>5

(* Every mount of a plan belongs to one group, which its turn tells.       *)
LEMMA Groups ==
  ASSUME NEW c, NEW b \in Mounts(c)
  PROVE  \/ b.turn = 1 /\ b.dest \in SamePath /\ b.dest \in WorktreePaths(c)
            /\ b.access = (IF Lockdown(c) THEN "ro" ELSE "rw")
         \/ b.turn = 4 /\ b.dest = ProjectDir /\ b.access = (IF Shut(c) THEN "ro" ELSE "rw")
         \/ b.turn = 7 /\ b.access = "closed" /\ b.dest \in Closed(c)
         \/ /\ ~Shut(c)
            /\ \/ /\ b.turn = (IF InProject(b.dest) THEN 5 ELSE 2)
                  /\ [dest |-> b.dest, access |-> b.access] \in ExtraMounts(c)
               \/ /\ b.turn = (IF InProject(b.dest) THEN 6 ELSE 3)
                  /\ b.access = "copy" /\ b.dest \in c.overlay
  <1>1. CASE b \in Placed(WorktreeMounts(c), "git_worktree")
    <2>1. PICK x \in WorktreeMounts(c) : b = [dest |-> x.dest, access |-> x.access, turn |-> 1]
      BY <1>1 DEF Placed, Turn
    <2>2. /\ "no_worktree" \in c.no /\ Worktree # NoWorktree
          /\ x \in Gives(IF Lockdown(c) THEN "ro" ELSE "rw", {Worktree})
      BY <2>1 DEF WorktreeMounts, WorktreePaths, Gives
    <2>3. x.dest = Worktree /\ x.access = (IF Lockdown(c) THEN "ro" ELSE "rw")
      BY <2>2 DEF Gives
    <2> QED BY <2>1, <2>2, <2>3, TreeAssumption DEF WorktreePaths
  <1>2. CASE ~Shut(c) /\ b \in Split(ExtraMounts(c), "extra", "extra_inside")
    <2>1. PICK x \in ExtraMounts(c) :
            b = [dest |-> x.dest, access |-> x.access, turn |-> IF InProject(x.dest) THEN 5 ELSE 2]
      BY <1>2 DEF Split, Placed, Turn
    <2>2. x = [dest |-> x.dest, access |-> x.access]
      BY DEF ExtraMounts, Listed, Gives
    <2> QED BY <1>2, <2>1, <2>2
  <1>3. CASE ~Shut(c) /\ b \in Split(Gives("copy", c.overlay), "overlay", "overlay_inside")
    BY <1>3 DEF Split, Placed, Turn, Gives
  <1>4. CASE b \in Placed(Gives(IF Shut(c) THEN "ro" ELSE "rw", {ProjectDir}), "project")
    BY <1>4 DEF Placed, Turn, Gives
  <1>5. CASE b \in Placed(Gives("closed", Closed(c)), "closed")
    BY <1>5 DEF Placed, Turn, Gives
  <1> QED BY <1>1, <1>2, <1>3, <1>4, <1>5 DEF Mounts

LEMMA Turns ==
  ASSUME NEW c, NEW b \in Mounts(c)
  PROVE  /\ b.turn \in 1 .. 7
         /\ b.turn = 1 => /\ "no_worktree" \in c.no /\ b.dest \in SamePath
                          /\ b.dest \in WorktreePaths(c)
                          /\ b.access = (IF Lockdown(c) THEN "ro" ELSE "rw")
         /\ b.turn = 4 => b.dest = ProjectDir /\ b.access = (IF Shut(c) THEN "ro" ELSE "rw")
         /\ b.turn = 7 => b.access = "closed" /\ b.dest \in Closed(c)
         /\ b.turn \in {2, 5} => /\ [dest |-> b.dest, access |-> b.access] \in ExtraMounts(c)
                                 /\ ~Shut(c) /\ (b.turn = 5 <=> InProject(b.dest))
         /\ b.turn \in {3, 6} => /\ b.access = "copy" /\ b.dest \in c.overlay
                                 /\ ~Shut(c) /\ (b.turn = 6 <=> InProject(b.dest))
  <1>1. CASE /\ b.turn = 1 /\ b.dest \in SamePath /\ b.dest \in WorktreePaths(c)
             /\ b.access = (IF Lockdown(c) THEN "ro" ELSE "rw")
    BY <1>1 DEF WorktreePaths
  <1>2. CASE b.turn = 4 /\ b.dest = ProjectDir /\ b.access = (IF Shut(c) THEN "ro" ELSE "rw")
    BY <1>2
  <1>3. CASE b.turn = 7 /\ b.access = "closed" /\ b.dest \in Closed(c)
    BY <1>3
  <1>4. CASE /\ ~Shut(c) /\ b.turn = (IF InProject(b.dest) THEN 5 ELSE 2)
             /\ [dest |-> b.dest, access |-> b.access] \in ExtraMounts(c)
    <2>1. CASE InProject(b.dest)
      BY <1>4, <2>1
    <2>2. CASE ~InProject(b.dest)
      BY <1>4, <2>2
    <2> QED BY <2>1, <2>2
  <1>5. CASE /\ ~Shut(c) /\ b.turn = (IF InProject(b.dest) THEN 6 ELSE 3)
             /\ b.access = "copy" /\ b.dest \in c.overlay
    <2>1. CASE InProject(b.dest)
      BY <1>5, <2>1
    <2>2. CASE ~InProject(b.dest)
      BY <1>5, <2>2
    <2> QED BY <2>1, <2>2
  <1> QED BY <1>1, <1>2, <1>3, <1>4, <1>5, Groups

(* The mounts a plan has for certain.                                      *)
LEMMA Planned ==
  ASSUME NEW c
  PROVE  /\ \A d \in Closed(c) : [dest |-> d, access |-> "closed", turn |-> 7] \in Mounts(c)
         /\ [dest |-> ProjectDir, access |-> IF Shut(c) THEN "ro" ELSE "rw", turn |-> 4]
                \in Mounts(c)
         /\ \A d \in WorktreePaths(c) :
                [dest |-> d, access |-> IF Lockdown(c) THEN "ro" ELSE "rw", turn |-> 1]
                    \in Mounts(c)
         /\ ~Shut(c) => \A d \in c.overlay :
                [dest |-> d, access |-> "copy", turn |-> IF InProject(d) THEN 6 ELSE 3]
                    \in Mounts(c)
         /\ ~Shut(c) => \A b \in ExtraMounts(c) :
                [dest |-> b.dest, access |-> b.access, turn |-> IF InProject(b.dest) THEN 5 ELSE 2]
                    \in Mounts(c)
  <1>1. ASSUME NEW d \in Closed(c)
        PROVE  [dest |-> d, access |-> "closed", turn |-> 7] \in Mounts(c)
    <2>1. [dest |-> d, access |-> "closed"] \in Gives("closed", Closed(c))
      BY DEF Gives
    <2>2. [dest |-> d, access |-> "closed", turn |-> 7]
            \in Placed(Gives("closed", Closed(c)), "closed")
      BY <2>1 DEF Placed, Turn
    <2> QED BY <2>2 DEF Mounts
  <1>2. [dest |-> ProjectDir, access |-> IF Shut(c) THEN "ro" ELSE "rw", turn |-> 4] \in Mounts(c)
    <2> DEFINE access == IF Shut(c) THEN "ro" ELSE "rw"
    <2>1. [dest |-> ProjectDir, access |-> access] \in Gives(access, {ProjectDir})
      BY DEF Gives
    <2>2. [dest |-> ProjectDir, access |-> access, turn |-> 4]
            \in Placed(Gives(access, {ProjectDir}), "project")
      BY <2>1 DEF Placed, Turn
    <2> QED BY <2>2 DEF Mounts
  <1>3. ASSUME ~Shut(c), NEW d \in c.overlay
        PROVE  [dest |-> d, access |-> "copy", turn |-> IF InProject(d) THEN 6 ELSE 3] \in Mounts(c)
    <2>1. [dest |-> d, access |-> "copy"] \in Gives("copy", c.overlay)
      BY DEF Gives
    <2>2. [dest |-> d, access |-> "copy", turn |-> IF InProject(d) THEN 6 ELSE 3]
            \in Split(Gives("copy", c.overlay), "overlay", "overlay_inside")
      BY <2>1 DEF Split, Placed, Turn
    <2> QED BY <1>3, <2>2 DEF Mounts
  <1>4. ASSUME ~Shut(c), NEW b \in ExtraMounts(c)
        PROVE  [dest |-> b.dest, access |-> b.access, turn |-> IF InProject(b.dest) THEN 5 ELSE 2]
                    \in Mounts(c)
    <2>1. [dest |-> b.dest, access |-> b.access, turn |-> IF InProject(b.dest) THEN 5 ELSE 2]
            \in Split(ExtraMounts(c), "extra", "extra_inside")
      BY DEF Split, Placed, Turn
    <2> QED BY <1>4, <2>1 DEF Mounts
  <1>5. ASSUME NEW d \in WorktreePaths(c)
        PROVE  [dest |-> d, access |-> IF Lockdown(c) THEN "ro" ELSE "rw", turn |-> 1]
                    \in Mounts(c)
    <2> DEFINE access == IF Lockdown(c) THEN "ro" ELSE "rw"
    <2>1. [dest |-> d, access |-> access] \in WorktreeMounts(c)
      BY <1>5 DEF WorktreePaths, WorktreeMounts, Gives
    <2>2. [dest |-> d, access |-> access, turn |-> 1] \in Placed(WorktreeMounts(c), "git_worktree")
      BY <2>1 DEF Placed, Turn
    <2> QED BY <2>2 DEF Mounts
  <1> QED BY <1>1, <1>2, <1>3, <1>4, <1>5

LEMMA Uppermost ==
  ASSUME NEW c, NEW p, NEW b \in Top(c, p)
  PROVE  /\ b \in Mounts(c) /\ AtOrBelow(p, b.dest)
         /\ b.turn \in 1 .. 7
         /\ \A a \in Mounts(c) : AtOrBelow(p, a.dest) =>
                ~(a.turn > b.turn) /\ ~(a.turn = b.turn /\ Depth[a.dest] > Depth[b.dest])
  <1>1. b \in Mounts(c) /\ AtOrBelow(p, b.dest)
    BY DEF Top, Covering
  <1>2. b.turn \in 1 .. 7
    BY <1>1, Turns
  <1> QED BY <1>1, <1>2 DEF Top, Covering, After

LEMMA ClosedOnTop ==
  ASSUME NEW c, NEW p
  PROVE  ClosedStaysClosed(c, p)
  <1> SUFFICES ASSUME NEW d \in Closed(c), AtOrBelow(p, d), NEW b \in Top(c, p)
               PROVE  b.access = "closed"
    BY DEF ClosedStaysClosed
  <1> DEFINE a == [dest |-> d, access |-> "closed", turn |-> 7]
  <1>1. a \in Mounts(c) /\ AtOrBelow(p, a.dest)
    BY Planned
  <1>2. b.turn \in 1 .. 7 /\ ~(7 > b.turn)
    BY <1>1, Uppermost
  <1>3. b.turn = 7
    BY <1>2
  <1> QED BY <1>3, Uppermost, Turns

LEMMA ShutOnTop ==
  ASSUME NEW c, BrowserProfile(c) => "no_worktree" \notin c.no, NEW p
  PROVE  ShutWritesNothing(c, p)
  <1> SUFFICES ASSUME Shut(c), NEW b \in Top(c, p) PROVE b.access # "rw"
    BY DEF ShutWritesNothing
  <1>1. b \in Mounts(c) /\ b.turn \in 1 .. 7
    BY Uppermost
  <1>2. b.turn \notin {2, 3, 5, 6}
    BY <1>1, Turns
  <1>3. CASE b.turn = 1
    <2>1. ~BrowserProfile(c)
      BY <1>1, <1>3, Turns
    <2> QED BY <1>1, <1>3, <2>1, Turns DEF Shut
  <1>4. CASE b.turn \in {4, 7}
    BY <1>1, <1>4, Turns
  <1> QED BY <1>1, <1>2, <1>3, <1>4

LEMMA OverlaysOnTop ==
  ASSUME NEW c, BrowserProfile(c) => "no_worktree" \notin c.no, NEW p
  PROVE  Keeps(c.overlay, c, p)
  <1> SUFFICES ASSUME NEW d \in c.overlay, AtOrBelow(p, d), Prevails(d, p), NEW b \in Top(c, p)
               PROVE  b.access # "rw"
    BY DEF Keeps
  <1>1. CASE Shut(c)
    BY <1>1, ShutOnTop DEF ShutWritesNothing
  <1>2. CASE ~Shut(c)
    <2> DEFINE a == [dest |-> d, access |-> "copy", turn |-> IF InProject(d) THEN 6 ELSE 3]
    <2>1. a \in Mounts(c) /\ AtOrBelow(p, a.dest)
      BY <1>2, Planned
    <2>2. b.turn \in 1 .. 7 /\ ~(a.turn > b.turn) /\ AtOrBelow(p, b.dest) /\ b \in Mounts(c)
      BY <2>1, Uppermost
    <2>3. CASE InProject(d)
      <3>1. b.turn \in {6, 7}
        BY <2>2, <2>3
      <3> QED BY <2>2, <3>1, Turns
    <2>4. CASE ~InProject(d)
      <3>1. ~AtOrBelow(p, ProjectDir)
        BY <2>4 DEF Prevails
      <3>2. b.turn \in 3 .. 7
        BY <2>2, <2>4
      <3>3. ~AtOrBelow(b.dest, ProjectDir)
        BY <2>2, <3>1, Tree
      <3>4. b.dest # ProjectDir
        BY <2>2, <3>1
      <3>5. b.turn \notin {4, 5}
        BY <2>2, <3>3, <3>4, Turns DEF InProject
      <3>6. b.turn \in {3, 6, 7}
        BY <3>2, <3>5
      <3> QED BY <2>2, <3>6, Turns
    <2> QED BY <2>3, <2>4
  <1> QED BY <1>1, <1>2

(* Among the listed mounts of a kind above a place, one is the shallowest. *)
LEMMA Shallowest ==
  ASSUME NEW S, S # {}, \A b \in S : b.dest \in Maps
  PROVE  \E b \in S : \A a \in S : Depth[b.dest] <= Depth[a.dest]
  <1> DEFINE T == {Depth[b.dest] : b \in S}
  <1>1. T \in SUBSET Nat /\ T # {}
    BY Tree
  <1>2. PICK x \in T : \A y \in T : x <= y
    BY <1>1, Least
  <1> QED BY <1>2

LEMMA ListedKinds ==
  ASSUME NEW c, NEW b \in Listed(c)
  PROVE  /\ b = [dest |-> b.dest, access |-> b.access]
         /\ \/ b.access = "ro" /\ b.dest \in c.ro
            \/ b.access = "rw" /\ \A n \in c.ro : <<b.dest, n>> \notin Overlap
  BY DEF Listed, Gives

LEMMA ReadOnlyOnTop ==
  ASSUME NEW c, BrowserProfile(c) => "no_worktree" \notin c.no, ProjectNotMapped(c), NEW p
  PROVE  Keeps(c.ro, c, p)
  <1> SUFFICES ASSUME NEW d \in c.ro, AtOrBelow(p, d), Prevails(d, p), NEW b \in Top(c, p),
                      b.access = "rw"
               PROVE  FALSE
    BY DEF Keeps
  <1>1. ~Shut(c)
    BY ShutOnTop DEF ShutWritesNothing
  <1>2. b \in Mounts(c) /\ AtOrBelow(p, b.dest)
    BY Uppermost
  <1> DEFINE Within == AtOrBelow(p, ProjectDir)
             S == {a \in Listed(c) : AtOrBelow(p, a.dest) /\ (Within => InProject(a.dest))}
  <1>3. \A a \in Listed(c) : AtOrBelow(p, a.dest) => a.access = "ro" /\ a.dest \in c.ro
    BY ListedKinds, Tree
  <1>4. [dest |-> d, access |-> "ro"] \in S
    BY DEF Prevails, Listed, Gives
  <1>5. PICK a \in S : \A x \in S : Depth[a.dest] <= Depth[x.dest]
    <2>1. \A x \in S : x.dest \in Maps
      BY Tree
    <2> HIDE DEF S
    <2> QED BY <1>4, <2>1, Shallowest
  <1>6. a \in Listed(c) /\ AtOrBelow(p, a.dest) /\ (Within => InProject(a.dest))
    BY <1>5
  <1>7. ~Redundant(a, Listed(c))
    <2> SUFFICES ASSUME NEW x \in Above(a, Listed(c)) PROVE FALSE
      BY DEF Redundant
    <2>1. x \in Listed(c) /\ x.dest # a.dest /\ AtOrBelow(a.dest, x.dest)
      BY DEF Above
    <2>2. AtOrBelow(p, x.dest) /\ Depth[x.dest] < Depth[a.dest]
      BY <1>6, <2>1, Tree
    <2>3. x.dest \in c.ro
      BY <1>3, <2>1, <2>2
    <2>4. Within => InProject(x.dest)
      <3> SUFFICES ASSUME Within PROVE InProject(x.dest)
        OBVIOUS
      <3>1. ~AtOrBelow(ProjectDir, x.dest)
        BY <2>3 DEF ProjectNotMapped
      <3>2. AtOrBelow(x.dest, ProjectDir)
        BY <2>2, <3>1, Tree
      <3> QED BY <3>1, <3>2 DEF InProject
    <2>5. x \in S
      BY <2>1, <2>2, <2>4
    <2>6. Depth[a.dest] \in Nat /\ Depth[x.dest] \in Nat
      BY <1>6, <2>2, Tree
    <2> QED BY <1>5, <2>2, <2>5, <2>6
  <1> DEFINE m == [dest |-> a.dest, access |-> a.access, turn |-> IF InProject(a.dest) THEN 5 ELSE 2]
  <1>8. m \in Mounts(c) /\ AtOrBelow(p, m.dest)
    BY <1>1, <1>6, <1>7, Planned DEF ExtraMounts
  <1>9. b.turn \in 1 .. 7 /\ ~(m.turn > b.turn)
    BY <1>8, Uppermost
  <1>10. b.turn \notin {1, 4}
    <2>1. CASE Within
      BY <1>6, <1>9, <2>1
    <2>2. CASE ~Within
      <3>1. b.dest # ProjectDir
        BY <1>2, <2>2
      <3>2. b.turn # 4
        BY <1>2, <3>1, Turns
      <3>3. b.turn # 1
        BY <1>9
      <3> QED BY <3>2, <3>3
    <2> QED BY <2>1, <2>2
  <1>11. [dest |-> b.dest, access |-> b.access] \in Listed(c)
    BY <1>2, <1>10, Turns DEF ExtraMounts
  <1> QED BY <1>2, <1>3, <1>11

LEMMA SourcesOnTop ==
  ASSUME NEW c, NEW p
  PROVE  ShowsItsSource(c, p)
  <1> SUFFICES ASSUME NEW b \in Listed(c), b.dest = p, p # ProjectDir, ~Shut(c),
                      \A d \in Closed(c) \cup c.overlay : ~AtOrBelow(p, d),
                      NEW a \in Top(c, p), a.dest # p
               PROVE  {a.dest, p} \subseteq SamePath
    BY DEF ShowsItsSource
  <1>1. a \in Mounts(c) /\ AtOrBelow(p, a.dest) /\ a.turn \in 1 .. 7
    BY Uppermost
  <1>2. a.turn \notin {3, 6}
    BY <1>1, Turns
  <1>3. a.turn # 7
    <2> SUFFICES ASSUME a.turn = 7 PROVE FALSE
      OBVIOUS
    <2>1. a.dest \in Closed(c)
      BY <1>1, Turns
    <2> QED BY <1>1, <2>1
  <1> DEFINE Mounted(x) == [dest |-> x.dest, access |-> x.access,
                       turn |-> IF InProject(x.dest) THEN 5 ELSE 2]
  (* A mount the code retains deeper than a would lie over it.             *)
  <1>4. ASSUME NEW x \in ExtraMounts(c), AtOrBelow(p, x.dest), x.dest # a.dest,
               AtOrBelow(x.dest, a.dest)
        PROVE  FALSE
    <2>1. Mounted(x) \in Mounts(c)
      BY Planned
    <2>2. ~(Mounted(x).turn > a.turn) /\ ~(Mounted(x).turn = a.turn /\ Depth[x.dest] > Depth[a.dest])
      BY <1>4, <2>1, Uppermost
    <2>3. /\ Depth[x.dest] \in Nat /\ Depth[a.dest] \in Nat /\ Depth[a.dest] < Depth[x.dest]
          /\ ~AtOrBelow(a.dest, x.dest)
      BY <1>1, <1>4, Tree
    <2>4. Mounted(x).turn \in {2, 5} /\ (Mounted(x).turn = 5 <=> InProject(x.dest))
      OBVIOUS
    <2>5. a.turn \in {4, 5} => InProject(x.dest)
      <3> SUFFICES ASSUME a.turn \in {4, 5} PROVE InProject(x.dest)
        OBVIOUS
      <3>1. AtOrBelow(a.dest, ProjectDir)
        <4>1. CASE a.turn = 4
          BY <1>1, <4>1, Tree, Turns
        <4>2. CASE a.turn = 5
          BY <1>1, <4>2, Turns DEF InProject
        <4> QED BY <4>1, <4>2
      <3> QED BY <1>4, <2>3, <3>1, Tree DEF InProject
    <2> QED BY <1>1, <1>2, <1>3, <2>2, <2>3, <2>4, <2>5
  <1>5. Redundant(b, Listed(c))
    BY <1>1, <1>4, Tree DEF ExtraMounts
  <1>6. p \in SamePath
    BY <1>5 DEF Redundant
  <1>7. CASE a.turn \in {1, 4}
    <2>1. CASE a.turn = 1
      BY <1>1, <1>6, <2>1, Turns
    <2>2. CASE a.turn = 4
      <3>1. a.dest = ProjectDir
        BY <1>1, <2>2, Turns
      <3> QED BY <1>6, <3>1, TreeAssumption
    <2> QED BY <1>7, <2>1, <2>2
  <1>8. CASE a.turn \in {2, 5}
    <2> SUFFICES ASSUME a.dest \notin SamePath PROVE FALSE
      BY <1>6
    <2> DEFINE own == [dest |-> a.dest, access |-> a.access]
               S == {x \in Listed(c) : /\ AtOrBelow(p, x.dest) /\ x.dest # a.dest
                                       /\ AtOrBelow(x.dest, a.dest)}
    <2>1. own \in Listed(c)
      BY <1>1, <1>8, Turns DEF ExtraMounts
    <2>2. b \in S
      BY <1>1, Tree
    <2>3. PICK x \in S : \A y \in S : Depth[x.dest] <= Depth[y.dest]
      <3>1. \A y \in S : y.dest \in Maps
        BY Tree
      <3> HIDE DEF S
      <3> QED BY <2>2, <3>1, Shallowest
    <2>4. /\ x \in Listed(c) /\ AtOrBelow(p, x.dest) /\ x.dest # a.dest
          /\ AtOrBelow(x.dest, a.dest)
      BY <2>3
    <2>5. Redundant(x, Listed(c))
      BY <1>4, <2>4 DEF ExtraMounts
    <2>6. PICK y \in Above(x, Listed(c)) :
            /\ y.dest \in SamePath
            /\ \A other \in Above(x, Listed(c)) : Depth[other.dest] <= Depth[y.dest]
      BY <2>5 DEF Redundant
    <2>7. y \in Listed(c) /\ y.dest # x.dest /\ AtOrBelow(x.dest, y.dest)
      BY <2>6 DEF Above
    <2>8. own \in Above(x, Listed(c))
      BY <2>1, <2>4 DEF Above
    <2>9. Depth[a.dest] <= Depth[y.dest] /\ a.dest # y.dest
      BY <2>6, <2>8
    <2>10. AtOrBelow(y.dest, a.dest) /\ AtOrBelow(p, y.dest)
      BY <2>4, <2>7, <2>9, Tree
    <2>11. y \in S
      BY <2>7, <2>9, <2>10
    <2>12. /\ Depth[x.dest] \in Nat /\ Depth[y.dest] \in Nat /\ Depth[y.dest] < Depth[x.dest]
      BY <2>7, Tree
    <2> QED BY <2>3, <2>11, <2>12
  <1> QED BY <1>1, <1>2, <1>3, <1>7, <1>8

LEMMA PlansKeepPolicy ==
  ASSUME NEW c, BrowserProfile(c) => "no_worktree" \notin c.no, NEW p
  PROVE  /\ ClosedStaysClosed(c, p) /\ ShutWritesNothing(c, p)
         /\ Keeps(c.overlay, c, p)
         /\ ProjectNotMapped(c) => Keeps(c.ro, c, p)
         /\ ShowsItsSource(c, p)
  BY ClosedOnTop, ShutOnTop, OverlaysOnTop, ReadOnlyOnTop, SourcesOnTop

(* What holds of 0 and is handed on holds of every number.                 *)
LEMMA Inductive ==
  ASSUME NEW S \in SUBSET Nat, 0 \in S, \A n \in S : n + 1 \in S
  PROVE  S = Nat
  <1> SUFFICES ASSUME Nat \ S # {} PROVE FALSE
    OBVIOUS
  <1>1. PICK x \in Nat \ S : \A y \in Nat \ S : x <= y
    <2> DEFINE T == Nat \ S
    <2>1. T \in SUBSET Nat /\ T # {}
      OBVIOUS
    <2> HIDE DEF T
    <2>2. \E x \in T : \A y \in T : x <= y
      BY <2>1, Least
    <2> QED BY <2>2 DEF T
  <1>2. x # 0 /\ x - 1 \in Nat
    BY <1>1
  <1>3. x - 1 \in S
    BY <1>1, <1>2
  <1> QED BY <1>1, <1>3

(***************************************************************************)
(* The walk over the list of mounts, for any list and tree.                *)
(***************************************************************************)
\* What a mount adds to those retained before it.
Adds(list, held, i) == IF LeftOut(list, held, i) THEN {} ELSE {i}

(* What the recursion over the list computes, for any length.              *)
LEMMA WalkIs ==
  ASSUME NEW list, Len(list) \in Nat
  PROVE  /\ Walk(list)[0] = {}
         /\ \A i \in 1..Len(list) :
                Walk(list)[i] = Walk(list)[i - 1] \cup Adds(list, Walk(list)[i - 1], i)
  <1> DEFINE Body(f, i) == IF i = 0 THEN {} ELSE f[i - 1] \cup Adds(list, f[i - 1], i)
             Is(f, n) == f = [i \in 0..n |-> Body(f, i)]
             S == {n \in Nat : \E f : Is(f, n)}
  <1>1. 0 \in S
    <2> DEFINE f == [i \in 0..0 |-> {}]
    <2>1. Is(f, 0)
      OBVIOUS
    <2> QED BY <2>1
  <1>2. ASSUME NEW n \in S PROVE n + 1 \in S
    <2>1. PICK f : Is(f, n)
      OBVIOUS
    <2> DEFINE g == [i \in 0..(n + 1) |->
                        IF i = n + 1 THEN f[n] \cup Adds(list, f[n], n + 1) ELSE f[i]]
    <2>2. \A i \in 0..n : f[i] = Body(f, i)
      BY <2>1
    <2>3. \A i \in 0..n : g[i] = f[i]
      OBVIOUS
    <2>4. \A i \in 0..(n + 1) : g[i] = Body(g, i)
      <3> TAKE i \in 0..(n + 1)
      <3>1. CASE i = n + 1
        BY <2>3, <3>1
      <3>2. CASE i # n + 1
        <4>1. i \in 0..n /\ (i # 0 => i - 1 \in 0..n)
          BY <3>2
        <4> HIDE DEF g
        <4> QED BY <2>2, <2>3, <4>1
      <3> QED BY <3>1, <3>2
    <2>5. g = [i \in 0..(n + 1) |-> g[i]]
      OBVIOUS
    <2> HIDE DEF g
    <2>6. g = [i \in 0..(n + 1) |-> Body(g, i)]
      <3> HIDE DEF Body
      <3> QED BY <2>4, <2>5
    <2>7. Is(g, n + 1)
      BY <2>6
    <2>8. \E h : Is(h, n + 1)
      <3> HIDE DEF Is
      <3> QED BY <2>7
    <2>9. n + 1 \in Nat
      OBVIOUS
    <2> HIDE DEF Is
    <2> QED BY <2>8, <2>9
  <1>3. S = Nat
    <2> HIDE DEF S
    <2>1. S \in SUBSET Nat
      BY DEF S
    <2> QED BY <1>1, <1>2, <2>1, Inductive
  <1>4. \E f : Is(f, Len(list))
    BY <1>3
  <1>5. Walk(list) = CHOOSE f : Is(f, Len(list))
    BY DEF Walk, Adds
  <1>6. Is(Walk(list), Len(list))
    BY <1>4, <1>5
  <1> QED BY <1>6

\* An order of the mounts the configuration lists: each has one place, and
\* none is before a mount of lesser depth.
Orders(list, c) ==
    /\ list \in Seq(Listed(c)) /\ InOrder(list)
    /\ \A b \in Listed(c) : \E i \in 1..Len(list) : list[i] = b
    /\ \A i, j \in 1..Len(list) : list[i] = list[j] => i = j

\* Place j of the list holds place i.
Holds(list, i, j) == AtOrBelow(list[i].dest, list[j].dest)

Nearest(list, i, j) ==
    /\ j \in 1..(i - 1) /\ Holds(list, i, j)
    /\ \A k \in 1..(i - 1) : Holds(list, i, k) => k <= j

\* Place i is not retained, as one can tell from the whole list.
Spare(list, i) ==
    /\ list[i].dest \in SamePath
    /\ \E j \in 1..(i - 1) : /\ Nearest(list, i, j)
                             /\ list[j].dest \in SamePath /\ list[j].access = list[i].access

(* In the list the mounts that hold a place are before it, in a chain.     *)
LEMMA OrderedPlaces ==
  ASSUME NEW c, c.ro \subseteq Maps, c.rw \subseteq Maps, NEW list, Orders(list, c)
  PROVE  /\ Len(list) \in Nat
         /\ \A i \in 1..Len(list) : list[i] \in Listed(c) /\ Holds(list, i, i)
         /\ \A i, j \in 1..Len(list) :
                list[i].dest = list[j].dest => i = j
         /\ \A i, j \in 1..Len(list) :
                i # j /\ Holds(list, i, j) =>
                    j < i /\ Depth[list[j].dest] < Depth[list[i].dest]
         /\ \A i, j, k \in 1..Len(list) :
                Holds(list, i, j) /\ Holds(list, i, k) /\ k <= j => Holds(list, j, k)
         /\ \A i, j, k \in 1..Len(list) :
                Holds(list, i, j) /\ Holds(list, j, k) => Holds(list, i, k)
  <1>1. /\ Len(list) \in Nat /\ DOMAIN list = 1..Len(list)
        /\ \A i \in 1..Len(list) : list[i] \in Listed(c)
    BY DEF Orders
  <1>2. ASSUME NEW b \in Listed(c) PROVE b.dest \in Maps /\ AtOrBelow(b.dest, b.dest)
    <2>1. b.dest \in Maps
      BY DEF Listed, Gives
    <2> QED BY <2>1, Tree
  <1>3. ASSUME NEW a \in Listed(c), NEW b \in Listed(c), a.dest = b.dest PROVE a = b
    <2>1. <<a.dest, a.dest>> \in Overlap
      BY <1>2, TreeAssumption
    <2>2. a.access = b.access
      BY <1>3, <2>1, ListedKinds
    <2> QED BY <1>3, <2>2, ListedKinds
  <1>4. ASSUME NEW i \in 1..Len(list), NEW j \in 1..Len(list), list[i].dest = list[j].dest
        PROVE  i = j
    BY <1>1, <1>3, <1>4 DEF Orders
  <1>5. ASSUME NEW i \in 1..Len(list), NEW j \in 1..Len(list), i # j, Holds(list, i, j)
        PROVE  j < i /\ Depth[list[j].dest] < Depth[list[i].dest]
    <2> DEFINE d == list[i].dest
               e == list[j].dest
    <2>1. d # e /\ AtOrBelow(d, e) /\ d \in Maps /\ e \in Maps
      BY <1>1, <1>2, <1>4, <1>5 DEF Holds
    <2>2. Depth[e] < Depth[d] /\ Depth[e] \in Nat /\ Depth[d] \in Nat
      <3> HIDE DEF d, e
      <3> QED BY <2>1, Tree
    <2>3. i < j => Depth[d] <= Depth[e]
      BY <1>1 DEF Orders, InOrder
    <2> QED BY <1>5, <2>2, <2>3
  <1>6. ASSUME NEW i \in 1..Len(list), NEW j \in 1..Len(list), NEW k \in 1..Len(list),
               Holds(list, i, j), Holds(list, i, k), k <= j
        PROVE  Holds(list, j, k)
    <2> DEFINE d == list[i].dest
               e == list[j].dest
               f == list[k].dest
    <2>1. Holds(list, j, k) \/ Holds(list, k, j)
      <3>1. AtOrBelow(d, e) /\ AtOrBelow(d, f)
        BY <1>6 DEF Holds
      <3>2. AtOrBelow(e, f) \/ AtOrBelow(f, e)
        <4> HIDE DEF d, e, f
        <4> QED BY <3>1, Tree
      <3> QED BY <3>2 DEF Holds
    <2>2. Holds(list, j, j)
      BY <1>1, <1>2 DEF Holds
    <2> QED BY <1>5, <1>6, <2>1, <2>2
  <1>7. ASSUME NEW i \in 1..Len(list), NEW j \in 1..Len(list), NEW k \in 1..Len(list),
               Holds(list, i, j), Holds(list, j, k)
        PROVE  Holds(list, i, k)
    BY <1>7, Tree DEF Holds
  <1> QED BY <1>1, <1>2, <1>4, <1>5, <1>6, <1>7 DEF Holds

(* A place that something holds has a nearest place that holds it.         *)
LEMMA HasNearest ==
  ASSUME NEW list, NEW i \in Nat, NEW k \in 1..(i - 1), Holds(list, i, k)
  PROVE  \E j \in 1..(i - 1) : Nearest(list, i, j)
  <1> DEFINE T == {n \in 1..(i - 1) : Holds(list, i, i - n)}
  <1>1. T \in SUBSET Nat /\ T # {}
    <2>1. i - k \in 1..(i - 1) /\ i - (i - k) = k
      OBVIOUS
    <2>2. Holds(list, i, i - (i - k))
      BY <2>1, Zenon
    <2>3. i - k \in T
      BY <2>1, <2>2
    <2>4. T \in SUBSET Nat
      OBVIOUS
    <2> HIDE DEF T
    <2> QED BY <2>3, <2>4
  <1>2. PICK n \in T : \A m \in T : n <= m
    <2> HIDE DEF T
    <2> QED BY <1>1, Least
  <1>3. ASSUME NEW m \in 1..(i - 1), Holds(list, i, m) PROVE m <= i - n
    <2>1. i - m \in 1..(i - 1) /\ i - (i - m) = m
      OBVIOUS
    <2>2. Holds(list, i, i - (i - m))
      BY <1>3, <2>1, Zenon
    <2>3. i - m \in T
      BY <2>1, <2>2
    <2>4. n <= i - m
      <3> HIDE DEF T
      <3> QED BY <1>2, <2>3
    <2> QED BY <2>4
  <1>4. i - n \in 1..(i - 1) /\ Holds(list, i, i - n)
    OBVIOUS
  <1> QED BY <1>3, <1>4 DEF Nearest

(* The nearest place above one is the deepest mount above it.              *)
LEMMA SpareIsRedundant ==
  ASSUME NEW c, c.ro \subseteq Maps, c.rw \subseteq Maps, NEW list, Orders(list, c),
         NEW i \in 1..Len(list)
  PROVE  Spare(list, i) <=> Redundant(list[i], Listed(c))
  <1>1. ASSUME NEW k \in 1..Len(list)
        PROVE  list[k] \in Above(list[i], Listed(c)) <=> k # i /\ Holds(list, i, k)
    BY OrderedPlaces DEF Above, Holds
  <1>2. ASSUME Spare(list, i) PROVE Redundant(list[i], Listed(c))
    <2>1. PICK j \in 1..(i - 1) : /\ Nearest(list, i, j) /\ list[i].dest \in SamePath
                                  /\ list[j].dest \in SamePath /\ list[j].access = list[i].access
      BY <1>2 DEF Spare
    <2>2. j \in 1..Len(list) /\ j # i /\ Holds(list, i, j)
      BY <2>1, OrderedPlaces DEF Nearest
    <2>3. list[j] \in Above(list[i], Listed(c))
      BY <1>1, <2>2
    <2>4. ASSUME NEW other \in Above(list[i], Listed(c)) PROVE Depth[other.dest] <= Depth[list[j].dest]
      <3>1. PICK k \in 1..Len(list) : list[k] = other
        BY DEF Above, Orders
      <3>2. k # i /\ Holds(list, i, k)
        BY <1>1, <3>1
      <3>3. k < i
        BY <3>2, OrderedPlaces
      <3>4. k <= j
        BY <2>1, <3>2, <3>3, OrderedPlaces DEF Nearest
      <3>5. Holds(list, j, k)
        BY <2>2, <3>2, <3>4, OrderedPlaces
      <3>6. Depth[list[j].dest] \in Nat
        BY <2>2, Tree DEF Holds
      <3>7. CASE k = j
        BY <3>1, <3>6, <3>7
      <3>8. CASE k # j
        <4>1. Depth[list[k].dest] < Depth[list[j].dest] /\ Depth[list[k].dest] \in Nat
          BY <2>2, <3>5, <3>8, OrderedPlaces, Tree DEF Holds
        <4> QED BY <3>1, <3>6, <4>1
      <3> QED BY <3>7, <3>8
    <2> QED BY <2>1, <2>3, <2>4 DEF Redundant
  <1>3. ASSUME Redundant(list[i], Listed(c)) PROVE Spare(list, i)
    <2>1. PICK a \in Above(list[i], Listed(c)) :
              /\ a.dest \in SamePath /\ a.access = list[i].access
              /\ \A other \in Above(list[i], Listed(c)) : Depth[other.dest] <= Depth[a.dest]
      BY <1>3 DEF Redundant
    <2>2. PICK j \in 1..Len(list) : list[j] = a
      BY DEF Above, Orders
    <2>3. j # i /\ Holds(list, i, j)
      BY <1>1, <2>2
    <2>4. j \in 1..(i - 1)
      BY <2>3, OrderedPlaces
    <2>5. ASSUME NEW k \in 1..(i - 1), Holds(list, i, k) PROVE k <= j
      <3>1. k \in 1..Len(list) /\ k # i
        BY OrderedPlaces
      <3>2. list[k] \in Above(list[i], Listed(c))
        BY <1>1, <2>5, <3>1
      <3>3. Depth[list[k].dest] <= Depth[list[j].dest]
        BY <2>1, <2>2, <3>2
      <3>4. SUFFICES ASSUME j < k PROVE FALSE
        BY <2>4
      <3>5. Holds(list, k, j)
        BY <2>3, <2>5, <3>1, <3>4, OrderedPlaces
      <3>6. Depth[list[j].dest] < Depth[list[k].dest]
        BY <3>1, <3>4, <3>5, OrderedPlaces
      <3>7. Depth[list[j].dest] \in Nat /\ Depth[list[k].dest] \in Nat
        BY <3>5, Tree DEF Holds
      <3> QED BY <3>3, <3>6, <3>7
    <2>6. Nearest(list, i, j)
      BY <2>3, <2>4, <2>5 DEF Nearest
    <2>7. list[i].dest \in SamePath
      BY <1>3 DEF Redundant
    <2> QED BY <2>1, <2>2, <2>4, <2>6, <2>7 DEF Spare
  <1> QED BY <1>2, <1>3

\* What a retained place r stands for: of the mounts retained, the harness finds
\* at place i the one of r, and it is what i asked for.
ShowsAt(list, held, i, r) ==
    /\ r \in held /\ Holds(list, i, r)
    /\ list[r].access = list[i].access
    /\ r # i => list[r].dest \in SamePath /\ list[i].dest \in SamePath
    /\ \A q \in held : Holds(list, i, q) => q <= r

\* After m mounts of the list.
Walked(list, m) ==
    LET held == Walk(list)[m] IN
    /\ held \subseteq 1..m
    /\ \A i \in 1..m : /\ i \in held <=> ~Spare(list, i)
                       /\ \E r \in 1..m : ShowsAt(list, held, i, r)

(* One mount more.  The nearest mount of the list may have been left out,   *)
(* and then the mount that shows it is the nearest of those retained.      *)
LEMMA WalkedNext ==
  ASSUME NEW c, c.ro \subseteq Maps, c.rw \subseteq Maps, NEW list, Orders(list, c),
         NEW i \in 1..Len(list), Walked(list, i - 1)
  PROVE  Walked(list, i)
  <1> DEFINE old == Walk(list)[i - 1]
             now == Walk(list)[i]
  <1>1. /\ Len(list) \in Nat
        /\ now = old \cup Adds(list, old, i)
    BY OrderedPlaces, WalkIs
  <1>2. /\ old \subseteq 1..(i - 1)
        /\ \A j \in 1..(i - 1) : /\ j \in old <=> ~Spare(list, j)
                                 /\ \E r \in 1..(i - 1) : ShowsAt(list, old, j, r)
    BY DEF Walked
  <1> HIDE DEF old, now
  <1>3. \A q \in now : q \in old \/ q = i
    BY <1>1 DEF Adds
  <1>4. now \subseteq 1..i /\ \A q \in old : q \in now /\ q # i
    <2>1. \A q \in old : q \in 1..i /\ q # i /\ q \in now
      BY <1>1, <1>2
    <2>2. i \in 1..i
      BY <1>1
    <2> QED BY <1>3, <2>1, <2>2
  <1>5. ASSUME NEW j \in 1..(i - 1)
        PROVE  /\ j \in now <=> ~Spare(list, j)
               /\ \E r \in 1..i : ShowsAt(list, now, j, r)
    <2>1. j \in now <=> j \in old
      BY <1>3, <1>4, <1>1
    <2>2. PICK r \in 1..(i - 1) : ShowsAt(list, old, j, r)
      BY <1>2
    <2>3. ~Holds(list, j, i)
      BY <1>1, OrderedPlaces
    <2>4. ShowsAt(list, now, j, r) /\ r \in 1..i
      BY <1>3, <1>4, <2>2, <2>3 DEF ShowsAt
    <2> QED BY <1>2, <2>1, <2>4
  <1>6. \A q \in old : q \in 1..Len(list) /\ q < i
    BY <1>1, <1>2
  <1>7. Holds(list, i, i)
    BY <1>1, OrderedPlaces
  <1>8. ASSUME i \in now PROVE ShowsAt(list, now, i, i)
    <2>1. \A q \in now : q <= i
      BY <1>1, <1>4
    <2> QED BY <1>7, <1>8, <2>1 DEF ShowsAt
  <1>9. i \in now <=> ~LeftOut(list, old, i)
    BY <1>1, <1>4, <1>2 DEF Adds
  <1>10. ASSUME i \in now <=> ~Spare(list, i), NEW r \in 1..i, ShowsAt(list, now, i, r)
         PROVE  Walked(list, i)
    <2>1. ASSUME NEW j \in 1..i
          PROVE  /\ j \in now <=> ~Spare(list, j)
                 /\ \E x \in 1..i : ShowsAt(list, now, j, x)
      <3>1. CASE j = i
        BY <1>10, <3>1
      <3>2. CASE j # i
        <4>1. j \in 1..(i - 1)
          BY <1>1, <3>2
        <4> QED BY <1>5, <4>1
      <3> QED BY <3>1, <3>2
    <2> QED BY <1>4, <2>1 DEF Walked, now
  <1>11. i \in 1..i
    BY <1>1
  <1>12. CASE \A k \in 1..(i - 1) : ~Holds(list, i, k)
    <2>1. ~Spare(list, i)
      BY <1>12 DEF Spare, Nearest
    <2>2. ~LeftOut(list, old, i)
      BY <1>2, <1>12 DEF LeftOut, Holds
    <2> QED BY <1>8, <1>9, <1>10, <1>11, <2>1, <2>2
  <1>13. CASE \E k \in 1..(i - 1) : Holds(list, i, k)
    <2>1. PICK n \in 1..(i - 1) : Nearest(list, i, n)
      <3>1. i \in Nat
        BY <1>1
      <3> QED BY <1>13, <3>1, HasNearest
    <2>2. PICK r \in 1..(i - 1) : ShowsAt(list, old, n, r)
      BY <1>2
    <2>3. /\ n \in 1..Len(list) /\ r \in 1..Len(list) /\ Holds(list, i, n)
          /\ r \in old /\ Holds(list, n, r)
      BY <1>1, <2>1, <2>2 DEF Nearest, ShowsAt
    <2>4. Holds(list, i, r)
      BY <2>3, OrderedPlaces
    <2>5. ASSUME NEW q \in old, Holds(list, i, q) PROVE q <= r
      <3>1. q <= n
        BY <1>2, <2>1, <2>5 DEF Nearest
      <3>2. Holds(list, n, q)
        BY <1>6, <2>3, <2>5, <3>1, OrderedPlaces
      <3> QED BY <2>2, <3>2 DEF ShowsAt
    <2>6. LeftOut(list, old, i) <=> /\ list[i].dest \in SamePath /\ list[r].dest \in SamePath
                                    /\ list[r].access = list[i].access
      <3>1. ASSUME LeftOut(list, old, i)
            PROVE  /\ list[i].dest \in SamePath /\ list[r].dest \in SamePath
                   /\ list[r].access = list[i].access
        <4>1. PICK k \in old : /\ Holds(list, i, k) /\ \A j \in old : Holds(list, i, j) => j <= k
                               /\ list[k].dest \in SamePath /\ list[k].access = list[i].access
          BY <3>1 DEF LeftOut, Holds
        <4>2. k <= r /\ r <= k
          BY <2>3, <2>4, <2>5, <4>1
        <4>3. k = r
          BY <1>6, <2>3, <4>2
        <4> QED BY <3>1, <4>1, <4>3 DEF LeftOut
      <3>2. ASSUME /\ list[i].dest \in SamePath /\ list[r].dest \in SamePath
                   /\ list[r].access = list[i].access
            PROVE  LeftOut(list, old, i)
        BY <2>3, <2>4, <2>5, <3>2 DEF LeftOut, Holds
      <3> QED BY <3>1, <3>2
    <2>7. Spare(list, i) <=> /\ list[i].dest \in SamePath /\ list[n].dest \in SamePath
                             /\ list[n].access = list[i].access
      <3>1. ASSUME NEW j \in 1..(i - 1), Nearest(list, i, j) PROVE j = n
        BY <1>1, <2>1, <3>1 DEF Nearest
      <3> QED BY <2>1, <3>1 DEF Spare
    <2>8. /\ list[r].access = list[n].access
          /\ r # n => list[r].dest \in SamePath /\ list[n].dest \in SamePath
      BY <2>2 DEF ShowsAt
    <2>9. LeftOut(list, old, i) <=> Spare(list, i)
      <3>1. CASE r = n
        BY <2>6, <2>7, <3>1
      <3>2. CASE r # n
        BY <2>6, <2>7, <2>8, <3>2
      <3> QED BY <3>1, <3>2
    <2>10. CASE LeftOut(list, old, i)
      <3>1. i \notin now
        BY <1>9, <2>10
      <3>2. \A q \in now : q \in old
        BY <1>3, <3>1
      <3>3. ShowsAt(list, now, i, r)
        BY <1>4, <2>3, <2>4, <2>5, <2>6, <2>10, <3>2 DEF ShowsAt
      <3>4. r \in 1..i
        BY <1>1
      <3> QED BY <1>9, <1>10, <2>9, <2>10, <3>3, <3>4
    <2>11. CASE ~LeftOut(list, old, i)
      BY <1>8, <1>9, <1>10, <1>11, <2>9, <2>11
    <2> QED BY <2>10, <2>11
  <1> QED BY <1>12, <1>13

(* The walk of extra_mounts_with_check, which asks only the mounts it has   *)
(* retained, leaves out just the mounts that show nothing new, for any     *)
(* read-only and writable maps, over any tree and in any order by depth.   *)
THEOREM WalkRetainsExtraMounts ==
  ASSUME NEW c, c.ro \subseteq Maps, c.rw \subseteq Maps, NEW list, Orders(list, c)
  PROVE  Retained(list) = ExtraMounts(c)
  <1> DEFINE n == Len(list)
             S == {m \in Nat : m <= n => Walked(list, m)}
  <1>1. n \in Nat
    BY OrderedPlaces
  <1> HIDE DEF n
  <1>2. 0 \in S
    <2>1. Walk(list)[0] = {}
      BY <1>1, WalkIs DEF n
    <2>2. Walked(list, 0)
      BY <2>1 DEF Walked
    <2> QED BY <2>2
  <1>3. ASSUME NEW m \in S PROVE m + 1 \in S
    <2>1. SUFFICES ASSUME m + 1 <= n PROVE Walked(list, m + 1)
      OBVIOUS
    <2>2. Walked(list, m)
      BY <1>1, <2>1
    <2>3. m + 1 \in 1..n /\ (m + 1) - 1 = m
      BY <2>1, <1>1
    <2>4. Walked(list, (m + 1) - 1)
      BY <2>2, <2>3, Zenon
    <2> QED BY <2>3, <2>4, WalkedNext DEF n
  <1>4. Walked(list, n)
    <2>1. S \in SUBSET Nat
      OBVIOUS
    <2>2. S = Nat
      <3> HIDE DEF S
      <3> QED BY <1>2, <1>3, <2>1, Inductive
    <2> QED BY <1>1, <2>2
  <1> DEFINE last == Walk(list)[n]
  <1>5. last \subseteq 1..n /\ \A i \in 1..n : i \in last <=> ~Spare(list, i)
    BY <1>4 DEF Walked
  <1>6. Retained(list) = {list[k] : k \in last}
    BY DEF Retained, n
  <1> HIDE DEF last
  <1>7. ASSUME NEW b \in Retained(list) PROVE b \in ExtraMounts(c)
    <2>1. PICK k \in last : b = list[k]
      BY <1>6
    <2>2. k \in 1..n /\ ~Spare(list, k)
      BY <1>5
    <2>3. b \in Listed(c) /\ ~Redundant(b, Listed(c))
      BY <2>1, <2>2, OrderedPlaces, SpareIsRedundant DEF n
    <2> QED BY <2>3 DEF ExtraMounts
  <1>8. ASSUME NEW b \in ExtraMounts(c) PROVE b \in Retained(list)
    <2>1. b \in Listed(c) /\ ~Redundant(b, Listed(c))
      BY DEF ExtraMounts
    <2>2. PICK k \in 1..n : list[k] = b
      BY <2>1 DEF Orders, n
    <2>3. ~Spare(list, k)
      BY <2>1, <2>2, SpareIsRedundant DEF n
    <2> QED BY <1>5, <1>6, <2>2, <2>3
  <1> QED BY <1>7, <1>8

(***************************************************************************)
(* The profile of macOS, and that both platforms agree.                    *)
(***************************************************************************)
LEMMA LastRuleDecides ==
  ASSUME NEW granted, NEW denied, NEW reopened, NEW p
  PROVE  Allows(Rules(granted, denied, reopened), p) <=>
            \/ \E d \in reopened : AtOrBelow(p, d)
            \/ /\ \E d \in granted : AtOrBelow(p, d)
               /\ \A d \in denied : ~AtOrBelow(p, d)
  <1> DEFINE r == Rules(granted, denied, reopened)
  <1>1. /\ DOMAIN r = {1, 2, 3}
        /\ r[1].verdict = "allow" /\ r[2].verdict = "deny" /\ r[3].verdict = "allow"
        /\ Names(r[1], p) <=> \E d \in granted : AtOrBelow(p, d)
        /\ Names(r[2], p) <=> \E d \in denied : AtOrBelow(p, d)
        /\ Names(r[3], p) <=> \E d \in reopened : AtOrBelow(p, d)
    BY DEF Rules, Names
  <1> HIDE DEF r
  <1>2. Allows(r, p) <=> Names(r[3], p) \/ (Names(r[1], p) /\ ~Names(r[2], p))
    BY <1>1 DEF Allows
  <1> QED BY <1>1, <1>2 DEF r

LEMMA ProfilesKeepPolicy ==
  ASSUME NEW c, NEW p
  PROVE  /\ Shuts(c, p) => ~Writable(c, p) /\ (Readable(c, p) => Opened(c, p))
         /\ Shut(c) => ~Writable(c, p)
         /\ (\E d \in c.ro \cup Overlays(c) : AtOrBelow(p, d)) => ~Writable(c, p)
         /\ Writable(c, p) => Readable(c, p)
  BY LastRuleDecides DEF Readable, Writable, ReadRules, WriteRules, ReadPaths, WritablePaths,
     WriteDenied, Shuts, Opened

(* Of the mounts that hold a path, one lies over the others.               *)
LEMMA OneOnTop ==
  ASSUME NEW c, NEW p, Covering(c, p) # {}
  PROVE  Top(c, p) # {}
  <1> DEFINE S == Covering(c, p)
  <1>1. \A b \in S : /\ b.turn \in 1 .. 7 /\ Depth[b.dest] \in Nat /\ Depth[p] \in Nat
                     /\ Depth[b.dest] <= Depth[p]
    <2> SUFFICES ASSUME NEW b \in Mounts(c), AtOrBelow(p, b.dest)
                 PROVE  /\ b.turn \in 1 .. 7 /\ Depth[b.dest] \in Nat /\ Depth[p] \in Nat
                        /\ Depth[b.dest] <= Depth[p]
      BY DEF Covering
    <2>1. b.turn \in 1 .. 7
      BY Turns
    <2>2. p \in Maps /\ b.dest \in Maps
      BY Tree
    <2> QED BY <2>1, <2>2, TreeAssumption DEF AtOrBelow
  <1>2. PICK b \in S : \A a \in S : 7 - b.turn <= 7 - a.turn
    <2> DEFINE T == {7 - b.turn : b \in S}
    <2>1. T \in SUBSET Nat /\ T # {}
      BY <1>1
    <2> HIDE DEF S
    <2>2. PICK x \in T : \A y \in T : x <= y
      BY <2>1, Least
    <2> QED BY <2>2
  <1> DEFINE U == {a \in S : a.turn = b.turn}
  <1>3. PICK u \in U : \A a \in U : Depth[p] - Depth[u.dest] <= Depth[p] - Depth[a.dest]
    <2> DEFINE T == {Depth[p] - Depth[a.dest] : a \in U}
    <2>1. T \in SUBSET Nat /\ T # {}
      BY <1>1, <1>2
    <2> HIDE DEF U
    <2>2. PICK x \in T : \A y \in T : x <= y
      BY <2>1, Least
    <2> QED BY <2>2
  <1>4. u \in S /\ u.turn = b.turn
    BY <1>3
  <1>5. ASSUME NEW a \in S PROVE ~After(a, u)
    <2>1. a.turn <= u.turn
      BY <1>1, <1>2, <1>4
    <2>2. a.turn = u.turn => Depth[a.dest] <= Depth[u.dest]
      <3> SUFFICES ASSUME a.turn = u.turn PROVE Depth[a.dest] <= Depth[u.dest]
        OBVIOUS
      <3>1. a \in U
        BY <1>4
      <3> HIDE DEF U
      <3>2. Depth[p] - Depth[u.dest] <= Depth[p] - Depth[a.dest]
        BY <1>3, <3>1
      <3> QED BY <1>1, <1>4, <3>2
    <2> QED BY <1>1, <1>4, <2>1, <2>2 DEF After
  <1> QED BY <1>4, <1>5 DEF Top

(* A listed mount that is left out lies below one that is retained.        *)
LEMMA ListedAreCovered ==
  ASSUME NEW c, ~Shut(c), NEW p, NEW b \in Listed(c), AtOrBelow(p, b.dest)
  PROVE  Covering(c, p) # {}
  <1> DEFINE S == {a \in Listed(c) : AtOrBelow(p, a.dest)}
  <1>1. PICK a \in S : \A x \in S : Depth[a.dest] <= Depth[x.dest]
    <2>1. \A x \in S : x.dest \in Maps
      BY Tree
    <2>2. b \in S
      OBVIOUS
    <2> HIDE DEF S
    <2> QED BY <2>1, <2>2, Shallowest
  <1>2. a \in Listed(c) /\ AtOrBelow(p, a.dest)
    BY <1>1
  <1>3. ~Redundant(a, Listed(c))
    <2> SUFFICES ASSUME NEW x \in Above(a, Listed(c)) PROVE FALSE
      BY DEF Redundant
    <2>1. x \in Listed(c) /\ x.dest # a.dest /\ AtOrBelow(a.dest, x.dest)
      BY DEF Above
    <2>2. AtOrBelow(p, x.dest) /\ Depth[x.dest] < Depth[a.dest]
      BY <1>2, <2>1, Tree
    <2>3. x \in S
      BY <2>1, <2>2
    <2>4. Depth[a.dest] \in Nat /\ Depth[x.dest] \in Nat
      BY <1>2, <2>2, Tree
    <2> QED BY <1>1, <2>2, <2>3, <2>4
  <1> DEFINE m == [dest |-> a.dest, access |-> a.access, turn |-> IF InProject(a.dest) THEN 5 ELSE 2]
  <1>4. m \in Mounts(c) /\ AtOrBelow(p, m.dest)
    BY <1>2, <1>3, Planned DEF ExtraMounts
  <1> QED BY <1>4 DEF Covering

(* What the profile grants has a mount, where the two are alike.           *)
LEMMA GrantsAreCovered ==
  ASSUME NEW c, ~Shut(c), Alike(c), NEW p, NEW d \in ReadPaths(c), AtOrBelow(p, d)
  PROVE  Covering(c, p) # {}
  <1>1. CASE d = ProjectDir
    <2> DEFINE b == [dest |-> ProjectDir, access |-> IF Shut(c) THEN "ro" ELSE "rw", turn |-> 4]
    <2>1. b \in Mounts(c) /\ b.dest = d
      BY <1>1, Planned
    <2> QED BY <2>1 DEF Covering
  <1>2. CASE d \in WorktreePaths(c)
    <2> DEFINE b == [dest |-> d, access |-> IF Lockdown(c) THEN "ro" ELSE "rw", turn |-> 1]
    <2>1. b \in Mounts(c) /\ b.dest = d
      BY <1>2, Planned
    <2> QED BY <2>1 DEF Covering
  <1>3. CASE d \in c.overlay
    <2> DEFINE b == [dest |-> d, access |-> "copy", turn |-> IF InProject(d) THEN 6 ELSE 3]
    <2>1. b \in Mounts(c) /\ b.dest = d
      BY <1>3, Planned
    <2> QED BY <2>1 DEF Covering
  <1>4. CASE d \in c.ro
    <2>1. [dest |-> d, access |-> "ro"] \in Listed(c)
      BY <1>4 DEF Listed, Gives
    <2> QED BY <2>1, ListedAreCovered
  <1>5. CASE d \in c.rw
    <2>1. [dest |-> d, access |-> "rw"] \in Listed(c)
      BY <1>5 DEF Listed, Gives, Alike
    <2> QED BY <2>1, ListedAreCovered
  <1> QED BY <1>1, <1>2, <1>3, <1>4, <1>5 DEF ReadPaths, Overlays

(* What a mount shows is granted by the profile.                           *)
LEMMA MountsAreGranted ==
  ASSUME NEW c, ~Shut(c), Alike(c), NEW b \in Mounts(c), b.access # "closed"
  PROVE  /\ b.dest \in ReadPaths(c)
         /\ b.access = "rw" => b.dest \in WritablePaths(c)
         /\ b.access = "rw" \/ b.dest \in c.ro \cup c.overlay
  <1>1. b.turn \in 1 .. 7 /\ b.turn # 7
    BY Turns
  <1>2. CASE b.turn = 1
    <2>1. b.dest \in WorktreePaths(c) /\ b.access = "rw"
      BY <1>2, Turns DEF Shut
    <2> QED BY <2>1 DEF ReadPaths, WritablePaths
  <1>3. CASE b.turn = 4
    <2>1. b.dest = ProjectDir /\ b.access = "rw"
      BY <1>3, Turns
    <2> QED BY <2>1 DEF ReadPaths, WritablePaths
  <1>4. CASE b.turn \in {3, 6}
    <2>1. b.access = "copy" /\ b.dest \in c.overlay
      BY <1>4, Turns
    <2> QED BY <2>1 DEF ReadPaths, Overlays, Alike
  <1>5. CASE b.turn \in {2, 5}
    <2>1. [dest |-> b.dest, access |-> b.access] \in Listed(c)
      BY <1>5, Turns DEF ExtraMounts
    <2>2. \/ b.access = "ro" /\ b.dest \in c.ro
          \/ b.access = "rw" /\ b.dest \in c.rw
      BY <2>1 DEF Listed, Gives
    <2> QED BY <2>2 DEF ReadPaths, WritablePaths
  <1> QED BY <1>1, <1>2, <1>3, <1>4, <1>5

(* Neither holds the project, so each prevails over the project's bind.    *)
LEMMA AlikePrevails ==
  ASSUME NEW c, Alike(c), NEW d \in c.ro \cup c.overlay, NEW p, AtOrBelow(p, d)
  PROVE  Prevails(d, p)
  <1> SUFFICES ASSUME AtOrBelow(p, ProjectDir) PROVE InProject(d)
    BY DEF Prevails
  <1>1. ~AtOrBelow(ProjectDir, d)
    BY DEF Alike
  <1>2. AtOrBelow(d, ProjectDir)
    BY <1>1, Tree
  <1> QED BY <1>1, <1>2 DEF InProject

LEMMA PlatformsMeanTheSame ==
  ASSUME NEW c, Fitted(c), Alike(c), NEW p
  PROVE  WritesAlike(c, p) /\ (~Shut(c) => ReadsAlike(c, p))
  <1>1. CASE Shut(c)
    <2>1. ~Writable(c, p)
      BY <1>1, ProfilesKeepPolicy
    <2> QED BY <1>1, <2>1, ShutOnTop DEF WritesAlike, ShutWritesNothing, Fitted, GivesUp
  <1>2. CASE ~Shut(c)
    <2>1. Writable(c, p) <=> /\ \E d \in WritablePaths(c) : AtOrBelow(p, d)
                             /\ \A d \in WriteDenied(c) : ~AtOrBelow(p, d)
      BY LastRuleDecides DEF Writable, WriteRules
    <2>2. Readable(c, p) <=> \/ Opened(c, p)
                             \/ /\ \E d \in ReadPaths(c) : AtOrBelow(p, d)
                                /\ ~Shuts(c, p)
      BY LastRuleDecides DEF Readable, ReadRules, Opened, Shuts
    <2>3. Overlays(c) = c.overlay
      BY DEF Alike, Overlays
    <2>4. ASSUME NEW b \in Top(c, p)
          PROVE  /\ b \in Mounts(c) /\ AtOrBelow(p, b.dest)
                 /\ b.access # "closed" <=> \A d \in Closed(c) : ~AtOrBelow(p, d)
      <3>1. b \in Mounts(c) /\ AtOrBelow(p, b.dest)
        BY Uppermost
      <3>2. b.access = "closed" => b.dest \in Closed(c)
        <4>1. b.turn \in {2, 5} => b.access \in {"ro", "rw"}
          <5> SUFFICES ASSUME b.turn \in {2, 5} PROVE b.access \in {"ro", "rw"}
            OBVIOUS
          <5>1. [dest |-> b.dest, access |-> b.access] \in Listed(c)
            BY <3>1, Turns DEF ExtraMounts
          <5> QED BY <5>1 DEF Listed, Gives
        <4>2. b.turn \in {1, 4} => b.access \in {"ro", "rw"}
          BY <3>1, Turns
        <4>3. b.turn \in {3, 6} => b.access = "copy"
          BY <3>1, Turns
        <4>4. b.turn \in 1 .. 7 /\ (b.turn = 7 => b.dest \in Closed(c))
          BY <3>1, Turns
        <4> QED BY <4>1, <4>2, <4>3, <4>4
      <3> QED BY <3>1, <3>2, ClosedOnTop DEF ClosedStaysClosed
    <2>5. ASSUME Writable(c, p) PROVE \E b \in Top(c, p) : b.access = "rw"
      <3>1. PICK d \in ReadPaths(c) : AtOrBelow(p, d)
        BY <1>2, <2>1, <2>5 DEF WritablePaths, ReadPaths
      <3>2. PICK b \in Top(c, p) : TRUE
        BY <1>2, <3>1, GrantsAreCovered, OneOnTop
      <3>3. b \in Mounts(c) /\ AtOrBelow(p, b.dest) /\ b.access # "closed"
        BY <2>1, <2>4, <2>5 DEF WriteDenied
      <3>4. b.dest \notin c.ro \cup c.overlay
        BY <2>1, <2>3, <2>5, <3>3 DEF WriteDenied
      <3>5. b.access = "rw"
        BY <1>2, <3>3, <3>4, MountsAreGranted
      <3> QED BY <3>5
    <2>6. ASSUME NEW b \in Top(c, p), b.access = "rw" PROVE Writable(c, p)
      <3>1. b.dest \in WritablePaths(c) /\ AtOrBelow(p, b.dest)
        BY <1>2, <2>4, <2>6, MountsAreGranted
      <3>2. \A d \in Closed(c) : ~AtOrBelow(p, d)
        BY <2>4, <2>6
      <3>3. ASSUME NEW d \in c.overlay PROVE ~AtOrBelow(p, d)
        BY <2>6, AlikePrevails, OverlaysOnTop DEF Keeps, Fitted, GivesUp
      <3>4. ProjectNotMapped(c)
        BY DEF Alike, ProjectNotMapped
      <3>5. ASSUME NEW d \in c.ro PROVE ~AtOrBelow(p, d)
        BY <2>6, <3>4, AlikePrevails, ReadOnlyOnTop DEF Keeps, Fitted, GivesUp
      <3> QED BY <2>1, <2>3, <3>1, <3>2, <3>3, <3>5 DEF WriteDenied
    <2>7. ASSUME Readable(c, p), ~(Shuts(c, p) /\ Opened(c, p))
          PROVE  \E b \in Top(c, p) : b.access # "closed"
      <3>1. Reopened(c) \subseteq ReadPaths(c)
        BY <2>3 DEF Fitted, Reopened, ReadPaths
      <3>2. PICK d \in ReadPaths(c) : AtOrBelow(p, d)
        BY <2>2, <2>7, <3>1 DEF Opened
      <3>3. PICK b \in Top(c, p) : TRUE
        BY <1>2, <3>2, GrantsAreCovered, OneOnTop
      <3>4. ~Shuts(c, p)
        BY <2>2, <2>7
      <3> QED BY <2>4, <3>3, <3>4 DEF Shuts
    <2>8. ASSUME NEW b \in Top(c, p), b.access # "closed" PROVE Readable(c, p)
      <3>1. b.dest \in ReadPaths(c) /\ AtOrBelow(p, b.dest)
        BY <1>2, <2>4, <2>8, MountsAreGranted
      <3> QED BY <2>2, <2>4, <2>8, <3>1 DEF Shuts
    <2> QED BY <2>5, <2>6, <2>7, <2>8 DEF WritesAlike, ReadsAlike
  <1> QED BY <1>1, <1>2

(***************************************************************************)
(* The wrapper's own layers.                                               *)
(***************************************************************************)
LEMMA InnerFields ==
  ASSUME NEW c
  PROVE  /\ Inner(c).yes = WrapperArgs(c).yes /\ Inner(c).no = WrapperArgs(c).no
         /\ Inner(c).hosts = c.hosts /\ Inner(c).private = c.private /\ Inner(c).tcp = c.tcp
         /\ Inner(c).forward = c.forward /\ Inner(c).publish = c.publish
         /\ Inner(c).overlay = {}
         /\ BrowserProfile(Inner(c)) = BrowserProfile(c)
  <1> DEFINE w == WrapperArgs(c)
  <1>1. /\ w.hosts = c.hosts /\ w.private = c.private /\ w.forward = c.forward
        /\ w.tcp = c.tcp /\ w.publish = c.publish /\ w.overlay = {}
        /\ w.browser = IF BrowserProfile(c) THEN c.browser ELSE "unset"
    BY DEF WrapperArgs, EmptyConfig
  <1>2. Inner(c) = MergeCli(w, EmptyConfig)
    BY DEF Inner
  <1> HIDE DEF w
  <1>3. \A f \in Lists : Inner(c)[f] = EmptyConfig[f] \cup w[f]
    BY <1>2, LayerFields, EmptyIsWellFormed
  <1>4. \A f \in Lists : EmptyConfig[f] = {}
    BY DEF Lists, EmptyConfig
  <1>5. \A f \in Lists : Inner(c)[f] = w[f]
    BY <1>3, <1>4
  <1>6. /\ Inner(c).hosts = w.hosts /\ Inner(c).private = w.private
        /\ Inner(c).forward = w.forward /\ Inner(c).publish = w.publish
        /\ Inner(c).tcp = w.tcp /\ Inner(c).overlay = w.overlay
    BY <1>5 DEF Lists
  <1>7. Inner(c).browser = w.browser
    <2>1. Inner(c).browser = Override(w.browser, EmptyConfig.browser, "unset")
      BY <1>2, LayerFields, EmptyIsWellFormed
    <2> QED BY <2>1 DEF Override, EmptyConfig
  <1>8. Inner(c).yes = w.yes /\ Inner(c).no = w.no
    <2> DEFINE a == Answer(EmptyConfig, w.yes, w.no)
               l == Layer(w, EmptyConfig)
    <2>1. EmptyConfig.yes = {} /\ EmptyConfig.no = {}
      BY DEF EmptyConfig
    <2>2. /\ DOMAIN a = Fields
          /\ a.yes = w.yes \cup (EmptyConfig.yes \ w.no)
          /\ a.no = w.no \cup (EmptyConfig.no \ w.yes)
      <3> HIDE DEF a
      <3> QED BY Answered, FieldsOfConfig DEF a
    <2> HIDE DEF a
    <2>3. l.yes = a.yes /\ l.no = a.no /\ DOMAIN l = Fields
      BY <2>2 DEF Layer, a, Fields
    <2> HIDE DEF l
    <2>4. MergeCli(w, EmptyConfig).yes = l.yes /\ MergeCli(w, EmptyConfig).no = l.no
      BY <2>3 DEF MergeCli, l, Fields
    <2> QED BY <1>2, <2>1, <2>2, <2>3, <2>4
  <1> QED BY <1>1, <1>6, <1>7, <1>8 DEF w, BrowserProfile

LEMMA InnerGrants ==
  ASSUME NEW c, NEW f \in LayersRead \ Untold
  PROVE  Grants(Inner(c), f) = Grants(c, f)
  <1> DEFINE w == WrapperArgs(c)
             held == {g \in Capabilities : Grants(c, g)}
  <1>1. /\ w.yes = {g \in GivenEitherWay : IF g \in held THEN g \in GrantedByYes
                                                          ELSE g \in GrantedByNo}
                   \cup (GivenIfHeld \cap held) \cup (GivenAsSet \cap c.yes)
                   \cup (IF Lockdown(c) THEN {"lockdown"} ELSE {})
                   \cup ({"private_home"} \ c.no)
        /\ w.no = {g \in GivenEitherWay : ~(IF g \in held THEN g \in GrantedByYes
                                                          ELSE g \in GrantedByNo)}
                  \cup (GivenAsSet \cap c.no)
    BY DEF WrapperArgs, EmptyConfig
  <1>2. /\ \/ f \in GrantedByYes /\ f \notin GrantedByNo
           \/ f \in GrantedByNo /\ f \notin GrantedByYes
        /\ f \notin GrantedUnlessYes \cup GrantedUnlocked \cup {"lockdown", "private_home"}
        /\ f \in Capabilities
    BY DEF LayersRead, Untold, GivenEitherWay, GivenAsSet, GivenIfHeld, GrantedByYes, GrantedByNo,
           GrantedUnlessYes, Capabilities
  <1>3. Inner(c).yes = w.yes /\ Inner(c).no = w.no
    BY InnerFields
  <1> HIDE DEF w
  <1>4. f \in held <=> Grants(c, f)
    BY <1>2
  <1> HIDE DEF held
  <1>5. CASE f \in GivenEitherWay
    <2>1. f \notin GivenIfHeld \cup GivenAsSet
      BY <1>5 DEF GivenEitherWay, GivenIfHeld, GivenAsSet
    <2> QED BY <1>1, <1>2, <1>3, <1>4, <1>5, <2>1 DEF Grants
  <1>6. CASE f \in GivenAsSet
    <2>1. f \notin GivenIfHeld \cup GivenEitherWay
      BY <1>6 DEF GivenEitherWay, GivenIfHeld, GivenAsSet
    <2> QED BY <1>1, <1>2, <1>3, <1>6, <2>1 DEF Grants
  <1>7. CASE f \in {"ssh", "pictures"}
    <2>1. f \in GivenIfHeld /\ f \notin GivenEitherWay \cup GivenAsSet /\ f \in GrantedByYes
      BY <1>7 DEF GivenEitherWay, GivenIfHeld, GivenAsSet, GrantedByYes
    <2> QED BY <1>1, <1>2, <1>3, <1>4, <2>1 DEF Grants
  <1> QED BY <1>5, <1>6, <1>7 DEF LayersRead, Untold, GivenIfHeld

\* What the wrapper is not told of has the same answer whatever was decided.
LEMMA InnerIsUntold ==
  ASSUME NEW c
  PROVE  /\ ~Grants(Inner(c), "audio") /\ ~Grants(Inner(c), "private_home")
         /\ Grants(Inner(c), "agent_state") = ~Lockdown(Inner(c))
  <1> DEFINE w == WrapperArgs(c)
  <1>1. "audio" \notin w.yes /\ "agent_state" \notin w.no /\ "private_home" \notin w.no
    BY DEF WrapperArgs, EmptyConfig, GivenEitherWay, GivenIfHeld, GivenAsSet
  <1>2. Inner(c).yes = w.yes /\ Inner(c).no = w.no
    BY InnerFields
  <1> HIDE DEF w
  <1> QED BY <1>1, <1>2 DEF Grants, Lockdown, GrantedByYes, GrantedByNo, GrantedUnlessYes

LEMMA InnerIsTheSame ==
  ASSUME NEW c
  PROVE  /\ SameInside(c)
         /\ "no_worktree" \in Inner(c).no <=> "no_worktree" \in c.no
  <1>1. Lockdown(Inner(c)) = Lockdown(c)
    <2>1. "lockdown" \notin GivenEitherWay \cup GivenIfHeld \cup GivenAsSet
      BY DEF GivenEitherWay, GivenIfHeld, GivenAsSet
    <2>2. "lockdown" \in WrapperArgs(c).yes <=> Lockdown(c)
      BY <2>1 DEF WrapperArgs, EmptyConfig
    <2> QED BY <2>2, InnerFields DEF Lockdown
  <1>2. "network" \in Inner(c).yes <=> "network" \in c.yes
    <2>1. /\ "network" \in LayersRead \ Untold
          /\ "network" \in GrantedByYes
          /\ "network" \notin GrantedByNo \cup GrantedUnlessYes
      BY DEF LayersRead, Untold, GivenEitherWay, GrantedByYes, GrantedByNo, GrantedUnlessYes
    <2>2. Grants(Inner(c), "network") = Grants(c, "network")
      BY <2>1, InnerGrants
    <2> QED BY <2>1, <2>2 DEF Grants
  <1>3. "no_worktree" \in Inner(c).no <=> "no_worktree" \in c.no
    <2>1. /\ "no_worktree" \in LayersRead \ Untold
          /\ "no_worktree" \in GrantedByNo
          /\ "no_worktree" \notin GrantedByYes \cup GrantedUnlessYes
      BY DEF LayersRead, Untold, GivenAsSet, GrantedByYes, GrantedByNo, GrantedUnlessYes
    <2>2. Grants(Inner(c), "no_worktree") = Grants(c, "no_worktree")
      BY <2>1, InnerGrants
    <2> QED BY <2>1, <2>2 DEF Grants
  <1>4. TcpConnects(Inner(c)) = TcpConnects(c) /\ TcpBinds(Inner(c)) = TcpBinds(c)
    BY <1>2, InnerFields DEF TcpConnects, TcpBinds, FilteredHosts
  <1> QED BY <1>1, <1>3, <1>4, InnerFields, InnerGrants, InnerIsUntold DEF SameInside

LEMMA LockedWhole ==
  ASSUME NEW c
  PROVE  NeverHalfLocked(c)
  <1> SUFFICES ASSUME Lockdown(c) PROVE NeverHalfLocked(c)
    BY DEF NeverHalfLocked
  <1>1. Lockdown(Inner(c))
    BY InnerIsTheSame DEF SameInside
  <1>2. ASSUME NEW kernel \in Kernels, ~Refuses(Inner(c), kernel) PROVE kernel.fs = "full"
    BY <1>1, <1>2 DEF Refuses
  <1>3. ASSUME NEW p \in Maps PROVE ~LandlockWrites(c, p)
    BY <1>1 DEF LandlockWrites, LandlockPaths
  <1> QED BY <1>2, <1>3 DEF NeverHalfLocked, PrivateNet

LEMMA LayersAgreeEverywhere ==
  ASSUME NEW c, BrowserProfile(c) => "no_worktree" \notin c.no, NEW p
  PROVE  LayersAgreeOn(c, p)
  <1> DEFINE i == Inner(c)
  <1>1. /\ Lockdown(i) = Lockdown(c) /\ BrowserProfile(i) = BrowserProfile(c) /\ i.overlay = {}
        /\ WorktreePaths(i) = WorktreePaths(c)
    BY InnerIsTheSame, InnerFields DEF SameInside, WorktreePaths
  <1> HIDE DEF i
  <1> DEFINE paths == LandlockPaths(i, MountedWritable(c))
  <1>2. LandlockWrites(c, p) <=> \E d \in paths : AtOrBelow(p, d)
    BY DEF LandlockWrites, i
  <1>3. ASSUME NEW b \in Top(c, p), b.access = "rw"
        PROVE  LandlockWrites(c, p) \/ SharedRepository(c, p)
    <2>1. b \in Mounts(c) /\ AtOrBelow(p, b.dest) /\ b.turn \in 1 .. 7
      BY Uppermost
    <2>2. ~Shut(c)
      BY <1>3, ShutOnTop DEF ShutWritesNothing
    <2>3. paths = {HomeDir, ProjectDir} \cup MountedWritable(c)
                    \cup (IF WorktreePaths(c) = {} THEN {} ELSE {GitDir})
      BY <1>1, <2>2 DEF LandlockPaths, Shut
    <2>4. CASE b.turn = 1
      <3>1. b.dest \in WorktreePaths(c)
        BY <2>1, <2>4, Turns
      <3>2. GitDir \in paths
        BY <2>3, <3>1
      <3> QED BY <1>2, <2>1, <3>1, <3>2 DEF SharedRepository
    <2>5. CASE b.turn = 4
      <3>1. b.dest \in paths
        BY <2>1, <2>3, <2>5, Turns
      <3> QED BY <1>2, <2>1, <3>1
    <2>6. CASE b.turn \in {2, 5}
      <3>1. [dest |-> b.dest, access |-> "rw"] \in ExtraMounts(c)
        BY <1>3, <2>1, <2>6, Turns
      <3>2. b.dest \in MountedWritable(c)
        BY <2>2, <3>1 DEF MountedWritable
      <3> QED BY <1>2, <2>1, <2>3, <3>2
    <2>7. b.turn \notin {3, 6, 7}
      BY <1>3, <2>1, Turns
    <2> QED BY <2>1, <2>4, <2>5, <2>6, <2>7
  <1>4. ASSUME NEW d \in paths, AtOrBelow(p, d), ~AtOrBelow(p, HomeDir)
        PROVE  \E b \in Covering(c, p) : b.access = "rw"
    <2>1. ~Lockdown(c) /\ ~BrowserProfile(c) /\ ~Shut(c)
      BY <1>1, <1>4 DEF LandlockPaths, Shut
    <2>2. \/ d = ProjectDir \/ d \in MountedWritable(c)
          \/ WorktreePaths(c) # {} /\ d = GitDir
      BY <1>1, <1>4, <2>1 DEF LandlockPaths
    <2>3. CASE d = ProjectDir
      <3> DEFINE b == [dest |-> ProjectDir, access |-> IF Shut(c) THEN "ro" ELSE "rw", turn |-> 4]
      <3>1. b \in Mounts(c) /\ b.dest = d /\ b.access = "rw"
        BY <2>1, <2>3, Planned
      <3> QED BY <1>4, <3>1 DEF Covering
    <2>4. CASE d \in MountedWritable(c)
      <3>1. PICK x \in ExtraMounts(c) : x.access = "rw" /\ x.dest = d
        BY <2>1, <2>4 DEF MountedWritable
      <3> DEFINE b == [dest |-> x.dest, access |-> x.access,
                       turn |-> IF InProject(x.dest) THEN 5 ELSE 2]
      <3>2. b \in Mounts(c) /\ b.dest = d /\ b.access = "rw"
        BY <2>1, <3>1, Planned
      <3> QED BY <1>4, <3>2 DEF Covering
    <2>5. CASE WorktreePaths(c) # {} /\ d = GitDir
      <3>1. Worktree \in WorktreePaths(c) /\ Worktree # NoWorktree
        BY <2>5 DEF WorktreePaths
      <3>2. AtOrBelow(p, Worktree)
        BY <1>4, <2>5, <3>1, LayersAssumption, Tree
      <3> DEFINE b == [dest |-> Worktree, access |-> IF Lockdown(c) THEN "ro" ELSE "rw",
                       turn |-> 1]
      <3>3. b \in Mounts(c) /\ b.access = "rw"
        BY <2>1, <3>1, Planned
      <3> QED BY <3>2, <3>3 DEF Covering
    <2> QED BY <2>2, <2>3, <2>4, <2>5
  <1> QED BY <1>2, <1>3, <1>4 DEF LayersAgreeOn

(***************************************************************************)
(* Configurations that are well formed and listen on ports of Ports.       *)
(***************************************************************************)
LEMMA EmptyIsSound == Sound(EmptyConfig)
  BY EmptyIsWellFormed DEF Sound, Listens, EmptyConfig

LEMMA SoundCommand ==
  ASSUME NEW command
  PROVE  Sound([EmptyConfig EXCEPT !.command = command])
         /\ [EmptyConfig EXCEPT !.command = command].command = command
  <1> DEFINE d == [EmptyConfig EXCEPT !.command = command]
  <1>1. OnlyCommand(d, EmptyConfig) /\ d.command = command
    BY CommandChanges, EmptyIsWellFormed
  <1> HIDE DEF d
  <1>2. WellFormed(d) /\ \A f \in Fields \ {"command"} : d[f] = EmptyConfig[f]
    BY <1>1, OnlyCommandChanges, EmptyIsWellFormed
  <1>3. d.forward = EmptyConfig.forward /\ d.publish = EmptyConfig.publish
    BY <1>2 DEF Fields
  <1> QED BY <1>1, <1>2, <1>3, EmptyIsSound DEF Sound, Listens, d

LEMMA SoundLayers ==
  ASSUME NEW high, Sound(high), NEW low, Sound(low)
  PROVE  /\ Sound(MergeTrusted(low, high)) /\ Sound(MergeCli(high, low))
         /\ Sound(MergeProject(low, high))
  <1>1. /\ WellFormed(MergeTrusted(low, high)) /\ WellFormed(MergeCli(high, low))
        /\ WellFormed(MergeProject(low, high))
    BY LayerIsWellFormed, MergeCliIsWellFormed, ProjectMergeTightens DEF Sound, MergeTrusted
  <1>2. /\ MergeTrusted(low, high).forward = low.forward \cup high.forward
        /\ MergeTrusted(low, high).publish = low.publish \cup high.publish
        /\ MergeCli(high, low).forward = low.forward \cup high.forward
        /\ MergeCli(high, low).publish = low.publish \cup high.publish
    BY LayerFields DEF Sound, MergeTrusted, Lists
  <1>3. /\ MergeProject(low, high).forward = low.forward
        /\ MergeProject(low, high).publish = low.publish
    BY ProjectMergeTightens DEF Sound, TightensOnly
  <1> QED BY <1>1, <1>2, <1>3 DEF Sound, Listens

LEMMA SoundConstraints ==
  ASSUME NEW c, WellFormed(c)
  PROVE  Sound(Constraints(c)) /\ Constraints(c).command = NoCommand
  <1>1. /\ WellFormed(Constraints(c)) /\ Constraints(c).command = NoCommand
        /\ Constraints(c).forward = {} /\ Constraints(c).publish = {}
    <2>1. \A f \in {"exceptions", "hosts", "private", "tcp", "forward", "publish", "env", "secrets",
                    "browser"} : Constraints(c)[f] = EmptyConfig[f]
      BY ConstraintsAreWellFormed
    <2> QED BY <2>1, ConstraintsAreWellFormed DEF EmptyConfig
  <1> QED BY <1>1 DEF Sound, Listens

LEMMA SoundSelection ==
  ASSUME NEW sel, NEW approved, NEW harness
  PROVE  /\ Sound(Chosen(sel, approved, harness))
         /\ Chosen(sel, approved, harness).command = NoCommand
  <1> DEFINE g == Chosen(sel, approved, harness)
  <1>1. WellFormed(g) /\ g.command = NoCommand /\ \A f \in Lists \ {"hosts"} : g[f] = {}
    BY SelectionIsWellFormed DEF Chosen
  <1> HIDE DEF g
  <1>2. g.forward = {} /\ g.publish = {}
    BY <1>1 DEF Lists
  <1> QED BY <1>1, <1>2 DEF Sound, Listens, g

LEMMA SoundBrowser ==
  ASSUME NEW c, Sound(c), NEW command, NEW trustedCommand
  PROVE  LET d == [c EXCEPT !.command = command]
             e == ApplyBrowser(d, trustedCommand)
         IN  Sound(e) /\ OnlyCommand(d, c) /\ d.command = command
             /\ e.forward = c.forward /\ e.publish = c.publish
  <1> DEFINE d == [c EXCEPT !.command = command]
             e == ApplyBrowser(d, trustedCommand)
  <1>1. OnlyCommand(d, c) /\ d.command = command
    BY CommandChanges DEF Sound
  <1> HIDE DEF d
  <1>2. WellFormed(d) /\ d.forward = c.forward /\ d.publish = c.publish
    BY <1>1, OnlyCommandChanges DEF Sound, Fields
  <1>3. WellFormed(e) /\ e.forward = d.forward /\ e.publish = d.publish
    BY <1>2, BrowserProfileGrants DEF Fields
  <1> HIDE DEF e
  <1> QED BY <1>1, <1>2, <1>3 DEF Sound, Listens, d, e

LEMMA SoundFinalized ==
  ASSUME NEW c, Sound(c), NEW ssh, NEW host
  PROVE  /\ Sound(Finalized(c, ssh, host).config)
         /\ Finalized(c, ssh, host).config.forward = c.forward
         /\ Finalized(c, ssh, host).config.publish = c.publish
  <1> DEFINE f == Finalized(c, ssh, host).config
  <1>1. WellFormed(f) /\ \A g \in Fields \ {"hosts", "env", "ro"} : f[g] = c[g]
    BY FinalizedAdds DEF Sound
  <1> HIDE DEF f
  <1>2. f.forward = c.forward /\ f.publish = c.publish
    BY <1>1 DEF Fields
  <1> QED BY <1>1, <1>2 DEF Sound, Listens, f

LEMMA SoundEffective ==
  ASSUME NEW global, Sound(global), NEW proposed, Sound(proposed), NEW cli, Sound(cli),
         NEW l, Sound(Project(l))
  PROVE  Sound(BuildEffective(global, proposed, cli, l))
  <1> DEFINE trusted == MergeCli(cli, MergeTrusted(global, proposed))
             e == BuildEffective(global, proposed, cli, l)
  <1>1. Sound(MergeTrusted(global, proposed))
    BY SoundLayers
  <1>2. Sound(trusted)
    BY <1>1, SoundLayers
  <1>3. WellFormed(e) /\ Listens(e) \subseteq Listens(trusted) \cup Listens(Project(l))
    BY EffectiveKeepsTrusted DEF Sound
  <1> HIDE DEF trusted, e
  <1> QED BY <1>2, <1>3 DEF Sound, e

LEMMA SoundNonInteractive ==
  ASSUME NEW l, LayersShape(l), Sound(l.global), Sound(Project(l)), NEW cli, Sound(cli)
  PROVE  Sound(NonInteractive(l, cli))
  BY NonInteractiveKeepsTrusted DEF Sound

(* What the approvals of a wrapper add. *)
LEMMA ApprovedAdds ==
  ASSUME NEW c, WellFormed(c)
  PROVE  /\ WellFormed(ApplyApproved(c))
         /\ \A f \in Fields \ {"env", "secrets"} : ApplyApproved(c)[f] = c[f]
         /\ \A f : Grants(ApplyApproved(c), f) <=> Grants(c, f)
  <1> DEFINE d == ApplyApproved(c)
  <1>1. DOMAIN c = Fields
    BY FieldsOfConfig DEF WellFormed
  <1>2. DOMAIN d = Fields /\ \A f \in Fields \ {"env", "secrets"} : d[f] = c[f]
    BY <1>1 DEF ApplyApproved, Fields
  <1> HIDE DEF d
  <1>3. d.yes = c.yes /\ d.no = c.no
    BY <1>2 DEF Fields
  <1>4. WellFormed(d) /\ \A f : Grants(d, f) <=> Grants(c, f)
    BY <1>2, <1>3, SameFlags
  <1> QED BY <1>2, <1>4 DEF d

LEMMA SoundApproved ==
  ASSUME NEW c, Sound(c)
  PROVE  /\ Sound(ApplyApproved(c)) /\ ApplyApproved(c).forward = c.forward
         /\ ApplyApproved(c).publish = c.publish
  <1> DEFINE d == ApplyApproved(c)
  <1>1. WellFormed(d) /\ \A f \in Fields \ {"env", "secrets"} : d[f] = c[f]
    BY ApprovedAdds DEF Sound
  <1> HIDE DEF d
  <1>2. d.forward = c.forward /\ d.publish = c.publish
    BY <1>1 DEF Fields
  <1> QED BY <1>1, <1>2 DEF Sound, Listens, d

LEMMA SoundSaves ==
  ASSUME NEW cli, Sound(cli), NEW project, Sound(project)
  PROVE  /\ Sound(Constraints(ProjectForInit(cli, project)))
         /\ Constraints(ProjectForInit(cli, project)).command = NoCommand
         /\ Sound(Constraints(ProjectForAutoSave(cli, project)))
         /\ Constraints(ProjectForAutoSave(cli, project)).command = NoCommand
  BY SavesAreWellFormed, SoundConstraints DEF Sound

(***************************************************************************)
(* The launch is typed.                                                    *)
(***************************************************************************)
LEMMA LaunchInitOK == LaunchInit => LaunchOK
  <1> SUFFICES ASSUME LaunchInit PROVE LaunchOK
    OBVIOUS
  <1>1. PICK l \in Launches : in = l.in /\ disk = l.disk
    BY DEF LaunchInit
  <1>2. WellFormedLaunch(l)
    BY LaunchesAssumption
  <1>3. \A c \in {l.in.cli, l.disk.doc.grants, l.disk.doc.constraints, l.disk.legacy.config,
                 l.disk.global} \cup {l.disk.tables[k] : k \in DOMAIN l.disk.tables} :
            Listens(c) \subseteq Ports
    BY PortsNamed DEF Listens
  <1>4. \A k \in DOMAIN disk.tables : Sound(disk.tables[k])
    BY <1>1, <1>2, <1>3 DEF WellFormedLaunch, WellFormedLayer, Sound
  <1>5. DiskOK
    BY <1>1, <1>2, <1>3, <1>4 DEF DiskOK, WellFormedLaunch, WellFormedLayer, Sound
  <1>6. LoadedOK
    BY EmptyIsSound DEF LaunchInit, LoadedOK, NotLoaded, NoDoc, LayersShape, Project, EmptyConfig
  <1>7. ReviewOK /\ FinalOK /\ Sound(cfg)
    BY EmptyIsSound DEF LaunchInit, ReviewOK, FinalOK, NoReview, NoLaunch, EmptyConfig
  <1>8. ControlOK
    BY LaunchBound DEF LaunchInit, ControlOK
  <1> QED BY <1>5, <1>6, <1>7, <1>8 DEF LaunchOK

LEMMA MigrateOK ==
  ASSUME LaunchOK, Migrate
  PROVE  DiskOK'
  <1> DEFINE m == MergeProject(disk.doc.constraints, Constraints(disk.legacy.config))
  <1>1. Sound(m)
    BY SoundConstraints, SoundLayers DEF LaunchOK, DiskOK, Sound
  <1> HIDE DEF m
  <1>2. CASE UNCHANGED disk
    BY <1>2 DEF Migrate, LaunchOK, DiskOK
  <1>3. CASE disk' = [disk EXCEPT !.legacy = [present |-> FALSE, config |-> EmptyConfig],
                                  !.doc.present = TRUE, !.doc.constraints = m]
    <2>1. /\ DOMAIN disk' = DOMAIN disk /\ DOMAIN disk'.doc = DOMAIN disk.doc
          /\ disk'.doc.grants = disk.doc.grants /\ disk'.doc.constraints = m
          /\ disk'.doc.onboarded = disk.doc.onboarded
          /\ disk'.legacy.config = EmptyConfig /\ disk'.global = disk.global
          /\ disk'.tables = disk.tables
      BY <1>3 DEF LaunchOK, DiskOK, NoDoc
    <2>2. in' = in
      BY DEF Migrate
    <2> QED BY <1>1, <2>1, <2>2, EmptyIsSound DEF LaunchOK, DiskOK
  <1> QED BY <1>2, <1>3 DEF Migrate, m

LEMMA StoredOK ==
  ASSUME LaunchOK
  PROVE  /\ LayersShape(Layers) /\ Sound(Layers.global) /\ Sound(Layers.doc.grants)
         /\ Sound(Project(Layers)) /\ Layers.doc.grants.command = NoCommand
         /\ ~Layers.doc.onboarded => Layers.doc.grants = EmptyConfig
  <1>1. Stored = NoDoc \/ Stored = disk.doc
    BY DEF Stored
  <1>2. /\ Sound(Stored.grants) /\ Sound(Stored.constraints) /\ Stored.grants.command = NoCommand
        /\ ~Stored.onboarded => Stored.grants = EmptyConfig
    <2>1. CASE Stored = NoDoc
      <3>1. NoDoc.grants = EmptyConfig /\ NoDoc.constraints = EmptyConfig
        BY DEF NoDoc
      <3>2. EmptyConfig.command = NoCommand
        BY DEF EmptyConfig
      <3> QED BY <2>1, <3>1, <3>2, EmptyIsSound
    <2>2. CASE Stored = disk.doc
      BY <2>2 DEF LaunchOK, DiskOK
    <2> QED BY <1>1, <2>1, <2>2
  <1>3. Override(in.cli.command, disk.global.command, NoCommand) \in DOMAIN disk.tables
    BY DEF LaunchOK, DiskOK, Override
  <1>4. Sound(GlobalFor(in.cli, disk))
    BY <1>3, SoundLayers DEF LaunchOK, DiskOK, GlobalFor
  <1> QED BY <1>2, <1>4, EmptyIsSound DEF Layers, LayersShape, Project, LaunchOK, DiskOK

LEMMA BaselineOK ==
  ASSUME NEW l, Sound(l.global), Sound(l.doc.grants), Sound(Project(l)), Sound(in.cli)
  PROVE  Sound(Baseline(l)) /\ Sound(WithProject(Baseline(l), l))
  <1>1. Sound(MergeTrusted(l.global, l.doc.grants))
    BY SoundLayers
  <1>2. Sound(Baseline(l))
    BY <1>1, SoundLayers DEF Baseline
  <1> QED BY <1>2, SoundLayers DEF WithProject

LEMMA LoadPolicyOK ==
  ASSUME LaunchOK, LoadPolicy
  PROVE  LoadedOK' /\ Sound(cfg)'
  <1> DEFINE merged == WithProject(Baseline(Layers), Layers)
  <1>1. Sound(merged)
    BY StoredOK, BaselineOK DEF LaunchOK, DiskOK
  <1>2. CASE UNCHANGED <<loaded, cfg>>
    BY <1>2 DEF LaunchOK, LoadedOK
  <1> HIDE DEF merged
  <1>3. CASE loaded' = [Layers EXCEPT !.harness = Harness(merged)] /\ cfg' = merged
    <2>1. /\ DOMAIN loaded' = DOMAIN Layers /\ loaded'.doc = Layers.doc
          /\ loaded'.global = Layers.global /\ loaded'.legacy = Layers.legacy
      BY <1>3, StoredOK DEF LayersShape
    <2> HIDE DEF Layers
    <2> QED BY <1>1, <1>3, <2>1, StoredOK DEF LoadedOK, LayersShape, Project
  <1> QED BY <1>2, <1>3 DEF LoadPolicy, merged

LEMMA ConfirmOK ==
  ASSUME LaunchOK, Confirm
  PROVE  ReviewOK'
  <1>1. PICK sel \in Selections, approved \in Approvals, end \in {"saved", "once"} :
            LET grants == SelectionGrants(sel, approved, loaded.harness, TRUE)
                ssh == "selected_key" \in sel
                effective == BuildEffective(loaded.global, grants, in.cli, loaded)
                forge == IF in.terminal = "plain" THEN Unreviewed
                         ELSE IF Mode("clean") \/ Lockdown(effective) THEN NoForge
                         ELSE disk.forge
            IN  review' = [end |-> end, grants |-> grants, approved |-> approved, ssh |-> ssh,
                           launch |-> [Finalized(effective, SelectedKey(ssh), Host)
                                        EXCEPT !.reviewed = forge]]
    BY DEF Confirm
  <1> DEFINE grants == Chosen(sel, approved, loaded.harness)
             effective == BuildEffective(loaded.global, grants, in.cli, loaded)
             ssh == SelectedKey("selected_key" \in sel)
             f == Finalized(effective, ssh, Host)
  <1>2. /\ DOMAIN review' = DOMAIN NoReview /\ review'.end = end /\ review'.grants = grants
        /\ DOMAIN review'.launch = DOMAIN f /\ review'.launch.config = f.config
    BY <1>1 DEF Chosen, NoReview, Finalized
  <1>3. DOMAIN f = DOMAIN NoLaunch
    BY DEF Finalized, NoLaunch
  <1>4. Sound(grants) /\ grants.command = NoCommand
    BY SoundSelection
  <1> HIDE DEF grants
  <1>5. Sound(effective)
    BY <1>4, SoundEffective DEF LaunchOK, LoadedOK, DiskOK
  <1> HIDE DEF effective, ssh
  <1>6. Sound(f.config)
    BY <1>5, SoundFinalized
  <1> HIDE DEF f
  <1> QED BY <1>2, <1>3, <1>4, <1>6 DEF ReviewOK

LEMMA SaveProfileOK ==
  ASSUME LaunchOK, SaveProfile
  PROVE  DiskOK'
  <1>1. CASE UNCHANGED disk
    BY <1>1 DEF SaveProfile, LaunchOK, DiskOK
  <1>2. CASE disk' = [disk EXCEPT
                        !.doc = [present |-> TRUE, onboarded |-> TRUE, grants |-> review.grants,
                                 constraints |-> @.constraints, approved |-> review.approved,
                                 ssh |-> review.ssh]]
    <2>1. /\ DOMAIN disk' = DOMAIN disk /\ DOMAIN disk'.doc = DOMAIN NoDoc
          /\ disk'.doc.grants = review.grants /\ disk'.doc.constraints = disk.doc.constraints
          /\ disk'.doc.onboarded
          /\ disk'.legacy = disk.legacy /\ disk'.global = disk.global /\ disk'.tables = disk.tables
      BY <1>2 DEF LaunchOK, DiskOK, NoDoc
    <2>2. in' = in
      BY DEF SaveProfile
    <2> QED BY <2>1, <2>2 DEF LaunchOK, DiskOK, ReviewOK
  <1> QED BY <1>1, <1>2 DEF SaveProfile

LEMMA SkipReviewOK ==
  ASSUME LaunchOK, SkipReview
  PROVE  Sound(cfg)' /\ ReviewOK'
  <1>1. Sound(NonInteractive(loaded, in.cli))
    BY SoundNonInteractive DEF LaunchOK, LoadedOK, DiskOK
  <1>2. Sound(cfg)'
    BY <1>1 DEF SkipReview, LaunchOK
  <1>3. ReviewOK'
    BY DEF SkipReview, LaunchOK, ReviewOK, NoReview
  <1> QED BY <1>2, <1>3

LEMMA UseProfileOK ==
  ASSUME LaunchOK, UseProfile
  PROVE  Sound(cfg)'
  <1> DEFINE e == BuildEffective(loaded.global, loaded.doc.grants, in.cli, loaded)
  <1>1. Sound(e)
    BY SoundEffective DEF LaunchOK, LoadedOK, DiskOK
  <1> HIDE DEF e
  <1>2. Sound(ApplyApproved(e))
    BY <1>1, SoundApproved
  <1> QED BY <1>2 DEF UseProfile, LaunchOK, e

LEMMA SettleCommandOK ==
  ASSUME LaunchOK, SettleCommand
  PROVE  Sound(cfg)'
  <1> DEFINE command == IF CommandFromProject THEN Project(loaded).command
                        ELSE Override(in.cli.command, cfg.command, NoCommand)
             tc == ~CommandFromProject \/ loaded.trusted
  <1>1. cfg' = ApplyBrowser([cfg EXCEPT !.command = command], tc)
    BY DEF SettleCommand
  <1> HIDE DEF command, tc
  <1>2. Sound(ApplyBrowser([cfg EXCEPT !.command = command], tc))
    BY SoundBrowser DEF LaunchOK
  <1> QED BY <1>1, <1>2

LEMMA SavePreferencesOK ==
  ASSUME LaunchOK, SavePreferences
  PROVE  DiskOK'
  <1>1. CASE UNCHANGED disk
    BY <1>1 DEF SavePreferences, LaunchOK, DiskOK
  <1>2. CASE disk' = [disk EXCEPT !.global.bar = Override(cfg.bar, @, "unset")]
    <2>1. DOMAIN disk.global = Fields
      BY FieldsOfConfig DEF LaunchOK, DiskOK, Sound, WellFormed
    <2>2. /\ DOMAIN disk' = DOMAIN disk /\ disk'.doc = disk.doc /\ disk'.legacy = disk.legacy
          /\ disk'.tables = disk.tables
          /\ DOMAIN disk'.global = Fields
          /\ \A f \in Fields \ {"bar"} : disk'.global[f] = disk.global[f]
      BY <1>2, <2>1 DEF LaunchOK, DiskOK, Fields
    <2>3. /\ disk'.global.yes = disk.global.yes /\ disk'.global.no = disk.global.no
          /\ disk'.global.command = disk.global.command
          /\ Listens(disk'.global) = Listens(disk.global)
      BY <2>2 DEF Fields, Listens
    <2>4. Sound(disk'.global)
      BY <2>2, <2>3, SameFlags DEF LaunchOK, DiskOK, Sound
    <2>5. in' = in
      BY DEF SavePreferences
    <2> QED BY <2>2, <2>3, <2>4, <2>5 DEF LaunchOK, DiskOK
  <1> QED BY <1>1, <1>2 DEF SavePreferences

LEMMA RefusedCapabilities ==
  ASSUME NEW c
  PROVE  Refusals(c) \subseteq Capabilities
  BY DEF Refusals, Capabilities

LEMMA StoreConstraintsOK ==
  ASSUME LaunchOK, NEW c, Sound(Constraints(c)), StoreConstraints(c), in' = in
  PROVE  DiskOK' /\ kept' \subseteq Capabilities
  <1> DEFINE k == Constraints(c)
  <1> HIDE DEF k
  <1>1. disk' = [disk EXCEPT !.doc.present = TRUE, !.doc.constraints = k]
    BY DEF StoreConstraints, k
  <1>2. /\ DOMAIN disk' = DOMAIN disk /\ DOMAIN disk'.doc = DOMAIN disk.doc
        /\ disk'.doc.grants = disk.doc.grants /\ disk'.doc.constraints = k
        /\ disk'.doc.onboarded = disk.doc.onboarded
        /\ disk'.legacy = disk.legacy /\ disk'.global = disk.global
        /\ disk'.tables = disk.tables
    BY <1>1 DEF LaunchOK, DiskOK, NoDoc
  <1>3. DiskOK'
    BY <1>2 DEF LaunchOK, DiskOK, k
  <1>4. kept' \subseteq Capabilities
    BY RefusedCapabilities DEF StoreConstraints, LaunchOK, ControlOK
  <1> QED BY <1>3, <1>4

LEMMA LaunchStepOK ==
  ASSUME LaunchOK, LaunchStep
  PROVE  LaunchOK'
  <1>1. ASSUME UNCHANGED <<in, disk>> PROVE DiskOK'
    BY <1>1 DEF LaunchOK, DiskOK
  <1>2. ASSUME UNCHANGED loaded PROVE LoadedOK'
    BY <1>2 DEF LaunchOK, LoadedOK
  <1>3. ASSUME UNCHANGED cfg PROVE Sound(cfg)'
    BY <1>3 DEF LaunchOK
  <1>4. ASSUME UNCHANGED review PROVE ReviewOK'
    BY <1>4 DEF LaunchOK, ReviewOK
  <1>5. ASSUME UNCHANGED final PROVE FinalOK'
    BY <1>5 DEF LaunchOK, FinalOK
  <1>6. ControlOK
    BY DEF LaunchOK
  <1>7. CASE CheckFlags
    <2>1. ControlOK'
      BY <1>6, <1>7 DEF CheckFlags, End, ControlOK
    <2> QED BY <1>1, <1>2, <1>3, <1>4, <1>5, <1>7, <2>1 DEF CheckFlags, LaunchOK
  <1>8. CASE Migrate
    <2>1. ControlOK'
      BY <1>6, <1>8, RefusedCapabilities DEF Migrate, ControlOK
    <2>2. UNCHANGED <<loaded, cfg, review, final>>
      BY <1>8 DEF Migrate
    <2> QED BY <1>2, <1>3, <1>4, <1>5, <1>8, <2>1, <2>2, MigrateOK DEF LaunchOK
  <1>9. CASE LoadPolicy
    <2>1. ControlOK'
      BY <1>6, <1>9 DEF LoadPolicy, End, ControlOK
    <2>2. UNCHANGED <<in, disk, review, final>>
      BY <1>9 DEF LoadPolicy
    <2> QED BY <1>1, <1>4, <1>5, <1>9, <2>1, <2>2, LoadPolicyOK DEF LaunchOK
  <1>10. CASE SkipReview
    <2>1. ControlOK'
      BY <1>6, <1>10 DEF SkipReview, End, ControlOK
    <2>2. UNCHANGED <<in, disk, loaded, final>>
      BY <1>10 DEF SkipReview
    <2> QED BY <1>1, <1>2, <1>5, <1>10, <2>1, <2>2, SkipReviewOK DEF LaunchOK
  <1>11. CASE UseProfile
    <2>1. ControlOK'
      BY <1>6, <1>11 DEF UseProfile, End, ControlOK
    <2>2. UNCHANGED <<in, disk, loaded, review, final>>
      BY <1>11 DEF UseProfile
    <2> QED BY <1>1, <1>2, <1>4, <1>5, <1>11, <2>1, <2>2, UseProfileOK DEF LaunchOK
  <1>12. CASE UseLayers
    <2>1. ControlOK'
      BY <1>6, <1>12 DEF UseLayers, ControlOK
    <2>2. UNCHANGED <<in, disk, loaded, cfg, review, final>>
      BY <1>12 DEF UseLayers
    <2> QED BY <1>1, <1>2, <1>3, <1>4, <1>5, <2>1, <2>2 DEF LaunchOK
  <1>13. CASE SaveProfile
    <2>1. ControlOK'
      BY <1>6, <1>13 DEF SaveProfile, End, ControlOK
    <2>2. UNCHANGED <<loaded, cfg, review, final>>
      BY <1>13 DEF SaveProfile
    <2> QED BY <1>2, <1>3, <1>4, <1>5, <1>13, <2>1, <2>2, SaveProfileOK DEF LaunchOK
  <1>14. CASE LaunchReviewed
    <2>1. ControlOK'
      BY <1>6, <1>14 DEF LaunchReviewed, End, ControlOK
    <2>2. UNCHANGED <<in, disk, loaded, review, final>>
      BY <1>14 DEF LaunchReviewed
    <2>3. Sound(cfg)'
      BY <1>14 DEF LaunchReviewed, LaunchOK, ReviewOK
    <2> QED BY <1>1, <1>2, <1>4, <1>5, <2>1, <2>2, <2>3 DEF LaunchOK
  <1>15. CASE SettleCommand
    <2>1. ControlOK'
      BY <1>6, <1>15 DEF SettleCommand, End, ControlOK
    <2>2. UNCHANGED <<in, disk, loaded, review, final>>
      BY <1>15 DEF SettleCommand
    <2> QED BY <1>1, <1>2, <1>4, <1>5, <1>15, <2>1, <2>2, SettleCommandOK DEF LaunchOK
  <1>16. CASE ShowStatus
    <2>1. ControlOK'
      BY <1>6, <1>16 DEF ShowStatus, End, ControlOK
    <2>2. UNCHANGED <<in, disk, loaded, cfg, review, final>>
      BY <1>16 DEF ShowStatus
    <2> QED BY <1>1, <1>2, <1>3, <1>4, <1>5, <2>1, <2>2 DEF LaunchOK
  <1>17. CASE SavePreferences
    <2>1. ControlOK'
      BY <1>6, <1>17 DEF SavePreferences, ControlOK
    <2>2. UNCHANGED <<loaded, cfg, review, final>>
      BY <1>17 DEF SavePreferences
    <2> QED BY <1>2, <1>3, <1>4, <1>5, <1>17, <2>1, <2>2, SavePreferencesOK DEF LaunchOK
  <1>18. CASE InitSaves
    <2>1. UNCHANGED <<in, loaded, cfg, review, final, count>>
      BY <1>18 DEF InitSaves
    <2>2. CASE UNCHANGED <<disk, kept>> /\ End("no store")
      <3>1. ControlOK'
        BY <1>6, <1>18, <2>1, <2>2 DEF InitSaves, End, ControlOK
      <3> QED BY <1>1, <1>2, <1>3, <1>4, <1>5, <2>1, <2>2, <3>1 DEF LaunchOK
    <2>3. CASE StoreConstraints(ProjectForInit(in.cli, Project(loaded))) /\ End("saved")
      <3>1. Sound(Constraints(ProjectForInit(in.cli, Project(loaded))))
        BY SoundSaves DEF LaunchOK, DiskOK, LoadedOK
      <3>2. DiskOK' /\ kept' \subseteq Capabilities
        BY <2>1, <2>3, <3>1, StoreConstraintsOK
      <3>3. ControlOK'
        BY <1>6, <1>18, <2>1, <2>3, <3>2 DEF InitSaves, End, ControlOK
      <3> QED BY <1>2, <1>3, <1>4, <1>5, <2>1, <3>2, <3>3 DEF LaunchOK
    <2> QED BY <1>18, <2>2, <2>3 DEF InitSaves
  <1>19. CASE Bootstrap
    <2>1. ControlOK'
      BY <1>6, <1>19 DEF Bootstrap, End, ControlOK
    <2>2. UNCHANGED <<in, disk, loaded, cfg, review, final>>
      BY <1>19 DEF Bootstrap
    <2> QED BY <1>1, <1>2, <1>3, <1>4, <1>5, <2>1, <2>2 DEF LaunchOK
  <1>20. CASE Finalize
    <2>1. ControlOK'
      BY <1>6, <1>20 DEF Finalize, End, ControlOK
    <2>2. UNCHANGED <<in, disk, loaded, cfg, review>>
      BY <1>20 DEF Finalize
    <2>3. DOMAIN Finalized(cfg, SelectedKey(loaded.doc.ssh), Host) = DOMAIN NoLaunch
      BY DEF Finalized, NoLaunch
    <2>4. Sound(Finalized(cfg, SelectedKey(loaded.doc.ssh), Host).config)
      BY SoundFinalized DEF LaunchOK
    <2>5. FinalOK'
      BY <1>5, <1>20, <2>3, <2>4 DEF Finalize, FinalOK, LaunchOK, ReviewOK
    <2> QED BY <1>1, <1>2, <1>3, <1>4, <2>1, <2>2, <2>5 DEF LaunchOK
  <1>21. CASE AutoSave
    <2>1. UNCHANGED <<in, loaded, cfg, review, final, count>>
      BY <1>21 DEF AutoSave
    <2>2. CASE UNCHANGED <<disk, kept>>
      <3>1. ControlOK'
        BY <1>6, <1>21, <2>1, <2>2 DEF AutoSave, End, ControlOK
      <3> QED BY <1>1, <1>2, <1>3, <1>4, <1>5, <2>1, <2>2, <3>1 DEF LaunchOK
    <2>3. CASE StoreConstraints(ProjectForAutoSave(in.cli, Project(loaded)))
      <3>1. Sound(Constraints(ProjectForAutoSave(in.cli, Project(loaded))))
        BY SoundSaves DEF LaunchOK, DiskOK, LoadedOK
      <3>2. DiskOK' /\ kept' \subseteq Capabilities
        BY <2>1, <2>3, <3>1, StoreConstraintsOK
      <3>3. ControlOK'
        BY <1>6, <1>21, <2>1, <2>3, <3>2 DEF AutoSave, End, ControlOK
      <3> QED BY <1>2, <1>3, <1>4, <1>5, <2>1, <3>2, <3>3 DEF LaunchOK
    <2> QED BY <1>21, <2>2, <2>3 DEF AutoSave
  <1>22. CASE AttachForge
    <2>1. ControlOK'
      BY <1>6, <1>22 DEF AttachForge, End, ControlOK
    <2>2. UNCHANGED <<in, disk, loaded, cfg, review>>
      BY <1>22 DEF AttachForge
    <2>3. FinalOK'
      BY <1>22 DEF AttachForge, LaunchOK, FinalOK, NoLaunch
    <2> QED BY <1>1, <1>2, <1>3, <1>4, <2>1, <2>2, <2>3 DEF LaunchOK
  <1>23. CASE PassthroughMissing
    <2>1. ControlOK'
      BY <1>6, <1>23 DEF PassthroughMissing, End, ControlOK
    <2>2. UNCHANGED <<in, disk, loaded, cfg, review, final>>
      BY <1>23 DEF PassthroughMissing
    <2> QED BY <1>1, <1>2, <1>3, <1>4, <1>5, <2>1, <2>2 DEF LaunchOK
  <1>30. CASE PlanRefused
    <2>1. ControlOK'
      BY <1>6, <1>30 DEF PlanRefused, End, ControlOK
    <2>2. UNCHANGED <<in, disk, loaded, cfg, review, final>>
      BY <1>30 DEF PlanRefused
    <2> QED BY <1>1, <1>2, <1>3, <1>4, <1>5, <2>1, <2>2 DEF LaunchOK
  <1>24. CASE Confirm
    <2>1. ControlOK'
      BY <1>6, <1>24 DEF Confirm, ControlOK
    <2>2. UNCHANGED <<in, disk, loaded, cfg, final>>
      BY <1>24 DEF Confirm
    <2> QED BY <1>1, <1>2, <1>3, <1>5, <1>24, <2>1, <2>2, ConfirmOK DEF LaunchOK
  <1>25. CASE CancelReview
    <2>1. ControlOK'
      BY <1>6, <1>25 DEF CancelReview, End, ControlOK
    <2>2. UNCHANGED <<in, disk, loaded, cfg, final>>
      BY <1>25 DEF CancelReview
    <2>3. ReviewOK'
      BY <1>25 DEF CancelReview, LaunchOK, ReviewOK, NoReview
    <2> QED BY <1>1, <1>2, <1>3, <1>5, <2>1, <2>2, <2>3 DEF LaunchOK
  <1>26. CASE PortTaken
    <2>1. ControlOK'
      BY <1>6, <1>26 DEF PortTaken, End, ControlOK
    <2>2. UNCHANGED <<in, disk, loaded, cfg, review, final>>
      BY <1>26 DEF PortTaken
    <2> QED BY <1>1, <1>2, <1>3, <1>4, <1>5, <2>1, <2>2 DEF LaunchOK
  <1>27. CASE ForgeChanges
    <2>1. ControlOK'
      BY <1>6, <1>27 DEF ForgeChanges, ControlOK
    <2>2. UNCHANGED <<in, loaded, cfg, review, final>>
      BY <1>27 DEF ForgeChanges
    <2>3. PICK f : disk' = [disk EXCEPT !.forge = f]
      BY <1>27 DEF ForgeChanges
    <2>4. /\ DOMAIN disk' = DOMAIN disk /\ disk'.doc = disk.doc /\ disk'.legacy = disk.legacy
          /\ disk'.tables = disk.tables /\ disk'.global = disk.global
      BY <2>3 DEF LaunchOK, DiskOK
    <2>5. DiskOK'
      BY <2>2, <2>4 DEF LaunchOK, DiskOK
    <2> QED BY <1>2, <1>3, <1>4, <1>5, <2>1, <2>2, <2>5 DEF LaunchOK
  <1>28. CASE PortsBound \/ Spawn \/ ChildExits
    <2>1. ControlOK'
      BY <1>6, <1>28 DEF PortsBound, Spawn, ChildExits, End, ControlOK
    <2>2. UNCHANGED <<in, disk, loaded, cfg, review, final>>
      BY <1>28 DEF PortsBound, Spawn, ChildExits
    <2> QED BY <1>1, <1>2, <1>3, <1>4, <1>5, <2>1, <2>2 DEF LaunchOK
  <1>29. CASE Relaunch
    <2>1. ControlOK'
      BY <1>6, <1>29, LaunchBound DEF Relaunch, ControlOK
    <2>2. /\ DOMAIN in' = DOMAIN in /\ in'.cli = [EmptyConfig EXCEPT !.command = in.cli.command]
          /\ disk' = disk
      BY <1>29 DEF Relaunch, LaunchOK, DiskOK
    <2>3. Sound(in'.cli) /\ in'.cli.command = in.cli.command
      BY <2>2, SoundCommand
    <2>4. DiskOK'
      BY <2>2, <2>3 DEF LaunchOK, DiskOK
    <2>5. LoadedOK'
      BY <1>29, EmptyIsSound
         DEF Relaunch, LoadedOK, NotLoaded, NoDoc, LayersShape, Project, EmptyConfig
    <2>6. ReviewOK' /\ FinalOK' /\ Sound(cfg)'
      BY <1>29, EmptyIsSound DEF Relaunch, ReviewOK, FinalOK, NoReview, NoLaunch, EmptyConfig
    <2> QED BY <2>1, <2>4, <2>5, <2>6 DEF LaunchOK
  <1> QED BY <1>7, <1>8, <1>9, <1>10, <1>11, <1>12, <1>13, <1>14, <1>15, <1>16, <1>17, <1>18,
            <1>19, <1>20, <1>21, <1>22, <1>23, <1>24, <1>25, <1>26, <1>27, <1>28, <1>29, <1>30
         DEF LaunchStep, Proceed, Decided

LEMMA Stepping ==
  ASSUME [Next]_vars
  PROVE  LaunchStep \/ UNCHANGED launchVars
  BY DEF Next, vars, LaunchStep, Proceed, Decided, OpenPorts, StartSandbox, EndLaunch, Return, Again

LEMMA LaunchUnchangedOK ==
  ASSUME LaunchOK, UNCHANGED launchVars
  PROVE  LaunchOK'
  BY DEF LaunchOK, DiskOK, LoadedOK, ReviewOK, FinalOK, ControlOK, launchVars

(***************************************************************************)
(* The launch and its ports: what is bound is what the finalized launch    *)
(* names, the sandbox runs only while the launch does, and a confirmed     *)
(* launch stays what was confirmed.                                        *)
(***************************************************************************)
LEMMA ConfirmAsConfirmed ==
  ASSUME LaunchOK, Confirm
  PROVE  AsConfirmed'
  <1>1. PICK sel \in Selections, approved \in Approvals, end \in {"saved", "once"} :
            LET grants == SelectionGrants(sel, approved, loaded.harness, TRUE)
                ssh == "selected_key" \in sel
                effective == BuildEffective(loaded.global, grants, in.cli, loaded)
                forge == IF in.terminal = "plain" THEN Unreviewed
                         ELSE IF Mode("clean") \/ Lockdown(effective) THEN NoForge
                         ELSE disk.forge
            IN  review' = [end |-> end, grants |-> grants, approved |-> approved, ssh |-> ssh,
                           launch |-> [Finalized(effective, SelectedKey(ssh), Host)
                                        EXCEPT !.reviewed = forge]]
    BY DEF Confirm
  <1> DEFINE grants == Chosen(sel, approved, loaded.harness)
             effective == BuildEffective(loaded.global, grants, in.cli, loaded)
             ssh == SelectedKey("selected_key" \in sel)
             f == Finalized(effective, ssh, Host)
             forge == IF in.terminal = "plain" THEN Unreviewed
                      ELSE IF Mode("clean") \/ Lockdown(effective) THEN NoForge
                      ELSE disk.forge
  <1>2. review'.launch = [f EXCEPT !.reviewed = forge]
    BY <1>1 DEF Chosen
  <1>3. /\ review'.launch.config = f.config /\ review'.launch.reviewed = forge
        /\ review'.launch.forge = NoForge
    BY <1>2 DEF Finalized
  <1>4. Sound(grants)
    BY SoundSelection
  <1> HIDE DEF grants
  <1>5. Sound(effective)
    BY <1>4, SoundEffective DEF LaunchOK, LoadedOK, DiskOK
  <1> HIDE DEF effective, ssh
  <1>6. f.config.yes = effective.yes
    <2>1. \A g \in Fields \ {"hosts", "env", "ro"} : f.config[g] = effective[g]
      BY <1>5, FinalizedAdds DEF Sound
    <2> HIDE DEF f
    <2> QED BY <2>1 DEF Fields
  <1> HIDE DEF f
  <1>7. Lockdown(review'.launch.config) <=> Lockdown(effective)
    BY <1>3, <1>6 DEF Lockdown
  <1>8. pc' = "confirmed" /\ in' = in
    BY DEF Confirm
  <1> QED BY <1>3, <1>7, <1>8 DEF AsConfirmed, Mode

LEMMA EarlyAsConfirmed ==
  ASSUME AsConfirmed, UNCHANGED <<in, review>>, pc' \notin Late
  PROVE  AsConfirmed'
  BY DEF AsConfirmed, Confirmed, Mode, Late

LEMMA AttachForgeAsConfirmed ==
  ASSUME LaunchOK, AsConfirmed, AttachForge
  PROVE  AsConfirmed'
  <1>1. UNCHANGED <<in, review>>
    BY DEF AttachForge
  <1>2. CASE pc' = "done"
    BY <1>1, <1>2, EarlyAsConfirmed DEF Late
  <1>3. CASE pc' = "spawn" /\ (Mode("clean") \/ Lockdown(final.config)) /\ final' = final
    <2> SUFFICES ASSUME Confirmed' PROVE review.launch.reviewed \in {Unreviewed, final.forge}
      BY <1>1, <1>3 DEF AsConfirmed, AttachForge, Confirmed, Mode
    <2>1. /\ Confirmed /\ final = review.launch /\ review.launch.forge = NoForge
      BY <1>1 DEF AsConfirmed, AttachForge, Confirmed
    <2> QED BY <1>3, <2>1 DEF AsConfirmed
  <1>4. CASE pc' = "spawn" /\ ForgeAsReviewed /\ final' = [final EXCEPT !.forge = disk.forge]
    <2>1. /\ final'.config = final.config /\ final'.secrets = final.secrets
          /\ final'.ssh = final.ssh /\ final'.forge = disk.forge
      BY <1>4 DEF LaunchOK, FinalOK, NoLaunch
    <2>2. final.reviewed \in {Unreviewed, disk.forge}
      BY <1>4 DEF ForgeAsReviewed
    <2>3. pc = "forge"
      BY DEF AttachForge
    <2> QED BY <1>1, <1>4, <2>1, <2>2, <2>3 DEF AsConfirmed, Confirmed, Mode
  <1> QED BY <1>2, <1>3, <1>4 DEF AttachForge, End

LEMMA StepAsConfirmed ==
  ASSUME LaunchOK, AsConfirmed, Listening, LaunchStep
  PROVE  AsConfirmed'
  <1>1. CASE Confirm
    BY <1>1, ConfirmAsConfirmed
  <1>2. CASE AttachForge
    BY <1>2, AttachForgeAsConfirmed
  <1>3. CASE \/ CheckFlags \/ Migrate \/ LoadPolicy \/ UseProfile \/ UseLayers
             \/ SaveProfile \/ LaunchReviewed
    <2>1. UNCHANGED <<in, review>> /\ pc' \notin Late
      BY <1>3 DEF CheckFlags, Migrate, LoadPolicy, UseProfile, UseLayers, SaveProfile,
         LaunchReviewed, End, Late
    <2> QED BY <2>1, EarlyAsConfirmed
  <1>4. CASE \/ SettleCommand \/ ShowStatus \/ SavePreferences \/ InitSaves \/ Bootstrap
             \/ PassthroughMissing \/ PlanRefused \/ PortTaken \/ ChildExits
    <2>1. UNCHANGED <<in, review>> /\ pc' \notin Late
      BY <1>4 DEF SettleCommand, ShowStatus, SavePreferences, InitSaves, Bootstrap,
         PassthroughMissing, PlanRefused, PortTaken, ChildExits, End, Late
    <2> QED BY <2>1, EarlyAsConfirmed
  <1>5. CASE SkipReview \/ CancelReview
    <2>1. ~Confirmed'
      BY <1>5 DEF SkipReview, CancelReview, Confirmed, LaunchOK, ReviewOK, NoReview
    <2> QED BY <2>1 DEF AsConfirmed
  <1>6. CASE Relaunch
    BY <1>6 DEF Relaunch, AsConfirmed, Confirmed, NoReview
  <1>7. CASE Finalize
    <2>1. UNCHANGED <<in, review>>
      BY <1>7 DEF Finalize
    <2>2. CASE pc' = "done"
      BY <2>1, <2>2, EarlyAsConfirmed DEF Late
    <2>3. CASE pc' = "ports" /\ (Confirmed => final' = review.launch)
      BY <2>1, <2>3 DEF AsConfirmed, Confirmed, Mode
    <2> QED BY <1>7, <2>2, <2>3 DEF Finalize, End
  <1>8. CASE PortsBound \/ Spawn \/ ForgeChanges
    BY <1>8 DEF PortsBound, Spawn, ForgeChanges, AsConfirmed, Confirmed, Mode
  <1>9. CASE AutoSave
    BY <1>9 DEF AutoSave, End, AsConfirmed, Confirmed, Mode
  <1> QED BY <1>1, <1>2, <1>3, <1>4, <1>5, <1>6, <1>7, <1>8, <1>9
         DEF LaunchStep, Proceed, Decided

(***************************************************************************)
(* The listeners of the configuration on its way.                          *)
(***************************************************************************)
LEMMA QuietListening ==
  ASSUME Listening, UNCHANGED <<review, cfg, final, forwards, publishes>>,
         pc' \in {"migrate", "load", "confirmed", "reviewed", "done"}
         \/ (pc = "modes" /\ pc' = "write") \/ (pc = "load" /\ pc' = "review")
         \/ (pc = "autosave" /\ pc' = "forge") \/ (pc = "forge" /\ pc' = "spawn")
         \/ (pc = "spawn" /\ pc' = "running") \/ (pc = "review" /\ pc' = "settle")
         \/ pc' = pc,
         pc' \in {"migrate", "load"} => pc \in {"flags", "migrate"}
  PROVE  Listening'
  BY DEF Listening, Confirmed, SameListeners, Apart

LEMMA SettleListening ==
  ASSUME LaunchOK, Listening, SettleCommand, UNCHANGED <<forwards, publishes>>
  PROVE  Listening'
  <1> DEFINE command == IF CommandFromProject THEN Project(loaded).command
                        ELSE Override(in.cli.command, cfg.command, NoCommand)
             tc == ~CommandFromProject \/ loaded.trusted
             settled == ApplyBrowser([cfg EXCEPT !.command = command], tc)
  <1>1. cfg' = settled /\ (pc' = "modes" => NetworkFlagsAgree(settled))
    BY DEF SettleCommand, End
  <1> HIDE DEF command, tc
  <1>2. settled.forward = cfg.forward /\ settled.publish = cfg.publish
    BY SoundBrowser DEF LaunchOK
  <1> HIDE DEF settled
  <1>3. pc' = "modes" => Apart(cfg')
    BY <1>1 DEF NetworkFlagsAgree, Apart
  <1>4. pc = "settle" /\ pc' \in {"modes", "done"} /\ UNCHANGED <<review, final>>
    BY DEF SettleCommand, End
  <1> QED BY <1>1, <1>2, <1>3, <1>4 DEF Listening, SameListeners, Confirmed

LEMMA FinalizeListening ==
  ASSUME LaunchOK, Listening, Finalize, UNCHANGED <<forwards, publishes>>
  PROVE  Listening'
  <1>1. Apart(cfg) /\ (Confirmed => SameListeners(cfg, review.launch.config))
    BY DEF Finalize, Listening
  <1>2. /\ Finalized(cfg, SelectedKey(loaded.doc.ssh), Host).config.forward = cfg.forward
        /\ Finalized(cfg, SelectedKey(loaded.doc.ssh), Host).config.publish = cfg.publish
    BY SoundFinalized DEF LaunchOK
  <1>3. pc' = "ports" => Apart(final'.config)
    BY <1>1, <1>2 DEF Finalize, End, Apart, SameListeners
  <1>4. pc' \in {"ports", "done"} /\ UNCHANGED <<review, cfg>>
    BY DEF Finalize, End
  <1> QED BY <1>3, <1>4 DEF Listening

LEMMA StepListening ==
  ASSUME LaunchOK, Listening, LaunchStep, ~PortsBound, UNCHANGED <<forwards, publishes>>
  PROVE  Listening'
  <1>1. CASE SettleCommand
    BY <1>1, SettleListening
  <1>2. CASE Finalize
    BY <1>2, FinalizeListening
  <1>3. CASE CheckFlags \/ Migrate \/ UseLayers \/ SaveProfile \/ ShowStatus \/ SavePreferences
    <2>1. UNCHANGED <<review, cfg, final, forwards, publishes>>
      BY <1>3 DEF CheckFlags, Migrate, UseLayers, SaveProfile, ShowStatus, SavePreferences
    <2> QED BY <1>3, <2>1, QuietListening
         DEF CheckFlags, Migrate, UseLayers, SaveProfile, ShowStatus, SavePreferences, End
  <1>4. CASE \/ InitSaves \/ Bootstrap \/ AutoSave \/ PassthroughMissing \/ PlanRefused \/ PortTaken
             \/ Spawn \/ ChildExits \/ ForgeChanges
    <2>1. UNCHANGED <<review, cfg, final, forwards, publishes>>
      BY <1>4 DEF InitSaves, Bootstrap, AutoSave, PassthroughMissing, PlanRefused, PortTaken, Spawn,
         ChildExits, ForgeChanges
    <2> QED BY <1>4, <2>1, QuietListening
         DEF InitSaves, Bootstrap, AutoSave, PassthroughMissing, PlanRefused, PortTaken, Spawn,
             ChildExits, ForgeChanges, End
  <1>5. CASE LoadPolicy
    BY <1>5 DEF LoadPolicy, End, Listening, Confirmed
  <1>6. CASE SkipReview \/ UseProfile \/ CancelReview
    <2>1. ~Confirmed' /\ pc' \in {"settle", "done"} /\ UNCHANGED final
      BY <1>6 DEF SkipReview, UseProfile, CancelReview, End, Listening, Confirmed,
         LaunchOK, ReviewOK, NoReview
    <2> QED BY <2>1 DEF Listening
  <1>7. CASE LaunchReviewed
    <2>1. /\ pc' = "settle" /\ cfg' = review.launch.config
          \/ pc' = "done"
      BY <1>7 DEF LaunchReviewed, End
    <2>2. UNCHANGED <<review, final>>
      BY <1>7 DEF LaunchReviewed
    <2> QED BY <2>1, <2>2 DEF Listening, SameListeners
  <1>8. CASE Confirm
    BY <1>8 DEF Confirm, Listening
  <1>9. CASE AttachForge
    <2>1. final'.config = final.config
      BY <1>9 DEF AttachForge, LaunchOK, FinalOK, NoLaunch
    <2>2. pc = "forge" /\ pc' \in {"spawn", "done"}
      BY <1>9 DEF AttachForge, End
    <2> QED BY <2>1, <2>2 DEF Listening
  <1>10. CASE Relaunch
    BY <1>10 DEF Relaunch, Listening, Confirmed, NoReview
  <1> QED BY <1>1, <1>2, <1>3, <1>4, <1>5, <1>6, <1>7, <1>8, <1>9, <1>10
         DEF LaunchStep, Proceed, Decided

LEMMA OpenListening ==
  ASSUME LaunchOK, Listening, OpenPorts
  PROVE  Listening'
  <1>1. /\ pc = "ports" /\ pc' = "autosave" /\ UNCHANGED <<cfg, review, final>>
        /\ forwards' = final.config.forward /\ publishes' = final.config.publish
    BY DEF OpenPorts, PortsBound, BindPorts
  <1>2. Apart(final.config) /\ Sound(final.config)
    BY <1>1 DEF Listening, LaunchOK, FinalOK
  <1> QED BY <1>1, <1>2 DEF Listening, Apart, Sound, Listens

LEMMA ReturnListening ==
  ASSUME Listening, Return
  PROVE  Listening'
  BY DEF Listening, Return, SupervisorExits, launchVars, Confirmed, SameListeners, Apart

(***************************************************************************)
(* The wrapper and its bridges: who calls a publish's socket, in order.     *)
(***************************************************************************)
LEMMA CallersAppended ==
  ASSUME NEW s \in Seq({"stranger", "bridge", "agent"}), BridgeFirst(s),
         NEW who \in {"bridge", "agent"}, who = "agent" => Called(s)
  PROVE  /\ BridgeFirst(Append(s, who))
         /\ Called(s) \/ who = "bridge" => Called(Append(s, who))
  <1> DEFINE t == Append(s, who)
  <1>1. /\ Len(s) \in Nat /\ DOMAIN s = 1 .. Len(s) /\ DOMAIN t = 1 .. (Len(s) + 1)
        /\ \A i \in DOMAIN s : t[i] = s[i]
        /\ t[Len(s) + 1] = who
    OBVIOUS
  <1> HIDE DEF t
  <1>2. BridgeFirst(t)
    <2> SUFFICES ASSUME NEW i \in DOMAIN t, t[i] = "agent"
                 PROVE  \E j \in DOMAIN t : j < i /\ t[j] = "bridge"
      BY DEF BridgeFirst
    <2>1. CASE i \in DOMAIN s
      BY <1>1, <2>1 DEF BridgeFirst
    <2>2. CASE i = Len(s) + 1
      <3>1. PICK j \in DOMAIN s : s[j] = "bridge"
        BY <1>1, <2>2 DEF Called
      <3> QED BY <1>1, <2>2, <3>1
    <2> QED BY <1>1, <2>1, <2>2
  <1>3. Called(s) \/ who = "bridge" => Called(t)
    BY <1>1 DEF Called
  <1> QED BY <1>2, <1>3 DEF t

LEMMA CallersTaken ==
  ASSUME NEW s \in Seq({"stranger", "bridge", "agent"}), s # <<>>, BridgeFirst(s)
  PROVE  /\ Head(s) # "agent"
         /\ Tail(s) \in Seq({"stranger", "bridge", "agent"})
         /\ Head(s) = "stranger" => BridgeFirst(Tail(s)) /\ (Called(s) => Called(Tail(s)))
  <1> DEFINE t == Tail(s)
  <1>1. /\ Len(s) \in Nat /\ Len(s) > 0 /\ DOMAIN s = 1 .. Len(s) /\ Head(s) = s[1]
        /\ t \in Seq({"stranger", "bridge", "agent"})
        /\ DOMAIN t = 1 .. (Len(s) - 1)
        /\ \A i \in DOMAIN t : t[i] = s[i + 1]
    OBVIOUS
  <1> HIDE DEF t
  <1>2. Head(s) # "agent"
    BY <1>1 DEF BridgeFirst
  <1>3. ASSUME Head(s) = "stranger" PROVE BridgeFirst(t)
    <2> SUFFICES ASSUME NEW i \in DOMAIN t, t[i] = "agent"
                 PROVE  \E j \in DOMAIN t : j < i /\ t[j] = "bridge"
      BY DEF BridgeFirst
    <2>1. i + 1 \in DOMAIN s /\ s[i + 1] = "agent"
      BY <1>1
    <2>2. PICK j \in DOMAIN s : j < i + 1 /\ s[j] = "bridge"
      BY <2>1 DEF BridgeFirst
    <2>3. j # 1
      BY <1>1, <1>3, <2>2
    <2>4. j - 1 \in DOMAIN t /\ j - 1 < i /\ t[j - 1] = "bridge"
      BY <1>1, <2>2, <2>3
    <2> QED BY <2>4
  <1>4. ASSUME Head(s) = "stranger", Called(s) PROVE Called(t)
    <2>1. PICK j \in DOMAIN s : s[j] = "bridge"
      BY <1>4 DEF Called
    <2>2. j # 1
      BY <1>1, <1>4, <2>1
    <2>3. j - 1 \in DOMAIN t /\ t[j - 1] = "bridge"
      BY <1>1, <2>1, <2>2
    <2> QED BY <2>3 DEF Called
  <1> QED BY <1>1, <1>2, <1>3, <1>4 DEF t

LEMMA PortsClosedControl ==
  ASSUME PortsClosed
  PROVE  PortControl
  <1>1. <<>> \in Seq({"stranger", "bridge", "agent"}) /\ BridgeFirst(<<>>)
    BY DEF BridgeFirst
  <1>2. PortTypes
    BY <1>1 DEF PortsClosed, PortTypes, Places
  <1>3. WrapperOK
    BY DEF PortsClosed, WrapperOK, Asked
  <1>4. StreamsOK
    BY <1>1 DEF PortsClosed, StreamsOK
  <1> QED BY <1>2, <1>3, <1>4 DEF PortControl

LEMMA LaunchControl ==
  ASSUME PortControl, Proceed \/ Decided \/ EndLaunch \/ Again,
         UNCHANGED portVars
  PROVE  PortControl'
  <1>1. pc # "running" \/ wrapper \notin {"starting", "failed", "agent"}
    BY DEF Proceed, Decided, EndLaunch, Again, CheckFlags, Migrate, LoadPolicy, SkipReview,
       UseProfile, UseLayers, SaveProfile, LaunchReviewed, SettleCommand, ShowStatus,
       SavePreferences, InitSaves, Bootstrap, Finalize, AutoSave, AttachForge,
       PassthroughMissing, PlanRefused, Confirm, CancelReview, PortTaken, ForgeChanges, Relaunch
  <1>2. PortTypes' /\ StreamsOK'
    BY DEF PortControl, PortTypes, StreamsOK, portVars
  <1>3. WrapperOK'
    BY <1>1 DEF PortControl, WrapperOK, Asked, portVars
  <1> QED BY <1>2, <1>3 DEF PortControl

LEMMA OpenControl ==
  ASSUME PortControl, OpenPorts, Listening'
  PROVE  PortControl'
  <1>1. PICK early \in SUBSET final.config.publish :
            callers' = [q \in Ports |-> IF q \in early THEN <<"stranger">> ELSE <<>>]
    BY DEF OpenPorts, BindPorts
  <1>2. \A q \in Ports : callers'[q] \in {<<"stranger">>, <<>>}
    BY <1>1
  <1>3. \A s \in {<<"stranger">>, <<>>} :
            s \in Seq({"stranger", "bridge", "agent"}) /\ BridgeFirst(s)
    <2>1. <<"stranger">> \in Seq({"stranger", "bridge", "agent"})
      OBVIOUS
    <2>2. \A i \in DOMAIN <<"stranger">> : <<"stranger">>[i] # "agent"
      OBVIOUS
    <2>3. BridgeFirst(<<"stranger">>)
      BY <2>2 DEF BridgeFirst
    <2>4. <<>> \in Seq({"stranger", "bridge", "agent"}) /\ BridgeFirst(<<>>)
      BY DEF BridgeFirst
    <2> QED BY <2>1, <2>3, <2>4
  <1>4. callers' \in [Ports -> Seq({"stranger", "bridge", "agent"})]
    BY <1>1, <1>3
  <1>5. /\ wrapper = "none" /\ publishes' = final.config.publish
        /\ peer' = [q \in Ports |-> IF q \in final.config.publish THEN "awaited" ELSE "none"]
        /\ UNCHANGED <<wrapper, bridge, conn>>
    BY DEF OpenPorts, BindPorts
  <1>6. PortTypes'
    BY <1>4, <1>5 DEF PortControl, PortTypes
  <1>7. WrapperOK'
    BY <1>5 DEF PortControl, WrapperOK
  <1>8. StreamsOK'
    BY <1>2, <1>3, <1>5 DEF StreamsOK
  <1> QED BY <1>6, <1>7, <1>8 DEF PortControl

LEMMA StartControl ==
  ASSUME PortControl, StartSandbox
  PROVE  PortControl'
  <1>1. PortTypes'
    BY DEF PortControl, PortTypes, StartSandbox, SandboxStarts
  <1>2. WrapperOK'
    BY DEF PortControl, WrapperOK, StartSandbox, SandboxStarts, Spawn, Asked
  <1>3. StreamsOK'
    BY DEF PortControl, StreamsOK, WrapperOK, StartSandbox, SandboxStarts
  <1> QED BY <1>1, <1>2, <1>3 DEF PortControl

LEMMA CutPlaces ==
  ASSUME PortTypes, NEW c \in Clients, NEW p
  PROVE  /\ Cut(c, p) \in [at : Places, port : Ports \cup {NoPort}]
         /\ Cut(c, p).port = conn[c].port
  <1> DEFINE r == conn[c]
  <1>1. r \in [at : Places, port : Ports \cup {NoPort}]
    BY DEF PortTypes
  <1>2. \A place \in Places :
            /\ [r EXCEPT !.at = place] \in [at : Places, port : Ports \cup {NoPort}]
            /\ [r EXCEPT !.at = place].port = r.port
    BY <1>1
  <1>3. "ending" \in Places /\ "closed" \in Places
    BY DEF Places
  <1>4. Cut(c, p) \in {r, [r EXCEPT !.at = "ending"], [r EXCEPT !.at = "closed"]}
    BY DEF Cut
  <1> QED BY <1>1, <1>2, <1>3, <1>4

LEMMA EndControl ==
  ASSUME PortControl, Return \/ (SandboxEnds /\ UNCHANGED launchVars)
  PROVE  PortControl'
  <1>1. CASE Return
    <2>1. \A c \in Clients :
            [conn[c] EXCEPT !.at = "closed"] \in [at : Places, port : Ports \cup {NoPort}]
      BY DEF PortControl, PortTypes, Places
    <2>2. <<>> \in Seq({"stranger", "bridge", "agent"}) /\ BridgeFirst(<<>>)
      BY DEF BridgeFirst
    <2>3. PortTypes'
      BY <1>1, <2>1, <2>2 DEF PortControl, PortTypes, Return, SupervisorExits
    <2>4. WrapperOK' /\ StreamsOK'
      BY <1>1, <2>2 DEF WrapperOK, StreamsOK, Return, SupervisorExits
    <2> QED BY <2>3, <2>4 DEF PortControl
  <1>2. CASE SandboxEnds /\ UNCHANGED launchVars
    <2>1. \A c \in Clients : Cut(c, conn[c].port) \in [at : Places, port : Ports \cup {NoPort}]
      BY CutPlaces DEF PortControl
    <2>2. PortTypes'
      BY <1>2, <2>1 DEF PortControl, PortTypes, SandboxEnds
    <2>3. WrapperOK' /\ StreamsOK'
      BY <1>2 DEF PortControl, WrapperOK, StreamsOK, SandboxEnds, Asked
    <2> QED BY <2>2, <2>3 DEF PortControl
  <1> QED BY <1>1, <1>2

LEMMA BridgeControl ==
  ASSUME PortControl, Listening, UNCHANGED launchVars,
         BridgeStep \/ (\E p \in Ports : BridgeDies(p))
  PROVE  PortControl'
  <1>1. CASE \E p \in Ports : StartBridge(p)
    <2>1. PICK p \in Ports : StartBridge(p)
      BY <1>1
    <2>2. PortTypes'
      BY <2>1 DEF PortControl, PortTypes, StartBridge
    <2>3. WrapperOK'
      BY <2>1 DEF PortControl, PortTypes, WrapperOK, StartBridge, Asked, launchVars
    <2>4. StreamsOK'
      BY <2>1 DEF PortControl, PortTypes, StreamsOK, StartBridge
    <2> QED BY <2>2, <2>3, <2>4 DEF PortControl
  <1>2. CASE \E p \in Ports : BridgeReady(p)
    <2>1. PICK p \in Ports : BridgeReady(p)
      BY <1>2
    <2>2. /\ BridgeFirst(Append(callers[p], "bridge")) /\ Called(Append(callers[p], "bridge"))
          /\ Append(callers[p], "bridge") \in Seq({"stranger", "bridge", "agent"})
      BY CallersAppended DEF PortControl, PortTypes, StreamsOK
    <2>3. PortTypes'
      BY <2>1, <2>2 DEF PortControl, PortTypes, BridgeReady
    <2>4. WrapperOK'
      BY <2>1 DEF PortControl, PortTypes, WrapperOK, BridgeReady, Asked, launchVars
    <2>5. StreamsOK'
      BY <2>1, <2>2 DEF PortControl, PortTypes, StreamsOK, BridgeReady
    <2> QED BY <2>3, <2>4, <2>5 DEF PortControl
  <1>3. CASE \E p \in Ports : BridgeFails(p)
    <2>1. PICK p \in Ports : BridgeFails(p)
      BY <1>3
    <2>2. PortTypes'
      BY <2>1 DEF PortControl, PortTypes, BridgeFails
    <2>3. WrapperOK'
      BY <2>1 DEF PortControl, PortTypes, WrapperOK, BridgeFails, Asked, launchVars
    <2>4. StreamsOK'
      BY <2>1 DEF PortControl, StreamsOK, BridgeFails
    <2> QED BY <2>2, <2>3, <2>4 DEF PortControl
  <1>4. CASE AgentStarts
    <2>1. PortTypes'
      BY <1>4 DEF PortControl, PortTypes, AgentStarts
    <2>2. \A p \in Asked : p \in Ports /\ bridge[p] \in {"ready", "dead"}
      BY <1>4 DEF PortControl, PortTypes, AgentStarts, Listening, Asked
    <2>3. WrapperOK'
      BY <1>4, <2>2 DEF PortControl, PortTypes, WrapperOK, AgentStarts, Asked, launchVars
    <2>4. StreamsOK'
      BY <1>4 DEF PortControl, StreamsOK, AgentStarts
    <2> QED BY <2>1, <2>3, <2>4 DEF PortControl
  <1>5. CASE \E c \in Clients : BridgeConnects(c)
    <2>1. PICK c \in Clients : BridgeConnects(c)
      BY <1>5
    <2>2. PortTypes'
      BY <2>1 DEF PortControl, PortTypes, BridgeConnects, Move, Places
    <2>3. WrapperOK' /\ StreamsOK'
      BY <2>1 DEF PortControl, WrapperOK, StreamsOK, BridgeConnects, Asked, launchVars
    <2> QED BY <2>2, <2>3 DEF PortControl
  <1>6. CASE \E p \in Ports : BridgeDies(p)
    <2>1. PICK p \in Ports : BridgeDies(p)
      BY <1>6
    <2>2. PortTypes'
      BY <2>1, CutPlaces DEF PortControl, PortTypes, BridgeDies
    <2>3. WrapperOK'
      BY <2>1 DEF PortControl, PortTypes, WrapperOK, BridgeDies, Asked, launchVars
    <2>4. StreamsOK'
      BY <2>1 DEF PortControl, PortTypes, StreamsOK, BridgeDies
    <2> QED BY <2>2, <2>3, <2>4 DEF PortControl
  <1> QED BY <1>1, <1>2, <1>3, <1>4, <1>5, <1>6 DEF BridgeStep

LEMMA SupervisorControl ==
  ASSUME PortControl, UNCHANGED launchVars,
         SupervisorStep \/ (\E c \in Clients : RelayEnds(c))
  PROVE  PortControl'
  <1>1. CASE \E p \in Ports : TakePeer(p)
    <2>1. PICK p \in Ports : TakePeer(p)
      BY <1>1
    <2>2. /\ callers[p] \in Seq({"stranger", "bridge", "agent"}) /\ callers[p] # <<>>
          /\ BridgeFirst(callers[p])
      BY <2>1 DEF PortControl, PortTypes, StreamsOK, TakePeer
    <2>3. /\ Head(callers[p]) # "agent"
          /\ Head(callers[p]) \in {"stranger", "bridge"}
          /\ Tail(callers[p]) \in Seq({"stranger", "bridge", "agent"})
          /\ Head(callers[p]) = "stranger"
                => BridgeFirst(Tail(callers[p]))
                   /\ (Called(callers[p]) => Called(Tail(callers[p])))
      <3>1. Head(callers[p]) \in {"stranger", "bridge", "agent"}
        BY <2>2
      <3> QED BY <2>2, <3>1, CallersTaken
    <2>4. <<>> \in Seq({"stranger", "bridge", "agent"}) /\ BridgeFirst(<<>>)
      BY DEF BridgeFirst
    <2>5. PortTypes'
      BY <2>1, <2>3, <2>4 DEF PortControl, PortTypes, TakePeer
    <2>6. WrapperOK'
      BY <2>1 DEF PortControl, WrapperOK, TakePeer, Asked, launchVars
    <2>7. StreamsOK'
      BY <2>1, <2>3, <2>4 DEF PortControl, PortTypes, StreamsOK, TakePeer
    <2> QED BY <2>5, <2>6, <2>7 DEF PortControl
  <1>2. CASE \E c \in Clients : HandOver(c)
    <2>1. PICK c \in Clients : HandOver(c)
      BY <1>2
    <2>2. \A d \in Clients :
            [conn[d] EXCEPT !.at = "closed"] \in [at : Places, port : Ports \cup {NoPort}]
      BY DEF PortControl, PortTypes, Places
    <2>3. \/ UNCHANGED peer /\ conn' = [conn EXCEPT ![c].at = "handed"]
          \/ UNCHANGED peer /\ conn' = [conn EXCEPT ![c].at = "closed"]
          \/ /\ peer' = [peer EXCEPT ![conn[c].port] = "closed"]
             /\ conn' = [d \in Clients |->
                           IF d \in At("queued", conn[c].port)
                           THEN [conn[d] EXCEPT !.at = "closed"] ELSE conn[d]]
      BY <2>1 DEF HandOver, Move
    <2>4. UNCHANGED <<forwards, publishes, wrapper, bridge, callers>>
      BY <2>1 DEF HandOver
    <2>5. conn' \in [Clients -> [at : Places, port : Ports \cup {NoPort}]]
      <3>1. CASE \/ conn' = [conn EXCEPT ![c].at = "handed"]
                 \/ conn' = [conn EXCEPT ![c].at = "closed"]
        <4>1. PICK place \in Places : conn' = [conn EXCEPT ![c].at = place]
          BY <3>1 DEF Places
        <4> QED BY <4>1 DEF PortControl, PortTypes
      <3>2. CASE conn' = [d \in Clients |->
                           IF d \in At("queued", conn[c].port)
                           THEN [conn[d] EXCEPT !.at = "closed"] ELSE conn[d]]
        BY <2>2, <3>2 DEF PortControl, PortTypes
      <3> QED BY <2>3, <3>1, <3>2
    <2>9. peer' \in [Ports -> {"none", "awaited", "bridge", "agent", "closed"}]
      BY <2>3 DEF PortControl, PortTypes
    <2>10. PortTypes'
      BY <2>4, <2>5, <2>9 DEF PortControl, PortTypes
    <2>6. WrapperOK'
      BY <2>4 DEF PortControl, WrapperOK, Asked, launchVars
    <2>7. \A p \in Ports : peer'[p] \in {peer[p], "closed"}
      BY <2>3 DEF PortControl, PortTypes
    <2>8. StreamsOK'
      BY <2>4, <2>7 DEF PortControl, StreamsOK
    <2> QED BY <2>6, <2>8, <2>10 DEF PortControl
  <1>3. CASE \E c \in Clients : Connect(c) \/ Release(c) \/ Admit(c) \/ RelayEnds(c)
    <2>1. PICK c \in Clients, place \in Places : Move(c, place)
      BY <1>3 DEF Connect, Release, Admit, RelayEnds, Places
    <2>2. UNCHANGED <<forwards, publishes, wrapper, bridge, callers, peer>>
      BY <1>3 DEF Connect, Release, Admit, RelayEnds
    <2>3. PortTypes'
      BY <2>1, <2>2 DEF PortControl, PortTypes, Move
    <2>4. WrapperOK' /\ StreamsOK'
      BY <2>2 DEF PortControl, WrapperOK, StreamsOK, Asked, launchVars
    <2> QED BY <2>3, <2>4 DEF PortControl
  <1> QED BY <1>1, <1>2, <1>3 DEF SupervisorStep

LEMMA DialControl ==
  ASSUME PortControl, UNCHANGED launchVars,
         \/ \E p \in Ports : AgentCalls(p)
         \/ \E c \in Clients, p \in Ports : AgentDials(c, p) \/ HostDials(c, p)
  PROVE  PortControl'
  <1>1. CASE \E p \in Ports : AgentCalls(p)
    <2>1. PICK p \in Ports : AgentCalls(p)
      BY <1>1
    <2>2. p \in Asked /\ bridge[p] \in {"ready", "dead"}
      BY <2>1 DEF AgentCalls, PortControl, StreamsOK, WrapperOK, Asked
    <2>3. Called(callers[p])
      BY <2>1, <2>2 DEF AgentCalls, PortControl, StreamsOK
    <2>4. /\ BridgeFirst(Append(callers[p], "agent")) /\ Called(Append(callers[p], "agent"))
          /\ Append(callers[p], "agent") \in Seq({"stranger", "bridge", "agent"})
      BY <2>3, CallersAppended DEF PortControl, PortTypes, StreamsOK
    <2>5. PortTypes'
      BY <2>1, <2>4 DEF PortControl, PortTypes, AgentCalls
    <2>6. WrapperOK'
      BY <2>1 DEF PortControl, WrapperOK, AgentCalls, Asked, launchVars
    <2>7. StreamsOK'
      BY <2>1, <2>4 DEF PortControl, PortTypes, StreamsOK, AgentCalls
    <2> QED BY <2>5, <2>6, <2>7 DEF PortControl
  <1>2. CASE \E c \in Clients, p \in Ports : AgentDials(c, p) \/ HostDials(c, p)
    <2>1. PICK c \in Clients, p \in Ports, place \in Places :
                conn' = [conn EXCEPT ![c] = [at |-> place, port |-> p]]
      BY <1>2 DEF AgentDials, HostDials, Places
    <2>2. UNCHANGED <<forwards, publishes, wrapper, bridge, callers, peer>>
      BY <1>2 DEF AgentDials, HostDials
    <2>3. PortTypes'
      BY <2>1, <2>2 DEF PortControl, PortTypes
    <2>4. WrapperOK' /\ StreamsOK'
      BY <2>2 DEF PortControl, WrapperOK, StreamsOK, Asked, launchVars
    <2> QED BY <2>3, <2>4 DEF PortControl
  <1> QED BY <1>1, <1>2

(***************************************************************************)
(* The connections and their counters.                                     *)
(***************************************************************************)
LEMMA FiniteHolds ==
  ASSUME NEW p
  PROVE  /\ IsFiniteSet(Relaying(p)) /\ Cardinality(Relaying(p)) \in Nat
         /\ IsFiniteSet(At("over", p)) /\ Cardinality(At("over", p)) \in Nat
  <1>1. IsFiniteSet(Clients)
    BY PortsAssumption, FS_Union DEF Clients
  <1>2. Relaying(p) \subseteq Clients /\ At("over", p) \subseteq Clients
    BY DEF Relaying, At
  <1>3. IsFiniteSet(Relaying(p)) /\ IsFiniteSet(At("over", p))
    BY <1>1, <1>2, FS_Subset
  <1> QED BY <1>3, FS_CardinalityType

LEMMA HoldsAre ==
  ASSUME NEW p
  PROVE  Relaying(p) = {c \in Clients : conn[c].at \in Held /\ conn[c].port = p}
  BY DEF Relaying, At, Held

LEMMA SameCounts ==
  ASSUME CountsOK, SameHolds, UNCHANGED active
  PROVE  CountsOK'
  <1>1. \A p \in Ports : Relaying(p)' = Relaying(p) /\ At("over", p)' = At("over", p)
    BY DEF SameHolds, Relaying, At, Held
  <1> QED BY <1>1 DEF CountsOK

LEMMA KeptLinks ==
  ASSUME LinksOK, SameLinks
  PROVE  LinksOK'
  BY DEF LinksOK, SameLinks

LEMMA MovedTo ==
  ASSUME PortTypes, NEW c \in Clients, NEW place, Move(c, place)
  PROVE  /\ conn'[c].at = place /\ conn'[c].port = conn[c].port
         /\ \A d \in Clients \ {c} : conn'[d] = conn[d]
  BY DEF PortTypes, Move

LEMMA AdmitCounts ==
  ASSUME PortTypes, LinksOK, CountsOK, NEW c \in Clients, Admit(c)
  PROVE  LinksOK' /\ CountsOK'
  <1>0. PICK p \in Ports : p = conn[c].port
    BY DEF Admit, LinksOK, Linked
  <1> DEFINE place == IF active[p] >= MaxConnections THEN "over" ELSE "connecting"
  <1>1. /\ conn[c].at \in {"queued", "handed"}
        /\ At("over", p) = {} /\ active' = [active EXCEPT ![p] = @ + 1]
        /\ Move(c, place) /\ UNCHANGED <<forwards, publishes>>
    BY <1>0 DEF Admit
  <1>2. /\ conn'[c].at = place /\ conn'[c].port = p
        /\ \A d \in Clients \ {c} : conn'[d] = conn[d]
    BY <1>0, <1>1, MovedTo
  <1>4. LinksOK'
    BY <1>0, <1>1, <1>2, KeptLinks DEF SameLinks, Linked, Held
  <1>5. active' \in [Ports -> Nat]
    BY <1>1 DEF CountsOK
  <1>6. \A q \in Ports \ {p} : Relaying(q)' = Relaying(q) /\ At("over", q)' = At("over", q)
    BY <1>0, <1>1, <1>2 DEF Relaying, At
  <1>7. c \notin Relaying(p) /\ c \notin At("over", p)
    BY <1>1 DEF Relaying, At
  <1>8. /\ active'[p] = active[p] + 1 /\ active[p] \in Nat /\ MaxConnections \in Nat
        /\ active[p] = Cardinality(Relaying(p)) + Cardinality(At("over", p))
        /\ Cardinality(Relaying(p)) <= MaxConnections
        /\ Cardinality(At("over", p)) = 0 /\ Cardinality(Relaying(p)) \in Nat
    BY <1>1, PortsAssumption, FS_EmptySet, FiniteHolds DEF CountsOK
  <1>9. /\ Cardinality(Relaying(p)') <= MaxConnections
        /\ active'[p] = Cardinality(Relaying(p)') + Cardinality(At("over", p)')
    <2>1. CASE active[p] >= MaxConnections
      <3>1. Relaying(p)' = Relaying(p) /\ At("over", p)' = At("over", p) \cup {c}
        BY <1>0, <1>1, <1>2, <2>1 DEF Relaying, At
      <3>2. Cardinality(At("over", p) \cup {c}) = Cardinality(At("over", p)) + 1
        BY <1>7, FiniteHolds, FS_AddElement
      <3> QED BY <1>8, <3>1, <3>2
    <2>2. CASE ~(active[p] >= MaxConnections)
      <3>1. Relaying(p)' = Relaying(p) \cup {c} /\ At("over", p)' = At("over", p)
        BY <1>0, <1>1, <1>2, <2>2 DEF Relaying, At
      <3>2. Cardinality(Relaying(p) \cup {c}) = Cardinality(Relaying(p)) + 1
        BY <1>7, FiniteHolds, FS_AddElement
      <3> QED BY <1>8, <2>2, <3>1, <3>2
    <2> QED BY <2>1, <2>2
  <1>10. CountsOK'
    <2> SUFFICES ASSUME NEW q \in Ports
                 PROVE  /\ Cardinality(Relaying(q)') <= MaxConnections
                        /\ active'[q] = Cardinality(Relaying(q)') + Cardinality(At("over", q)')
      BY <1>5 DEF CountsOK
    <2>1. CASE q = p
      BY <1>9, <2>1
    <2>2. CASE q # p
      BY <1>1, <1>6, <2>2 DEF CountsOK
    <2> QED BY <2>1, <2>2
  <1> QED BY <1>4, <1>10

LEMMA ReleaseCounts ==
  ASSUME PortTypes, LinksOK, CountsOK, NEW c \in Clients, Release(c)
  PROVE  LinksOK' /\ CountsOK'
  <1>1. PICK p \in Ports : p = conn[c].port
    BY DEF Release, LinksOK, Linked, Held
  <1>2. /\ conn[c].at \in {"over", "ending"}
        /\ active' = [active EXCEPT ![p] = @ - 1]
        /\ Move(c, "closed") /\ UNCHANGED <<forwards, publishes>>
    BY <1>1 DEF Release
  <1>3. /\ conn'[c].at = "closed" /\ conn'[c].port = p
        /\ \A d \in Clients \ {c} : conn'[d] = conn[d]
    BY <1>1, <1>2, MovedTo
  <1>4. LinksOK'
    BY <1>1, <1>2, <1>3, KeptLinks DEF SameLinks, Linked, Held
  <1>5. \A q \in Ports \ {p} : Relaying(q)' = Relaying(q) /\ At("over", q)' = At("over", q)
    BY <1>1, <1>2, <1>3 DEF Relaying, At
  <1>6. /\ active'[p] = active[p] - 1 /\ active[p] \in Nat /\ MaxConnections \in Nat
        /\ active[p] = Cardinality(Relaying(p)) + Cardinality(At("over", p))
        /\ Cardinality(Relaying(p)) <= MaxConnections
        /\ Cardinality(At("over", p)) \in Nat /\ Cardinality(Relaying(p)) \in Nat
        /\ IsFiniteSet(At("over", p)) /\ IsFiniteSet(Relaying(p))
    BY <1>2, PortsAssumption, FiniteHolds DEF CountsOK
  <1>7. /\ IsFiniteSet(Relaying(p)') /\ Cardinality(Relaying(p)') \in Nat
        /\ IsFiniteSet(At("over", p)') /\ Cardinality(At("over", p)') \in Nat
        /\ Cardinality(Relaying(p)') <= MaxConnections
        /\ active'[p] = Cardinality(Relaying(p)') + Cardinality(At("over", p)')
    <2>1. CASE conn[c].at = "over"
      <3>1. /\ Relaying(p)' = Relaying(p) /\ At("over", p)' = At("over", p) \ {c}
            /\ c \in At("over", p)
        BY <1>1, <1>3, <2>1 DEF Relaying, At
      <3>2. /\ Cardinality(At("over", p) \ {c}) = Cardinality(At("over", p)) - 1
            /\ IsFiniteSet(At("over", p) \ {c}) /\ Cardinality(At("over", p) \ {c}) \in Nat
        BY <3>1, FiniteHolds, FS_RemoveElement, FS_CardinalityType
      <3>3. /\ IsFiniteSet(Relaying(p)') /\ IsFiniteSet(At("over", p)')
            /\ Cardinality(Relaying(p)') = Cardinality(Relaying(p))
            /\ Cardinality(At("over", p)') = Cardinality(At("over", p)) - 1
            /\ Cardinality(At("over", p)') \in Nat
        BY <1>6, <3>1, <3>2
      <3> QED BY <1>6, <3>3
    <2>2. CASE conn[c].at = "ending"
      <3>1. /\ Relaying(p)' = Relaying(p) \ {c} /\ At("over", p)' = At("over", p)
            /\ c \in Relaying(p)
        BY <1>1, <1>3, <2>2 DEF Relaying, At
      <3>2. /\ Cardinality(Relaying(p) \ {c}) = Cardinality(Relaying(p)) - 1
            /\ IsFiniteSet(Relaying(p) \ {c}) /\ Cardinality(Relaying(p) \ {c}) \in Nat
        BY <3>1, FiniteHolds, FS_RemoveElement, FS_CardinalityType
      <3> QED BY <1>6, <3>1, <3>2
    <2> QED BY <1>2, <2>1, <2>2
  <1>8. active' \in [Ports -> Nat]
    <2>1. active'[p] \in Nat
      BY <1>7
    <2> QED BY <1>2, <2>1 DEF CountsOK
  <1>9. CountsOK'
    <2> SUFFICES ASSUME NEW q \in Ports
                 PROVE  /\ Cardinality(Relaying(q)') <= MaxConnections
                        /\ active'[q] = Cardinality(Relaying(q)') + Cardinality(At("over", q)')
      BY <1>8 DEF CountsOK
    <2>1. CASE q = p
      BY <1>7, <2>1
    <2>2. CASE q # p
      BY <1>2, <1>5, <2>2 DEF CountsOK
    <2> QED BY <2>1, <2>2
  <1> QED BY <1>4, <1>9

\* A step that moves one connection to a place that is counted as the old one.
LEMMA QuietMove ==
  ASSUME PortTypes, LinksOK, CountsOK, NEW c \in Clients,
         NEW place \in Places \ {"over"}, Move(c, place),
         conn[c].at \in Linked \ {"over"}, place \in Held <=> conn[c].at \in Held,
         UNCHANGED <<forwards, publishes, active>>
  PROVE  LinksOK' /\ CountsOK'
  <1>1. /\ conn'[c].at = place /\ conn'[c].port = conn[c].port
        /\ \A d \in Clients \ {c} : conn'[d] = conn[d]
    BY MovedTo
  <1>2. SameLinks
    BY <1>1 DEF SameLinks
  <1>3. SameHolds
    BY <1>1 DEF SameHolds
  <1> QED BY <1>2, <1>3, KeptLinks, SameCounts

LEMMA MovesCounted ==
  ASSUME PortTypes, LinksOK, CountsOK, NEW c \in Clients,
         HandOver(c) \/ BridgeConnects(c) \/ Connect(c) \/ RelayEnds(c)
  PROVE  LinksOK' /\ CountsOK'
  <1>1. UNCHANGED <<forwards, publishes, active>>
    BY DEF HandOver, BridgeConnects, Connect, RelayEnds
  <1>2. CASE BridgeConnects(c)
    BY <1>1, <1>2, QuietMove DEF BridgeConnects, Places, Linked, Held
  <1>3. CASE Connect(c)
    BY <1>1, <1>3, QuietMove DEF Connect, Places, Linked, Held
  <1>4. CASE RelayEnds(c)
    BY <1>1, <1>4, QuietMove DEF RelayEnds, Places, Linked, Held
  <1>5. CASE HandOver(c)
    <2>1. conn[c].at = "queued"
      BY <1>5 DEF HandOver
    <2>2. CASE Move(c, "handed")
      BY <1>1, <2>1, <2>2, QuietMove DEF Places, Linked, Held
    <2>3. CASE Move(c, "closed")
      BY <1>1, <2>1, <2>3, QuietMove DEF Places, Linked, Held
    <2>4. CASE conn' = [d \in Clients |->
                          IF d \in At("queued", conn[c].port)
                          THEN [conn[d] EXCEPT !.at = "closed"] ELSE conn[d]]
      <3>1. \A d \in Clients :
                \/ conn'[d] = conn[d]
                \/ conn[d].at = "queued" /\ conn'[d].at = "closed"
        BY <2>4 DEF At, PortTypes
      <3>2. SameHolds /\ SameLinks
        BY <1>1, <3>1 DEF SameHolds, SameLinks, Linked, Held
      <3> QED BY <1>1, <3>2, KeptLinks, SameCounts
    <2> QED BY <1>5, <2>2, <2>3, <2>4 DEF HandOver
  <1> QED BY <1>2, <1>3, <1>4, <1>5

LEMMA DialsCounted ==
  ASSUME PortTypes, LinksOK, CountsOK, NEW c \in Clients, NEW p \in Ports,
         AgentDials(c, p) \/ HostDials(c, p)
  PROVE  LinksOK' /\ CountsOK'
  <1>1. PICK place \in {"dialed", "queued", "closed"} :
            conn' = [conn EXCEPT ![c] = [at |-> place, port |-> p]]
    BY DEF AgentDials, HostDials
  <1>2. /\ conn'[c].at = place /\ conn'[c].port = p
        /\ \A d \in Clients \ {c} : conn'[d] = conn[d]
    BY <1>1 DEF PortTypes
  <1>3. conn[c].at = "idle" /\ UNCHANGED <<forwards, publishes, active>>
    BY DEF AgentDials, HostDials
  <1>4. /\ c \in JailClients => p \in forwards
        /\ c \in HostClients => p \in publishes
    BY PortsAssumption DEF AgentDials, HostDials
  <1>5. LinksOK'
    BY <1>2, <1>3, <1>4 DEF LinksOK
  <1>6. SameHolds
    BY <1>2, <1>3 DEF SameHolds, Held
  <1> QED BY <1>3, <1>5, <1>6, SameCounts

\* Nothing is counted any more for the ports whose counter starts again.
LEMMA CutsCounted ==
  ASSUME PortTypes, LinksOK, CountsOK, Listening, NEW D \in SUBSET Ports,
         \A c \in Clients :
            conn'[c] = IF conn[c].port \in D THEN Cut(c, conn[c].port) ELSE conn[c],
         active' = [q \in Ports |-> IF q \in D \cap publishes THEN 0 ELSE active[q]],
         UNCHANGED <<forwards, publishes>>
  PROVE  LinksOK' /\ CountsOK'
  <1>1. \A c \in Clients : conn'[c].port = conn[c].port
    BY CutPlaces
  <1>2. \A c \in Clients : conn'[c].at \in {conn[c].at, "ending", "closed"}
    BY DEF Cut, PortTypes
  <1>3. \A c \in Clients : conn[c].port \notin D => conn'[c].at = conn[c].at
    OBVIOUS
  <1>4. \A c \in JailClients : conn[c].port \in D =>
            /\ conn'[c].at \in Held <=> conn[c].at \in Held
            /\ conn'[c].at = "over" <=> conn[c].at = "over"
            /\ conn'[c].at \in Linked => conn[c].at \in Linked
    <2> SUFFICES ASSUME NEW c \in JailClients, conn[c].port \in D
                 PROVE  /\ conn'[c].at \in Held <=> conn[c].at \in Held
                        /\ conn'[c].at = "over" <=> conn[c].at = "over"
                        /\ conn'[c].at \in Linked => conn[c].at \in Linked
      OBVIOUS
    <2>1. c \in Clients /\ c \notin HostClients
      BY PortsAssumption DEF Clients
    <2>2. conn'[c] = IF conn[c].at \in {"connecting", "relaying"}
                     THEN [conn[c] EXCEPT !.at = "ending"]
                     ELSE IF conn[c].at = "dialed" THEN [conn[c] EXCEPT !.at = "closed"]
                     ELSE conn[c]
      BY <2>1 DEF Cut
    <2>3. \A place : [conn[c] EXCEPT !.at = place].at = place
      BY <2>1 DEF PortTypes
    <2> QED BY <2>2, <2>3 DEF Held, Linked
  <1>5. \A c \in HostClients : conn[c].port \in D =>
            /\ conn'[c].at \notin Held \cup {"over"}
            /\ conn'[c].at \in Linked => conn[c].at \in Linked
    <2> SUFFICES ASSUME NEW c \in HostClients, conn[c].port \in D
                 PROVE  /\ conn'[c].at \notin Held \cup {"over"}
                        /\ conn'[c].at \in Linked => conn[c].at \in Linked
      OBVIOUS
    <2>1. c \in Clients /\ c \notin JailClients
      BY PortsAssumption DEF Clients
    <2>2. conn'[c] = IF conn[c].at \in {"handed", "over", "connecting", "relaying", "ending"}
                     THEN [conn[c] EXCEPT !.at = "closed"] ELSE conn[c]
      BY <2>1 DEF Cut
    <2>3. \A place : [conn[c] EXCEPT !.at = place].at = place
      BY <2>1 DEF PortTypes
    <2> QED BY <2>2, <2>3 DEF Held, Linked
  <1>6. LinksOK'
    <2>1. \A c \in Clients : conn'[c].at \in Linked => conn[c].at \in Linked
      BY <1>3, <1>4, <1>5 DEF Clients
    <2> QED BY <1>1, <2>1, KeptLinks DEF SameLinks
  <1>7. \A q \in D \cap publishes : Relaying(q)' = {} /\ At("over", q)' = {}
    <2> SUFFICES ASSUME NEW q \in D \cap publishes, NEW c \in Clients, conn'[c].port = q,
                        conn'[c].at \in Held \cup {"over"}
                 PROVE  FALSE
      BY DEF Relaying, At, Held
    <2>1. conn[c].port = q
      BY <1>1
    <2>2. c \in JailClients
      BY <1>5, <2>1 DEF Clients
    <2>3. conn[c].at \in Linked
      BY <1>4, <2>1, <2>2 DEF Linked
    <2> QED BY <2>1, <2>2, <2>3 DEF LinksOK, Listening
  <1>8. \A q \in Ports \ (D \cap publishes) :
            Relaying(q)' = Relaying(q) /\ At("over", q)' = At("over", q)
    <2> SUFFICES ASSUME NEW q \in Ports \ (D \cap publishes), NEW c \in Clients, conn[c].port = q
                 PROVE  /\ conn'[c].at \in Held <=> conn[c].at \in Held
                        /\ conn'[c].at = "over" <=> conn[c].at = "over"
      BY <1>1 DEF Relaying, At, Held
    <2>1. CASE q \notin D
      BY <1>3, <2>1
    <2>2. CASE q \in D /\ c \in JailClients
      BY <1>4, <2>2
    <2>3. CASE q \in D /\ c \in HostClients
      BY <1>5, <2>3 DEF LinksOK, Linked
    <2> QED BY <2>1, <2>2, <2>3 DEF Clients
  <1>9. CountsOK'
    <2>1. Cardinality({}) = 0
      BY FS_EmptySet
    <2>2. active' \in [Ports -> Nat]
      BY DEF CountsOK
    <2> SUFFICES ASSUME NEW q \in Ports
                 PROVE  /\ Cardinality(Relaying(q)') <= MaxConnections
                        /\ active'[q] = Cardinality(Relaying(q)') + Cardinality(At("over", q)')
      BY <2>2 DEF CountsOK
    <2>3. CASE q \in D \cap publishes
      BY <1>7, <2>1, <2>3, PortsAssumption
    <2>4. CASE q \notin D \cap publishes
      BY <1>8, <2>4 DEF CountsOK
    <2> QED BY <2>3, <2>4
  <1> QED BY <1>6, <1>9

LEMMA EndsCounted ==
  ASSUME PortTypes, LinksOK, CountsOK, Listening,
         SandboxEnds \/ (\E p \in Ports : BridgeDies(p))
  PROVE  LinksOK' /\ CountsOK'
  <1>1. CASE SandboxEnds
    <2>1. \A c \in Clients : conn[c].port \in Ports \cup {NoPort}
      BY DEF PortTypes
    <2>2. \A c \in Clients :
            conn'[c] = IF conn[c].port \in Ports THEN Cut(c, conn[c].port) ELSE conn[c]
      BY <1>1, <2>1, PortsAssumption DEF SandboxEnds
    <2>3. /\ active' = [q \in Ports |-> IF q \in Ports \cap publishes THEN 0 ELSE active[q]]
          /\ UNCHANGED <<forwards, publishes>>
      BY <1>1 DEF SandboxEnds
    <2> QED BY <2>2, <2>3, CutsCounted
  <1>2. CASE \E p \in Ports : BridgeDies(p)
    <2>1. PICK p \in Ports : BridgeDies(p)
      BY <1>2
    <2>2. \A c \in Clients :
            conn'[c] = IF conn[c].port \in {p} THEN Cut(c, conn[c].port) ELSE conn[c]
      BY <2>1 DEF BridgeDies, Cut
    <2>3. /\ active' = [q \in Ports |-> IF q \in {p} \cap publishes THEN 0 ELSE active[q]]
          /\ UNCHANGED <<forwards, publishes>>
      BY <2>1 DEF BridgeDies, CountsOK
    <2> QED BY <2>2, <2>3, CutsCounted
  <1> QED BY <1>1, <1>2

LEMMA ReturnCounted ==
  ASSUME PortTypes, SupervisorExits
  PROVE  LinksOK' /\ CountsOK'
  <1>1. \A c \in Clients : conn'[c].at \in {"idle", "closed"}
    BY DEF SupervisorExits, PortTypes
  <1>2. \A p : Relaying(p)' = {} /\ At("over", p)' = {}
    BY <1>1 DEF Relaying, At
  <1>3. Cardinality({}) = 0
    BY FS_EmptySet
  <1>4. active' = [p \in Ports |-> 0]
    BY DEF SupervisorExits
  <1> QED BY <1>1, <1>2, <1>3, <1>4, PortsAssumption DEF LinksOK, CountsOK, Linked, Held

LEMMA OpenCounted ==
  ASSUME PortTypes, LinksOK, CountsOK, OpenPorts
  PROVE  LinksOK' /\ CountsOK'
  <1>1. Asked = {} /\ UNCHANGED <<conn, active>>
    BY DEF OpenPorts, BindPorts
  <1>2. \A c \in Clients : conn[c].at \notin Linked
    BY <1>1 DEF LinksOK, Asked, Clients
  <1>3. LinksOK'
    BY <1>1, <1>2 DEF LinksOK
  <1>4. SameHolds
    BY <1>1 DEF SameHolds
  <1> QED BY <1>1, <1>3, <1>4, SameCounts

LEMMA PortsClosedCounted ==
  ASSUME PortsClosed
  PROVE  LinksOK /\ CountsOK
  <1>1. \A c \in Clients : conn[c].at = "idle"
    BY DEF PortsClosed
  <1>2. \A p : Relaying(p) = {} /\ At("over", p) = {}
    BY <1>1 DEF Relaying, At
  <1>3. Cardinality({}) = 0
    BY FS_EmptySet
  <1>4. active = [p \in Ports |-> 0]
    BY DEF PortsClosed
  <1> QED BY <1>1, <1>2, <1>3, <1>4, PortsAssumption DEF LinksOK, CountsOK, Linked, Held

(***************************************************************************)
(* The inductive invariant of a session.                                   *)
(***************************************************************************)
LEMMA SessionInitOK == Init => SessionOK
  <1> SUFFICES ASSUME Init PROVE SessionOK
    OBVIOUS
  <1>1. AsConfirmed
    BY DEF Init, LaunchInit, AsConfirmed, Confirmed, NoReview
  <1>2. Listening
    BY DEF Init, LaunchInit, PortsClosed, Listening, Confirmed, NoReview
  <1> QED BY <1>1, <1>2, LaunchInitOK, PortsClosedControl, PortsClosedCounted
         DEF Init, SessionOK

\* The launch's part.
LEMMA LaunchPartOK ==
  ASSUME SessionOK, [Next]_vars
  PROVE  LaunchOK' /\ AsConfirmed' /\ Listening'
  <1> USE DEF SessionOK
  <1>1. LaunchStep \/ UNCHANGED launchVars
    BY Stepping
  <1>2. LaunchOK'
    BY <1>1, LaunchStepOK, LaunchUnchangedOK
  <1>3. AsConfirmed'
    <2>1. CASE UNCHANGED launchVars
      BY <2>1 DEF AsConfirmed, Confirmed, Mode, launchVars
    <2> QED BY <1>1, <2>1, StepAsConfirmed
  <1>4. Listening'
    <2>1. CASE OpenPorts
      BY <2>1, OpenListening
    <2>2. CASE Return
      BY <2>2, ReturnListening
    <2>3. CASE UNCHANGED launchVars /\ UNCHANGED <<forwards, publishes>>
      BY <2>3 DEF Listening, Confirmed, SameListeners, Apart, launchVars
    <2>4. CASE LaunchStep /\ ~PortsBound /\ UNCHANGED <<forwards, publishes>>
      BY <2>4, StepListening
    <2>5. CASE (PortStep \/ SandboxEnds) /\ UNCHANGED launchVars
      <3>1. UNCHANGED <<forwards, publishes>>
        BY <2>5 DEF PortStep, SupervisorStep, BridgeStep, WorldStep, SandboxEnds, TakePeer,
           HandOver, Connect, Release, Admit, StartBridge, BridgeReady, BridgeFails, AgentStarts,
           BridgeConnects, BridgeDies, AgentCalls, AgentDials, HostDials, RelayEnds
      <3> QED BY <2>3, <2>5, <3>1
    <2>6. CASE StartSandbox \/ EndLaunch \/ Again
      <3>1. LaunchStep /\ UNCHANGED <<forwards, publishes>>
        BY <2>6 DEF StartSandbox, EndLaunch, Again, LaunchStep, SandboxStarts, portVars
      <3>2. ~PortsBound
        BY <2>6 DEF StartSandbox, EndLaunch, Again, PortsBound, Spawn, ChildExits, Relaunch
      <3> QED BY <2>4, <3>1, <3>2
    <2>7. CASE (Proceed \/ Decided) /\ UNCHANGED portVars
      <3>1. LaunchStep /\ UNCHANGED <<forwards, publishes>>
        BY <2>7 DEF LaunchStep, portVars
      <3>2. CASE PortsBound
        <4>1. UNCHANGED <<in, disk, loaded, cfg, review, final>> /\ pc = "ports" /\ pc' = "autosave"
          BY <3>2 DEF PortsBound
        <4>2. FALSE
          BY <2>7, <4>1 DEF Proceed, Decided, CheckFlags, Migrate, LoadPolicy, SkipReview,
             UseProfile, UseLayers, SaveProfile, LaunchReviewed, SettleCommand, ShowStatus,
             SavePreferences, InitSaves, Bootstrap, Finalize, AutoSave, AttachForge,
             PassthroughMissing, PlanRefused, Confirm, CancelReview, PortTaken, ForgeChanges, End
        <4> QED BY <4>2
      <3> QED BY <2>4, <3>1, <3>2
    <2> QED BY <2>1, <2>2, <2>3, <2>5, <2>6, <2>7 DEF Next, vars, launchVars, portVars
  <1> QED BY <1>2, <1>3, <1>4

\* The ports' part.
LEMMA PortPartOK ==
  ASSUME SessionOK, [Next]_vars
  PROVE  PortControl' /\ LinksOK' /\ CountsOK'
  <1>1. PortTypes /\ Listening' /\ SessionOK
    BY LaunchPartOK DEF SessionOK, PortControl
  <1>2. ASSUME UNCHANGED portVars PROVE LinksOK' /\ CountsOK'
    <2>1. SameHolds /\ SameLinks /\ UNCHANGED active
      BY <1>2 DEF SameHolds, SameLinks, portVars
    <2> QED BY <2>1, KeptLinks, SameCounts DEF SessionOK
  <1>3. CASE \/ (Proceed \/ Decided) /\ UNCHANGED portVars
             \/ EndLaunch \/ Again
    <2>1. UNCHANGED portVars
      BY <1>3 DEF EndLaunch, Again
    <2> QED BY <1>2, <1>3, <2>1, LaunchControl DEF SessionOK
  <1>4. CASE OpenPorts
    BY <1>1, <1>4, OpenControl, OpenCounted DEF SessionOK
  <1>5. CASE StartSandbox
    <2>1. SameHolds /\ SameLinks /\ UNCHANGED active
      BY <1>5 DEF StartSandbox, SandboxStarts, SameHolds, SameLinks
    <2> QED BY <1>5, <2>1, StartControl, KeptLinks, SameCounts DEF SessionOK
  <1>6. CASE Return
    BY <1>1, <1>6, EndControl, ReturnCounted DEF SessionOK, Return
  <1>7. CASE SandboxEnds /\ UNCHANGED launchVars
    BY <1>1, <1>7, EndControl, EndsCounted DEF SessionOK
  <1>8. CASE PortStep /\ UNCHANGED launchVars
    <2>1. PortControl'
      BY <1>8, BridgeControl, SupervisorControl, DialControl DEF SessionOK, PortStep, WorldStep
    <2>2. LinksOK' /\ CountsOK'
      <3>1. CASE \E p \in Ports : TakePeer(p) \/ StartBridge(p) \/ BridgeReady(p)
                                  \/ BridgeFails(p) \/ AgentCalls(p)
        <4>1. SameHolds /\ SameLinks /\ UNCHANGED active
          BY <3>1 DEF TakePeer, StartBridge, BridgeReady, BridgeFails, AgentCalls,
             SameHolds, SameLinks
        <4> QED BY <4>1, KeptLinks, SameCounts DEF SessionOK
      <3>2. CASE AgentStarts
        <4>1. SameHolds /\ SameLinks /\ UNCHANGED active
          BY <3>2 DEF AgentStarts, SameHolds, SameLinks
        <4> QED BY <4>1, KeptLinks, SameCounts DEF SessionOK
      <3>3. CASE \E c \in Clients : \/ HandOver(c) \/ Connect(c) \/ Release(c) \/ Admit(c)
                                    \/ BridgeConnects(c) \/ RelayEnds(c)
        BY <1>1, <3>3, MovesCounted, AdmitCounts, ReleaseCounts DEF SessionOK
      <3>4. CASE \E c \in Clients, p \in Ports : AgentDials(c, p) \/ HostDials(c, p)
        BY <1>1, <3>4, DialsCounted DEF SessionOK
      <3>5. CASE \E p \in Ports : BridgeDies(p)
        BY <1>1, <3>5, EndsCounted DEF SessionOK
      <3> QED BY <1>8, <3>1, <3>2, <3>3, <3>4, <3>5
             DEF PortStep, SupervisorStep, BridgeStep, WorldStep
    <2> QED BY <2>1, <2>2
  <1>9. CASE UNCHANGED vars
    <2>1. UNCHANGED portVars /\ UNCHANGED launchVars
      BY <1>9 DEF vars
    <2>2. PortControl'
      BY <2>1 DEF SessionOK, PortControl, PortTypes, WrapperOK, StreamsOK, Asked,
         portVars, launchVars
    <2> QED BY <1>2, <2>1, <2>2
  <1> QED BY <1>3, <1>4, <1>5, <1>6, <1>7, <1>8, <1>9 DEF Next

LEMMA SessionInvariant == Spec => []SessionOK
  <1>1. SessionOK /\ [Next]_vars => SessionOK'
    BY LaunchPartOK, PortPartOK DEF SessionOK
  <1> QED BY <1>1, SessionInitOK, PTL DEF Spec

(***************************************************************************)
(* Every variable keeps to the set the code's types and enums give it,     *)
(* through the layers, the review, the saves and the life of the ports.    *)
(***************************************************************************)
THEOREM TypeCorrect == Spec => []TypeOK
  <1>1. SessionOK => TypeOK
    BY DEF SessionOK, LaunchOK, DiskOK, ReviewOK, FinalOK, ControlOK, Sound, Listening,
       PortControl, PortTypes, CountsOK, Places, TypeOK
  <1> QED BY <1>1, SessionInvariant, PTL

(***************************************************************************)
(* run(): the harness that starts after a review has the configuration,    *)
(* the secrets and the key the person confirmed and the forge access they  *)
(* were shown, whichever layers, saves and rotations came in between.      *)
(***************************************************************************)
THEOREM ConfirmedIsWhatRuns == Spec => []LaunchesWhatWasConfirmed
  <1>1. SessionOK => LaunchesWhatWasConfirmed
    BY DEF SessionOK, AsConfirmed, LaunchesWhatWasConfirmed
  <1> QED BY <1>1, SessionInvariant, PTL

(***************************************************************************)
(* spawn_bridge and hand_off_published: the agent begins only when every   *)
(* bridge of its ports reported ready, so the first caller of a publish's  *)
(* socket is never the agent.                                              *)
(***************************************************************************)
THEOREM BridgesComeFirst == Spec => []PortsReachTheAgent
  <1>1. SessionOK => PortsReachTheAgent
    BY DEF SessionOK, Listening, PortControl, WrapperOK, StreamsOK, PortsReachTheAgent
  <1> QED BY <1>1, SessionInvariant, PTL

(***************************************************************************)
(* The counter of a port's relays is exact and its limit holds, for any    *)
(* number of connections, ports and bridges that die.                      *)
(***************************************************************************)
THEOREM RelaysAreBounded == Spec => []ConnectionsBounded
  <1>1. SessionOK => ConnectionsBounded
    BY DEF SessionOK, CountsOK, ConnectionsBounded
  <1> QED BY <1>1, SessionInvariant, PTL

(***************************************************************************)
(* What a project may add: from the layers to the settled command.         *)
(***************************************************************************)
\* Grants name no command, so every choice of them leads to the same one.
LEMMA SameCommand ==
  ASSUME NEW global, WellFormed(global), NEW grants, WellFormed(grants),
         grants.command = NoCommand, NEW cli, WellFormed(cli), NEW project, WellFormed(project)
  PROVE  MergeProject(MergeCli(cli, MergeTrusted(global, grants)), project).command
            = Override(Override(cli.command, global.command, NoCommand), project.command, NoCommand)
  <1> DEFINE low == MergeTrusted(global, grants)
             t == MergeCli(cli, low)
  <1>1. WellFormed(low) /\ low.command = global.command
    BY LayerIsWellFormed, LayerFields DEF MergeTrusted, Override
  <1> HIDE DEF low
  <1>2. WellFormed(t) /\ t.command = Override(cli.command, global.command, NoCommand)
    BY <1>1, MergeCliIsWellFormed, LayerFields
  <1> HIDE DEF t
  <1>3. /\ DOMAIN TightenFlags(t, project) = Fields
        /\ TightenFlags(t, project).command = t.command
    BY <1>2, FlagsTighten DEF Fields
  <1>4. MergeProject(t, project).command = Override(t.command, project.command, NoCommand)
    BY <1>3 DEF MergeProject, Fields
  <1> QED BY <1>2, <1>4 DEF t, low

\* What the review or a stored profile makes of its grants.
LEMMA EffectiveIsHandedOn ==
  ASSUME LaunchOK, ReviewStarts, pc = "review", ~loaded.trusted, loaded.harness # NoCommand,
         NEW grants, Sound(grants), grants.command = NoCommand
  PROVE  LET trusted == MergeCli(in.cli, MergeTrusted(loaded.global, grants))
             e == BuildEffective(loaded.global, grants, in.cli, loaded)
         IN  /\ WellFormed(e) /\ KeepsTrusted(e, trusted) /\ e.hosts = trusted.hosts
             /\ BrowserProfile(e) => BrowserProfile(trusted)
             /\ e.command = loaded.harness /\ e.command \in Harnesses
  <1> DEFINE trusted == MergeCli(in.cli, MergeTrusted(loaded.global, grants))
             project == Project(loaded)
             e == BuildEffective(loaded.global, grants, in.cli, loaded)
             chosen == Override(Override(in.cli.command, loaded.global.command, NoCommand),
                                project.command, NoCommand)
  <1>1. /\ WellFormed(loaded.global) /\ WellFormed(grants) /\ WellFormed(in.cli)
        /\ WellFormed(project) /\ WellFormed(loaded.doc.grants)
        /\ loaded.doc.grants.command = NoCommand
    BY DEF LaunchOK, LoadedOK, DiskOK, Sound
  <1>2. cfg.command = chosen
    BY <1>1, SameCommand DEF ReviewStarts, WithProject, Baseline
  <1>3. loaded.harness = cfg.command /\ cfg.command \in Harnesses
    BY DEF ReviewStarts, Harness
  <1>4. /\ WellFormed(e) /\ KeepsTrusted(e, trusted) /\ e.hosts = trusted.hosts
        /\ e.command = Override(in.cli.command, MergeProject(trusted, project).command, NoCommand)
        /\ BrowserProfile(e) /\ e.command \notin Browsers => BrowserProfile(trusted)
    <2>1. /\ WellFormed(e)
          /\ ~loaded.trusted =>
             /\ KeepsTrusted(e, trusted)
             /\ e.command = Override(in.cli.command, MergeProject(trusted, Project(loaded)).command,
                                    NoCommand)
             /\ e.hosts = trusted.hosts
             /\ BrowserProfile(e) /\ e.command \notin Browsers => BrowserProfile(trusted)
      BY <1>1, EffectiveKeepsTrusted
    <2> HIDE DEF e, trusted
    <2> QED BY <2>1
  <1>5. MergeProject(trusted, project).command = chosen
    BY <1>1, SameCommand
  <1> HIDE DEF trusted, e, project
  <1>6. e.command = chosen
    BY <1>4, <1>5 DEF Override
  <1>7. e.command \notin Browsers
    BY <1>2, <1>3, <1>6, CommandsAssumption
  <1> QED BY <1>2, <1>3, <1>4, <1>6, <1>7 DEF trusted, e

LEMMA ConfirmHandsOn ==
  ASSUME LaunchOK, ReviewStarts, Confirm
  PROVE  HandedOn(review.launch.config)'
  <1> SUFFICES ASSUME ~loaded.trusted
               PROVE  HandedOn(review.launch.config)'
    BY DEF HandedOn, Confirm
  <1>1. PICK sel \in Selections, approved \in Approvals, end \in {"saved", "once"} :
            LET grants == SelectionGrants(sel, approved, loaded.harness, TRUE)
                ssh == "selected_key" \in sel
                effective == BuildEffective(loaded.global, grants, in.cli, loaded)
                forge == IF in.terminal = "plain" THEN Unreviewed
                         ELSE IF Mode("clean") \/ Lockdown(effective) THEN NoForge
                         ELSE disk.forge
            IN  review' = [end |-> end, grants |-> grants, approved |-> approved, ssh |-> ssh,
                           launch |-> [Finalized(effective, SelectedKey(ssh), Host)
                                        EXCEPT !.reviewed = forge]]
    BY DEF Confirm
  <1> DEFINE grants == Chosen(sel, approved, loaded.harness)
             trusted == MergeCli(in.cli, MergeTrusted(loaded.global, grants))
             e == BuildEffective(loaded.global, grants, in.cli, loaded)
             ssh == SelectedKey("selected_key" \in sel)
             host == Host
             f == Finalized(e, ssh, host)
             c == f.config
  <1>2. /\ review'.end = end /\ review'.grants = grants /\ review'.launch.config = c
    BY <1>1 DEF Chosen, Finalized
  <1>3. Sound(grants) /\ grants.command = NoCommand
    BY SoundSelection
  <1>4. pc = "review" /\ loaded.harness # NoCommand /\ in' = in /\ loaded' = loaded
    BY DEF Confirm
  <1>5. Trusted' = trusted
    BY <1>2, <1>4 DEF Trusted, Confirmed
  <1> HIDE DEF grants
  <1>6. /\ WellFormed(e) /\ KeepsTrusted(e, trusted) /\ e.hosts = trusted.hosts
        /\ BrowserProfile(e) => BrowserProfile(trusted)
        /\ e.command = loaded.harness /\ e.command \in Harnesses
    BY <1>3, <1>4, EffectiveIsHandedOn
  <1> HIDE DEF e, trusted, ssh, host
  <1>7. /\ \A g \in Fields \ {"hosts", "env", "ro"} : c[g] = e[g]
        /\ \A g : Grants(c, g) <=> Grants(e, g)
        /\ c.hosts = e.hosts \cup DefaultHosts(e, host)
        /\ c.ro \subseteq e.ro \cup AskedCredentials(e)
    BY <1>6, FinalizedAdds DEF NewCredentials, CredentialPaths
  <1> HIDE DEF f, c
  <1>8. c.yes = e.yes /\ c.browser = e.browser
        /\ \A g \in Lists \ {"hosts", "ro"} : c[g] = e[g]
    BY <1>7 DEF Fields, Lists
  <1>9. KeepsTrusted(c, trusted)
    <2>1. Granted(c) \subseteq Granted(e)
      BY <1>7 DEF Granted
    <2> QED BY <1>6, <1>7, <1>8, <2>1, FewerGrantsKeepTrusted
  <1>10. c.hosts \subseteq trusted.hosts \cup RegistryHosts \cup ApiHosts[loaded.harness]
    BY <1>6, <1>7, DefaultHostsAre
  <1>11. Kept(c, trusted, loaded.harness)
    BY <1>4, <1>9, <1>10 DEF Kept
  <1>12. BrowserProfile(c) => BrowserProfile(trusted)
    BY <1>6, <1>8 DEF BrowserProfile
  <1> QED BY <1>2, <1>4, <1>5, <1>11, <1>12 DEF HandedOn

LEMMA UseProfileHandsOn ==
  ASSUME LaunchOK, Listening, ReviewStarts, UseProfile, pc' = "settle"
  PROVE  HandedOn(cfg)'
  <1> SUFFICES ASSUME ~loaded.trusted
               PROVE  HandedOn(cfg)'
    BY DEF HandedOn, UseProfile
  <1> DEFINE grants == loaded.doc.grants
             e == BuildEffective(loaded.global, grants, in.cli, loaded)
             trusted == MergeCli(in.cli, MergeTrusted(loaded.global, grants))
             c == ApplyApproved(e)
  <1>1. /\ pc = "review" /\ loaded.harness # NoCommand /\ cfg' = c
        /\ UNCHANGED <<in, loaded, review>>
    BY DEF UseProfile, End
  <1>2. Sound(grants) /\ grants.command = NoCommand
    BY DEF LaunchOK, LoadedOK
  <1>3. Trusted' = trusted
    BY <1>1 DEF Trusted, Confirmed, Listening
  <1>4. /\ WellFormed(e) /\ KeepsTrusted(e, trusted) /\ e.hosts = trusted.hosts
        /\ BrowserProfile(e) => BrowserProfile(trusted)
    BY <1>1, <1>2, EffectiveIsHandedOn
  <1> HIDE DEF e, trusted
  <1>5. /\ \A f \in Fields \ {"env", "secrets"} : c[f] = e[f]
        /\ \A f : Grants(c, f) <=> Grants(e, f)
    BY <1>4, ApprovedAdds
  <1> HIDE DEF c
  <1>6. /\ c.yes = e.yes /\ c.browser = e.browser /\ c.hosts = e.hosts
        /\ c.ro = e.ro /\ \A g \in Lists \ {"hosts", "ro"} : c[g] = e[g]
    BY <1>5 DEF Fields, Lists
  <1>7. KeepsTrusted(c, trusted)
    <2>1. Granted(c) \subseteq Granted(e)
      BY <1>5 DEF Granted
    <2> QED BY <1>4, <1>6, <2>1, FewerGrantsKeepTrusted
  <1>8. Kept(c, trusted, loaded.harness) /\ (BrowserProfile(c) => BrowserProfile(trusted))
    BY <1>4, <1>6, <1>7 DEF Kept, BrowserProfile
  <1> QED BY <1>1, <1>3, <1>8 DEF HandedOn

LEMMA UseLayersHandsOn ==
  ASSUME LaunchOK, Listening, ReviewStarts, UseLayers
  PROVE  HandedOn(cfg)'
  <1> SUFFICES ASSUME ~loaded.trusted
               PROVE  HandedOn(cfg)'
    BY DEF HandedOn, UseLayers
  <1> DEFINE trusted == Baseline(loaded)
             c == MergeProject(trusted, Project(loaded))
  <1>1. pc = "review" /\ UNCHANGED <<in, loaded, review, cfg>>
    BY DEF UseLayers
  <1>2. cfg' = c /\ Trusted' = trusted
    BY <1>1 DEF ReviewStarts, WithProject, Trusted, Baseline, Confirmed, Listening
  <1>3. WellFormed(trusted) /\ WellFormed(Project(loaded))
    BY BaselineOK DEF LaunchOK, LoadedOK, DiskOK, Sound
  <1> HIDE DEF trusted
  <1>4. KeepsTrusted(c, trusted) /\ TightensOnly(c, trusted)
    BY <1>3, MergedKeepsTrusted, ProjectMergeTightens
  <1> HIDE DEF c
  <1>5. c.hosts = trusted.hosts /\ c.browser = trusted.browser
    BY <1>4 DEF TightensOnly
  <1>6. Kept(c, trusted, loaded.harness) /\ (BrowserProfile(c) => BrowserProfile(trusted))
    BY <1>4, <1>5 DEF Kept, BrowserProfile
  <1> QED BY <1>1, <1>2, <1>6 DEF HandedOn

LEMMA SkipReviewHandsOn ==
  ASSUME LaunchOK, Listening, SkipReview, pc' = "settle"
  PROVE  HandedOn(cfg)'
  <1> DEFINE c == NonInteractive(loaded, in.cli)
             trusted == MergeCli(in.cli, MergeTrusted(loaded.global, EmptyConfig))
  <1>1. /\ pc = "review" /\ loaded.harness # NoCommand /\ ~loaded.doc.onboarded
        /\ review'.end = "skipped" /\ cfg' = c /\ UNCHANGED <<in, loaded>>
    BY DEF SkipReview, FirstRun, End, LaunchOK, ReviewOK, NoReview
  <1>2. Trusted' = trusted
    BY <1>1 DEF Trusted, Confirmed, LaunchOK, LoadedOK
  <1>3. /\ KeepsTrusted(c, trusted)
        /\ c.hosts \subseteq trusted.hosts \cup ApiHosts[loaded.harness]
    <2>1. /\ LayersShape(loaded) /\ WellFormed(loaded.global) /\ WellFormed(Project(loaded))
          /\ WellFormed(in.cli)
      BY DEF LaunchOK, LoadedOK, DiskOK, Sound
    <2> HIDE DEF c, trusted
    <2> QED BY <2>1, NonInteractiveKeepsTrusted DEF c, trusted
  <1> HIDE DEF c, trusted
  <1>4. Kept(c, trusted, loaded.harness)
    BY <1>1, <1>3 DEF Kept
  <1> QED BY <1>1, <1>2, <1>4 DEF HandedOn

\* The settled command, and the browser profile that may come with it.
LEMMA SettleTightens ==
  ASSUME LaunchOK, Tightening, SettleCommand, pc' = "modes"
  PROVE  ProjectOnlyTightens'
  <1> SUFFICES ASSUME ~loaded.trusted
               PROVE  ProjectOnlyTightens'
    BY DEF SettleCommand, ProjectOnlyTightens
  <1> DEFINE command == IF CommandFromProject THEN Project(loaded).command
                        ELSE Override(in.cli.command, cfg.command, NoCommand)
             tc == ~CommandFromProject \/ loaded.trusted
             d == [cfg EXCEPT !.command = command]
             e == ApplyBrowser(d, tc)
             trusted == Trusted
  <1>1. pc = "settle" /\ cfg' = e /\ UNCHANGED <<in, loaded, review>>
    BY DEF SettleCommand, End
  <1>2. /\ Kept(cfg, trusted, loaded.harness)
        /\ BrowserProfile(cfg) => BrowserProfile(trusted) \/ review.end = "skipped"
    BY <1>1 DEF Tightening, HandedOn
  <1>3. Trusted' = trusted /\ (CommandFromProject' <=> CommandFromProject)
    BY <1>1 DEF Trusted, Confirmed, CommandFromProject
  <1>4. WellFormed(cfg)
    BY DEF LaunchOK, Sound
  <1>5. OnlyCommand(d, cfg)
    BY <1>4, CommandChanges
  <1>6. tc => ~CommandFromProject
    OBVIOUS
  <1> HIDE DEF command, tc, d, trusted
  <1>7. /\ WellFormed(d) /\ d.yes = cfg.yes /\ d.browser = cfg.browser
        /\ \A f : Grants(d, f) <=> Grants(cfg, f)
    BY <1>4, <1>5, OnlyCommandChanges DEF Fields
  <1>8. KeepsTrusted(e, trusted) /\ e.hosts = cfg.hosts
    <2> HIDE DEF e
    <2>1. KeepsTrusted(cfg, trusted)
      BY <1>2 DEF Kept
    <2> QED BY <1>4, <1>5, <2>1, BrowserKeepsTrusted DEF e
  <1>9. \A f : Grants(e, f) => Grants(d, f) \/ Lifts(d, tc, f)
    BY <1>7, BrowserProfileGrants
  <1> HIDE DEF e
  <1>10. \/ tc \/ review.end = "skipped" \/ BrowserProfile(trusted)
         \/ Granted(e) \subseteq Granted(trusted)
    <2> SUFFICES ASSUME ~tc, review.end # "skipped", ~BrowserProfile(trusted)
                 PROVE  Granted(e) \subseteq Granted(trusted)
      OBVIOUS
    <2>1. ~BrowserProfile(cfg)
      BY <1>2
    <2>2. Granted(cfg) \subseteq Granted(trusted)
      BY <1>2, <2>1 DEF Kept, KeepsTrusted, Unlocks
    <2>3. \A f : ~Lifts(d, tc, f)
      BY <1>7, <2>1 DEF Lifts, BrowserProfile
    <2> QED BY <1>7, <1>9, <2>2, <2>3 DEF Granted
  <1>11. Granted(e) \subseteq Granted(trusted) \cup Opens'
    <2>1. Granted(e) \subseteq Granted(trusted) \cup Unlocks(e, trusted)
      BY <1>8 DEF KeepsTrusted
    <2>2. Opens' = IF Lockdown(trusted)
                      /\ \/ BrowserProfile(trusted)
                         \/ BrowserProfile(e) /\ (~CommandFromProject \/ review.end = "skipped")
                   THEN {"lockdown"} ELSE {}
      BY <1>1, <1>3 DEF Opens
    <2> QED BY <1>6, <1>10, <2>1, <2>2 DEF Unlocks
  <1>12. /\ e.hosts \subseteq trusted.hosts \cup RegistryHosts
                    \cup UNION {ApiHosts[h] : h \in {loaded.harness} \ {NoCommand}}
    BY <1>2, <1>8 DEF Kept
  <1>13. /\ trusted.closed \subseteq e.closed
         /\ e.exceptions \subseteq trusted.exceptions /\ e.private \subseteq trusted.private
         /\ (e.ro \ AskedCredentials(trusted)) \cup e.rw \cup e.overlay
                \subseteq Inside \cup trusted.ro \cup trusted.rw \cup trusted.overlay
         /\ \A m \in e.rw \ trusted.rw, n \in e.ro \ AskedCredentials(trusted) :
                <<m, n>> \notin Overlap
    BY <1>8 DEF KeepsTrusted, PathsTighten
  <1> QED BY <1>1, <1>3, <1>11, <1>12, <1>13 DEF ProjectOnlyTightens

LEMMA StepTightens ==
  ASSUME LaunchOK, Listening, Tightening, LaunchStep
  PROVE  Tightening'
  <1> USE DEF Tightening
  <1>1. CASE LoadPolicy
    <2>1. CASE pc' = "done"
      BY <2>1 DEF ReviewStarts, ProjectOnlyTightens
    <2>2. CASE pc' = "review"
      <3> DEFINE merged == WithProject(Baseline(Layers), Layers)
      <3>1. /\ loaded' = [Layers EXCEPT !.harness = Harness(merged)] /\ cfg' = merged
            /\ in' = in
        BY <1>1, <2>2 DEF LoadPolicy, End
      <3> HIDE DEF merged
      <3>2. /\ loaded'.doc = Layers.doc /\ loaded'.global = Layers.global
            /\ loaded'.legacy = Layers.legacy /\ loaded'.trusted = Layers.trusted
            /\ loaded'.harness = Harness(merged)
        BY <3>1 DEF Layers
      <3> HIDE DEF Layers
      <3>3. cfg' = WithProject(Baseline(loaded), loaded)'
        BY <3>1, <3>2 DEF WithProject, Baseline, Project, merged
      <3> QED BY <2>2, <3>1, <3>2, <3>3 DEF ReviewStarts, ProjectOnlyTightens
    <2> QED BY <1>1, <2>1, <2>2 DEF LoadPolicy, End
  <1>2. CASE Confirm
    <2>1. pc' = "confirmed"
      BY <1>2 DEF Confirm
    <2> QED BY <1>2, <2>1, ConfirmHandsOn DEF ReviewStarts, ProjectOnlyTightens
  <1>3. CASE UseProfile
    <2>1. pc' \in {"settle", "done"}
      BY <1>3 DEF UseProfile, End
    <2> QED BY <1>3, <2>1, UseProfileHandsOn DEF ReviewStarts, ProjectOnlyTightens
  <1>4. CASE UseLayers
    <2>1. pc' = "settle"
      BY <1>4 DEF UseLayers
    <2> QED BY <1>4, <2>1, UseLayersHandsOn DEF ReviewStarts, ProjectOnlyTightens
  <1>5. CASE SkipReview
    <2>1. pc' \in {"settle", "done"}
      BY <1>5 DEF SkipReview, End
    <2> QED BY <1>5, <2>1, SkipReviewHandsOn DEF ReviewStarts, ProjectOnlyTightens
  <1>6. CASE SettleCommand
    <2>1. pc' \in {"modes", "done"}
      BY <1>6 DEF SettleCommand, End
    <2> QED BY <1>6, <2>1, SettleTightens DEF ReviewStarts, ProjectOnlyTightens
  <1>7. CASE SaveProfile
    <2>1. /\ pc = "confirmed" /\ pc' \in {"reviewed", "done"}
          /\ UNCHANGED <<in, loaded, cfg, review>>
      BY <1>7 DEF SaveProfile, End
    <2>2. HandedOn(review.launch.config)'
      BY <2>1 DEF HandedOn, Trusted, Confirmed
    <2> QED BY <2>1, <2>2 DEF ReviewStarts, ProjectOnlyTightens
  <1>8. CASE LaunchReviewed
    <2>1. CASE pc' = "done"
      BY <2>1 DEF ReviewStarts, ProjectOnlyTightens
    <2>2. CASE pc' = "settle" /\ cfg' = review.launch.config
      <3>1. pc \in {"confirmed", "reviewed"} /\ UNCHANGED <<in, loaded, review>>
        BY <1>8 DEF LaunchReviewed
      <3>2. HandedOn(cfg)'
        BY <2>2, <3>1 DEF HandedOn, Trusted, Confirmed
      <3> QED BY <2>2, <3>2 DEF ReviewStarts, ProjectOnlyTightens
    <2> QED BY <1>8, <2>1, <2>2 DEF LaunchReviewed, End
  <1>9. CASE ForgeChanges
    <2>1. UNCHANGED <<in, pc, loaded, cfg, review>>
      BY <1>9 DEF ForgeChanges
    <2>2. UNCHANGED <<Trusted, Opens, CommandFromProject>>
      BY <2>1 DEF Trusted, Opens, CommandFromProject, Confirmed
    <2>3. ReviewStarts'
      BY <2>1 DEF ReviewStarts, WithProject, Baseline, Project
    <2>4. ProjectOnlyTightens'
      BY <2>1, <2>2 DEF ProjectOnlyTightens
    <2>5. /\ pc' \in {"confirmed", "reviewed"} => HandedOn(review.launch.config)'
          /\ pc' = "settle" => HandedOn(cfg)'
      BY <2>1, <2>2 DEF HandedOn
    <2> QED BY <2>3, <2>4, <2>5
  <1>10. CASE \/ CheckFlags \/ Migrate \/ CancelReview \/ ShowStatus \/ SavePreferences
              \/ InitSaves \/ Bootstrap \/ Finalize \/ PortsBound \/ PortTaken
    <2>1. pc' \notin {"review", "confirmed", "reviewed", "settle", "modes"}
      BY <1>10 DEF CheckFlags, Migrate, CancelReview, ShowStatus, SavePreferences, InitSaves,
         Bootstrap, Finalize, PortsBound, PortTaken, End
    <2> QED BY <2>1 DEF ReviewStarts, ProjectOnlyTightens
  <1>11. CASE \/ AutoSave \/ AttachForge \/ PassthroughMissing \/ PlanRefused \/ Spawn
              \/ ChildExits \/ Relaunch
    <2>1. pc' \notin {"review", "confirmed", "reviewed", "settle", "modes"}
      BY <1>11 DEF AutoSave, AttachForge, PassthroughMissing, PlanRefused, Spawn, ChildExits,
         Relaunch, End
    <2> QED BY <2>1 DEF ReviewStarts, ProjectOnlyTightens
  <1> QED BY <1>1, <1>2, <1>3, <1>4, <1>5, <1>6, <1>7, <1>8, <1>9, <1>10, <1>11
         DEF LaunchStep, Proceed, Decided

(***************************************************************************)
(* merge_with_global_report through the review, the profile and the        *)
(* browser: whichever layers are loaded and whatever is chosen, an         *)
(* untrusted project's configuration opens nothing a trusted layer did not *)
(* open, but for the lockdown a chosen browser lifts.                      *)
(***************************************************************************)
THEOREM ProjectsOnlyTighten == Spec => []ProjectOnlyTightens
  <1>1. Init => Tightening
    BY DEF Init, LaunchInit, Tightening, ReviewStarts, ProjectOnlyTightens
  <1>2. SessionOK /\ Tightening /\ [Next]_vars => Tightening'
    <2> SUFFICES ASSUME SessionOK, Tightening, [Next]_vars PROVE Tightening'
      OBVIOUS
    <2>1. CASE LaunchStep
      BY <2>1, StepTightens DEF SessionOK
    <2>2. CASE UNCHANGED launchVars
      <3>1. UNCHANGED <<in, pc, loaded, cfg, review>>
        BY <2>2 DEF launchVars
      <3>2. UNCHANGED <<Trusted, Opens, CommandFromProject>>
        BY <3>1 DEF Trusted, Opens, CommandFromProject, Confirmed
      <3>3. ReviewStarts'
        BY <3>1 DEF Tightening, ReviewStarts, WithProject, Baseline, Project
      <3>4. ProjectOnlyTightens'
        BY <3>1, <3>2 DEF Tightening, ProjectOnlyTightens
      <3>5. /\ pc' \in {"confirmed", "reviewed"} => HandedOn(review.launch.config)'
            /\ pc' = "settle" => HandedOn(cfg)'
        BY <3>1, <3>2 DEF Tightening, HandedOn
      <3> QED BY <3>3, <3>4, <3>5 DEF Tightening
    <2> QED BY <2>1, <2>2, Stepping
  <1>3. Tightening => ProjectOnlyTightens
    BY DEF Tightening
  <1> QED BY <1>1, <1>2, <1>3, SessionInvariant, PTL DEF Spec

(***************************************************************************)
(* A browser gives up the worktree of its project, on every path from the  *)
(* layers and the review to the launch.                                    *)
(***************************************************************************)
LEMMA NothingIsFitted == Fitted(NoLaunch.config)
  BY DEF Fitted, CredentialPaths, AskedCredentials, GivesUp, BrowserProfile, NoLaunch, EmptyConfig

LEMMA BrowserGivesUp ==
  ASSUME NEW c, WellFormed(c), NEW trustedCommand
  PROVE  GivesUp(ApplyBrowser(c, trustedCommand))
  <1> DEFINE r == ApplyBrowser(c, trustedCommand)
             explicit == BrowserProfile(c)
             yes == {"no_docker", "no_worktree", "no_mise", "no_toolchains", "no_save_config"}
                        \cup ({"no_gpu"} \ c.no)
             no == {"ssh", "pictures", "agent_state"}
                        \cup (IF explicit \/ trustedCommand \/ ~Lockdown(c) THEN {"lockdown"} ELSE {})
             a == Answer(c, yes, no)
  <1>1. CASE c.browser = "off" \/ (~explicit /\ c.command \notin Browsers)
    BY <1>1 DEF ApplyBrowser, GivesUp, BrowserProfile
  <1>2. CASE ~(c.browser = "off" \/ (~explicit /\ c.command \notin Browsers))
    <2>1. DOMAIN c = Fields
      BY FieldsOfConfig DEF WellFormed
    <2>2. a.no = no \cup (c.no \ yes) /\ DOMAIN a = Fields
      <3> HIDE DEF yes, no
      <3> QED BY <2>1, Answered
    <2>3. "no_worktree" \notin a.no
      BY <2>2
    <2>4. r = [a EXCEPT !.browser = IF explicit THEN @ ELSE "hard", !.bar = "yes"]
      BY <1>2 DEF ApplyBrowser
    <2>5. r.no = a.no
      <3> HIDE DEF a, r
      <3> QED BY <2>2, <2>4 DEF Fields
    <2> HIDE DEF r, a
    <2> QED BY <2>3, <2>5 DEF GivesUp, r
  <1> QED BY <1>1, <1>2

LEMMA FinalizedIsFitted ==
  ASSUME NEW c, Sound(c), GivesUp(c), NEW ssh, NEW host
  PROVE  Fitted(Finalized(c, ssh, host).config)
  <1> DEFINE f == Finalized(c, ssh, host).config
  <1>1. /\ \A g \in Fields \ {"hosts", "env", "ro"} : f[g] = c[g]
        /\ f.ro = c.ro \cup NewCredentials(c)
    BY FinalizedAdds DEF Sound
  <1> HIDE DEF f
  <1>2. f.yes = c.yes /\ f.no = c.no /\ f.browser = c.browser /\ f.rw = c.rw /\ f.overlay = c.overlay
    BY <1>1 DEF Fields
  <1>3. CredentialPaths(f) = CredentialPaths(c)
    BY <1>2 DEF CredentialPaths, AskedCredentials, Lockdown
  <1>4. CredentialPaths(f) \subseteq f.ro \cup f.rw \cup f.overlay
    BY <1>1, <1>2, <1>3 DEF NewCredentials
  <1> QED BY <1>2, <1>4 DEF Fitted, GivesUp, BrowserProfile, f

LEMMA EffectiveGivesUp ==
  ASSUME NEW global, Sound(global), NEW proposed, Sound(proposed), NEW cli, Sound(cli),
         NEW l, Sound(Project(l))
  PROVE  GivesUp(BuildEffective(global, proposed, cli, l))
  <1> DEFINE trusted == MergeCli(cli, MergeTrusted(global, proposed))
             merged == WithProject(trusted, l)
             named == [merged EXCEPT !.command = Override(cli.command, @, NoCommand)]
  <1>1. Sound(MergeTrusted(global, proposed))
    BY SoundLayers
  <1>2. Sound(trusted)
    BY <1>1, SoundLayers
  <1> HIDE DEF trusted
  <1>3. Sound(merged)
    BY <1>2, SoundLayers DEF WithProject
  <1> HIDE DEF merged
  <1>4. WellFormed(named)
    BY <1>3, CommandChanges, OnlyCommandChanges DEF Sound
  <1> HIDE DEF named
  <1>5. GivesUp(ApplyBrowser(named, TRUE))
    BY <1>4, BrowserGivesUp
  <1> QED BY <1>5 DEF BuildEffective, named, merged, trusted

LEMMA StepShut ==
  ASSUME LaunchOK, BrowserShut, LaunchStep
  PROVE  BrowserShut'
  <1>1. CASE \/ CheckFlags \/ Migrate \/ LoadPolicy \/ UseLayers \/ UseProfile \/ SaveProfile
             \/ LaunchReviewed
    <2>1. UNCHANGED <<review, final>> /\ pc' \notin {"modes", "write"}
      BY <1>1 DEF CheckFlags, Migrate, LoadPolicy, UseLayers, UseProfile, SaveProfile,
         LaunchReviewed, End
    <2> QED BY <2>1 DEF BrowserShut
  <1>2. CASE \/ ShowStatus \/ SavePreferences \/ InitSaves \/ Bootstrap \/ PortsBound \/ PortTaken
             \/ AutoSave \/ PassthroughMissing \/ PlanRefused \/ Spawn \/ ChildExits \/ ForgeChanges
    <2>1. UNCHANGED <<review, final, cfg>> /\ (pc' \in {"modes", "write"} => pc \in {"modes", "write"})
      BY <1>2 DEF ShowStatus, SavePreferences, InitSaves, Bootstrap, PortsBound, PortTaken,
         AutoSave, PassthroughMissing, PlanRefused, Spawn, ChildExits, ForgeChanges, End
    <2> QED BY <2>1 DEF BrowserShut
  <1>3. CASE SkipReview \/ CancelReview
    <2>1. /\ review'.launch = review.launch /\ UNCHANGED final
          /\ pc' \notin {"modes", "write"}
      BY <1>3 DEF SkipReview, CancelReview, End, LaunchOK, ReviewOK, NoReview
    <2> QED BY <2>1 DEF BrowserShut
  <1>4. CASE Relaunch
    BY <1>4, NothingIsFitted DEF Relaunch, BrowserShut, NoReview
  <1>5. CASE SettleCommand
    <2> DEFINE command == IF CommandFromProject THEN Project(loaded).command
                          ELSE Override(in.cli.command, cfg.command, NoCommand)
               named == [cfg EXCEPT !.command = command]
    <2>1. WellFormed(named)
      <3> HIDE DEF command
      <3> QED BY CommandChanges, OnlyCommandChanges DEF LaunchOK, Sound
    <2>2. cfg' = ApplyBrowser(named, ~CommandFromProject \/ loaded.trusted)
      BY <1>5 DEF SettleCommand
    <2> HIDE DEF named
    <2>3. GivesUp(cfg')
      BY <2>1, <2>2, BrowserGivesUp
    <2> QED BY <1>5, <2>3 DEF SettleCommand, BrowserShut, Fitted, GivesUp, BrowserProfile
  <1>6. CASE Confirm
    <2>1. PICK sel \in Selections, approved \in Approvals, end \in {"saved", "once"} :
            LET grants == SelectionGrants(sel, approved, loaded.harness, TRUE)
                ssh == "selected_key" \in sel
                effective == BuildEffective(loaded.global, grants, in.cli, loaded)
                forge == IF in.terminal = "plain" THEN Unreviewed
                         ELSE IF Mode("clean") \/ Lockdown(effective) THEN NoForge
                         ELSE disk.forge
            IN  review' = [end |-> end, grants |-> grants, approved |-> approved, ssh |-> ssh,
                           launch |-> [Finalized(effective, SelectedKey(ssh), Host)
                                        EXCEPT !.reviewed = forge]]
      BY <1>6 DEF Confirm
    <2> DEFINE grants == Chosen(sel, approved, loaded.harness)
               effective == BuildEffective(loaded.global, grants, in.cli, loaded)
               f == Finalized(effective, SelectedKey("selected_key" \in sel), Host)
               forge == IF in.terminal = "plain" THEN Unreviewed
                        ELSE IF Mode("clean") \/ Lockdown(effective) THEN NoForge
                        ELSE disk.forge
    <2>6. review'.launch = [f EXCEPT !.reviewed = forge]
      BY <2>1 DEF Chosen
    <2>2. review'.launch.config = f.config
      BY <2>6 DEF Finalized
    <2>3. Sound(grants)
      BY SoundSelection
    <2> HIDE DEF grants
    <2>4. Sound(effective) /\ GivesUp(effective)
      BY <2>3, SoundEffective, EffectiveGivesUp DEF LaunchOK, LoadedOK, DiskOK
    <2> HIDE DEF effective
    <2>5. Fitted(f.config)
      BY <2>4, FinalizedIsFitted
    <2> QED BY <1>6, <2>2, <2>5 DEF Confirm, BrowserShut, Fitted, GivesUp, BrowserProfile
  <1>7. CASE Finalize
    <2>1. UNCHANGED review /\ pc' \notin {"modes", "write"} /\ GivesUp(cfg) /\ Sound(cfg)
      BY <1>7 DEF Finalize, End, BrowserShut, LaunchOK
    <2>2. Fitted(Finalized(cfg, SelectedKey(loaded.doc.ssh), Host).config)
      BY <2>1, FinalizedIsFitted
    <2>3. final' \in {final, review.launch, Finalized(cfg, SelectedKey(loaded.doc.ssh), Host)}
      BY <1>7 DEF Finalize
    <2> QED BY <2>1, <2>2, <2>3 DEF BrowserShut, Fitted, GivesUp, BrowserProfile
  <1>8. CASE AttachForge
    <2>1. UNCHANGED review /\ pc' \notin {"modes", "write"} /\ final'.config = final.config
      BY <1>8 DEF AttachForge, End, LaunchOK, FinalOK, NoLaunch
    <2> QED BY <2>1 DEF BrowserShut, Fitted, GivesUp, BrowserProfile
  <1> QED BY <1>1, <1>2, <1>3, <1>4, <1>5, <1>6, <1>7, <1>8 DEF LaunchStep, Proceed, Decided

(* A browser's launch has given up the worktree at every point.            *)
LEMMA ShutInvariant == Spec => []BrowserShut
  <1>1. Init => BrowserShut
    BY NothingIsFitted DEF Init, LaunchInit, BrowserShut, NoReview
  <1>2. SessionOK /\ BrowserShut /\ [Next]_vars => BrowserShut'
    <2> SUFFICES ASSUME SessionOK, BrowserShut, [Next]_vars PROVE BrowserShut'
      OBVIOUS
    <2>1. CASE LaunchStep
      BY <2>1, StepShut DEF SessionOK
    <2>2. CASE UNCHANGED launchVars
      BY <2>2 DEF launchVars, BrowserShut
    <2> QED BY <2>1, <2>2, Stepping
  <1> QED BY <1>1, <1>2, SessionInvariant, PTL DEF Spec

(***************************************************************************)
(* discover_mounts_full: whatever maps, overlays and closed paths a launch *)
(* ends up with, and however they overlap, the plan the harness runs under *)
(* keeps closed paths closed, writes nothing under lockdown or for a       *)
(* browser, keeps overlays and read-only maps from being written through,  *)
(* and shows every map's own files.                                        *)
(***************************************************************************)
THEOREM PlansHold == Spec => []MountsKeepPolicy
  <1>1. BrowserShut => MountsKeepPolicy
    BY PlansKeepPolicy DEF BrowserShut, Fitted, GivesUp, MountsKeepPolicy
  <1> QED BY <1>1, ShutInvariant, PTL

(***************************************************************************)
(* generate_sbpl_profile_for_tty: whatever maps, overlays, closed paths    *)
(* and credentials a launch ends up with, and however they overlap, its    *)
(* profile writes no closed path, no read-only map, no overlay and nothing *)
(* it cannot read, nothing at all under lockdown or for a browser, and     *)
(* reads of what is closed only what a credential that is on opens again.  *)
(***************************************************************************)
THEOREM ProfilesHold == Spec => []ProfileKeepsPolicy
  <1>1. ProfileKeepsPolicy
    BY ProfilesKeepPolicy DEF ProfileKeepsPolicy
  <1> QED BY <1>1, PTL

(***************************************************************************)
(* discover_mounts_full and generate_sbpl_profile_for_tty: over any tree   *)
(* of destinations, a configuration the two platforms can both give gives  *)
(* the harness the same paths to write and, unless shut, to read, but for  *)
(* those a credential opens again in the profile alone.                    *)
(***************************************************************************)
THEOREM PlatformsAlwaysAgree == Spec => []PlatformsAgree
  <1>1. BrowserShut => PlatformsAgree
    BY PlatformsMeanTheSame DEF BrowserShut, Fitted, GivesUp, PlatformsAgree
  <1> QED BY <1>1, ShutInvariant, PTL

(***************************************************************************)
(* landlock_wrapper_args, run_landlock_exec, landlock::apply: whatever     *)
(* configuration a launch settles on, the wrapper rebuilds all its layers  *)
(* ask for but the three capabilities it is not told of, runs nothing      *)
(* under lockdown without the whole of the filesystem rules, relies on no  *)
(* network rules where the network is not its own, and lets the harness    *)
(* write where the mounts do, but for what a worktree shares.              *)
(***************************************************************************)
THEOREM LayersAlwaysAgree == Spec => []LayersAgree
  <1>1. BrowserShut => LayersAgree
    BY InnerIsTheSame, LockedWhole, LayersAgreeEverywhere DEF BrowserShut, Fitted, GivesUp, LayersAgree
  <1> QED BY <1>1, ShutInvariant, PTL

(***************************************************************************)
(* What is written, and when.                                              *)
(***************************************************************************)
\* A field the project leaves open is the baseline's.
LEMMA MergeLeaves ==
  ASSUME NEW base, WellFormed(base), NEW local, WellFormed(local), NEW f, f \notin Settled(local)
  PROVE  /\ f \in MergeProject(base, local).yes <=> f \in base.yes
         /\ f \in MergeProject(base, local).no <=> f \in base.no
  <1> DEFINE first == {g \in Capabilities \ {"agent_state"} : Tightens(base, local, g)}
             early == Take(base, local, first)
             late == {g \in {"agent_state"} : Tightens(early, local, g)}
             last == late \cup {"no_save_config"}
             all == Take(early, local, last)
  <1>1. WellFormed(early) /\ (f \in early.yes <=> f \in base.yes) /\ (f \in early.no <=> f \in base.no)
    <2> HIDE DEF first
    <2> QED BY TakeIsWellFormed DEF Settled
  <1>2. /\ f \in all.yes <=> f \in base.yes
        /\ f \in all.no <=> f \in base.no
    <2> HIDE DEF early, last
    <2> QED BY <1>1, TakeIsWellFormed DEF Settled
  <1>3. all = TightenFlags(base, local)
    BY DEF TightenFlags
  <1> HIDE DEF all
  <1>4. DOMAIN all = Fields
    BY <1>3, FlagsTighten
  <1>5. MergeProject(base, local).yes = all.yes /\ MergeProject(base, local).no = all.no
    BY <1>3, <1>4 DEF MergeProject, Fields
  <1> QED BY <1>2, <1>5

\* What a stored document can hold.
LEMMA ConstraintsAreCleared ==
  ASSUME NEW c, WellFormed(c)
  PROVE  Settled(Constraints(c)) \cap Cleared = {}
  <1> DEFINE m == MergeProject(EmptyConfig, c)
             k == Constraints(c)
  <1>1. DOMAIN m = Fields
    BY EmptyIsWellFormed, ProjectMergeTightens, FieldsOfConfig DEF WellFormed
  <1> HIDE DEF m
  <1>2. k.yes = m.yes \ Cleared /\ k.no = m.no \ Cleared
    BY <1>1 DEF Constraints, m, Fields
  <1> HIDE DEF k
  <1> QED BY <1>2 DEF Settled, k

LEMMA MergeObeys ==
  ASSUME NEW low, WellFormed(low), WellFormed(in.cli), NEW l, WellFormed(Project(l)),
         Stores \notin Settled(Project(l))
  PROVE  Obeys(WithProject(MergeCli(in.cli, low), l))
  <1> DEFINE base == MergeCli(in.cli, low)
             m == WithProject(base, l)
  <1>1. WellFormed(base) /\ Obeys(base)
    BY MergeCliIsWellFormed DEF Obeys
  <1> HIDE DEF base
  <1>2. CASE l.trusted
    <2>1. m.yes = Project(l).yes \cup (base.yes \ Project(l).no)
      BY <1>1, <1>2, LayerIsWellFormed DEF WithProject, MergeTrusted
    <2> QED BY <1>1, <2>1 DEF Obeys, Settled, base
  <1>3. CASE ~l.trusted
    <2>1. Stores \in m.yes <=> Stores \in base.yes
      BY <1>1, <1>3, MergeLeaves DEF WithProject
    <2> QED BY <1>1, <2>1 DEF Obeys, base
  <1> QED BY <1>2, <1>3

LEMMA BrowserObeys ==
  ASSUME NEW c, WellFormed(c), Obeys(c), NEW d, OnlyCommand(d, c), NEW trustedCommand
  PROVE  Obeys(ApplyBrowser(d, trustedCommand))
  <1> DEFINE explicit == BrowserProfile(d)
             yes == {"no_docker", "no_worktree", "no_mise", "no_toolchains", "no_save_config"}
                        \cup ({"no_gpu"} \ d.no)
             no == {"ssh", "pictures", "agent_state"}
                        \cup (IF explicit \/ trustedCommand \/ ~Lockdown(d) THEN {"lockdown"} ELSE {})
             a == Answer(d, yes, no)
             r == ApplyBrowser(d, trustedCommand)
  <1>1. d.yes = c.yes /\ DOMAIN d = Fields
    BY DEF OnlyCommand, Fields
  <1>2. CASE d.browser = "off" \/ (~explicit /\ d.command \notin Browsers)
    BY <1>1, <1>2 DEF ApplyBrowser, Obeys
  <1>3. CASE ~(d.browser = "off" \/ (~explicit /\ d.command \notin Browsers))
    <2>1. Stores \in yes
      BY DEF Stores
    <2>2. a.yes = yes \cup (d.yes \ no) /\ DOMAIN a = Fields
      <3> HIDE DEF yes, no
      <3> QED BY <1>1, Answered
    <2>3. r = [a EXCEPT !.browser = IF explicit THEN @ ELSE "hard", !.bar = "yes"]
      BY <1>3 DEF ApplyBrowser
    <2>4. r.yes = a.yes
      <3> HIDE DEF a, r
      <3> QED BY <2>2, <2>3 DEF Fields
    <2> QED BY <2>1, <2>2, <2>4 DEF Obeys
  <1> QED BY <1>2, <1>3

LEMMA EffectiveObeys ==
  ASSUME NEW global, WellFormed(global), NEW grants, WellFormed(grants), WellFormed(in.cli),
         NEW l, WellFormed(Project(l)), Stores \notin Settled(Project(l))
  PROVE  Obeys(BuildEffective(global, grants, in.cli, l))
  <1> DEFINE merged == WithProject(MergeCli(in.cli, MergeTrusted(global, grants)), l)
             d == [merged EXCEPT !.command = Override(in.cli.command, @, NoCommand)]
  <1>1. WellFormed(MergeTrusted(global, grants))
    BY TrustedIsWellFormed
  <1>2. Obeys(merged)
    BY <1>1, MergeObeys
  <1>3. WellFormed(merged)
    BY TrustedIsWellFormed, LayerIsWellFormed, ProjectMergeTightens DEF WithProject, MergeTrusted
  <1> HIDE DEF merged
  <1>4. OnlyCommand(d, merged)
    BY <1>3, CommandChanges
  <1> HIDE DEF d
  <1>5. Obeys(ApplyBrowser(d, TRUE))
    BY <1>2, <1>3, <1>4, BrowserObeys
  <1> QED BY <1>5 DEF BuildEffective, d, merged

LEMMA FinalizedObeys ==
  ASSUME NEW c, WellFormed(c), Obeys(c), NEW ssh, NEW host
  PROVE  Obeys(Finalized(c, ssh, host).config)
  <1> DEFINE f == Finalized(c, ssh, host).config
  <1>1. \A g \in Fields \ {"hosts", "env", "ro"} : f[g] = c[g]
    BY FinalizedAdds
  <1> HIDE DEF f
  <1>2. f.yes = c.yes
    BY <1>1 DEF Fields
  <1> QED BY <1>2 DEF Obeys, f

LEMMA StepAsking ==
  ASSUME LaunchOK, Asking, LaunchStep
  PROVE  Asking'
  <1> USE DEF Asking, Reviewed, Looks, FlagsConflict, Mode, Confirmed
  <1>1. CASE Confirm
    <2>1. /\ pc = "review" /\ pc' = "confirmed" /\ in' = in /\ Reviewing
          /\ review'.end \in {"saved", "once"}
      BY <1>1 DEF Confirm
    <2> QED BY <2>1 DEF Reviewing, FirstRun
  <1>2. CASE CancelReview
    <2>1. pc' = "done" /\ in' = in /\ review'.end = "cancelled"
      BY <1>2 DEF CancelReview, End, LaunchOK, ReviewOK, NoReview
    <2> QED BY <2>1
  <1>3. CASE SkipReview
    <2>1. /\ pc = "review" /\ pc' \in {"settle", "done"} /\ in' = in /\ review'.end = "skipped"
          /\ FirstRun
      BY <1>3 DEF SkipReview, End, LaunchOK, ReviewOK, NoReview
    <2> QED BY <2>1 DEF FirstRun
  <1>4. CASE Relaunch
    BY <1>4 DEF Relaunch, NoReview
  <1>5. CASE CheckFlags
    BY <1>5 DEF CheckFlags, End
  <1>6. CASE Migrate \/ LoadPolicy \/ UseProfile \/ UseLayers
    <2>1. /\ UNCHANGED <<in, review>> /\ pc \in {"migrate", "load", "review"}
          /\ pc' \in {"load", "review", "settle", "done"}
      BY <1>6 DEF Migrate, LoadPolicy, UseProfile, UseLayers, End
    <2> QED BY <2>1
  <1>7. CASE SaveProfile \/ LaunchReviewed \/ SettleCommand
    <2>1. /\ UNCHANGED <<in, review>> /\ pc \in {"confirmed", "reviewed", "settle"}
          /\ pc' \in {"reviewed", "settle", "modes", "done"}
          /\ pc' = "reviewed" => pc = "confirmed"
      BY <1>7 DEF SaveProfile, LaunchReviewed, SettleCommand, End
    <2> QED BY <2>1
  <1>8. CASE ShowStatus \/ SavePreferences
    BY <1>8 DEF ShowStatus, SavePreferences, End
  <1>9. CASE InitSaves \/ Bootstrap \/ Finalize \/ PortsBound \/ PortTaken \/ AutoSave
    <2>1. /\ UNCHANGED <<in, review>> /\ pc \in {"write", "ports", "autosave"}
          /\ pc' \in {"ports", "autosave", "forge", "done"}
      BY <1>9 DEF InitSaves, Bootstrap, Finalize, PortsBound, PortTaken, AutoSave, End
    <2> QED BY <2>1
  <1>10. CASE AttachForge \/ PassthroughMissing \/ PlanRefused \/ Spawn \/ ChildExits
    <2>1. /\ UNCHANGED <<in, review>> /\ pc \in {"forge", "spawn", "running"}
          /\ pc' \in {"spawn", "running", "done"}
      BY <1>10 DEF AttachForge, PassthroughMissing, PlanRefused, Spawn, ChildExits, End
    <2> QED BY <2>1
  <1>11. CASE ForgeChanges
    <2>1. UNCHANGED <<in, review, pc>>
      BY <1>11 DEF ForgeChanges
    <2> QED BY <2>1
  <1> QED BY <1>1, <1>2, <1>3, <1>4, <1>5, <1>6, <1>7, <1>8, <1>9, <1>10, <1>11
         DEF LaunchStep, Proceed, Decided

LEMMA MigrateObedient ==
  ASSUME LaunchOK, Obedient, Migrate
  PROVE  Obedient'
  <1> DEFINE local == Constraints(disk.legacy.config)
             m == MergeProject(disk.doc.constraints, local)
  <1>1. WellFormed(local) /\ Stores \notin Settled(local)
    BY ConstraintsAreWellFormed, ConstraintsAreCleared DEF LaunchOK, DiskOK, Sound, Cleared, Stores
  <1> HIDE DEF local
  <1>2. Stores \notin Settled(m)
    BY <1>1, MergeLeaves DEF LaunchOK, DiskOK, Sound, Settled, Obedient, ClearedOnDisk
  <1> HIDE DEF m
  <1>3. UNCHANGED <<in, loaded, cfg, review, final>> /\ pc = "migrate" /\ pc' = "load"
    BY DEF Migrate
  <1>4. ClearedOnDisk' /\ (Saving /\ ~Mode("clean") => ~disk'.legacy.present)
    <2>1. CASE UNCHANGED disk /\ ~(in.modes \cap {"dry_run", "status", "clean"} = {}
                                   /\ in.available /\ disk.legacy.present)
      BY <2>1 DEF Obedient, ClearedOnDisk, Saving, Mode
    <2>2. CASE disk' = [disk EXCEPT !.legacy = [present |-> FALSE, config |-> EmptyConfig],
                                    !.doc.present = TRUE, !.doc.constraints = m]
      <3>1. /\ disk'.doc.constraints = m /\ ~disk'.legacy.present
            /\ disk'.legacy.config = EmptyConfig
        BY <2>2 DEF LaunchOK, DiskOK, NoDoc
      <3> QED BY <1>2, <3>1 DEF ClearedOnDisk
    <2> QED BY <2>1, <2>2 DEF Migrate, m, local
  <1> QED BY <1>3, <1>4 DEF Obedient, Saving, Obeys, Confirmed, Project, Mode

LEMMA LoadObedient ==
  ASSUME LaunchOK, Obedient, LoadPolicy
  PROVE  Obedient'
  <1> DEFINE base == MergeTrusted(Layers.global, Layers.doc.grants)
             merged == WithProject(Baseline(Layers), Layers)
  <1>1. UNCHANGED <<in, disk, review, final>> /\ pc = "load" /\ pc' \in {"review", "done"}
    BY DEF LoadPolicy, End
  <1>2. Saving => Stores \notin Settled(Project(Layers))
    <2>1. Stores \notin Settled(EmptyConfig) /\ NoDoc.constraints = EmptyConfig
      BY DEF Settled, EmptyConfig, NoDoc
    <2>2. CASE Stored.present
      BY <2>1, <2>2 DEF Obedient, ClearedOnDisk, Layers, Project, Stored
    <2>3. CASE ~Stored.present
      <3>1. Project(Layers) = IF Mode("clean") THEN EmptyConfig ELSE disk.legacy.config
        BY <2>3 DEF Layers, Project
      <3>2. Saving /\ ~Mode("clean") => disk.legacy.config = EmptyConfig
        BY <1>1 DEF Obedient, ClearedOnDisk
      <3> QED BY <2>1, <3>1, <3>2
    <2> QED BY <2>2, <2>3
  <1>3. Saving => Obeys(merged)
    <2>1. WellFormed(base) /\ WellFormed(in.cli) /\ WellFormed(Project(Layers))
      BY StoredOK, TrustedIsWellFormed DEF Sound, LaunchOK, DiskOK
    <2> HIDE DEF base
    <2>2. Baseline(Layers) = MergeCli(in.cli, base)
      BY DEF Baseline, base
    <2> QED BY <1>2, <2>1, <2>2, MergeObeys
  <1> HIDE DEF merged
  <1>4. CASE UNCHANGED <<loaded, cfg>> /\ pc' = "done"
    BY <1>1, <1>4 DEF Obedient, ClearedOnDisk, Saving, Obeys, Confirmed, Project
  <1>5. CASE loaded' = [Layers EXCEPT !.harness = Harness(merged)] /\ cfg' = merged
    <2>1. Project(loaded') = Project(Layers)
      BY <1>5, StoredOK DEF LayersShape, Project
    <2> HIDE DEF Layers
    <2>2. Saving' <=> Saving
      BY <1>1 DEF Saving
    <2>3. /\ ClearedOnDisk' /\ (Saving => Stores \notin Settled(Project(loaded')))
          /\ Saving => Obeys(merged)
      BY <1>1, <1>2, <1>3, <2>1 DEF Obedient, ClearedOnDisk
    <2>4. (Saving => Obeys(cfg'))
      BY <1>5, <2>3
    <2> QED BY <1>1, <2>2, <2>3, <2>4 DEF Obedient, Obeys, Confirmed
  <1> QED BY <1>4, <1>5 DEF LoadPolicy, merged, End

LEMMA ConfirmObedient ==
  ASSUME LaunchOK, Obedient, Confirm
  PROVE  Obedient'
  <1>1. PICK sel \in Selections, approved \in Approvals, end \in {"saved", "once"} :
            LET grants == SelectionGrants(sel, approved, loaded.harness, TRUE)
                ssh == "selected_key" \in sel
                effective == BuildEffective(loaded.global, grants, in.cli, loaded)
                forge == IF in.terminal = "plain" THEN Unreviewed
                         ELSE IF Mode("clean") \/ Lockdown(effective) THEN NoForge
                         ELSE disk.forge
            IN  review' = [end |-> end, grants |-> grants, approved |-> approved, ssh |-> ssh,
                           launch |-> [Finalized(effective, SelectedKey(ssh), Host)
                                        EXCEPT !.reviewed = forge]]
    BY DEF Confirm
  <1> DEFINE grants == Chosen(sel, approved, loaded.harness)
             effective == BuildEffective(loaded.global, grants, in.cli, loaded)
             f == Finalized(effective, SelectedKey("selected_key" \in sel), Host)
  <1>2. review'.launch.config = f.config
    BY <1>1 DEF Chosen, Finalized
  <1>3. Sound(grants)
    BY SoundSelection
  <1> HIDE DEF grants
  <1>4. WellFormed(effective) /\ (Saving => Obeys(effective))
    BY <1>3, SoundEffective, EffectiveObeys DEF LaunchOK, LoadedOK, DiskOK, Sound, Obedient
  <1> HIDE DEF effective
  <1>5. Saving => Obeys(f.config)
    BY <1>4, FinalizedObeys
  <1> HIDE DEF f
  <1>6. UNCHANGED <<in, disk, loaded, cfg, final>> /\ pc' = "confirmed"
    BY DEF Confirm
  <1> QED BY <1>2, <1>5, <1>6 DEF Obedient, ClearedOnDisk, Saving, Obeys, Confirmed, Project

LEMMA UseProfileObedient ==
  ASSUME LaunchOK, Obedient, UseProfile
  PROVE  Obedient'
  <1> DEFINE e == BuildEffective(loaded.global, loaded.doc.grants, in.cli, loaded)
  <1>1. WellFormed(e) /\ (Saving => Obeys(e))
    BY SoundEffective, EffectiveObeys DEF LaunchOK, LoadedOK, DiskOK, Sound, Obedient
  <1> HIDE DEF e
  <1>2. ApplyApproved(e).yes = e.yes
    BY <1>1, ApprovedAdds DEF Fields
  <1>3. Saving => Obeys(ApplyApproved(e))
    BY <1>1, <1>2 DEF Obeys
  <1>4. /\ UNCHANGED <<in, disk, loaded, review, final>> /\ pc' \in {"settle", "done"}
        /\ pc' = "settle" => cfg' = ApplyApproved(e)
    BY DEF UseProfile, End, e
  <1> QED BY <1>3, <1>4 DEF Obedient, ClearedOnDisk, Saving, Obeys, Confirmed, Project

LEMMA SettleObedient ==
  ASSUME LaunchOK, Obedient, SettleCommand
  PROVE  Obedient'
  <1> DEFINE command == IF CommandFromProject THEN Project(loaded).command
                        ELSE Override(in.cli.command, cfg.command, NoCommand)
             named == [cfg EXCEPT !.command = command]
  <1>1. OnlyCommand(named, cfg)
    <2> HIDE DEF command
    <2> QED BY CommandChanges DEF LaunchOK, Sound
  <1>2. cfg' = ApplyBrowser(named, ~CommandFromProject \/ loaded.trusted)
    BY DEF SettleCommand
  <1> HIDE DEF named
  <1>3. Obeys(cfg) => Obeys(cfg')
    BY <1>1, <1>2, BrowserObeys DEF LaunchOK, Sound
  <1>4. UNCHANGED <<in, disk, loaded, review, final>> /\ pc = "settle" /\ pc' \in {"modes", "done"}
    BY DEF SettleCommand, End
  <1> QED BY <1>3, <1>4 DEF Obedient, ClearedOnDisk, Saving, Obeys, Confirmed, Project

LEMMA StoreClears ==
  ASSUME LaunchOK, ClearedOnDisk, NEW c, WellFormed(c), StoreConstraints(c)
  PROVE  ClearedOnDisk'
  <1> DEFINE k == Constraints(c)
  <1>1. Stores \notin Settled(k)
    BY ConstraintsAreCleared DEF Cleared, Stores
  <1> HIDE DEF k
  <1>2. disk' = [disk EXCEPT !.doc.present = TRUE, !.doc.constraints = k]
    BY DEF StoreConstraints, k
  <1>3. disk'.doc.constraints = k /\ disk'.legacy = disk.legacy
    BY <1>2 DEF LaunchOK, DiskOK, NoDoc
  <1> QED BY <1>1, <1>3 DEF ClearedOnDisk

LEMMA StepObedient ==
  ASSUME LaunchOK, Asking, Obedient, LaunchStep
  PROVE  Obedient'
  <1>1. ASSUME UNCHANGED <<in, disk, loaded, review>>, pc' \notin {"load", "review"},
               pc' \in {"settle", "modes", "write"} /\ review.end # "skipped" /\ Saving
                    => Obeys(cfg)',
               pc' \in {"ports", "autosave"} /\ review.end # "skipped" /\ Saving
                    => Obeys(final.config)'
        PROVE  Obedient'
    BY <1>1 DEF Obedient, ClearedOnDisk, Saving, Obeys, Confirmed, Project
  <1>2. CASE Migrate \/ LoadPolicy \/ Confirm \/ UseProfile \/ SettleCommand
    BY <1>2, MigrateObedient, LoadObedient, ConfirmObedient, UseProfileObedient, SettleObedient
  <1>3. CASE CheckFlags \/ ShowStatus \/ Bootstrap \/ PortTaken
    <2>1. /\ UNCHANGED <<in, disk, loaded, review, cfg, final>>
          /\ pc' \in {"migrate", "done"}
      BY <1>3 DEF CheckFlags, ShowStatus, Bootstrap, PortTaken, End
    <2> QED BY <1>1, <2>1
  <1>4. CASE AttachForge \/ PassthroughMissing \/ PlanRefused \/ Spawn \/ ChildExits
    <2>1. /\ UNCHANGED <<in, disk, loaded, review, cfg>>
          /\ pc' \in {"spawn", "running", "done"}
      BY <1>4 DEF AttachForge, PassthroughMissing, PlanRefused, Spawn, ChildExits, End
    <2> QED BY <1>1, <2>1
  <1>5. CASE UseLayers
    <2>1. UNCHANGED <<in, disk, loaded, review, cfg, final>> /\ pc = "review" /\ pc' = "settle"
      BY <1>5 DEF UseLayers
    <2> QED BY <1>1, <2>1 DEF Obedient, Obeys
  <1>6. CASE LaunchReviewed
    <2>1. /\ UNCHANGED <<in, disk, loaded, review, final>> /\ pc' \in {"settle", "done"}
          /\ pc' = "settle" => cfg' = review.launch.config
      BY <1>6 DEF LaunchReviewed, End
    <2>2. Confirmed
      BY <1>6 DEF LaunchReviewed, Asking
    <2> QED BY <1>1, <2>1, <2>2 DEF Obedient, Obeys
  <1>7. CASE SaveProfile
    <2>1. /\ UNCHANGED <<in, loaded, review, cfg, final>> /\ pc' \in {"reviewed", "done"}
      BY <1>7 DEF SaveProfile, End
    <2>2. ClearedOnDisk'
      <3>1. CASE UNCHANGED disk
        BY <3>1 DEF Obedient, ClearedOnDisk
      <3>2. CASE disk' = [disk EXCEPT
                    !.doc = [present |-> TRUE, onboarded |-> TRUE, grants |-> review.grants,
                             constraints |-> @.constraints, approved |-> review.approved,
                             ssh |-> review.ssh]]
        <4>1. disk'.doc.constraints = disk.doc.constraints /\ disk'.legacy = disk.legacy
          BY <3>2 DEF LaunchOK, DiskOK
        <4> QED BY <4>1 DEF Obedient, ClearedOnDisk
      <3> QED BY <1>7, <3>1, <3>2 DEF SaveProfile
    <2> QED BY <2>1, <2>2 DEF Obedient, Saving, Obeys, Confirmed, Project
  <1>8. CASE SkipReview
    <2>1. /\ UNCHANGED <<in, disk, loaded, final>> /\ pc' \in {"settle", "done"}
          /\ review'.end = "skipped"
      BY <1>8 DEF SkipReview, End, LaunchOK, ReviewOK, NoReview
    <2> QED BY <2>1 DEF Obedient, ClearedOnDisk, Saving, Obeys, Confirmed, Project
  <1>9. CASE CancelReview
    <2>1. UNCHANGED <<in, disk, loaded, final>> /\ pc' = "done" /\ review'.end = "cancelled"
      BY <1>9 DEF CancelReview, End, LaunchOK, ReviewOK, NoReview
    <2> QED BY <2>1 DEF Obedient, ClearedOnDisk, Saving, Obeys, Confirmed, Project
  <1>10. CASE SavePreferences
    <2>1. UNCHANGED <<in, loaded, review, cfg, final>> /\ pc = "modes" /\ pc' = "write"
      BY <1>10 DEF SavePreferences
    <2>2. disk'.doc = disk.doc /\ disk'.legacy = disk.legacy
      BY <1>10 DEF SavePreferences, LaunchOK, DiskOK
    <2> QED BY <2>1, <2>2 DEF Obedient, ClearedOnDisk, Saving, Obeys, Confirmed, Project
  <1>11. CASE InitSaves
    <2>1. UNCHANGED <<in, loaded, review, cfg, final>> /\ pc' = "done"
      BY <1>11 DEF InitSaves, End
    <2>2. WellFormed(ProjectForInit(in.cli, Project(loaded)))
      BY SavesAreWellFormed DEF LaunchOK, DiskOK, LoadedOK, Sound
    <2>3. ClearedOnDisk'
      BY <1>11, <2>2, StoreClears DEF InitSaves, Obedient, ClearedOnDisk
    <2> QED BY <2>1, <2>3 DEF Obedient, Saving, Obeys, Confirmed, Project
  <1>12. CASE Finalize
    <2>1. UNCHANGED <<in, disk, loaded, review, cfg>> /\ pc = "write" /\ pc' \in {"ports", "done"}
      BY <1>12 DEF Finalize, End
    <2> DEFINE f == Finalized(cfg, SelectedKey(loaded.doc.ssh), Host)
    <2>2. Obeys(cfg) => Obeys(f.config)
      BY FinalizedObeys DEF LaunchOK, Sound
    <2>3. pc' = "ports" => final' = IF Confirmed THEN review.launch ELSE f
      BY <1>12 DEF Finalize, End
    <2> HIDE DEF f
    <2> QED BY <1>1, <2>1, <2>2, <2>3 DEF Obedient, Obeys, Saving
  <1>13. CASE PortsBound
    <2>1. /\ UNCHANGED <<in, disk, loaded, review, cfg, final>>
          /\ pc = "ports" /\ pc' = "autosave"
      BY <1>13 DEF PortsBound
    <2> QED BY <1>1, <2>1 DEF Obedient, Obeys, Saving
  <1>14. CASE AutoSave
    <2>1. UNCHANGED <<in, loaded, review, cfg, final>> /\ pc' \in {"forge", "done"}
      BY <1>14 DEF AutoSave, End
    <2>2. WellFormed(ProjectForAutoSave(in.cli, Project(loaded)))
      BY SavesAreWellFormed DEF LaunchOK, DiskOK, LoadedOK, Sound
    <2>3. ClearedOnDisk'
      BY <1>14, <2>2, StoreClears DEF AutoSave, Obedient, ClearedOnDisk
    <2> QED BY <2>1, <2>3 DEF Obedient, Saving, Obeys, Confirmed, Project
  <1>15. CASE Relaunch
    <2>1. /\ disk' = disk /\ loaded' = NotLoaded /\ review' = NoReview /\ pc' = "flags"
      BY <1>15 DEF Relaunch
    <2>2. Stores \notin Settled(Project(loaded'))
      BY <2>1 DEF NotLoaded, NoDoc, Project, EmptyConfig, Settled
    <2> QED BY <2>1, <2>2 DEF Obedient, ClearedOnDisk, Confirmed, NoReview
  <1>16. CASE ForgeChanges
    <2>1. UNCHANGED <<in, pc, loaded, cfg, review, final>>
      BY <1>16 DEF ForgeChanges
    <2>2. disk'.doc = disk.doc /\ disk'.legacy = disk.legacy
      BY <1>16 DEF ForgeChanges, LaunchOK, DiskOK
    <2> QED BY <2>1, <2>2 DEF Obedient, ClearedOnDisk, Saving, Obeys, Confirmed, Project, Mode
  <1> QED BY <1>2, <1>3, <1>4, <1>5, <1>6, <1>7, <1>8, <1>9, <1>10, <1>11, <1>12, <1>13, <1>14,
             <1>15, <1>16
         DEF LaunchStep, Proceed, Decided

LEMMA AskingInvariant == Spec => [](Asking /\ Obedient)
  <1>1. Init => Asking /\ Obedient
    <2> SUFFICES ASSUME Init PROVE Asking /\ Obedient
      OBVIOUS
    <2>1. PICK l \in Launches : in = l.in /\ disk = l.disk
      BY DEF Init, LaunchInit
    <2>2. ClearedOnDisk
      BY <2>1, LaunchesAssumption DEF WellFormedLaunch, ClearedOnDisk, Cleared, Stores
    <2>3. pc = "flags" /\ review = NoReview /\ Stores \notin Settled(Project(loaded))
      BY DEF Init, LaunchInit, NotLoaded, NoDoc, Project, EmptyConfig, Settled
    <2> QED BY <2>2, <2>3 DEF Asking, Obedient, Reviewed, Confirmed, NoReview
  <1>2. SessionOK /\ Asking /\ Obedient /\ [Next]_vars => (Asking /\ Obedient)'
    <2> SUFFICES ASSUME SessionOK, Asking, Obedient, [Next]_vars PROVE (Asking /\ Obedient)'
      OBVIOUS
    <2>1. CASE LaunchStep
      BY <2>1, StepAsking, StepObedient DEF SessionOK
    <2>2. CASE UNCHANGED launchVars
      BY <2>2 DEF launchVars, Asking, FlagsConflict, Mode, Reviewed, Confirmed, Obedient,
         ClearedOnDisk, Saving, Obeys, Project
    <2> QED BY <2>1, <2>2, Stepping
  <1> QED BY <1>1, <1>2, SessionInvariant, PTL DEF Spec

LEMMA WritesAsked ==
  ASSUME LaunchOK, Asking, Obedient, LaunchStep, disk'.doc # disk.doc
  PROVE  /\ Mode("status") => Mode("configure")
         /\ Mode("dry_run") => Mode("init")
         /\ review.end \notin {"once", "cancelled", "skipped"}
         /\ disk'.doc.grants # disk.doc.grants \/ disk'.doc.onboarded # disk.doc.onboarded
                => review.end = "saved" /\ pc = "confirmed"
         /\ pc \in {"write", "autosave"} => SavesConfig(in.cli)
  <1>1. CASE Migrate
    <2>1. /\ in.modes \cap {"dry_run", "status", "clean"} = {} /\ pc = "migrate"
          /\ disk' = [disk EXCEPT
                    !.legacy = [present |-> FALSE, config |-> EmptyConfig],
                    !.doc.present = TRUE,
                    !.doc.constraints = MergeProject(@, Constraints(disk.legacy.config))]
      BY <1>1 DEF Migrate
    <2>2. disk'.doc.grants = disk.doc.grants /\ disk'.doc.onboarded = disk.doc.onboarded
      BY <2>1 DEF LaunchOK, DiskOK, NoDoc
    <2> QED BY <2>1, <2>2 DEF Asking, Mode
  <1>2. CASE SaveProfile
    <2>1. pc = "confirmed" /\ review.end = "saved"
      BY <1>2 DEF SaveProfile
    <2>2. Mode("configure") \/ in.modes \cap Looks = {}
      BY <2>1 DEF Asking, Reviewed
    <2>3. ~FlagsConflict
      BY <2>1 DEF Asking
    <2> QED BY <2>1, <2>2, <2>3 DEF Looks, FlagsConflict, Mode
  <1>3. ASSUME NEW c, StoreConstraints(c)
        PROVE  disk'.doc.grants = disk.doc.grants /\ disk'.doc.onboarded = disk.doc.onboarded
    <2> DEFINE k == Constraints(c)
    <2>1. disk' = [disk EXCEPT !.doc.present = TRUE, !.doc.constraints = k]
      BY <1>3 DEF StoreConstraints
    <2> HIDE DEF k
    <2> QED BY <2>1 DEF LaunchOK, DiskOK, NoDoc
  <1>4. CASE InitSaves
    <2>1. pc = "write" /\ Mode("init")
      BY <1>4 DEF InitSaves
    <2>2. ~FlagsConflict /\ ~Mode("status") /\ review.end # "cancelled"
      BY <2>1 DEF Asking
    <2>3. ~Mode("configure") /\ SavesConfig(in.cli)
      BY <2>1, <2>2 DEF FlagsConflict
    <2>4. ~Reviewed
      BY <2>1, <2>3 DEF Asking, Looks, Mode
    <2>5. disk'.doc.grants = disk.doc.grants /\ disk'.doc.onboarded = disk.doc.onboarded
      BY <1>3, <1>4 DEF InitSaves
    <2> QED BY <2>1, <2>2, <2>3, <2>4, <2>5 DEF Reviewed
  <1>5. CASE AutoSave
    <2>1. pc = "autosave" /\ SavesItself
      BY <1>5 DEF AutoSave
    <2>2. ~Mode("status") /\ review.end # "cancelled"
      BY <2>1 DEF Asking
    <2>3. Saving /\ review.end \notin {"once", "skipped"}
      BY <2>1, <2>2 DEF SavesItself, Saving, Mode
    <2>4. Obeys(final.config) /\ SavesConfig(final.config)
      BY <2>1, <2>3 DEF Obedient, SavesItself
    <2>5. SavesConfig(in.cli)
      BY <2>4 DEF Obeys, SavesConfig, Stores
    <2>6. disk'.doc.grants = disk.doc.grants /\ disk'.doc.onboarded = disk.doc.onboarded
      BY <1>3, <1>5, <2>1 DEF AutoSave
    <2> QED BY <2>1, <2>2, <2>3, <2>5, <2>6 DEF SavesItself, Mode
  <1>6. CASE SavePreferences \/ ForgeChanges
    <2>1. disk'.doc = disk.doc
      BY <1>6 DEF SavePreferences, ForgeChanges, LaunchOK, DiskOK
    <2> QED BY <2>1
  <1>7. CASE \/ CheckFlags \/ LoadPolicy \/ SkipReview \/ UseProfile \/ UseLayers \/ LaunchReviewed
             \/ SettleCommand \/ ShowStatus \/ Bootstrap \/ Finalize \/ AttachForge
    BY <1>7 DEF CheckFlags, LoadPolicy, SkipReview, UseProfile, UseLayers, LaunchReviewed,
       SettleCommand, ShowStatus, Bootstrap, Finalize, AttachForge
  <1>8. CASE \/ PassthroughMissing \/ PlanRefused \/ Confirm \/ CancelReview \/ PortTaken \/ PortsBound
             \/ Spawn \/ ChildExits \/ Relaunch
    BY <1>8 DEF PassthroughMissing, PlanRefused, Confirm, CancelReview, PortTaken, PortsBound,
       Spawn, ChildExits, Relaunch
  <1> QED BY <1>1, <1>2, <1>4, <1>5, <1>6, <1>7, <1>8 DEF LaunchStep, Proceed, Decided

(***************************************************************************)
(* Saves: whatever the layers, the modes and the review, a document        *)
(* changes only for an invocation that was to change it, grants only for a *)
(* review that was saved, and never against --no-save-config.              *)
(***************************************************************************)
THEOREM WrittenWhenAsked == Spec => WritesOnlyWhenAsked
  <1> DEFINE OnlyWhenAsked ==
        disk'.doc # disk.doc =>
            /\ (Mode("status") => Mode("configure")) /\ (Mode("dry_run") => Mode("init"))
            /\ review.end \notin {"once", "cancelled", "skipped"}
            /\ disk'.doc.grants # disk.doc.grants \/ disk'.doc.onboarded # disk.doc.onboarded
                    => review.end = "saved" /\ pc = "confirmed"
            /\ pc \in {"write", "autosave"} => SavesConfig(in.cli)
  <1>1. SessionOK /\ Asking /\ Obedient /\ [Next]_vars => [OnlyWhenAsked]_vars
    <2> SUFFICES ASSUME SessionOK, Asking, Obedient, [Next]_vars PROVE OnlyWhenAsked
      OBVIOUS
    <2>1. CASE LaunchStep
      BY <2>1, WritesAsked DEF SessionOK
    <2>2. CASE UNCHANGED launchVars
      BY <2>2 DEF launchVars
    <2> QED BY <2>1, <2>2, Stepping
  <1> QED BY <1>1, SessionInvariant, AskingInvariant, PTL DEF Spec, WritesOnlyWhenAsked

(***************************************************************************)
(* Refusals: what each merge does with the fields that say no.             *)
(***************************************************************************)
LEMMA RefusedIsSettled ==
  ASSUME NEW c, WellFormed(c), NEW f \in Refusals(c)
  PROVE  f \in Capabilities \cap Settled(c) /\ ~Grants(c, f)
  BY DEF Refusals, WellFormed, Settled, Grants, Capabilities, GrantedByYes, GrantedByNo,
     GrantedUnlessYes, GrantedUnlocked

LEMMA SameRefusals ==
  ASSUME NEW c, NEW d, d.yes = c.yes, d.no = c.no
  PROVE  Refusals(d) = Refusals(c) /\ Firm(d) = Firm(c)
  BY DEF Refusals, Firm, Lockdown

\* A refusal of the project tightens whatever it is taken into.
LEMMA RefusalTightens ==
  ASSUME NEW base, WellFormed(base), NEW local, WellFormed(local), NEW f \in Refusals(local)
  PROVE  /\ Tightens(base, local, f)
         /\ \A fields : f \in fields => f \in Refusals(Take(base, local, fields))
  <1>1. \A fields :
          /\ WellFormed(Take(base, local, fields))
          /\ Take(base, local, fields).yes = (local.yes \cap fields) \cup (base.yes \ (local.no \cap fields))
          /\ Take(base, local, fields).no = (local.no \cap fields) \cup (base.no \ (local.yes \cap fields))
    BY TakeIsWellFormed
  <1>2. \A fields : f \in fields => f \in Refusals(Take(base, local, fields))
    BY <1>1 DEF Refusals
  <1>3. f \in Refusals(Take(base, local, {f}))
    BY <1>2
  <1>4. ~Grants(Take(base, local, {f}), f)
    BY <1>1, <1>3, RefusedIsSettled
  <1> QED BY <1>2, <1>4, RefusedIsSettled DEF Tightens

\* The two steps of the merge of the flags.
LEMMA MergeSteps ==
  ASSUME NEW base, WellFormed(base), NEW local, WellFormed(local)
  PROVE  LET first == {g \in Capabilities \ {"agent_state"} : Tightens(base, local, g)}
             early == Take(base, local, first)
             last == {g \in {"agent_state"} : Tightens(early, local, g)} \cup {"no_save_config"}
             m == MergeProject(base, local)
         IN  /\ WellFormed(early) /\ WellFormed(m)
             /\ early.yes = (local.yes \cap first) \cup (base.yes \ (local.no \cap first))
             /\ early.no = (local.no \cap first) \cup (base.no \ (local.yes \cap first))
             /\ m.yes = (local.yes \cap last) \cup (early.yes \ (local.no \cap last))
             /\ m.no = (local.no \cap last) \cup (early.no \ (local.yes \cap last))
  <1> DEFINE first == {g \in Capabilities \ {"agent_state"} : Tightens(base, local, g)}
             early == Take(base, local, first)
             late == {g \in {"agent_state"} : Tightens(early, local, g)}
             last == late \cup {"no_save_config"}
             all == Take(early, local, last)
             m == MergeProject(base, local)
  <1>1. /\ WellFormed(early)
        /\ early.yes = (local.yes \cap first) \cup (base.yes \ (local.no \cap first))
        /\ early.no = (local.no \cap first) \cup (base.no \ (local.yes \cap first))
    <2> HIDE DEF first
    <2> QED BY TakeIsWellFormed
  <1>2. /\ all.yes = (local.yes \cap last) \cup (early.yes \ (local.no \cap last))
        /\ all.no = (local.no \cap last) \cup (early.no \ (local.yes \cap last))
    <2> HIDE DEF early, last
    <2> QED BY <1>1, TakeIsWellFormed
  <1>3. all = TightenFlags(base, local)
    BY DEF TightenFlags
  <1> HIDE DEF all
  <1>4. DOMAIN all = Fields
    BY <1>3, FlagsTighten
  <1>5. m.yes = all.yes /\ m.no = all.no
    BY <1>3, <1>4 DEF MergeProject, Fields
  <1>6. WellFormed(m)
    BY ProjectMergeTightens
  <1> HIDE DEF first, late, early, m
  <1> QED BY <1>1, <1>2, <1>5, <1>6 DEF first, late, early, m

\* The merge keeps what the project refuses, over any baseline.
LEMMA MergeTakesRefusals ==
  ASSUME NEW base, WellFormed(base), NEW local, WellFormed(local)
  PROVE  Refusals(local) \subseteq Refusals(MergeProject(base, local))
  <1> SUFFICES ASSUME NEW f \in Refusals(local) PROVE f \in Refusals(MergeProject(base, local))
    OBVIOUS
  <1> DEFINE first == {g \in Capabilities \ {"agent_state"} : Tightens(base, local, g)}
             early == Take(base, local, first)
             last == {g \in {"agent_state"} : Tightens(early, local, g)} \cup {"no_save_config"}
             m == MergeProject(base, local)
  <1>1. /\ WellFormed(early)
        /\ m.yes = (local.yes \cap last) \cup (early.yes \ (local.no \cap last))
        /\ m.no = (local.no \cap last) \cup (early.no \ (local.yes \cap last))
    BY MergeSteps
  <1>2. f \in Capabilities /\ f # "no_save_config"
    BY RefusedIsSettled
       DEF Refusals, Capabilities, GrantedByYes, GrantedByNo, GrantedUnlessYes, GrantedUnlocked
  <1>3. CASE f = "agent_state"
    <2>1. Tightens(early, local, f)
      BY <1>1, RefusalTightens
    <2>2. f \in last
      BY <1>3, <2>1
    <2> HIDE DEF last, m
    <2> QED BY <1>1, <2>2 DEF Refusals, m
  <1>4. CASE f # "agent_state"
    <2>1. f \in first /\ f \notin last
      BY <1>2, <1>4, RefusalTightens
    <2>2. f \in Refusals(early)
      <3> HIDE DEF first
      <3> QED BY <2>1, RefusalTightens
    <2> HIDE DEF first, early, last, m
    <2> QED BY <1>1, <2>1, <2>2 DEF Refusals, m
  <1> QED BY <1>3, <1>4

\* Only lockdown lets the project's agent state be taken over a refusal of it.
LEMMA TakenUnderLockdown ==
  ASSUME NEW c, WellFormed(c), "agent_state" \in c.no, NEW local, WellFormed(local),
         "agent_state" \in local.yes, Tightens(c, local, "agent_state")
  PROVE  Lockdown(c)
  <1> DEFINE f == "agent_state"
             t == Take(c, local, {f})
  <1>1. /\ t.yes = (local.yes \cap {f}) \cup (c.yes \ (local.no \cap {f}))
        /\ t.no = (local.no \cap {f}) \cup (c.no \ (local.yes \cap {f}))
    BY TakeIsWellFormed
  <1>2. ~Grants(c, f)
    BY DEF Grants, WellFormed, GrantedByYes, GrantedByNo, GrantedUnlessYes
  <1>3. ~Grants(t, f)
    BY <1>2 DEF Tightens
  <1> HIDE DEF t
  <1>4. Lockdown(t)
    BY <1>1, <1>3 DEF Grants, WellFormed
  <1> QED BY <1>1, <1>4 DEF Lockdown

\* It keeps the baseline's too; a refusal of agent state under lockdown may only
\* change its form.
LEMMA MergeKeepsFirm ==
  ASSUME NEW base, WellFormed(base), NEW local, WellFormed(local)
  PROVE  Firm(base) \subseteq Firm(MergeProject(base, local))
  <1> DEFINE first == {g \in Capabilities \ {"agent_state"} : Tightens(base, local, g)}
             early == Take(base, local, first)
             last == {g \in {"agent_state"} : Tightens(early, local, g)} \cup {"no_save_config"}
             m == MergeProject(base, local)
  <1>1. /\ WellFormed(early) /\ WellFormed(m)
        /\ early.yes = (local.yes \cap first) \cup (base.yes \ (local.no \cap first))
        /\ early.no = (local.no \cap first) \cup (base.no \ (local.yes \cap first))
        /\ m.yes = (local.yes \cap last) \cup (early.yes \ (local.no \cap last))
        /\ m.no = (local.no \cap last) \cup (early.no \ (local.yes \cap last))
    BY MergeSteps
  <1>2. Refusals(local) \subseteq Refusals(m)
    BY MergeTakesRefusals
  <1>3. Lockdown(base) => Lockdown(m)
    BY ProjectMergeTightens
  <1>4. ASSUME NEW f \in Refusals(base), f # "agent_state" PROVE f \in Refusals(m)
    <2>1. f \in Capabilities /\ f # "no_save_config" /\ f \notin last
      BY <1>4, RefusedIsSettled
         DEF Refusals, Capabilities, GrantedByYes, GrantedByNo, GrantedUnlessYes, GrantedUnlocked
    <2>2. CASE f \notin first
      <3>1. (f \in m.yes <=> f \in base.yes) /\ (f \in m.no <=> f \in base.no)
        <4> HIDE DEF first, last, m, early
        <4> QED BY <1>1, <2>1, <2>2
      <3> HIDE DEF m
      <3> QED BY <3>1 DEF Refusals
    <2>3. CASE f \in first
      <3> DEFINE t == Take(base, local, {f})
      <3>1. f \in Settled(local) /\ ~Grants(t, f)
        BY <2>3, RefusedIsSettled DEF Tightens
      <3>2. /\ t.yes = (local.yes \cap {f}) \cup (base.yes \ (local.no \cap {f}))
            /\ t.no = (local.no \cap {f}) \cup (base.no \ (local.yes \cap {f}))
        BY TakeIsWellFormed
      <3> HIDE DEF t
      <3>3. f \in Refusals(local)
        BY <1>4, <3>1, <3>2 DEF Refusals, Settled, Grants, Lockdown, GrantedByYes, GrantedByNo,
           GrantedUnlessYes, GrantedUnlocked
      <3> QED BY <1>2, <3>3
    <2> QED BY <2>2, <2>3
  <1>5. ASSUME "agent_state" \in Refusals(base) PROVE "agent_state" \in Firm(m)
    <2> DEFINE f == "agent_state"
    <2>1. f \in early.no /\ f \notin early.yes
      <3>1. f \notin first
        OBVIOUS
      <3>2. f \in base.no
        BY <1>5 DEF Refusals, GrantedByYes, GrantedByNo, GrantedUnlessYes, GrantedUnlocked
      <3> HIDE DEF first, early
      <3> QED BY <1>1, <3>1, <3>2 DEF WellFormed
    <2>2. CASE f \in last /\ f \in local.yes
      <3>1. Tightens(early, local, f) /\ Lockdown(early)
        <4> DEFINE e == early
        <4>1. WellFormed(e) /\ f \in e.no /\ Tightens(e, local, f)
          BY <1>1, <2>1, <2>2
        <4> HIDE DEF e
        <4>2. Lockdown(e)
          BY <2>2, <4>1, TakenUnderLockdown
        <4> QED BY <4>1, <4>2 DEF e
      <3>2. "lockdown" \in early.yes
        BY <3>1 DEF Lockdown
      <3>3. "lockdown" \notin last
        OBVIOUS
      <3> HIDE DEF first, early, last, m
      <3>4. Lockdown(m)
        BY <1>1, <3>2, <3>3 DEF Lockdown
      <3> QED BY <3>4 DEF Firm
    <2>3. CASE ~(f \in last /\ f \in local.yes)
      <3>1. f \in m.no
        <4> HIDE DEF first, early, last, m
        <4> QED BY <1>1, <2>1, <2>3
      <3> HIDE DEF m
      <3> QED BY <3>1 DEF Firm, Refusals, GrantedUnlocked, Cleared
    <2> QED BY <2>2, <2>3
  <1> HIDE DEF m
  <1> QED BY <1>3, <1>4, <1>5 DEF Firm, m

\* What a stored document keeps of a configuration.
LEMMA ConstraintsKeepRefusals ==
  ASSUME NEW c, WellFormed(c)
  PROVE  Refusals(c) \subseteq Refusals(Constraints(c)) /\ Firm(c) \subseteq Firm(Constraints(c))
  <1> DEFINE m == MergeProject(EmptyConfig, c)
             k == Constraints(c)
  <1>1. DOMAIN m = Fields /\ Refusals(c) \subseteq Refusals(m)
    BY EmptyIsWellFormed, ProjectMergeTightens, FieldsOfConfig, MergeTakesRefusals DEF WellFormed
  <1> HIDE DEF m
  <1>2. k.yes = m.yes \ Cleared /\ k.no = m.no \ Cleared
    BY <1>1 DEF Constraints, m, Fields
  <1>3. Lockdown(c) => Lockdown(k)
    BY ConstraintsAreWellFormed
  <1> HIDE DEF k
  <1>4. Refusals(c) \subseteq Refusals(k)
    BY <1>1, <1>2 DEF Refusals
  <1> QED BY <1>3, <1>4 DEF Firm, k

\* What an invocation saves: its own refusals, and of the project's those that
\* it does not answer.
LEMMA SavesKeepRefusals ==
  ASSUME NEW cli, WellFormed(cli), NEW project, WellFormed(project),
         NEW c \in {ProjectForInit(cli, project), ProjectForAutoSave(cli, project)}
  PROVE  /\ Refusals(cli) \cup (Refusals(project) \ Settled(cli)) \subseteq Refusals(c)
         /\ Settled(cli) = {} => Firm(c) = Firm(project)
  <1> DEFINE m == MergeCli(cli, project)
             n == [m EXCEPT !.command = project.command]
  <1>1. /\ WellFormed(m)
        /\ m.yes = cli.yes \cup (project.yes \ cli.no) /\ m.no = cli.no \cup (project.no \ cli.yes)
    BY MergeCliIsWellFormed
  <1> HIDE DEF m
  <1>2. DOMAIN m = Fields /\ DOMAIN n = Fields /\ n.yes = m.yes /\ n.no = m.no
    BY <1>1, FieldsOfConfig DEF WellFormed, Fields
  <1> HIDE DEF n
  <1>3. c \in {DropLaunchOnly(m), DropLaunchOnly(n)}
    BY DEF ProjectForInit, ProjectForAutoSave, m, n
  <1>4. c.yes = m.yes /\ c.no = m.no
    BY <1>2, <1>3 DEF DropLaunchOnly, Fields
  <1>5. Refusals(cli) \cup (Refusals(project) \ Settled(cli)) \subseteq Refusals(c)
    BY <1>1, <1>4 DEF Refusals, Settled
  <1>6. ASSUME Settled(cli) = {} PROVE c.yes = project.yes /\ c.no = project.no
    BY <1>1, <1>4, <1>6 DEF Settled
  <1> QED BY <1>5, <1>6, SameRefusals

(***************************************************************************)
(* Configurations that deny what is refused.                               *)
(***************************************************************************)
LEMMA NothingDenied ==
  ASSUME NEW c PROVE Denies(c, {})
  BY DEF Denies

LEMMA SameDenies ==
  ASSUME NEW c, NEW H, Denies(c, H), NEW d, d.yes = c.yes, d.no = c.no, d.browser = c.browser
  PROVE  Denies(d, H)
  BY DEF Denies, Granted, Grants, Lockdown, BrowserProfile

LEMMA FewerDenied ==
  ASSUME NEW c, NEW H, Denies(c, H), NEW J \in SUBSET H
  PROVE  Denies(c, J)
  BY DEF Denies

\* The merge with a project that refuses them.
LEMMA MergeDenies ==
  ASSUME NEW base, WellFormed(base), NEW local, WellFormed(local),
         NEW H, H \subseteq Firm(local)
  PROVE  Denies(MergeProject(base, local), H)
  <1> DEFINE m == MergeProject(base, local)
  <1>1. /\ WellFormed(m) /\ (Lockdown(local) => Lockdown(m))
        /\ Refusals(local) \subseteq Refusals(m)
    BY ProjectMergeTightens, MergeTakesRefusals
  <1> HIDE DEF m
  <1>2. ASSUME NEW f \in H PROVE ~Grants(m, f)
    <2>1. CASE f \in Refusals(local)
      BY <1>1, <2>1, RefusedIsSettled
    <2>2. CASE f = "agent_state" /\ Lockdown(local)
      BY <1>1, <2>2 DEF Grants, GrantedByYes, GrantedByNo, GrantedUnlessYes
    <2> QED BY <1>2, <2>1, <2>2 DEF Firm
  <1> QED BY <1>2 DEF Denies, Granted, m

\* A browser that lifts lockdown gives up agent state, and what else it opens
\* was asked for.
LEMMA BrowserDenies ==
  ASSUME NEW c, WellFormed(c), NEW H, Denies(c, H), NEW d, OnlyCommand(d, c), NEW trustedCommand
  PROVE  Denies(ApplyBrowser(d, trustedCommand), H)
  <1> DEFINE e == ApplyBrowser(d, trustedCommand)
  <1>1. /\ WellFormed(d) /\ d.yes = c.yes /\ d.browser = c.browser
        /\ \A f : Grants(d, f) <=> Grants(c, f)
    BY OnlyCommandChanges DEF Fields
  <1>2. /\ \A f : Grants(e, f) => Grants(d, f) \/ Lifts(d, trustedCommand, f)
        /\ BrowserProfile(d) => BrowserProfile(e)
        /\ \A f : Lifts(d, trustedCommand, f) => BrowserProfile(e)
    BY <1>1, BrowserProfileGrants
  <1> HIDE DEF e
  <1>3. BrowserProfile(c) => BrowserProfile(e)
    BY <1>1, <1>2 DEF BrowserProfile
  <1>4. ASSUME NEW f \in H, Grants(e, f) PROVE f = "lockdown" /\ BrowserProfile(e)
    <2>1. CASE Grants(d, f)
      <3>1. f \in Granted(c) \/ f \notin Capabilities
        BY <1>1, <2>1 DEF Granted
      <3>2. f \in Capabilities
        BY <2>1 DEF Grants, Capabilities, GrantedUnlocked
      <3> QED BY <1>3, <3>1, <3>2 DEF Denies
    <2>2. CASE Lifts(d, trustedCommand, f)
      BY <1>1, <1>2, <2>2 DEF Lifts, Denies
    <2> QED BY <1>2, <1>4, <2>1, <2>2
  <1> QED BY <1>1, <1>2, <1>4 DEF Denies, Granted, e

\* The layers of a launch whose project refuses H.
LEMMA LayersDeny ==
  ASSUME NEW base, WellFormed(base), NEW l, WellFormed(Project(l)),
         NEW H, H \subseteq Firm(Project(l)), H # {} => ~l.trusted
  PROVE  Denies(WithProject(base, l), H)
  <1>1. CASE H = {}
    BY <1>1, NothingDenied
  <1>2. CASE H # {}
    BY <1>2, MergeDenies DEF WithProject
  <1> QED BY <1>1, <1>2

LEMMA EffectiveDenies ==
  ASSUME NEW global, WellFormed(global), NEW grants, WellFormed(grants),
         NEW cli, WellFormed(cli), NEW l, WellFormed(Project(l)),
         NEW H, H \subseteq Firm(Project(l)), H # {} => ~l.trusted
  PROVE  Denies(BuildEffective(global, grants, cli, l), H)
  <1> DEFINE base == MergeCli(cli, MergeTrusted(global, grants))
             merged == WithProject(base, l)
             d == [merged EXCEPT !.command = Override(cli.command, @, NoCommand)]
  <1>1. WellFormed(base)
    BY TrustedIsWellFormed
  <1> HIDE DEF base
  <1>2. WellFormed(merged) /\ Denies(merged, H)
    BY <1>1, LayersDeny, LayerIsWellFormed, ProjectMergeTightens DEF WithProject, MergeTrusted
  <1> HIDE DEF merged
  <1>3. OnlyCommand(d, merged)
    BY <1>2, CommandChanges
  <1> HIDE DEF d
  <1>4. Denies(ApplyBrowser(d, TRUE), H)
    BY <1>2, <1>3, BrowserDenies
  <1> QED BY <1>4 DEF BuildEffective, d, merged, base

LEMMA NonInteractiveDenies ==
  ASSUME NEW l, LayersShape(l), WellFormed(l.global), WellFormed(Project(l)),
         NEW cli, WellFormed(cli), NEW H, H \subseteq Firm(Project(l))
  PROVE  Denies(NonInteractive(l, cli), H)
  <1> DEFINE restrictions == Restrictions(l.global)
             api == "network" \notin restrictions.no /\ ~Lockdown(restrictions)
             sel == IF api THEN {"api_access"} ELSE {}
             safe == SelectionGrants(sel, {}, l.harness, FALSE)
             m == [l EXCEPT !.trusted = FALSE]
             e == BuildEffective(restrictions, safe, cli, m)
  <1>1. WellFormed(restrictions)
    BY Restricted
  <1>2. WellFormed(safe)
    BY SelectionIsWellFormed
  <1>3. WellFormed(Project(m)) /\ Project(m) = Project(l) /\ ~m.trusted
    BY DEF LayersShape, Project
  <1> HIDE DEF restrictions, safe, m
  <1>4. Denies(e, H)
    BY <1>1, <1>2, <1>3, EffectiveDenies
  <1>5. WellFormed(e)
    BY <1>1, <1>2, <1>3, EffectiveKeepsTrusted
  <1> HIDE DEF e
  <1>6. Denies(SecureDefaults(e, cli), H)
    <2> DEFINE s == SecureDefaults(e, cli)
    <2>1. /\ \A f \in Fields \ {"yes", "no"} : s[f] = e[f]
          /\ \A f : Grants(s, f) => Grants(e, f)
      BY <1>5, SecureDefaultsGrantNoMore
    <2> HIDE DEF s
    <2>2. s.browser = e.browser
      BY <2>1 DEF Fields
    <2> QED BY <1>4, <2>1, <2>2 DEF Denies, Granted, BrowserProfile, s
  <1> QED BY <1>6 DEF NonInteractive, Restrictions, restrictions, safe, m, e

LEMMA FinalizedDenies ==
  ASSUME NEW c, WellFormed(c), NEW H, Denies(c, H), NEW ssh, NEW host
  PROVE  Denies(Finalized(c, ssh, host).config, H)
  <1> DEFINE f == Finalized(c, ssh, host).config
  <1>1. \A g \in Fields \ {"hosts", "env", "ro"} : f[g] = c[g]
    BY FinalizedAdds
  <1> HIDE DEF f
  <1>2. f.yes = c.yes /\ f.no = c.no /\ f.browser = c.browser
    BY <1>1 DEF Fields
  <1> QED BY <1>2, SameDenies DEF f

LEMMA ApprovedDenies ==
  ASSUME NEW c, WellFormed(c), NEW H, Denies(c, H)
  PROVE  Denies(ApplyApproved(c), H)
  <1> DEFINE d == ApplyApproved(c)
  <1>1. \A f \in Fields \ {"env", "secrets"} : d[f] = c[f]
    BY ApprovedAdds
  <1> HIDE DEF d
  <1>2. d.yes = c.yes /\ d.no = c.no /\ d.browser = c.browser
    BY <1>1 DEF Fields
  <1> QED BY <1>2, SameDenies DEF d

(***************************************************************************)
(* What is refused stays stored, and every configuration denies it.        *)
(***************************************************************************)
LEMMA MigrateRooted ==
  ASSUME LaunchOK, Rooted, Migrate
  PROVE  Rooted'
  <1> DEFINE k == Constraints(disk.legacy.config)
             merged == MergeProject(disk.doc.constraints, k)
  <1>1. UNCHANGED <<in, loaded, count>> /\ pc = "migrate" /\ pc' = "load"
    BY DEF Migrate
  <1>2. CASE UNCHANGED <<disk, kept>>
    BY <1>1, <1>2 DEF Rooted
  <1>3. CASE ~UNCHANGED <<disk, kept>>
    <2>1. /\ in.available
          /\ disk' = [disk EXCEPT
                    !.legacy = [present |-> FALSE, config |-> EmptyConfig],
                    !.doc.present = TRUE, !.doc.constraints = merged]
          /\ kept' = kept \cup Refusals(disk.legacy.config)
      BY <1>3 DEF Migrate
    <2>2. WellFormed(disk.legacy.config) /\ WellFormed(disk.doc.constraints)
      BY DEF LaunchOK, DiskOK, Sound
    <2>3. /\ WellFormed(k)
          /\ Refusals(disk.legacy.config) \subseteq Refusals(k)
      BY <2>2, ConstraintsAreWellFormed, ConstraintsKeepRefusals
    <2> HIDE DEF k
    <2>4. /\ Refusals(k) \subseteq Refusals(merged)
          /\ Firm(disk.doc.constraints) \subseteq Firm(merged)
      BY <2>2, <2>3, MergeTakesRefusals, MergeKeepsFirm
    <2> HIDE DEF merged
    <2>5. disk'.doc.constraints = merged /\ disk'.doc.present
      BY <2>1 DEF LaunchOK, DiskOK, NoDoc
    <2>6. kept' \subseteq Firm(merged)
      BY <2>1, <2>3, <2>4 DEF Rooted, Firm
    <2>7. count = 1 => kept' \subseteq Refusals(merged)
      BY <1>1, <2>1, <2>3, <2>4 DEF Rooted
    <2> QED BY <1>1, <2>1, <2>5, <2>6, <2>7 DEF Rooted
  <1> QED BY <1>2, <1>3

LEMMA LoadRooted ==
  ASSUME LaunchOK, Rooted, LoadPolicy
  PROVE  Rooted'
  <1>1. UNCHANGED <<in, disk, kept, count>> /\ pc = "load" /\ pc' \in {"review", "done"}
    BY DEF LoadPolicy, End
  <1>2. ASSUME pc' = "review", Refused # {}, ~Mode("clean")
        PROVE  ~loaded'.trusted /\ Project(loaded') = disk.doc.constraints
    <2>1. \E h : loaded' = [Layers EXCEPT !.harness = h]
      BY <1>2 DEF LoadPolicy, End
    <2>2. loaded'.doc = Stored /\ loaded'.trusted = (~Stored.present /\ disk.trusts)
      BY <2>1 DEF Layers
    <2>3. Stored = disk.doc /\ disk.doc.present
      BY <1>2 DEF Rooted, Refused, Stored
    <2> QED BY <2>2, <2>3 DEF Project
  <1> QED BY <1>1, <1>2 DEF Rooted, Refused, Mode

\* What an invocation saves refuses what it refused and what was refused before.
LEMMA StoreRooted ==
  ASSUME LaunchOK, Rooted, pc \in {"write", "autosave"}, in.available,
         NEW c \in {ProjectForInit(in.cli, Project(loaded)), ProjectForAutoSave(in.cli, Project(loaded))},
         StoreConstraints(c), UNCHANGED <<in, loaded, count>>, pc' \in {"forge", "done"}
  PROVE  Rooted'
  <1> DEFINE k == Constraints(c)
  <1>1. WellFormed(in.cli) /\ WellFormed(Project(loaded))
    BY DEF LaunchOK, DiskOK, LoadedOK, Sound
  <1>2. /\ WellFormed(c)
        /\ Refusals(in.cli) \cup (Refusals(Project(loaded)) \ Settled(in.cli)) \subseteq Refusals(c)
        /\ Settled(in.cli) = {} => Firm(c) = Firm(Project(loaded))
    BY <1>1, SavesAreWellFormed, SavesKeepRefusals
  <1>3. Refusals(c) \subseteq Refusals(k) /\ Firm(c) \subseteq Firm(k)
    BY <1>2, ConstraintsKeepRefusals
  <1> HIDE DEF k
  <1>4. disk' = [disk EXCEPT !.doc.present = TRUE, !.doc.constraints = k]
    BY DEF StoreConstraints, k
  <1>5. disk'.doc.constraints = k /\ disk'.doc.present
    BY <1>4 DEF LaunchOK, DiskOK, NoDoc
  <1>6. kept' = Refusals(in.cli) \cup (IF Mode("clean") THEN {} ELSE Refused)
    BY DEF StoreConstraints, Refused
  <1>7. ~Mode("clean") => Refused \subseteq Firm(k)
    <2>1. CASE count = 1
      BY <1>2, <1>3, <2>1 DEF Rooted, Refused, Firm
    <2>2. CASE count # 1
      <3>1. Settled(in.cli) = {}
        BY <2>2 DEF Rooted, LaunchOK, ControlOK
      <3> QED BY <1>2, <1>3, <3>1 DEF Rooted
    <2> QED BY <2>1, <2>2
  <1>8. kept' \subseteq Firm(k)
    BY <1>2, <1>3, <1>6, <1>7 DEF Firm
  <1>9. Refused' \subseteq Refused
    BY <1>6 DEF Refused, Refusals, Settled
  <1> QED BY <1>5, <1>8, <1>9 DEF Rooted, Mode, Refused

LEMMA StepRooted ==
  ASSUME LaunchOK, Rooted, LaunchStep
  PROVE  Rooted'
  <1>1. ASSUME UNCHANGED <<in, loaded, kept, count>>,
               pc' \notin {"flags", "migrate", "load"},
               pc \notin {"flags", "migrate", "load", "done"} \/ pc' = "done",
               disk'.doc.constraints = disk.doc.constraints,
               disk.doc.present => disk'.doc.present
        PROVE  Rooted'
    BY <1>1 DEF Rooted, Refused, Mode, Project
  <1>2. CASE Migrate \/ LoadPolicy
    BY <1>2, MigrateRooted, LoadRooted
  <1>3. CASE CheckFlags
    BY <1>3 DEF CheckFlags, End, Rooted, Refused, Mode, Project
  <1>4. CASE \/ SkipReview \/ UseProfile \/ UseLayers \/ LaunchReviewed \/ SettleCommand
             \/ ShowStatus \/ Bootstrap \/ Finalize \/ AttachForge
    <2>1. /\ UNCHANGED <<in, disk, loaded, kept, count>>
          /\ pc \notin {"flags", "migrate", "load", "done"}
          /\ pc' \notin {"flags", "migrate", "load"}
      BY <1>4 DEF SkipReview, UseProfile, UseLayers, LaunchReviewed, SettleCommand, ShowStatus,
         Bootstrap, Finalize, AttachForge, End
    <2> QED BY <1>1, <2>1
  <1>5. CASE \/ PassthroughMissing \/ PlanRefused \/ Confirm \/ CancelReview \/ PortTaken
             \/ PortsBound \/ Spawn \/ ChildExits
    <2>1. /\ UNCHANGED <<in, disk, loaded, kept, count>>
          /\ pc \notin {"flags", "migrate", "load", "done"}
          /\ pc' \notin {"flags", "migrate", "load"}
      BY <1>5 DEF PassthroughMissing, PlanRefused, Confirm, CancelReview, PortTaken, PortsBound,
         Spawn, ChildExits, End
    <2> QED BY <1>1, <2>1
  <1>6. CASE SaveProfile
    <2>1. /\ UNCHANGED <<in, loaded, kept, count>> /\ pc = "confirmed"
          /\ pc' \in {"reviewed", "done"}
      BY <1>6 DEF SaveProfile, End
    <2>2. disk'.doc.constraints = disk.doc.constraints /\ (disk.doc.present => disk'.doc.present)
      <3>1. CASE disk' = disk
        BY <3>1
      <3>2. CASE disk' = [disk EXCEPT
                    !.doc = [present |-> TRUE, onboarded |-> TRUE, grants |-> review.grants,
                             constraints |-> @.constraints, approved |-> review.approved,
                             ssh |-> review.ssh]]
        BY <3>2 DEF LaunchOK, DiskOK
      <3> QED BY <1>6, <3>1, <3>2 DEF SaveProfile
    <2> QED BY <1>1, <2>1, <2>2
  <1>7. CASE SavePreferences \/ ForgeChanges
    <2>1. /\ UNCHANGED <<in, loaded, kept, count>> /\ disk'.doc = disk.doc
          /\ pc \notin {"flags", "migrate", "load", "done"}
          /\ pc' \notin {"flags", "migrate", "load"}
      BY <1>7 DEF SavePreferences, ForgeChanges, LaunchOK, DiskOK
    <2> QED BY <1>1, <2>1
  <1>8. CASE InitSaves
    <2>1. /\ UNCHANGED <<in, loaded, count>> /\ pc = "write" /\ pc' = "done"
          /\ \/ UNCHANGED <<disk, kept>>
             \/ in.available /\ StoreConstraints(ProjectForInit(in.cli, Project(loaded)))
      BY <1>8 DEF InitSaves, End
    <2> QED BY <1>1, <2>1, StoreRooted
  <1>9. CASE AutoSave
    <2>1. /\ UNCHANGED <<in, loaded, count>> /\ pc = "autosave" /\ pc' \in {"forge", "done"}
          /\ \/ UNCHANGED <<disk, kept>>
             \/ in.available /\ StoreConstraints(ProjectForAutoSave(in.cli, Project(loaded)))
      BY <1>9 DEF AutoSave, SavesItself, End
    <2> QED BY <1>1, <2>1, StoreRooted
  <1>10. CASE Relaunch
    <2>1. /\ UNCHANGED <<disk, kept>> /\ pc' = "flags" /\ count' = count + 1
          /\ in' = [in EXCEPT !.modes = {}, !.cli = [EmptyConfig EXCEPT !.command = in.cli.command]]
      BY <1>10 DEF Relaunch
    <2>2. in'.available = in.available /\ in'.modes = {} /\ Settled(in'.cli) = {}
      BY <2>1 DEF LaunchOK, DiskOK, EmptyConfig, Settled
    <2>3. count' # 1
      BY <2>1 DEF LaunchOK, ControlOK
    <2> QED BY <2>1, <2>2, <2>3 DEF Rooted
  <1> QED BY <1>2, <1>3, <1>4, <1>5, <1>6, <1>7, <1>8, <1>9, <1>10
      DEF LaunchStep, Proceed, Decided

LEMMA LoadDenied ==
  ASSUME LaunchOK, Asking, Rooted, Denied, LoadPolicy
  PROVE  Denied'
  <1>1. /\ UNCHANGED <<in, review, kept>> /\ pc = "load" /\ pc' \in {"review", "done"}
        /\ review.end = "none"
    BY DEF LoadPolicy, End, Asking
  <1>2. ASSUME pc' = "review", ~Mode("clean") PROVE Denies(cfg', Refused)
    <2> DEFINE base == Baseline(Layers)
    <2>1. (\E h : loaded' = [Layers EXCEPT !.harness = h]) /\ cfg' = WithProject(base, Layers)
      BY <1>2 DEF LoadPolicy, End
    <2>2. /\ Refused # {} => ~loaded'.trusted
          /\ Refused \subseteq Firm(Project(loaded'))
      BY <1>1, <1>2, LoadRooted DEF Rooted, Refused, Mode
    <2>3. Project(Layers) = Project(loaded') /\ Layers.trusted = loaded'.trusted
      BY <2>1 DEF Layers, Project
    <2>4. WellFormed(base) /\ WellFormed(Project(Layers))
      BY StoredOK, BaselineOK DEF LaunchOK, DiskOK, Sound
    <2> HIDE DEF base
    <2> QED BY <2>1, <2>2, <2>3, <2>4, LayersDeny
  <1> QED BY <1>1, <1>2 DEF Denied, Refused, Mode, Confirmed

LEMMA ConfirmDenied ==
  ASSUME LaunchOK, Rooted, Denied, Confirm
  PROVE  Denied'
  <1>1. PICK sel \in Selections, approved \in Approvals, end \in {"saved", "once"} :
            LET grants == SelectionGrants(sel, approved, loaded.harness, TRUE)
                ssh == "selected_key" \in sel
                effective == BuildEffective(loaded.global, grants, in.cli, loaded)
                forge == IF in.terminal = "plain" THEN Unreviewed
                         ELSE IF Mode("clean") \/ Lockdown(effective) THEN NoForge
                         ELSE disk.forge
            IN  review' = [end |-> end, grants |-> grants, approved |-> approved, ssh |-> ssh,
                           launch |-> [Finalized(effective, SelectedKey(ssh), Host)
                                        EXCEPT !.reviewed = forge]]
    BY DEF Confirm
  <1> DEFINE grants == Chosen(sel, approved, loaded.harness)
             effective == BuildEffective(loaded.global, grants, in.cli, loaded)
             f == Finalized(effective, SelectedKey("selected_key" \in sel), Host)
  <1>2. review'.launch.config = f.config
    BY <1>1 DEF Chosen, Finalized
  <1>3. Sound(grants)
    BY SoundSelection
  <1> HIDE DEF grants
  <1>4. pc = "review" /\ pc' = "confirmed" /\ UNCHANGED <<in, loaded, cfg, kept>>
    BY DEF Confirm
  <1>5. ~Mode("clean") => Denies(effective, Refused)
    BY <1>3, <1>4, EffectiveDenies DEF LaunchOK, LoadedOK, DiskOK, Sound, Rooted
  <1>6. WellFormed(effective)
    BY <1>3, SoundEffective DEF LaunchOK, LoadedOK, DiskOK, Sound
  <1> HIDE DEF effective
  <1>7. ~Mode("clean") => Denies(f.config, Refused)
    BY <1>5, <1>6, FinalizedDenies
  <1> HIDE DEF f
  <1> QED BY <1>2, <1>4, <1>7 DEF Denied, Refused, Mode

LEMMA ProfileDenied ==
  ASSUME LaunchOK, Rooted, Denied, UseProfile
  PROVE  Denied'
  <1> DEFINE e == BuildEffective(loaded.global, loaded.doc.grants, in.cli, loaded)
  <1>1. /\ UNCHANGED <<in, loaded, review, kept>> /\ pc = "review" /\ pc' \in {"settle", "done"}
        /\ pc' = "settle" => cfg' = ApplyApproved(e)
    BY DEF UseProfile, End
  <1>2. WellFormed(e)
    BY SoundEffective DEF LaunchOK, LoadedOK, DiskOK, Sound
  <1>3. ~Mode("clean") => Denies(e, Refused)
    BY <1>1, EffectiveDenies DEF LaunchOK, LoadedOK, DiskOK, Sound, Rooted
  <1> HIDE DEF e
  <1>4. ~Mode("clean") => Denies(ApplyApproved(e), Refused)
    BY <1>2, <1>3, ApprovedDenies
  <1> QED BY <1>1, <1>4 DEF Denied, Refused, Mode, Confirmed

LEMMA SkipDenied ==
  ASSUME LaunchOK, Rooted, Denied, SkipReview
  PROVE  Denied'
  <1>1. /\ UNCHANGED <<in, loaded, kept>> /\ pc = "review" /\ pc' \in {"settle", "done"}
        /\ review'.end = "skipped" /\ (pc' = "settle" => cfg' = NonInteractive(loaded, in.cli))
    BY DEF SkipReview, End, LaunchOK, ReviewOK, NoReview
  <1>2. ~Mode("clean") => Denies(NonInteractive(loaded, in.cli), Refused)
    BY <1>1, NonInteractiveDenies DEF LaunchOK, LoadedOK, DiskOK, Sound, Rooted
  <1> QED BY <1>1, <1>2 DEF Denied, Refused, Mode, Confirmed

LEMMA SettleDenied ==
  ASSUME LaunchOK, Denied, SettleCommand
  PROVE  Denied'
  <1> DEFINE command == IF CommandFromProject THEN Project(loaded).command
                        ELSE Override(in.cli.command, cfg.command, NoCommand)
             named == [cfg EXCEPT !.command = command]
  <1>1. OnlyCommand(named, cfg)
    <2> HIDE DEF command
    <2> QED BY CommandChanges DEF LaunchOK, Sound
  <1>2. cfg' = ApplyBrowser(named, ~CommandFromProject \/ loaded.trusted)
    BY DEF SettleCommand
  <1> HIDE DEF named
  <1>3. Denies(cfg, Refused) => Denies(cfg', Refused)
    BY <1>1, <1>2, BrowserDenies DEF LaunchOK, Sound
  <1>4. UNCHANGED <<in, review, kept>> /\ pc = "settle" /\ pc' \in {"modes", "done"}
    BY DEF SettleCommand, End
  <1> QED BY <1>3, <1>4 DEF Denied, Refused, Mode, Confirmed

LEMMA StepDenied ==
  ASSUME LaunchOK, Asking, Rooted, Denied, LaunchStep
  PROVE  Denied'
  <1>1. ASSUME UNCHANGED <<in, review>>, Refused' \subseteq Refused,
               pc' \in {"review", "confirmed", "reviewed", "settle", "modes", "write"} /\ ~Mode("clean")
                    => Denies(cfg', Refused),
               pc' \in {"ports", "autosave", "forge", "spawn", "running"} /\ ~Mode("clean")
                    => Denies(final.config', Refused)
        PROVE  Denied'
    BY <1>1, FewerDenied DEF Denied, Mode, Confirmed
  <1>2. CASE LoadPolicy \/ Confirm \/ UseProfile \/ SkipReview \/ SettleCommand
    BY <1>2, LoadDenied, ConfirmDenied, ProfileDenied, SkipDenied, SettleDenied
  <1>3. CASE CheckFlags \/ ShowStatus \/ Bootstrap \/ PortTaken
    <2>1. UNCHANGED <<in, review, kept>> /\ pc' \in {"migrate", "done"}
      BY <1>3 DEF CheckFlags, ShowStatus, Bootstrap, PortTaken, End
    <2> QED BY <1>1, <2>1 DEF Refused
  <1>4. CASE Migrate
    <2>1. pc = "migrate" /\ pc' = "load" /\ UNCHANGED <<in, review>>
      BY <1>4 DEF Migrate
    <2>2. ~Confirmed'
      BY <2>1 DEF Asking, Confirmed
    <2> QED BY <2>1, <2>2 DEF Denied
  <1>5. CASE UseLayers
    <2>1. UNCHANGED <<in, review, cfg, kept>> /\ pc = "review" /\ pc' = "settle"
      BY <1>5 DEF UseLayers
    <2> QED BY <1>1, <2>1 DEF Denied, Refused
  <1>6. CASE LaunchReviewed
    <2>1. /\ UNCHANGED <<in, review, kept>> /\ pc' \in {"settle", "done"}
          /\ pc' = "settle" => cfg' = review.launch.config
      BY <1>6 DEF LaunchReviewed, End
    <2>2. Confirmed
      BY <1>6 DEF LaunchReviewed, Asking
    <2> QED BY <1>1, <2>1, <2>2 DEF Denied, Refused
  <1>7. CASE SaveProfile
    <2>1. /\ UNCHANGED <<in, review, cfg, kept>> /\ pc = "confirmed" /\ pc' \in {"reviewed", "done"}
      BY <1>7 DEF SaveProfile, End
    <2> QED BY <1>1, <2>1 DEF Denied, Refused
  <1>8. CASE CancelReview
    <2>1. UNCHANGED in /\ pc' = "done" /\ review'.end = "cancelled"
      BY <1>8 DEF CancelReview, End, LaunchOK, ReviewOK, NoReview
    <2> QED BY <2>1 DEF Denied, Confirmed
  <1>9. CASE SavePreferences
    <2>1. UNCHANGED <<in, review, cfg, kept>> /\ pc = "modes" /\ pc' = "write"
      BY <1>9 DEF SavePreferences
    <2> QED BY <1>1, <2>1 DEF Denied, Refused
  <1>10. ASSUME NEW c, StoreConstraints(c), in' = in
         PROVE  Refused' \subseteq Refused
    BY <1>10 DEF StoreConstraints, Refused, Refusals, Settled
  <1>11. CASE InitSaves
    <2>1. UNCHANGED <<in, review>> /\ pc' = "done" /\ Refused' \subseteq Refused
      BY <1>10, <1>11 DEF InitSaves, End, Refused
    <2> QED BY <1>1, <2>1
  <1>12. CASE AutoSave
    <2>1. /\ UNCHANGED <<in, review, final>> /\ pc = "autosave" /\ pc' \in {"forge", "done"}
          /\ Refused' \subseteq Refused
      BY <1>10, <1>12 DEF AutoSave, End, Refused
    <2> QED BY <1>1, <2>1 DEF Denied
  <1>13. CASE Finalize
    <2> DEFINE f == Finalized(cfg, SelectedKey(loaded.doc.ssh), Host)
    <2>1. UNCHANGED <<in, review, kept>> /\ pc = "write" /\ pc' \in {"ports", "done"}
      BY <1>13 DEF Finalize, End
    <2>2. Denies(cfg, Refused) => Denies(f.config, Refused)
      BY FinalizedDenies DEF LaunchOK, Sound
    <2>3. pc' = "ports" => final' = IF Confirmed THEN review.launch ELSE f
      BY <1>13 DEF Finalize, End
    <2> HIDE DEF f
    <2>4. pc' = "ports" /\ ~Mode("clean") => Denies(final'.config, Refused)
      BY <2>1, <2>2, <2>3 DEF Denied
    <2> QED BY <1>1, <2>1, <2>4 DEF Refused
  <1>14. CASE PortsBound \/ Spawn \/ PassthroughMissing \/ PlanRefused \/ ChildExits
    <2>1. /\ UNCHANGED <<in, review, final, kept>> /\ pc \in {"ports", "spawn", "running"}
          /\ pc' \in {"autosave", "running", "done"}
      BY <1>14 DEF PortsBound, Spawn, PassthroughMissing, PlanRefused, ChildExits, End
    <2> QED BY <1>1, <2>1 DEF Denied, Refused
  <1>15. CASE AttachForge
    <2>1. /\ UNCHANGED <<in, review, kept>> /\ pc = "forge" /\ pc' \in {"spawn", "done"}
          /\ final'.config = final.config
      BY <1>15 DEF AttachForge, End, LaunchOK, FinalOK, NoLaunch
    <2> QED BY <1>1, <2>1 DEF Denied, Refused
  <1>16. CASE ForgeChanges
    <2>1. UNCHANGED <<in, pc, cfg, review, final, kept>>
      BY <1>16 DEF ForgeChanges
    <2> QED BY <1>1, <2>1 DEF Denied, Refused
  <1>17. CASE Relaunch
    <2>1. pc' = "flags" /\ review' = NoReview
      BY <1>17 DEF Relaunch
    <2> QED BY <2>1 DEF Denied, Confirmed, NoReview
  <1> QED BY <1>2, <1>3, <1>4, <1>5, <1>6, <1>7, <1>8, <1>9, <1>11, <1>12, <1>13, <1>14, <1>15,
             <1>16, <1>17
      DEF LaunchStep, Proceed, Decided

LEMMA DeniedInvariant == Spec => [](Rooted /\ Denied)
  <1>1. Init => Rooted /\ Denied
    BY DEF Init, LaunchInit, Rooted, Denied, Confirmed, NoReview
  <1>2. SessionOK /\ Asking /\ Rooted /\ Denied /\ [Next]_vars => (Rooted /\ Denied)'
    <2> SUFFICES ASSUME SessionOK, Asking, Rooted, Denied, [Next]_vars PROVE (Rooted /\ Denied)'
      OBVIOUS
    <2>1. CASE LaunchStep
      BY <2>1, StepRooted, StepDenied DEF SessionOK
    <2>2. CASE UNCHANGED launchVars
      BY <2>2 DEF launchVars, Rooted, Denied, Refused, Mode, Project, Confirmed
    <2> QED BY <2>1, <2>2, Stepping
  <1> QED BY <1>1, <1>2, SessionInvariant, AskingInvariant, PTL DEF Spec

(***************************************************************************)
(* Refusals: whatever the layers say and however often the profile, the    *)
(* constraints and a file are saved or imported, a plain invocation grants *)
(* nothing that an earlier one stored a refusal of.                        *)
(***************************************************************************)
THEOREM RefusalsStay == Spec => []TightenedStaysTight
  <1>1. Denied => TightenedStaysTight
    BY DEF Denied, Denies, TightenedStaysTight, Refused, Mode
  <1> QED BY <1>1, DeniedInvariant, PTL

(***************************************************************************)
(* What a variable has at the end of a list of entries.                    *)
(***************************************************************************)
\* The last entry that gives the variable something decides.
LEMMA LastGiving ==
  ASSUME NEW S, NEW s \in Seq(S), NEW host, NEW key
  PROVE  /\ ChildValue(s, host, key) = NoValue <=> \A i \in DOMAIN s : ~Says(s, i, host, key)
         /\ \A i \in DOMAIN s :
                /\ Says(s, i, host, key)
                /\ \A j \in DOMAIN s : Says(s, j, host, key) => j <= i
                => ChildValue(s, host, key) = EntryValue(s[i], host)
         /\ ChildValue(s, host, key) # NoValue =>
                \E i \in DOMAIN s : /\ Says(s, i, host, key)
                                    /\ \A j \in DOMAIN s : Says(s, j, host, key) => j <= i
  <1> DEFINE giving == {i \in DOMAIN s : Says(s, i, host, key)}
             Latest(i) == i \in giving /\ \A j \in giving : j <= i
  <1>1. DOMAIN s = 1 .. Len(s) /\ Len(s) \in Nat
    OBVIOUS
  <1>2. ASSUME giving # {} PROVE \E i \in DOMAIN s : Latest(i)
    <2> DEFINE T == {Len(s) - i : i \in giving}
    <2>1. T \in SUBSET Nat /\ T # {}
      BY <1>1, <1>2
    <2>2. PICK x \in T : \A y \in T : x <= y
      BY <2>1, Least
    <2>3. PICK i \in giving : x = Len(s) - i
      BY <2>2
    <2>4. \A j \in giving : Len(s) - i <= Len(s) - j
      BY <2>2, <2>3
    <2>5. \A j \in giving : j \in Int /\ i \in Int
      BY <1>1
    <2> QED BY <1>1, <2>3, <2>4, <2>5
  <1>3. \A i, j : Latest(i) /\ Latest(j) => i = j
    BY <1>1
  <1>4. ChildValue(s, host, key) =
            IF giving = {} THEN NoValue
            ELSE EntryValue(s[CHOOSE i \in giving : \A j \in giving : j <= i], host)
    BY DEF ChildValue, Says
  <1>5. ASSUME NEW i \in DOMAIN s, Latest(i)
        PROVE  ChildValue(s, host, key) = EntryValue(s[i], host)
    <2>1. (CHOOSE k \in giving : \A j \in giving : j <= k) = i
      BY <1>3, <1>5
    <2> QED BY <1>4, <1>5, <2>1
  <1>6. \A i \in DOMAIN s : Latest(i) => EntryValue(s[i], host) # NoValue
    BY DEF Says
  <1> QED BY <1>2, <1>4, <1>5, <1>6

\* Of two lists joined, the second decides where it gives something.
LEMMA Joined ==
  ASSUME NEW S, NEW a \in Seq(S), NEW b \in Seq(S), NEW host, NEW key
  PROVE  /\ a \o b \in Seq(S)
         /\ ChildValue(a \o b, host, key) =
                IF ChildValue(b, host, key) = NoValue THEN ChildValue(a, host, key)
                ELSE ChildValue(b, host, key)
  <1> DEFINE c == a \o b
             G(s, i) == Says(s, i, host, key)
  <1>1. /\ c \in Seq(S) /\ DOMAIN a = 1 .. Len(a) /\ DOMAIN b = 1 .. Len(b)
        /\ DOMAIN c = 1 .. (Len(a) + Len(b)) /\ Len(a) \in Nat /\ Len(b) \in Nat
        /\ \A i \in DOMAIN a : i \in DOMAIN c /\ c[i] = a[i]
        /\ \A i \in DOMAIN b : i + Len(a) \in DOMAIN c /\ c[i + Len(a)] = b[i]
    OBVIOUS
  <1> HIDE DEF c
  <1>2. \A i \in DOMAIN c : i \in DOMAIN a \/ (i > Len(a) /\ i - Len(a) \in DOMAIN b)
    BY <1>1
  <1>3. \A i \in DOMAIN c : i > Len(a) => c[i] = b[i - Len(a)] /\ i = (i - Len(a)) + Len(a)
    BY <1>1, <1>2
  <1>4. CASE ChildValue(b, host, key) # NoValue
    <2>1. PICK i \in DOMAIN b : G(b, i) /\ \A j \in DOMAIN b : G(b, j) => j <= i
      BY <1>4, LastGiving
    <2>2. ChildValue(b, host, key) = EntryValue(b[i], host)
      BY <2>1, LastGiving
    <2>3. i + Len(a) \in DOMAIN c /\ G(c, i + Len(a))
      BY <1>1, <2>1 DEF Says
    <2>4. ASSUME NEW j \in DOMAIN c, G(c, j) PROVE j <= i + Len(a)
      <3>1. CASE j > Len(a)
        <4>1. j - Len(a) \in DOMAIN b /\ G(b, j - Len(a))
          BY <1>1, <1>2, <1>3, <2>4, <3>1 DEF Says
        <4> QED BY <1>1, <2>1, <4>1
      <3> QED BY <1>1, <3>1
    <2>5. ChildValue(c, host, key) = EntryValue(c[i + Len(a)], host)
      BY <1>1, <2>3, <2>4, LastGiving
    <2> QED BY <1>1, <1>4, <2>2, <2>5 DEF c
  <1>5. CASE ChildValue(b, host, key) = NoValue
    <2>1. \A i \in DOMAIN b : ~G(b, i)
      BY <1>5, LastGiving
    <2>2. \A i \in DOMAIN c : G(c, i) => i \in DOMAIN a /\ G(a, i)
      BY <1>1, <1>2, <1>3, <2>1 DEF Says
    <2>3. \A i \in DOMAIN a : G(a, i) <=> G(c, i)
      BY <1>1 DEF Says
    <2>4. CASE ChildValue(a, host, key) = NoValue
      <3>1. \A i \in DOMAIN c : ~G(c, i)
        BY <2>2, <2>4, LastGiving
      <3>2. ChildValue(c, host, key) = NoValue
        BY <1>1, <3>1, LastGiving
      <3> QED BY <1>1, <1>5, <2>4, <3>2 DEF c
    <2>5. CASE ChildValue(a, host, key) # NoValue
      <3>1. PICK i \in DOMAIN a : G(a, i) /\ \A j \in DOMAIN a : G(a, j) => j <= i
        BY <2>5, LastGiving
      <3>2. ChildValue(a, host, key) = EntryValue(a[i], host)
        BY <3>1, LastGiving
      <3>3. ChildValue(c, host, key) = EntryValue(c[i], host)
        BY <1>1, <2>2, <2>3, <3>1, LastGiving
      <3> QED BY <1>1, <1>5, <3>2, <3>3 DEF c
    <2> QED BY <2>4, <2>5
  <1> QED BY <1>4, <1>5 DEF c

\* The entries that are picked keep their order.
LEMMA PickedInOrder ==
  ASSUME NEW S, NEW s \in Seq(S), NEW I \in SUBSET DOMAIN s
  PROVE  /\ Picked(s, I) \in Seq(S)
         /\ \A i \in I : Rank(I, i) \in DOMAIN Picked(s, I) /\ Picked(s, I)[Rank(I, i)] = s[i]
         /\ \A k \in DOMAIN Picked(s, I) : \E i \in I : Rank(I, i) = k
         /\ \A i, j \in I : Rank(I, i) <= Rank(I, j) => i <= j
  <1> DEFINE p == Picked(s, I)
             n == Cardinality(I)
             Upto(i) == {j \in I : j <= i}
             r == [i \in I |-> Cardinality(Upto(i))]
  <1>1. DOMAIN s = 1 .. Len(s) /\ Len(s) \in Nat
    OBVIOUS
  <1>2. IsFiniteSet(I) /\ n \in Nat /\ I \subseteq Nat
    <2>1. IsFiniteSet(1 .. Len(s))
      BY <1>1, FS_Interval
    <2>2. IsFiniteSet(I)
      BY <1>1, <2>1, FS_Subset
    <2> QED BY <1>1, <2>2, FS_CardinalityType
  <1>3. \A i \in I : IsFiniteSet(Upto(i)) /\ Cardinality(Upto(i)) \in 1 .. n
    <2> TAKE i \in I
    <2>1. Upto(i) \in SUBSET I /\ i \in Upto(i)
      BY <1>2
    <2>2. IsFiniteSet(Upto(i)) /\ Cardinality(Upto(i)) <= n /\ Cardinality(Upto(i)) \in Nat
      BY <1>2, <2>1, FS_Subset, FS_CardinalityType
    <2>3. Cardinality(Upto(i)) # 0
      BY <2>1, <2>2, FS_EmptySet
    <2> QED BY <1>2, <2>2, <2>3
  <1>4. \A i, j \in I : i < j => Cardinality(Upto(i)) < Cardinality(Upto(j))
    <2> SUFFICES ASSUME NEW i \in I, NEW j \in I, i < j
                 PROVE  Cardinality(Upto(i)) < Cardinality(Upto(j))
      OBVIOUS
    <2>1. Upto(i) \in SUBSET Upto(j) /\ j \in Upto(j) /\ j \notin Upto(i)
      BY <1>2
    <2>2. Upto(j) # Upto(i)
      BY <2>1
    <2>3. Cardinality(Upto(i)) <= Cardinality(Upto(j)) /\ Cardinality(Upto(i)) # Cardinality(Upto(j))
      BY <1>3, <2>1, <2>2, FS_Subset
    <2> HIDE DEF Upto
    <2>4. Cardinality(Upto(i)) \in Nat /\ Cardinality(Upto(j)) \in Nat
      BY <1>2, <1>3
    <2> QED BY <2>3, <2>4
  <1> HIDE DEF Upto
  <1>5. r \in [I -> 1 .. n] /\ \A i \in I : r[i] = Cardinality(Upto(i))
    BY <1>3
  <1> HIDE DEF n, r
  <1>6. \A i, j \in I : i < j => r[i] < r[j]
    BY <1>4, <1>5
  <1>7. \A i, j \in I : r[i] <= r[j] => i <= j
    BY <1>2, <1>5, <1>6
  <1>8. r \in Injection(I, 1 .. n)
    <2>1. \A i, j \in I : r[i] = r[j] => i = j
      BY <1>2, <1>5, <1>6
    <2> QED BY <1>5, <2>1 DEF Injection, IsInjective
  <1>9. \A k \in 1 .. n : \E i \in I : r[i] = k
    <2>1. IsFiniteSet(1 .. n) /\ Cardinality(1 .. n) = n
      BY <1>2, FS_Interval
    <2>2. r \in Surjection(I, 1 .. n)
      BY <1>8, <2>1, FS_Injection DEF n
    <2> QED BY <2>2 DEF Surjection
  <1>10. p = [k \in 1 .. n |-> s[CHOOSE i \in I : Cardinality(Upto(i)) = k]]
    BY DEF Picked, n, Upto
  <1> HIDE DEF p
  <1>11. \A i \in I : p[r[i]] = s[i]
    <2> TAKE i \in I
    <2>1. (CHOOSE j \in I : Cardinality(Upto(j)) = r[i]) = i
      <3>1. \A j \in I : Cardinality(Upto(j)) = r[i] => j = i
        BY <1>5, <1>8 DEF Injection, IsInjective
      <3> QED BY <1>5, <3>1
    <2> QED BY <1>5, <1>10, <2>1
  <1>12. DOMAIN p = 1 .. n
    BY <1>10
  <1>13. p \in Seq(S)
    <2>1. \A k \in 1 .. n : p[k] \in S
      BY <1>1, <1>9, <1>11
    <2> QED BY <1>2, <1>10, <1>12, <2>1
  <1>14. \A i \in I : r[i] = Rank(I, i)
    BY <1>5 DEF Rank, Upto
  <1> QED BY <1>5, <1>7, <1>9, <1>11, <1>12, <1>13, <1>14 DEF p

\* What is left out says nothing, or is said again later.
LEMMA PickedSays ==
  ASSUME NEW S, NEW s \in Seq(S), NEW I \in SUBSET DOMAIN s, NEW host, NEW key,
         \A i \in DOMAIN s \ I : Says(s, i, host, key) => \E j \in DOMAIN s : j > i /\ s[j] = s[i]
  PROVE  ChildValue(Picked(s, I), host, key) = ChildValue(s, host, key)
  <1> DEFINE p == Picked(s, I)
             r(i) == Rank(I, i)
             G(t, i) == Says(t, i, host, key)
  <1>1. p \in Seq(S)
    BY PickedInOrder
  <1>2. /\ \A i \in I : r(i) \in DOMAIN p /\ p[r(i)] = s[i]
        /\ \A k \in DOMAIN p : \E i \in I : r(i) = k
        /\ \A i, j \in I : r(i) <= r(j) => i <= j
    BY PickedInOrder
  <1> HIDE DEF p, r
  <1>3. \A i \in I : G(p, r(i)) <=> G(s, i)
    BY <1>2 DEF Says
  <1>4. CASE ChildValue(s, host, key) = NoValue
    <2>1. \A i \in DOMAIN s : ~G(s, i)
      BY <1>4, LastGiving
    <2>2. \A k \in DOMAIN p : ~G(p, k)
      BY <1>2, <1>3, <2>1
    <2>3. ChildValue(p, host, key) = NoValue
      BY <1>1, <2>2, LastGiving
    <2> QED BY <1>4, <2>3 DEF p
  <1>5. CASE ChildValue(s, host, key) # NoValue
    <2>1. PICK i \in DOMAIN s : G(s, i) /\ \A j \in DOMAIN s : G(s, j) => j <= i
      BY <1>5, LastGiving
    <2>2. ChildValue(s, host, key) = EntryValue(s[i], host)
      BY <2>1, LastGiving
    <2>3. i \in I
      <3> SUFFICES ASSUME i \notin I PROVE FALSE
        OBVIOUS
      <3>1. PICK j \in DOMAIN s : j > i /\ s[j] = s[i]
        BY <2>1
      <3>2. G(s, j)
        BY <2>1, <3>1 DEF Says
      <3>3. j \in Int /\ i \in Int
        OBVIOUS
      <3> QED BY <2>1, <3>1, <3>2, <3>3
    <2>4. r(i) \in DOMAIN p /\ G(p, r(i)) /\ p[r(i)] = s[i]
      BY <1>2, <1>3, <2>1, <2>3
    <2>5. ASSUME NEW k \in DOMAIN p, G(p, k) PROVE k <= r(i)
      <3>1. PICK j \in I : r(j) = k
        BY <1>2
      <3>2. j <= i
        BY <1>3, <2>1, <2>5, <3>1
      <3>3. j \in Int /\ i \in Int /\ k \in Int /\ r(i) \in Int
        BY <1>1, <2>4
      <3>4. r(i) <= r(j) => i <= j
        BY <1>2, <2>3
      <3> QED BY <3>1, <3>2, <3>3, <3>4
    <2>6. ChildValue(p, host, key) = EntryValue(p[r(i)], host)
      BY <1>1, <2>4, <2>5, LastGiving
    <2> QED BY <2>2, <2>4, <2>6 DEF p
  <1> QED BY <1>4, <1>5

\* Deduplication drops an entry only where the same one comes later.
LEMMA Deduplicated ==
  ASSUME NEW S, NEW s \in Seq(S), NEW host, NEW key
  PROVE  /\ DedupEnv(s) \in Seq(S)
         /\ ChildValue(DedupEnv(s), host, key) = ChildValue(s, host, key)
  <1> DEFINE I == {i \in DOMAIN s : \A j \in DOMAIN s : j > i => s[j] # s[i]}
  <1>1. I \in SUBSET DOMAIN s /\ DedupEnv(s) = Picked(s, I)
    BY DEF DedupEnv
  <1>2. \A i \in DOMAIN s \ I : \E j \in DOMAIN s : j > i /\ s[j] = s[i]
    OBVIOUS
  <1> HIDE DEF I
  <1> QED BY <1>1, <1>2, PickedInOrder, PickedSays

\* Entries of the type say something of every variable they mention that is set.
LEMMA Mentioned ==
  ASSUME NEW s \in Seq(Entry), NEW key
  PROVE  /\ Mentions(s, key) <=> ChildValue(s, [v \in {key} |-> FromHost], key) # NoValue
         /\ \A host : host[key] # NoValue /\ Mentions(s, key) => ChildValue(s, host, key) # NoValue
         /\ \A host : ChildValue(s, host, key) # NoValue => Mentions(s, key)
  <1>1. \A i \in DOMAIN s : s[i].value # NoValue
    <2>1. \A i \in DOMAIN s : s[i] \in Entry
      OBVIOUS
    <2> QED BY <2>1 DEF Entry, FromHost, NoValue
  <1>2. \A host : \A i \in DOMAIN s :
            s[i].key = key /\ host[key] # NoValue => Says(s, i, host, key)
    BY <1>1 DEF Says, EntryValue
  <1>3. \A host : host[key] # NoValue /\ Mentions(s, key) => ChildValue(s, host, key) # NoValue
    BY <1>2, LastGiving DEF Mentions
  <1>4. ASSUME NEW host, ChildValue(s, host, key) # NoValue PROVE Mentions(s, key)
    BY <1>4, LastGiving DEF Mentions, Says
  <1>5. [v \in {key} |-> FromHost][key] # NoValue
    BY DEF FromHost, NoValue
  <1> QED BY <1>3, <1>4, <1>5

\* Taking out the entries of some variables leaves the others what they had.
LEMMA OthersKept ==
  ASSUME NEW S, NEW s \in Seq(S), NEW K, NEW host, NEW key
  PROVE  /\ Without(s, K) \in Seq(S)
         /\ ChildValue(Without(s, K), host, key) =
                IF key \in K THEN NoValue ELSE ChildValue(s, host, key)
  <1> DEFINE I == {i \in DOMAIN s : s[i].key \notin K}
  <1>1. I \in SUBSET DOMAIN s /\ Without(s, K) = Picked(s, I)
    BY DEF Without
  <1>2. Without(s, K) \in Seq(S)
    BY <1>1, PickedInOrder
  <1>3. ASSUME key \notin K
        PROVE  \A i \in DOMAIN s \ I : ~Says(s, i, host, key)
    BY <1>3 DEF Says
  <1>4. CASE key \notin K
    <2> HIDE DEF I
    <2> QED BY <1>1, <1>2, <1>3, <1>4, PickedSays
  <1>5. CASE key \in K
    <2> DEFINE p == Picked(s, I)
    <2>1. \A i \in I : s[i].key # key
      BY <1>5
    <2>2. \A k \in DOMAIN p : p[k].key # key
      <3> HIDE DEF I
      <3> TAKE k \in DOMAIN p
      <3>1. PICK i \in I : Rank(I, i) = k
        BY <1>1, PickedInOrder
      <3>2. p[k] = s[i]
        BY <1>1, <3>1, PickedInOrder
      <3> QED BY <2>1, <3>2
    <2> HIDE DEF p, I
    <2>3. p \in Seq(S)
      BY <1>1, <1>2 DEF p
    <2>4. ChildValue(p, host, key) = NoValue
      BY <2>2, <2>3, LastGiving DEF Says
    <2> QED BY <1>1, <1>2, <1>5, <2>4 DEF p
  <1> QED BY <1>4, <1>5

\* A finite set as a sequence.
LEMMA InSomeOrder ==
  ASSUME NEW T, IsFiniteSet(T)
  PROVE  /\ SetToSeq(T) \in Seq(T)
         /\ \A x \in T : \E i \in DOMAIN SetToSeq(T) : SetToSeq(T)[i] = x
  <1> DEFINE n == Cardinality(T)
             f == SetToSeq(T)
  <1>1. n \in Nat /\ ExistsBijection(1 .. n, T)
    BY FS_CardinalityType
  <1>2. \E g \in [1 .. n -> T] : IsInjective(g)
    BY <1>1 DEF ExistsBijection, Bijection, Injection
  <1>3. f \in [1 .. n -> T] /\ IsInjective(f)
    BY <1>2 DEF SetToSeq
  <1> HIDE DEF f
  <1>4. f \in Injection(1 .. n, T)
    BY <1>3 DEF Injection
  <1>5. Cardinality(1 .. n) = n
    BY <1>1, FS_Interval
  <1>6. f \in Surjection(1 .. n, T)
    BY <1>4, <1>5, FS_Injection
  <1> HIDE DEF n
  <1>7. f \in Seq(T) /\ DOMAIN f = 1 .. n
    BY <1>1, <1>3
  <1> QED BY <1>6, <1>7 DEF Surjection, f

\* Where the entries of K give a placeholder each.
LEMMA Placeholders ==
  ASSUME NEW K, IsFiniteSet(K), NEW host, NEW key
  PROVE  LET T == {[key |-> k, value |-> Placeholder] : k \in K} IN
         /\ SetToSeq(T) \in Seq(T)
         /\ ChildValue(SetToSeq(T), host, key) = IF key \in K THEN Placeholder ELSE NoValue
  <1> DEFINE E(k) == [key |-> k, value |-> Placeholder]
             T == {E(k) : k \in K}
             f == [k \in K |-> E(k)]
             p == SetToSeq(T)
  <1>0. Placeholder \notin {NoValue, FromHost}
    BY DEF Placeholder, NoValue, FromHost
  <1>1. f \in Surjection(K, T)
    BY DEF Surjection
  <1> HIDE DEF f
  <1>2. IsFiniteSet(T)
    BY <1>1, FS_Surjection
  <1>3. \A e \in T : e.key \in K /\ e.value = Placeholder
    OBVIOUS
  <1>4. key \in K => E(key) \in T /\ E(key).key = key
    OBVIOUS
  <1> HIDE DEF T
  <1>5. p \in Seq(T) /\ \A x \in T : \E i \in DOMAIN p : p[i] = x
    BY <1>2, InSomeOrder
  <1> HIDE DEF p
  <1>6. \A i \in DOMAIN p : p[i].key \in K /\ EntryValue(p[i], host) = Placeholder
    BY <1>0, <1>3, <1>5 DEF EntryValue
  <1>7. CASE key \in K
    <2>1. \E i \in DOMAIN p : Says(p, i, host, key)
      BY <1>0, <1>4, <1>5, <1>6, <1>7 DEF Says
    <2>2. ChildValue(p, host, key) # NoValue
      BY <1>5, <2>1, LastGiving
    <2>3. ChildValue(p, host, key) = Placeholder
      BY <1>5, <1>6, <2>2, LastGiving
    <2> QED BY <1>5, <1>7, <2>3 DEF p, T
  <1>8. CASE key \notin K
    <2>1. ChildValue(p, host, key) = NoValue
      BY <1>5, <1>6, <1>8, LastGiving DEF Says
    <2> QED BY <1>5, <1>8, <2>1 DEF p, T
  <1> QED BY <1>7, <1>8

(***************************************************************************)
(* What a configuration's entries say, layer by layer.                     *)
(***************************************************************************)
\* Lists that agree can stand for each other in a join.
LEMMA JoinsAgree ==
  ASSUME NEW s \in Seq(Entry), NEW t \in Seq(Entry), NEW a \in Seq(Entry), NEW b \in Seq(Entry),
         Agree(s, t), Agree(a, b)
  PROVE  s \o a \in Seq(Entry) /\ t \o b \in Seq(Entry) /\ Agree(s \o a, t \o b)
  <1>1. s \o a \in Seq(Entry) /\ t \o b \in Seq(Entry)
    OBVIOUS
  <1>2. ASSUME NEW host, NEW key
        PROVE  ChildValue(s \o a, host, key) = ChildValue(t \o b, host, key)
    <2>1. ChildValue(s \o a, host, key) =
            IF ChildValue(a, host, key) = NoValue THEN ChildValue(s, host, key)
            ELSE ChildValue(a, host, key)
      BY Joined
    <2>2. ChildValue(t \o b, host, key) =
            IF ChildValue(b, host, key) = NoValue THEN ChildValue(t, host, key)
            ELSE ChildValue(b, host, key)
      BY Joined
    <2> QED BY <2>1, <2>2 DEF Agree
  <1> QED BY <1>1, <1>2 DEF Agree

\* The configuration that sets nothing has no entries.
LEMMA NothingSays == EnvOK(EmptyConfig) /\ \A host, key : ChildValue(<<>>, host, key) = NoValue
  <1>1. EmptyConfig.env = <<>> /\ EmptyConfig.secrets = {}
    BY DEF EmptyConfig
  <1>2. <<>> \in Seq(Entry) /\ DOMAIN <<>> = {}
    OBVIOUS
  <1>3. \A host, key : ChildValue(<<>>, host, key) = NoValue
    BY <1>2, LastGiving
  <1> QED BY <1>1, <1>2, <1>3, FS_EmptySet DEF EnvOK

\* A trusted layer's entries come after those of the layer below.
LEMMA LayerSays ==
  ASSUME NEW high, EnvOK(high), NEW low, WellFormed(low), EnvOK(low)
  PROVE  /\ EnvOK(Layer(high, low)) /\ EnvOK(MergeCli(high, low))
         /\ Agree(Layer(high, low).env, low.env \o high.env)
         /\ Agree(MergeCli(high, low).env, low.env \o high.env)
  <1> DEFINE a == Answer(low, high.yes, high.no)
             l == Layer(high, low)
             m == MergeCli(high, low)
             others == {b \in low.secrets : \A other \in high.secrets : other[1] # b[1]}
  <1>1. DOMAIN a = Fields /\ \A f \in Fields \ {"yes", "no"} : a[f] = low[f]
    BY Answered, FieldsOfConfig DEF WellFormed
  <1>2. /\ DOMAIN l = Fields /\ l.env = DedupEnv(low.env \o high.env)
        /\ l.secrets = high.secrets \cup others
    <2>1. a.env = low.env /\ a.secrets = low.secrets
      BY <1>1 DEF Fields
    <2> HIDE DEF a
    <2> QED BY <1>1, <2>1 DEF Layer, a, Fields
  <1>3. m = [l EXCEPT !.bar = Override(high.bar, @, "unset")]
    BY DEF MergeCli
  <1> HIDE DEF l
  <1>4. m.env = l.env /\ m.secrets = l.secrets
    BY <1>2, <1>3 DEF Fields
  <1> HIDE DEF m
  <1>5. low.env \o high.env \in Seq(Entry)
    BY DEF EnvOK
  <1>6. l.env \in Seq(Entry) /\ Agree(l.env, low.env \o high.env)
    <2> DEFINE s == low.env \o high.env
    <2>1. DedupEnv(s) \in Seq(Entry)
          /\ \A host, key : ChildValue(DedupEnv(s), host, key) = ChildValue(s, host, key)
      <3> HIDE DEF s
      <3>1. s \in Seq(Entry)
        BY <1>5 DEF s
      <3> QED BY <3>1, Deduplicated
    <2> QED BY <1>2, <2>1 DEF Agree
  <1>7. IsFiniteSet(high.secrets) /\ IsFiniteSet(others)
    <2>1. others \subseteq low.secrets
      OBVIOUS
    <2> QED BY <2>1, FS_Subset DEF EnvOK
  <1> HIDE DEF others
  <1>8. IsFiniteSet(l.secrets)
    BY <1>2, <1>7, FS_Union
  <1> QED BY <1>4, <1>6, <1>8 DEF l, m, EnvOK

\* The project's file changes no entry when it is only merged to tighten.
LEMMA ProjectSays ==
  ASSUME NEW base, WellFormed(base), EnvOK(base), NEW local, WellFormed(local)
  PROVE  EnvOK(MergeProject(base, local)) /\ MergeProject(base, local).env = base.env
  BY ProjectMergeTightens DEF EnvOK, TightensOnly

\* Neither the command nor a browser profile changes the entries.
LEMMA BrowserSays ==
  ASSUME NEW c, WellFormed(c), NEW command, NEW trustedCommand
  PROVE  SameEntries(ApplyBrowser([c EXCEPT !.command = command], trustedCommand), c)
  <1> DEFINE d == [c EXCEPT !.command = command]
             e == ApplyBrowser(d, trustedCommand)
  <1>1. OnlyCommand(d, c)
    BY CommandChanges
  <1> HIDE DEF d
  <1>2. WellFormed(d) /\ d.env = c.env /\ d.secrets = c.secrets
    BY <1>1, OnlyCommandChanges DEF Fields
  <1>3. e.env = d.env /\ e.secrets = d.secrets
    BY <1>2, BrowserProfileGrants DEF Fields
  <1> HIDE DEF e
  <1> QED BY <1>2, <1>3 DEF SameEntries, d, e

\* The merged layers say what the layers say in their order.
LEMMA BaselineSays ==
  ASSUME NEW global, Sound(global), EnvOK(global), NEW proposed, Sound(proposed), EnvOK(proposed),
         NEW cli, Sound(cli), EnvOK(cli), NEW l, Sound(Project(l)), l.trusted => EnvOK(Project(l))
  PROVE  LET merged == WithProject(MergeCli(cli, MergeTrusted(global, proposed)), l) IN
         /\ EnvOK(merged) /\ LayersSay(global, proposed, cli, l) \in Seq(Entry)
         /\ Agree(merged.env, LayersSay(global, proposed, cli, l))
  <1> DEFINE two == MergeTrusted(global, proposed)
             three == MergeCli(cli, two)
             merged == WithProject(three, l)
             own == IF l.trusted THEN Project(l).env ELSE <<>>
             given == global.env \o proposed.env
  <1>1. Sound(two) /\ Sound(three)
    BY SoundLayers
  <1>2. EnvOK(two) /\ Agree(two.env, given) /\ given \in Seq(Entry)
    <2>1. EnvOK(two) /\ Agree(two.env, given)
      BY LayerSays DEF MergeTrusted, Sound
    <2>2. given \in Seq(Entry)
      BY DEF EnvOK
    <2> QED BY <2>1, <2>2
  <1> HIDE DEF two, given
  <1>3. EnvOK(three) /\ Agree(three.env, two.env \o cli.env)
    BY <1>1, <1>2, LayerSays DEF Sound
  <1>4. Agree(cli.env, cli.env) /\ cli.env \in Seq(Entry) /\ two.env \in Seq(Entry)
    BY <1>2 DEF Agree, EnvOK
  <1>5. given \o cli.env \in Seq(Entry) /\ Agree(three.env, given \o cli.env)
    BY <1>2, <1>3, <1>4, JoinsAgree DEF Agree
  <1> HIDE DEF three
  <1>6. CASE l.trusted
    <2>1. merged = MergeTrusted(three, Project(l))
      BY <1>6 DEF WithProject
    <2>2. EnvOK(merged) /\ Agree(merged.env, three.env \o Project(l).env)
      BY <1>1, <1>3, <1>6, <2>1, LayerSays DEF MergeTrusted, Sound
    <2>3. Project(l).env \in Seq(Entry) /\ Agree(Project(l).env, Project(l).env)
      BY <1>6 DEF EnvOK, Agree
    <2>4. /\ (given \o cli.env) \o Project(l).env \in Seq(Entry)
          /\ Agree(three.env \o Project(l).env, (given \o cli.env) \o Project(l).env)
      BY <1>3, <1>5, <2>3, JoinsAgree DEF EnvOK
    <2>5. LayersSay(global, proposed, cli, l) = (given \o cli.env) \o Project(l).env
      BY <1>6 DEF LayersSay, given
    <2> HIDE DEF merged
    <2> QED BY <2>2, <2>4, <2>5 DEF merged, Agree, two, three
  <1>7. CASE ~l.trusted
    <2>1. merged = MergeProject(three, Project(l))
      BY <1>7 DEF WithProject
    <2>2. EnvOK(merged) /\ merged.env = three.env
      BY <1>1, <1>3, <2>1, ProjectSays DEF Sound
    <2>3. LayersSay(global, proposed, cli, l) = (given \o cli.env) \o <<>>
      BY <1>7 DEF LayersSay, given
    <2>4. (given \o cli.env) \o <<>> = given \o cli.env
      <3> DEFINE s == given \o cli.env
      <3> HIDE DEF s
      <3>1. s \in Seq(Entry) => s \o <<>> = s
        OBVIOUS
      <3> QED BY <1>5, <3>1 DEF s
    <2> HIDE DEF merged
    <2> QED BY <1>5, <2>2, <2>3, <2>4 DEF merged, two, three
  <1> QED BY <1>6, <1>7

\* The effective configuration says what the layers say in their order.
LEMMA EffectiveSays ==
  ASSUME NEW global, Sound(global), EnvOK(global), NEW proposed, Sound(proposed), EnvOK(proposed),
         NEW cli, Sound(cli), EnvOK(cli), NEW l, Sound(Project(l)), l.trusted => EnvOK(Project(l))
  PROVE  /\ EnvOK(BuildEffective(global, proposed, cli, l))
         /\ Agree(BuildEffective(global, proposed, cli, l).env, LayersSay(global, proposed, cli, l))
  <1> DEFINE merged == WithProject(MergeCli(cli, MergeTrusted(global, proposed)), l)
             e == BuildEffective(global, proposed, cli, l)
             command == Override(cli.command, merged.command, NoCommand)
  <1>1. EnvOK(merged) /\ Agree(merged.env, LayersSay(global, proposed, cli, l))
    BY BaselineSays
  <1>2. WellFormed(merged)
    <2>1. Sound(MergeTrusted(global, proposed))
      BY SoundLayers
    <2>2. Sound(MergeCli(cli, MergeTrusted(global, proposed)))
      BY <2>1, SoundLayers
    <2> QED BY <2>2, SoundLayers DEF WithProject, Sound
  <1>3. DOMAIN merged = Fields
    BY <1>2, FieldsOfConfig DEF WellFormed
  <1>4. e = ApplyBrowser([merged EXCEPT !.command = command], TRUE)
    <2> HIDE DEF merged
    <2>1. [merged EXCEPT !.command = Override(cli.command, @, NoCommand)]
            = [merged EXCEPT !.command = command]
      OBVIOUS
    <2> QED BY <2>1 DEF BuildEffective, merged
  <1> HIDE DEF merged, e, command
  <1>5. SameEntries(e, merged)
    BY <1>2, <1>4, BrowserSays
  <1> QED BY <1>1, <1>5 DEF SameEntries, EnvOK, e

(***************************************************************************)
(* The entries that the approvals of a wrapper become.                     *)
(***************************************************************************)
LEMMA EntriesOf ==
  ASSUME NEW R, Requests(R)
  PROVE  LET s == SetToSeq({[key |-> r.value, value |-> FromHost] : r \in R}) IN
         /\ s \in Seq(Entry) /\ \A r \in R : Mentions(s, r.value)
         /\ R = {} => s = <<>>
  <1> DEFINE E(r) == [key |-> r.value, value |-> FromHost]
             T == {E(r) : r \in R}
             f == [r \in R |-> E(r)]
             s == SetToSeq(T)
  <1>1. f \in Surjection(R, T)
    BY DEF Surjection
  <1> HIDE DEF f
  <1>2. IsFiniteSet(T)
    BY <1>1, FS_Surjection DEF Requests
  <1>3. T \subseteq Entry /\ \A r \in R : E(r) \in T /\ E(r).key = r.value
    BY DEF Entry, Requests
  <1>5. R = {} => T = {}
    OBVIOUS
  <1> HIDE DEF T
  <1>6. s \in Seq(T) /\ \A x \in T : \E i \in DOMAIN s : s[i] = x
    BY <1>2, InSomeOrder
  <1> HIDE DEF s
  <1>7. s \in Seq(Entry)
    BY <1>3, <1>6
  <1>8. \A r \in R : Mentions(s, r.value)
    BY <1>3, <1>6 DEF Mentions
  <1>9. T = {} => s = <<>>
    BY <1>6
  <1> QED BY <1>5, <1>7, <1>8, <1>9 DEF s, T

\* Finitely many requests make finitely many bindings.
LEMMA BindingsOf ==
  ASSUME NEW R, IsFiniteSet(R)
  PROVE  IsFiniteSet({<<r.value, r.host>> : r \in R})
  <1> DEFINE T == {<<r.value, r.host>> : r \in R}
             f == [r \in R |-> <<r.value, r.host>>]
  <1>1. f \in Surjection(R, T)
    BY DEF Surjection
  <1> HIDE DEF f
  <1> QED BY <1>1, FS_Surjection

\* What the wizard's answers grant mentions every approved secret.
LEMMA SelectionSays ==
  ASSUME NEW sel, NEW approved, Requests(approved), NEW harness, NEW explicit
  PROVE  LET g == SelectionGrants(sel, approved, harness, explicit) IN
         /\ EnvOK(g)
         /\ \A a \in approved : a.kind = "secret" => Mentions(g.env, a.value)
         /\ approved = {} => g.env = <<>>
  <1> DEFINE secrets == {r \in approved : r.kind = "secret"}
             settled == IF explicit THEN AdditionalYes \cup AdditionalNo ELSE sel
             yes == BasicYes \cup (AdditionalYes \cap settled) \cup (OnlyOpened \cap sel)
             no == BasicNo \cup (AdditionalNo \cap settled)
             a == Answer(EmptyConfig, (yes \cap sel) \cup (no \ sel), (yes \ sel) \cup (no \cap sel))
             g == SelectionGrants(sel, approved, harness, explicit)
  <1>1. DOMAIN a = Fields
    <2> DEFINE y == (yes \cap sel) \cup (no \ sel)
               n == (yes \ sel) \cup (no \cap sel)
    <2> HIDE DEF y, n
    <2>1. DOMAIN Answer(EmptyConfig, y, n) = Fields
      BY Answered, FieldsOfConfig
    <2> QED BY <2>1 DEF y, n
  <1>2. g = [a EXCEPT
            !.hosts = (IF "api_access" \in sel THEN ApiHosts[harness] ELSE {})
                        \cup {r.value : r \in approved \ secrets},
            !.env = SetToSeq({[key |-> r.value, value |-> FromHost] : r \in secrets}),
            !.secrets = {<<r.value, r.host>> : r \in secrets}]
    BY DEF SelectionGrants
  <1> HIDE DEF a, g
  <1>3. /\ g.env = SetToSeq({[key |-> r.value, value |-> FromHost] : r \in secrets})
        /\ g.secrets = {<<r.value, r.host>> : r \in secrets}
    <2> HIDE DEF secrets
    <2> QED BY <1>1, <1>2 DEF Fields
  <1>4. secrets \subseteq approved /\ Requests(secrets)
    <2>1. secrets \subseteq approved
      OBVIOUS
    <2> QED BY <2>1, FS_Subset DEF Requests
  <1>5. \A r \in approved : r.kind = "secret" => r \in secrets
    OBVIOUS
  <1>6. approved = {} => secrets = {}
    OBVIOUS
  <1> HIDE DEF secrets
  <1>7. /\ g.env \in Seq(Entry) /\ \A r \in secrets : Mentions(g.env, r.value)
        /\ secrets = {} => g.env = <<>>
    BY <1>3, <1>4, EntriesOf
  <1>8. IsFiniteSet(g.secrets)
    BY <1>3, <1>4, BindingsOf DEF Requests
  <1> QED BY <1>5, <1>6, <1>7, <1>8 DEF EnvOK, g

\* The entries of the type that say the same mention the same.
LEMMA SameMentions ==
  ASSUME NEW s \in Seq(Entry), NEW t \in Seq(Entry), Agree(s, t), NEW key
  PROVE  Mentions(s, key) <=> Mentions(t, key)
  <1>1. Mentions(s, key) <=> ChildValue(s, [v \in {key} |-> FromHost], key) # NoValue
    BY Mentioned
  <1>2. Mentions(t, key) <=> ChildValue(t, [v \in {key} |-> FromHost], key) # NoValue
    BY Mentioned
  <1> QED BY <1>1, <1>2 DEF Agree

\* A variable that either list mentions is mentioned by the join.
LEMMA JoinMentions ==
  ASSUME NEW S, NEW s \in Seq(S), NEW t \in Seq(S), NEW key, Mentions(s, key) \/ Mentions(t, key)
  PROVE  Mentions(s \o t, key)
  <1>1. CASE Mentions(s, key)
    <2>1. PICK i \in DOMAIN s : s[i].key = key
      BY <1>1 DEF Mentions
    <2>2. i \in DOMAIN (s \o t) /\ (s \o t)[i] = s[i]
      OBVIOUS
    <2> QED BY <2>1, <2>2 DEF Mentions
  <1>2. CASE Mentions(t, key)
    <2>1. PICK i \in DOMAIN t : t[i].key = key
      BY <1>2 DEF Mentions
    <2>2. i + Len(s) \in DOMAIN (s \o t) /\ (s \o t)[i + Len(s)] = t[i]
      OBVIOUS
    <2> QED BY <2>1, <2>2 DEF Mentions
  <1> QED BY <1>1, <1>2

\* An approved variable already is among the entries of the profile, so that the
\* approval binds it and adds no entry.
LEMMA ApprovedSays ==
  ASSUME NEW c, WellFormed(c), EnvOK(c), Requests(in.requests),
         \A a \in loaded.doc.approved : a.kind = "secret" => Mentions(c.env, a.value)
  PROVE  EnvOK(ApplyApproved(c)) /\ ApplyApproved(c).env = c.env
  <1> DEFINE granted == in.requests \cap loaded.doc.approved
             secrets == {a \in granted : a.kind = "secret"}
             fresh == {s \in secrets : ~Mentions(c.env, s.value)}
             bound == {b \in c.secrets : b[1] \notin {a.value : a \in secrets}}
             d == ApplyApproved(c)
  <1>1. /\ d.env = c.env \o SetToSeq({[key |-> a.value, value |-> FromHost] : a \in fresh})
        /\ d.secrets = bound \cup {<<a.value, a.host>> : a \in secrets}
    <2>1. DOMAIN c = Fields
      BY FieldsOfConfig DEF WellFormed
    <2> QED BY <2>1 DEF ApplyApproved, Fields
  <1> HIDE DEF d
  <1>2. fresh = {}
    OBVIOUS
  <1>3. secrets \subseteq in.requests /\ bound \subseteq c.secrets
    OBVIOUS
  <1> HIDE DEF fresh, secrets, bound
  <1>4. IsFiniteSet(secrets) /\ IsFiniteSet(bound)
    BY <1>3, FS_Subset DEF Requests, EnvOK
  <1>5. IsFiniteSet(d.secrets)
    <2>1. IsFiniteSet({<<a.value, a.host>> : a \in secrets})
      BY <1>4, BindingsOf
    <2> QED BY <1>1, <1>4, <2>1, FS_Union
  <1>6. SetToSeq({[key |-> a.value, value |-> FromHost] : a \in fresh}) = <<>>
    <2>1. Requests({})
      BY FS_EmptySet DEF Requests
    <2>2. SetToSeq({[key |-> a.value, value |-> FromHost] : a \in {}}) = <<>>
      BY <2>1, EntriesOf
    <2> QED BY <1>2, <2>2
  <1>7. c.env \o <<>> = c.env
    <2> DEFINE s == c.env
    <2>1. s \in Seq(Entry)
      BY DEF EnvOK
    <2> HIDE DEF s
    <2>2. s \o <<>> = s
      BY <2>1
    <2> QED BY <2>2 DEF s
  <1> QED BY <1>1, <1>5, <1>6, <1>7 DEF EnvOK, d

\* Where nobody could be asked only the command line's entries are left.
LEMMA NonInteractiveSays ==
  ASSUME NEW l, LayersShape(l), Sound(l.global), Sound(Project(l)), NEW cli, Sound(cli), EnvOK(cli)
  PROVE  EnvOK(NonInteractive(l, cli)) /\ Agree(NonInteractive(l, cli).env, cli.env)
  <1> DEFINE r == Restrictions(l.global)
             api == "network" \notin r.no /\ ~Lockdown(r)
             safe == SafeGrants(IF api THEN {"api_access"} ELSE {}, l.harness)
             untrusted == [l EXCEPT !.trusted = FALSE]
             e == BuildEffective(r, safe, cli, untrusted)
             n == NonInteractive(l, cli)
  <1>1. n = SecureDefaults(e, cli)
    BY DEF NonInteractive, Restrictions, SafeGrants
  <1>2. Sound(r) /\ EnvOK(r) /\ r.env = <<>>
    <2> DEFINE k == Constraints(l.global)
    <2>1. WellFormed(r) /\ \A f \in Lists \ {"closed"} : r[f] = {}
      BY Restricted DEF Sound
    <2>2. /\ WellFormed(k)
          /\ \A f \in {"exceptions", "hosts", "private", "tcp", "forward", "publish", "env", "secrets",
                        "browser"} : k[f] = EmptyConfig[f]
      BY ConstraintsAreWellFormed DEF Sound
    <2>3. DOMAIN k = Fields
      BY <2>2, FieldsOfConfig DEF WellFormed
    <2>4. r = [k EXCEPT !.ro = {}, !.rw = {}, !.overlay = {}]
      BY DEF Restrictions
    <2> HIDE DEF k, r
    <2>5. r.env = k.env /\ r.secrets = k.secrets
      BY <2>3, <2>4 DEF Fields
    <2>6. r.env = EmptyConfig.env /\ r.secrets = EmptyConfig.secrets
      BY <2>2, <2>5
    <2>7. EmptyConfig.env = <<>>
      BY DEF EmptyConfig
    <2>8. r.forward = {} /\ r.publish = {}
      BY <2>1 DEF Lists
    <2> QED BY <2>1, <2>6, <2>7, <2>8, NothingSays DEF EnvOK, Sound, Listens
  <1>3. Sound(safe) /\ EnvOK(safe) /\ safe.env = <<>>
    <2> DEFINE sel == IF api THEN {"api_access"} ELSE {}
    <2>1. sel \in {{}, {"api_access"}}
      OBVIOUS
    <2> HIDE DEF sel
    <2>2. /\ WellFormed(SafeGrants(sel, l.harness))
          /\ \A f \in Lists \ {"hosts"} : SafeGrants(sel, l.harness)[f] = {}
      BY <2>1, SafeSelection
    <2>3. Requests({})
      BY FS_EmptySet DEF Requests
    <2>4. EnvOK(SafeGrants(sel, l.harness)) /\ SafeGrants(sel, l.harness).env = <<>>
      BY <2>3, SelectionSays DEF SafeGrants
    <2>5. SafeGrants(sel, l.harness).forward = {} /\ SafeGrants(sel, l.harness).publish = {}
      BY <2>2 DEF Lists
    <2> QED BY <2>2, <2>4, <2>5 DEF Sound, Listens, sel
  <1> HIDE DEF r, safe
  <1>4. ~untrusted.trusted /\ Sound(Project(untrusted))
    BY DEF LayersShape, Project
  <1> HIDE DEF untrusted
  <1>5. EnvOK(e) /\ Agree(e.env, LayersSay(r, safe, cli, untrusted))
    BY <1>2, <1>3, <1>4, EffectiveSays
  <1>6. LayersSay(r, safe, cli, untrusted) = cli.env
    <2> DEFINE s == cli.env
    <2>1. s \in Seq(Entry)
      BY DEF EnvOK
    <2>2. LayersSay(r, safe, cli, untrusted) = <<>> \o <<>> \o s \o <<>>
      BY <1>2, <1>3, <1>4 DEF LayersSay
    <2> HIDE DEF s
    <2>3. <<>> \o <<>> \o s \o <<>> = s
      BY <2>1
    <2> QED BY <2>2, <2>3 DEF s
  <1>7. Sound(e)
    BY <1>2, <1>3, <1>4, SoundEffective
  <1> HIDE DEF e
  <1>8. n.env = e.env /\ n.secrets = e.secrets
    <2>1. \A f \in Fields \ {"yes", "no"} : SecureDefaults(e, cli)[f] = e[f]
      BY <1>7, SecureDefaultsGrantNoMore DEF Sound
    <2> QED BY <1>1, <2>1 DEF Fields
  <1> HIDE DEF n
  <1> QED BY <1>5, <1>6, <1>8 DEF EnvOK, n

(***************************************************************************)
(* What finalizing a launch makes of its entries.                          *)
(***************************************************************************)
LEMMA OneEntry ==
  ASSUME NEW k, NEW v, NEW host, NEW key
  PROVE  LET e == [key |-> k, value |-> v] IN
         /\ <<e>> \in Seq({e})
         /\ ChildValue(<<e>>, host, key) = IF key = k THEN EntryValue(e, host) ELSE NoValue
  <1> DEFINE e == [key |-> k, value |-> v]
             s == <<e>>
  <1>1. e.key = k
    OBVIOUS
  <1> HIDE DEF e
  <1>2. s \in Seq({e}) /\ DOMAIN s = {1} /\ s[1] = e
    OBVIOUS
  <1> HIDE DEF s
  <1>3. CASE key = k /\ EntryValue(e, host) # NoValue
    <2>1. Says(s, 1, host, key)
      BY <1>1, <1>2, <1>3 DEF Says
    <2>2. ChildValue(s, host, key) = EntryValue(s[1], host)
      BY <1>2, <2>1, LastGiving
    <2> QED BY <1>2, <1>3, <2>2 DEF s, e
  <1>4. CASE ~(key = k /\ EntryValue(e, host) # NoValue)
    <2>1. \A i \in DOMAIN s : ~Says(s, i, host, key)
      BY <1>1, <1>2, <1>4 DEF Says
    <2>2. ChildValue(s, host, key) = NoValue
      BY <1>2, <2>1, LastGiving
    <2> QED BY <1>2, <1>4, <2>2 DEF s, e
  <1> QED BY <1>3, <1>4

\* The default key is asked for exactly where the entries give none.
LEMMA DefaultIs ==
  ASSUME NEW c, WellFormed(c), EnvOK(c), NEW host, NEW d, DOMAIN d = Fields,
         \A f \in Fields \ {"hosts", "env", "ro"} : d[f] = c[f]
  PROVE  LET s == DefaultKeys(c, host) IN
         /\ \E S : c.env \o s \in Seq(S)
         /\ \A key : ChildValue(c.env \o s, host.env, key) =
                        IF ChildValue(c.env, host.env, key) = NoValue
                        THEN ChildValue(Default(d, host), host.env, key)
                        ELSE ChildValue(c.env, host.env, key)
  <1> DEFINE h == Harness(c)
             k == ApiKey[h]
             e == [key |-> k, value |-> FromHost]
             none == h = NoCommand \/ ~Grants(c, "agent_state")
             s == DefaultKeys(c, host)
             t == Default(d, host)
             b == [d EXCEPT !.env = <<>>]
             V(a, key) == ChildValue(a, host.env, key)
  <1>1. DOMAIN b = Fields /\ b.env = <<>> /\ \A f \in Fields \ {"hosts", "env", "ro"} : b[f] = c[f]
    BY DEF Fields
  <1> HIDE DEF b
  <1>2. Harness(b) = h /\ (Grants(b, "agent_state") <=> Grants(c, "agent_state"))
    <2>1. b.command = c.command /\ b.yes = c.yes /\ b.no = c.no
      BY <1>1 DEF Fields
    <2>2. DOMAIN c = Fields
      BY FieldsOfConfig DEF WellFormed
    <2> QED BY <1>1, <2>1, <2>2, SameFlags DEF Harness
  <1>3. t = IF none \/ host.env[k] = NoValue THEN <<>> ELSE <<e>>
    <2>1. t = DefaultKeys(b, host)
      BY DEF Default, b
    <2>2. ~\E i \in DOMAIN b.env : b.env[i].key = k
      BY <1>1
    <2> HIDE DEF t
    <2> QED BY <1>2, <2>1, <2>2 DEF DefaultKeys
  <1>4. s = IF none \/ host.env[k] = NoValue \/ Mentions(c.env, k) THEN <<>> ELSE <<e>>
    BY DEF DefaultKeys, Mentions
  <1> HIDE DEF s, t, h, none
  <1>5. \A key : V(<<>>, key) = NoValue
    BY NothingSays
  <1>6. <<e>> \in Seq({e}) /\ \A key : V(<<e>>, key) = IF key = k THEN host.env[k] ELSE NoValue
    <2>1. EntryValue(e, host.env) = host.env[k]
      BY DEF EntryValue
    <2> HIDE DEF k
    <2> QED BY <2>1, OneEntry
  <1> HIDE DEF e, k
  <1>7. c.env \in Seq(Entry)
    BY DEF EnvOK
  <1>8. c.env \in Seq(Entry \cup {e}) /\ s \in Seq(Entry \cup {e})
    <2>1. <<>> \in Seq(Entry \cup {e}) /\ <<e>> \in Seq(Entry \cup {e})
      OBVIOUS
    <2>2. c.env \in Seq(Entry \cup {e})
      <3> DEFINE q == c.env
      <3> HIDE DEF q
      <3>1. q \in Seq(Entry) => q \in Seq(Entry \cup {e})
        OBVIOUS
      <3> QED BY <1>7, <3>1 DEF q
    <2> QED BY <1>4, <2>1, <2>2
  <1>9. c.env \o s \in Seq(Entry \cup {e})
        /\ \A key : V(c.env \o s, key) = IF V(s, key) = NoValue THEN V(c.env, key) ELSE V(s, key)
    BY <1>8, Joined
  <1>10. Mentions(c.env, k) /\ host.env[k] # NoValue => V(c.env, k) # NoValue
    BY <1>7, Mentioned
  <1>11. ~Mentions(c.env, k) => V(c.env, k) = NoValue
    BY <1>7, Mentioned
  <1>12. ASSUME NEW key
         PROVE  V(c.env \o s, key) = IF V(c.env, key) = NoValue THEN V(t, key) ELSE V(c.env, key)
    BY <1>3, <1>4, <1>5, <1>6, <1>9, <1>10, <1>11
  <1> QED BY <1>9, <1>12 DEF s, t

\* Finitely many bindings have finitely many keys.
LEMMA KeysOf ==
  ASSUME NEW B, IsFiniteSet(B)
  PROVE  IsFiniteSet({b[1] : b \in B})
  <1> DEFINE T == {b[1] : b \in B}
             f == [b \in B |-> b[1]]
  <1>1. f \in Surjection(B, T)
    BY DEF Surjection
  <1> HIDE DEF f
  <1> QED BY <1>1, FS_Surjection

\* A bound variable is a placeholder, every other one is what it was.
LEMMA HiddenSays ==
  ASSUME NEW c, DOMAIN c = Fields, IsFiniteSet(c.secrets), NEW S, c.env \in Seq(S)
  PROVE  /\ \E U : HideSecrets(c).env \in Seq(U)
         /\ \A host, key : ChildValue(HideSecrets(c).env, host, key) =
                IF key \in BoundKeys(c) THEN Placeholder ELSE ChildValue(c.env, host, key)
  <1> DEFINE K == BoundKeys(c)
             T == {[key |-> k, value |-> Placeholder] : k \in K}
             rest == Without(c.env, K)
             p == SetToSeq(T)
             U == S \cup T
  <1>1. HideSecrets(c).env = rest \o p
    BY DEF HideSecrets, Fields
  <1>2. IsFiniteSet(K)
    BY KeysOf DEF BoundKeys
  <1>3. Placeholder \notin {NoValue, FromHost}
    BY DEF Placeholder, NoValue, FromHost
  <1> HIDE DEF K
  <1>4. rest \in Seq(S) /\ \A host, key : ChildValue(rest, host, key) =
            IF key \in K THEN NoValue ELSE ChildValue(c.env, host, key)
    BY OthersKept
  <1>5. p \in Seq(T) /\ \A host, key : ChildValue(p, host, key) =
            IF key \in K THEN Placeholder ELSE NoValue
    <2>1. ASSUME NEW host, NEW key
          PROVE  /\ p \in Seq(T)
                 /\ ChildValue(p, host, key) = IF key \in K THEN Placeholder ELSE NoValue
      BY <1>2, Placeholders
    <2> HIDE DEF p, T
    <2> QED BY <2>1
  <1> HIDE DEF rest, p, T
  <1>6. rest \in Seq(U) /\ p \in Seq(U)
    BY <1>4, <1>5
  <1> HIDE DEF U
  <1>7. rest \o p \in Seq(U) /\ \A host, key : ChildValue(rest \o p, host, key) =
            IF ChildValue(p, host, key) = NoValue THEN ChildValue(rest, host, key)
            ELSE ChildValue(p, host, key)
    BY <1>6, Joined
  <1>8. ASSUME NEW host, NEW key
        PROVE  ChildValue(rest \o p, host, key) =
                    IF key \in K THEN Placeholder ELSE ChildValue(c.env, host, key)
    BY <1>3, <1>4, <1>5, <1>7
  <1> QED BY <1>1, <1>7, <1>8 DEF K

\* Finalizing hides the bound keys and changes what no other variable has.
LEMMA FinalizedResolves ==
  ASSUME NEW c, WellFormed(c), EnvOK(c), NEW given, Agree(c.env, given), NEW ssh,
         Finalizes(c, ssh, Host)
  PROVE  EntriesResolve(Finalized(c, ssh, Host), given) /\ Hidden(Finalized(c, ssh, Host))
  <1> DEFINE x == Exposed(c, Host)
             keys == DefaultKeys(c, Host)
             launch == Finalized(c, ssh, Host)
             d == launch.config
             K == BoundKeys(c)
             V(s, key) == ChildValue(s, in.env, key)
             Value(key) == IF V(given, key) = NoValue THEN V(Default(d, Host), key)
                           ELSE V(given, key)
  <1>1. DOMAIN c = Fields
    BY FieldsOfConfig DEF WellFormed
  <1>2. /\ DOMAIN x = Fields /\ x.env = c.env \o keys /\ x.secrets = c.secrets
    <2> HIDE DEF keys
    <2> QED BY <1>1 DEF Exposed, Fields, keys
  <1>3. /\ d = HideSecrets(x) /\ launch.secrets = Bindings(x, Host)
        /\ launch.ssh = UsesSelectedKey(c, ssh)
    BY DEF Finalized
  <1>4. /\ DOMAIN d = Fields /\ \A f \in Fields \ {"hosts", "env", "ro"} : d[f] = c[f]
    BY FinalizedAdds, FieldsOfConfig DEF WellFormed
  <1>5. d.hosts = x.hosts /\ d.private = x.private
    BY <1>2, <1>3 DEF HideSecrets, Fields
  <1>6. Host.env = in.env
    BY DEF Host
  <1> HIDE DEF x, launch, keys
  <1>7. d.secrets = c.secrets /\ d.yes = c.yes
    BY <1>4 DEF Fields
  <1>8. (\E S : x.env \in Seq(S)) /\ \A key : V(x.env, key) = Value(key)
    <2>1. /\ \E S : c.env \o keys \in Seq(S)
          /\ \A key : V(c.env \o keys, key) =
                        IF V(c.env, key) = NoValue THEN V(Default(d, Host), key)
                        ELSE V(c.env, key)
      <3> HIDE DEF d
      <3>1. /\ \E S : c.env \o keys \in Seq(S)
            /\ \A key : ChildValue(c.env \o keys, Host.env, key) =
                        IF ChildValue(c.env, Host.env, key) = NoValue
                        THEN ChildValue(Default(d, Host), Host.env, key)
                        ELSE ChildValue(c.env, Host.env, key)
        BY <1>4, DefaultIs DEF keys
      <3> QED BY <1>6, <3>1
    <2>2. \A key : V(c.env, key) = V(given, key)
      BY DEF Agree
    <2> QED BY <1>2, <2>1, <2>2
  <1>9. /\ \E S : d.env \in Seq(S)
        /\ \A host, key : ChildValue(d.env, host, key) =
                IF key \in K THEN Placeholder ELSE ChildValue(x.env, host, key)
    <2>1. IsFiniteSet(x.secrets) /\ BoundKeys(x) = K
      BY <1>2 DEF EnvOK, BoundKeys
    <2>2. PICK S : x.env \in Seq(S)
      BY <1>8
    <2> DEFINE h == HideSecrets(x)
    <2>3. /\ \E U : h.env \in Seq(U)
          /\ \A host, key : ChildValue(h.env, host, key) =
                IF key \in BoundKeys(x) THEN Placeholder ELSE ChildValue(x.env, host, key)
      BY <1>2, <2>1, <2>2, HiddenSays
    <2> HIDE DEF h, K, d
    <2> QED BY <1>3, <2>1, <2>3 DEF h
  <1>10. BoundKeys(d) = K
    BY <1>7 DEF BoundKeys
  <1>11. Hidden(launch)
    BY <1>3, <1>7, <1>9, <1>10 DEF Hidden, UsesSelectedKey, Lockdown
  <1>12. ASSUME NEW b \in launch.secrets
         PROVE  b.value = Value(b.key) /\ b.host \in FilteredHosts(d)
    <2>1. PICK a \in x.secrets : b = [key |-> a[1], host |-> a[2],
                                      value |-> ChildValue(x.env, Host.env, a[1])]
      BY <1>3 DEF Bindings
    <2>2. a[2] \in FilteredHosts(x)
      BY <2>1 DEF Finalizes, SecretsFit, x
    <2>3. FilteredHosts(x) = FilteredHosts(d)
      BY <1>5 DEF FilteredHosts
    <2>4. b.key = a[1] /\ b.host = a[2] /\ b.value = V(x.env, a[1])
      BY <1>6, <2>1
    <2> QED BY <1>8, <2>2, <2>3, <2>4
  <1>13. \A key : ChildValue(DefaultKeys([launch.config EXCEPT !.env = <<>>], Host), in.env, key)
                    = V(Default(d, Host), key)
    BY DEF Default
  <1>14. EntriesResolve(launch, given)
    <2> SUFFICES ASSUME NEW key \in DOMAIN in.env
                 PROVE  /\ V(d.env, key) = IF key \in BoundKeys(d) THEN Placeholder ELSE Value(key)
                        /\ \A b \in launch.secrets : b.key = key =>
                                b.value = Value(key) /\ b.host \in FilteredHosts(d)
      BY <1>13 DEF EntriesResolve
    <2> QED BY <1>8, <1>9, <1>10, <1>12
  <1> QED BY <1>11, <1>14 DEF launch

\* What has the same configuration, the same secrets and the same key.
LEMMA SameResolves ==
  ASSUME NEW a, NEW b, a.config = b.config, a.secrets = b.secrets, a.ssh = b.ssh, NEW given
  PROVE  /\ EntriesResolve(a, given) => EntriesResolve(b, given)
         /\ Hidden(a) => Hidden(b)
  BY DEF EntriesResolve, Hidden

(***************************************************************************)
(* What the child's environment makes of them.                             *)
(***************************************************************************)
LEMMA Over ==
  ASSUME NEW f, NEW g
  PROVE  /\ DOMAIN (f ++ g) = DOMAIN f \cup DOMAIN g
         /\ \A v \in DOMAIN f : (f ++ g)[v] = f[v]
         /\ \A v \in DOMAIN g \ DOMAIN f : (f ++ g)[v] = g[v]
  BY DEF ++

\* A restricted environment has what the whole one has.
LEMMA OnlyIs ==
  ASSUME NEW f, NEW names
  PROVE  /\ DOMAIN Only(f, names) = {v \in names : v \in DOMAIN f}
         /\ \A v \in DOMAIN Only(f, names) : Only(f, names)[v] = f[v]
  BY DEF Only

\* The entry that decides a variable is passed.
LEMMA PassedIs ==
  ASSUME NEW launch, NEW S, EnvPass(launch) \in Seq(S), NEW host
  PROVE  /\ DOMAIN Passed(launch, host) \subseteq Named(launch)
         /\ \A v : LET value == ChildValue(EnvPass(launch), host.env, v) IN
                value # NoValue => Sees(Passed(launch, host), v, value)
  <1> DEFINE s == EnvPass(launch)
             env == [v \in Named(launch) |-> ChildValue(s, host.env, v)]
             p == Passed(launch, host)
  <1>1. p = Only(env, {v \in DOMAIN env : env[v] # NoValue})
    BY DEF Passed
  <1>2. DOMAIN env = Named(launch) /\ \A v \in Named(launch) : env[v] = ChildValue(s, host.env, v)
    OBVIOUS
  <1> HIDE DEF env, p
  <1>3. /\ DOMAIN p = {v \in Named(launch) : env[v] # NoValue}
        /\ \A v \in DOMAIN p : p[v] = env[v]
    <2> DEFINE names == {v \in DOMAIN env : env[v] # NoValue}
    <2>1. names = {v \in Named(launch) : env[v] # NoValue} /\ names \subseteq DOMAIN env
      BY <1>2
    <2> HIDE DEF names
    <2>2. /\ DOMAIN p = {v \in names : v \in DOMAIN env}
          /\ \A v \in DOMAIN p : p[v] = env[v]
      BY <1>1, OnlyIs DEF names
    <2> QED BY <2>1, <2>2
  <1>4. ASSUME NEW v, ChildValue(s, host.env, v) # NoValue PROVE v \in Named(launch)
    <2>1. PICK i \in DOMAIN s : s[i].key = v
      BY <1>4, LastGiving DEF Says
    <2>2. s[i] \in ToSet(s)
      BY DEF ToSet
    <2> QED BY <2>1, <2>2 DEF Named
  <1> HIDE DEF s
  <1>5. ASSUME NEW v, ChildValue(s, host.env, v) # NoValue
        PROVE  Sees(p, v, ChildValue(s, host.env, v))
    BY <1>2, <1>3, <1>4, <1>5 DEF Sees
  <1> QED BY <1>3, <1>5 DEF s, p

\* What stands first is seen, and what only the rest has is seen too.
LEMMA SeesOver ==
  ASSUME NEW f, NEW g, NEW v, NEW x
  PROVE  /\ Sees(f, v, x) => Sees(f ++ g, v, x)
         /\ v \notin DOMAIN f /\ Sees(g, v, x) => Sees(f ++ g, v, x)
  <1>1. /\ DOMAIN (f ++ g) = DOMAIN f \cup DOMAIN g
        /\ \A u \in DOMAIN f : (f ++ g)[u] = f[u]
        /\ \A u \in DOMAIN g \ DOMAIN f : (f ++ g)[u] = g[u]
    BY Over
  <1> DEFINE h == f ++ g
  <1> HIDE DEF h
  <1>2. /\ Sees(f, v, x) => Sees(h, v, x)
        /\ v \notin DOMAIN f /\ Sees(g, v, x) => Sees(h, v, x)
    BY <1>1 DEF Sees, h
  <1> QED BY <1>2 DEF h

\* A bound variable and the selected key reach the child as they are meant to.
LEMMA PassedHolds ==
  ASSUME NEW launch, Hidden(launch), NEW host
  PROVE  /\ DOMAIN Passed(launch, host) \subseteq Named(launch)
         /\ BoundKeys(launch.config) \cap SetItself = {} =>
                \A key \in BoundKeys(launch.config) : Sees(Passed(launch, host), key, Placeholder)
         /\ launch.ssh => Sees(Passed(launch, host), "SSH_AUTH_SOCK", SelectedAgent)
  <1> DEFINE s == launch.config.env
             p == EnvPass(launch)
             K == BoundKeys(launch.config)
             agent == [key |-> "SSH_AUTH_SOCK", value |-> SelectedAgent]
             rest == Without(s, {"SSH_AUTH_SOCK"})
  <1>1. PICK S : s \in Seq(S)
    BY DEF Hidden
  <1>2. \A key \in K : ChildValue(s, host.env, key) = Placeholder
    BY DEF Hidden
  <1>3. Placeholder # NoValue /\ SelectedAgent # NoValue
    BY DEF Placeholder, SelectedAgent, NoValue
  <1>4. K \cap SetItself = {} => "SSH_AUTH_SOCK" \notin K
    BY DEF SetItself, SocketOf
  <1>5. p = IF ~launch.ssh THEN s ELSE Append(rest, agent)
    BY DEF EnvPass
  <1> HIDE DEF s, p, K
  <1>6. rest \in Seq(S)
        /\ \A key : key # "SSH_AUTH_SOCK" =>
                ChildValue(rest, host.env, key) = ChildValue(s, host.env, key)
    <2>1. \A key : key # "SSH_AUTH_SOCK" => key \notin {"SSH_AUTH_SOCK"}
      OBVIOUS
    <2>2. ASSUME NEW key, key # "SSH_AUTH_SOCK"
          PROVE  ChildValue(rest, host.env, key) = ChildValue(s, host.env, key)
      BY <1>1, <2>1, <2>2, OthersKept
    <2>3. rest \in Seq(S)
      BY <1>1, OthersKept
    <2> HIDE DEF rest
    <2> QED BY <2>2, <2>3
  <1>7. <<agent>> \in Seq({agent}) /\ \A key : ChildValue(<<agent>>, host.env, key) =
            IF key = "SSH_AUTH_SOCK" THEN SelectedAgent ELSE NoValue
    <2>1. EntryValue(agent, host.env) = SelectedAgent
      BY DEF EntryValue, SelectedAgent, FromHost
    <2>2. \A key : ChildValue(<<agent>>, host.env, key) =
            IF key = "SSH_AUTH_SOCK" THEN EntryValue(agent, host.env) ELSE NoValue
      BY OneEntry
    <2>3. <<agent>> \in Seq({agent})
      OBVIOUS
    <2> QED BY <2>1, <2>2, <2>3
  <1> HIDE DEF rest, agent
  <1>8. /\ \E U : p \in Seq(U)
        /\ K \cap SetItself = {} => \A key \in K : ChildValue(p, host.env, key) = Placeholder
        /\ launch.ssh => ChildValue(p, host.env, "SSH_AUTH_SOCK") = SelectedAgent
    <2>1. CASE ~launch.ssh
      BY <1>1, <1>2, <1>5, <2>1
    <2>2. CASE launch.ssh
      <3> DEFINE U == S \cup {agent}
                 one == <<agent>>
      <3>1. rest \in Seq(U) /\ one \in Seq(U) /\ p = rest \o one
        BY <1>5, <1>6, <1>7, <2>2
      <3> HIDE DEF U, one
      <3>2. p \in Seq(U) /\ \A key : ChildValue(p, host.env, key) =
                IF ChildValue(one, host.env, key) = NoValue
                THEN ChildValue(rest, host.env, key) ELSE ChildValue(one, host.env, key)
        BY <3>1, Joined
      <3>3. ASSUME NEW key \in K, key # "SSH_AUTH_SOCK"
            PROVE  ChildValue(p, host.env, key) = Placeholder
        BY <1>2, <1>6, <1>7, <3>2, <3>3 DEF one
      <3>4. ChildValue(p, host.env, "SSH_AUTH_SOCK") = SelectedAgent
        BY <1>3, <1>7, <3>2 DEF one
      <3> QED BY <1>4, <3>2, <3>3, <3>4
    <2> QED BY <2>1, <2>2
  <1>9. /\ DOMAIN Passed(launch, host) \subseteq Named(launch)
        /\ \A v : ChildValue(p, host.env, v) # NoValue =>
                Sees(Passed(launch, host), v, ChildValue(p, host.env, v))
    BY <1>8, PassedIs DEF p
  <1>10. ASSUME K \cap SetItself = {}, NEW key \in K
         PROVE  Sees(Passed(launch, host), key, Placeholder)
    BY <1>3, <1>8, <1>9, <1>10
  <1>11. launch.ssh => Sees(Passed(launch, host), "SSH_AUTH_SOCK", SelectedAgent)
    BY <1>3, <1>8, <1>9
  <1> QED BY <1>9, <1>10, <1>11 DEF K

\* What both environments begin with.
LEMMA InheritedHolds ==
  ASSUME NEW launch, NEW host, DOMAIN Passed(launch, host) \subseteq Named(launch)
  PROVE  LET env == InheritedOrPassed(launch, host) IN
         /\ \A v, x : Sees(Passed(launch, host), v, x) => Sees(env, v, x)
         /\ "inherit_env" \notin launch.config.yes =>
                DOMAIN env \subseteq Named(launch) \cup InheritedByDefault
  <1> DEFINE p == Passed(launch, host)
             host_s == HostVariables(host)
             few == Only(host_s, InheritedByDefault)
             rest == IF "inherit_env" \in launch.config.yes THEN host_s ELSE few
             env == InheritedOrPassed(launch, host)
  <1>1. env = p ++ rest
    BY DEF InheritedOrPassed
  <1>2. DOMAIN few \subseteq InheritedByDefault
    <2> HIDE DEF host_s
    <2> QED BY OnlyIs
  <1> HIDE DEF p, few, host_s, env
  <1>3. "inherit_env" \notin launch.config.yes => DOMAIN rest \subseteq InheritedByDefault
    BY <1>2
  <1> HIDE DEF rest
  <1>4. \A v, x : Sees(p, v, x) => Sees(env, v, x)
    BY <1>1, SeesOver
  <1>5. DOMAIN env = DOMAIN p \cup DOMAIN rest
    BY <1>1, Over
  <1> QED BY <1>3, <1>4, <1>5 DEF p, env

\* The proxy variables are two, and name the proxy under filtered egress.
LEMMA ProxyHolds ==
  ASSUME NEW c, NEW isolated
  PROVE  LET proxy == ProxyVariables(c, isolated) IN
         /\ DOMAIN proxy \subseteq {"http_proxy", "no_proxy"}
         /\ FilteredEgress(c) => /\ Sees(proxy, "http_proxy", ProxyAddress)
                                 /\ \E x \in {Loopback, Nowhere} : Sees(proxy, "no_proxy", x)
  BY DEF ProxyVariables, NotSet, Sees

\* The capability variables are those of the sockets that are reached.
LEMMA SocketsReached ==
  ASSUME NEW launch, Hidden(launch), NEW host
  PROVE  LET caps == CapabilityVariables(launch.config, host) IN
         /\ DOMAIN caps \subseteq DOMAIN SocketOf
         /\ launch.ssh => "SSH_AUTH_SOCK" \notin DOMAIN caps
         /\ Lockdown(launch.config) => DOMAIN caps = {}
  <1> DEFINE c == launch.config
             sockets == {v \in DOMAIN SocketOf : Reaches(c, SocketOf[v])}
             all == Found ++ HostVariables(host)
             caps == CapabilityVariables(c, host)
  <1>1. caps = Only(all, sockets)
    BY DEF CapabilityVariables
  <1>2. /\ sockets \subseteq DOMAIN SocketOf
        /\ Lockdown(c) => sockets = {}
        /\ \A v \in sockets : Reaches(c, SocketOf[v])
    BY DEF Reaches
  <1> HIDE DEF all, sockets, caps
  <1>3. DOMAIN caps = {v \in sockets : v \in DOMAIN all}
    BY <1>1, OnlyIs
  <1>4. SocketOf["SSH_AUTH_SOCK"] = "ssh"
    BY DEF SocketOf
  <1>5. Grants(c, "ssh") => "ssh" \in c.yes
    BY DEF Grants, GrantedByNo, GrantedUnlessYes
  <1>6. launch.ssh => "SSH_AUTH_SOCK" \notin sockets
    BY <1>2, <1>4, <1>5 DEF Reaches, Hidden
  <1> QED BY <1>2, <1>3, <1>6 DEF caps

\* The environment of the Linux child, of any finalized launch.
LEMMA LinuxHolds ==
  ASSUME NEW launch, Hidden(launch), NEW host
  PROVE  LET env == LinuxEnvironment(launch, host) IN
         /\ ForcedHold(launch, env) /\ SocketsNamed(launch, host)
         /\ LockedNamesNothing(launch, host)
  <1> DEFINE c == launch.config
             K == BoundKeys(c)
             proxy == ProxyVariables(c, TRUE)
             caps == CapabilityVariables(c, host)
             login == LoginName(launch)
             inherited == InheritedOrPassed(launch, host)
             p == Passed(launch, host)
             env == LinuxEnvironment(launch, host)
  <1>1. /\ DOMAIN p \subseteq Named(launch)
        /\ K \cap SetItself = {} => \A key \in K : Sees(p, key, Placeholder)
        /\ launch.ssh => Sees(p, "SSH_AUTH_SOCK", SelectedAgent)
    BY PassedHolds
  <1>2. /\ \A v, x : Sees(p, v, x) => Sees(inherited, v, x)
        /\ "inherit_env" \notin c.yes => DOMAIN inherited \subseteq Named(launch) \cup InheritedByDefault
    BY <1>1, InheritedHolds
  <1>3. /\ DOMAIN proxy \subseteq {"http_proxy", "no_proxy"}
        /\ FilteredEgress(c) => /\ Sees(proxy, "http_proxy", ProxyAddress)
                                /\ \E x \in {Loopback, Nowhere} : Sees(proxy, "no_proxy", x)
    BY ProxyHolds
  <1>4. /\ DOMAIN caps \subseteq DOMAIN SocketOf
        /\ launch.ssh => "SSH_AUTH_SOCK" \notin DOMAIN caps
        /\ Lockdown(c) => DOMAIN caps = {}
    BY SocketsReached
  <1>5. DOMAIN login \subseteq {"USER"} \ Named(launch)
    BY DEF LoginName, NotSet
  <1>6. launch.ssh => ~Lockdown(c)
    BY DEF Hidden
  <1>7. /\ "USER" \notin DOMAIN SocketOf /\ {"http_proxy", "no_proxy", "PATH"} \cap DOMAIN SocketOf = {}
        /\ \A v \in InheritedByDefault : v \notin DOMAIN SocketOf
        /\ "SSH_AUTH_SOCK" \notin {"USER", "http_proxy", "no_proxy", "PATH"}
        /\ DOMAIN SocketOf \subseteq SetItself /\ {"PATH", "http_proxy", "no_proxy"} \subseteq SetItself
    BY DEF SocketOf, InheritedByDefault, SetItself
  <1>8. env = IF Lockdown(c) THEN BoundPlaceholders(launch, host) ++ (proxy ++ Locked(host))
              ELSE proxy ++ (caps ++ (login ++ inherited))
    BY DEF LinuxEnvironment, Unlocked, ++
  <1> HIDE DEF c, K, proxy, caps, login, inherited, p, env
  <1>9. \A v, x : Sees(proxy, v, x) => v \in DOMAIN proxy
    BY DEF Sees
  <1>10. CASE ~Lockdown(c)
    <2> DEFINE e1 == login ++ inherited
               e2 == caps ++ e1
    <2>1. /\ env = proxy ++ e2 /\ DOMAIN e1 = DOMAIN login \cup DOMAIN inherited
          /\ DOMAIN e2 = DOMAIN caps \cup DOMAIN e1 /\ DOMAIN env = DOMAIN proxy \cup DOMAIN e2
      BY <1>8, <1>10, Over
    <2>2. \A v, x : v \notin DOMAIN login /\ Sees(inherited, v, x) => Sees(e1, v, x)
      BY SeesOver
    <2>3. \A v, x : v \notin DOMAIN caps /\ Sees(e1, v, x) => Sees(e2, v, x)
      BY SeesOver
    <2>4. \A v, x : v \notin DOMAIN proxy /\ Sees(e2, v, x) => Sees(proxy ++ e2, v, x)
      BY SeesOver
    <2>5. \A v, x : Sees(proxy, v, x) => Sees(proxy ++ e2, v, x)
      BY SeesOver
    <2>6. \A v, x : Sees(caps, v, x) => Sees(e2, v, x)
      BY SeesOver
    <2> HIDE DEF e1, e2
    <2>7. ASSUME NEW v, NEW x, Sees(p, v, x), v \notin DOMAIN caps, v \notin DOMAIN proxy
          PROVE  Sees(env, v, x)
      <3>1. v \in Named(launch)
        BY <1>1, <2>7 DEF Sees
      <3>2. v \notin DOMAIN login
        BY <1>5, <3>1
      <3> QED BY <1>2, <2>1, <2>2, <2>3, <2>4, <2>7, <3>2
    <2>8. ForcedHold(launch, env)
      <3> SUFFICES ASSUME K \cap SetItself = {}
                   PROVE  /\ \A key \in K : Sees(env, key, Placeholder)
                          /\ FilteredEgress(c) =>
                                Sees(env, "http_proxy", ProxyAddress)
                                /\ env.no_proxy \in {Loopback, Nowhere}
                          /\ launch.ssh => Sees(env, "SSH_AUTH_SOCK", SelectedAgent)
                          /\ Lockdown(c) => Sees(env, "PATH", LockdownPath)
        BY DEF ForcedHold, K, c
      <3>1. ASSUME NEW key \in K PROVE Sees(env, key, Placeholder)
        <4>1. key \notin SetItself
          BY <3>1
        <4>2. key \notin DOMAIN caps /\ key \notin DOMAIN proxy
          BY <1>3, <1>4, <1>7, <4>1
        <4> QED BY <1>1, <2>7, <4>2
      <3>2. FilteredEgress(c) =>
                Sees(env, "http_proxy", ProxyAddress) /\ env.no_proxy \in {Loopback, Nowhere}
        BY <1>3, <2>1, <2>5 DEF Sees
      <3>3. launch.ssh => Sees(env, "SSH_AUTH_SOCK", SelectedAgent)
        BY <1>1, <1>3, <1>4, <1>7, <2>7
      <3> QED BY <1>10, <3>1, <3>2, <3>3
    <2>9. SocketsNamed(launch, host)
      <3>1. ASSUME NEW v \in DOMAIN caps PROVE Sees(env, v, caps[v])
        <4>1. Sees(caps, v, caps[v])
          BY <3>1 DEF Sees
        <4>2. v \notin DOMAIN proxy
          BY <1>3, <1>4, <1>7
        <4> QED BY <2>1, <2>4, <2>6, <4>1, <4>2
      <3>2. ASSUME "inherit_env" \notin c.yes, NEW v, v \in DOMAIN env, v \in DOMAIN SocketOf
            PROVE  v \in DOMAIN caps \cup Named(launch)
        BY <1>2, <1>3, <1>5, <1>7, <2>1, <3>2
      <3> QED BY <3>1, <3>2 DEF SocketsNamed, caps, c, env
    <2>10. LockedNamesNothing(launch, host)
      BY <1>10 DEF LockedNamesNothing, c
    <2> QED BY <2>8, <2>9, <2>10 DEF env
  <1>11. CASE Lockdown(c)
    <2> DEFINE own == Locked(host)
               bound == BoundPlaceholders(launch, host)
               e1 == proxy ++ own
    <2>1. /\ env = bound ++ e1 /\ DOMAIN e1 = DOMAIN proxy \cup DOMAIN own
          /\ DOMAIN env = DOMAIN bound \cup DOMAIN e1
      BY <1>8, <1>11, Over
    <2>2. /\ DOMAIN bound = {v \in K : v \in DOMAIN p}
          /\ \A v \in DOMAIN bound : bound[v] = p[v]
      BY OnlyIs DEF BoundPlaceholders, K, c, p
    <2>3. DOMAIN own \subseteq {"PATH", "HOME", "TERM"} /\ Sees(own, "PATH", LockdownPath)
      <3> DEFINE path == [PATH |-> LockdownPath]
                 some == Only(HostVariables(host), {"HOME", "TERM"})
      <3>1. DOMAIN some \subseteq {"HOME", "TERM"}
        BY OnlyIs
      <3>2. DOMAIN path = {"PATH"} /\ Sees(path, "PATH", LockdownPath)
        BY DEF Sees
      <3> HIDE DEF some, path
      <3>3. own = path ++ some
        BY DEF Locked, path, some
      <3> HIDE DEF own
      <3>4. DOMAIN own = DOMAIN path \cup DOMAIN some
        BY <3>3, Over
      <3>5. Sees(own, "PATH", LockdownPath)
        BY <3>2, <3>3, SeesOver
      <3> QED BY <3>1, <3>2, <3>4, <3>5
    <2>4. \A v, x : Sees(bound, v, x) => Sees(bound ++ e1, v, x)
      BY SeesOver
    <2>5. \A v, x : v \notin DOMAIN bound /\ Sees(e1, v, x) => Sees(bound ++ e1, v, x)
      BY SeesOver
    <2>6. \A v, x : Sees(proxy, v, x) => Sees(e1, v, x)
      BY SeesOver
    <2>7. \A v, x : v \notin DOMAIN proxy /\ Sees(own, v, x) => Sees(e1, v, x)
      BY SeesOver
    <2> HIDE DEF own, bound, e1
    <2>8. ForcedHold(launch, env)
      <3> SUFFICES ASSUME K \cap SetItself = {}
                   PROVE  /\ \A key \in K : Sees(env, key, Placeholder)
                          /\ FilteredEgress(c) =>
                                Sees(env, "http_proxy", ProxyAddress)
                                /\ env.no_proxy \in {Loopback, Nowhere}
                          /\ launch.ssh => Sees(env, "SSH_AUTH_SOCK", SelectedAgent)
                          /\ Lockdown(c) => Sees(env, "PATH", LockdownPath)
        BY DEF ForcedHold, K, c
      <3>1. \A v \in SetItself : v \notin DOMAIN bound
        BY <2>2
      <3>2. ASSUME NEW key \in K PROVE Sees(env, key, Placeholder)
        <4>1. Sees(p, key, Placeholder)
          BY <1>1
        <4>2. Sees(bound, key, Placeholder)
          BY <2>2, <4>1 DEF Sees
        <4> QED BY <2>1, <2>4, <4>2
      <3>3. \A v \in {"PATH", "http_proxy", "no_proxy"} : v \notin DOMAIN bound
        BY <1>7, <3>1
      <3>4. ASSUME FilteredEgress(c)
            PROVE  Sees(env, "http_proxy", ProxyAddress) /\ env.no_proxy \in {Loopback, Nowhere}
        <4>1. Sees(e1, "http_proxy", ProxyAddress)
              /\ \E x \in {Loopback, Nowhere} : Sees(e1, "no_proxy", x)
          BY <1>3, <2>6, <3>4
        <4>2. Sees(env, "http_proxy", ProxyAddress)
              /\ \E x \in {Loopback, Nowhere} : Sees(env, "no_proxy", x)
          BY <2>1, <2>5, <3>3, <4>1
        <4> QED BY <4>2 DEF Sees
      <3>5. Sees(env, "PATH", LockdownPath)
        <4>1. "PATH" \notin DOMAIN proxy
          BY <1>3
        <4>2. Sees(e1, "PATH", LockdownPath)
          BY <2>3, <2>7, <4>1
        <4> QED BY <2>1, <2>5, <3>3, <4>2
      <3> QED BY <1>6, <1>11, <3>2, <3>4, <3>5
    <2>9. DOMAIN env \subseteq {"PATH", "HOME", "TERM", "http_proxy", "no_proxy"} \cup (K \cap Named(launch))
      BY <1>1, <1>3, <2>1, <2>2, <2>3
    <2>10. SocketsNamed(launch, host)
      <3>1. DOMAIN caps = {}
        BY <1>4, <1>11
      <3>2. \A v \in DOMAIN env : v \in DOMAIN SocketOf => v \in Named(launch)
        <4>1. \A v \in {"PATH", "HOME", "TERM", "http_proxy", "no_proxy"} : v \notin DOMAIN SocketOf
          BY DEF SocketOf
        <4> QED BY <2>9, <4>1
      <3> QED BY <3>1, <3>2 DEF SocketsNamed, caps, c, env
    <2>11. LockedNamesNothing(launch, host)
      BY <2>9 DEF LockedNamesNothing, K, c, env
    <2> QED BY <2>8, <2>10, <2>11 DEF env
  <1> QED BY <1>10, <1>11

\* The environment of the macOS child, of any finalized launch.
LEMMA MacHolds ==
  ASSUME NEW launch, Hidden(launch), NEW host
  PROVE  ForcedHold(launch, MacEnvironment(launch, host))
  <1> DEFINE c == launch.config
             K == BoundKeys(c)
             proxy == ProxyVariables(c, "allow_loopback_connect" \in c.yes /\ ~Lockdown(c))
             docker == IF Reaches(c, "no_docker") /\ ~BrowserProfile(c)
                       THEN Only(Found, {"DOCKER_HOST"}) ELSE NotSet
             path == IF Lockdown(c) THEN [PATH |-> LockdownPath] ELSE NotSet
             user == ClaudeUser(launch, host)
             inherited == InheritedOrPassed(launch, host)
             p == Passed(launch, host)
             env == MacEnvironment(launch, host)
  <1>1. /\ DOMAIN p \subseteq Named(launch)
        /\ K \cap SetItself = {} => \A key \in K : Sees(p, key, Placeholder)
        /\ launch.ssh => Sees(p, "SSH_AUTH_SOCK", SelectedAgent)
    BY PassedHolds
  <1>2. \A v, x : Sees(p, v, x) => Sees(inherited, v, x)
    BY <1>1, InheritedHolds
  <1>3. /\ DOMAIN proxy \subseteq {"http_proxy", "no_proxy"}
        /\ FilteredEgress(c) => /\ Sees(proxy, "http_proxy", ProxyAddress)
                                /\ \E x \in {Loopback, Nowhere} : Sees(proxy, "no_proxy", x)
    BY ProxyHolds
  <1>4. DOMAIN docker \subseteq {"DOCKER_HOST"}
    <2>1. DOMAIN Only(Found, {"DOCKER_HOST"}) \subseteq {"DOCKER_HOST"}
      BY OnlyIs
    <2> QED BY <2>1 DEF NotSet
  <1>5. DOMAIN path \subseteq {"PATH"} /\ (Lockdown(c) => Sees(path, "PATH", LockdownPath))
    BY DEF NotSet, Sees
  <1>6. DOMAIN user \subseteq {"USER"} \ Named(launch)
    <2> DEFINE some == Only(HostVariables(host), {"USER"})
    <2>1. DOMAIN some \subseteq {"USER"}
      BY OnlyIs
    <2> HIDE DEF some
    <2>2. user = IF /\ Grants(c, "agent_state") /\ c.command = "claude"
                    /\ "USER" \notin Named(launch)
                 THEN some ELSE NotSet
      BY DEF ClaudeUser, some
    <2> QED BY <2>1, <2>2 DEF NotSet
  <1>7. /\ \A v \in {"DOCKER_HOST", "PATH", "http_proxy", "no_proxy"} : v \in SetItself
        /\ launch.ssh => ~Lockdown(c)
    BY DEF SocketOf, SetItself, Hidden
  <1>8. env = proxy ++ (docker ++ (path ++ (user ++ inherited)))
    BY DEF MacEnvironment, ++
  <1> HIDE DEF c, K, proxy, docker, path, user, inherited, p, env
  <1> DEFINE e1 == user ++ inherited
             e2 == path ++ e1
             e3 == docker ++ e2
  <1>9. /\ \A v, x : v \notin DOMAIN user /\ Sees(inherited, v, x) => Sees(e1, v, x)
        /\ \A v, x : v \notin DOMAIN path /\ Sees(e1, v, x) => Sees(e2, v, x)
        /\ \A v, x : Sees(path, v, x) => Sees(e2, v, x)
        /\ \A v, x : v \notin DOMAIN docker /\ Sees(e2, v, x) => Sees(e3, v, x)
    BY SeesOver
  <1>10. /\ \A v, x : v \notin DOMAIN proxy /\ Sees(e3, v, x) => Sees(proxy ++ e3, v, x)
         /\ \A v, x : Sees(proxy, v, x) => Sees(proxy ++ e3, v, x)
    BY SeesOver
  <1>11. env = proxy ++ e3
    BY <1>8
  <1> HIDE DEF e1, e2, e3
  <1>12. ASSUME NEW v, NEW x, Sees(p, v, x), v \notin {"DOCKER_HOST", "http_proxy", "no_proxy"},
                v \notin DOMAIN path
         PROVE  Sees(env, v, x)
    <2>1. v \notin DOMAIN user
      BY <1>1, <1>6, <1>12 DEF Sees
    <2>2. Sees(e2, v, x)
      BY <1>2, <1>9, <1>12, <2>1
    <2>3. v \notin DOMAIN docker /\ v \notin DOMAIN proxy
      BY <1>3, <1>4, <1>12
    <2> QED BY <1>9, <1>10, <1>11, <2>2, <2>3
  <1>13. ASSUME K \cap SetItself = {}, NEW key \in K PROVE Sees(env, key, Placeholder)
    <2>1. key \notin SetItself
      BY <1>13
    <2>2. key \notin {"DOCKER_HOST", "http_proxy", "no_proxy"} /\ key \notin DOMAIN path
      BY <1>5, <1>7, <2>1
    <2> QED BY <1>1, <1>12, <1>13, <2>2
  <1>14. ASSUME FilteredEgress(c)
         PROVE  Sees(env, "http_proxy", ProxyAddress) /\ env.no_proxy \in {Loopback, Nowhere}
    <2>1. Sees(env, "http_proxy", ProxyAddress) /\ \E x \in {Loopback, Nowhere} : Sees(env, "no_proxy", x)
      BY <1>3, <1>10, <1>11, <1>14
    <2> QED BY <2>1 DEF Sees
  <1>15. launch.ssh => Sees(env, "SSH_AUTH_SOCK", SelectedAgent)
    BY <1>1, <1>5, <1>12
  <1>16. ASSUME Lockdown(c) PROVE Sees(env, "PATH", LockdownPath)
    <2>1. "PATH" \notin DOMAIN docker /\ "PATH" \notin DOMAIN proxy
      BY <1>3, <1>4
    <2>2. Sees(e2, "PATH", LockdownPath)
      BY <1>5, <1>9, <1>16
    <2> QED BY <1>9, <1>10, <1>11, <2>1, <2>2
  <1> QED BY <1>13, <1>14, <1>15, <1>16 DEF ForcedHold, c, K, env

(***************************************************************************)
(* Every configuration that is read, stored or chosen has entries of the   *)
(* type, and every approved variable is mentioned by the profile it came   *)
(* with.                                                                   *)
(***************************************************************************)
\* No profile and no review have nothing approved.
LEMMA NothingProfiled == Profiled(NoDoc) /\ Profiled(NoReview)
  <1>1. /\ NoDoc.grants = EmptyConfig /\ NoDoc.approved = {}
        /\ NoReview.grants = EmptyConfig /\ NoReview.approved = {}
    BY DEF NoDoc, NoReview
  <1>2. Requests({})
    BY FS_EmptySet DEF Requests
  <1> QED BY <1>1, <1>2, NothingSays DEF Profiled

\* Before the files are read nothing is loaded.
LEMMA NotLoadedSays ==
  ASSUME loaded = NotLoaded
  PROVE  LoadedSays
  <1>1. loaded.global = EmptyConfig /\ loaded.doc = NoDoc /\ ~loaded.trusted
    BY DEF NotLoaded
  <1> QED BY <1>1, NothingProfiled, NothingSays DEF LoadedSays

\* Every launch starts with layers of the type.
LEMMA InitSays == LaunchInit => Saying
  <1> SUFFICES ASSUME LaunchInit PROVE Saying
    OBVIOUS
  <1>1. PICK l \in Launches : in = l.in /\ disk = l.disk
    BY DEF LaunchInit
  <1>2. WellFormedLaunch(l)
    BY LaunchesAssumption
  <1>3. \A c \in {l.in.cli, l.disk.doc.grants, l.disk.doc.constraints, l.disk.legacy.config,
                  l.disk.global} : EnvOK(c)
    BY <1>2 DEF WellFormedLaunch, WellFormedLayer, EnvOK
  <1>4. \A k \in DOMAIN disk.tables : EnvOK(disk.tables[k])
    BY <1>1, <1>2 DEF WellFormedLaunch, WellFormedLayer, EnvOK
  <1>5. Requests(in.requests) /\ Requests(disk.doc.approved)
        /\ \A a \in disk.doc.approved : a.kind = "secret" => Mentions(disk.doc.grants.env, a.value)
    BY <1>1, <1>2 DEF WellFormedLaunch
  <1>6. DiskSays
    BY <1>1, <1>3, <1>4, <1>5 DEF DiskSays, Profiled
  <1>7. LoadedSays
    BY NotLoadedSays DEF LaunchInit
  <1>8. Profiled(review)
    BY NothingProfiled DEF LaunchInit
  <1> QED BY <1>6, <1>7, <1>8 DEF Saying

\* What the layers read is what the disk has.
LEMMA LoadSays ==
  ASSUME LaunchOK, DiskSays
  PROVE  /\ EnvOK(Layers.global) /\ Profiled(Layers.doc)
         /\ Layers.trusted => EnvOK(Project(Layers))
  <1>1. Profiled(Stored)
    BY NothingProfiled DEF Stored, DiskSays
  <1>2. EnvOK(GlobalFor(in.cli, disk))
    <2> DEFINE table == disk.tables[Override(in.cli.command, disk.global.command, NoCommand)]
    <2>1. Override(in.cli.command, disk.global.command, NoCommand) \in DOMAIN disk.tables
      BY DEF LaunchOK, DiskOK, Override
    <2>2. EnvOK(table) /\ EnvOK(disk.global) /\ WellFormed(disk.global)
      BY <2>1 DEF DiskSays, LaunchOK, DiskOK, Sound
    <2>3. GlobalFor(in.cli, disk) = Layer(table, disk.global)
      BY DEF GlobalFor, MergeTrusted
    <2> HIDE DEF table
    <2> QED BY <2>2, <2>3, LayerSays
  <1>3. /\ Layers.global = GlobalFor(in.cli, disk) /\ Layers.doc = Stored
        /\ Layers.trusted => ~Stored.present
        /\ Layers.legacy \in {EmptyConfig, disk.legacy.config}
    BY DEF Layers
  <1>4. EnvOK(Layers.legacy)
    BY <1>3, NothingSays DEF DiskSays
  <1> HIDE DEF Layers
  <1> QED BY <1>1, <1>2, <1>3, <1>4 DEF Project

\* Whatever the user selects and approves is of the type.
LEMMA ChoiceSays ==
  ASSUME LaunchOK, Saying, NEW sel \in Selections, NEW approved \in Approvals
  PROVE  LET g == Chosen(sel, approved, loaded.harness) IN
         /\ Sound(g) /\ EnvOK(g) /\ Requests(approved)
         /\ \A a \in approved : a.kind = "secret" => Mentions(g.env, a.value)
  <1>1. Requests(approved)
    <2>1. Requests(in.requests) /\ Requests(loaded.doc.approved)
      BY DEF Saying, DiskSays, LoadedSays, Profiled
    <2>2. approved = loaded.doc.approved \/ approved \subseteq in.requests
      BY DEF Approvals
    <2> QED BY <2>1, <2>2, FS_Subset DEF Requests
  <1> QED BY <1>1, SoundSelection, SelectionSays DEF Chosen

\* What the person confirms.
LEMMA ConfirmReviews ==
  ASSUME Confirm
  PROVE  \E sel \in Selections, approved \in Approvals :
            LET grants == Chosen(sel, approved, loaded.harness)
                ssh == SelectedKey("selected_key" \in sel)
                effective == BuildEffective(loaded.global, grants, in.cli, loaded)
                f == Finalized(effective, ssh, Host)
            IN  /\ review'.grants = grants /\ review'.approved = approved
                /\ review'.end \in {"saved", "once"} /\ Finalizes(effective, ssh, Host)
                /\ review'.launch.config = f.config /\ review'.launch.secrets = f.secrets
                /\ review'.launch.ssh = f.ssh
  <1>1. PICK sel \in Selections, approved \in Approvals, end \in {"saved", "once"} :
            LET grants == SelectionGrants(sel, approved, loaded.harness, TRUE)
                ssh == "selected_key" \in sel
                effective == BuildEffective(loaded.global, grants, in.cli, loaded)
                forge == IF in.terminal = "plain" THEN Unreviewed
                         ELSE IF Mode("clean") \/ Lockdown(effective) THEN NoForge
                         ELSE disk.forge
            IN  /\ Finalizes(effective, SelectedKey(ssh), Host)
                /\ review' = [end |-> end, grants |-> grants, approved |-> approved, ssh |-> ssh,
                              launch |-> [Finalized(effective, SelectedKey(ssh), Host)
                                            EXCEPT !.reviewed = forge]]
    BY DEF Confirm
  <1> DEFINE grants == Chosen(sel, approved, loaded.harness)
             effective == BuildEffective(loaded.global, grants, in.cli, loaded)
             ssh == SelectedKey("selected_key" \in sel)
             f == Finalized(effective, ssh, Host)
             forge == IF in.terminal = "plain" THEN Unreviewed
                      ELSE IF Mode("clean") \/ Lockdown(effective) THEN NoForge
                      ELSE disk.forge
  <1>2. /\ Finalizes(effective, ssh, Host)
        /\ review' = [end |-> end, grants |-> grants, approved |-> approved,
                      ssh |-> "selected_key" \in sel,
                      launch |-> [f EXCEPT !.reviewed = forge]]
    BY <1>1 DEF Chosen
  <1>3. DOMAIN f = {"config", "secrets", "ssh", "reviewed", "forge"}
    BY DEF Finalized
  <1> HIDE DEF f, forge, effective, ssh, grants
  <1>4. /\ review'.grants = grants /\ review'.approved = approved /\ review'.end = end
        /\ review'.launch.config = f.config /\ review'.launch.secrets = f.secrets
        /\ review'.launch.ssh = f.ssh
    BY <1>2, <1>3
  <1> QED BY <1>2, <1>4 DEF f, effective, ssh, grants

\* No step of the launch leaves the type.
LEMMA StepSays ==
  ASSUME LaunchOK, Saying, LaunchStep
  PROVE  Saying'
  <1>1. ASSUME UNCHANGED in, DOMAIN disk' = DOMAIN disk, disk'.tables = disk.tables,
               EnvOK(disk'.global), EnvOK(disk'.legacy.config), Profiled(disk'.doc)
        PROVE  DiskSays'
    BY <1>1 DEF Saying, DiskSays
  <1>2. ASSUME disk'.doc.grants = disk.doc.grants, disk'.doc.approved = disk.doc.approved
        PROVE  Profiled(disk'.doc)
    BY <1>2 DEF Saying, DiskSays, Profiled
  <1>3. UNCHANGED loaded => LoadedSays'
    BY DEF Saying, LoadedSays, Project
  <1>4. UNCHANGED review => Profiled(review)'
    BY DEF Saying, Profiled
  <1>5. UNCHANGED <<in, disk>> => DiskSays'
    BY DEF Saying, DiskSays, Profiled
  <1>6. ASSUME NEW c, StoreConstraints(c), UNCHANGED in PROVE DiskSays'
    <2>1. /\ disk'.tables = disk.tables /\ disk'.global = disk.global /\ disk'.legacy = disk.legacy
          /\ disk'.doc.grants = disk.doc.grants /\ disk'.doc.approved = disk.doc.approved
          /\ DOMAIN disk' = DOMAIN disk
      <3> DEFINE k == Constraints(c)
      <3>1. disk' = [disk EXCEPT !.doc.present = TRUE, !.doc.constraints = k]
        BY <1>6 DEF StoreConstraints, k
      <3> HIDE DEF k
      <3> QED BY <3>1 DEF LaunchOK, DiskOK, NoDoc
    <2> QED BY <1>1, <1>2, <1>6, <2>1 DEF Saying, DiskSays
  <1>7. CASE Migrate
    <2>1. UNCHANGED <<in, loaded, review>>
      BY <1>7 DEF Migrate
    <2>2. CASE UNCHANGED disk
      BY <1>3, <1>4, <1>5, <2>1, <2>2 DEF Saying
    <2>3. CASE ~UNCHANGED disk
      <3> DEFINE m == MergeProject(disk.doc.constraints, Constraints(disk.legacy.config))
      <3> HIDE DEF m
      <3>1. disk' = [disk EXCEPT !.legacy = [present |-> FALSE, config |-> EmptyConfig],
                                 !.doc.present = TRUE, !.doc.constraints = m]
        BY <1>7, <2>3 DEF Migrate, m
      <3>2. /\ disk'.tables = disk.tables /\ disk'.global = disk.global
            /\ disk'.legacy.config = EmptyConfig
            /\ disk'.doc.grants = disk.doc.grants /\ disk'.doc.approved = disk.doc.approved
            /\ DOMAIN disk' = DOMAIN disk
        BY <3>1 DEF LaunchOK, DiskOK, NoDoc
      <3>3. DiskSays'
        BY <1>1, <1>2, <2>1, <3>2, NothingSays DEF Saying, DiskSays
      <3> QED BY <1>3, <1>4, <2>1, <3>3 DEF Saying
    <2> QED BY <2>2, <2>3
  <1>8. CASE LoadPolicy
    <2>1. UNCHANGED <<in, disk, review>>
      BY <1>8 DEF LoadPolicy
    <2>2. CASE UNCHANGED loaded
      BY <1>3, <1>4, <1>5, <2>1, <2>2 DEF Saying
    <2>3. CASE ~UNCHANGED loaded
      <3> DEFINE h == Harness(WithProject(Baseline(Layers), Layers))
      <3> HIDE DEF h
      <3>1. loaded' = [Layers EXCEPT !.harness = h]
        BY <1>8, <2>3 DEF LoadPolicy, h
      <3>2. /\ loaded'.global = Layers.global /\ loaded'.doc = Layers.doc
            /\ loaded'.trusted = Layers.trusted /\ loaded'.legacy = Layers.legacy
        BY <3>1, StoredOK DEF LayersShape
      <3>3. LoadedSays'
        <4> HIDE DEF Layers
        <4> QED BY <3>2, LoadSays DEF LoadedSays, Saying, Profiled, Project
      <3> QED BY <1>4, <1>5, <2>1, <3>3 DEF Saying
    <2> QED BY <2>2, <2>3
  <1>9. CASE Confirm
    <2>1. UNCHANGED <<in, disk, loaded>>
      BY <1>9 DEF Confirm
    <2>2. PICK sel \in Selections, approved \in Approvals :
              review'.grants = Chosen(sel, approved, loaded.harness) /\ review'.approved = approved
      BY <1>9, ConfirmReviews
    <2>3. Profiled(review)'
      <3> DEFINE g == Chosen(sel, approved, loaded.harness)
      <3>1. /\ EnvOK(g) /\ Requests(approved)
            /\ \A a \in approved : a.kind = "secret" => Mentions(g.env, a.value)
        BY ChoiceSays
      <3> HIDE DEF g
      <3> QED BY <2>2, <3>1 DEF Profiled, g
    <2> QED BY <1>3, <1>5, <2>1, <2>3 DEF Saying
  <1>10. CASE SaveProfile
    <2>1. UNCHANGED <<in, loaded, review>>
      BY <1>10 DEF SaveProfile
    <2>2. CASE UNCHANGED disk
      BY <1>3, <1>4, <1>5, <2>1, <2>2 DEF Saying
    <2>3. CASE ~UNCHANGED disk
      <3>1. disk' = [disk EXCEPT
                        !.doc = [present |-> TRUE, onboarded |-> TRUE, grants |-> review.grants,
                                 constraints |-> @.constraints, approved |-> review.approved,
                                 ssh |-> review.ssh]]
        BY <1>10, <2>3 DEF SaveProfile
      <3>2. /\ disk'.tables = disk.tables /\ disk'.global = disk.global /\ disk'.legacy = disk.legacy
            /\ disk'.doc.grants = review.grants /\ disk'.doc.approved = review.approved
            /\ DOMAIN disk' = DOMAIN disk
        BY <3>1 DEF LaunchOK, DiskOK
      <3>3. DiskSays'
        BY <1>1, <2>1, <3>2 DEF Saying, DiskSays, Profiled
      <3> QED BY <1>3, <1>4, <2>1, <3>3 DEF Saying
    <2> QED BY <2>2, <2>3
  <1>11. CASE CancelReview \/ SkipReview
    <2>1. UNCHANGED <<in, disk, loaded>>
          /\ review'.grants = review.grants /\ review'.approved = review.approved
      BY <1>11 DEF CancelReview, SkipReview, LaunchOK, ReviewOK, NoReview
    <2>2. Profiled(review)'
      BY <2>1 DEF Saying, Profiled
    <2> QED BY <1>3, <1>5, <2>1, <2>2 DEF Saying
  <1>12. CASE SavePreferences
    <2>1. UNCHANGED <<in, loaded, review>>
      BY <1>12 DEF SavePreferences
    <2>2. CASE UNCHANGED disk
      BY <1>3, <1>4, <1>5, <2>1, <2>2 DEF Saying
    <2>3. CASE ~UNCHANGED disk
      <3> DEFINE bar == Override(cfg.bar, disk.global.bar, "unset")
      <3> HIDE DEF bar
      <3>1. disk' = [disk EXCEPT !.global.bar = bar]
        BY <1>12, <2>3 DEF SavePreferences, bar
      <3>2. DOMAIN disk.global = Fields
        BY FieldsOfConfig DEF LaunchOK, DiskOK, Sound, WellFormed
      <3>3. /\ disk'.tables = disk.tables /\ disk'.legacy = disk.legacy /\ disk'.doc = disk.doc
            /\ disk'.global.env = disk.global.env /\ disk'.global.secrets = disk.global.secrets
            /\ DOMAIN disk' = DOMAIN disk
        BY <3>1, <3>2 DEF LaunchOK, DiskOK, Fields
      <3>4. DiskSays'
        BY <1>1, <2>1, <3>3 DEF Saying, DiskSays, EnvOK
      <3> QED BY <1>3, <1>4, <2>1, <3>4 DEF Saying
    <2> QED BY <2>2, <2>3
  <1>13. CASE InitSaves \/ AutoSave
    <2>1. UNCHANGED <<in, loaded, review>>
          /\ (UNCHANGED disk \/ \E c : StoreConstraints(c))
      BY <1>13 DEF InitSaves, AutoSave
    <2> QED BY <1>3, <1>4, <1>5, <1>6, <2>1 DEF Saying
  <1>14. CASE ForgeChanges
    <2>1. PICK f : disk' = [disk EXCEPT !.forge = f]
      BY <1>14 DEF ForgeChanges
    <2>2. /\ disk'.tables = disk.tables /\ disk'.global = disk.global /\ disk'.legacy = disk.legacy
          /\ disk'.doc = disk.doc /\ DOMAIN disk' = DOMAIN disk
      BY <2>1 DEF LaunchOK, DiskOK
    <2>3. UNCHANGED <<in, loaded, review>>
      BY <1>14 DEF ForgeChanges
    <2>4. DiskSays'
      BY <1>1, <2>2, <2>3 DEF Saying, DiskSays
    <2> QED BY <1>3, <1>4, <2>3, <2>4 DEF Saying
  <1>15. CASE Relaunch
    <2>1. /\ in'.cli = [EmptyConfig EXCEPT !.command = in.cli.command]
          /\ in'.requests = in.requests /\ disk' = disk
          /\ loaded' = NotLoaded /\ review' = NoReview
      BY <1>15 DEF Relaunch, LaunchOK, DiskOK
    <2>2. in'.cli.env = EmptyConfig.env /\ in'.cli.secrets = EmptyConfig.secrets
      BY <2>1 DEF EmptyConfig
    <2>3. EnvOK(in'.cli)
      BY <2>2, NothingSays DEF EnvOK
    <2>4. DiskSays'
      BY <2>1, <2>3 DEF Saying, DiskSays, Profiled
    <2>5. LoadedSays'
      <3>1. loaded'.global = EmptyConfig /\ loaded'.doc = NoDoc /\ ~loaded'.trusted
        BY <2>1 DEF NotLoaded
      <3> QED BY <3>1, NothingProfiled, NothingSays DEF LoadedSays
    <2>6. Profiled(review)'
      BY <2>1, NothingProfiled DEF Profiled
    <2> QED BY <2>4, <2>5, <2>6 DEF Saying
  <1>16. CASE \/ CheckFlags \/ UseProfile \/ UseLayers \/ LaunchReviewed \/ SettleCommand
              \/ ShowStatus \/ Bootstrap \/ Finalize
    <2>1. UNCHANGED <<in, disk, loaded, review>>
      BY <1>16 DEF CheckFlags, UseProfile, UseLayers, LaunchReviewed, SettleCommand, ShowStatus,
                   Bootstrap, Finalize
    <2> QED BY <1>3, <1>4, <1>5, <2>1 DEF Saying
  <1>17. CASE \/ PortsBound \/ PortTaken \/ AttachForge \/ PassthroughMissing \/ PlanRefused
              \/ Spawn \/ ChildExits
    <2>1. UNCHANGED <<in, disk, loaded, review>>
      BY <1>17 DEF PortsBound, PortTaken, AttachForge, PassthroughMissing, PlanRefused, Spawn,
                   ChildExits
    <2> QED BY <1>3, <1>4, <1>5, <2>1 DEF Saying
  <1> QED BY <1>7, <1>8, <1>9, <1>10, <1>11, <1>12, <1>13, <1>14, <1>15, <1>16, <1>17
      DEF LaunchStep, Proceed, Decided

(***************************************************************************)
(* The configuration in hand says what the layers of the launch say, and a *)
(* finalized one resolves them.                                            *)
(***************************************************************************)
\* The given entries are those of the layers and of the review.
LEMMA SameGiven ==
  ASSUME UNCHANGED <<in, loaded, review>>
  PROVE  GivenEntries' = GivenEntries
  BY DEF GivenEntries, Confirmed, Project

\* Reading the layers merges them.
LEMMA LoadResolves ==
  ASSUME LaunchOK, Asking, Saying, LoadPolicy
  PROVE  Resolving'
  <1> DEFINE merged == WithProject(Baseline(Layers), Layers)
             say == LayersSay(Layers.global, Layers.doc.grants, in.cli, Layers)
  <1>1. UNCHANGED <<in, review>> /\ pc = "load" /\ pc' \in {"review", "done"}
    BY DEF LoadPolicy, End
  <1>2. ~Confirmed' /\ review'.end = "none"
    BY <1>1 DEF Asking, Confirmed
  <1>3. CASE pc' = "done"
    BY <1>2, <1>3 DEF Resolving, Late
  <1>4. CASE pc' = "review"
    <2>1. loaded' = [Layers EXCEPT !.harness = Harness(merged)] /\ cfg' = merged
      BY <1>4 DEF LoadPolicy, End
    <2>2. EnvOK(merged) /\ Agree(merged.env, say)
      <3>1. /\ EnvOK(Layers.global) /\ EnvOK(Layers.doc.grants) /\ EnvOK(in.cli)
            /\ Layers.trusted => EnvOK(Project(Layers))
        BY LoadSays DEF Saying, DiskSays, Profiled
      <3>2. Sound(Layers.global) /\ Sound(Layers.doc.grants) /\ Sound(Project(Layers)) /\ Sound(in.cli)
        BY StoredOK DEF LaunchOK, DiskOK
      <3> HIDE DEF Layers
      <3> QED BY <3>1, <3>2, BaselineSays DEF Baseline
    <2> HIDE DEF merged
    <2>3. /\ loaded'.global = Layers.global /\ loaded'.doc = Layers.doc
          /\ loaded'.trusted = Layers.trusted /\ loaded'.legacy = Layers.legacy
      BY <2>1, StoredOK DEF LayersShape
    <2>4. GivenEntries' = say
      <3> HIDE DEF Layers
      <3> QED BY <1>1, <1>2, <2>3 DEF GivenEntries, LayersSay, Project
    <2> HIDE DEF say
    <2> QED BY <1>2, <1>4, <2>1, <2>2, <2>4 DEF Resolving, Late, EnvOK, Agree
  <1> QED BY <1>1, <1>3, <1>4

\* Confirming finalizes the effective configuration of what was chosen.
LEMMA ConfirmResolves ==
  ASSUME LaunchOK, Saying, Confirm
  PROVE  Resolving'
  <1>1. PICK sel \in Selections, approved \in Approvals :
            LET grants == Chosen(sel, approved, loaded.harness)
                ssh == SelectedKey("selected_key" \in sel)
                effective == BuildEffective(loaded.global, grants, in.cli, loaded)
                f == Finalized(effective, ssh, Host)
            IN  /\ review'.grants = grants /\ review'.approved = approved
                /\ review'.end \in {"saved", "once"} /\ Finalizes(effective, ssh, Host)
                /\ review'.launch.config = f.config /\ review'.launch.secrets = f.secrets
                /\ review'.launch.ssh = f.ssh
    BY ConfirmReviews
  <1> DEFINE grants == Chosen(sel, approved, loaded.harness)
             ssh == SelectedKey("selected_key" \in sel)
             effective == BuildEffective(loaded.global, grants, in.cli, loaded)
             f == Finalized(effective, ssh, Host)
             say == LayersSay(loaded.global, grants, in.cli, loaded)
  <1>2. Sound(grants) /\ EnvOK(grants)
    BY ChoiceSays
  <1> HIDE DEF grants
  <1>3. /\ Sound(loaded.global) /\ Sound(in.cli) /\ Sound(Project(loaded))
        /\ EnvOK(loaded.global) /\ EnvOK(in.cli) /\ (loaded.trusted => EnvOK(Project(loaded)))
    BY DEF LaunchOK, LoadedOK, DiskOK, Saying, DiskSays, LoadedSays
  <1>4. Sound(effective) /\ EnvOK(effective) /\ Agree(effective.env, say)
    BY <1>2, <1>3, SoundEffective, EffectiveSays
  <1> HIDE DEF effective, ssh
  <1>5. EntriesResolve(f, say) /\ Hidden(f)
    <2>1. Finalizes(effective, ssh, Host)
      BY <1>1 DEF effective, ssh, grants
    <2> HIDE DEF say
    <2> QED BY <1>4, <2>1, FinalizedResolves DEF Sound
  <1>6. /\ review'.grants = grants /\ review'.end \in {"saved", "once"}
        /\ review'.launch.config = f.config /\ review'.launch.secrets = f.secrets
        /\ review'.launch.ssh = f.ssh
    BY <1>1 DEF effective, ssh, grants
  <1> HIDE DEF f
  <1>7. UNCHANGED <<in, loaded>> /\ pc' = "confirmed"
    BY DEF Confirm
  <1>8. Confirmed' /\ GivenEntries' = say
    BY <1>6, <1>7 DEF Confirmed, GivenEntries, LayersSay, Project
  <1> HIDE DEF say
  <1>9. EntriesResolve(review'.launch, say) /\ Hidden(review'.launch)
    BY <1>5, <1>6, SameResolves
  <1>10. EntriesResolve(review.launch, GivenEntries)' /\ Hidden(review.launch)'
    BY <1>7, <1>8, <1>9 DEF EntriesResolve, Hidden, Host
  <1> QED BY <1>7, <1>8, <1>10 DEF Resolving, Late

\* A profile that is used without a review resolves the same layers.
LEMMA ProfileResolves ==
  ASSUME LaunchOK, Asking, Saying, UseProfile
  PROVE  Resolving'
  <1> DEFINE e == BuildEffective(loaded.global, loaded.doc.grants, in.cli, loaded)
             say == LayersSay(loaded.global, loaded.doc.grants, in.cli, loaded)
  <1>1. /\ UNCHANGED <<in, loaded, review>> /\ pc = "review" /\ pc' \in {"settle", "done"}
        /\ pc' = "settle" => cfg' = ApplyApproved(e)
    BY DEF UseProfile, End
  <1>2. review.end = "none" /\ ~Confirmed /\ ~Confirmed'
    BY <1>1 DEF Asking, Confirmed
  <1>3. GivenEntries = say
    BY <1>2 DEF GivenEntries, LayersSay
  <1>4. /\ Sound(loaded.global) /\ Sound(loaded.doc.grants) /\ Sound(in.cli) /\ Sound(Project(loaded))
        /\ EnvOK(loaded.global) /\ Profiled(loaded.doc) /\ EnvOK(in.cli)
        /\ (loaded.trusted => EnvOK(Project(loaded))) /\ Requests(in.requests)
    BY DEF LaunchOK, LoadedOK, DiskOK, Saying, DiskSays, LoadedSays
  <1>5. Sound(e) /\ EnvOK(e) /\ Agree(e.env, say) /\ say \in Seq(Entry)
    BY <1>4, SoundEffective, EffectiveSays, BaselineSays DEF Profiled
  <1> HIDE DEF e
  <1>6. ASSUME NEW a \in loaded.doc.approved, a.kind = "secret" PROVE Mentions(e.env, a.value)
    <2> DEFINE g == loaded.global.env
               q == loaded.doc.grants.env
               cli == in.cli.env
               own == IF loaded.trusted THEN Project(loaded).env ELSE <<>>
               key == a.value
               gq == g \o q
               gqc == gq \o cli
    <2>1. g \in Seq(Entry) /\ q \in Seq(Entry) /\ cli \in Seq(Entry) /\ own \in Seq(Entry)
      BY <1>4 DEF EnvOK, Profiled
    <2>2. Mentions(q, key)
      BY <1>4, <1>6 DEF Profiled
    <2>3. say = gqc \o own
      BY DEF LayersSay
    <2> HIDE DEF g, q, cli, own, key, say
    <2>4. gq \in Seq(Entry) /\ gqc \in Seq(Entry)
      BY <2>1
    <2>5. Mentions(gq, key)
      BY <2>1, <2>2, JoinMentions
    <2> HIDE DEF gq
    <2>6. Mentions(gqc, key)
      BY <2>1, <2>4, <2>5, JoinMentions
    <2> HIDE DEF gqc
    <2>7. Mentions(say, key)
      BY <2>1, <2>3, <2>4, <2>6, JoinMentions
    <2>8. Mentions(e.env, key)
      BY <1>5, <2>7, SameMentions DEF EnvOK
    <2> QED BY <2>8 DEF key
  <1>7. EnvOK(ApplyApproved(e)) /\ ApplyApproved(e).env = e.env
    BY <1>4, <1>5, <1>6, ApprovedSays DEF Sound
  <1> HIDE DEF say
  <1>8. GivenEntries' = say
    BY <1>1, <1>3, SameGiven
  <1>9. pc' = "settle" => EnvOK(cfg') /\ Agree(cfg'.env, say)
    BY <1>1, <1>5, <1>7
  <1> QED BY <1>1, <1>2, <1>8, <1>9 DEF Resolving, Late, EnvOK, Agree

\* A skipped review leaves only the command line's entries.
LEMMA SkipResolves ==
  ASSUME LaunchOK, Saying, SkipReview
  PROVE  Resolving'
  <1>1. /\ UNCHANGED <<in, loaded>> /\ review'.end = "skipped" /\ pc' \in {"settle", "done"}
        /\ pc' = "settle" => cfg' = NonInteractive(loaded, in.cli)
    BY DEF SkipReview, End, LaunchOK, ReviewOK, NoReview
  <1>2. ~Confirmed' /\ GivenEntries' = in.cli.env
    BY <1>1 DEF Confirmed, GivenEntries
  <1>3. EnvOK(NonInteractive(loaded, in.cli)) /\ Agree(NonInteractive(loaded, in.cli).env, in.cli.env)
    BY NonInteractiveSays DEF LaunchOK, LoadedOK, DiskOK, Saying, DiskSays
  <1> QED BY <1>1, <1>2, <1>3 DEF Resolving, Late, EnvOK, Agree

\* No step of the launch breaks what is resolved.
LEMMA StepResolves ==
  ASSUME LaunchOK, Asking, Saying, Resolving, LaunchStep
  PROVE  Resolving'
  <1>1. ASSUME UNCHANGED <<in, loaded, review>>,
               pc' \in {"review", "settle", "modes", "write"} /\ ~Confirmed =>
                    EnvOK(cfg') /\ Agree(cfg'.env, GivenEntries),
               pc' \in Late => EntriesResolve(final', GivenEntries) /\ Hidden(final')
        PROVE  Resolving'
    <2>1. GivenEntries' = GivenEntries /\ (Confirmed' <=> Confirmed)
      BY <1>1, SameGiven DEF Confirmed
    <2>2. EnvOK(cfg)' <=> EnvOK(cfg')
      BY DEF EnvOK
    <2>3. Agree(cfg'.env, GivenEntries) => Agree(cfg.env, GivenEntries)'
      BY <2>1 DEF Agree
    <2>4. /\ EntriesResolve(final', GivenEntries) => EntriesResolve(final, GivenEntries)'
          /\ Hidden(final') => Hidden(final)'
      BY <1>1, <2>1 DEF EntriesResolve, Hidden, Host
    <2>5. /\ EntriesResolve(review.launch, GivenEntries) => EntriesResolve(review.launch, GivenEntries)'
          /\ Hidden(review.launch) => Hidden(review.launch)'
      BY <1>1, <2>1 DEF EntriesResolve, Hidden, Host
    <2> QED BY <1>1, <2>1, <2>2, <2>3, <2>4, <2>5 DEF Resolving, Late
  <1>2. CASE LoadPolicy \/ Confirm \/ UseProfile \/ SkipReview
    BY <1>2, LoadResolves, ConfirmResolves, ProfileResolves, SkipResolves
  <1>3. CASE CheckFlags \/ ShowStatus \/ Bootstrap \/ PortTaken \/ Migrate \/ InitSaves
    <2>1. UNCHANGED <<in, loaded, review>> /\ pc' \in {"migrate", "load", "done"}
      BY <1>3 DEF CheckFlags, ShowStatus, Bootstrap, PortTaken, Migrate, InitSaves, End
    <2> QED BY <1>1, <2>1 DEF Late
  <1>4. CASE UseLayers \/ SavePreferences
    <2>1. UNCHANGED <<in, loaded, review, cfg>> /\ pc \in {"review", "modes"} /\ pc' \in {"settle", "write"}
      BY <1>4 DEF UseLayers, SavePreferences
    <2> QED BY <1>1, <2>1 DEF Resolving, Late
  <1>5. CASE LaunchReviewed \/ SaveProfile
    <2>1. UNCHANGED <<in, loaded, review>> /\ Confirmed /\ pc' \in {"reviewed", "settle", "done"}
      BY <1>5 DEF LaunchReviewed, SaveProfile, End, Asking
    <2> QED BY <1>1, <2>1 DEF Late
  <1>6. CASE CancelReview
    <2>1. pc' = "done" /\ review'.end = "cancelled"
      BY <1>6 DEF CancelReview, End, LaunchOK, ReviewOK, NoReview
    <2> QED BY <2>1 DEF Resolving, Confirmed, Late
  <1>7. CASE Relaunch
    <2>1. pc' = "flags" /\ review'.end = "none"
      BY <1>7 DEF Relaunch, NoReview
    <2> QED BY <2>1 DEF Resolving, Confirmed, Late
  <1>8. CASE SettleCommand
    <2> DEFINE command == IF CommandFromProject THEN Project(loaded).command
                          ELSE Override(in.cli.command, cfg.command, NoCommand)
               tc == ~CommandFromProject \/ loaded.trusted
    <2>1. cfg' = ApplyBrowser([cfg EXCEPT !.command = command], tc)
      BY <1>8 DEF SettleCommand
    <2>2. UNCHANGED <<in, loaded, review>> /\ pc = "settle" /\ pc' \in {"modes", "done"}
      BY <1>8 DEF SettleCommand, End
    <2> HIDE DEF command, tc
    <2>3. cfg'.env = cfg.env /\ cfg'.secrets = cfg.secrets
      BY <2>1, BrowserSays DEF LaunchOK, Sound, SameEntries
    <2> QED BY <1>1, <2>2, <2>3 DEF Resolving, Late, EnvOK
  <1>9. CASE Finalize
    <2> DEFINE ssh == SelectedKey(loaded.doc.ssh)
               f == Finalized(cfg, ssh, Host)
    <2>1. UNCHANGED <<in, loaded, review>> /\ pc = "write" /\ pc' \in {"ports", "done"}
      BY <1>9 DEF Finalize, End
    <2>2. pc' = "ports" => \/ Confirmed /\ final' = review.launch
                           \/ ~Confirmed /\ Finalizes(cfg, ssh, Host) /\ final' = f
      BY <1>9 DEF Finalize, End
    <2>3. ~Confirmed /\ Finalizes(cfg, ssh, Host) => EntriesResolve(f, GivenEntries) /\ Hidden(f)
      <3> HIDE DEF ssh
      <3> QED BY <2>1, FinalizedResolves DEF Resolving, LaunchOK, Sound
    <2> HIDE DEF f, ssh
    <2>4. pc' = "ports" => EntriesResolve(final', GivenEntries) /\ Hidden(final')
      BY <2>2, <2>3 DEF Resolving
    <2> QED BY <1>1, <2>1, <2>4 DEF Late
  <1>10. CASE AutoSave \/ PortsBound \/ Spawn \/ PassthroughMissing \/ PlanRefused \/ ChildExits
    <2>1. /\ UNCHANGED <<in, loaded, review, final>>
          /\ pc \in {"ports", "autosave", "spawn", "running"}
          /\ pc' \in {"autosave", "forge", "running", "done"}
      BY <1>10 DEF AutoSave, PortsBound, Spawn, PassthroughMissing, PlanRefused, ChildExits, End
    <2> QED BY <1>1, <2>1 DEF Resolving, Late
  <1>11. CASE AttachForge
    <2>1. UNCHANGED <<in, loaded, review>> /\ pc = "forge" /\ pc' \in {"spawn", "done"}
      BY <1>11 DEF AttachForge, End
    <2>2. final'.config = final.config /\ final'.secrets = final.secrets /\ final'.ssh = final.ssh
      BY <1>11 DEF AttachForge, LaunchOK, FinalOK, NoLaunch
    <2>3. EntriesResolve(final', GivenEntries) /\ Hidden(final')
      BY <2>1, <2>2, SameResolves DEF Resolving, Late
    <2> QED BY <1>1, <2>1, <2>3
  <1>12. CASE ForgeChanges
    <2>1. UNCHANGED <<in, loaded, review, cfg, final, pc>>
      BY <1>12 DEF ForgeChanges
    <2> QED BY <1>1, <2>1 DEF Resolving
  <1> QED BY <1>2, <1>3, <1>4, <1>5, <1>6, <1>7, <1>8, <1>9, <1>10, <1>11, <1>12
      DEF LaunchStep, Proceed, Decided

\* The inductive invariant of the environment.
LEMMA ResolvingInvariant == Spec => [](Saying /\ Resolving)
  <1>1. Init => Saying /\ Resolving
    <2> SUFFICES ASSUME Init PROVE Saying /\ Resolving
      OBVIOUS
    <2>1. pc = "flags" /\ review.end = "none"
      BY DEF Init, LaunchInit, NoReview
    <2> QED BY <2>1, InitSays DEF Init, Resolving, Confirmed, Late
  <1>2. SessionOK /\ Asking /\ Saying /\ Resolving /\ [Next]_vars => (Saying /\ Resolving)'
    <2> SUFFICES ASSUME SessionOK, Asking, Saying, Resolving, [Next]_vars
                 PROVE  (Saying /\ Resolving)'
      OBVIOUS
    <2>1. CASE LaunchStep
      BY <2>1, StepSays, StepResolves DEF SessionOK
    <2>2. CASE UNCHANGED launchVars
      <3>1. Saying'
        BY <2>2 DEF launchVars, Saying, DiskSays, LoadedSays, Profiled, Project
      <3>2. Resolving'
        BY <2>2 DEF launchVars, Resolving, Confirmed, GivenEntries, EntriesResolve, Hidden, Host,
                    Project, EnvOK, Agree
      <3> QED BY <3>1, <3>2
    <2> QED BY <2>1, <2>2, Stepping
  <1> QED BY <1>1, <1>2, SessionInvariant, AskingInvariant, PTL DEF Spec

(***************************************************************************)
(* The environment: whatever layers a launch is made of, whoever confirmed *)
(* it and whatever the host's variables are, an entry has the value of the *)
(* strongest layer that gives one, a bound secret is only ever a           *)
(* placeholder on both platforms, and on Linux the sockets' variables and  *)
(* lockdown are exact.                                                     *)
(***************************************************************************)
THEOREM SecretsStayHidden == Spec => []EnvironmentHidesSecrets
  <1>1. Resolving => EnvironmentHidesSecrets
    <2> SUFFICES ASSUME Resolving, pc = "running"
                 PROVE  /\ EntriesResolve(final, GivenEntries)
                        /\ ForcedHold(final, LinuxEnvironment(final, Host))
                        /\ ForcedHold(final, MacEnvironment(final, Host))
                        /\ SocketsNamed(final, Host) /\ LockedNamesNothing(final, Host)
      BY DEF EnvironmentHidesSecrets
    <2>1. EntriesResolve(final, GivenEntries) /\ Hidden(final)
      BY DEF Resolving, Late
    <2> QED BY <2>1, LinuxHolds, MacHolds
  <1> QED BY <1>1, ResolvingInvariant, PTL
================================================================================
