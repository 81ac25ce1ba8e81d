------------------------- MODULE EgressProxyProofs -------------------------
(***************************************************************************)
(* For every set of handler threads and hosts and every connection limit:  *)
(* the proxy serves no more than its limit, shows one prompt per host,     *)
(* keeps its tunnels inside the policy, and implements EgressPolicy.       *)
(***************************************************************************)
EXTENDS EgressProxy, FiniteSetTheorems, TLAPS

\* A handler past its request has a host.
HasHost ==
    \A c \in Conns :
        pc[c] \in {"resolve", "verdict", "waiting", "woken", "asking", "notify", "dial",
                   "relay"} => host[c] \in Hosts

\* What a handler believes about its host is what the cache says: an answer
\* is never changed once a handler may act on it.
VerdictsCurrent ==
    \A c \in Conns :
        /\ pc[c] = "resolve" => \/ verdict[c] = "listed" /\ host[c] \in AllowHosts
                                \/ verdict[c] = "ask"
        /\ pc[c] = "notify" => \/ verdict[c] = "noAnswer"
                               \/ verdict[c] \in Settled /\ decisions[host[c]] = verdict[c]
        /\ pc[c] = "dial" => \/ verdict[c] = "listed" /\ host[c] \in AllowHosts
                             \/ /\ verdict[c] \in {"allow", "allowInternal"}
                                /\ decisions[host[c]] = verdict[c]

\* The Pending marker and the handler that put it there.
Askers ==
    /\ \A c \in Conns : pc[c] = "asking" => decisions[host[c]] = "pending"
    /\ \A c, d \in Conns : pc[c] = "asking" /\ pc[d] = "asking" /\ host[c] = host[d] => c = d
    /\ \A h \in Hosts : decisions[h] = "pending" => \E c \in Conns : pc[c] = "asking" /\ host[c] = h

TunnelOwners == \A c \in Conns : tunnel[c] # NoTunnel => pc[c] = "relay"

Busy   == {c \in Conns : pc[c] # "idle"}
Served == {c \in Conns : Serving(c)}

Counted ==
    /\ active = Cardinality(Busy)
    /\ Cardinality(Served) <= MaxConnections
    /\ \A c \in Conns : refused[c] => pc[c] = "closing"

IInv == HasHost /\ VerdictsCurrent /\ Askers /\ TunnelOwners /\ TunnelsPermitted /\ Counted

----------------------------------------------------------------------------
\* A step that leaves the set of live handlers, and the refused ones among
\* them, alone leaves the counts alone.
LEMMA SameCounts ==
  ASSUME TypeOK, Counted, active' = active, refused' = refused,
         \A c \in Conns : /\ (pc'[c] = "idle") <=> (pc[c] = "idle")
                          /\ refused[c] => pc'[c] = "closing"
  PROVE  Counted'
<1>1. Busy' = Busy /\ Served' = Served
  BY DEF Busy, Served, Serving
<1> QED
  BY <1>1 DEF Counted

\* Sets of handlers are finite, and what is served is busy.
LEMMA FiniteHandlers ==
  /\ IsFiniteSet(Busy) /\ IsFiniteSet(Served)
  /\ Cardinality(Busy) \in Nat /\ Cardinality(Served) \in Nat
  /\ Cardinality(Served) <= Cardinality(Busy)
<1>1. IsFiniteSet(Busy) /\ IsFiniteSet(Served)
  BY ConnsAssumption, FS_Subset DEF Busy, Served
<1>2. Served \subseteq Busy
  BY DEF Busy, Served, Serving
<1> QED
  BY <1>1, <1>2, FS_Subset, FS_CardinalityType

----------------------------------------------------------------------------

\* What is inductive: the types and the invariant together.
J == TypeOK /\ IInv

\* Steps that change nothing the invariant relates: a refusal, a failed dial,
\* a wait, a spurious wake-up.
LEMMA QuietSteps ==
  ASSUME J, NEW c \in Conns,
         RefuseRequest(c) \/ RefuseRange(c) \/ WaitForOutcome(c) \/ ShareNoAnswer(c)
            \/ SpuriousWake(c) \/ DialFails(c)
  PROVE  J'
<1> USE DEF J, TypeOK, IInv, Goto, locals, Entering
<1>1. active' = active /\ refused' = refused /\ decisions' = decisions /\ tunnel' = tunnel
  BY DEF RefuseRequest, RefuseRange, WaitForOutcome, ShareNoAnswer, SpuriousWake, DialFails
<1>2. Counted'
  BY <1>1, SameCounts DEF RefuseRequest, RefuseRange, WaitForOutcome, ShareNoAnswer,
     SpuriousWake, DialFails, Counted
<1>3. TypeOK'
  BY DEF RefuseRequest, RefuseRange, WaitForOutcome, ShareNoAnswer, SpuriousWake, DialFails,
     Points
<1>4. HasHost' /\ VerdictsCurrent' /\ TunnelOwners'
  BY DEF RefuseRequest, RefuseRange, WaitForOutcome, ShareNoAnswer, SpuriousWake, DialFails,
     HasHost, VerdictsCurrent, TunnelOwners
<1>5. Askers'
  BY DEF RefuseRequest, RefuseRange, WaitForOutcome, ShareNoAnswer, SpuriousWake, DialFails,
     Askers
<1>6. TunnelsPermitted'
  BY <1>1 DEF TunnelsPermitted
<1> QED
  BY <1>2, <1>3, <1>4, <1>5, <1>6

\* The request and its one resolution (handle_conn up to the prompt), and a
\* decision read from the cache.
LEMMA RequestSteps ==
  ASSUME J, NEW c \in Conns, ReadRequest(c) \/ Resolve(c) \/ UseDecision(c)
  PROVE  J'
<1> USE DEF J, TypeOK, IInv, Goto, Entering
<1>1. active' = active /\ refused' = refused /\ decisions' = decisions /\ tunnel' = tunnel
  BY DEF ReadRequest, Resolve, UseDecision
<1>2. Counted'
  BY <1>1, SameCounts DEF ReadRequest, Resolve, UseDecision, Counted
<1>3. TypeOK'
  <2>1. CASE ReadRequest(c)
    BY <2>1, HostsAssumption DEF ReadRequest, Points
  <2>2. CASE Resolve(c)
    BY <2>2 DEF Resolve, Points
  <2>3. CASE UseDecision(c)
    <3>1. verdict' \in [Conns -> {"none", "listed", "ask", "noAnswer"} \cup Settled]
      BY <2>3 DEF UseDecision
    <3> QED
      BY <2>3, <3>1 DEF UseDecision, Points
  <2> QED
    BY <2>1, <2>2, <2>3
<1>4. HasHost' /\ VerdictsCurrent' /\ TunnelOwners'
  BY HostsAssumption DEF ReadRequest, Resolve, UseDecision, HasHost, VerdictsCurrent,
     TunnelOwners, Settled
<1>5. Askers'
  BY DEF ReadRequest, Resolve, UseDecision, Askers
<1>6. TunnelsPermitted'
  BY <1>1 DEF TunnelsPermitted
<1> QED
  BY <1>2, <1>3, <1>4, <1>5, <1>6

\* Becoming the asker: the marker appears with its owner, and no settled
\* host is touched.
LEMMA AskStep ==
  ASSUME J, NEW c \in Conns, BeginAsking(c)
  PROVE  J'
<1> USE DEF J, TypeOK, IInv, Goto, Entering, locals, BeginAsking
<1>1. host[c] \in Hosts /\ decisions[host[c]] = "none"
  BY DEF HasHost
<1>2. Counted'
  BY SameCounts DEF Counted
<1>3. TypeOK'
  BY DEF Points
<1>4. HasHost' /\ VerdictsCurrent' /\ TunnelOwners'
  BY <1>1 DEF HasHost, VerdictsCurrent, TunnelOwners, Settled
<1>5. Askers'
  BY <1>1 DEF Askers
<1>6. TunnelsPermitted'
  BY <1>1 DEF TunnelsPermitted, Policy!Permitted
<1> QED
  BY <1>2, <1>3, <1>4, <1>5, <1>6

\* The prompt's outcome: it replaces the marker of this handler's own host.
LEMMA AnswerStep ==
  ASSUME J, NEW c \in Conns, Answer(c)
  PROVE  J'
<1> USE DEF J, TypeOK, IInv, Goto, Answer
<1> PICK answer \in {Approval(c), "deny", "noAnswer"} :
       /\ verdict' = [verdict EXCEPT ![c] = answer]
       /\ decisions' = [decisions EXCEPT ![host[c]] = IF answer = "noAnswer" THEN "none" ELSE answer]
  OBVIOUS
<1>1. host[c] \in Hosts /\ decisions[host[c]] = "pending"
  BY DEF HasHost, Askers
<1>2. answer \in Settled \cup {"noAnswer"}
  BY DEF Settled, Approval
<1>3. Counted'
  BY SameCounts DEF Counted
<1>4. TypeOK'
  BY <1>2 DEF Points
<1>5. HasHost' /\ TunnelOwners'
  BY DEF HasHost, TunnelOwners
<1>6. VerdictsCurrent'
  BY <1>1, <1>2 DEF VerdictsCurrent, Settled
<1>7. Askers'
  BY <1>1, <1>2 DEF Askers, Settled
<1>8. TunnelsPermitted'
  BY <1>1 DEF TunnelsPermitted, Policy!Permitted
<1> QED
  BY <1>3, <1>4, <1>5, <1>6, <1>7, <1>8

\* notify_all: every waiter is woken and the asker goes its way.
LEMMA NotifyStep ==
  ASSUME J, NEW c \in Conns, Notify(c)
  PROVE  J'
<1> USE DEF J, TypeOK, IInv, locals, Notify, AfterPrompt
<1>1. Counted'
  BY SameCounts DEF Counted
<1>2. TypeOK'
  BY DEF Points
<1>3. HasHost' /\ TunnelOwners'
  BY DEF HasHost, TunnelOwners
<1>4. VerdictsCurrent'
  BY DEF VerdictsCurrent, Settled
<1>5. Askers'
  BY DEF Askers
<1>6. TunnelsPermitted'
  BY DEF TunnelsPermitted
<1> QED
  BY <1>1, <1>2, <1>3, <1>4, <1>5, <1>6

\* A dialed class is one the policy permits for the handler's host now.
LEMMA DialPermitted ==
  ASSUME J, NEW c \in Conns, pc[c] = "dial", NEW class \in Dialable(c)
  PROVE  /\ host[c] \in Hosts
         /\ class \in {"public", "internal"}
         /\ Policy!Permitted(host[c], class, decisions[host[c]])
BY HostsAssumption DEF J, IInv, HasHost, VerdictsCurrent, Dialable, Policy!Permitted

LEMMA TunnelSteps ==
  ASSUME J, NEW c \in Conns, Dial(c) \/ RelayEnds(c)
  PROVE  J'
<1> USE DEF J, TypeOK, IInv, Goto, locals
<1>1. active' = active /\ refused' = refused /\ decisions' = decisions
  BY DEF Dial, RelayEnds
<1>2. Counted'
  BY <1>1, SameCounts DEF Counted, Dial, RelayEnds
<1>3. HasHost' /\ VerdictsCurrent' /\ Askers'
  BY DEF HasHost, VerdictsCurrent, Askers, Dial, RelayEnds
<1>4. CASE Dial(c)
  <2> USE <1>4
  <2> PICK class \in Dialable(c) :
         tunnel' = [tunnel EXCEPT ![c] = [host |-> host[c], class |-> class]]
    BY DEF Dial
  <2>1. /\ host[c] \in Hosts /\ class \in {"public", "internal"}
        /\ Policy!Permitted(host[c], class, decisions[host[c]])
    BY DialPermitted DEF Dial
  <2>2. TypeOK'
    BY <2>1 DEF Dial, Points, Classes
  <2>3. TunnelOwners'
    BY DEF TunnelOwners, Dial
  <2>4. TunnelsPermitted'
    BY <1>1, <2>1 DEF TunnelsPermitted
  <2> QED
    BY <1>2, <1>3, <2>2, <2>3, <2>4
<1>5. CASE RelayEnds(c)
  <2>1. TypeOK'
    BY <1>5 DEF RelayEnds, Points
  <2>2. TunnelOwners' /\ TunnelsPermitted'
    BY <1>5, <1>1 DEF TunnelOwners, TunnelsPermitted, RelayEnds
  <2> QED
    BY <1>2, <1>3, <2>1, <2>2
<1> QED
  BY <1>4, <1>5

\* fetch_add: the handler joins the busy ones, and the served ones only if
\* the count it got back allows.
LEMMA AcceptStep ==
  ASSUME J, NEW c \in Conns, Accept(c)
  PROVE  J'
<1> USE ConnsAssumption DEF J, TypeOK, IInv, Goto, Accept
<1>1. Busy' = Busy \cup {c} /\ c \notin Busy
  BY DEF Busy
<1>2. Cardinality(Busy') = active + 1
  BY <1>1, FiniteHandlers, FS_AddElement DEF Counted
<1>3. Cardinality(Served') <= MaxConnections
  <2>1. CASE active + 1 > MaxConnections
    <3>1. Served' = Served
      BY <2>1 DEF Served, Serving
    <3> QED
      BY <3>1 DEF Counted
  <2>2. CASE ~(active + 1 > MaxConnections)
    <3>1. Served' \subseteq Busy'
      BY DEF Served, Serving, Busy
    <3>2. IsFiniteSet(Busy')
      BY <1>1, FiniteHandlers, FS_AddElement
    <3>3. Cardinality(Served') <= Cardinality(Busy') /\ Cardinality(Served') \in Nat
      BY <3>1, <3>2, FS_Subset, FS_CardinalityType
    <3> QED
      BY <1>2, <2>2, <3>3
  <2> QED
    BY <2>1, <2>2
<1>4. Counted'
  BY <1>2, <1>3 DEF Counted
<1>5. TypeOK'
  BY DEF Points
<1>6. HasHost' /\ VerdictsCurrent' /\ Askers' /\ TunnelOwners'
  BY DEF HasHost, VerdictsCurrent, Askers, TunnelOwners
<1>7. TunnelsPermitted'
  BY DEF TunnelsPermitted
<1> QED
  BY <1>4, <1>5, <1>6, <1>7

\* The guard drops: the counter follows the busy set down, never below zero.
LEMMA CloseStep ==
  ASSUME J, NEW c \in Conns, Close(c)
  PROVE  J'
<1> USE ConnsAssumption DEF J, TypeOK, IInv, Goto, Close
<1>1. Busy' = Busy \ {c} /\ c \in Busy
  BY DEF Busy
<1>2. Cardinality(Busy') = active - 1 /\ active - 1 \in Nat
  <2>1. IsFiniteSet(Busy) /\ Cardinality(Busy) = active
    BY FiniteHandlers DEF Counted
  <2>2. IsFiniteSet(Busy \ {c}) /\ Cardinality(Busy \ {c}) = Cardinality(Busy) - 1
    BY <1>1, <2>1, FS_RemoveElement
  <2>3. Cardinality(Busy \ {c}) \in Nat
    BY <2>2, FS_CardinalityType
  <2> QED
    BY <1>1, <2>1, <2>2, <2>3
<1>3. Served' \subseteq Served
  BY DEF Served, Serving
<1>4. Cardinality(Served') <= Cardinality(Served) /\ Cardinality(Served') \in Nat
  BY <1>3, FiniteHandlers, FS_Subset, FS_CardinalityType
<1>5. Counted'
  BY <1>2, <1>4, FiniteHandlers DEF Counted
<1>6. TypeOK'
  BY <1>2 DEF Points
<1>7. HasHost' /\ VerdictsCurrent' /\ Askers' /\ TunnelOwners'
  BY DEF HasHost, VerdictsCurrent, Askers, TunnelOwners
<1>8. TunnelsPermitted'
  BY DEF TunnelsPermitted
<1> QED
  BY <1>5, <1>6, <1>7, <1>8

LEMMA Inductive == Spec => []J
<1>1. Init => J
  <2> SUFFICES ASSUME Init PROVE J
    OBVIOUS
  <2>1. TypeOK
    BY DEF Init, TypeOK, Points
  <2>2. Busy = {} /\ Served = {}
    BY DEF Init, Busy, Served, Serving
  <2>3. Counted
    BY <2>2, ConnsAssumption, FS_EmptySet DEF Counted, Init
  <2>4. HasHost /\ VerdictsCurrent /\ Askers /\ TunnelOwners /\ TunnelsPermitted
    BY DEF Init, HasHost, VerdictsCurrent, Askers, TunnelOwners, TunnelsPermitted
  <2> QED
    BY <2>1, <2>3, <2>4 DEF J, IInv
<1>2. J /\ [Next]_vars => J'
  <2> SUFFICES ASSUME J, [Next]_vars PROVE J'
    OBVIOUS
  <2>1. CASE UNCHANGED vars
    BY <2>1 DEF vars, J, TypeOK, IInv, HasHost, VerdictsCurrent, Askers, TunnelOwners,
       TunnelsPermitted, Counted, Busy, Served, Serving
  <2>2. CASE Next
    BY <2>2, QuietSteps, RequestSteps, AskStep, AnswerStep, NotifyStep, TunnelSteps,
       AcceptStep, CloseStep DEF Next, Handle
  <2> QED
    BY <2>1, <2>2
<1> QED
  BY <1>1, <1>2, PTL DEF Spec

----------------------------------------------------------------------------
\* The locals of every handler, the counter and the cache keep their types;
\* the counter never goes below zero.
THEOREM TypeCorrect == Spec => []TypeOK
  BY Inductive, PTL DEF J

\* No more than max_connections are served at once, whatever the order in
\* which connections are counted, refused and dropped.
THEOREM LimitHolds == Spec => []ServedWithinLimit
<1>1. J => ServedWithinLimit
  BY DEF J, IInv, Counted, ServedWithinLimit, Busy, Served
<1> QED
  BY <1>1, Inductive, PTL

\* One prompt at most per host, exactly while its Pending marker stands
\* (prompt_verdict).
THEOREM PromptsAreSingle == Spec => []OnePromptPerHost
<1>1. J => OnePromptPerHost
  BY DEF J, IInv, Askers, OnePromptPerHost
<1> QED
  BY <1>1, Inductive, PTL

\* Every open tunnel is one the policy permits (dial_resolved after
\* prompt_verdict), however the host resolves from one request to the next.
THEOREM TunnelsStayPermitted == Spec => []TunnelsPermitted
  BY Inductive, PTL DEF J, IInv

\* The proxy implements the policy: the initial states agree and every step
\* is a policy step or leaves the approvals and tunnels alone.
THEOREM RefinesPolicy == Spec => ImplementsPolicy
<1>1. Init => Policy!Init
  BY DEF Init, Policy!Init, NoTunnel
<1>2. J /\ [Next]_vars => [Policy!Next]_(Policy!policyVars)
  <2> SUFFICES ASSUME J, [Next]_vars PROVE [Policy!Next]_(Policy!policyVars)
    OBVIOUS
  <2> USE DEF Policy!policyVars
  <2>1. CASE UNCHANGED vars
    BY <2>1 DEF vars
  <2>2. ASSUME NEW c \in Conns, Answer(c) PROVE [Policy!Next]_(Policy!policyVars)
    <3> PICK answer \in {Approval(c), "deny", "noAnswer"} :
           decisions' = [decisions EXCEPT ![host[c]] = IF answer = "noAnswer" THEN "none" ELSE answer]
      BY <2>2 DEF Answer
    <3>1. host[c] \in Hosts /\ decisions[host[c]] = "pending" /\ tunnel' = tunnel
      BY <2>2 DEF J, IInv, HasHost, Askers, Answer
    <3>2. CASE answer = "noAnswer"
      BY <3>1, <3>2 DEF J, TypeOK
    <3>3. CASE answer # "noAnswer"
      <4>1. answer \in Policy!Answers
        BY <3>3 DEF Approval, Policy!Answers
      <4>2. Policy!Settle(host[c], answer)
        BY <3>1, <3>3, <4>1 DEF Policy!Settle, J, TypeOK, Policy!Answers
      <4> QED
        BY <3>1, <4>1, <4>2 DEF Policy!Next
    <3> QED
      BY <3>2, <3>3
  <2>3. ASSUME NEW c \in Conns, BeginAsking(c) PROVE [Policy!Next]_(Policy!policyVars)
    BY <2>3 DEF BeginAsking, Entering, J, TypeOK, IInv, HasHost
  <2>4. ASSUME NEW c \in Conns, Dial(c) PROVE [Policy!Next]_(Policy!policyVars)
    <3> PICK class \in Dialable(c) :
           tunnel' = [tunnel EXCEPT ![c] = [host |-> host[c], class |-> class]]
      BY <2>4 DEF Dial
    <3>1. /\ host[c] \in Hosts /\ class \in {"public", "internal"}
          /\ Policy!Permitted(host[c], class, decisions[host[c]])
      BY <2>4, DialPermitted DEF Dial
    <3>2. tunnel[c] = Policy!NoTunnel /\ decisions' = decisions
      BY <2>4 DEF J, IInv, TunnelOwners, NoTunnel, Dial
    <3>3. Policy!Open(c, host[c], class)
      BY <3>1, <3>2 DEF Policy!Open, Policy!Permitted
    <3> QED
      BY <3>1, <3>3 DEF Policy!Next
  <2>5. ASSUME NEW c \in Conns, RelayEnds(c) PROVE [Policy!Next]_(Policy!policyVars)
    <3>1. decisions' = decisions /\ tunnel' = [tunnel EXCEPT ![c] = Policy!NoTunnel]
      BY <2>5 DEF RelayEnds, NoTunnel
    <3>2. CASE tunnel[c] = Policy!NoTunnel
      BY <3>1, <3>2 DEF J, TypeOK
    <3>3. CASE tunnel[c] # Policy!NoTunnel
      BY <3>1, <3>3 DEF Policy!Close, Policy!Next
    <3> QED
      BY <3>2, <3>3
  <2>6. ASSUME NEW c \in Conns,
               RefuseRequest(c) \/ ReadRequest(c) \/ Resolve(c) \/ RefuseRange(c)
                 \/ WaitForOutcome(c) \/ UseDecision(c) \/ ShareNoAnswer(c) \/ Notify(c)
                 \/ DialFails(c) \/ Close(c) \/ Accept(c) \/ SpuriousWake(c)
        PROVE  [Policy!Next]_(Policy!policyVars)
    BY <2>6 DEF RefuseRequest, ReadRequest, Resolve, RefuseRange, WaitForOutcome, UseDecision,
       ShareNoAnswer, Notify, DialFails, Close, Accept, SpuriousWake
  <2> QED
    BY <2>1, <2>2, <2>3, <2>4, <2>5, <2>6 DEF Next, Handle
<1> QED
  BY <1>1, <1>2, Inductive, PTL DEF Spec, ImplementsPolicy, Policy!Spec
=============================================================================
