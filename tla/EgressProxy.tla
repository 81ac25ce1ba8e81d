---------------------------- MODULE EgressProxy ----------------------------
(***************************************************************************)
(* The filtered-egress proxy of src/proxy.rs: one handler thread per       *)
(* connection, the active-connection counter, the allowlist, one DNS       *)
(* resolution per request, and the interactive host prompt with its shared *)
(* decision cache (a mutex, a condition variable and a Pending marker).    *)
(*                                                                         *)
(* A host is a normalized name; a resolution is the set of the classes its *)
(* addresses fall in.  Bytes, ports and reply texts are left out.  A       *)
(* plain-HTTP request to a secret-bound host takes the listed path.        *)
(***************************************************************************)
EXTENDS Integers, FiniteSets

CONSTANTS Conns,          \* handler threads; one serves connections in turn
          Hosts,
          AllowHosts,     \* ProxyConfig::allowlist
          PrivateHosts,   \* ProxyConfig::allow_private_hosts
          Promptable,     \* hosts whose name may be shown to the user
          MaxConnections  \* ProxyConfig::max_connections

ASSUME HostsAssumption ==
    /\ AllowHosts \subseteq Hosts
    /\ PrivateHosts \subseteq AllowHosts    \* main.rs adds them to the allowlist
    /\ Promptable \subseteq Hosts
    /\ "none" \notin Hosts
ASSUME ConnsAssumption == IsFiniteSet(Conns) /\ MaxConnections \in Nat

Classes == {"public", "internal", "forbidden"}
NoHost  == "none"
Settled == {"allow", "allowInternal", "deny"}

\* Control points of handle_conn; "closing" covers every reply that ends it.
Points == {"idle", "reading", "resolve", "verdict", "waiting", "woken", "asking",
           "notify", "dial", "relay", "closing"}

VARIABLES
    active,     \* Shared::active
    decisions,  \* Shared::decisions; "none" is no entry
    pc, host, answers, verdict, waited,   \* the locals of each handler
    refused,    \* the handler answered 503 because the proxy was full
    tunnel      \* the upstream a handler relays to

locals == <<host, answers, verdict, waited, refused>>
vars == <<active, decisions, pc, host, answers, verdict, waited, refused, tunnel>>

Policy == INSTANCE EgressPolicy WITH
    approval <- [h \in Hosts |-> IF decisions[h] = "pending" THEN "none" ELSE decisions[h]]

NoTunnel == Policy!NoTunnel

TypeOK ==
    /\ active \in Nat
    /\ decisions \in [Hosts -> Settled \cup {"none", "pending"}]
    /\ pc \in [Conns -> Points]
    /\ host \in [Conns -> Hosts \cup {NoHost}]
    /\ answers \in [Conns -> SUBSET Classes]
    /\ verdict \in [Conns -> {"none", "listed", "ask", "noAnswer"} \cup Settled]
    /\ waited \in [Conns -> BOOLEAN]
    /\ refused \in [Conns -> BOOLEAN]
    /\ tunnel \in [Conns -> {NoTunnel} \cup [host : Hosts, class : Classes]]

Init ==
    /\ active = 0
    /\ decisions = [h \in Hosts |-> "none"]
    /\ pc = [c \in Conns |-> "idle"]
    /\ host = [c \in Conns |-> NoHost]
    /\ answers = [c \in Conns |-> {}]
    /\ verdict = [c \in Conns |-> "none"]
    /\ waited = [c \in Conns |-> FALSE]
    /\ refused = [c \in Conns |-> FALSE]
    /\ tunnel = [c \in Conns |-> NoTunnel]

Goto(c, point) == pc' = [pc EXCEPT ![c] = point]

----------------------------------------------------------------------------
\* A guard that leaves the connection being accepted out of the count.
AcceptUncounted(c) ==
    /\ pc[c] = "idle"
    /\ active' = active + 1
    /\ refused' = [refused EXCEPT ![c] = active > MaxConnections]
    /\ Goto(c, IF active > MaxConnections THEN "closing" ELSE "reading")
    /\ UNCHANGED <<decisions, host, answers, verdict, waited, tunnel>>

\* fetch_add on the counter; the value it returns decides between 503 and
\* service.
Accept(c) ==
    /\ pc[c] = "idle"
    /\ active' = active + 1
    /\ refused' = [refused EXCEPT ![c] = active + 1 > MaxConnections]
    /\ Goto(c, IF active + 1 > MaxConnections THEN "closing" ELSE "reading")
    /\ UNCHANGED <<decisions, host, answers, verdict, waited, tunnel>>

\* The request never arrives, is malformed, has another method, or names a
\* host that is neither listed nor one the user can be asked about.
RefuseRequest(c) ==
    /\ pc[c] = "reading"
    /\ Goto(c, "closing")
    /\ UNCHANGED <<active, decisions, locals, tunnel>>

ReadRequest(c) ==
    /\ pc[c] = "reading"
    /\ \E h \in AllowHosts \cup Promptable :
         /\ host' = [host EXCEPT ![c] = h]
         /\ verdict' = [verdict EXCEPT ![c] = IF h \in AllowHosts THEN "listed" ELSE "ask"]
    /\ Goto(c, "resolve")
    /\ UNCHANGED <<active, decisions, answers, waited, refused, tunnel>>

\* One resolution per request: a listed host goes on to the dial, another to
\* the prompt, with the same answers.
Resolve(c) ==
    /\ pc[c] = "resolve"
    /\ \/ Goto(c, "closing") /\ UNCHANGED answers
       \/ /\ \E found \in SUBSET Classes \ {{}} : answers' = [answers EXCEPT ![c] = found]
          /\ Goto(c, IF verdict[c] = "listed" THEN "dial" ELSE "verdict")
    /\ UNCHANGED <<active, decisions, host, verdict, waited, refused, tunnel>>

----------------------------------------------------------------------------
\* prompt_verdict.

\* No answer set that could never be dialed is offered to the user.
RefuseRange(c) ==
    /\ pc[c] = "verdict"
    /\ answers[c] \subseteq {"forbidden"}
    /\ Goto(c, "closing")
    /\ UNCHANGED <<active, decisions, locals, tunnel>>

Entering(c) ==
    \/ pc[c] = "verdict" /\ ~(answers[c] \subseteq {"forbidden"})
    \/ pc[c] = "woken"

\* Under the mutex: the host is being asked about, so wait on the condition
\* variable, which releases the mutex.
WaitForOutcome(c) ==
    /\ Entering(c)
    /\ decisions[host[c]] = "pending"
    /\ waited' = [waited EXCEPT ![c] = TRUE]
    /\ Goto(c, "waiting")
    /\ UNCHANGED <<active, decisions, host, answers, verdict, refused, tunnel>>

\* Under the mutex: the host is settled.
UseDecision(c) ==
    /\ Entering(c)
    /\ decisions[host[c]] \in Settled
    /\ verdict' = [verdict EXCEPT ![c] = decisions[host[c]]]
    /\ Goto(c, IF decisions[host[c]] = "deny" THEN "closing" ELSE "dial")
    /\ UNCHANGED <<active, decisions, host, answers, waited, refused, tunnel>>

\* Under the mutex: no entry.  A handler that waited shares the outcome
\* "no answer"; any other one becomes the asker.
ShareNoAnswer(c) ==
    /\ Entering(c)
    /\ decisions[host[c]] = "none"
    /\ waited[c]
    /\ verdict' = [verdict EXCEPT ![c] = "noAnswer"]
    /\ Goto(c, "closing")
    /\ UNCHANGED <<active, decisions, host, answers, waited, refused, tunnel>>

\* A prompt started without the Pending marker.
AskUnmarked(c) ==
    /\ Entering(c)
    /\ decisions[host[c]] = "none"
    /\ ~waited[c]
    /\ Goto(c, "asking")
    /\ UNCHANGED <<active, decisions, locals, tunnel>>

BeginAsking(c) ==
    /\ Entering(c)
    /\ decisions[host[c]] = "none"
    /\ ~waited[c]
    /\ decisions' = [decisions EXCEPT ![host[c]] = "pending"]
    /\ Goto(c, "asking")
    /\ UNCHANGED <<active, locals, tunnel>>

\* What an approval covers: the internal classes only when internal
\* addresses were shown.
Approval(c) ==
    IF "internal" \in answers[c] /\ host[c] \notin PrivateHosts
        THEN "allowInternal" ELSE "allow"

\* An unanswered prompt that leaves its Pending marker behind.
AnswerKeepsMarker(c) ==
    /\ pc[c] = "asking"
    /\ \E answer \in {Approval(c), "deny", "noAnswer"} :
         /\ verdict' = [verdict EXCEPT ![c] = answer]
         /\ decisions' = [decisions EXCEPT ![host[c]] = IF answer = "noAnswer" THEN @ ELSE answer]
    /\ Goto(c, "notify")
    /\ UNCHANGED <<active, host, answers, waited, refused, tunnel>>

\* The prompt returns (its helper is killed at a deadline) and the outcome is
\* recorded under the mutex: no answer removes the entry.
Answer(c) ==
    /\ pc[c] = "asking"
    /\ \E answer \in {Approval(c), "deny", "noAnswer"} :
         /\ verdict' = [verdict EXCEPT ![c] = answer]
         /\ decisions' = [decisions EXCEPT ![host[c]] =
                             IF answer = "noAnswer" THEN "none" ELSE answer]
    /\ Goto(c, "notify")
    /\ UNCHANGED <<active, host, answers, waited, refused, tunnel>>

AfterPrompt(c) == IF verdict[c] \in {"deny", "noAnswer"} THEN "closing" ELSE "dial"

\* An unanswered prompt that returns before it notifies.
NotifySettled(c) ==
    /\ pc[c] = "notify"
    /\ pc' = [d \in Conns |-> IF d = c THEN AfterPrompt(c)
                 ELSE IF pc[d] = "waiting" /\ verdict[c] # "noAnswer" THEN "woken" ELSE pc[d]]
    /\ UNCHANGED <<active, decisions, locals, tunnel>>

\* notify_all, after the mutex has been released.
Notify(c) ==
    /\ pc[c] = "notify"
    /\ pc' = [d \in Conns |-> IF d = c THEN AfterPrompt(c)
                              ELSE IF pc[d] = "waiting" THEN "woken" ELSE pc[d]]
    /\ UNCHANGED <<active, decisions, locals, tunnel>>

\* A condition variable may wake a waiter for no reason.
SpuriousWake(c) ==
    /\ pc[c] = "waiting"
    /\ Goto(c, "woken")
    /\ UNCHANGED <<active, decisions, locals, tunnel>>

----------------------------------------------------------------------------
\* dial_resolved.

\* A dial that treats any approval as covering the internal classes.
DialableLoose(c) ==
    {class \in answers[c] :
        \/ class = "public"
        \/ class = "internal" /\ (host[c] \in PrivateHosts \/ verdict[c] \in {"allow", "allowInternal"})}

\* The answers that pass the address-range guard.
Dialable(c) ==
    {class \in answers[c] :
        \/ class = "public"
        \/ class = "internal" /\ (host[c] \in PrivateHosts \/ verdict[c] = "allowInternal")}

\* Nothing dialable, or every dial failed.
DialFails(c) ==
    /\ pc[c] = "dial"
    /\ Goto(c, "closing")
    /\ UNCHANGED <<active, decisions, locals, tunnel>>

\* Addresses are tried in order until one connects, so any may be the one.
Dial(c) ==
    /\ pc[c] = "dial"
    /\ \E class \in Dialable(c) :
         tunnel' = [tunnel EXCEPT ![c] = [host |-> host[c], class |-> class]]
    /\ Goto(c, "relay")
    /\ UNCHANGED <<active, decisions, locals>>

\* The relay ends when both directions have.
RelayEnds(c) ==
    /\ pc[c] = "relay"
    /\ tunnel' = [tunnel EXCEPT ![c] = NoTunnel]
    /\ Goto(c, "closing")
    /\ UNCHANGED <<active, decisions, locals>>

\* The handler returns: ActiveGuard drops, and its locals with it.
Close(c) ==
    /\ pc[c] = "closing"
    /\ active' = active - 1
    /\ Goto(c, "idle")
    /\ host' = [host EXCEPT ![c] = NoHost]
    /\ answers' = [answers EXCEPT ![c] = {}]
    /\ verdict' = [verdict EXCEPT ![c] = "none"]
    /\ waited' = [waited EXCEPT ![c] = FALSE]
    /\ refused' = [refused EXCEPT ![c] = FALSE]
    /\ UNCHANGED <<decisions, tunnel>>

\* The steps a handler takes by itself, once it has a connection.
Handle(c) ==
    \/ RefuseRequest(c) \/ ReadRequest(c) \/ Resolve(c)
    \/ RefuseRange(c) \/ WaitForOutcome(c) \/ UseDecision(c) \/ ShareNoAnswer(c)
    \/ BeginAsking(c) \/ Answer(c) \/ Notify(c)
    \/ DialFails(c) \/ Dial(c) \/ Close(c)

Next == \E c \in Conns : Handle(c) \/ Accept(c) \/ SpuriousWake(c) \/ RelayEnds(c)

Spec == Init /\ [][Next]_vars

\* Handler threads run, and a prompt returns by its deadline.  Clients and
\* upstreams promise nothing.
FairSpec == Spec /\ \A c \in Conns : WF_vars(Handle(c))

----------------------------------------------------------------------------
\* Correctness.

Serving(c) == pc[c] # "idle" /\ ~refused[c]

\* However connections arrive and end, no more than max_connections are
\* served at once, and the counter is the number of live handlers.
ServedWithinLimit ==
    /\ active = Cardinality({c \in Conns : pc[c] # "idle"})
    /\ Cardinality({c \in Conns : Serving(c)}) <= MaxConnections

\* The user never has two prompts for one host, and a host marked Pending
\* has a handler that will settle it: the marker is never orphaned, and no
\* prompt is shown for a settled host.
OnePromptPerHost ==
    \A h \in Hosts :
        LET askers == {c \in Conns : pc[c] = "asking" /\ host[c] = h}
        IN  IF decisions[h] = "pending" THEN \E c \in Conns : askers = {c}
                                        ELSE askers = {}

\* A tunnel goes only where the policy allows now, in particular never to a
\* host the user denied, nor to an internal address after an approval that
\* showed none, whatever the host resolved to since.
TunnelsPermitted ==
    \A c \in Conns : tunnel[c] # NoTunnel =>
        Policy!Permitted(tunnel[c].host, tunnel[c].class, decisions[tunnel[c].host])

\* The threads implement the policy: each host is settled at most once and
\* for good, and every dial is one the policy permits when it happens.
ImplementsPolicy == Policy!Spec

\* A handler waiting on a host that is no longer being asked about wakes up:
\* no outcome is recorded without reaching the handlers that wait for it.
NoLostWakeup ==
    \A c \in Conns :
        (pc[c] = "waiting" /\ decisions[host[c]] # "pending") ~> (pc[c] # "waiting")
=============================================================================
