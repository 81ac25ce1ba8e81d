------------------------------- MODULE PortBridge ------------------------------
(***************************************************************************)
(* --forward-port and --publish-port (src/proxy.rs): the supervisor's      *)
(* listeners, the bridges the landlock wrapper starts inside the sandbox   *)
(* before it becomes the agent (src/main.rs), and the connections.         *)
(*                                                                         *)
(* A forward:  agent -> bridge -> supervisor's Unix socket -> host service.*)
(* A publish:  host client -> supervisor's TCP listener, which hands the   *)
(* descriptor over the one stream the bridge opened -> agent's service.    *)
(***************************************************************************)
EXTENDS Naturals, FiniteSets, Sequences

CONSTANTS
    Ports,
    JailClients,       \* connections the agent opens to forwarded ports
    HostClients,       \* connections of host programs to published ports
    MaxConnections     \* MAX_FORWARD_CONNECTIONS

NoPort == "no port"

ASSUME PortsAssumption ==
    /\ NoPort \notin Ports
    /\ MaxConnections \in Nat
    /\ JailClients \cap HostClients = {}
    /\ IsFiniteSet(JailClients) /\ IsFiniteSet(HostClients)

Clients == JailClients \cup HostClients

VARIABLES
    forwards,     \* the ports whose Unix listener the supervisor holds
    publishes,    \* the ports whose two listeners it opened
    wrapper,      \* the process that starts the bridges and becomes the agent
    bridge,       \* bridge[p]: the bridge of port p
    callers,      \* callers[p]: who has connected to publish p's Unix socket
    peer,         \* peer[p]: whom the supervisor took for publish p's bridge
    active,       \* active[p]: the counter of port p's relays
    conn          \* conn[c]: where connection c is, and for which port

portVars == <<forwards, publishes, wrapper, bridge, callers, peer, active, conn>>

Asked == forwards \cup publishes
At(place, p) == {c \in Clients : conn[c].at = place /\ conn[c].port = p}
Relaying(p) == At("connecting", p) \cup At("relaying", p) \cup At("ending", p)
Move(c, place) == conn' = [conn EXCEPT ![c].at = place]

\* Connections still on their way to somebody who answers them.
Waiting(c) == conn[c].at \in {"dialed", "queued", "handed", "over", "connecting"}

PortsClosed ==
    /\ forwards = {} /\ publishes = {}
    /\ wrapper = "none"
    /\ bridge = [p \in Ports |-> "none"]
    /\ callers = [p \in Ports |-> <<>>]
    /\ peer = [p \in Ports |-> "none"]
    /\ active = [p \in Ports |-> 0]
    /\ conn = [c \in Clients |-> [at |-> "idle", port |-> NoPort]]

(***************************************************************************)
(* The supervisor's side.                                                  *)
(***************************************************************************)
\* Both sockets of every port exist before the sandbox does.  Until its mode
\* is set, another user's process may have connected to a publish's socket.
BindPorts(f, p) ==
    /\ wrapper = "none" /\ Asked = {}
    /\ forwards' = f /\ publishes' = p
    /\ \E early \in SUBSET p :
        callers' = [q \in Ports |-> IF q \in early THEN <<"stranger">> ELSE <<>>]
    /\ peer' = [q \in Ports |-> IF q \in p THEN "awaited" ELSE "none"]
    /\ UNCHANGED <<wrapper, bridge, active, conn>>

\* hand_off_published: the first caller of our own user is the bridge; then
\* the Unix listener goes, and later callers are refused.
TakePeer(p) ==
    /\ peer[p] = "awaited" /\ callers[p] # <<>>
    /\ IF Head(callers[p]) = "stranger"
       THEN callers' = [callers EXCEPT ![p] = Tail(@)] /\ UNCHANGED peer
       ELSE peer' = [peer EXCEPT ![p] = Head(callers[p])] /\ callers' = [callers EXCEPT ![p] = <<>>]
    /\ UNCHANGED <<forwards, publishes, wrapper, bridge, active, conn>>

\* An end of the publish that leaves its listener open.
HandOverKeepsListener(c) ==
    LET p == conn[c].port IN
    /\ c \in HostClients /\ conn[c].at = "queued" /\ peer[p] = "bridge"
    /\ \/ bridge[p] = "ready" /\ Move(c, "handed") /\ UNCHANGED peer
       \/ bridge[p] = "ready" /\ Move(c, "closed") /\ UNCHANGED peer
       \/ /\ bridge[p] # "ready"
          /\ peer' = [peer EXCEPT ![p] = "closed"]
          /\ Move(c, "closed")
    /\ UNCHANGED <<forwards, publishes, wrapper, bridge, callers, active>>

\* A bridge that is gone ends the publish, and the backlog with its listener;
\* any other failure of send_fd costs the one connection.
HandOver(c) ==
    LET p == conn[c].port IN
    /\ c \in HostClients /\ conn[c].at = "queued" /\ peer[p] = "bridge"
    /\ \/ bridge[p] = "ready" /\ Move(c, "handed") /\ UNCHANGED peer
       \/ bridge[p] = "ready" /\ Move(c, "closed") /\ UNCHANGED peer
       \/ /\ bridge[p] # "ready"
          /\ peer' = [peer EXCEPT ![p] = "closed"]
          /\ conn' = [d \in Clients |->
                        IF d \in At("queued", p) THEN [conn[d] EXCEPT !.at = "closed"] ELSE conn[d]]
    /\ UNCHANGED <<forwards, publishes, wrapper, bridge, callers, active>>

\* Everything the supervisor holds goes when it returns.
SupervisorExits ==
    /\ wrapper \in {"none", "ended"}
    /\ Asked # {} \/ wrapper = "ended"
    /\ forwards' = {} /\ publishes' = {} /\ wrapper' = "none"
    /\ bridge' = [p \in Ports |-> "none"]
    /\ callers' = [p \in Ports |-> <<>>]
    /\ peer' = [p \in Ports |-> "none"]
    /\ active' = [p \in Ports |-> 0]
    /\ conn' = [c \in Clients |-> IF conn[c].at = "idle" THEN conn[c] ELSE [conn[c] EXCEPT !.at = "closed"]]

(***************************************************************************)
(* The wrapper and the bridges.                                            *)
(***************************************************************************)
SandboxStarts ==
    /\ wrapper = "none"
    /\ wrapper' = "starting"
    /\ UNCHANGED <<forwards, publishes, bridge, callers, peer, active, conn>>

\* spawn_bridge: one at a time, the forwards first, each waited for.
StartBridge(p) ==
    /\ wrapper = "starting" /\ p \in Asked /\ bridge[p] = "none"
    /\ \A q \in Asked : bridge[q] # "spawned"
    /\ p \in publishes => \A q \in forwards : bridge[q] # "none"
    /\ bridge' = [bridge EXCEPT ![p] = "spawned"]
    /\ UNCHANGED <<forwards, publishes, wrapper, callers, peer, active, conn>>

\* run_bridge has bound its port, run_publish_bridge has its stream: "ready".
BridgeReady(p) ==
    /\ bridge[p] = "spawned"
    /\ bridge' = [bridge EXCEPT ![p] = "ready"]
    /\ callers' = IF p \in publishes THEN [callers EXCEPT ![p] = Append(@, "bridge")] ELSE callers
    /\ UNCHANGED <<forwards, publishes, wrapper, peer, active, conn>>

\* The wrapper reads the end of the pipe instead, and gives up.
BridgeFails(p) ==
    /\ bridge[p] = "spawned"
    /\ bridge' = [bridge EXCEPT ![p] = "dead"]
    /\ wrapper' = "failed"
    /\ UNCHANGED <<forwards, publishes, callers, peer, active, conn>>

\* A wrapper that takes a bridge it spawned for ready.
AgentStartsEarly ==
    /\ wrapper = "starting"
    /\ \A p \in Asked : bridge[p] # "none"
    /\ wrapper' = "agent"
    /\ UNCHANGED <<forwards, publishes, bridge, callers, peer, active, conn>>

AgentStarts ==
    /\ wrapper = "starting"
    /\ \A p \in Asked : bridge[p] \notin {"none", "spawned"}
    /\ wrapper' = "agent"
    /\ UNCHANGED <<forwards, publishes, bridge, callers, peer, active, conn>>

\* What a bridge relays ends with it: the forward's other half is the
\* supervisor's and is counted there until its relay notices.
Cut(c, p) ==
    IF conn[c].port # p THEN conn[c]
    ELSE IF c \in JailClients /\ conn[c].at \in {"connecting", "relaying"}
         THEN [conn[c] EXCEPT !.at = "ending"]
    ELSE IF \/ c \in JailClients /\ conn[c].at = "dialed"
            \/ c \in HostClients /\ conn[c].at \in {"handed", "over", "connecting", "relaying", "ending"}
         THEN [conn[c] EXCEPT !.at = "closed"]
    ELSE conn[c]

BridgeDies(p) ==
    /\ bridge[p] = "ready" /\ wrapper \in {"starting", "agent", "failed"}
    /\ bridge' = [bridge EXCEPT ![p] = "dead"]
    /\ conn' = [c \in Clients |-> Cut(c, p)]
    /\ active' = IF p \in publishes THEN [active EXCEPT ![p] = 0] ELSE active
    /\ UNCHANGED <<forwards, publishes, wrapper, callers, peer>>

\* The namespace's init is gone, and every bridge with it.
SandboxEnds ==
    /\ wrapper \in {"starting", "agent", "failed"}
    /\ wrapper' = "ended"
    /\ bridge' = [p \in Ports |-> IF p \in Asked THEN "dead" ELSE "none"]
    /\ conn' = [c \in Clients |-> IF conn[c].port = NoPort THEN conn[c] ELSE Cut(c, conn[c].port)]
    /\ active' = [p \in Ports |-> IF p \in publishes THEN 0 ELSE active[p]]
    /\ UNCHANGED <<forwards, publishes, callers, peer>>

(***************************************************************************)
(* The connections.                                                        *)
(***************************************************************************)
AgentDials(c, p) ==
    /\ wrapper = "agent" /\ c \in JailClients /\ p \in forwards /\ conn[c].at = "idle"
    /\ conn' = [conn EXCEPT ![c] = [at |-> IF bridge[p] = "ready" THEN "dialed" ELSE "closed", port |-> p]]
    /\ UNCHANGED <<forwards, publishes, wrapper, bridge, callers, peer, active>>

\* The agent may try the publish's Unix socket too, while it is there.
AgentCalls(p) ==
    /\ wrapper = "agent" /\ peer[p] = "awaited" /\ "agent" \notin {callers[p][i] : i \in DOMAIN callers[p]}
    /\ callers' = [callers EXCEPT ![p] = Append(@, "agent")]
    /\ UNCHANGED <<forwards, publishes, wrapper, bridge, peer, active, conn>>

HostDials(c, p) ==
    /\ c \in HostClients /\ p \in publishes /\ conn[c].at = "idle"
    /\ conn' = [conn EXCEPT ![c] = [at |-> IF peer[p] = "closed" THEN "closed" ELSE "queued", port |-> p]]
    /\ UNCHANGED <<forwards, publishes, wrapper, bridge, callers, peer, active>>

BridgeConnects(c) ==
    /\ c \in JailClients /\ conn[c].at = "dialed" /\ bridge[conn[c].port] = "ready"
    /\ Move(c, "queued")
    /\ UNCHANGED <<forwards, publishes, wrapper, bridge, callers, peer, active>>

\* A limit that lets one connection too many in.
AdmitOneMore(c) ==
    LET p == conn[c].port IN
    /\ IF c \in JailClients THEN conn[c].at = "queued" ELSE conn[c].at = "handed"
    /\ At("over", p) = {}
    /\ active' = [active EXCEPT ![p] = @ + 1]
    /\ Move(c, IF active[p] > MaxConnections THEN "over" ELSE "connecting")
    /\ UNCHANGED <<forwards, publishes, wrapper, bridge, callers, peer>>

\* fetch_add in the one thread that accepts for the port: the supervisor's for
\* a forward, the bridge's for a publish.
Admit(c) ==
    LET p == conn[c].port IN
    /\ IF c \in JailClients THEN conn[c].at = "queued" ELSE conn[c].at = "handed"
    /\ At("over", p) = {}
    /\ active' = [active EXCEPT ![p] = @ + 1]
    /\ Move(c, IF active[p] >= MaxConnections THEN "over" ELSE "connecting")
    /\ UNCHANGED <<forwards, publishes, wrapper, bridge, callers, peer>>

\* fetch_sub, of a connection over the limit or of a relay that ended.
Release(c) ==
    /\ conn[c].at \in {"over", "ending"}
    /\ active' = [active EXCEPT ![conn[c].port] = @ - 1]
    /\ Move(c, "closed")
    /\ UNCHANGED <<forwards, publishes, wrapper, bridge, callers, peer>>

\* connect_loopback finds the service, or nobody.
Connect(c) ==
    /\ conn[c].at = "connecting"
    /\ \E reached \in {"relaying", "ending"} : Move(c, reached)
    /\ UNCHANGED <<forwards, publishes, wrapper, bridge, callers, peer, active>>

RelayEnds(c) ==
    /\ conn[c].at = "relaying"
    /\ Move(c, "ending")
    /\ UNCHANGED <<forwards, publishes, wrapper, bridge, callers, peer, active>>

SupervisorStep ==
    \/ \E p \in Ports : TakePeer(p)
    \/ \E c \in Clients : HandOver(c) \/ Connect(c) \/ Release(c) \/ Admit(c)

BridgeStep ==
    \/ \E p \in Ports : StartBridge(p) \/ BridgeReady(p) \/ BridgeFails(p)
    \/ AgentStarts
    \/ \E c \in Clients : BridgeConnects(c)

WorldStep ==
    \/ \E p \in Ports : BridgeDies(p) \/ AgentCalls(p)
    \/ \E c \in Clients, p \in Ports : AgentDials(c, p) \/ HostDials(c, p)
    \/ \E c \in Clients : RelayEnds(c)

PortStep == SupervisorStep \/ BridgeStep \/ WorldStep
================================================================================
