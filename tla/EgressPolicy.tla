---------------------------- MODULE EgressPolicy ----------------------------
(***************************************************************************)
(* What the filtered-egress proxy promises, without its threads: the user  *)
(* settles each unlisted host at most once, and a tunnel is opened only to *)
(* an address class the policy permits for its host at that moment.        *)
(***************************************************************************)
CONSTANTS Conns, Hosts, AllowHosts, PrivateHosts

VARIABLES
    approval,   \* the user's answer for each host, "none" before there is one
    tunnel      \* the open tunnel of each connection, or NoTunnel

policyVars == <<approval, tunnel>>

Answers  == {"allow", "allowInternal", "deny"}
NoTunnel == [host |-> "none", class |-> "none"]

\* The address classes the policy opens for a host: public ones for a listed
\* or approved host, private and CGNAT ones only under a grant naming them.
\* No grant opens a forbidden class (loopback, link-local, metadata, ...).
Permitted(h, class, answer) ==
    \/ class = "public"   /\ (h \in AllowHosts \/ answer \in {"allow", "allowInternal"})
    \/ class = "internal" /\ (h \in PrivateHosts \/ answer = "allowInternal")

Init ==
    /\ approval = [h \in Hosts |-> "none"]
    /\ tunnel = [c \in Conns |-> NoTunnel]

Settle(h, answer) ==
    /\ approval[h] = "none"
    /\ approval' = [approval EXCEPT ![h] = answer]
    /\ UNCHANGED tunnel

Open(c, h, class) ==
    /\ tunnel[c] = NoTunnel
    /\ Permitted(h, class, approval[h])
    /\ tunnel' = [tunnel EXCEPT ![c] = [host |-> h, class |-> class]]
    /\ UNCHANGED approval

Close(c) ==
    /\ tunnel[c] # NoTunnel
    /\ tunnel' = [tunnel EXCEPT ![c] = NoTunnel]
    /\ UNCHANGED approval

Next ==
    \/ \E h \in Hosts, answer \in Answers : Settle(h, answer)
    \/ \E c \in Conns, h \in Hosts, class \in {"public", "internal"} : Open(c, h, class)
    \/ \E c \in Conns : Close(c)

Spec == Init /\ [][Next]_policyVars
=============================================================================
