------------------------------ MODULE ServeTable ------------------------------
(***************************************************************************)
(* What "tailscale serve status" tells of the host's Serve configuration,  *)
(* and what the two Serve providers and setup's plans make of it:          *)
(* classifyServeStatus(), classifyTcpServeStatus() and the choice of a     *)
(* port.                                                                   *)
(***************************************************************************)
EXTENDS GatewayConfig

CONSTANT Candidates     \* the ports that setup tries, DEFAULT_HTTPS_PORTS

ASSUME CandidateAssumption == Candidates \subseteq Ports

\* web: the handler of each authority, "gateway" being the one root proxy to the
\* gateway and nothing else; tcp: the listener of each port, "gateway" being a
\* plain forward to it; funnel: the authorities that are public.
Tables ==
    [web    : [Origin -> {"none", "gateway", "other"}],
     tcp    : [Ports -> {"none", "https", "gateway", "other"}],
     funnel : SUBSET Origin]

EmptyTable ==
    [web |-> [a \in Origin |-> "none"], tcp |-> [p \in Ports |-> "none"], funnel |-> {}]

-----------------------------------------------------------------------------
\* funnelEnabledForRoute(): an authority on the port is public.
Funnelled(t, p) == \E a \in t.funnel : PortOf(a) = p

\* The authorities on a port that have a web handler.
WebOn(t, p) == {a \in Origin : PortOf(a) = p /\ t.web[a] # "none"}

\* classifyServeStatus() that does not look for a raw listener on the port.
HttpsAbsent_IgnoresTcp(t, a) ==
    /\ ~Funnelled(t, PortOf(a))
    /\ WebOn(t, PortOf(a)) = {}

\* classifyServeStatus().
HttpsAbsent(t, a) ==
    /\ ~Funnelled(t, PortOf(a))
    /\ WebOn(t, PortOf(a)) = {}
    /\ t.tcp[PortOf(a)] = "none"

HttpsExact(t, a) ==
    /\ ~Funnelled(t, PortOf(a))
    /\ WebOn(t, PortOf(a)) = {a}
    /\ t.web[a] = "gateway" /\ t.tcp[PortOf(a)] = "https"

\* classifyTcpServeStatus() that does not look for web handlers.
TcpAbsent_IgnoresWeb(t, a) ==
    /\ ~Funnelled(t, PortOf(a))
    /\ t.tcp[PortOf(a)] \in {"none", "https"}

\* classifyTcpServeStatus().
TcpAbsent(t, a) ==
    /\ ~Funnelled(t, PortOf(a))
    /\ WebOn(t, PortOf(a)) = {}
    /\ t.tcp[PortOf(a)] = "none"

TcpExact(t, a) ==
    /\ ~Funnelled(t, PortOf(a))
    /\ WebOn(t, PortOf(a)) = {}
    /\ t.tcp[PortOf(a)] = "gateway"

\* The classification a provider uses; everything else is a conflict.
Absent(type, t, a) == IF type = Headscale THEN TcpAbsent(t, a) ELSE HttpsAbsent(t, a)
Exact(type, t, a)  == IF type = Headscale THEN TcpExact(t, a) ELSE HttpsExact(t, a)

Verdict(type, t, a) ==
    CASE Exact(type, t, a) -> "exact"
      [] Absent(type, t, a) -> "absent"
      [] OTHER -> "conflict"

-----------------------------------------------------------------------------
Least(p, S) == p \in S /\ \A q \in S : p =< q

\* The two halves of the loops of selectInitialOrigin() and selectTcpOrigin().
ExactPorts(type, t, host)  == {p \in Candidates : Exact(type, t, <<host, p>>)}
AbsentPorts(type, t, host) == {p \in Candidates : Absent(type, t, <<host, p>>)}

\* The first candidate in use by the gateway, or else the first free one.
Selects(type, t, host, p) ==
    IF ExactPorts(type, t, host) # {}
      THEN Least(p, ExactPorts(type, t, host))
      ELSE Least(p, AbsentPorts(type, t, host))

-----------------------------------------------------------------------------
\* A port without its listener and its handlers.
ClearedPort(t, p) ==
    [web    |-> [a \in Origin |-> IF PortOf(a) = p THEN "none" ELSE t.web[a]],
     tcp    |-> [t.tcp EXCEPT ![p] = "none"],
     funnel |-> {a \in t.funnel : PortOf(a) # p}]

\* "tailscale serve --https=P": the name is the node's own at that time.
ServedHttps(t, host, p, target) ==
    [t EXCEPT !.web[<<host, p>>] = target, !.tcp[p] = "https"]

\* "tailscale serve --tcp P".
ServedTcp(t, p, target) == [t EXCEPT !.tcp[p] = target]

\* What the command of a plan leaves behind on a host of that name.  On a port
\* that is in use by now it fails, adds to what is there or replaces it.
Served(type, t, host, p) ==
    IF type = Headscale THEN ServedTcp(t, p, "gateway") ELSE ServedHttps(t, host, p, "gateway")

ServeResults(type, t, host, p) ==
    IF WebOn(t, p) = {} /\ t.tcp[p] = "none"
      THEN {Served(type, t, host, p)}
      ELSE {t, Served(type, t, host, p), Served(type, ClearedPort(t, p), host, p)}
=============================================================================
