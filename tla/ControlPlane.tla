----------------------------- MODULE ControlPlane -----------------------------
(***************************************************************************)
(* What "tailscale status" tells of this node, and what setup concludes    *)
(* from it: the control plane (classifyControlPlane() of                   *)
(* src/setup/detect.mjs), the providers on offer, and whether a plan can   *)
(* be made for the node (inferNodeIdentity() and inferHeadscaleNode() of   *)
(* src/setup/plan.mjs).                                                    *)
(***************************************************************************)
EXTENDS GatewayConfig

CONSTANT None       \* no name, no answer, no document

ASSUME NoneAssumption == None \notin Hosts /\ None \notin Providers /\ None \notin Documents

Statuses ==
    [self    : BOOLEAN,                   \* there is a record of this node
     running : BOOLEAN,                   \* BackendState, if told, is Running
     name    : Hosts \union {None},       \* Self.DNSName
     suffix  : {"ts", "other", "none"},   \* MagicDNSSuffix: ts.net, another, none
     tagged  : BOOLEAN,
     owner   : BOOLEAN]                   \* the owner's login can be looked up

Planes == {"official", "headscale", "disconnected", "unknown", "ambiguous"}

\* classifyControlPlane().
Plane(s) ==
    CASE ~s.self -> "unknown"
      [] s.self /\ ~s.running -> "disconnected"
      [] s.self /\ s.running /\ s.name \in TsHosts /\ s.suffix # "other" -> "official"
      [] s.self /\ s.running /\ s.name \in Hosts \ TsHosts /\ s.suffix # "ts" -> "headscale"
      [] OTHER -> "ambiguous"

-----------------------------------------------------------------------------
Commands == {"tailscale", "cloudflared"}

\* detectProviders(), then refineDetectedProviders() for the plane that was read.
Detected(installed, plane) ==
    (IF "tailscale" \in installed
       THEN {IF plane = "headscale" THEN Headscale ELSE Tailscale} ELSE {})
    \union (IF "cloudflared" \in installed THEN {Cloudflare} ELSE {})

\* providerMenuItems().
Menu(plane) == {IF plane = "headscale" THEN Headscale ELSE Tailscale, Cloudflare}

\* resolveSetupProvider(): what --provider asks for, an answer to the menu, or
\* without a terminal the only one detected.
Selectable(asked, terminal, detected, plane) ==
    IF asked # None THEN {asked}
    ELSE IF terminal THEN Menu(plane)
    ELSE {id \in detected : detected = {id}}

-----------------------------------------------------------------------------
\* inferNodeIdentity(): a user's own node, with a name under ts.net.
HasIdentity(s) == s.self /\ ~s.tagged /\ s.name \in TsHosts /\ s.owner

\* inferHeadscaleNode() that forgets what it was told of Tailscale.com.
HasHeadscaleNode_AnyPlane(s, allowOfficial) ==
    /\ Plane(s) \in {"headscale", "official"}
    /\ ~s.tagged

\* inferHeadscaleNode(): one of Tailscale.com only if that was known before.
HasHeadscaleNode(s, allowOfficial) ==
    /\ Plane(s) = "headscale" \/ (Plane(s) = "official" /\ allowOfficial)
    /\ ~s.tagged

Plannable(type, s, allowOfficial) ==
    IF type = Tailscale THEN HasIdentity(s) ELSE HasHeadscaleNode(s, allowOfficial)
=============================================================================
