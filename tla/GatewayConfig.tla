---------------------------- MODULE GatewayConfig ----------------------------
(***************************************************************************)
(* The one configuration document of the gateway, the "config" of its      *)
(* profile entry, and which of them assertSafeConfig() of                  *)
(* src/core/config.mjs accepts.  Setup, the plugin and the sidecar each    *)
(* call it.                                                                *)
(*                                                                         *)
(* A document is a record of what the checks tell apart: a section that is *)
(* there with valid contents is TRUE, a key that may not be there at all   *)
(* makes the document stray.                                               *)
(***************************************************************************)
EXTENDS Naturals

CONSTANTS
    Hosts,          \* host names
    TsHosts,        \* those under ts.net
    QuickHosts,     \* those under trycloudflare.com
    Ports           \* HTTPS ports

ASSUME HostAssumption ==
    TsHosts \subseteq Hosts /\ QuickHosts \subseteq Hosts /\ TsHosts \intersect QuickHosts = {}

ASSUME PortAssumption == Ports \subseteq 1 .. 65535

Tailscale  == "tailscale-serve"
Cloudflare == "cloudflare-access"
Headscale  == "headscale-tcp-serve"
EasyTier   == "easytier"

Providers  == {Tailscale, Cloudflare, Headscale}
AuthModes  == {"trusted-header", "signed-jwt", "gateway-credential"}
Namespaces == {"login", "email", "credential"}

\* COMPATIBILITY: each provider has one auth mode and one kind of principal.
AuthMode(type) ==
    CASE type = Tailscale  -> "trusted-header"
      [] type = Cloudflare -> "signed-jwt"
      [] type = Headscale  -> "gateway-credential"

Namespace(type) ==
    CASE type = Tailscale  -> "login"
      [] type = Cloudflare -> "email"
      [] type = Headscale  -> "credential"

\* Its identityKind: the evidence of a user that the provider adds.
IdentityKind(type) ==
    CASE type = Tailscale  -> "overwritten-header"
      [] type = Cloudflare -> "signed-jwt"
      [] type = Headscale  -> "none"

-----------------------------------------------------------------------------
Origin == Hosts \X Ports

HostOf(origin) == origin[1]
PortOf(origin) == origin[2]

Documents ==
    [enabled : BOOLEAN,
     origin  : Origin,
     type    : Providers \union {EasyTier},
     manage  : {"ensure", "verify-only"},
     mode    : AuthModes,
     who     : Namespaces,      \* the namespace of trustedPrincipals
     access  : BOOLEAN,         \* teamOrigin and applicationAudience
     store   : BOOLEAN,         \* credentialStorePath
     tls     : BOOLEAN,         \* certPath and keyPath
     stray   : BOOLEAN]         \* a forbidden or an unknown key

\* normalizeExternalOrigin(): which names a provider can be reached by.
OriginFits(type, host) ==
    /\ type = Tailscale => host \in TsHosts
    /\ type = Cloudflare => host \notin QuickHosts

\* parseProvider(): Access is verified, never managed.
ProviderFits(d) ==
    /\ d.type \in Providers
    /\ d.type = Cloudflare => d.manage = "verify-only"
    /\ d.access <=> d.type = Cloudflare

\* parseAuth() without its first check: any mode will do.
AuthFits_AnyMode(d) ==
    /\ d.who = Namespace(d.type)
    /\ d.store <=> d.mode = "gateway-credential"

\* parseAuth(): the mode and the principals are those of the provider.
AuthFits(d) ==
    /\ d.mode = AuthMode(d.type)
    /\ d.who = Namespace(d.type)
    /\ d.store <=> d.mode = "gateway-credential"

\* assertSafeConfig() of an enabled document does not throw.
Safe(d) ==
    /\ ~d.stray
    /\ ProviderFits(d)
    /\ OriginFits(d.type, HostOf(d.origin))
    /\ AuthFits(d)
    /\ d.tls <=> d.type = Headscale

\* What setup's plans propose for a provider.
Proposed(type, origin) ==
    [enabled |-> TRUE, origin |-> origin, type |-> type,
     manage |-> IF type = Cloudflare THEN "verify-only" ELSE "ensure",
     mode |-> AuthMode(type), who |-> Namespace(type),
     access |-> type = Cloudflare, store |-> type = Headscale, tls |-> type = Headscale,
     stray |-> FALSE]

\* createAuth(): the auth module asks once more for the evidence it lives on.
Supports(d) ==
    CASE d.mode = "trusted-header" ->
           IdentityKind(d.type) = "overwritten-header" /\ d.type = Tailscale
      [] d.mode = "signed-jwt" -> IdentityKind(d.type) = "signed-jwt" /\ d.type = Cloudflare
      [] OTHER -> IdentityKind(d.type) = "none"
=============================================================================
