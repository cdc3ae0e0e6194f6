------------------------------- MODULE SetupFlow -------------------------------
(***************************************************************************)
(* From "dsh-one-gateway setup" to a gateway that is ready: setup reads    *)
(* what tailscale says of the node and of its Serve table, one command     *)
(* after the other, asks the user, proposes a document and writes it into  *)
(* the profile (setupCommand() of src/setup/cli.mjs); later the plugin     *)
(* starts the sidecar from that profile (plugin.mjs, sidecar.mjs, start()  *)
(* of core/server.mjs), which looks at everything again.                   *)
(*                                                                         *)
(* Between any two steps the node may change its name or its control       *)
(* plane, somebody may use the Serve table, edit the profile or renew the  *)
(* certificate.  How the credential and the profile are written is in      *)
(* SetupCommit, the port and the life of the process in SidecarLifecycle.  *)
(***************************************************************************)
EXTENDS ServeTable, ControlPlane

CONSTANTS
    Nodes,      \* what "tailscale status" may say, in this host's life
    Pairs,      \* certificates, each named for the private key it belongs to
    Covers,     \* the hosts that each certificate names
    Expired,    \* the certificates that are not valid now
    MaxEdits,   \* bound on what others do
    Overlap     \* bound: may setup begin next to an entry, or to a gateway that runs

Reasons == {"config", "mode", "auth", "tls", "command", "route"}    \* why a start fails

ASSUME FlowAssumption ==
    /\ Nodes \subseteq Statuses
    /\ Covers \in [Pairs -> SUBSET Hosts]
    /\ Expired \subseteq Pairs
    /\ None \notin Pairs /\ None \notin Reasons
    /\ MaxEdits \in Nat /\ Overlap \in BOOLEAN

VARIABLES
    status,     \* what tailscale would say of the node now
    table,      \* and of its Serve configuration
    profile,    \* the gateway's document in the DSH profile, if any
    setup,      \* the setup command
    gateway,    \* the start of the sidecar
    fresh,      \* history: nobody else acted since the profile's plan was begun
    edits       \* how often others did

vars == <<status, table, profile, setup, gateway, fresh, edits>>

-----------------------------------------------------------------------------
IdleSetup ==
    [at |-> "idle", asked |-> None, how |-> "ask", terminal |-> FALSE, plane |-> None,
     detected |-> {}, chosen |-> None, weaker |-> FALSE, read |-> None, plan |-> None]

SetupGoes(step) == setup' = [setup EXCEPT !.at = step]

NoneYet == profile = None /\ gateway.at = "off"

\* parseArgs(): --provider, and --yes or --print but not both.
Setup(asked, how, terminal) ==
    /\ setup.at = "idle"
    /\ Overlap \/ NoneYet
    /\ setup' = [IdleSetup EXCEPT !.at = "detect", !.asked = asked, !.how = how,
                                  !.terminal = terminal]
    /\ UNCHANGED <<status, table, profile, gateway, fresh, edits>>

\* detectProviders() and inspectControlPlane(): a status that cannot be read is
\* an unknown plane, without tailscale nobody asks.
Detect(installed) ==
    /\ setup.at = "detect"
    /\ \E plane \in IF "tailscale" \in installed THEN {Plane(status), "unknown"} ELSE {None} :
         setup' = [setup EXCEPT !.at = "choose", !.plane = plane,
                                !.detected = Detected(installed, plane)]
    /\ UNCHANGED <<status, table, profile, gateway, fresh, edits>>

\* maybeConfirmWeakerAuth() asks, and does not with --print, --yes or no terminal.
AsksForWeaker(type) ==
    /\ type = Headscale /\ setup.plane = "official"
    /\ setup.how = "ask" /\ setup.terminal

Choose(type) ==
    /\ setup.at = "choose"
    /\ type \in Selectable(setup.asked, setup.terminal, setup.detected, setup.plane)
    /\ ~(type = Tailscale /\ setup.plane = "headscale")
    /\ setup' = [setup EXCEPT !.at = IF AsksForWeaker(type) THEN "weaker" ELSE "status",
                              !.chosen = type, !.detected = {}]
    /\ UNCHANGED <<status, table, profile, gateway, fresh, edits>>

\* The user continues with the weaker path.
ConfirmWeaker ==
    /\ setup.at = "weaker"
    /\ setup' = [setup EXCEPT !.at = "status", !.weaker = TRUE]
    /\ UNCHANGED <<status, table, profile, gateway, fresh, edits>>

\* The first command of buildTailscalePlan() and buildHeadscaleTcpPlan(), after
\* the values that it needs have been given or asked for.
ReadStatus ==
    /\ setup.at = "status" /\ setup.chosen # Cloudflare
    /\ Plannable(setup.chosen, status, setup.plane = "official")
    /\ setup' = [setup EXCEPT !.at = "serve", !.read = status]
    /\ fresh' = (fresh \/ NoneYet)
    /\ UNCHANGED <<status, table, profile, gateway, edits>>

\* The second one, and the plan: a port is selected, or --external-origin names
\* one that is not in conflict.
ReadServe(p) ==
    /\ setup.at = "serve"
    /\ \/ p \in Candidates /\ Selects(setup.chosen, table, setup.read.name, p)
       \/ setup.chosen = Headscale /\ Verdict(Headscale, table, <<setup.read.name, p>>) # "conflict"
    /\ LET plan == Proposed(setup.chosen, <<setup.read.name, p>>)
       IN  /\ Safe(plan)
           /\ setup' = [setup EXCEPT !.at = "shown", !.plan = plan]
    /\ UNCHANGED <<status, table, profile, gateway, fresh, edits>>

\* buildCloudflarePlan(): the origin is given, the keys can be fetched.
PlanAccess(origin) ==
    /\ setup.at = "status" /\ setup.chosen = Cloudflare
    /\ Safe(Proposed(Cloudflare, origin))
    /\ setup' = [setup EXCEPT !.at = "shown", !.plan = Proposed(Cloudflare, origin)]
    /\ fresh' = (fresh \/ NoneYet)
    /\ UNCHANGED <<status, table, profile, gateway, edits>>

\* confirmWrite(), after the plan and the entry have been printed.
Confirm ==
    /\ setup.at = "shown" /\ setup.how # "print"
    /\ setup.how = "yes" \/ setup.terminal
    /\ SetupGoes("write")
    /\ UNCHANGED <<status, table, profile, gateway, fresh, edits>>

\* A profile that has an entry of the gateway's is refused.
Write ==
    /\ setup.at = "write" /\ profile = None
    /\ profile' = setup.plan
    /\ setup' = IdleSetup
    /\ UNCHANGED <<status, table, gateway, fresh, edits>>

\* Every step may throw: the input ends, a value is missing or invalid, a command
\* fails, the answer is no, it was a preview, the profile cannot be written.
SetupEnds ==
    /\ setup.at # "idle"
    /\ setup' = IdleSetup
    /\ UNCHANGED <<status, table, profile, gateway, fresh, edits>>

-----------------------------------------------------------------------------
NoGateway ==
    [at |-> "off", conf |-> None, saw |-> None, why |-> None,
     files |-> None, cert |-> None, key |-> None]

TlsFiles == [cert : Pairs, key : Pairs, strict : BOOLEAN]

Becomes(step) == gateway' = [gateway EXCEPT !.at = step]
Fails(why) ==
    gateway' = [gateway EXCEPT !.at = "failed", !.why = why, !.files = None]

\* The plugin is loaded with the profile, and refuses a document it does not
\* accept; one that is not enabled starts nothing.
Load ==
    /\ gateway.at = "off" /\ profile # None
    /\ profile.enabled
    /\ gateway' = [NoGateway EXCEPT !.at = IF Safe(profile) THEN "auth" ELSE "failed",
                                    !.why = IF Safe(profile) THEN None ELSE "config",
                                    !.conf = profile]
    /\ UNCHANGED <<status, table, profile, setup, fresh, edits>>

\* createAuth() and its readiness.
AuthReady ==
    /\ gateway.at = "auth" /\ Supports(gateway.conf)
    /\ IF gateway.conf.type = Headscale
         THEN \E f \in TlsFiles : gateway' = [gateway EXCEPT !.at = "stat", !.files = f]
         ELSE Becomes("inspect")
    /\ UNCHANGED <<status, table, profile, setup, fresh, edits>>

AuthFails ==
    /\ gateway.at = "auth"
    /\ Fails(IF Supports(gateway.conf) THEN "auth" ELSE "mode")
    /\ UNCHANGED <<status, table, profile, setup, fresh, edits>>

\* loadGatewayTls(): the key file's mode and owner, then the certificate, then
\* the key, one file system call after the other.
StatKey ==
    /\ gateway.at = "stat" /\ gateway.files.strict
    /\ Becomes("cert")
    /\ UNCHANGED <<status, table, profile, setup, fresh, edits>>

ReadCert ==
    /\ gateway.at = "cert"
    /\ gateway' = [gateway EXCEPT !.at = "key", !.cert = gateway.files.cert]
    /\ UNCHANGED <<status, table, profile, setup, fresh, edits>>

\* The checks of the certificate without checkPrivateKey().
Usable_AnyKey(cert, key, host) == cert \notin Expired /\ host \in Covers[cert]

Usable(cert, key, host) == cert = key /\ cert \notin Expired /\ host \in Covers[cert]

ReadKey ==
    /\ gateway.at = "key"
    /\ Usable(gateway.cert, gateway.files.key, HostOf(gateway.conf.origin))
    /\ gateway' = [gateway EXCEPT !.at = "inspect", !.key = gateway.files.key, !.files = None]
    /\ UNCHANGED <<status, table, profile, setup, fresh, edits>>

TlsFails ==
    /\ gateway.at \in {"stat", "cert", "key"}
    /\ Fails("tls")
    /\ UNCHANGED <<status, table, profile, setup, fresh, edits>>

\* inspectProvider(), applyProvider() and verifyProvider() on the real table.
Sees == Verdict(gateway.conf.type, table, gateway.conf.origin)

Inspect ==
    /\ gateway.at = "inspect" /\ gateway.conf.type # Cloudflare
    /\ gateway' = [gateway EXCEPT !.at = "apply", !.saw = Sees]
    /\ UNCHANGED <<status, table, profile, setup, fresh, edits>>

Creates == gateway.saw = "absent" /\ gateway.conf.manage = "ensure"

Apply ==
    /\ gateway.at = "apply"
    /\ \/ gateway.saw = "exact" /\ UNCHANGED table
       \/ /\ Creates /\ status.name \in Hosts
          /\ table' \in ServeResults(gateway.conf.type, table, status.name, PortOf(gateway.conf.origin))
    /\ Becomes("verify")
    /\ UNCHANGED <<status, profile, setup, fresh, edits>>

\* A conflict, or a route that may only be verified and is not there.
Refuse ==
    /\ gateway.at = "apply" /\ gateway.saw # "exact" /\ ~Creates
    /\ Fails("route")
    /\ UNCHANGED <<status, table, profile, setup, fresh, edits>>

Verify ==
    /\ gateway.at = "verify"
    /\ IF Sees = "exact" THEN Becomes("ready") ELSE Fails("route")
    /\ UNCHANGED <<status, table, profile, setup, fresh, edits>>

\* The Access provider has no route: it fetches the keys, twice.
AccessVerified ==
    /\ gateway.at = "inspect" /\ gateway.conf.type = Cloudflare
    /\ Becomes("ready")
    /\ UNCHANGED <<status, table, profile, setup, fresh, edits>>

\* A command fails or is stopped, with or without having done its work.
CommandFails ==
    /\ gateway.at \in {"inspect", "apply", "verify"}
    /\ \/ UNCHANGED table
       \/ /\ gateway.at = "apply" /\ Creates /\ status.name \in Hosts
          /\ table' \in ServeResults(gateway.conf.type, table, status.name, PortOf(gateway.conf.origin))
    /\ Fails("command")
    /\ UNCHANGED <<status, profile, setup, fresh, edits>>

\* The plugin is unloaded, or the process has ended.
Unload ==
    /\ gateway.at # "off"
    /\ gateway' = NoGateway
    /\ UNCHANGED <<status, table, profile, setup, fresh, edits>>

-----------------------------------------------------------------------------
(* Everybody else.                                                         *)

Edit == edits < MaxEdits /\ edits' = edits + 1

\* The node is renamed, tagged, moved to another control plane, stopped.
NodeChanges(s) ==
    /\ Edit /\ s # status
    /\ status' = s /\ fresh' = FALSE
    /\ UNCHANGED <<table, profile, setup, gateway>>

\* "tailscale serve", "tailscale funnel" and "tailscale serve off", by hand.
Tables_After(p) ==
    {ClearedPort(table, p)}
    \union {ServedTcp(ClearedPort(table, p), p, to) : to \in {"gateway", "other"}}
    \union (IF status.name = None THEN {}
            ELSE LET web(to) == ServedHttps(ClearedPort(table, p), status.name, p, to)
                 IN  {web("gateway"), web("other"),
                      [web("other") EXCEPT !.funnel = @ \union {<<status.name, p>>}],
                      [web("gateway") EXCEPT !.funnel = @ \union {<<status.name, p>>}]})

TableChanges(p) ==
    /\ Edit
    /\ table' \in Tables_After(p) \ {table}
    /\ fresh' = FALSE
    /\ UNCHANGED <<status, profile, setup, gateway>>

\* One thing in the profile is edited by hand, or all of it removed.
EditedDocuments(d) ==
    {None, [d EXCEPT !.enabled = ~@], [d EXCEPT !.manage = "verify-only"],
     [d EXCEPT !.access = ~@], [d EXCEPT !.store = ~@], [d EXCEPT !.tls = ~@],
     [d EXCEPT !.stray = ~@]}
    \union {[d EXCEPT !.type = t] : t \in Providers \union {EasyTier}}
    \union {[d EXCEPT !.mode = m] : m \in AuthModes}
    \union {[d EXCEPT !.who = n] : n \in Namespaces}
    \union {[d EXCEPT !.origin = o] : o \in Origin}

EditProfile ==
    /\ profile # None
    /\ Edit
    /\ profile' \in EditedDocuments(profile) \ {profile}
    /\ fresh' = FALSE
    /\ UNCHANGED <<status, table, setup, gateway>>

\* A renewal replaces the certificate and its key, one file after the other.
Renew ==
    /\ Edit
    /\ gateway.files # None
    /\ \E v \in Pairs :
         gateway' = [gateway EXCEPT !.files =
                       IF gateway.files.cert = v THEN [@ EXCEPT !.key = v] ELSE [@ EXCEPT !.cert = v]]
    /\ UNCHANGED <<status, table, profile, setup, fresh>>

-----------------------------------------------------------------------------
Init ==
    /\ status \in Nodes
    /\ table = EmptyTable
    /\ profile = None
    /\ setup = IdleSetup
    /\ gateway = NoGateway
    /\ fresh = FALSE
    /\ edits = 0

SetupStep ==
    \/ \E asked \in Providers \union {None}, how \in {"ask", "yes", "print"}, terminal \in BOOLEAN :
         Setup(asked, how, terminal)
    \/ \E installed \in SUBSET Commands : Detect(installed)
    \/ \E type \in Providers : Choose(type)
    \/ \E p \in Ports : ReadServe(p)
    \/ \E o \in Origin : PlanAccess(o)
    \/ ConfirmWeaker \/ ReadStatus \/ Confirm \/ Write \/ SetupEnds

GatewayStep ==
    \/ Load \/ AuthReady \/ AuthFails
    \/ StatKey \/ ReadCert \/ ReadKey \/ TlsFails
    \/ Inspect \/ Apply \/ Refuse \/ Verify \/ AccessVerified \/ CommandFails
    \/ Unload

Elsewhere ==
    \/ \E s \in Nodes : NodeChanges(s)
    \/ \E p \in Ports : TableChanges(p)
    \/ EditProfile \/ Renew

Next == SetupStep \/ GatewayStep \/ Elsewhere

Spec == Init /\ [][Next]_vars

-----------------------------------------------------------------------------
(* Properties.                                                             *)

SetupSteps == {"idle", "detect", "choose", "weaker", "status", "serve", "shown", "write"}
GatewaySteps ==
    {"off", "auth", "stat", "cert", "key", "inspect", "apply", "verify", "ready", "failed"}

SetupStates ==
    [at : SetupSteps, asked : Providers \union {None}, how : {"ask", "yes", "print"},
     terminal : BOOLEAN, plane : Planes \union {None}, detected : SUBSET Providers,
     chosen : Providers \union {None}, weaker : BOOLEAN, read : Nodes \union {None},
     plan : Documents \union {None}]

GatewayStates ==
    [at : GatewaySteps, conf : Documents \union {None},
     saw : {None, "exact", "absent", "conflict"},
     why : Reasons \union {None},
     files : TlsFiles \union {None}, cert : Pairs \union {None}, key : Pairs \union {None}]

\* The type invariant.
FlowTypeOK ==
    /\ status \in Nodes
    /\ table \in Tables
    /\ profile \in Documents \union {None}
    /\ setup \in SetupStates
    /\ gateway \in GatewayStates
    /\ fresh \in BOOLEAN
    /\ edits \in 0 .. MaxEdits

\* However the profile was edited, the gateway never gets to bind with an auth
\* mode for which its provider adds no evidence, and what assertSafeConfig()
\* accepts createAuth() accepts as well.
ModesMatch ==
    /\ gateway.why # "mode"
    /\ gateway.at \in {"inspect", "apply", "verify", "ready"} =>
         gateway.conf.mode = AuthMode(gateway.conf.type)

\* However a renewal replaces the files while they are read, a gateway that ends
\* TLS itself does so with a certificate for its origin, and with the key of it.
PairMatches ==
    gateway.at \in {"inspect", "apply", "verify", "ready"} /\ gateway.conf.type = Headscale =>
      gateway.cert = gateway.key /\ HostOf(gateway.conf.origin) \in Covers[gateway.cert]

FlowInv == FlowTypeOK /\ ModesMatch /\ PairMatches

\* "Setup previews a plan, refuses public/anonymous defaults, and writes a profile
\* entry only after confirmation" (usage() of cli.mjs): what setup writes was shown
\* and not a preview, and somebody agreed to it.  A credential-only entry for a node
\* of Tailscale.com was asked for by name, and confirmed where it could be; one
\* that trusts the header is for a node that was not seen on Headscale.
WritesDeliberately ==
    [][profile = None /\ profile' # None =>
         /\ setup.at = "write" /\ profile' = setup.plan
         /\ setup.how = "yes" \/ (setup.how = "ask" /\ setup.terminal)
         /\ profile'.type = Headscale /\ Plane(setup.read) = "official" =>
              /\ setup.asked = Headscale
              /\ setup.weaker \/ setup.how = "yes"
         /\ profile'.type = Tailscale =>
              Plane(setup.read) # "headscale" /\ ~setup.read.tagged]_vars

\* What setup proposes works: as long as nobody else touches the node, the table
\* or the profile, a start from the entry is not refused for its document, its
\* auth mode or its route, at the first load or any later one.
SetupThenStart ==
    fresh /\ gateway.at = "failed" => gateway.why \in {"auth", "tls", "command"}

\* A start from what setup wrote only adds to the Serve table: as long as nobody
\* else acts, no listener, no handler and no public port that anybody had before
\* is changed, added to or replaced, also by a command that fails half-way.
InUse(t, p) == Funnelled(t, p) \/ WebOn(t, p) # {} \/ t.tcp[p] # "none"

OthersKept ==
    [][fresh /\ fresh' =>
         /\ table'.funnel = table.funnel
         /\ \A p \in Ports : InUse(table, p) =>
              /\ table'.tcp[p] = table.tcp[p]
              /\ \A h \in Hosts : table'.web[<<h, p>>] = table.web[<<h, p>>]]_vars
=============================================================================
