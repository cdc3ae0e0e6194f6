--------------------------- MODULE SetupFlow_proofs ---------------------------
(***************************************************************************)
(* What setup writes was agreed to and fits the node, what it proposes can *)
(* be started and takes nothing away from others on the host, and the      *)
(* gateway gets ready with the auth mode of its provider and with a        *)
(* certificate and the key of it.                                          *)
(*                                                                         *)
(* SetupFlow's invariant FlowInv is not inductive: that the gateway's mode *)
(* fits needs the document of every step to be safe, and that the start of *)
(* a fresh entry is not refused needs what setup, the profile, the table   *)
(* and the gateway have to do with each other.  FlowIInv says so.          *)
(***************************************************************************)
EXTENDS SetupFlow, TLAPS

Running == {"auth", "stat", "cert", "key", "inspect", "apply", "verify", "ready"}
Bound   == {"inspect", "apply", "verify", "ready"}

\* What a running setup knows by the answers it has.
SetupKnows ==
    /\ setup.at = "choose" /\ Headscale \in setup.detected => setup.plane = "headscale"
    /\ setup.at \in {"weaker", "status", "serve", "shown", "write"} =>
         /\ setup.chosen \in Providers
         /\ setup.plane = "official" /\ setup.chosen = Headscale => setup.asked = Headscale
    /\ /\ setup.at \in {"status", "serve", "shown", "write"}
       /\ setup.plane = "official" /\ setup.chosen = Headscale
       => setup.weaker \/ setup.how # "ask" \/ ~setup.terminal
    /\ setup.at = "serve" => setup.chosen # Cloudflare
    /\ setup.at \in {"serve", "shown", "write"} /\ setup.chosen # Cloudflare =>
         /\ setup.read \in Nodes
         /\ Plannable(setup.chosen, setup.read, setup.plane = "official")
    /\ setup.at \in {"shown", "write"} =>
         setup.plan \in Documents /\ setup.plan.type = setup.chosen
    /\ setup.at = "write" => setup.how = "yes" \/ (setup.how = "ask" /\ setup.terminal)

\* What a start has established by the step it is at.
GatewayHas ==
    /\ gateway.why # "mode"
    /\ gateway.at \in Running => gateway.conf \in Documents /\ Safe(gateway.conf)
    /\ gateway.at \in {"stat", "cert", "key"} =>
         gateway.conf.type = Headscale /\ gateway.files \in TlsFiles
    /\ gateway.at = "key" => gateway.cert \in Pairs
    /\ gateway.at \in {"apply", "verify"} => gateway.conf.type # Cloudflare
    /\ gateway.at \in Bound /\ gateway.conf.type = Headscale =>
         gateway.cert = gateway.key /\ HostOf(gateway.conf.origin) \in Covers[gateway.cert]

\* As long as nobody else acts, nothing is started before there is an entry.
EntryFirst == fresh /\ profile = None => gateway.at = "off"

\* A document whose start nothing of the host stands against.
Startable(d, host, t) ==
    /\ Safe(d) /\ d.enabled
    /\ d.type # Cloudflare =>
         /\ HostOf(d.origin) = host
         /\ d.manage = "ensure"
         /\ Verdict(d.type, t, d.origin) # "conflict"

\* What holds as long as nobody else acts.
FreshPlan ==
    fresh =>
      /\ setup.at = "serve" => setup.read = status
      /\ setup.at \in {"shown", "write"} /\ profile = None =>
           Startable(setup.plan, status.name, table)
      /\ profile # None => Startable(profile, status.name, table)

FreshStart ==
    fresh =>
      /\ gateway.at # "off" => profile # None /\ gateway.conf = profile
      /\ gateway.at = "apply" =>
           gateway.saw = Verdict(gateway.conf.type, table, gateway.conf.origin)
      /\ gateway.at = "verify" =>
           Verdict(gateway.conf.type, table, gateway.conf.origin) = "exact"
      /\ gateway.at = "failed" => gateway.why \in {"auth", "tls", "command"}

FlowIInv == FlowTypeOK /\ SetupKnows /\ GatewayHas /\ EntryFirst /\ FreshPlan /\ FreshStart

-----------------------------------------------------------------------------
(* Documents and the control plane.                                        *)

\* A document that is accepted has the auth mode of its provider, and
\* createAuth() finds the evidence that it lives on.
LEMMA SafeFits ==
    ASSUME NEW d \in Documents, Safe(d)
    PROVE  d.type \in Providers /\ d.mode = AuthMode(d.type) /\ Supports(d)
<1>1. d.type \in Providers /\ d.mode = AuthMode(d.type)
  BY DEF Safe, ProviderFits, AuthFits
<1>2. Supports(d)
  BY <1>1 DEF Supports, AuthMode, IdentityKind, Providers, Tailscale, Cloudflare, Headscale
<1> QED BY <1>1, <1>2

LEMMA ProposedIsDocument ==
    ASSUME NEW type \in Providers, NEW o \in Origin
    PROVE  /\ Proposed(type, o) \in Documents
           /\ Proposed(type, o).type = type /\ Proposed(type, o).origin = o
           /\ Proposed(type, o).enabled
           /\ type # Cloudflare => Proposed(type, o).manage = "ensure"
<1>1. AuthMode(type) \in AuthModes /\ Namespace(type) \in Namespaces
  BY DEF AuthMode, Namespace, AuthModes, Namespaces, Providers, Tailscale, Cloudflare, Headscale
<1> QED BY <1>1 DEF Proposed, Documents, Providers

LEMMA PlaneIsKnown == \A s : Plane(s) \in Planes
  BY DEF Plane, Planes

\* Whatever setup makes a plan for has a name.
LEMMA PlannableIsNamed ==
    ASSUME NEW type, NEW s, NEW b, Plannable(type, s, b)
    PROVE  s.name \in Hosts
<1>1. CASE HasIdentity(s)
  BY <1>1, HostAssumption DEF HasIdentity
<1>2. CASE HasHeadscaleNode(s, b)
  BY <1>2, HostAssumption DEF HasHeadscaleNode, Plane
<1> QED BY <1>1, <1>2 DEF Plannable

LEMMA OriginParts ==
    ASSUME NEW a \in Origin
    PROVE  a = <<HostOf(a), PortOf(a)>> /\ HostOf(a) \in Hosts /\ PortOf(a) \in Ports
  BY DEF Origin, HostOf, PortOf

LEMMA OriginOf ==
    ASSUME NEW h \in Hosts, NEW p \in Ports
    PROVE  <<h, p>> \in Origin /\ HostOf(<<h, p>>) = h /\ PortOf(<<h, p>>) = p
  BY DEF Origin, HostOf, PortOf

-----------------------------------------------------------------------------
(* The Serve table.                                                        *)

LEMMA ClearedIsTable ==
    ASSUME NEW t \in Tables, NEW p \in Ports
    PROVE  ClearedPort(t, p) \in Tables
  BY DEF Tables, ClearedPort

LEMMA ServedHttpsIsTable ==
    ASSUME NEW t \in Tables, NEW h \in Hosts, NEW p \in Ports, NEW to \in {"gateway", "other"}
    PROVE  ServedHttps(t, h, p, to) \in Tables
  BY OriginOf DEF Tables, ServedHttps

LEMMA ServedTcpIsTable ==
    ASSUME NEW t \in Tables, NEW p \in Ports, NEW to \in {"gateway", "other"}
    PROVE  ServedTcp(t, p, to) \in Tables
  BY DEF Tables, ServedTcp

LEMMA ServeResultsAreTables ==
    ASSUME NEW type, NEW t \in Tables, NEW h \in Hosts, NEW p \in Ports
    PROVE  ServeResults(type, t, h, p) \subseteq Tables
<1>1. \A u \in Tables : Served(type, u, h, p) \in Tables
  BY ServedHttpsIsTable, ServedTcpIsTable DEF Served
<1> QED BY <1>1, ClearedIsTable DEF ServeResults

\* What anybody does with tailscale leaves a table behind.
LEMMA TablesAfterAreTables ==
    ASSUME NEW p \in Ports, table \in Tables, status.name \in Hosts \union {None}
    PROVE  Tables_After(p) \subseteq Tables
<1> DEFINE clear == ClearedPort(table, p)
<1>1. clear \in Tables
  BY ClearedIsTable
<1>2. \A to \in {"gateway", "other"} : ServedTcp(clear, p, to) \in Tables
  BY <1>1, ServedTcpIsTable
<1>3. CASE status.name = None
  BY <1>1, <1>2, <1>3 DEF Tables_After
<1>4. CASE status.name \in Hosts /\ status.name # None
  <2> DEFINE web(to) == ServedHttps(clear, status.name, p, to)
  <2>1. web("gateway") \in Tables /\ web("other") \in Tables
    BY <1>1, <1>4, ServedHttpsIsTable
  <2>2. <<status.name, p>> \in Origin
    BY <1>4, OriginOf
  <2>3. \A u \in Tables : [u EXCEPT !.funnel = @ \union {<<status.name, p>>}] \in Tables
    BY <2>2 DEF Tables
  <2> HIDE DEF web, clear
  <2>4. Tables_After(p) =
          {clear} \union {ServedTcp(clear, p, to) : to \in {"gateway", "other"}}
          \union {web("gateway"), web("other"),
                  [web("other") EXCEPT !.funnel = @ \union {<<status.name, p>>}],
                  [web("gateway") EXCEPT !.funnel = @ \union {<<status.name, p>>}]}
    BY <1>4 DEF Tables_After, web, clear
  <2> QED BY <2>1, <2>3, <2>4, <1>1, <1>2
<1> QED BY <1>3, <1>4

LEMMA VerdictKinds ==
    ASSUME NEW type, NEW t, NEW a
    PROVE  /\ Verdict(type, t, a) \in {"exact", "absent", "conflict"}
           /\ Verdict(type, t, a) = "absent" => Absent(type, t, a)
           /\ Exact(type, t, a) => Verdict(type, t, a) = "exact"
           /\ Absent(type, t, a) => Verdict(type, t, a) # "conflict"
<1>1. ~(Exact(type, t, a) /\ Absent(type, t, a))
  BY DEF Exact, Absent, TcpExact, TcpAbsent, HttpsExact, HttpsAbsent
<1>2. CASE Exact(type, t, a)
  BY <1>1, <1>2 DEF Verdict
<1>3. CASE Absent(type, t, a)
  BY <1>1, <1>3 DEF Verdict
<1>4. CASE ~Exact(type, t, a) /\ ~Absent(type, t, a)
  BY <1>4 DEF Verdict
<1> QED BY <1>2, <1>3, <1>4

\* The port that setup selects is in no conflict.
LEMMA SelectedIsFree ==
    ASSUME NEW type, NEW t, NEW h, NEW p, Selects(type, t, h, p)
    PROVE  Verdict(type, t, <<h, p>>) # "conflict"
<1>1. Exact(type, t, <<h, p>>) \/ Absent(type, t, <<h, p>>)
  BY DEF Selects, Least, ExactPorts, AbsentPorts
<1> QED BY <1>1, VerdictKinds

\* On a port that is absent the command succeeds, and what it leaves is exact.
LEMMA ServedIsExact ==
    ASSUME NEW type, NEW t \in Tables, NEW a \in Origin, Verdict(type, t, a) = "absent"
    PROVE  \A u \in ServeResults(type, t, HostOf(a), PortOf(a)) : Verdict(type, u, a) = "exact"
<1> DEFINE h == HostOf(a)
           p == PortOf(a)
<1>1. a = <<h, p>> /\ h \in Hosts /\ p \in Ports
  BY OriginParts
<1>2. Absent(type, t, a)
  BY VerdictKinds
<1>3. ~Funnelled(t, p) /\ WebOn(t, p) = {} /\ t.tcp[p] = "none"
  BY <1>2 DEF Absent, TcpAbsent, HttpsAbsent
<1>4. ServeResults(type, t, h, p) = {Served(type, t, h, p)}
  BY <1>3 DEF ServeResults
<1>5. CASE type = Headscale
  <2> DEFINE u == ServedTcp(t, p, "gateway")
  <2>1. u.web = t.web /\ u.funnel = t.funnel /\ u.tcp[p] = "gateway"
    BY <1>1 DEF ServedTcp, Tables
  <2>2. TcpExact(u, a)
    BY <1>3, <2>1 DEF TcpExact, Funnelled, WebOn
  <2> QED BY <1>4, <1>5, <2>2, VerdictKinds DEF Served, Exact
<1>6. CASE type # Headscale
  <2> DEFINE u == ServedHttps(t, h, p, "gateway")
  <2>1. u.web = [t.web EXCEPT ![a] = "gateway"] /\ u.funnel = t.funnel /\ u.tcp[p] = "https"
    BY <1>1 DEF ServedHttps, Tables
  <2>2. u.web[a] = "gateway" /\ \A b \in Origin : b # a => u.web[b] = t.web[b]
    BY <2>1 DEF Tables
  <2>3. WebOn(u, p) = {a}
    BY <1>3, <2>2 DEF WebOn
  <2>4. HttpsExact(u, a)
    BY <1>3, <2>1, <2>2, <2>3 DEF HttpsExact, Funnelled
  <2> QED BY <1>4, <1>6, <2>4, VerdictKinds DEF Served, Exact
<1> QED BY <1>5, <1>6

-----------------------------------------------------------------------------
(* The initial state.                                                      *)

LEMMA StatusParts ==
    ASSUME NEW s \in Nodes
    PROVE  s \in Statuses /\ s.name \in Hosts \union {None}
  BY FlowAssumption DEF Statuses

LEMMA InitHolds == Init => FlowIInv
<1> SUFFICES ASSUME Init PROVE FlowIInv
  OBVIOUS
<1>1. table \in Tables
  BY DEF Init, EmptyTable, Tables
<1>2. FlowTypeOK
  <2>1. profile \in Documents \union {None} /\ fresh \in BOOLEAN
    BY DEF Init
  <2>2. edits \in 0 .. MaxEdits
    BY FlowAssumption DEF Init
  <2>3. setup \in SetupStates
    BY DEF Init, IdleSetup, SetupSteps, SetupStates
  <2>4. gateway \in GatewayStates
    BY DEF Init, NoGateway, GatewaySteps, GatewayStates, Reasons
  <2> QED BY <1>1, <2>1, <2>2, <2>3, <2>4 DEF Init, FlowTypeOK
<1>3. SetupKnows
  BY DEF Init, SetupKnows, IdleSetup
<1>4. GatewayHas
  <2>1. None # "mode"
    BY FlowAssumption DEF Reasons
  <2> QED BY <2>1 DEF Init, GatewayHas, NoGateway, Running, Bound
<1>5. EntryFirst
  BY DEF Init, EntryFirst, IdleSetup
<1>6. FreshPlan /\ FreshStart
  BY DEF Init, FreshPlan, FreshStart
<1> QED BY <1>2, <1>3, <1>4, <1>5, <1>6 DEF FlowIInv

-----------------------------------------------------------------------------
(* Types.                                                                  *)

LEMMA DetectedAreProviders ==
    ASSUME NEW installed, NEW plane
    PROVE  /\ Detected(installed, plane) \subseteq Providers
           /\ Headscale \in Detected(installed, plane) => plane = "headscale"
  BY DEF Detected, Providers, Tailscale, Cloudflare, Headscale

LEMMA SetupTypes ==
    ASSUME FlowIInv, SetupStep
    PROVE  FlowTypeOK'
<1> USE DEF FlowIInv, FlowTypeOK
<1>1. ASSUME NEW asked \in Providers \union {None}, NEW how \in {"ask", "yes", "print"},
             NEW terminal \in BOOLEAN, Setup(asked, how, terminal)
      PROVE  FlowTypeOK'
  BY <1>1 DEF Setup, IdleSetup, SetupStates, SetupSteps
<1>2. ASSUME NEW installed \in SUBSET Commands, Detect(installed)
      PROVE  FlowTypeOK'
  <2>1. PICK plane \in {Plane(status), "unknown", None} :
          setup' = [setup EXCEPT !.at = "choose", !.plane = plane,
                                 !.detected = Detected(installed, plane)]
    BY <1>2 DEF Detect
  <2>2. plane \in Planes \union {None}
    BY PlaneIsKnown DEF Planes
  <2>3. setup' \in SetupStates
    BY <2>1, <2>2, DetectedAreProviders DEF SetupStates, SetupSteps
  <2> QED BY <1>2, <2>3 DEF Detect
<1>3. ASSUME NEW type \in Providers, Choose(type)
      PROVE  FlowTypeOK'
  BY <1>3 DEF Choose, SetupStates, SetupSteps
<1>4. ASSUME NEW p \in Ports, ReadServe(p)
      PROVE  FlowTypeOK'
  <2>1. setup.chosen \in Providers /\ setup.read.name \in Hosts
    BY <1>4, PlannableIsNamed DEF ReadServe, SetupKnows
  <2>2. Proposed(setup.chosen, <<setup.read.name, p>>) \in Documents
    BY <2>1, OriginOf, ProposedIsDocument
  <2>3. setup' \in SetupStates
    BY <1>4, <2>2 DEF ReadServe, SetupStates, SetupSteps
  <2> QED BY <1>4, <2>3 DEF ReadServe
<1>5. ASSUME NEW o \in Origin, PlanAccess(o)
      PROVE  FlowTypeOK'
  <2>1. Proposed(Cloudflare, o) \in Documents
    BY ProposedIsDocument DEF Providers
  <2> QED BY <1>5, <2>1 DEF PlanAccess, SetupStates, SetupSteps
<1>6. CASE ConfirmWeaker
  BY <1>6 DEF ConfirmWeaker, SetupStates, SetupSteps
<1>7. CASE ReadStatus
  BY <1>7 DEF ReadStatus, SetupStates, SetupSteps
<1>8. CASE Confirm
  BY <1>8 DEF Confirm, SetupGoes, SetupStates, SetupSteps
<1>9. ASSUME Write \/ SetupEnds
      PROVE  FlowTypeOK'
  <2>1. IdleSetup \in SetupStates
    BY DEF IdleSetup, SetupStates, SetupSteps
  <2>2. profile' \in Documents \union {None}
    BY <1>9 DEF Write, SetupEnds, SetupStates
  <2> QED BY <1>9, <2>1, <2>2 DEF Write, SetupEnds
<1> QED BY <1>1, <1>2, <1>3, <1>4, <1>5, <1>6, <1>7, <1>8, <1>9 DEF SetupStep

\* What the Serve command of a start leaves behind is a table.
LEMMA ServedTypes ==
    ASSUME FlowIInv, gateway.at = "apply", status.name \in Hosts
    PROVE  ServeResults(gateway.conf.type, table, status.name, PortOf(gateway.conf.origin))
             \subseteq Tables
<1>1. gateway.conf \in Documents
  BY DEF FlowIInv, GatewayHas, Running
<1>2. PortOf(gateway.conf.origin) \in Ports
  BY <1>1, OriginParts DEF Documents
<1> QED BY <1>2, ServeResultsAreTables DEF FlowIInv, FlowTypeOK

LEMMA GatewayTypes ==
    ASSUME FlowIInv, GatewayStep
    PROVE  FlowTypeOK'
<1> USE DEF FlowIInv, FlowTypeOK
<1>1. CASE Load
  BY <1>1 DEF Load, NoGateway, GatewayStates, GatewaySteps, Reasons
<1>2. CASE AuthReady
  BY <1>2 DEF AuthReady, Becomes, GatewayStates, GatewaySteps
<1>3. CASE StatKey \/ Inspect \/ AccessVerified
  BY <1>3, VerdictKinds
  DEF StatKey, Inspect, AccessVerified, Sees, Becomes, GatewayStates, GatewaySteps
<1>4. CASE ReadCert \/ ReadKey
  BY <1>4 DEF ReadCert, ReadKey, GatewayHas, GatewayStates, GatewaySteps, TlsFiles
<1>5. CASE AuthFails \/ TlsFails \/ Refuse \/ Verify
  <2>1. ASSUME NEW why \in Reasons, Fails(why)
        PROVE  gateway' \in GatewayStates
    BY <2>1 DEF Fails, GatewayStates, GatewaySteps
  <2>2. Becomes("ready") => gateway' \in GatewayStates
    BY DEF Becomes, GatewayStates, GatewaySteps
  <2>3. gateway' \in GatewayStates
    <3>1. {"auth", "mode", "tls", "route"} \subseteq Reasons
      BY DEF Reasons
    <3> QED BY <1>5, <2>1, <2>2, <3>1 DEF AuthFails, TlsFails, Refuse, Verify
  <2> QED BY <1>5, <2>3 DEF AuthFails, TlsFails, Refuse, Verify
<1>6. CASE Apply
  <2>1. table' \in Tables
    BY <1>6, ServedTypes DEF Apply
  <2>2. gateway' \in GatewayStates
    BY <1>6 DEF Apply, Becomes, GatewayStates, GatewaySteps
  <2> QED BY <1>6, <2>1, <2>2 DEF Apply
<1>7. CASE CommandFails
  <2>1. table' \in Tables
    BY <1>7, ServedTypes DEF CommandFails
  <2>2. gateway' \in GatewayStates
    BY <1>7 DEF CommandFails, Fails, GatewayStates, GatewaySteps, Reasons
  <2> QED BY <1>7, <2>1, <2>2 DEF CommandFails
<1>8. CASE Unload
  BY <1>8 DEF Unload, NoGateway, GatewayStates, GatewaySteps
<1> QED BY <1>1, <1>2, <1>3, <1>4, <1>5, <1>6, <1>7, <1>8 DEF GatewayStep

\* One edit more is still within the bound.
LEMMA EditsBounded == edits \in 0 .. MaxEdits /\ Edit => edits' \in 0 .. MaxEdits
  BY FlowAssumption DEF Edit

LEMMA EditedAreDocuments ==
    ASSUME NEW d \in Documents
    PROVE  EditedDocuments(d) \subseteq Documents \union {None}
<1>1. \A t \in Providers \union {EasyTier} : [d EXCEPT !.type = t] \in Documents
  BY DEF Documents
<1>2. \A m \in AuthModes : [d EXCEPT !.mode = m] \in Documents
  BY DEF Documents
<1>3. \A n \in Namespaces : [d EXCEPT !.who = n] \in Documents
  BY DEF Documents
<1>4. \A o \in Origin : [d EXCEPT !.origin = o] \in Documents
  BY DEF Documents
<1>5. {[d EXCEPT !.enabled = ~@], [d EXCEPT !.manage = "verify-only"],
       [d EXCEPT !.access = ~@], [d EXCEPT !.store = ~@], [d EXCEPT !.tls = ~@],
       [d EXCEPT !.stray = ~@]} \subseteq Documents
  BY DEF Documents
<1> QED BY <1>1, <1>2, <1>3, <1>4, <1>5 DEF EditedDocuments

LEMMA ElsewhereTypes ==
    ASSUME FlowIInv, Elsewhere
    PROVE  FlowTypeOK'
<1> USE EditsBounded DEF FlowIInv, FlowTypeOK
<1>1. ASSUME NEW s \in Nodes, NodeChanges(s)
      PROVE  FlowTypeOK'
  BY <1>1 DEF NodeChanges
<1>2. ASSUME NEW p \in Ports, TableChanges(p)
      PROVE  FlowTypeOK'
  <2>1. Tables_After(p) \subseteq Tables
    BY TablesAfterAreTables, StatusParts
  <2> QED BY <1>2, <2>1 DEF TableChanges
<1>3. CASE EditProfile
  BY <1>3, EditedAreDocuments DEF EditProfile
<1>4. CASE Renew
  <2>1. PICK v \in Pairs :
          gateway' = [gateway EXCEPT !.files =
                        IF gateway.files.cert = v THEN [@ EXCEPT !.key = v] ELSE [@ EXCEPT !.cert = v]]
    BY <1>4 DEF Renew
  <2>2. gateway.files \in TlsFiles
    BY <1>4 DEF Renew, GatewayStates
  <2>3. gateway' \in GatewayStates
    BY <2>1, <2>2 DEF GatewayStates, TlsFiles
  <2> QED BY <1>4, <2>3 DEF Renew
<1> QED BY <1>1, <1>2, <1>3, <1>4 DEF Elsewhere

-----------------------------------------------------------------------------
(* What a setup knows, what a start has, and that only one of them is on.  *)

LEMMA SetupLeaves == SetupStep => UNCHANGED <<status, table, gateway, edits>>
<1> SUFFICES ASSUME SetupStep PROVE UNCHANGED <<status, table, gateway, edits>>
  OBVIOUS
<1> QED BY DEF SetupStep, Setup, Detect, Choose, ReadServe, PlanAccess, ConfirmWeaker, ReadStatus,
          Confirm, Write, SetupEnds

LEMMA GatewayLeaves == GatewayStep => UNCHANGED <<status, profile, setup, fresh, edits>>
<1> SUFFICES ASSUME GatewayStep PROVE UNCHANGED <<status, profile, setup, fresh, edits>>
  OBVIOUS
<1> QED BY DEF GatewayStep, Load, AuthReady, AuthFails, StatKey, ReadCert, ReadKey, TlsFails,
          Inspect, Apply, Refuse, Verify, AccessVerified, CommandFails, Unload

LEMMA OthersLeave ==
    ASSUME FlowTypeOK, Elsewhere
    PROVE  /\ UNCHANGED setup
           /\ Renew \/ (UNCHANGED gateway /\ ~fresh')
           /\ EditProfile \/ UNCHANGED profile
  BY DEF Elsewhere, NodeChanges, TableChanges, EditProfile, Renew

LEMMA SetupKnowsStep ==
    ASSUME FlowIInv, SetupStep
    PROVE  SetupKnows'
<1> USE DEF FlowIInv, FlowTypeOK
<1>1. ASSUME NEW asked \in Providers \union {None}, NEW how \in {"ask", "yes", "print"},
             NEW terminal \in BOOLEAN, Setup(asked, how, terminal)
      PROVE  SetupKnows'
  BY <1>1 DEF Setup, IdleSetup, SetupKnows
<1>2. ASSUME NEW installed \in SUBSET Commands, Detect(installed)
      PROVE  SetupKnows'
  <2>1. PICK plane \in {Plane(status), "unknown", None} :
          setup' = [setup EXCEPT !.at = "choose", !.plane = plane,
                                 !.detected = Detected(installed, plane)]
    BY <1>2 DEF Detect
  <2>2. /\ setup'.at = "choose" /\ setup'.plane = plane
        /\ setup'.detected = Detected(installed, plane)
    BY <2>1 DEF SetupStates
  <2> QED BY <2>2, DetectedAreProviders DEF SetupKnows
<1>3. ASSUME NEW type \in Providers, Choose(type)
      PROVE  SetupKnows'
  <2>1. /\ setup' = [setup EXCEPT !.at = IF AsksForWeaker(type) THEN "weaker" ELSE "status",
                                  !.chosen = type, !.detected = {}]
        /\ setup.at = "choose"
        /\ type \in Selectable(setup.asked, setup.terminal, setup.detected, setup.plane)
    BY <1>3 DEF Choose
  <2>2. /\ setup'.at = IF AsksForWeaker(type) THEN "weaker" ELSE "status"
        /\ setup'.chosen = type /\ setup'.plane = setup.plane /\ setup'.asked = setup.asked
        /\ setup'.how = setup.how /\ setup'.terminal = setup.terminal
    BY <2>1 DEF SetupStates
  <2>3. ASSUME setup.plane = "official", type = Headscale
        PROVE  setup.asked = Headscale
    <3>1. CASE setup.asked # None
      BY <2>1, <2>3, <3>1 DEF Selectable
    <3>2. CASE setup.asked = None /\ setup.terminal
      BY <2>1, <2>3, <3>2 DEF Selectable, Menu, Tailscale, Cloudflare, Headscale
    <3>3. CASE setup.asked = None /\ ~setup.terminal
      <4>1. Headscale \in setup.detected
        BY <2>1, <2>3, <3>3 DEF Selectable
      <4> QED BY <4>1, <2>1, <2>3 DEF SetupKnows
    <3> QED BY <3>1, <3>2, <3>3
  <2> QED BY <2>2, <2>3 DEF SetupKnows, AsksForWeaker
<1>4. ASSUME NEW p \in Ports, ReadServe(p)
      PROVE  SetupKnows'
  <2> DEFINE plan == Proposed(setup.chosen, <<setup.read.name, p>>)
  <2>1. setup.at = "serve" /\ setup' = [setup EXCEPT !.at = "shown", !.plan = plan]
    BY <1>4 DEF ReadServe
  <2>2. setup.chosen \in Providers /\ setup.read.name \in Hosts
    BY <2>1, PlannableIsNamed DEF SetupKnows
  <2>3. plan \in Documents /\ plan.type = setup.chosen
    BY <2>2, OriginOf, ProposedIsDocument
  <2> HIDE DEF plan
  <2>4. setup'.at = "shown" /\ setup'.plan = plan
    BY <2>1 DEF SetupStates
  <2>5. /\ setup'.chosen = setup.chosen /\ setup'.plane = setup.plane /\ setup'.asked = setup.asked
        /\ setup'.how = setup.how /\ setup'.terminal = setup.terminal
        /\ setup'.weaker = setup.weaker /\ setup'.read = setup.read
    BY <2>1 DEF SetupStates
  <2> QED BY <2>1, <2>3, <2>4, <2>5 DEF SetupKnows
<1>5. ASSUME NEW o \in Origin, PlanAccess(o)
      PROVE  SetupKnows'
  <2> DEFINE plan == Proposed(Cloudflare, o)
  <2>1. /\ setup.at = "status" /\ setup.chosen = Cloudflare
        /\ setup' = [setup EXCEPT !.at = "shown", !.plan = plan]
    BY <1>5 DEF PlanAccess
  <2>2. plan \in Documents /\ plan.type = Cloudflare
    BY ProposedIsDocument DEF Providers
  <2> HIDE DEF plan
  <2>3. setup'.at = "shown" /\ setup'.plan = plan /\ setup'.chosen = Cloudflare
    BY <2>1 DEF SetupStates
  <2>4. Cloudflare \in Providers /\ Cloudflare # Headscale
    BY DEF Providers, Cloudflare, Headscale
  <2> QED BY <2>2, <2>3, <2>4 DEF SetupKnows
<1>6. CASE ConfirmWeaker
  BY <1>6 DEF ConfirmWeaker, SetupKnows, SetupStates
<1>7. CASE ReadStatus
  <2>1. /\ setup.at = "status" /\ setup.chosen # Cloudflare
        /\ Plannable(setup.chosen, status, setup.plane = "official")
        /\ setup' = [setup EXCEPT !.at = "serve", !.read = status]
    BY <1>7 DEF ReadStatus
  <2>2. setup'.at = "serve" /\ setup'.read = status
    BY <2>1 DEF SetupStates
  <2>3. /\ setup'.chosen = setup.chosen /\ setup'.plane = setup.plane /\ setup'.asked = setup.asked
        /\ setup'.how = setup.how /\ setup'.terminal = setup.terminal
        /\ setup'.weaker = setup.weaker
    BY <2>1 DEF SetupStates
  <2> QED BY <2>1, <2>2, <2>3 DEF SetupKnows
<1>8. CASE Confirm
  BY <1>8 DEF Confirm, SetupGoes, SetupKnows, SetupStates
<1>9. CASE Write \/ SetupEnds
  BY <1>9 DEF Write, SetupEnds, IdleSetup, SetupKnows
<1> QED BY <1>1, <1>2, <1>3, <1>4, <1>5, <1>6, <1>7, <1>8, <1>9 DEF SetupStep

LEMMA GatewayHasStep ==
    ASSUME FlowIInv, GatewayStep
    PROVE  GatewayHas'
<1> USE DEF FlowIInv, FlowTypeOK, Running, Bound
<1>0. None # "mode" /\ "config" # "mode"
  BY FlowAssumption DEF Reasons
<1>1. CASE Load
  BY <1>0, <1>1 DEF Load, NoGateway, GatewayHas
<1>2. CASE AuthReady
  BY <1>2 DEF AuthReady, Becomes, GatewayHas, GatewayStates
<1>3. CASE AuthFails
  <2>1. Supports(gateway.conf)
    BY <1>3, SafeFits DEF AuthFails, GatewayHas
  <2> QED BY <1>3, <2>1 DEF AuthFails, Fails, GatewayHas, GatewayStates
<1>4. CASE StatKey \/ ReadCert
  BY <1>4 DEF StatKey, ReadCert, Becomes, GatewayHas, GatewayStates, TlsFiles
<1>5. CASE ReadKey
  BY <1>5 DEF ReadKey, Usable, GatewayHas, GatewayStates
<1>6. CASE Inspect \/ AccessVerified \/ Apply
  BY <1>6 DEF Inspect, AccessVerified, Apply, Becomes, GatewayHas, GatewayStates
<1>7. CASE TlsFails \/ Refuse \/ Verify \/ CommandFails
  BY <1>7 DEF TlsFails, Refuse, Verify, CommandFails, Fails, Becomes, GatewayHas, GatewayStates
<1>8. CASE Unload
  BY <1>0, <1>8 DEF Unload, NoGateway, GatewayHas
<1> QED BY <1>1, <1>2, <1>3, <1>4, <1>5, <1>6, <1>7, <1>8 DEF GatewayStep

\* A renewal replaces files, and nothing that has been read.
LEMMA RenewLeaves ==
    ASSUME FlowIInv, Renew
    PROVE  /\ gateway'.at = gateway.at /\ gateway'.conf = gateway.conf /\ gateway'.why = gateway.why
           /\ gateway'.cert = gateway.cert /\ gateway'.key = gateway.key
           /\ gateway'.saw = gateway.saw /\ gateway'.files \in TlsFiles
<1>1. gateway.files # None /\ gateway.files \in TlsFiles
  BY DEF Renew, FlowIInv, FlowTypeOK, GatewayStates
<1> QED BY <1>1 DEF Renew, FlowIInv, FlowTypeOK, GatewayStates, TlsFiles

LEMMA GatewayHasRenewed == FlowIInv /\ Renew => GatewayHas'
  BY RenewLeaves DEF GatewayHas, FlowIInv

\* Setup begins a plan where neither is, or leaves fresh alone; of the others only
\* a renewal does.
LEMMA FreshBegins ==
    ASSUME FlowIInv, SetupStep
    PROVE  fresh' => fresh \/ (NoneYet /\ UNCHANGED profile)
<1>1. ASSUME NEW o \in Origin, PlanAccess(o)
      PROVE  fresh' => fresh \/ (NoneYet /\ UNCHANGED profile)
  BY <1>1 DEF PlanAccess
<1>2. CASE ReadStatus
  BY <1>2 DEF ReadStatus
<1>3. ASSUME ~ReadStatus, ~\E o \in Origin : PlanAccess(o)
      PROVE  UNCHANGED fresh
  BY <1>3 DEF SetupStep, Setup, Detect, Choose, ReadServe, ConfirmWeaker, Confirm, Write, SetupEnds
<1> QED BY <1>1, <1>2, <1>3

\* Setup takes no entry away.
LEMMA SetupKeepsEntry ==
    ASSUME FlowIInv, SetupStep, profile' = None
    PROVE  profile = None
<1>1. CASE Write
  BY <1>1 DEF Write
<1>2. CASE ~Write
  BY <1>2 DEF SetupStep, Setup, Detect, Choose, ReadServe, PlanAccess, ConfirmWeaker, ReadStatus,
    Confirm, SetupEnds
<1> QED BY <1>1, <1>2

LEMMA EntryFirstStep ==
    ASSUME FlowIInv, Next
    PROVE  EntryFirst'
<1>1. CASE SetupStep
  BY <1>1, SetupLeaves, FreshBegins, SetupKeepsEntry DEF FlowIInv, EntryFirst, NoneYet
<1>2. CASE GatewayStep
  <2>1. gateway.at = "off" => Load
    BY <1>2 DEF GatewayStep, AuthReady, AuthFails, StatKey, ReadCert, ReadKey,
      TlsFails, Inspect, Apply, Refuse, Verify, AccessVerified, CommandFails, Unload
  <2>2. Load => profile # None
    BY DEF Load
  <2> QED BY <1>2, <2>1, <2>2, GatewayLeaves DEF FlowIInv, EntryFirst
<1>3. CASE Elsewhere
  <2>1. gateway'.at = gateway.at
    BY <1>3, OthersLeave, RenewLeaves DEF FlowIInv
  <2>2. CASE Renew
    BY <2>1, <2>2 DEF Renew, FlowIInv, EntryFirst
  <2>3. CASE ~fresh'
    BY <2>3 DEF EntryFirst
  <2> QED BY <1>3, <2>2, <2>3, OthersLeave DEF FlowIInv
<1> QED BY <1>1, <1>2, <1>3 DEF Next

-----------------------------------------------------------------------------
(* As long as nobody else acts.                                            *)

\* A plan that setup has made can be started.
LEMMA PlanIsStartable ==
    ASSUME FlowIInv, NEW type \in Providers, NEW o \in Origin,
           Safe(Proposed(type, o)),
           type # Cloudflare =>
             HostOf(o) = status.name /\ Verdict(type, table, o) # "conflict"
    PROVE  Startable(Proposed(type, o), status.name, table)
<1> DEFINE plan == Proposed(type, o)
<1>1. /\ plan.type = type /\ plan.origin = o /\ plan.enabled
      /\ type # Cloudflare => plan.manage = "ensure"
  BY ProposedIsDocument
<1> HIDE DEF plan
<1>2. Startable(plan, status.name, table)
  <2>1. Safe(plan)
    BY DEF plan
  <2> QED BY <1>1, <2>1 DEF Startable
<1> QED BY <1>2 DEF plan

LEMMA FreshPlanSetup ==
    ASSUME FlowIInv, SetupStep
    PROVE  FreshPlan'
<1> USE DEF FlowIInv, FlowTypeOK
<1>0. UNCHANGED <<status, table, gateway, edits>>
  BY SetupLeaves
<1>1. ASSUME UNCHANGED <<profile, fresh>>, setup'.at \notin {"serve", "shown", "write"}
      PROVE  FreshPlan'
  BY <1>0, <1>1 DEF FreshPlan
<1>2. ASSUME NEW asked \in Providers \union {None}, NEW how \in {"ask", "yes", "print"},
             NEW terminal \in BOOLEAN, Setup(asked, how, terminal)
      PROVE  FreshPlan'
  BY <1>1, <1>2 DEF Setup, IdleSetup
<1>3. ASSUME NEW installed \in SUBSET Commands, Detect(installed)
      PROVE  FreshPlan'
  BY <1>1, <1>3 DEF Detect, SetupStates
<1>4. ASSUME NEW type \in Providers, Choose(type)
      PROVE  FreshPlan'
  BY <1>1, <1>4 DEF Choose, SetupStates
<1>5. ASSUME NEW p \in Ports, ReadServe(p)
      PROVE  FreshPlan'
  <2> DEFINE o == <<setup.read.name, p>>
             plan == Proposed(setup.chosen, o)
  <2>1. /\ setup.at = "serve" /\ Safe(plan) /\ UNCHANGED <<profile, fresh>>
        /\ setup' = [setup EXCEPT !.at = "shown", !.plan = plan]
        /\ \/ Selects(setup.chosen, table, setup.read.name, p)
           \/ setup.chosen = Headscale /\ Verdict(Headscale, table, o) # "conflict"
    BY <1>5 DEF ReadServe
  <2>2. setup.chosen \in Providers /\ setup.read.name \in Hosts
    BY <2>1, PlannableIsNamed DEF SetupKnows
  <2>3. o \in Origin /\ HostOf(o) = setup.read.name
    BY <2>2, OriginOf
  <2>4. Verdict(setup.chosen, table, o) # "conflict"
    BY <2>1, SelectedIsFree
  <2>5. ASSUME fresh
        PROVE  Startable(plan, status.name, table)
    <3>1. setup.read = status /\ HostOf(o) = status.name
      BY <2>1, <2>3, <2>5 DEF FreshPlan
    <3> QED BY <2>1, <2>2, <2>3, <2>4, <3>1, PlanIsStartable
  <2> HIDE DEF plan
  <2>6. setup'.at = "shown" /\ setup'.plan = plan
    BY <2>1 DEF SetupStates
  <2> QED BY <1>0, <2>1, <2>5, <2>6 DEF FreshPlan
<1>6. ASSUME NEW o \in Origin, PlanAccess(o)
      PROVE  FreshPlan'
  <2> DEFINE plan == Proposed(Cloudflare, o)
  <2>1. /\ setup.at = "status" /\ Safe(plan) /\ UNCHANGED profile
        /\ setup' = [setup EXCEPT !.at = "shown", !.plan = plan]
    BY <1>6 DEF PlanAccess
  <2>2. Startable(plan, status.name, table)
    BY <2>1, PlanIsStartable DEF Providers
  <2> HIDE DEF plan
  <2>3. setup'.at = "shown" /\ setup'.plan = plan
    BY <2>1 DEF SetupStates
  <2> QED BY <1>0, <2>1, <2>2, <2>3, FreshBegins DEF FreshPlan, NoneYet
<1>7. CASE ConfirmWeaker
  BY <1>1, <1>7 DEF ConfirmWeaker, SetupStates
<1>8. CASE ReadStatus
  <2>1. setup'.at = "serve" /\ setup'.read = status /\ UNCHANGED profile /\ setup.at = "status"
    BY <1>8 DEF ReadStatus, SetupStates
  <2> QED BY <1>0, <2>1, FreshBegins DEF FreshPlan, NoneYet
<1>9. CASE Confirm
  <2>1. /\ setup.at = "shown" /\ setup'.at = "write" /\ setup'.plan = setup.plan
        /\ UNCHANGED <<profile, fresh>>
    BY <1>9 DEF Confirm, SetupGoes, SetupStates
  <2> QED BY <1>0, <2>1 DEF FreshPlan
<1>10. CASE Write
  BY <1>0, <1>10 DEF Write, IdleSetup, FreshPlan
<1>11. CASE SetupEnds
  BY <1>1, <1>11 DEF SetupEnds, IdleSetup
<1> QED BY <1>2, <1>3, <1>4, <1>5, <1>6, <1>7, <1>8, <1>9, <1>10, <1>11 DEF SetupStep

\* The Serve command of a start that still sees what it inspected.
LEMMA StartServes ==
    ASSUME FlowIInv, fresh, gateway.at = "apply", Creates,
           NEW u \in ServeResults(gateway.conf.type, table, status.name,
                                  PortOf(gateway.conf.origin))
    PROVE  /\ profile # None /\ gateway.conf = profile
           /\ Verdict(profile.type, u, profile.origin) = "exact"
<1> USE DEF FlowIInv, FlowTypeOK
<1>1. profile # None /\ gateway.conf = profile /\ profile \in Documents
  BY DEF FreshStart
<1>2. Verdict(profile.type, table, profile.origin) = "absent"
  BY <1>1 DEF FreshStart, Creates
<1>3. profile.type # Cloudflare /\ HostOf(profile.origin) = status.name
  BY <1>1 DEF GatewayHas, FreshPlan, Startable
<1>4. profile.origin \in Origin
  BY <1>1 DEF Documents
<1> QED BY <1>1, <1>2, <1>3, <1>4, ServedIsExact

\* Only a start that applies its plan changes the table, to one that is exact.
LEMMA GatewayServes ==
    ASSUME FlowIInv, GatewayStep, fresh
    PROVE  \/ UNCHANGED table
           \/ /\ gateway.at = "apply"
              /\ Verdict(profile.type, table', profile.origin) = "exact"
<1>1. CASE Load \/ AuthReady \/ AuthFails \/ StatKey \/ ReadCert \/ ReadKey \/ TlsFails
           \/ Inspect \/ Refuse \/ Verify \/ AccessVerified \/ Unload
  BY <1>1 DEF Load, AuthReady, AuthFails, StatKey, ReadCert, ReadKey, TlsFails,
          Inspect, Refuse, Verify, AccessVerified, Unload
<1>2. CASE Apply \/ CommandFails
  BY <1>2, StartServes DEF Apply, CommandFails
<1> QED BY <1>1, <1>2 DEF GatewayStep

LEMMA FreshPlanGateway ==
    ASSUME FlowIInv, GatewayStep
    PROVE  FreshPlan'
<1>1. UNCHANGED <<status, profile, setup, fresh, edits>>
  BY GatewayLeaves
<1>2. ASSUME fresh
      PROVE  profile # None => Startable(profile, status.name, table')
  BY <1>2, GatewayServes DEF FlowIInv, FreshPlan, Startable
<1>3. ASSUME fresh, profile = None
      PROVE  UNCHANGED table
  BY <1>3, GatewayServes DEF FlowIInv, EntryFirst
<1> QED BY <1>1, <1>2, <1>3 DEF FreshPlan, FlowIInv

LEMMA FreshStartGateway ==
    ASSUME FlowIInv, GatewayStep
    PROVE  FreshStart'
<1> USE DEF FlowIInv, FlowTypeOK
<1>0. UNCHANGED <<status, profile, setup, fresh, edits>>
  BY GatewayLeaves
<1> SUFFICES ASSUME fresh PROVE FreshStart'
  BY <1>0 DEF FreshStart
<1>1. CASE Load
  <2>1. Safe(profile)
    BY <1>1 DEF Load, FreshPlan, Startable
  <2> QED BY <1>0, <1>1, <2>1 DEF Load, NoGateway, FreshStart
<1>2. CASE AuthReady \/ StatKey \/ ReadCert \/ ReadKey \/ AccessVerified
  <2>1. gateway'.at \in {"stat", "cert", "key", "inspect", "ready"} /\ gateway'.conf = gateway.conf
    BY <1>2 DEF AuthReady, StatKey, ReadCert, ReadKey, AccessVerified, Becomes, GatewayStates
  <2>2. gateway.at # "off"
    BY <1>2 DEF AuthReady, StatKey, ReadCert, ReadKey, AccessVerified
  <2> QED BY <1>0, <2>1, <2>2 DEF FreshStart
<1>3. CASE AuthFails \/ TlsFails
  <2>1. Supports(gateway.conf) \/ TlsFails
    BY <1>3, SafeFits DEF AuthFails, GatewayHas, Running
  <2>2. /\ gateway'.at = "failed" /\ gateway'.why \in {"auth", "tls"} /\ gateway'.conf = gateway.conf
        /\ gateway.at # "off"
    BY <1>3, <2>1 DEF AuthFails, TlsFails, Fails, GatewayStates
  <2> QED BY <1>0, <2>2 DEF FreshStart
<1>4. CASE Inspect
  <2>1. /\ gateway'.at = "apply" /\ gateway'.conf = gateway.conf /\ gateway.at # "off"
        /\ gateway'.saw = Verdict(gateway.conf.type, table, gateway.conf.origin)
        /\ UNCHANGED table
    BY <1>4 DEF Inspect, Sees, GatewayStates
  <2> QED BY <1>0, <2>1 DEF FreshStart
<1>5. CASE Apply
  <2>1. gateway.at = "apply" /\ gateway'.at = "verify" /\ gateway'.conf = gateway.conf
    BY <1>5 DEF Apply, Becomes, GatewayStates
  <2>2. profile # None /\ gateway.conf = profile
    BY <2>1 DEF FreshStart
  <2>3. CASE gateway.saw = "exact" /\ UNCHANGED table
    BY <1>0, <2>1, <2>2, <2>3 DEF FreshStart
  <2>4. CASE Creates /\ table' \in ServeResults(gateway.conf.type, table, status.name,
                                               PortOf(gateway.conf.origin))
    <3>1. Verdict(profile.type, table', profile.origin) = "exact"
      BY <2>1, <2>4, StartServes
    <3> QED BY <1>0, <2>1, <2>2, <3>1 DEF FreshStart
  <2> QED BY <1>5, <2>3, <2>4 DEF Apply
<1>6. CASE Refuse
  <2>1. /\ gateway.at = "apply" /\ gateway.saw # "exact" /\ ~Creates
        /\ gateway.saw = Verdict(gateway.conf.type, table, gateway.conf.origin)
        /\ profile # None /\ gateway.conf = profile
    BY <1>6 DEF Refuse, FreshStart
  <2>2. Startable(profile, status.name, table) /\ profile.type # Cloudflare
    BY <2>1 DEF FreshPlan, GatewayHas
  <2>3. gateway.saw = "absent" /\ profile.manage = "ensure"
    BY <2>1, <2>2, VerdictKinds DEF Startable
  <2> QED BY <2>1, <2>3 DEF Creates
<1>7. CASE Verify
  <2>1. gateway.at = "verify" /\ Sees = "exact"
    BY <1>7 DEF Verify, Sees, FreshStart
  <2>2. gateway'.at = "ready" /\ gateway'.conf = gateway.conf
    BY <1>7, <2>1 DEF Verify, Becomes, GatewayStates
  <2> QED BY <1>0, <2>1, <2>2 DEF FreshStart
<1>8. CASE CommandFails
  <2>1. /\ gateway.at # "off" /\ gateway'.at = "failed" /\ gateway'.why = "command"
        /\ gateway'.conf = gateway.conf
    BY <1>8 DEF CommandFails, Fails, GatewayStates
  <2> QED BY <1>0, <2>1 DEF FreshStart
<1>9. CASE Unload
  BY <1>0, <1>9 DEF Unload, NoGateway, FreshStart
<1> QED BY <1>1, <1>2, <1>3, <1>4, <1>5, <1>6, <1>7, <1>8, <1>9 DEF GatewayStep

\* A plan is begun, and written, where nothing has been started.
LEMMA FreshStartSetup ==
    ASSUME FlowIInv, SetupStep
    PROVE  FreshStart'
<1>1. UNCHANGED <<status, table, gateway, edits>>
  BY SetupLeaves
<1>2. CASE gateway.at = "off"
  BY <1>1, <1>2 DEF FreshStart
<1>3. ASSUME gateway.at # "off", fresh'
      PROVE  fresh /\ UNCHANGED profile
  <2>1. fresh /\ profile # None
    BY <1>3, FreshBegins DEF NoneYet, FlowIInv, EntryFirst
  <2>2. ~Write
    BY <2>1 DEF Write
  <2> QED BY <2>1, <2>2 DEF SetupStep, Setup, Detect, Choose, ReadServe, PlanAccess,
        ConfirmWeaker, ReadStatus, Confirm, SetupEnds
<1> QED BY <1>1, <1>2, <1>3 DEF FreshStart, FlowIInv

\* A renewal touches none of it, and everything else ends it.
LEMMA FreshElsewhere ==
    ASSUME FlowIInv, Elsewhere
    PROVE  FreshPlan' /\ FreshStart'
<1>1. CASE ~fresh'
  BY <1>1 DEF FreshPlan, FreshStart
<1>2. CASE Renew
  <2>1. UNCHANGED <<status, table, profile, setup, fresh>>
    BY <1>2 DEF Renew
  <2> QED BY <1>2, <2>1, RenewLeaves DEF FreshPlan, FreshStart, FlowIInv
<1> QED BY <1>1, <1>2, OthersLeave DEF FlowIInv

LEMMA NextHolds == FlowIInv /\ [Next]_vars => FlowIInv'
<1> SUFFICES ASSUME FlowIInv, [Next]_vars PROVE FlowIInv'
  OBVIOUS
<1>1. CASE SetupStep
  <2>1. FlowTypeOK' /\ SetupKnows'
    BY <1>1, SetupTypes, SetupKnowsStep
  <2>2. GatewayHas'
    BY <1>1, SetupLeaves DEF GatewayHas, FlowIInv
  <2>3. EntryFirst' /\ FreshPlan' /\ FreshStart'
    BY <1>1, EntryFirstStep, FreshPlanSetup, FreshStartSetup DEF Next
  <2> QED BY <2>1, <2>2, <2>3 DEF FlowIInv
<1>2. CASE GatewayStep
  <2>1. FlowTypeOK' /\ GatewayHas'
    BY <1>2, GatewayTypes, GatewayHasStep
  <2>2. SetupKnows'
    BY <1>2, GatewayLeaves DEF SetupKnows, FlowIInv
  <2>3. EntryFirst' /\ FreshPlan' /\ FreshStart'
    BY <1>2, EntryFirstStep, FreshPlanGateway, FreshStartGateway DEF Next
  <2> QED BY <2>1, <2>2, <2>3 DEF FlowIInv
<1>3. CASE Elsewhere
  <2>1. FlowTypeOK' /\ UNCHANGED setup
    BY <1>3, ElsewhereTypes, OthersLeave DEF FlowIInv
  <2>2. SetupKnows'
    BY <2>1 DEF SetupKnows, FlowIInv
  <2>3. GatewayHas'
    <3>1. CASE Renew
      BY <3>1, GatewayHasRenewed
    <3>2. CASE UNCHANGED gateway
      BY <3>2 DEF GatewayHas, FlowIInv
    <3> QED BY <1>3, <3>1, <3>2, OthersLeave DEF FlowIInv
  <2>4. EntryFirst' /\ FreshPlan' /\ FreshStart'
    BY <1>3, EntryFirstStep, FreshElsewhere DEF Next
  <2> QED BY <2>1, <2>2, <2>3, <2>4 DEF FlowIInv
<1>4. CASE UNCHANGED vars
  BY <1>4 DEF vars, FlowIInv, FlowTypeOK, SetupKnows, GatewayHas, EntryFirst, FreshPlan, FreshStart
<1> QED BY <1>1, <1>2, <1>3, <1>4 DEF Next

-----------------------------------------------------------------------------
(* The theorems.                                                           *)

\* The inductive invariant: what setup, the profile and the start of the sidecar
\* know of each other at every step.
THEOREM FlowInvariant == Spec => []FlowIInv
<1>1. Init => FlowIInv
  BY InitHolds
<1>2. FlowIInv /\ [Next]_vars => FlowIInv'
  BY NextHolds
<1> QED BY <1>1, <1>2, PTL DEF Spec

\* A gateway that gets to bind has the auth mode of its provider and, where it
\* ends TLS itself, a certificate for its origin with the key of it (config.mjs,
\* create.mjs, tls.mjs), whatever is edited or renewed meanwhile.
THEOREM ModeAndPairFit == Spec => []FlowInv
<1>1. FlowIInv => FlowInv
  <2> SUFFICES ASSUME FlowIInv PROVE FlowInv
    OBVIOUS
  <2>1. ModesMatch
    BY SafeFits DEF FlowIInv, GatewayHas, ModesMatch, Running
  <2>2. PairMatches
    BY DEF FlowIInv, GatewayHas, PairMatches, Bound
  <2> QED BY <2>1, <2>2 DEF FlowIInv, FlowInv
<1> QED BY <1>1, FlowInvariant, PTL

\* What setup proposes is not refused at any later start, as long as nobody else
\* acts: plan.mjs looks at the table with the providers' own eyes.
THEOREM SetupWorks == Spec => []SetupThenStart
<1>1. FlowIInv => SetupThenStart
  BY DEF FlowIInv, FreshStart, SetupThenStart
<1> QED BY <1>1, FlowInvariant, PTL

\* Only a confirmed plan that was shown is written, and a weaker one only if it
\* was asked for, whatever the node does between setup's readings of it.
THEOREM WritesAreDeliberate == Spec => WritesDeliberately
<1> DEFINE Deliberate ==
      profile = None /\ profile' # None =>
         /\ setup.at = "write" /\ profile' = setup.plan
         /\ setup.how = "yes" \/ (setup.how = "ask" /\ setup.terminal)
         /\ profile'.type = Headscale /\ Plane(setup.read) = "official" =>
              /\ setup.asked = Headscale
              /\ setup.weaker \/ setup.how = "yes"
         /\ profile'.type = Tailscale =>
              Plane(setup.read) # "headscale" /\ ~setup.read.tagged
<1>1. ASSUME FlowIInv, [Next]_vars
      PROVE  Deliberate
  <2> SUFFICES ASSUME profile = None, profile' # None PROVE Deliberate
    OBVIOUS
  <2>1. Write
    BY <1>1, GatewayLeaves, OthersLeave
    DEF Next, vars, SetupStep, Setup, Detect, Choose, ReadServe, PlanAccess, ConfirmWeaker,
      ReadStatus, Confirm, SetupEnds, EditProfile, FlowIInv
  <2>2. /\ setup.at = "write" /\ profile' = setup.plan
        /\ setup.plan.type = setup.chosen /\ setup.chosen \in Providers
    BY <1>1, <2>1 DEF Write, FlowIInv, SetupKnows
  <2>3. setup.how = "yes" \/ (setup.how = "ask" /\ setup.terminal)
    BY <1>1, <2>2 DEF FlowIInv, SetupKnows
  <2>4. ASSUME setup.chosen = Headscale, Plane(setup.read) = "official"
        PROVE  setup.asked = Headscale /\ (setup.weaker \/ setup.how = "yes")
    <3>1. setup.plane = "official"
      BY <1>1, <2>2, <2>4
      DEF FlowIInv, SetupKnows, Plannable, HasHeadscaleNode, Tailscale, Cloudflare, Headscale
    <3> QED BY <1>1, <2>2, <2>3, <2>4, <3>1 DEF FlowIInv, SetupKnows
  <2>5. ASSUME setup.chosen = Tailscale
        PROVE  Plane(setup.read) # "headscale" /\ ~setup.read.tagged
    <3>1. HasIdentity(setup.read)
      BY <1>1, <2>2, <2>5 DEF FlowIInv, SetupKnows, Plannable, Tailscale, Cloudflare
    <3> QED BY <3>1 DEF HasIdentity, Plane
  <2> QED BY <2>2, <2>3, <2>4, <2>5
<1> QED BY <1>1, FlowInvariant, PTL DEF Spec, WritesDeliberately

\* The Serve command of a start that still sees what it inspected leaves every
\* port alone that somebody uses.
LEMMA StartOnlyAdds ==
    ASSUME FlowIInv, fresh, gateway.at = "apply", Creates,
           NEW u \in ServeResults(gateway.conf.type, table, status.name,
                                  PortOf(gateway.conf.origin)),
           NEW p \in Ports, InUse(table, p)
    PROVE  /\ u.tcp[p] = table.tcp[p]
           /\ \A h \in Hosts : u.web[<<h, p>>] = table.web[<<h, p>>]
<1> USE DEF FlowIInv, FlowTypeOK
<1> DEFINE port == PortOf(gateway.conf.origin)
<1>1. gateway.conf \in Documents /\ gateway.conf.origin \in Origin
  BY DEF GatewayHas, Running, Documents
<1>2. Absent(gateway.conf.type, table, gateway.conf.origin)
  BY VerdictKinds DEF FreshStart, Creates
<1>3. ~Funnelled(table, port) /\ WebOn(table, port) = {} /\ table.tcp[port] = "none"
  BY <1>2 DEF Absent, HttpsAbsent, TcpAbsent
<1>4. p # port
  BY <1>3 DEF InUse
<1>5. u = Served(gateway.conf.type, table, status.name, port)
  BY <1>3 DEF ServeResults
<1> HIDE DEF port
<1> QED BY <1>4, <1>5 DEF Served, ServedTcp, ServedHttps, Tables

LEMMA StartKeepsFunnel ==
    ASSUME FlowIInv, fresh, gateway.at = "apply", Creates,
           NEW u \in ServeResults(gateway.conf.type, table, status.name,
                                  PortOf(gateway.conf.origin))
    PROVE  u.funnel = table.funnel
<1>1. Absent(gateway.conf.type, table, gateway.conf.origin)
  BY VerdictKinds DEF FreshStart, Creates, FlowIInv
<1>2. u = Served(gateway.conf.type, table, status.name, PortOf(gateway.conf.origin))
  BY <1>1 DEF ServeResults, Absent, HttpsAbsent, TcpAbsent
<1> QED BY <1>2 DEF Served, ServedTcp, ServedHttps, Tables, FlowIInv, FlowTypeOK

\* A gateway that setup configured takes nothing away from whoever else serves on
\* the host (plan() and apply() of the two Serve providers act on an absent route).
THEOREM OthersAreKept == Spec => OthersKept
<1> DEFINE Kept ==
      /\ table'.funnel = table.funnel
      /\ \A p \in Ports : InUse(table, p) =>
           /\ table'.tcp[p] = table.tcp[p]
           /\ \A h \in Hosts : table'.web[<<h, p>>] = table.web[<<h, p>>]
<1>1. ASSUME FlowIInv, [Next]_vars, fresh, fresh'
      PROVE  Kept
  <2>1. CASE UNCHANGED table
    BY <2>1
  <2>2. CASE GatewayStep
    <3>1. CASE Apply \/ CommandFails
      <4>1. CASE /\ gateway.at = "apply" /\ Creates
                 /\ table' \in ServeResults(gateway.conf.type, table, status.name,
                                           PortOf(gateway.conf.origin))
        <5>1. table'.funnel = table.funnel
          BY <1>1, <4>1, StartKeepsFunnel
        <5> QED BY <1>1, <4>1, <5>1, StartOnlyAdds
      <4> QED BY <2>1, <3>1, <4>1 DEF Apply, CommandFails
    <3>2. CASE Load \/ AuthReady \/ AuthFails \/ StatKey \/ ReadCert \/ ReadKey \/ TlsFails
               \/ Inspect \/ Refuse \/ Verify \/ AccessVerified \/ Unload
      BY <2>1, <3>2 DEF Load, AuthReady, AuthFails, StatKey, ReadCert, ReadKey, TlsFails,
              Inspect, Refuse, Verify, AccessVerified, Unload
    <3> QED BY <2>2, <3>1, <3>2 DEF GatewayStep
  <2>3. CASE SetupStep
    BY <2>1, <2>3, SetupLeaves
  <2>4. CASE Elsewhere
    BY <1>1, <2>1, <2>4 DEF Elsewhere, NodeChanges, TableChanges, EditProfile, Renew
  <2> QED BY <1>1, <2>1, <2>2, <2>3, <2>4 DEF Next, vars
<1>2. FlowIInv /\ [Next]_vars => [fresh /\ fresh' => Kept]_vars
  BY <1>1
<1> QED BY <1>2, FlowInvariant, PTL DEF Spec, OthersKept
=============================================================================
