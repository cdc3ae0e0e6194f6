--------------------------- MODULE SidecarLifecycle ---------------------------
(***************************************************************************)
(* The life of the sidecar process: plugin.mjs spawns one for a loaded     *)
(* plugin and ends it on disposal, sidecar.mjs calls start() of            *)
(* core/server.mjs, and start() takes the fixed port, then has the         *)
(* provider inspect, apply and verify its route before it says it is       *)
(* ready.                                                                  *)
(*                                                                         *)
(* The route is shared with everybody who runs the Tailscale CLI: it may   *)
(* change between any two steps.  A process may end between any two steps. *)
(***************************************************************************)
EXTENDS Naturals, FiniteSets

CONSTANTS
    Sidecars,       \* processes; an ended one may be used again
    None, Other     \* nobody, and a program that is not the gateway

ASSUME SidecarAssumption == None \notin Sidecars /\ Other \notin Sidecars /\ None # Other

VARIABLES
    config,         \* [access, manage]: the provider and its routeManagement
    plugin,         \* the plugin in its host: "off", "setup", "on", "disposing"
    handle,         \* the process of plugin.mjs's handle
    pc,             \* how far the start() of each process is
    bound,          \* who listens on GATEWAY_PORT
    client,         \* whether a client is connected to a process
    seen,           \* what the last inspection of a process found
    route,          \* the route of the canonical origin
    keysUp,         \* whether the signing keys of Access can be fetched
    moved           \* history: the route changed since a process looked at it

vars == <<config, plugin, handle, pc, bound, client, seen, route, keysUp, moved>>

-----------------------------------------------------------------------------
(* The provider.                                                           *)

Configs == {[access |-> FALSE, manage |-> "ensure"],
            [access |-> FALSE, manage |-> "verify-only"],
            [access |-> TRUE,  manage |-> "verify-only"]}

\* handler: who is behind the port of the route; funnel: it is public.
Routes == [handler : {"none", "gateway", "other"}, funnel : BOOLEAN]

\* classifyServeStatus() and classifyTcpServeStatus().
Classify(r) ==
    IF r.funnel \/ r.handler = "other" THEN "conflict"
    ELSE IF r.handler = "none" THEN "absent" ELSE "exact"

\* inspect(): Access has no route to look at, its keys have to be there.
Observed ==
    IF config.access THEN (IF keysUp THEN "exact" ELSE "conflict") ELSE Classify(route)

\* plan(): an absent route is created, unless it is only to be verified.
Plan_Repairs(kind) ==
    CASE kind = "exact" -> "unchanged"
      [] kind \in {"absent", "conflict"} /\ config.manage = "ensure" -> "create"
      [] OTHER -> "conflict"

Plan(kind) ==
    CASE kind = "exact" -> "unchanged"
      [] kind = "absent" /\ config.manage = "ensure" -> "create"
      [] OTHER -> "conflict"

\* What "tailscale serve" may leave behind.  It was asked for a route that was
\* absent; on one that is not any more it may replace what is there or add to it.
ServeEffects(r) ==
    LET ours == [handler |-> "gateway", funnel |-> FALSE]
    IN  IF Classify(r) = "conflict" THEN {r, ours} ELSE {ours}

-----------------------------------------------------------------------------
Running(s) == pc[s] # "none"
Goes(s, step) == pc' = [pc EXCEPT ![s] = step]
Hangs(s) == bound = s \/ client[s]

\* The process waits for the serve command of its plan.
InCommand(s) == pc[s] = "apply" /\ Plan(seen[s]) = "create"

\* It waits for any command of the Tailscale CLI: an inspection runs two.
AwaitsCommand(s) == (pc[s] \in {"inspect", "verify"} /\ ~config.access) \/ InCommand(s)

Init ==
    /\ config \in Configs
    /\ plugin = "off" /\ handle = None
    /\ pc = [s \in Sidecars |-> "none"]
    /\ bound \in {None, Other}
    /\ client = [s \in Sidecars |-> FALSE]
    /\ seen = [s \in Sidecars |-> "nothing"]
    /\ route \in Routes
    /\ keysUp \in BOOLEAN
    /\ moved = [s \in Sidecars |-> FALSE]

(* The plugin.                                                             *)

\* apply(): the host loads the plugin, with any configuration, and its effect
\* starts.
Load(c) ==
    /\ plugin = "off"
    /\ plugin' = "setup" /\ config' = c
    /\ UNCHANGED <<handle, pc, bound, client, seen, route, keysUp, moved>>

\* The executables are resolved and the sidecar is spawned; or one is missing,
\* and the plugin stays loaded without a process.
Spawn(s) ==
    /\ plugin = "setup" /\ ~Running(s)
    /\ plugin' = "on" /\ handle' = s
    /\ Goes(s, "auth")
    /\ UNCHANGED <<config, bound, client, seen, route, keysUp, moved>>

SpawnFails ==
    /\ plugin = "setup"
    /\ plugin' = "on"
    /\ UNCHANGED <<config, handle, pc, bound, client, seen, route, keysUp, moved>>

\* The host disposes of the effect: terminate(), then done, then the next load.
Dispose ==
    /\ plugin = "on"
    /\ plugin' = "disposing"
    /\ UNCHANGED <<config, handle, pc, bound, client, seen, route, keysUp, moved>>

Disposed_AtOnce ==
    /\ plugin = "disposing"
    /\ plugin' = "off" /\ handle' = None
    /\ UNCHANGED <<config, pc, bound, client, seen, route, keysUp, moved>>

Disposed ==
    /\ plugin = "disposing"
    /\ handle # None => ~Running(handle)
    /\ plugin' = "off" /\ handle' = None
    /\ UNCHANGED <<config, pc, bound, client, seen, route, keysUp, moved>>

\* A process ends: its port and its connections go with it.  A command that it
\* was waiting for may have done its work.
Ends(s) ==
    /\ Running(s)
    /\ Goes(s, "none")
    /\ bound' = IF bound = s THEN None ELSE bound
    /\ client' = [client EXCEPT ![s] = FALSE]
    /\ UNCHANGED route \/ (InCommand(s) /\ route' \in ServeEffects(route))
    /\ UNCHANGED <<config, plugin, handle, seen, keysUp, moved>>

Terminate_OnlyReady(s) == plugin = "disposing" /\ handle = s /\ pc[s] = "ready" /\ Ends(s)

Terminate(s) == plugin = "disposing" /\ handle = s /\ Ends(s)

\* Nobody spawns it again: the plugin only logs the exit.
Crash(s) == Ends(s)

-----------------------------------------------------------------------------
(* start().                                                                *)

\* createAuth(), readiness() and loadGatewayTls() before anything is bound.
AuthReady(s) ==
    /\ pc[s] = "auth" /\ Goes(s, "bind")
    /\ UNCHANGED <<config, plugin, handle, bound, client, seen, route, keysUp, moved>>

AuthFails(s) ==
    /\ pc[s] = "auth" /\ Goes(s, "closing")
    /\ UNCHANGED <<config, plugin, handle, bound, client, seen, route, keysUp, moved>>

\* listen() on the one port; EADDRINUSE rejects start().
Bind(s) ==
    /\ pc[s] = "bind" /\ bound = None
    /\ bound' = s /\ Goes(s, "inspect")
    /\ UNCHANGED <<config, plugin, handle, client, seen, route, keysUp, moved>>

BindFails(s) ==
    /\ pc[s] = "bind" /\ bound # None
    /\ Goes(s, "closing")
    /\ UNCHANGED <<config, plugin, handle, bound, client, seen, route, keysUp, moved>>

\* inspectProvider().
Inspect(s) ==
    /\ pc[s] = "inspect" /\ Goes(s, "apply")
    /\ seen' = [seen EXCEPT ![s] = Observed]
    /\ moved' = [moved EXCEPT ![s] = FALSE]
    /\ UNCHANGED <<config, plugin, handle, bound, client, route, keysUp>>

\* applyProvider(): nothing is done, or the one command of the plan has run.
ApplyUnchanged(s) ==
    /\ pc[s] = "apply" /\ Plan(seen[s]) = "unchanged"
    /\ Goes(s, "verify")
    /\ UNCHANGED <<config, plugin, handle, bound, client, seen, route, keysUp, moved>>

ApplyCreate(s) ==
    /\ InCommand(s)
    /\ route' \in ServeEffects(route)
    /\ Goes(s, "verify")
    /\ UNCHANGED <<config, plugin, handle, bound, client, seen, keysUp, moved>>

\* The catch of start(): the server stops listening.  Its connections may stay.
FailSetup_KeepsListening(s) ==
    /\ Goes(s, "closing")
    /\ UNCHANGED <<config, plugin, handle, bound, client, seen, keysUp, moved>>

FailSetup(s) ==
    /\ Goes(s, "closing")
    /\ bound' = IF bound = s THEN None ELSE bound
    /\ UNCHANGED <<config, plugin, handle, client, seen, keysUp, moved>>

\* The command of a step fails, is stopped after COMMAND_TIMEOUT_MS, or prints
\* what cannot be parsed.  A serve command may have done its work all the same.
CommandFails(s) ==
    /\ AwaitsCommand(s)
    /\ UNCHANGED route \/ (InCommand(s) /\ route' \in ServeEffects(route))
    /\ FailSetup(s)

\* The plan is a conflict: refused.
Refused(s) ==
    /\ pc[s] = "apply" /\ Plan(seen[s]) = "conflict"
    /\ UNCHANGED route
    /\ FailSetup(s)

\* verifyProvider() looks again: only an exact route makes the sidecar ready.
Verify_NoConflict(s) ==
    /\ pc[s] = "verify" /\ Observed # "conflict"
    /\ Goes(s, "ready")
    /\ moved' = [moved EXCEPT ![s] = FALSE]
    /\ UNCHANGED <<config, plugin, handle, bound, client, seen, route, keysUp>>

Verify(s) ==
    /\ pc[s] = "verify" /\ Observed = "exact"
    /\ Goes(s, "ready")
    /\ moved' = [moved EXCEPT ![s] = FALSE]
    /\ UNCHANGED <<config, plugin, handle, bound, client, seen, route, keysUp>>

VerifyFails(s) ==
    /\ pc[s] = "verify" /\ Observed # "exact"
    /\ UNCHANGED route
    /\ FailSetup(s)

\* start() rejected and only the exit code is set: the process ends when
\* nothing keeps its event loop.
Exit(s) == pc[s] = "closing" /\ ~Hangs(s) /\ Ends(s)

-----------------------------------------------------------------------------
(* Everybody else.                                                         *)

\* A client connects while the port is open, ready or not, and leaves.
Connect(s) ==
    /\ bound = s /\ ~client[s]
    /\ client' = [client EXCEPT ![s] = TRUE]
    /\ UNCHANGED <<config, plugin, handle, pc, bound, seen, route, keysUp, moved>>

Leave(s) ==
    /\ client[s]
    /\ client' = [client EXCEPT ![s] = FALSE]
    /\ UNCHANGED <<config, plugin, handle, pc, bound, seen, route, keysUp, moved>>

\* Another program takes or frees the port.
PortTaken ==
    /\ bound = None /\ bound' = Other
    /\ UNCHANGED <<config, plugin, handle, pc, client, seen, route, keysUp, moved>>

PortFreed ==
    /\ bound = Other /\ bound' = None
    /\ UNCHANGED <<config, plugin, handle, pc, client, seen, route, keysUp, moved>>

\* Somebody configures the route.
Reroute(r) ==
    /\ r # route /\ route' = r
    /\ moved' = [s \in Sidecars |-> TRUE]
    /\ UNCHANGED <<config, plugin, handle, pc, bound, client, seen, keysUp>>

\* The team origin comes or goes.
KeysTurn ==
    /\ keysUp' = ~keysUp
    /\ moved' = [s \in Sidecars |-> TRUE]
    /\ UNCHANGED <<config, plugin, handle, pc, bound, client, seen, route>>

StartStep(s) ==
    \/ AuthReady(s) \/ AuthFails(s) \/ Bind(s) \/ BindFails(s)
    \/ Inspect(s) \/ ApplyUnchanged(s) \/ ApplyCreate(s) \/ Refused(s)
    \/ Verify(s) \/ VerifyFails(s) \/ CommandFails(s)

Next ==
    \/ \E c \in Configs : Load(c)
    \/ SpawnFails \/ Dispose \/ Disposed
    \/ \E s \in Sidecars :
         \/ Spawn(s) \/ Terminate(s) \/ Crash(s) \/ StartStep(s) \/ Exit(s)
         \/ Connect(s) \/ Leave(s)
    \/ PortTaken \/ PortFreed \/ KeysTurn
    \/ \E r \in Routes : Reroute(r)

Spec == Init /\ [][Next]_vars

\* start() goes on where it waits for local files and for what it aborts itself.
\* A command need never end: after COMMAND_TIMEOUT_MS it is sent one SIGTERM, and
\* its close is awaited for as long as it takes.  A terminated process ends, and
\* the host goes on once it has.  No client has to leave, and no other program
\* has to free the port.
Fairness ==
    /\ WF_vars(Disposed)
    /\ \A s \in Sidecars :
         /\ WF_vars(~AwaitsCommand(s) /\ StartStep(s))
         /\ WF_vars(Terminate(s)) /\ WF_vars(Exit(s))

FairSpec == Spec /\ Fairness

-----------------------------------------------------------------------------
(* The promise this module keeps, see ManagedRoute.                        *)

\* Where the process of the plugin's handle is, to somebody on its host.
Phase ==
    IF handle = None THEN "down"
    ELSE CASE pc[handle] \in {"none", "closing"} -> "down"
           [] pc[handle] = "ready" -> "ready"
           [] pc[handle] = "verify" \/ (pc[handle] = "apply" /\ seen[handle] = "exact") -> "claimed"
           [] InCommand(handle) -> "claiming"
           [] OTHER -> "starting"

Port ==
    CASE bound = None -> "free"
      [] bound = Other -> "taken"
      [] OTHER -> "gateway"

Managed == INSTANCE ManagedRoute
    WITH manage <- config.manage = "ensure", phase <- Phase, port <- Port, verdict <- Observed,
         stale <- Phase \in {"claiming", "claimed", "ready"} /\ moved[handle]

-----------------------------------------------------------------------------
(* Properties.                                                             *)

Steps == {"none", "auth", "bind", "inspect", "apply", "verify", "ready", "closing"}
Listening == {"inspect", "apply", "verify", "ready"}

SidecarTypeOK ==
    /\ config \in Configs
    /\ plugin \in {"off", "setup", "on", "disposing"}
    /\ handle \in Sidecars \union {None}
    /\ pc \in [Sidecars -> Steps]
    /\ bound \in Sidecars \union {None, Other}
    /\ client \in [Sidecars -> BOOLEAN]
    /\ seen \in [Sidecars -> {"nothing", "exact", "absent", "conflict"}]
    /\ route \in Routes
    /\ keysUp \in BOOLEAN
    /\ moved \in [Sidecars -> BOOLEAN]

\* A process has the port exactly while it inspects, applies, verifies or is
\* ready: one that failed has let go of it (the catch of start()).
PortHolders == \A s \in Sidecars : bound = s <=> pc[s] \in Listening

SidecarInv == SidecarTypeOK /\ PortHolders

\* "HMR disposal awaits the old managed sidecar" (test/plugin.test.mjs): no two
\* sidecars run at a time, so that a replacement never meets its predecessor
\* on the port, whatever point of its start that one was at.
OneAtATime == \A s, t \in Sidecars : Running(s) /\ Running(t) => s = t

\* A ready sidecar listens behind a route that is exactly its own and not
\* public, for as long as nobody else has changed the route since it verified.
ReadyUnlessMoved ==
    \A s \in Sidecars : pc[s] = "ready" /\ ~moved[s] => Observed = "exact" /\ bound = s

\* To its host the plugin with all its processes is one gateway that listens
\* before it looks, touches the route at most once in a start and only if it
\* found it absent and may manage it, and is ready only after another look; it
\* never holds the port longer than that (plan() and apply() of the two Serve
\* providers, start() and its catch, the disposer of plugin.mjs).
RouteIsManaged == Managed!ManagedSpec

\* "Provider managers mutate only an absent resource" (CONTRIBUTING.md), with
\* nothing assumed of what happens between the inspection and the command.
ByTheGateway == route' # route /\ pc' # pc

OnlyAbsentRoutesChange == [][ByTheGateway => Classify(route) = "absent"]_vars

\* A sidecar that took the port becomes ready or frees it: start() leaves a
\* listener that is never ready only while a command that it waits for does not
\* end, which runArgvCommand() does not rule out.
PortIsLetGo ==
    \A s \in Sidecars :
      []<>~AwaitsCommand(s) => ((bound = s) ~> (pc[s] = "ready" \/ bound # s))

\* Disposal comes to an end, also of a sidecar that hangs in its closing
\* because a client stays connected.
DisposalCompletes == (plugin = "disposing") ~> (plugin = "off")
=============================================================================
