------------------------ MODULE SidecarLifecycle_proofs ------------------------
(***************************************************************************)
(* Proofs about SidecarLifecycle, for any set of processes: one sidecar    *)
(* runs at a time and holds the port exactly while it should, it is ready  *)
(* behind an exact route, and it changes only an absent one.               *)
(***************************************************************************)
EXTENDS SidecarLifecycle, TLAPS

\* A process runs only for the plugin that spawned it and has not finished
\* waiting for its end.
RunsForPlugin ==
    /\ handle # None => plugin \in {"on", "disposing"}
    /\ \A s \in Sidecars : Running(s) => handle = s

\* What a process is about to act on is still so, if nobody else moved it.
SeenStill ==
    \A s \in Sidecars : pc[s] = "apply" /\ ~moved[s] => seen[s] = Observed

IInv ==
    /\ SidecarInv
    /\ RunsForPlugin
    /\ SeenStill
    /\ ReadyUnlessMoved

\* A command that a process waits for is one its plan allows.
LEMMA CommandIsAllowed ==
    ASSUME IInv, NEW s \in Sidecars, InCommand(s)
    PROVE  /\ pc[s] = "apply"
           /\ config.manage = "ensure" /\ ~config.access
           /\ moved[s] \/ Classify(route) = "absent"
<1>1. pc[s] = "apply" /\ seen[s] = "absent" /\ config.manage = "ensure"
  BY DEF InCommand, Plan
<1>2. ~config.access
  BY <1>1 DEF IInv, SidecarInv, SidecarTypeOK, Configs
<1>3. moved[s] \/ Classify(route) = "absent"
  BY <1>1, <1>2 DEF IInv, SeenStill, Observed
<1> QED BY <1>1, <1>2, <1>3

LEMMA EffectsAreRoutes ==
    ASSUME route \in Routes
    PROVE  ServeEffects(route) \subseteq Routes
<1> DEFINE ours == [handler |-> "gateway", funnel |-> FALSE]
<1>1. ours \in Routes
  BY DEF Routes
<1>2. ServeEffects(route) = {route, ours} \/ ServeEffects(route) = {ours}
  BY DEF ServeEffects
<1> QED BY <1>1, <1>2

LEMMA ObservedKind == Observed \in {"exact", "absent", "conflict"}
  BY DEF Observed, Classify

LEMMA InitHolds == Init => IInv
<1> SUFFICES ASSUME Init PROVE IInv
  OBVIOUS
<1>1. SidecarTypeOK
  BY DEF Init, SidecarTypeOK, Steps
<1>2. PortHolders
  BY SidecarAssumption DEF Init, PortHolders, Listening
<1>3. RunsForPlugin /\ SeenStill /\ ReadyUnlessMoved
  BY DEF Init, RunsForPlugin, SeenStill, ReadyUnlessMoved, Running
<1> QED BY <1>1, <1>2, <1>3 DEF IInv, SidecarInv

\* The plugin.
LEMMA LoadHolds ==
    ASSUME IInv, NEW c \in Configs, Load(c)
    PROVE  IInv'
<1>1. \A s \in Sidecars : pc[s] = "none"
  BY SidecarAssumption DEF Load, IInv, RunsForPlugin, Running
<1>2. SidecarTypeOK'
  BY DEF Load, IInv, SidecarInv, SidecarTypeOK
<1> QED BY <1>1, <1>2
        DEF Load, IInv, SidecarInv, PortHolders, RunsForPlugin, SeenStill, ReadyUnlessMoved, Running

LEMMA SpawnHolds ==
    ASSUME IInv, NEW s \in Sidecars, Spawn(s)
    PROVE  IInv'
<1>1. \A t \in Sidecars : pc[t] = "none"
  BY SidecarAssumption DEF Spawn, IInv, RunsForPlugin, Running
<1>2. pc' = [pc EXCEPT ![s] = "auth"] /\ pc \in [Sidecars -> Steps]
  BY DEF Spawn, Goes, IInv, SidecarInv, SidecarTypeOK
<1>3. SidecarTypeOK'
  BY <1>2 DEF Spawn, IInv, SidecarInv, SidecarTypeOK, Steps
<1>4. PortHolders'
  BY <1>1, <1>2 DEF Spawn, IInv, SidecarInv, PortHolders, Listening
<1>5. RunsForPlugin' /\ SeenStill' /\ ReadyUnlessMoved'
  BY <1>1, <1>2 DEF Spawn, RunsForPlugin, Running, SeenStill, ReadyUnlessMoved
<1> QED BY <1>3, <1>4, <1>5 DEF IInv, SidecarInv

LEMMA PluginHolds ==
    ASSUME IInv, SpawnFails \/ Dispose \/ Disposed
    PROVE  IInv'
<1>1. SidecarTypeOK'
  BY DEF SpawnFails, Dispose, Disposed, IInv, SidecarInv, SidecarTypeOK
<1>2. RunsForPlugin'
  <2>1. CASE SpawnFails \/ Dispose
    BY <2>1 DEF SpawnFails, Dispose, IInv, RunsForPlugin, Running
  <2>2. CASE Disposed
    BY <2>2 DEF Disposed, IInv, RunsForPlugin, Running
  <2> QED BY <2>1, <2>2
<1>3. PortHolders' /\ SeenStill' /\ ReadyUnlessMoved'
  BY DEF SpawnFails, Dispose, Disposed, IInv, SidecarInv, PortHolders, SeenStill,
         ReadyUnlessMoved, Observed
<1> QED BY <1>1, <1>2, <1>3 DEF IInv, SidecarInv

\* Once the only process has ended nobody holds the port or a view of the route.
LEMMA EndsHolds ==
    ASSUME IInv, NEW s \in Sidecars, Ends(s)
    PROVE  IInv'
<1>1. /\ pc' = [pc EXCEPT ![s] = "none"] /\ pc \in [Sidecars -> Steps]
      /\ handle = s /\ UNCHANGED <<config, plugin, handle, seen, keysUp, moved>>
  BY DEF Ends, Goes, IInv, SidecarInv, SidecarTypeOK, RunsForPlugin
<1>2. \A t \in Sidecars : pc'[t] = "none"
  BY <1>1 DEF IInv, RunsForPlugin, Running
<1>3. route' \in Routes
  BY EffectsAreRoutes DEF Ends, IInv, SidecarInv, SidecarTypeOK
<1>4. SidecarTypeOK'
  <2>1. pc' \in [Sidecars -> Steps]
    BY <1>1 DEF Steps
  <2>2. bound' \in Sidecars \union {None, Other} /\ client' \in [Sidecars -> BOOLEAN]
    BY DEF Ends, IInv, SidecarInv, SidecarTypeOK
  <2> QED BY <1>1, <1>3, <2>1, <2>2 DEF IInv, SidecarInv, SidecarTypeOK
<1>5. PortHolders'
  BY <1>1, <1>2, SidecarAssumption
  DEF Ends, IInv, SidecarInv, PortHolders, Listening, RunsForPlugin, Running
<1>6. RunsForPlugin' /\ SeenStill' /\ ReadyUnlessMoved'
  BY <1>1, <1>2 DEF IInv, RunsForPlugin, Running, SeenStill, ReadyUnlessMoved
<1> QED BY <1>4, <1>5, <1>6 DEF IInv, SidecarInv

\* The steps of start() before the port is taken.
LEMMA AuthHolds ==
    ASSUME IInv, NEW s \in Sidecars, AuthReady(s) \/ AuthFails(s) \/ BindFails(s)
    PROVE  IInv'
<1>1. PICK step \in {"bind", "closing"} : pc' = [pc EXCEPT ![s] = step]
  BY DEF AuthReady, AuthFails, BindFails, Goes
<1>2. /\ pc \in [Sidecars -> Steps] /\ pc[s] \in {"auth", "bind"}
      /\ UNCHANGED <<config, plugin, handle, bound, client, seen, route, keysUp, moved>>
  BY DEF AuthReady, AuthFails, BindFails, IInv, SidecarInv, SidecarTypeOK
<1>3. SidecarTypeOK'
  BY <1>1, <1>2 DEF IInv, SidecarInv, SidecarTypeOK, Steps
<1>4. PortHolders'
  BY <1>1, <1>2 DEF IInv, SidecarInv, PortHolders, Listening
<1>5. RunsForPlugin' /\ SeenStill' /\ ReadyUnlessMoved'
  BY <1>1, <1>2 DEF IInv, RunsForPlugin, Running, SeenStill, ReadyUnlessMoved, Observed
<1> QED BY <1>3, <1>4, <1>5 DEF IInv, SidecarInv

LEMMA BindHolds ==
    ASSUME IInv, NEW s \in Sidecars, Bind(s)
    PROVE  IInv'
<1>1. /\ pc \in [Sidecars -> Steps] /\ pc[s] = "bind" /\ bound = None /\ bound' = s
      /\ pc' = [pc EXCEPT ![s] = "inspect"]
      /\ UNCHANGED <<config, plugin, handle, client, seen, route, keysUp, moved>>
  BY DEF Bind, Goes, IInv, SidecarInv, SidecarTypeOK
<1>2. SidecarTypeOK'
  BY <1>1 DEF IInv, SidecarInv, SidecarTypeOK, Steps
<1>3. PortHolders'
  BY <1>1, SidecarAssumption DEF IInv, SidecarInv, PortHolders, Listening
<1>4. RunsForPlugin' /\ SeenStill'
  BY <1>1 DEF IInv, RunsForPlugin, Running, SeenStill, Observed
<1>5. ReadyUnlessMoved'
  BY <1>1, SidecarAssumption DEF IInv, ReadyUnlessMoved, Observed
<1> QED BY <1>2, <1>3, <1>4, <1>5 DEF IInv, SidecarInv

LEMMA InspectHolds ==
    ASSUME IInv, NEW s \in Sidecars, Inspect(s)
    PROVE  IInv'
<1>1. /\ pc \in [Sidecars -> Steps] /\ pc[s] = "inspect"
      /\ pc' = [pc EXCEPT ![s] = "apply"]
      /\ seen' = [seen EXCEPT ![s] = Observed] /\ moved' = [moved EXCEPT ![s] = FALSE]
      /\ UNCHANGED <<config, plugin, handle, bound, client, route, keysUp>>
  BY DEF Inspect, Goes, IInv, SidecarInv, SidecarTypeOK
<1>2. SidecarTypeOK'
  BY <1>1, ObservedKind DEF IInv, SidecarInv, SidecarTypeOK, Steps
<1>3. PortHolders' /\ RunsForPlugin'
  BY <1>1 DEF IInv, SidecarInv, PortHolders, Listening, RunsForPlugin, Running
<1>4. Observed' = Observed
  BY <1>1 DEF Observed
<1>5. SeenStill' /\ ReadyUnlessMoved'
  BY <1>1, <1>4 DEF IInv, SidecarInv, SidecarTypeOK, SeenStill, ReadyUnlessMoved
<1> QED BY <1>2, <1>3, <1>5 DEF IInv, SidecarInv

\* When one process applies, no other one runs whose view could go stale.
LEMMA ApplyHolds ==
    ASSUME IInv, NEW s \in Sidecars, ApplyUnchanged(s) \/ ApplyCreate(s)
    PROVE  IInv'
<1>1. /\ pc \in [Sidecars -> Steps] /\ pc[s] = "apply" /\ handle = s
      /\ pc' = [pc EXCEPT ![s] = "verify"] /\ route' \in Routes
      /\ UNCHANGED <<config, plugin, handle, bound, client, seen, keysUp, moved>>
  BY EffectsAreRoutes
  DEF ApplyUnchanged, ApplyCreate, InCommand, Goes, IInv, SidecarInv, SidecarTypeOK, RunsForPlugin, Running
<1>2. \A t \in Sidecars : pc'[t] \in {"none", "verify"}
  BY <1>1 DEF IInv, RunsForPlugin, Running
<1>3. SidecarTypeOK'
  BY <1>1 DEF IInv, SidecarInv, SidecarTypeOK, Steps
<1>4. PortHolders' /\ RunsForPlugin'
  BY <1>1 DEF IInv, SidecarInv, PortHolders, Listening, RunsForPlugin, Running
<1>5. SeenStill' /\ ReadyUnlessMoved'
  BY <1>2 DEF SeenStill, ReadyUnlessMoved
<1> QED BY <1>3, <1>4, <1>5 DEF IInv, SidecarInv

LEMMA FailSetupHolds ==
    ASSUME IInv, NEW s \in Sidecars, CommandFails(s) \/ Refused(s) \/ VerifyFails(s)
    PROVE  IInv'
<1>1. /\ pc \in [Sidecars -> Steps] /\ pc[s] \in {"inspect", "apply", "verify"} /\ handle = s
      /\ pc' = [pc EXCEPT ![s] = "closing"] /\ route' \in Routes
      /\ bound' = IF bound = s THEN None ELSE bound
      /\ UNCHANGED <<config, plugin, handle, client, seen, keysUp, moved>>
  BY EffectsAreRoutes
  DEF CommandFails, Refused, VerifyFails, FailSetup, AwaitsCommand, InCommand, Goes, IInv, SidecarInv,
      SidecarTypeOK, RunsForPlugin, Running
<1>2. \A t \in Sidecars : pc'[t] \in {"none", "closing"}
  BY <1>1 DEF IInv, RunsForPlugin, Running
<1>3. SidecarTypeOK'
  BY <1>1 DEF IInv, SidecarInv, SidecarTypeOK, Steps
<1>4. PortHolders'
  BY <1>1, SidecarAssumption DEF IInv, SidecarInv, PortHolders, Listening
<1>5. RunsForPlugin'
  BY <1>1 DEF IInv, RunsForPlugin, Running
<1>6. SeenStill' /\ ReadyUnlessMoved'
  BY <1>2 DEF SeenStill, ReadyUnlessMoved
<1> QED BY <1>3, <1>4, <1>5, <1>6 DEF IInv, SidecarInv

LEMMA VerifyHolds ==
    ASSUME IInv, NEW s \in Sidecars, Verify(s)
    PROVE  IInv'
<1>1. /\ pc \in [Sidecars -> Steps] /\ pc[s] = "verify" /\ Observed = "exact"
      /\ pc' = [pc EXCEPT ![s] = "ready"] /\ moved' = [moved EXCEPT ![s] = FALSE]
      /\ UNCHANGED <<config, plugin, handle, bound, client, seen, route, keysUp>>
  BY DEF Verify, Goes, IInv, SidecarInv, SidecarTypeOK
<1>2. SidecarTypeOK'
  BY <1>1 DEF IInv, SidecarInv, SidecarTypeOK, Steps
<1>3. PortHolders' /\ RunsForPlugin'
  BY <1>1 DEF IInv, SidecarInv, PortHolders, Listening, RunsForPlugin, Running
<1>4. Observed' = Observed
  BY <1>1 DEF Observed
<1>5. SeenStill' /\ ReadyUnlessMoved'
  BY <1>1, <1>4 DEF IInv, SidecarInv, SidecarTypeOK, PortHolders, Listening, SeenStill, ReadyUnlessMoved
<1> QED BY <1>2, <1>3, <1>5 DEF IInv, SidecarInv

\* Everybody else.
LEMMA ClientHolds ==
    ASSUME IInv, NEW s \in Sidecars, Connect(s) \/ Leave(s)
    PROVE  IInv'
<1>1. SidecarTypeOK'
  BY DEF Connect, Leave, IInv, SidecarInv, SidecarTypeOK
<1> QED BY <1>1 DEF Connect, Leave, IInv, SidecarInv, PortHolders, RunsForPlugin, SeenStill,
                    ReadyUnlessMoved, Running, Observed

LEMMA PortHolds ==
    ASSUME IInv, PortTaken \/ PortFreed
    PROVE  IInv'
<1>1. SidecarTypeOK'
  BY DEF PortTaken, PortFreed, IInv, SidecarInv, SidecarTypeOK
<1>2. PortHolders'
  BY SidecarAssumption DEF PortTaken, PortFreed, IInv, SidecarInv, PortHolders
<1>3. RunsForPlugin' /\ SeenStill' /\ ReadyUnlessMoved'
  BY SidecarAssumption
  DEF PortTaken, PortFreed, IInv, RunsForPlugin, SeenStill, ReadyUnlessMoved, Running, Observed
<1> QED BY <1>1, <1>2, <1>3 DEF IInv, SidecarInv

LEMMA MoveHolds ==
    ASSUME IInv, KeysTurn \/ \E r \in Routes : Reroute(r)
    PROVE  IInv'
<1>1. /\ moved' = [s \in Sidecars |-> TRUE] /\ route' \in Routes /\ keysUp' \in BOOLEAN
      /\ UNCHANGED <<config, plugin, handle, pc, bound, client, seen>>
  BY DEF KeysTurn, Reroute, IInv, SidecarInv, SidecarTypeOK
<1>2. SidecarTypeOK'
  BY <1>1 DEF IInv, SidecarInv, SidecarTypeOK
<1> QED BY <1>1, <1>2 DEF IInv, SidecarInv, PortHolders, RunsForPlugin, SeenStill,
                          ReadyUnlessMoved, Running

LEMMA StutterHolds ==
    ASSUME IInv, UNCHANGED vars
    PROVE  IInv'
  BY DEF vars, IInv, SidecarInv, SidecarTypeOK, PortHolders, RunsForPlugin, SeenStill,
         ReadyUnlessMoved, Running, Observed

\* The inductive invariant: a process runs only for the handle of a loaded
\* plugin, so that nobody of the gateway's own invalidates what it has seen.
THEOREM SidecarInvariant == Spec => []IInv
<1>1. ASSUME IInv, [Next]_vars PROVE IInv'
  <2>1. ASSUME NEW c \in Configs, Load(c) PROVE IInv'
    BY <1>1, <2>1, LoadHolds
  <2>2. ASSUME SpawnFails \/ Dispose \/ Disposed PROVE IInv'
    BY <1>1, <2>2, PluginHolds
  <2>3. ASSUME NEW s \in Sidecars, Spawn(s) PROVE IInv'
    BY <1>1, <2>3, SpawnHolds
  <2>4. ASSUME NEW s \in Sidecars, Terminate(s) \/ Crash(s) \/ Exit(s) PROVE IInv'
    BY <1>1, <2>4, EndsHolds DEF Terminate, Crash, Exit
  <2>5. ASSUME NEW s \in Sidecars, StartStep(s) PROVE IInv'
    BY <1>1, <2>5, AuthHolds, BindHolds, InspectHolds, ApplyHolds, FailSetupHolds, VerifyHolds
    DEF StartStep
  <2>6. ASSUME NEW s \in Sidecars, Connect(s) \/ Leave(s) PROVE IInv'
    BY <1>1, <2>6, ClientHolds
  <2>7. ASSUME PortTaken \/ PortFreed PROVE IInv'
    BY <1>1, <2>7, PortHolds
  <2>8. ASSUME KeysTurn \/ \E r \in Routes : Reroute(r) PROVE IInv'
    BY <1>1, <2>8, MoveHolds
  <2>9. ASSUME UNCHANGED vars PROVE IInv'
    BY <1>1, <2>9, StutterHolds
  <2> QED BY <1>1, <2>1, <2>2, <2>3, <2>4, <2>5, <2>6, <2>7, <2>8, <2>9, Zenon DEF Next
<1> QED BY InitHolds, <1>1, PTL DEF Spec

\* The port is held exactly by a sidecar between its listen() and its failure
\* or end (start() and its catch).
THEOREM PortIsHeldByTheLive == Spec => []SidecarInv
<1>1. IInv => SidecarInv
  BY DEF IInv
<1> QED BY <1>1, SidecarInvariant, PTL

\* Disposal awaits the old sidecar, so two never run (plugin.mjs).
THEOREM OneSidecarAtATime == Spec => []OneAtATime
<1>1. IInv => OneAtATime
  BY DEF IInv, RunsForPlugin, OneAtATime
<1> QED BY <1>1, SidecarInvariant, PTL

\* A ready sidecar has the exact, private route it verified (start(), verify()).
THEOREM ReadyIsExact == Spec => []ReadyUnlessMoved
<1>1. IInv => ReadyUnlessMoved
  BY DEF IInv
<1> QED BY <1>1, SidecarInvariant, PTL

-----------------------------------------------------------------------------
(* The sidecars of a plugin implement ManagedRoute.                        *)

Stale == Phase \in {"claiming", "claimed", "ready"} /\ moved[handle]

\* To its host nothing happens.
Unseen ==
    /\ (config'.manage = "ensure") = (config.manage = "ensure")
    /\ Phase' = Phase /\ Port' = Port /\ Observed' = Observed /\ Stale' = Stale

LEMMA UnseenIsStutter == Unseen => UNCHANGED Managed!managedVars
  BY DEF Unseen, Stale, Managed!managedVars

\* Who has the port is the process of the handle, if it is a sidecar at all.
LEMMA PortIs ==
    ASSUME IInv
    PROVE  /\ bound \in Sidecars => bound = handle
           /\ Port = "gateway" <=> bound \in Sidecars
           /\ Port = "free" <=> bound = None
           /\ Port = "taken" <=> bound = Other
<1>1. bound \in Sidecars \union {None, Other}
  BY DEF IInv, SidecarInv, SidecarTypeOK
<1>2. bound \in Sidecars => bound = handle
  BY DEF IInv, SidecarInv, PortHolders, Listening, RunsForPlugin, Running
<1> QED BY <1>1, <1>2, SidecarAssumption DEF Port

\* Where the process of the handle is.
LEMMA PhaseIs ==
    ASSUME IInv, NEW s \in Sidecars, handle = s
    PROVE  /\ pc[s] \in {"none", "closing"} => Phase = "down"
           /\ pc[s] \in {"auth", "bind", "inspect"} => Phase = "starting"
           /\ pc[s] = "apply" =>
                Phase = IF seen[s] = "exact" THEN "claimed"
                        ELSE IF InCommand(s) THEN "claiming" ELSE "starting"
           /\ pc[s] = "verify" => Phase = "claimed"
           /\ pc[s] = "ready" => Phase = "ready"
<1>1. s # None
  BY SidecarAssumption
<1> QED BY <1>1 DEF Phase, InCommand, Plan

LEMMA NobodyIsDown == handle = None => Phase = "down" /\ Stale = FALSE
  BY DEF Phase, Stale

\* The primed versions, for the steps below.
LEMMA PhaseIsAfter ==
    ASSUME IInv', NEW s \in Sidecars, handle' = s
    PROVE  /\ pc'[s] \in {"none", "closing"} => Phase' = "down"
           /\ pc'[s] \in {"auth", "bind", "inspect"} => Phase' = "starting"
           /\ pc'[s] = "apply" =>
                Phase' = IF seen'[s] = "exact" THEN "claimed"
                         ELSE IF InCommand(s)' THEN "claiming" ELSE "starting"
           /\ pc'[s] = "verify" => Phase' = "claimed"
           /\ pc'[s] = "ready" => Phase' = "ready"
<1>1. s # None
  BY SidecarAssumption
<1> QED BY <1>1 DEF Phase, InCommand, Plan

\* What the command of a plan makes of the route.
LEMMA CommandClaims ==
    ASSUME IInv, NEW s \in Sidecars, InCommand(s), handle = s, config' = config, keysUp' = keysUp,
           route' \in ServeEffects(route)
    PROVE  Managed!Claimed
<1>1. pc[s] = "apply" /\ config.manage = "ensure" /\ ~config.access
      /\ (moved[s] \/ Classify(route) = "absent")
  BY CommandIsAllowed
<1>2. Phase = "claiming" /\ Port = "gateway"
  <2>1. seen[s] = "absent"
    BY DEF InCommand, Plan
  <2>2. bound = s
    BY <1>1 DEF IInv, SidecarInv, PortHolders, Listening
  <2> QED BY <1>1, <2>1, <2>2, PhaseIs, PortIs
<1>3. Observed = Classify(route) /\ Observed' = Classify(route')
  BY <1>1 DEF Observed
<1>4. Classify(route') = "exact" \/ (Classify(route) = "conflict" /\ route' = route)
  BY DEF ServeEffects, Classify
<1>5. Observed' = "exact" \/ (moved[s] /\ Observed' = Observed)
  BY <1>1, <1>3, <1>4
<1>6. moved[s] \/ Observed = "absent"
  BY <1>1, <1>3
<1> QED BY <1>1, <1>2, <1>5, <1>6 DEF Managed!Claimed

\* A step of start() that ends in failure, or the end of the process.
LEMMA EndRefines ==
    ASSUME IInv, IInv', NEW s \in Sidecars, handle = s, pc[s] # "none",
           pc'[s] \in {"none", "closing"}, UNCHANGED <<config, handle, keysUp>>,
           bound' = IF bound = s THEN None ELSE bound,
           UNCHANGED route \/ (InCommand(s) /\ route' \in ServeEffects(route))
    PROVE  Managed!ManagedNext \/ Unseen
<1>1. Phase' = "down" /\ Stale' = FALSE
  BY PhaseIsAfter DEF Stale
<1>2. Port' = IF Port = "gateway" THEN "free" ELSE Port
  <2>1. CASE bound = s
    BY <2>1, PortIs, SidecarAssumption DEF Port
  <2>2. CASE bound # s
    BY <2>2, PortIs DEF Port
  <2> QED BY <2>1, <2>2
<1>3. Observed' = Observed \/ Managed!Claimed
  BY CommandClaims DEF Observed
<1>4. CASE Phase = "down"
  <2>1. bound # s
    BY <1>4, PhaseIs DEF IInv, SidecarInv, SidecarTypeOK, PortHolders, Listening
  <2>2. Port' = Port
    BY <2>1 DEF Port
  <2>3. Observed' = Observed
    BY <1>3, <1>4 DEF Managed!Claimed
  <2>4. Stale = FALSE
    BY <1>4 DEF Stale
  <2> QED BY <1>1, <1>4, <2>2, <2>3, <2>4 DEF Unseen
<1>5. CASE Phase # "down"
  <2>1. Managed!End
    BY <1>1, <1>2, <1>3, <1>5 DEF Managed!End, Stale
  <2> QED BY <2>1 DEF Managed!ManagedNext
<1> QED BY <1>4, <1>5

LEMMA EndsRefines ==
    ASSUME IInv, IInv', NEW s \in Sidecars, Ends(s)
    PROVE  Managed!ManagedNext \/ Unseen
<1>1. handle = s /\ pc[s] # "none" /\ pc'[s] = "none" /\ UNCHANGED <<config, handle, keysUp>>
  BY DEF Ends, Goes, IInv, SidecarInv, SidecarTypeOK, RunsForPlugin, Running
<1>2. /\ bound' = IF bound = s THEN None ELSE bound
      /\ UNCHANGED route \/ (InCommand(s) /\ route' \in ServeEffects(route))
  BY DEF Ends
<1> QED BY <1>1, <1>2, EndRefines

LEMMA FailureRefines ==
    ASSUME IInv, IInv', NEW s \in Sidecars,
           AuthFails(s) \/ BindFails(s) \/ CommandFails(s) \/ Refused(s) \/ VerifyFails(s)
    PROVE  Managed!ManagedNext \/ Unseen
<1>1. pc[s] \in Steps \ {"none"} /\ handle = s
  BY DEF AuthFails, BindFails, CommandFails, Refused, VerifyFails, AwaitsCommand, InCommand, IInv, SidecarInv,
         SidecarTypeOK, RunsForPlugin, Running
<1>2. pc'[s] = "closing" /\ UNCHANGED <<config, handle, keysUp>>
  BY DEF AuthFails, BindFails, CommandFails, Refused, VerifyFails, FailSetup, Goes, IInv, SidecarInv,
         SidecarTypeOK
<1>3. UNCHANGED route \/ (InCommand(s) /\ route' \in ServeEffects(route))
  BY DEF AuthFails, BindFails, CommandFails, Refused, VerifyFails
<1>4. bound' = IF bound = s THEN None ELSE bound
  <2>1. CASE AuthFails(s) \/ BindFails(s)
    BY <2>1 DEF AuthFails, BindFails, IInv, SidecarInv, PortHolders, Listening
  <2>2. CASE CommandFails(s) \/ Refused(s) \/ VerifyFails(s)
    BY <2>2 DEF CommandFails, Refused, VerifyFails, FailSetup
  <2> QED BY <2>1, <2>2
<1> QED BY <1>1, <1>2, <1>3, <1>4, EndRefines

\* The steps of start() that go well.
LEMMA ProgressRefines ==
    ASSUME IInv, IInv', NEW s \in Sidecars,
           AuthReady(s) \/ Bind(s) \/ Inspect(s) \/ ApplyUnchanged(s) \/ ApplyCreate(s) \/ Verify(s)
    PROVE  Managed!ManagedNext \/ Unseen
<1>1. /\ handle = s /\ handle' = s /\ config' = config /\ keysUp' = keysUp
      /\ pc \in [Sidecars -> Steps] /\ seen \in [Sidecars -> {"nothing", "exact", "absent", "conflict"}]
      /\ moved \in [Sidecars -> BOOLEAN]
  BY DEF AuthReady, Bind, Inspect, ApplyUnchanged, ApplyCreate, InCommand, Verify, IInv, SidecarInv,
         SidecarTypeOK, RunsForPlugin, Running
<1>2. CASE AuthReady(s)
  <2>1. Phase = "starting" /\ Phase' = "starting"
    BY <1>1, <1>2, PhaseIs, PhaseIsAfter DEF AuthReady, Goes
  <2>2. Port' = Port /\ Observed' = Observed
    BY <1>2 DEF AuthReady, Port, Observed
  <2> QED BY <1>1, <2>1, <2>2 DEF Unseen, Stale
<1>3. CASE Bind(s)
  <2>1. Phase = "starting" /\ Phase' = "starting"
    BY <1>1, <1>3, PhaseIs, PhaseIsAfter DEF Bind, Goes
  <2>2. Port = "free" /\ Port' = "gateway" /\ Observed' = Observed
    BY <1>3, SidecarAssumption DEF Bind, Port, Observed
  <2>3. Managed!Listen
    BY <1>1, <2>1, <2>2 DEF Managed!Listen
  <2> QED BY <2>3 DEF Managed!ManagedNext
<1>4. CASE Inspect(s)
  <2>1. pc[s] = "inspect" /\ pc'[s] = "apply" /\ seen'[s] = Observed /\ moved'[s] = FALSE
    BY <1>1, <1>4 DEF Inspect, Goes
  <2>2. Phase = "starting" /\ Stale = FALSE /\ Stale' = FALSE
    BY <1>1, <2>1, PhaseIs DEF Stale
  <2>3. bound = s
    BY <2>1 DEF IInv, SidecarInv, PortHolders, Listening
  <2>4. Port = "gateway" /\ Port' = Port /\ Observed' = Observed
    BY <1>4, <2>3, PortIs DEF Inspect, Port, Observed
  <2>5. InCommand(s)' <=> Observed = "absent" /\ config.manage = "ensure"
    BY <1>1, <2>1, ObservedKind DEF InCommand, Plan
  <2>6. CASE Observed = "exact" \/ (Observed = "absent" /\ config.manage = "ensure")
    <3>1. Phase' = IF Observed = "exact" THEN "claimed" ELSE "claiming"
      BY <1>1, <2>1, <2>5, <2>6, PhaseIsAfter
    <3>2. Managed!Look
      BY <1>1, <2>2, <2>4, <2>6, <3>1 DEF Managed!Look, Stale
    <3> QED BY <3>2 DEF Managed!ManagedNext
  <2>7. CASE ~(Observed = "exact" \/ (Observed = "absent" /\ config.manage = "ensure"))
    <3>1. Phase' = "starting"
      BY <1>1, <2>1, <2>5, <2>7, PhaseIsAfter
    <3> QED BY <1>1, <2>2, <2>4, <3>1 DEF Unseen
  <2> QED BY <2>6, <2>7
<1>5. CASE ApplyUnchanged(s)
  <2>1. pc[s] = "apply" /\ seen[s] = "exact" /\ pc'[s] = "verify"
    BY <1>1, <1>5 DEF ApplyUnchanged, Goes, Plan
  <2>2. Phase = "claimed" /\ Phase' = "claimed"
    BY <1>1, <2>1, PhaseIs, PhaseIsAfter
  <2>3. Port' = Port /\ Observed' = Observed /\ moved' = moved
    BY <1>5 DEF ApplyUnchanged, Port, Observed
  <2> QED BY <1>1, <2>2, <2>3 DEF Unseen, Stale
<1>6. CASE ApplyCreate(s)
  <2>1. Managed!Claimed
    BY <1>1, <1>6, CommandClaims DEF ApplyCreate
  <2>2. pc'[s] = "verify" /\ moved' = moved /\ Port' = Port
    BY <1>1, <1>6 DEF ApplyCreate, Goes, Port
  <2>3. Phase = "claiming" /\ Phase' = "claimed"
    BY <1>1, <2>1, <2>2, PhaseIsAfter DEF Managed!Claimed
  <2>4. Managed!Claim
    BY <1>1, <2>1, <2>2, <2>3 DEF Managed!Claim
  <2> QED BY <2>4 DEF Managed!ManagedNext
<1>7. CASE Verify(s)
  <2>1. pc[s] = "verify" /\ pc'[s] = "ready" /\ Observed = "exact" /\ moved'[s] = FALSE
    BY <1>1, <1>7 DEF Verify, Goes
  <2>2. Phase = "claimed" /\ Phase' = "ready" /\ Stale' = FALSE
    BY <1>1, <2>1, PhaseIs, PhaseIsAfter DEF Stale
  <2>3. bound = s
    BY <2>1 DEF IInv, SidecarInv, PortHolders, Listening
  <2>4. Port = "gateway" /\ Port' = Port /\ Observed' = Observed
    BY <1>7, <2>3, PortIs DEF Verify, Port, Observed
  <2>5. Managed!Certify
    BY <1>1, <2>1, <2>2, <2>4 DEF Managed!Certify, Stale
  <2> QED BY <2>5 DEF Managed!ManagedNext
<1> QED BY <1>2, <1>3, <1>4, <1>5, <1>6, <1>7

\* Loading, spawning and disposing.
LEMMA PluginRefines ==
    ASSUME IInv, IInv',
           \/ \E c \in Configs : Load(c)
           \/ \E s \in Sidecars : Spawn(s)
           \/ SpawnFails \/ Dispose \/ Disposed
    PROVE  Managed!ManagedNext \/ Unseen
<1>1. Port' = Port
  BY DEF Load, Spawn, SpawnFails, Dispose, Disposed, Port
<1>2. ASSUME NEW c \in Configs, Load(c)
      PROVE  Managed!Configure
  <2>1. handle = None /\ handle' = None
    BY <1>2 DEF Load, IInv, RunsForPlugin
  <2>2. Phase = "down" /\ Phase' = "down" /\ Stale = FALSE /\ Stale' = FALSE
    BY <2>1 DEF Phase, Stale
  <2>3. Observed' \in Managed!Verdicts
    BY DEF Observed, Classify, Managed!Verdicts
  <2> QED BY <1>1, <2>2, <2>3 DEF Managed!Configure, Stale
<1>3. ASSUME NEW s \in Sidecars, Spawn(s)
      PROVE  Managed!Begin
  <2>1. handle = None /\ handle' = s /\ pc'[s] = "auth" /\ UNCHANGED <<config, keysUp, route>>
    BY <1>3 DEF Spawn, Goes, IInv, SidecarInv, SidecarTypeOK, RunsForPlugin
  <2>2. Phase = "down" /\ Stale = FALSE
    BY <2>1, NobodyIsDown
  <2>3. Phase' = "starting" /\ Stale' = FALSE
    BY <2>1, PhaseIsAfter DEF Stale
  <2>4. Observed' = Observed
    BY <2>1 DEF Observed
  <2> QED BY <1>1, <2>1, <2>2, <2>3, <2>4 DEF Managed!Begin, Stale
<1>4. CASE SpawnFails \/ Dispose
  <2>1. UNCHANGED <<config, handle, pc, seen, route, keysUp, moved>>
    BY <1>4 DEF SpawnFails, Dispose
  <2>2. Phase' = Phase
    BY <2>1 DEF Phase, InCommand, Plan
  <2> QED BY <1>1, <2>1, <2>2 DEF Unseen, Stale, Observed
<1>5. CASE Disposed
  <2>1. /\ handle # None => handle \in Sidecars /\ pc[handle] = "none"
        /\ handle' = None /\ UNCHANGED <<config, pc, route, keysUp>>
    BY <1>5 DEF Disposed, IInv, SidecarInv, SidecarTypeOK, Running
  <2>2. Phase = "down" /\ Phase' = "down"
    BY <2>1, PhaseIs, NobodyIsDown DEF Phase
  <2> QED BY <1>1, <2>1, <2>2 DEF Unseen, Stale, Observed
<1> QED BY <1>2, <1>3, <1>4, <1>5 DEF Managed!ManagedNext

\* Clients, other programs and whoever configures the route.
LEMMA OthersRefine ==
    ASSUME IInv, IInv',
           \/ \E s \in Sidecars : Connect(s) \/ Leave(s)
           \/ PortTaken \/ PortFreed \/ KeysTurn
           \/ \E r \in Routes : Reroute(r)
           \/ UNCHANGED vars
    PROVE  Managed!ManagedNext \/ Unseen
<1>1. UNCHANGED <<config, handle, pc, seen>>
  BY DEF Connect, Leave, PortTaken, PortFreed, KeysTurn, Reroute, vars
<1>2. Phase' = Phase
  BY <1>1 DEF Phase, InCommand, Plan
<1>3. CASE (\E s \in Sidecars : Connect(s) \/ Leave(s)) \/ UNCHANGED vars
  <2>1. UNCHANGED <<bound, route, keysUp, moved>>
    BY <1>3 DEF Connect, Leave, vars
  <2> QED BY <1>1, <1>2, <2>1 DEF Unseen, Stale, Observed, Port
<1>4. CASE PortTaken \/ PortFreed
  <2>1. UNCHANGED <<route, keysUp, moved>> /\ <<Port, Port'>> \in {<<"free", "taken">>, <<"taken", "free">>}
    BY <1>4, SidecarAssumption DEF PortTaken, PortFreed, Port
  <2>2. Managed!UsePort
    BY <1>1, <1>2, <2>1 DEF Managed!UsePort, Observed
  <2> QED BY <2>2 DEF Managed!ManagedNext
<1>5. CASE KeysTurn \/ \E r \in Routes : Reroute(r)
  <2>1. moved' = [s \in Sidecars |-> TRUE] /\ bound' = bound
    BY <1>5 DEF KeysTurn, Reroute
  <2>2. Phase \in {"claiming", "claimed", "ready"} => handle \in Sidecars
    BY DEF Phase, IInv, SidecarInv, SidecarTypeOK
  <2>3. Stale' = (Phase \in {"claiming", "claimed", "ready"})
    BY <1>1, <1>2, <2>1, <2>2 DEF Stale
  <2>4. Observed' \in Managed!Verdicts /\ Port' = Port
    BY <2>1 DEF Observed, Classify, Managed!Verdicts, Port
  <2>5. Managed!Touch
    BY <1>1, <1>2, <2>3, <2>4 DEF Managed!Touch, Managed!Looked, Stale
  <2> QED BY <2>5 DEF Managed!ManagedNext
<1> QED BY <1>3, <1>4, <1>5

LEMMA InitRefines == Init => Managed!ManagedInit
<1> SUFFICES ASSUME Init PROVE Managed!ManagedInit
  OBVIOUS
<1>1. Phase = "down"
  BY DEF Init, Phase
<1>2. Port \in {"free", "taken"}
  BY SidecarAssumption DEF Init, Port
<1>3. Observed \in Managed!Verdicts
  BY DEF Observed, Classify, Managed!Verdicts
<1> QED BY <1>1, <1>2, <1>3 DEF Managed!ManagedInit

\* The plugin, with all the processes it ever spawns, is the one gateway that
\* ManagedRoute allows on a host, at every step and every way that one fails.
THEOREM PluginManagesRoute == Spec => RouteIsManaged
<1>1. IInv /\ IInv' /\ [Next]_vars => [Managed!ManagedNext]_Managed!managedVars
  <2> SUFFICES ASSUME IInv, IInv', [Next]_vars
               PROVE  Managed!ManagedNext \/ Unseen
    BY UnseenIsStutter
  <2>1. ASSUME NEW s \in Sidecars, Terminate(s) \/ Crash(s) \/ Exit(s)
        PROVE  Managed!ManagedNext \/ Unseen
    BY <2>1, EndsRefines DEF Terminate, Crash, Exit
  <2>2. ASSUME NEW s \in Sidecars, StartStep(s)
        PROVE  Managed!ManagedNext \/ Unseen
    BY <2>2, ProgressRefines, FailureRefines DEF StartStep
  <2> QED BY <2>1, <2>2, PluginRefines, OthersRefine, Zenon DEF Next
<1> QED BY InitRefines, SidecarInvariant, <1>1, PTL DEF Spec, RouteIsManaged, Managed!ManagedSpec
=============================================================================
