----------------------------- MODULE ManagedRoute -----------------------------
(***************************************************************************)
(* What the gateway promises the host it runs on, with no plugin, no       *)
(* processes and no provider commands: there is one of it at a time, it    *)
(* touches the route only with the port in hand, at most once from a start *)
(* to its end, if it may manage the route, and after it has found it       *)
(* absent; and it says that it is ready only when it finds it exact.       *)
(* Everybody else may change the route, or use the port, at any time.      *)
(***************************************************************************)
VARIABLES
    manage,      \* whether the gateway may create the route
    phase,       \* "down", "starting", "claiming", "claimed", "ready"
    port,        \* "free", "gateway", "taken"
    verdict,     \* what the route is to the gateway
    stale        \* the route was touched since the gateway looked

managedVars == <<manage, phase, port, verdict, stale>>

Verdicts == {"exact", "absent", "conflict"}

Looked == {"claiming", "claimed", "ready"}

\* The one change that the gateway makes: of an absent route an exact one.  If
\* somebody was faster it may be in their way, or they in its.
Claimed ==
    /\ phase = "claiming" /\ manage /\ port = "gateway"
    /\ stale \/ verdict = "absent"
    /\ verdict' = "exact" \/ (stale /\ verdict' = verdict)

\* Down, another configuration is as good as any.
Configure ==
    /\ phase = "down"
    /\ manage' \in BOOLEAN /\ verdict' \in Verdicts
    /\ UNCHANGED <<phase, port, stale>>

Begin ==
    /\ phase = "down" /\ phase' = "starting"
    /\ UNCHANGED <<manage, port, verdict, stale>>

Listen ==
    /\ phase = "starting" /\ port = "free" /\ port' = "gateway"
    /\ UNCHANGED <<manage, phase, verdict, stale>>

\* The route is found as it should be, or absent and to be created.
Look ==
    /\ phase = "starting" /\ port = "gateway"
    /\ \/ verdict = "exact" /\ phase' = "claimed"
       \/ verdict = "absent" /\ manage /\ phase' = "claiming"
    /\ UNCHANGED <<manage, port, verdict, stale>>

Claim ==
    /\ Claimed
    /\ phase' = "claimed"
    /\ UNCHANGED <<manage, port, stale>>

\* Only a second look makes it ready.
Certify ==
    /\ phase = "claimed" /\ port = "gateway" /\ verdict = "exact"
    /\ phase' = "ready" /\ stale' = FALSE
    /\ UNCHANGED <<manage, port, verdict>>

\* It fails or ends, at any point, and lets go of the port.
End ==
    /\ phase # "down" /\ phase' = "down"
    /\ port' = IF port = "gateway" THEN "free" ELSE port
    /\ UNCHANGED verdict \/ Claimed
    /\ stale' = FALSE
    /\ UNCHANGED manage

\* Everybody else.
Touch ==
    /\ verdict' \in Verdicts
    /\ stale' = (phase \in Looked)
    /\ UNCHANGED <<manage, phase, port>>

UsePort ==
    /\ <<port, port'>> \in {<<"free", "taken">>, <<"taken", "free">>}
    /\ UNCHANGED <<manage, phase, verdict, stale>>

ManagedInit ==
    /\ phase = "down" /\ port \in {"free", "taken"} /\ stale = FALSE
    /\ manage \in BOOLEAN /\ verdict \in Verdicts

ManagedNext ==
    \/ Configure \/ Begin \/ Listen \/ Look \/ Claim \/ Certify \/ End
    \/ Touch \/ UsePort

ManagedSpec == ManagedInit /\ [][ManagedNext]_managedVars
=============================================================================
