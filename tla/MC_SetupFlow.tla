----------------------------- MODULE MC_SetupFlow -----------------------------
(* A node under ts.net or under a name of its own, in the states that setup   *)
(* tells apart; two ports; a certificate, its renewal, and one that has ended. *)
EXTENDS SetupFlow

CONSTANTS nas, own, quick, old, new, ended

MCHosts == {nas, own, quick}
MCTsHosts == {nas}
MCQuickHosts == {quick}
MCPorts == {443, 8443}

Node(name, suffix) ==
    [self |-> TRUE, running |-> TRUE, name |-> name, suffix |-> suffix,
     tagged |-> FALSE, owner |-> TRUE]

MCNodes ==
    {Node(nas, "ts"), Node(own, "none"), Node(nas, "other"), Node(None, "none"),
     [Node(nas, "ts") EXCEPT !.tagged = TRUE], [Node(nas, "none") EXCEPT !.owner = FALSE],
     [Node(own, "other") EXCEPT !.running = FALSE], [Node(nas, "ts") EXCEPT !.self = FALSE]}

MCPairs == {old, new, ended}
MCCovers == [c \in MCPairs |-> IF c = new THEN {own, nas} ELSE {own}]
MCExpired == {ended}
=============================================================================
