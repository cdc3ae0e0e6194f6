---------------------------- MODULE BoundedService ----------------------------
(***************************************************************************)
(* What the server promises its connections, with no counter, no handler,  *)
(* no upstream and no socket events: at most MaxInFlight of them are       *)
(* served at the same time, one is turned away only when as many are       *)
(* served, and each is answered at most once before it is closed.          *)
(* Connections close at any time, and the process may end at any time.     *)
(***************************************************************************)
EXTENDS Naturals, FiniteSets

CONSTANTS Connections, MaxInFlight

VARIABLE stage    \* where each connection is

Served == {c \in Connections : stage[c] \in {"waiting", "answered"}}

Goes(c, from, to) ==
    /\ stage[c] \in from
    /\ stage' = [stage EXCEPT ![c] = to]

\* Taken in for an answer, while there is room.
Admit(c) == Cardinality(Served) < MaxInFlight /\ Goes(c, {"free"}, "waiting")

\* Told that there is no room, because there is none.
TurnAway(c) == Cardinality(Served) >= MaxInFlight /\ Goes(c, {"free"}, "refused")

\* Asked for its readiness, or for what it never does, the server answers however
\* busy it is.
Probe(c) == Goes(c, {"free"}, "probed")

Answer(c) == Goes(c, {"waiting"}, "answered")

\* The connection is closed, answered or not, and makes room if it was served.
Close(c) == Goes(c, {"waiting", "answered", "refused", "probed"}, "closed")

Reopen(c) == Goes(c, {"closed"}, "free")

\* The process ends, and every connection with it.
Collapse == stage' = [c \in Connections |-> "free"]

ServiceInit == stage = [c \in Connections |-> "free"]

ServiceNext ==
    \/ Collapse
    \/ \E c \in Connections :
         Admit(c) \/ TurnAway(c) \/ Probe(c) \/ Answer(c) \/ Close(c) \/ Reopen(c)

ServiceSpec == ServiceInit /\ [][ServiceNext]_stage
=============================================================================
