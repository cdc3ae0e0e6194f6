---------------------------- MODULE GatewayServer ----------------------------
(***************************************************************************)
(* The loopback server of src/core/server.mjs with its in-flight guard,    *)
(* and the two proxies it hands a request to, proxy-http.mjs and           *)
(* proxy-websocket.mjs.  A connection's handler, its client, its answer    *)
(* and its upstream request all move on their own; the guard counts on     *)
(* the close event alone.                                                  *)
(*                                                                         *)
(* What a request asks for and whether it is let through is left open      *)
(* here: the promise of authorizeRequest() settles either way.  Node's     *)
(* part (when close, aborted and timeout fire) is modelled from how the    *)
(* source relies on it.                                                    *)
(***************************************************************************)
EXTENDS Integers, FiniteSets

CONSTANTS
    Connections,    \* requests and upgrades
    MaxInFlight     \* MAX_IN_FLIGHT

ASSUME ServerAssumption == MaxInFlight \in Nat \ {0} /\ IsFiniteSet(Connections)

VARIABLES
    up,             \* the process runs
    inFlight,       \* the count of createInFlightGuard
    conn            \* the connections

vars == <<up, inFlight, conn>>

-----------------------------------------------------------------------------
(* kind:     a request, a request for the readiness path ("probe"), a      *)
(*           CONNECT, an upgrade, and one that was "upgraded" by a 101     *)
(* counted:  the connection took a slot                                    *)
(* handler:  the promise chain of auth and authorizeRequest(): "deciding"; *)
(*           "reading" a login body; "checking" what it read; "done"       *)
(* answer:   "none"; "streaming" after the head; "ended" when everything   *)
(*           is written; "closed" after the close event                    *)
(* heads:    how often a head was written                                  *)
(* upstream: "asked", "answering", and how it ended: "settled", or         *)
(*           "cut" when the upstream left in the middle of a body          *)
(* client:   what is known of a raw socket's other side: "left" when it    *)
(*           closed its half, "unread" if bytes that nobody reads preceded *)
Free == [kind |-> "none", counted |-> FALSE, handler |-> "none", answer |-> "free",
         heads |-> 0, upstream |-> "none", client |-> "here"]

Guarded == {"request", "upgrade"}

\* Sockets that the HTTP server has handed over.  They are half-open: their close
\* event takes an end from both sides, and nobody reads them but the pipe after a
\* 101, which also brings the first listener for their errors.
Unheard == {"upgrade", "connect"}
Raw == Unheard \union {"upgraded"}

Open(c) == conn[c].answer \in {"none", "streaming", "ended"}
Busy(c) == conn[c].upstream \in {"asked", "answering"}
HoldsSlot(c) == conn[c].counted /\ Open(c)

Becomes(c, record) == conn' = [conn EXCEPT ![c] = record]

\* The close event of c's response or socket: the slot is released, once.
Closed(c, record) ==
    /\ Becomes(c, [record EXCEPT !.answer = "closed"])
    /\ inFlight' = IF HoldsSlot(c) /\ inFlight > 0 THEN inFlight - 1 ELSE inFlight

\* writeDenied() and writeUpgradeDenied(): a head and the end.  On a connection
\* that is closed already the writes go nowhere.
Answered(record) ==
    [record EXCEPT !.heads = record.heads + 1,
                   !.answer = IF record.answer = "closed" THEN "closed" ELSE "ended"]

-----------------------------------------------------------------------------
(* The listeners.                                                          *)

\* A request under the limit takes a slot and its handler starts.
Accept(c, kind) ==
    /\ up /\ conn[c] = Free
    /\ inFlight < MaxInFlight
    /\ inFlight' = inFlight + 1
    /\ Becomes(c, [Free EXCEPT !.kind = kind, !.counted = TRUE,
                              !.handler = "deciding", !.answer = "none"])
    /\ UNCHANGED up

\* A request over the limit that gives back the slot it did not get.
Refuse_Releases(c, kind) ==
    /\ up /\ conn[c] = Free
    /\ inFlight >= MaxInFlight
    /\ Becomes(c, Answered([Free EXCEPT !.kind = kind, !.counted = TRUE, !.handler = "done"]))
    /\ UNCHANGED <<up, inFlight>>

\* A request over the limit: 429.
Refuse(c, kind) ==
    /\ up /\ conn[c] = Free
    /\ inFlight >= MaxInFlight
    /\ Becomes(c, Answered([Free EXCEPT !.kind = kind, !.handler = "done"]))
    /\ UNCHANGED <<up, inFlight>>

\* The readiness path is answered at once and takes no slot.
Readiness(c) ==
    /\ up /\ conn[c] = Free
    /\ Becomes(c, Answered([Free EXCEPT !.kind = "probe", !.handler = "done"]))
    /\ UNCHANGED <<up, inFlight>>

\* CONNECT is refused at once, 405, and takes no slot.
Connect(c) ==
    /\ up /\ conn[c] = Free
    /\ Becomes(c, Answered([Free EXCEPT !.kind = "connect", !.handler = "done"]))
    /\ UNCHANGED <<up, inFlight>>

\* A login was admitted and its body is awaited.
AsksBody(c) ==
    /\ conn[c].handler = "deciding" /\ conn[c].kind = "request"
    /\ Becomes(c, [conn[c] EXCEPT !.handler = "reading"])
    /\ UNCHANGED <<up, inFlight>>

\* The client has sent its body, or too much of it, or has broken off.
BodyRead(c) ==
    /\ conn[c].handler = "reading"
    /\ Becomes(c, [conn[c] EXCEPT !.handler = "checking"])
    /\ UNCHANGED <<up, inFlight>>

\* The denial also gives the slot back.
Deny_Releases(c) ==
    /\ conn[c].handler \in {"deciding", "checking"}
    /\ Becomes(c, Answered([conn[c] EXCEPT !.handler = "done"]))
    /\ inFlight' = inFlight - 1
    /\ UNCHANGED up

\* The handler answers itself: the login page or its outcome, 403, 413, or its
\* exception.
Deny(c) ==
    /\ conn[c].handler \in {"deciding", "checking"}
    /\ Becomes(c, Answered([conn[c] EXCEPT !.handler = "done"]))
    /\ UNCHANGED <<up, inFlight>>

\* The request is authorized and goes upstream, also if its client has left
\* in the meantime.
Forward(c) ==
    /\ conn[c].handler = "deciding"
    /\ Becomes(c, [conn[c] EXCEPT !.handler = "done", !.upstream = "asked"])
    /\ UNCHANGED <<up, inFlight>>

-----------------------------------------------------------------------------
(* The proxies.                                                            *)

\* What c is after the upstream's head: the 101 is for upgrades only.
Answering(c, kind) ==
    [conn[c] EXCEPT
       !.upstream = "answering",
       !.heads = conn[c].heads + 1,
       !.answer = IF conn[c].answer = "none" THEN "streaming" ELSE conn[c].answer,
       !.kind = kind,
       !.client = IF kind = "upgraded" /\ conn[c].client = "unread" THEN "left" ELSE conn[c].client]

\* The upstream's head is passed on and its body is piped, to a request and to
\* an upgrade that was answered without a 101.  After a 101 both ways are piped.
UpstreamAnswers(c) ==
    /\ conn[c].upstream = "asked"
    /\ \/ Becomes(c, Answering(c, conn[c].kind))
       \/ conn[c].kind = "upgrade" /\ Becomes(c, Answering(c, "upgraded"))
    /\ UNCHANGED <<up, inFlight>>

\* The body is complete: the pipe ends the answer.
UpstreamCompletes(c) ==
    /\ conn[c].upstream = "answering"
    /\ Becomes(c, [conn[c] EXCEPT !.upstream = "settled",
                                  !.answer = IF @ = "streaming" THEN "ended" ELSE @])
    /\ UNCHANGED <<up, inFlight>>

\* The upstream closes before its body is complete, without an error.  A pipe
\* does not end its destination for that: the answer stays open.  A body has a
\* length, the bytes after a 101 have none.
UpstreamCut(c) ==
    /\ conn[c].upstream = "answering" /\ conn[c].kind # "upgraded"
    /\ Becomes(c, [conn[c] EXCEPT !.upstream = "cut"])
    /\ UNCHANGED <<up, inFlight>>

\* 502, whether or not the upstream's own head was passed on.
UpstreamFails_AlwaysDenies(c) ==
    /\ Busy(c)
    /\ Becomes(c, Answered([conn[c] EXCEPT !.upstream = "settled"]))
    /\ UNCHANGED <<up, inFlight>>

\* An error in the middle of a body leaves the answer open.
UpstreamFails_LeavesOpen(c) ==
    /\ Busy(c)
    /\ IF conn[c].upstream = "asked"
         THEN Becomes(c, Answered([conn[c] EXCEPT !.upstream = "settled"]))
         ELSE Becomes(c, [conn[c] EXCEPT !.upstream = "settled"])
    /\ UNCHANGED <<up, inFlight>>

\* Only errors are handled, and the idle timeout of the socket raises none.
UpstreamFails_NoTimeout(c) ==
    /\ conn[c].upstream = "answering"
    /\ IF conn[c].answer = "streaming"
         THEN Closed(c, [conn[c] EXCEPT !.upstream = "settled"])
         ELSE Becomes(c, [conn[c] EXCEPT !.upstream = "settled"]) /\ UNCHANGED inFlight
    /\ UNCHANGED up

\* A failing upstream is dropped without a word to the client.
UpstreamFails_Silent(c) ==
    /\ Busy(c)
    /\ Becomes(c, [conn[c] EXCEPT !.upstream = "settled"])
    /\ UNCHANGED <<up, inFlight>>

\* The upstream request errs, or is idle for UPSTREAM_TIMEOUT_MS and destroyed:
\* 502 before the head, and after it the answer is destroyed.
UpstreamFails(c) ==
    /\ Busy(c)
    /\ \/ /\ conn[c].upstream = "asked"
          /\ Becomes(c, Answered([conn[c] EXCEPT !.upstream = "settled"]))
          /\ UNCHANGED inFlight
       \/ /\ conn[c].upstream = "answering" /\ conn[c].answer \in {"streaming", "ended"}
          /\ Closed(c, [conn[c] EXCEPT !.upstream = "settled"])
       \/ /\ conn[c].upstream = "answering" /\ conn[c].answer \notin {"streaming", "ended"}
          /\ Becomes(c, [conn[c] EXCEPT !.upstream = "settled"])
          /\ UNCHANGED inFlight
    /\ UNCHANGED up

-----------------------------------------------------------------------------
(* The clients.                                                            *)

\* Everything that was written is sent.  That closes a request's connection; a
\* raw socket is closed when its client has closed its half as well, and for ever
\* open if it did so behind bytes that nobody read.
Flush(c) ==
    /\ conn[c].answer = "ended"
    /\ conn[c].kind \in Raw => conn[c].client = "left"
    /\ Closed(c, conn[c])
    /\ UNCHANGED up

\* The client leaves.  The aborted event destroys the upstream request of a
\* proxied request whose body was not read to its end; before proxyHttp(), and
\* after the body, nothing listens for it.  An upgraded socket that errs
\* destroys its upstream.
ClientLeaves(c) ==
    /\ Open(c) /\ conn[c].kind \notin Unheard
    /\ \/ conn[c].kind # "upgraded" /\ Closed(c, conn[c])
       \/ /\ Busy(c) \/ conn[c].kind = "upgraded"
          /\ Closed(c, [conn[c] EXCEPT !.upstream = "settled"])
    /\ UNCHANGED up

\* The client of a raw socket closes its half.  The pipe of an upgraded one has
\* read what came before that.
ClientEnds(c) ==
    /\ Open(c) /\ conn[c].kind \in Raw /\ conn[c].client = "here"
    /\ \E left \in {"left", "unread"} :
         /\ conn[c].kind = "upgraded" /\ Busy(c) => left = "left"
         /\ Becomes(c, [conn[c] EXCEPT !.client = left])
    /\ UNCHANGED <<up, inFlight>>

\* A raw socket is reset while the proxy does not listen for its errors: before
\* a 101, after a denial, during an answer without a 101.  An unhandled error
\* event ends the process.
ClientResets(c) ==
    /\ Open(c) /\ conn[c].kind \in Unheard
    /\ up' = FALSE
    /\ inFlight' = 0
    /\ conn' = [d \in Connections |-> Free]

\* The sidecar is started again.
Restart ==
    /\ ~up
    /\ up' = TRUE
    /\ UNCHANGED <<inFlight, conn>>

\* A connection that is over in every respect: its identity is used again.
Reuse(c) ==
    /\ conn[c].answer = "closed" /\ conn[c].handler = "done" /\ ~Busy(c)
    /\ Becomes(c, Free)
    /\ UNCHANGED <<up, inFlight>>

-----------------------------------------------------------------------------
Init ==
    /\ up = TRUE
    /\ inFlight = 0
    /\ conn = [c \in Connections |-> Free]

HandlerStep(c) == AsksBody(c) \/ Deny(c) \/ Forward(c)

Next ==
    \/ \E c \in Connections :
         \/ \E kind \in Guarded : Accept(c, kind) \/ Refuse(c, kind)
         \/ Readiness(c) \/ Connect(c) \/ HandlerStep(c) \/ BodyRead(c)
         \/ UpstreamAnswers(c) \/ UpstreamCompletes(c) \/ UpstreamCut(c) \/ UpstreamFails(c)
         \/ Flush(c) \/ ClientLeaves(c) \/ ClientEnds(c) \/ ClientResets(c) \/ Reuse(c)
    \/ Restart

Spec == Init /\ [][Next]_vars

\* What the handler awaits has a deadline or is a local file, but for the body
\* of a login; the idle timeout fires on an upstream that does not answer or whose
\* answer nobody reads.  Nothing is assumed of clients.
FairSpec ==
    /\ Spec
    /\ \A c \in Connections :
         /\ WF_vars(HandlerStep(c))
         /\ WF_vars(UpstreamFails(c) /\ (conn[c].upstream = "asked" \/ ~Open(c)))

-----------------------------------------------------------------------------
(* The promise this module keeps, see BoundedService.                      *)

Stage(c) ==
    CASE conn[c].answer = "free" -> "free"
      [] conn[c].answer = "closed" -> "closed"
      [] conn[c].answer = "none" -> "waiting"
      [] OTHER -> IF conn[c].counted THEN "answered"
                  ELSE IF conn[c].kind \in {"probe", "connect"} THEN "probed" ELSE "refused"

Service == INSTANCE BoundedService WITH stage <- [c \in Connections |-> Stage(c)]

-----------------------------------------------------------------------------
(* Properties.                                                             *)

ConnType ==
    [kind : Guarded \union {"none", "probe", "connect", "upgraded"}, counted : BOOLEAN,
     handler : {"none", "deciding", "reading", "checking", "done"},
     answer : {"free", "none", "streaming", "ended", "closed"}, heads : Nat,
     upstream : {"none", "asked", "answering", "settled", "cut"},
     client : {"here", "left", "unread"}]

\* The type invariant.
ServerTypeOK ==
    /\ up \in BOOLEAN
    /\ inFlight \in 0 .. MaxInFlight
    /\ conn \in [Connections -> ConnType]

\* The slots in use are the open connections that took one: none leaks when a
\* client leaves at an odd moment, and none is given back twice.
SlotsAccounted == inFlight = Cardinality({c \in Connections : HoldsSlot(c)})

\* The inductive part of the guard.
SlotsInv == ServerTypeOK /\ SlotsAccounted

\* Who is at work on c's answer, and who is waited for: the client of a login for
\* its body, and any client to take an answer that is complete, on a raw socket
\* also to close its own half.
AtWork(c) == conn[c].handler \in {"deciding", "checking"} \/ Busy(c)
UpToClient(c) == conn[c].handler = "reading" \/ conn[c].answer = "ended"

\* No slot is held by an answer that was given up half-way: handler or upstream is
\* at it, or it is the client's turn.  The one exception are bodies that the
\* upstream cut off, on a request or on an upgrade it declined; their sockets too
\* only the client closes (server.mjs:53, 78, proxy-http.mjs:37,
\* proxy-websocket.mjs:25-33, 46-53).
HeldForAReason ==
    \A c \in Connections : HoldsSlot(c) =>
      \/ AtWork(c)
      \/ UpToClient(c)
      \/ conn[c].answer = "streaming" /\ conn[c].upstream = "cut"

\* No connection is answered twice, whichever of the denial, the upstream, its
\* timeout and the client comes first (a second head would throw).
AnsweredOnce == \A c \in Connections : conn[c].heads =< 1

\* What the listeners and proxies owe the guard and the clients in every state:
\* the exact count, and one answer.
ServerInv == SlotsInv /\ AnsweredOnce

\* A connection that was accepted is answered, unless it closes or the process
\* ends first, or its client withholds the body of a login: nothing in the code
\* limits how long that is awaited (readLoginBody).
EveryoneIsAnswered ==
    \A c \in Connections :
      conn[c].answer = "none" ~> (conn[c].answer # "none" \/ conn[c].handler = "reading")

\* An upstream request does not outlive its client for ever, nor does it wait
\* for ever for an answer.
UpstreamLetGo ==
    \A c \in Connections :
      conn[c].upstream = "asked" \/ (Busy(c) /\ ~Open(c))
        ~> ~(conn[c].upstream = "asked" \/ (Busy(c) /\ ~Open(c)))

\* The counter is a faithful account of the connections: nobody is turned away
\* while there is room or taken in when there is none, whoever left meanwhile,
\* and what was answered or closed is not answered again (createInFlightGuard,
\* and the close listeners of the request and upgrade handlers).
ServiceIsBounded == Service!ServiceSpec
=============================================================================
