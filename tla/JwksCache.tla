------------------------------ MODULE JwksCache ------------------------------
(***************************************************************************)
(* Signed-JWT authentication with its key cache: get() and refresh() of    *)
(* src/auth/jwks.mjs, authenticate() and readiness() of signed-jwt.mjs     *)
(* that await them, and the start and the end of the process they run in.  *)
(*                                                                         *)
(* The team's key server is outside: it publishes one key document after   *)
(* the other, and it may answer, refuse or hang.  Time is counted in ages, *)
(* which saturate where nothing tells them apart any more.                 *)
(***************************************************************************)
EXTENDS Naturals

CONSTANTS
    Keys,           \* signing keys
    Requests,       \* requests the gateway works on at the same time
    Fetches,        \* identities of fetches under way
    FreshTicks,     \* JWKS_FRESH_MS
    StaleTicks,     \* JWKS_STALE_MS
    TimeoutTicks,   \* JWKS_TIMEOUT_MS
    MaxVersion      \* bound on the documents the key server publishes

\* The startup of the process waits for keys like a request does.
Startup == "startup"

None == [none |-> TRUE]

ASSUME JwksAssumption ==
    /\ FreshTicks \in Nat
    /\ StaleTicks \in Nat
    /\ TimeoutTicks \in Nat
    /\ MaxVersion \in Nat
    /\ Startup \notin Requests
    /\ None \notin Fetches

VARIABLES
    published,   \* the key server's document
    gone,        \* per key, how long ago it was withdrawn
    provider,    \* whether the key server answers, refuses or hangs
    process,     \* "stopped", "starting" or "serving"
    current,     \* the cached document and its age (current)
    fetches,     \* the calls of refresh() under way
    inflight,    \* the one that get() joins (inflight)
    request      \* where each request is

vars == <<published, gone, provider, process, current, fetches, inflight, request>>
server == <<published, gone, provider>>

-----------------------------------------------------------------------------
\* Nothing tells keys this old from older ones.
AgeCap  == FreshTicks + StaleTicks + 1
GoneCap == AgeCap + TimeoutTicks

\* How long a withdrawn key may still be accepted: it is withdrawn just after
\* the answer to a fetch left, the fetch lands at its deadline, and the
\* document is used until the end of its stale window.
AcceptanceBound == FreshTicks + StaleTicks + TimeoutTicks

Older(age, cap) == IF age < cap THEN age + 1 ELSE cap

Documents == [version : 0 .. MaxVersion, keys : (SUBSET Keys) \ {{}}, withdrawn : SUBSET Keys]
Cached    == [doc : Documents, age : 0 .. AgeCap]
Flights   == [age : 0 .. TimeoutTicks, doc : Documents \union {None},
              waiters : SUBSET (Requests \union {Startup})]

IdleRequest == [step |-> "idle"]

\* jwtVerify() with the keys that get() returned.  It reads nothing else, so it
\* is part of the step that hands it the keys.
Verdict(k, doc) == [step |-> IF k \in doc.keys THEN "admitted" ELSE "denied", key |-> k]

\* current is set and its age is within the limit.
Within(limit) == current # None /\ current.age =< limit

\* `return inflight`: its settlement is w's result.  Every fetch that is not
\* awaited by anyone has no handler for its rejection.
Join(w, f) == fetches' = [fetches EXCEPT ![f].waiters = @ \union {w}]

\* `inflight = refresh().finally(...)`
Launch(f, waiters) ==
    /\ fetches[f] = None
    /\ fetches' = [fetches EXCEPT ![f] = [age |-> 0, doc |-> None, waiters |-> waiters]]
    /\ inflight' = f

-----------------------------------------------------------------------------
(* get(), called with a token signed by key k.                             *)

\* Fresh keys: returned.
GetFresh(r, k) ==
    /\ request[r] = IdleRequest /\ process = "serving"
    /\ Within(FreshTicks)
    /\ request' = [request EXCEPT ![r] = Verdict(k, current.doc)]
    /\ UNCHANGED <<server, process, current, fetches, inflight>>

\* A stale document is used however old it is.
GetStale_Unbounded(r, k) ==
    /\ request[r] = IdleRequest /\ process = "serving"
    /\ current # None /\ ~Within(FreshTicks)
    /\ request' = [request EXCEPT ![r] = Verdict(k, current.doc)]
    /\ IF inflight = None
         THEN \E f \in Fetches : Launch(f, {})
         ELSE UNCHANGED <<fetches, inflight>>
    /\ UNCHANGED <<server, process, current>>

\* A refresh per stale request, whether or not one is under way.
GetStale_NoSingleFlight(r, k) ==
    /\ request[r] = IdleRequest /\ process = "serving"
    /\ Within(FreshTicks + StaleTicks) /\ ~Within(FreshTicks)
    /\ request' = [request EXCEPT ![r] = Verdict(k, current.doc)]
    /\ \/ \E f \in Fetches : Launch(f, {})
       \/ (\A f \in Fetches : fetches[f] # None) /\ UNCHANGED <<fetches, inflight>>
    /\ UNCHANGED <<server, process, current>>

\* Stale keys: returned, and a refresh that nobody awaits is started.
GetStale(r, k) ==
    /\ request[r] = IdleRequest /\ process = "serving"
    /\ Within(FreshTicks + StaleTicks) /\ ~Within(FreshTicks)
    /\ request' = [request EXCEPT ![r] = Verdict(k, current.doc)]
    /\ IF inflight = None
         THEN \E f \in Fetches : Launch(f, {})
         ELSE UNCHANGED <<fetches, inflight>>
    /\ UNCHANGED <<server, process, current>>

\* No keys, or too old: they are dropped and the request awaits the refresh.
GetMissing(r, k) ==
    /\ request[r] = IdleRequest /\ process = "serving"
    /\ ~Within(FreshTicks + StaleTicks)
    /\ current' = None
    /\ request' = [request EXCEPT ![r] = [step |-> "waiting", key |-> k]]
    /\ IF inflight = None
         THEN \E f \in Fetches : Launch(f, {r})
         ELSE Join(r, inflight) /\ UNCHANGED inflight
    /\ UNCHANGED <<server, process>>

-----------------------------------------------------------------------------
(* refresh()                                                               *)

\* The key server answers the request of a fetch.
FetchAnswered(f) ==
    /\ fetches[f] # None /\ fetches[f].doc = None
    /\ provider = "answers"
    /\ fetches' = [fetches EXCEPT ![f].doc = published]
    /\ UNCHANGED <<server, process, current, inflight, request>>

\* The settled fetch stays in inflight.
FetchLands_KeepsInflight(f) ==
    /\ fetches[f] # None /\ fetches[f].doc # None
    /\ current' = [doc |-> fetches[f].doc, age |-> 0]
    /\ request' = [r \in Requests |->
         IF r \in fetches[f].waiters
           THEN Verdict(request[r].key, fetches[f].doc)
           ELSE request[r]]
    /\ process' = IF Startup \in fetches[f].waiters THEN "serving" ELSE process
    /\ fetches' = [fetches EXCEPT ![f] = None]
    /\ UNCHANGED <<server, inflight>>

\* A complete, valid answer is in: it becomes current with the time of now,
\* inflight is cleared, and those who await it verify with it.
FetchLands(f) ==
    /\ fetches[f] # None /\ fetches[f].doc # None
    /\ current' = [doc |-> fetches[f].doc, age |-> 0]
    /\ request' = [r \in Requests |->
         IF r \in fetches[f].waiters
           THEN Verdict(request[r].key, fetches[f].doc)
           ELSE request[r]]
    /\ process' = IF Startup \in fetches[f].waiters THEN "serving" ELSE process
    /\ fetches' = [fetches EXCEPT ![f] = None]
    /\ inflight' = None
    /\ UNCHANGED server

\* The process is gone, with all it held in memory.
Dies ==
    /\ process' = "stopped"
    /\ current' = None
    /\ fetches' = [f \in Fetches |-> None]
    /\ inflight' = None
    /\ request' = [r \in Requests |-> IdleRequest]

\* The fetch is refused, invalid or cut off at its deadline.
Failing(f) ==
    /\ fetches[f] # None
    /\ \/ provider = "refuses"
       \/ provider = "hangs" /\ fetches[f].age = TimeoutTicks

\* Those who await the fetch are denied.
Rejected(f) ==
    request' = [r \in Requests |->
      IF r \in fetches[f].waiters
        THEN [step |-> "denied", key |-> request[r].key]
        ELSE request[r]]

\* The fetch has no deadline: it fails only when it is refused.
FetchFails_NoDeadline(f) ==
    /\ Failing(f) /\ provider = "refuses"
    /\ fetches[f].waiters # {} /\ Startup \notin fetches[f].waiters
    /\ Rejected(f)
    /\ fetches' = [fetches EXCEPT ![f] = None]
    /\ inflight' = None
    /\ UNCHANGED <<server, process, current>>

\* A failure that requests await: authenticate() catches it.
FetchFails(f) ==
    /\ Failing(f)
    /\ fetches[f].waiters # {} /\ Startup \notin fetches[f].waiters
    /\ Rejected(f)
    /\ fetches' = [fetches EXCEPT ![f] = None]
    /\ inflight' = None
    /\ UNCHANGED <<server, process, current>>

\* A failure during startup: start() throws before the server is bound.
StartupFails(f) ==
    /\ Failing(f)
    /\ Startup \in fetches[f].waiters
    /\ Dies
    /\ UNCHANGED server

\* A failure that nobody awaits is an unhandled rejection: the process exits.
BackgroundFails(f) ==
    /\ Failing(f)
    /\ fetches[f].waiters = {}
    /\ Dies
    /\ UNCHANGED server

-----------------------------------------------------------------------------
(* The answer; the process; the key server; time.                          *)

\* authenticate() is done.
Respond(r) ==
    /\ request[r].step \in {"admitted", "denied"}
    /\ request' = [request EXCEPT ![r] = IdleRequest]
    /\ UNCHANGED <<server, process, current, fetches, inflight>>

\* start(): readiness() awaits the first keys before the server is bound.
Start ==
    /\ process = "stopped"
    /\ process' = "starting"
    /\ \E f \in Fetches : Launch(f, {Startup})
    /\ UNCHANGED <<server, current, request>>

\* The team rotates or withdraws keys; a withdrawn key does not come back.
Publish ==
    /\ published.version < MaxVersion
    /\ \E keys \in (SUBSET (Keys \ published.withdrawn)) \ {{}} :
         /\ keys # published.keys
         /\ published' = [version   |-> published.version + 1,
                          keys      |-> keys,
                          withdrawn |-> published.withdrawn \union (published.keys \ keys)]
    /\ UNCHANGED <<gone, provider, process, current, fetches, inflight, request>>

Outage ==
    /\ provider' \in {"answers", "refuses", "hangs"} \ {provider}
    /\ UNCHANGED <<published, gone, process, current, fetches, inflight, request>>

\* Time passes, but not past the deadline of a fetch.
Tick ==
    /\ \A f \in Fetches : fetches[f] # None => fetches[f].age < TimeoutTicks
    /\ gone' = [k \in Keys |-> IF k \in published.withdrawn THEN Older(gone[k], GoneCap) ELSE gone[k]]
    /\ current' = IF current = None THEN None ELSE [current EXCEPT !.age = Older(@, AgeCap)]
    /\ fetches' = [f \in Fetches |->
         IF fetches[f] = None THEN None ELSE [fetches[f] EXCEPT !.age = @ + 1]]
    /\ UNCHANGED <<published, provider, process, inflight, request>>

-----------------------------------------------------------------------------
Init ==
    /\ \E keys \in (SUBSET Keys) \ {{}} :
         published = [version |-> 0, keys |-> keys, withdrawn |-> {}]
    /\ gone = [k \in Keys |-> 0]
    /\ provider = "answers"
    /\ process = "stopped"
    /\ current = None
    /\ fetches = [f \in Fetches |-> None]
    /\ inflight = None
    /\ request = [r \in Requests |-> IdleRequest]

Next ==
    \/ \E r \in Requests, k \in Keys : GetFresh(r, k) \/ GetStale(r, k) \/ GetMissing(r, k)
    \/ \E r \in Requests : Respond(r)
    \/ \E f \in Fetches :
         \/ FetchAnswered(f) \/ FetchLands(f)
         \/ FetchFails(f) \/ StartupFails(f) \/ BackgroundFails(f)
    \/ Start \/ Publish \/ Outage \/ Tick

Spec == Init /\ [][Next]_vars

\* Time passes, a fetch that has its answer lands, a fetch that can be answered
\* or fail does one of them (strongly fair: the key server does not change its
\* mind for ever between two ticks), and an answer is sent.
FairSpec ==
    /\ Spec
    /\ WF_vars(Tick)
    /\ \A f \in Fetches :
         /\ WF_vars(FetchLands(f))
         /\ SF_vars(FetchAnswered(f)) /\ SF_vars(FetchFails(f))
    /\ \A r \in Requests : WF_vars(Respond(r))

-----------------------------------------------------------------------------
(* Properties.                                                             *)

\* The type invariant.
JwksTypeOK ==
    /\ published \in Documents
    /\ gone \in [Keys -> 0 .. GoneCap]
    /\ provider \in {"answers", "refuses", "hangs"}
    /\ process \in {"stopped", "starting", "serving"}
    /\ current \in Cached \union {None}
    /\ fetches \in [Fetches -> Flights \union {None}]
    /\ inflight \in Fetches \union {None}
    /\ request \in [Requests -> {IdleRequest}
         \union [step : {"waiting", "admitted", "denied"}, key : Keys]]

\* get() starts a refresh only when none is under way: inflight is the one
\* fetch there is, and nothing of it outlives the process.
SingleFlight ==
    /\ \A f \in Fetches : fetches[f] # None => inflight = f
    /\ inflight # None => fetches[inflight] # None
    /\ process = "stopped" => inflight = None

\* Those who wait and those whom the fetch under way owes its result are the
\* same: nobody is answered twice, and nobody waits for a promise that is gone.
WaitersWait ==
    /\ \A f \in Fetches : fetches[f] # None =>
         /\ \A r \in fetches[f].waiters \ {Startup} : request[r].step = "waiting"
         /\ Startup \in fetches[f].waiters => process = "starting"
    /\ \A r \in Requests : request[r].step = "waiting" =>
         inflight # None /\ r \in fetches[inflight].waiters
    /\ process = "starting" => inflight # None /\ Startup \in fetches[inflight].waiters

\* The key server: what is published is not withdrawn, and only what is
\* withdrawn has been gone for a while.
ServerInv ==
    /\ published.keys \intersect published.withdrawn = {}
    /\ \A k \in Keys \ published.withdrawn : gone[k] = 0

\* What the gateway holds lags behind the key server by no more than its age
\* says, and an answer on its way is no older than what the cache holds.
LagBounded ==
    /\ current # None =>
         /\ current.doc.version =< published.version
         /\ \A k \in current.doc.keys : gone[k] =< current.age + TimeoutTicks
    /\ \A f \in Fetches : fetches[f] # None /\ fetches[f].doc # None =>
         /\ fetches[f].doc.version =< published.version
         /\ \A k \in fetches[f].doc.keys : gone[k] =< fetches[f].age
         /\ current # None => current.doc.version =< fetches[f].doc.version

\* The inductive invariant: one fetch at a time, and a bounded lag.
JwksInv == JwksTypeOK /\ SingleFlight /\ WaitersWait /\ ServerInv /\ LagBounded

\* A key is accepted at most AcceptanceBound after the team withdrew it, from
\* whatever mix of fresh, stale and joined fetches the request was served
\* (SECURITY.md: a short stale window, then authentication fails closed).
WithdrawnKeysExpire ==
    [][\A r \in Requests :
         request[r].step # "admitted" /\ request'[r].step = "admitted"
           => gone[request'[r].key] =< AcceptanceBound]_vars

\* A later document never gives way to an earlier one: a key that the cache
\* has seen withdrawn is not brought back by a slow answer.
NoRollback ==
    [][current # None /\ current' # None
         => current'.doc.version >= current.doc.version]_vars

\* Every request that awaits keys is answered, even if the key server hangs.
RequestsAnswered == \A r \in Requests : request[r].step = "waiting" ~> request[r].step # "waiting"

\* An outage leaves no trace: once the key server answers for good and the
\* process stays up, a key that stays published is again and again in the
\* cache as long as requests keep coming.
Held(k) == current # None /\ k \in current.doc.keys

KeysPickedUp ==
    \A k \in Keys :
      /\ <>[](provider = "answers" /\ process = "serving" /\ k \in published.keys)
      /\ []<>(\E r \in Requests : request[r] # IdleRequest)
      => []<>Held(k)

\* SECURITY.md: a short stale window may reuse last-known-good keys.  An outage
\* does not take the gateway down while it has such keys.
StaleKeysReused == [][Within(FreshTicks + StaleTicks) => process' # "stopped"]_vars
=============================================================================
