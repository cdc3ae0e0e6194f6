--------------------------- MODULE JwksCache_proofs ---------------------------
(***************************************************************************)
(* Proofs about JwksCache, for every number of keys, requests and fetches  *)
(* and every length of the windows: JwksInv is inductive, whoever waits is *)
(* owed an answer by the fetch under way, a withdrawn key expires, and the *)
(* cache never goes back to an earlier document.                           *)
(***************************************************************************)
EXTENDS JwksCache, TLAPS

\* The records that look alike are told apart by their fields.
LEMMA NoneIsNothing ==
    /\ None \notin Cached /\ None \notin Flights /\ None \notin Documents
    /\ IdleRequest \notin [step : {"waiting", "admitted", "denied"}, key : Keys]
  BY Zenon DEF None, Cached, Flights, Documents, IdleRequest

LEMMA Caps ==
    /\ AgeCap \in Nat /\ GoneCap \in Nat /\ TimeoutTicks \in Nat
    /\ FreshTicks \in Nat /\ StaleTicks \in Nat /\ MaxVersion \in Nat
    /\ AgeCap = FreshTicks + StaleTicks + 1 /\ GoneCap = AgeCap + TimeoutTicks
    /\ Startup \notin Requests /\ None \notin Fetches
  BY JwksAssumption DEF AgeCap, GoneCap

LEMMA InitHolds == Init => JwksInv
<1> SUFFICES ASSUME Init PROVE JwksInv
  OBVIOUS
<1> USE Caps, NoneIsNothing
<1>1. PICK keys \in (SUBSET Keys) \ {{}} :
        published = [version |-> 0, keys |-> keys, withdrawn |-> {}]
  BY DEF Init
<1>2. published \in Documents
  BY <1>1 DEF Documents
<1>3. JwksTypeOK
  BY <1>2 DEF Init, JwksTypeOK
<1>4. SingleFlight /\ WaitersWait /\ LagBounded
  BY DEF Init, SingleFlight, WaitersWait, LagBounded, IdleRequest
<1>5. ServerInv
  BY <1>1 DEF Init, ServerInv
<1> QED BY <1>3, <1>4, <1>5 DEF JwksInv

\* A fetch is started when none is under way, so it is the only one.
LEMMA LaunchHolds ==
    ASSUME JwksInv, NEW f \in Fetches, NEW waiters \in SUBSET (Requests \union {Startup}),
           inflight = None, Launch(f, waiters)
    PROVE  /\ fetches' \in [Fetches -> Flights \union {None}]
           /\ inflight' \in Fetches \union {None}
           /\ fetches'[f] # None /\ fetches'[f].waiters = waiters /\ fetches'[f].doc = None
           /\ \A g \in Fetches : fetches'[g] # None => g = f
           /\ inflight' = f
<1> USE Caps, NoneIsNothing DEF JwksInv
<1>1. fetches' = [fetches EXCEPT ![f] = [age |-> 0, doc |-> None, waiters |-> waiters]] /\ inflight' = f
  BY DEF Launch
<1>2. [age |-> 0, doc |-> None, waiters |-> waiters] \in Flights
  BY DEF Flights
<1>3. fetches \in [Fetches -> Flights \union {None}]
  BY DEF JwksTypeOK
<1>4. \A g \in Fetches : fetches[g] = None
  BY DEF SingleFlight
<1> QED BY <1>1, <1>2, <1>3, <1>4

LEMMA VerdictType ==
    ASSUME NEW k \in Keys, NEW doc
    PROVE  Verdict(k, doc) \in [step : {"waiting", "admitted", "denied"}, key : Keys]
  BY DEF Verdict

LEMMA GetFreshHolds ==
    ASSUME JwksInv, NEW r \in Requests, NEW k \in Keys, GetFresh(r, k)
    PROVE  JwksInv'
<1> USE Caps, NoneIsNothing, VerdictType DEF JwksInv, GetFresh, server
<1>1. JwksTypeOK'
  BY DEF JwksTypeOK
<1>2. SingleFlight' /\ ServerInv' /\ LagBounded'
  BY DEF SingleFlight, ServerInv, LagBounded
<1>3. WaitersWait'
  BY DEF WaitersWait, JwksTypeOK, IdleRequest, Verdict
<1> QED BY <1>1, <1>2, <1>3

LEMMA GetStaleHolds ==
    ASSUME JwksInv, NEW r \in Requests, NEW k \in Keys, GetStale(r, k)
    PROVE  JwksInv'
<1> USE Caps, NoneIsNothing, VerdictType DEF JwksInv
<1>0. /\ request[r] = IdleRequest /\ process = "serving"
      /\ request' = [request EXCEPT ![r] = Verdict(k, current.doc)]
      /\ UNCHANGED <<published, gone, provider, process, current>>
  BY DEF GetStale, server
<1>a. CASE inflight = None
  <2>1. PICK f \in Fetches : Launch(f, {})
    BY <1>a DEF GetStale
  <2>2. /\ fetches' \in [Fetches -> Flights \union {None}]
        /\ inflight' \in Fetches \union {None}
        /\ fetches'[f] # None /\ fetches'[f].waiters = {} /\ fetches'[f].doc = None
        /\ \A g \in Fetches : fetches'[g] # None => g = f
        /\ inflight' = f
    BY <2>1, <1>a, LaunchHolds, Zenon
  <2>3. JwksTypeOK'
    BY <1>0, <2>2 DEF JwksTypeOK
  <2>4. SingleFlight'
    BY <1>0, <2>2 DEF SingleFlight
  <2>5. ServerInv' /\ LagBounded'
    BY <1>0, <2>2 DEF ServerInv, LagBounded
  <2>6. \A q \in Requests : request'[q].step # "waiting"
    BY <1>a, <1>0 DEF WaitersWait, JwksTypeOK, Verdict
  <2>7. WaitersWait'
    BY <1>0, <2>2, <2>6 DEF WaitersWait
  <2> QED BY <2>3, <2>4, <2>5, <2>7
<1>b. CASE inflight # None
  <2>1. UNCHANGED <<fetches, inflight>>
    BY <1>b DEF GetStale
  <2>3. JwksTypeOK'
    BY <1>0, <2>1 DEF JwksTypeOK
  <2>4. SingleFlight' /\ ServerInv' /\ LagBounded'
    BY <1>0, <2>1 DEF SingleFlight, ServerInv, LagBounded
  <2>5. WaitersWait'
    BY <1>0, <2>1 DEF WaitersWait, JwksTypeOK, IdleRequest, Verdict
  <2> QED BY <2>3, <2>4, <2>5
<1> QED BY <1>a, <1>b

LEMMA GetMissingHolds ==
    ASSUME JwksInv, NEW r \in Requests, NEW k \in Keys, GetMissing(r, k)
    PROVE  JwksInv'
<1> USE Caps, NoneIsNothing DEF JwksInv
<1>0. /\ request[r] = IdleRequest /\ process = "serving" /\ current' = None
      /\ request' = [request EXCEPT ![r] = [step |-> "waiting", key |-> k]]
      /\ UNCHANGED <<published, gone, provider, process>>
  BY DEF GetMissing, server
<1>1. request' \in [Requests -> {IdleRequest} \union [step : {"waiting", "admitted", "denied"}, key : Keys]]
  BY <1>0 DEF JwksTypeOK
<1>2. request'[r].step = "waiting"
  BY <1>0 DEF JwksTypeOK
<1>3. ServerInv'
  BY <1>0 DEF ServerInv
<1>a. CASE inflight = None
  <2>1. PICK f \in Fetches : Launch(f, {r})
    BY <1>a DEF GetMissing
  <2>2. /\ fetches' \in [Fetches -> Flights \union {None}]
        /\ inflight' \in Fetches \union {None}
        /\ fetches'[f] # None /\ fetches'[f].waiters = {r} /\ fetches'[f].doc = None
        /\ \A g \in Fetches : fetches'[g] # None => g = f
        /\ inflight' = f
    BY <2>1, <1>a, LaunchHolds, Zenon
  <2>3. JwksTypeOK'
    BY <1>0, <1>1, <2>2 DEF JwksTypeOK
  <2>4. SingleFlight' /\ WaitersWait'
    <3>1. \A q \in Requests : request'[q].step = "waiting" => q = r
      BY <1>a, <1>0 DEF WaitersWait, JwksTypeOK
    <3> QED BY <1>0, <1>2, <2>2, <3>1 DEF SingleFlight, WaitersWait
  <2>5. LagBounded'
    BY <1>0, <2>2 DEF LagBounded
  <2> QED BY <1>3, <2>3, <2>4, <2>5
<1>b. CASE inflight # None
  <2>1. inflight' = inflight /\ inflight \in Fetches /\ fetches[inflight] \in Flights
    BY <1>b DEF GetMissing, JwksTypeOK, SingleFlight
  <2>2. fetches' = [fetches EXCEPT ![inflight].waiters = @ \union {r}]
    BY <1>b DEF GetMissing, Join
  <2>3. \A f \in Fetches :
          /\ fetches[f] = None => fetches'[f] = None
          /\ fetches[f] # None =>
               /\ fetches'[f] # None /\ fetches'[f] \in Flights
               /\ fetches'[f].doc = fetches[f].doc /\ fetches'[f].age = fetches[f].age
               /\ fetches'[f].waiters = fetches[f].waiters \union {r}
    BY <2>1, <2>2 DEF JwksTypeOK, Flights, SingleFlight
  <2>4. JwksTypeOK'
    <3>1. fetches' \in [Fetches -> Flights \union {None}]
      BY <2>2, <2>3 DEF JwksTypeOK
    <3> QED BY <1>0, <1>1, <2>1, <3>1 DEF JwksTypeOK
  <2>5. SingleFlight'
    BY <1>0, <2>1, <2>3 DEF SingleFlight
  <2>6. WaitersWait'
    <3>1. \A q \in Requests \ {r} : request'[q] = request[q]
      BY <1>0
    <3>2. fetches[inflight] # None
      BY <1>b DEF SingleFlight
    <3> QED BY <1>0, <1>2, <2>1, <2>3, <3>1, <3>2 DEF WaitersWait
  <2>7. LagBounded'
    BY <1>0, <2>3 DEF LagBounded
  <2> QED BY <1>3, <2>4, <2>5, <2>6, <2>7
<1> QED BY <1>a, <1>b

LEMMA FetchAnsweredHolds ==
    ASSUME JwksInv, NEW f \in Fetches, FetchAnswered(f)
    PROVE  JwksInv'
<1> USE Caps, NoneIsNothing DEF JwksInv
<1>0. /\ fetches[f] # None /\ fetches[f].doc = None
      /\ fetches' = [fetches EXCEPT ![f].doc = published]
      /\ UNCHANGED <<published, gone, provider, process, current, inflight, request>>
  BY DEF FetchAnswered, server
<1>1. fetches[f] \in Flights /\ published \in Documents
  BY <1>0 DEF JwksTypeOK
<1>2. /\ fetches'[f] \in Flights /\ fetches'[f] # None
      /\ fetches'[f].doc = published
      /\ fetches'[f].waiters = fetches[f].waiters /\ fetches'[f].age = fetches[f].age
      /\ \A g \in Fetches \ {f} : fetches'[g] = fetches[g]
  BY <1>0, <1>1 DEF JwksTypeOK, Flights
<1>3. JwksTypeOK'
  <2>1. fetches' \in [Fetches -> Flights \union {None}]
    BY <1>0, <1>2 DEF JwksTypeOK
  <2> QED BY <1>0, <2>1 DEF JwksTypeOK
<1>4. SingleFlight' /\ WaitersWait' /\ ServerInv'
  BY <1>0, <1>2 DEF SingleFlight, WaitersWait, ServerInv
<1>5. LagBounded'
  <2>1. \A k \in published.keys : gone[k] = 0
    BY <1>1 DEF ServerInv, Documents
  <2>2. fetches[f].age \in Nat /\ published.version \in Nat
    BY <1>1 DEF Flights, Documents
  <2> QED BY <1>0, <1>2, <2>1, <2>2 DEF LagBounded
<1> QED BY <1>3, <1>4, <1>5

LEMMA FetchLandsHolds ==
    ASSUME JwksInv, NEW f \in Fetches, FetchLands(f)
    PROVE  JwksInv'
<1> USE Caps, NoneIsNothing DEF JwksInv
<1>0. /\ fetches[f] # None /\ fetches[f].doc # None
      /\ current' = [doc |-> fetches[f].doc, age |-> 0]
      /\ fetches' = [fetches EXCEPT ![f] = None] /\ inflight' = None
      /\ process' = IF Startup \in fetches[f].waiters THEN "serving" ELSE process
      /\ UNCHANGED <<published, gone, provider>>
  BY DEF FetchLands, server
<1>1. fetches[f] \in Flights /\ fetches[f].doc \in Documents /\ fetches[f].age \in 0 .. TimeoutTicks
  BY <1>0 DEF JwksTypeOK, Flights
<1>2. \A g \in Fetches : fetches'[g] = None
  BY <1>0 DEF SingleFlight, JwksTypeOK
<1>3. request' \in [Requests -> {IdleRequest} \union [step : {"waiting", "admitted", "denied"}, key : Keys]]
  <2> SUFFICES ASSUME NEW r \in Requests
               PROVE  request'[r] \in {IdleRequest} \union [step : {"waiting", "admitted", "denied"}, key : Keys]
    BY DEF FetchLands
  <2>1. CASE r \in fetches[f].waiters
    <3>1. request[r].step = "waiting"
      BY <1>0, <2>1 DEF WaitersWait
    <3>2. request[r].key \in Keys
      BY <3>1 DEF JwksTypeOK, IdleRequest
    <3> QED BY <2>1, <3>2, VerdictType DEF FetchLands
  <2>2. CASE r \notin fetches[f].waiters
    BY <2>2 DEF FetchLands, JwksTypeOK
  <2> QED BY <2>1, <2>2
<1>4. JwksTypeOK'
  <2>1. current' \in Cached
    BY <1>0, <1>1 DEF Cached
  <2>2. fetches' \in [Fetches -> Flights \union {None}]
    BY <1>0 DEF JwksTypeOK
  <2> QED BY <1>0, <1>3, <2>1, <2>2 DEF JwksTypeOK
<1>5. SingleFlight' /\ WaitersWait' /\ ServerInv'
  <2>1. inflight = f
    BY <1>0 DEF SingleFlight
  <2>2. \A r \in Requests : request'[r].step # "waiting"
    BY <2>1 DEF FetchLands, WaitersWait, Verdict
  <2>3. process' # "starting"
    BY <1>0, <2>1 DEF WaitersWait
  <2>4. SingleFlight' /\ ServerInv'
    BY <1>0, <1>2 DEF SingleFlight, ServerInv
  <2> QED BY <1>2, <2>2, <2>3, <2>4 DEF WaitersWait
<1>6. LagBounded'
  <2>1. \A k \in fetches[f].doc.keys : gone[k] =< 0 + TimeoutTicks
    <3> SUFFICES ASSUME NEW k \in fetches[f].doc.keys PROVE gone[k] =< TimeoutTicks
      OBVIOUS
    <3>1. k \in Keys /\ gone[k] \in Nat
      BY <1>1 DEF Documents, JwksTypeOK
    <3>2. gone[k] =< fetches[f].age
      BY <1>0 DEF LagBounded
    <3> QED BY <1>1, <3>1, <3>2
  <2>2. fetches[f].doc.version =< published.version
    BY <1>0 DEF LagBounded
  <2> QED BY <1>0, <1>2, <2>1, <2>2 DEF LagBounded
<1> QED BY <1>4, <1>5, <1>6

LEMMA FetchFailsHolds ==
    ASSUME JwksInv, NEW f \in Fetches, FetchFails(f)
    PROVE  JwksInv'
<1> USE Caps, NoneIsNothing DEF JwksInv
<1>0. /\ fetches[f] # None
      /\ fetches' = [fetches EXCEPT ![f] = None] /\ inflight' = None
      /\ UNCHANGED <<published, gone, provider, process, current>>
  BY DEF FetchFails, Failing, server
<1>2. \A g \in Fetches : fetches'[g] = None
  BY <1>0 DEF SingleFlight, JwksTypeOK
<1>3. request' \in [Requests -> {IdleRequest} \union [step : {"waiting", "admitted", "denied"}, key : Keys]]
  <2> SUFFICES ASSUME NEW r \in Requests
               PROVE  request'[r] \in {IdleRequest} \union [step : {"waiting", "admitted", "denied"}, key : Keys]
    BY DEF FetchFails, Rejected
  <2>1. CASE r \in fetches[f].waiters
    <3>1. request[r].step = "waiting"
      BY <1>0, <2>1 DEF WaitersWait
    <3>2. request[r].key \in Keys
      BY <3>1 DEF JwksTypeOK, IdleRequest
    <3> QED BY <2>1, <3>2 DEF FetchFails, Rejected
  <2>2. CASE r \notin fetches[f].waiters
    BY <2>2 DEF FetchFails, Rejected, JwksTypeOK
  <2> QED BY <2>1, <2>2
<1>4. JwksTypeOK'
  <2>2. fetches' \in [Fetches -> Flights \union {None}]
    BY <1>0 DEF JwksTypeOK
  <2> QED BY <1>0, <1>3, <2>2 DEF JwksTypeOK
<1>5. SingleFlight' /\ ServerInv' /\ LagBounded'
  BY <1>0, <1>2 DEF SingleFlight, ServerInv, LagBounded
<1>6. WaitersWait'
  <2>1. inflight = f
    BY <1>0 DEF SingleFlight
  <2>2. \A r \in Requests : request'[r].step # "waiting"
    BY <2>1 DEF FetchFails, Rejected, WaitersWait
  <2>3. process' # "starting"
    BY <1>0, <2>1 DEF FetchFails, WaitersWait
  <2> QED BY <1>2, <2>2, <2>3 DEF WaitersWait
<1> QED BY <1>4, <1>5, <1>6

LEMMA DiesHolds ==
    ASSUME JwksInv, Dies, UNCHANGED server
    PROVE  JwksInv'
<1> USE Caps, NoneIsNothing DEF JwksInv, Dies, server
<1>1. JwksTypeOK'
  BY DEF JwksTypeOK
<1>2. SingleFlight' /\ WaitersWait' /\ ServerInv' /\ LagBounded'
  BY DEF SingleFlight, WaitersWait, ServerInv, LagBounded, IdleRequest
<1> QED BY <1>1, <1>2

LEMMA RespondHolds ==
    ASSUME JwksInv, NEW r \in Requests, Respond(r)
    PROVE  JwksInv'
<1> USE Caps, NoneIsNothing DEF JwksInv, Respond, server
<1>1. JwksTypeOK'
  BY DEF JwksTypeOK
<1>2. SingleFlight' /\ ServerInv' /\ LagBounded'
  BY DEF SingleFlight, ServerInv, LagBounded
<1>3. WaitersWait'
  BY DEF WaitersWait, JwksTypeOK, IdleRequest
<1> QED BY <1>1, <1>2, <1>3

LEMMA StartHolds ==
    ASSUME JwksInv, Start
    PROVE  JwksInv'
<1> USE Caps, NoneIsNothing DEF JwksInv
<1>0. /\ process = "stopped" /\ process' = "starting"
      /\ UNCHANGED <<published, gone, provider, current, request>>
  BY DEF Start, server
<1>1. PICK f \in Fetches : Launch(f, {Startup})
  BY DEF Start
<1>2. inflight = None
  BY <1>0 DEF SingleFlight
<1>3. /\ fetches' \in [Fetches -> Flights \union {None}]
      /\ inflight' \in Fetches \union {None}
      /\ fetches'[f] # None /\ fetches'[f].waiters = {Startup} /\ fetches'[f].doc = None
      /\ \A g \in Fetches : fetches'[g] # None => g = f
      /\ inflight' = f
  BY <1>1, <1>2, LaunchHolds, Zenon
<1>4. JwksTypeOK'
  BY <1>0, <1>3 DEF JwksTypeOK
<1>5. SingleFlight' /\ WaitersWait' /\ ServerInv' /\ LagBounded'
  BY <1>0, <1>3 DEF SingleFlight, WaitersWait, ServerInv, LagBounded
<1> QED BY <1>4, <1>5

LEMMA PublishHolds ==
    ASSUME JwksInv, Publish
    PROVE  JwksInv'
<1> USE Caps, NoneIsNothing DEF JwksInv
<1>0. /\ published.version < MaxVersion
      /\ UNCHANGED <<gone, provider, process, current, fetches, inflight, request>>
  BY DEF Publish
<1>1. PICK keys \in (SUBSET (Keys \ published.withdrawn)) \ {{}} :
        published' = [version   |-> published.version + 1,
                      keys      |-> keys,
                      withdrawn |-> published.withdrawn \union (published.keys \ keys)]
  BY DEF Publish
<1>2. published \in Documents
  BY DEF JwksTypeOK
<1>3. published.version \in 0 .. MaxVersion /\ published.keys \subseteq Keys /\ published.withdrawn \subseteq Keys
  BY <1>2 DEF Documents
<1>4. published' \in Documents
  BY <1>0, <1>1, <1>3 DEF Documents
<1>5. JwksTypeOK'
  BY <1>0, <1>4 DEF JwksTypeOK
<1>6. SingleFlight' /\ WaitersWait'
  BY <1>0 DEF SingleFlight, WaitersWait
<1>7. ServerInv'
  BY <1>0, <1>1, <1>3 DEF ServerInv
<1>8. LagBounded'
  <2>1. published'.version = published.version + 1
    BY <1>1
  <2>2. current # None => current.doc.version \in Nat
    BY DEF JwksTypeOK, Cached, Documents
  <2>3. \A f \in Fetches : fetches[f] # None /\ fetches[f].doc # None => fetches[f].doc.version \in Nat
    BY DEF JwksTypeOK, Flights, Documents
  <2> QED BY <1>0, <1>3, <2>1, <2>2, <2>3 DEF LagBounded
<1> QED BY <1>5, <1>6, <1>7, <1>8

LEMMA OutageHolds ==
    ASSUME JwksInv, Outage
    PROVE  JwksInv'
<1> USE DEF JwksInv, Outage
<1>1. JwksTypeOK'
  BY DEF JwksTypeOK
<1>2. SingleFlight' /\ WaitersWait' /\ ServerInv' /\ LagBounded'
  BY DEF SingleFlight, WaitersWait, ServerInv, LagBounded
<1> QED BY <1>1, <1>2

LEMMA TickHolds ==
    ASSUME JwksInv, Tick
    PROVE  JwksInv'
<1> USE Caps, NoneIsNothing DEF JwksInv
<1>0. /\ \A f \in Fetches : fetches[f] # None => fetches[f].age < TimeoutTicks
      /\ gone' = [k \in Keys |-> IF k \in published.withdrawn THEN Older(gone[k], GoneCap) ELSE gone[k]]
      /\ current' = IF current = None THEN None ELSE [current EXCEPT !.age = Older(@, AgeCap)]
      /\ fetches' = [f \in Fetches |->
           IF fetches[f] = None THEN None ELSE [fetches[f] EXCEPT !.age = @ + 1]]
      /\ UNCHANGED <<published, provider, process, inflight, request>>
  BY DEF Tick
<1>1. \A k \in Keys : gone'[k] \in 0 .. GoneCap /\ gone'[k] =< gone[k] + 1
                      /\ (k \notin published.withdrawn => gone'[k] = gone[k])
  BY <1>0 DEF JwksTypeOK, Older
<1>2. \A f \in Fetches :
        /\ fetches[f] = None => fetches'[f] = None
        /\ fetches[f] # None =>
             /\ fetches'[f] # None /\ fetches'[f] \in Flights
             /\ fetches'[f].doc = fetches[f].doc /\ fetches'[f].waiters = fetches[f].waiters
             /\ fetches[f].age \in Nat /\ fetches'[f].age = fetches[f].age + 1
  BY <1>0 DEF JwksTypeOK, Flights
<1>3. /\ current = None <=> current' = None
      /\ current # None =>
           /\ current' \in Cached /\ current'.doc = current.doc /\ current.age \in 0 .. AgeCap
           /\ current'.age = Older(current.age, AgeCap)
  BY <1>0 DEF JwksTypeOK, Cached, Older
<1>4. JwksTypeOK'
  <2>1. gone' \in [Keys -> 0 .. GoneCap]
    BY <1>0, <1>1
  <2>2. fetches' \in [Fetches -> Flights \union {None}]
    BY <1>0, <1>2
  <2>3. current' \in Cached \union {None}
    BY <1>3
  <2> QED BY <1>0, <2>1, <2>2, <2>3 DEF JwksTypeOK
<1>5. SingleFlight'
  BY <1>0, <1>2 DEF SingleFlight, JwksTypeOK
<1>6. WaitersWait'
  BY <1>0, <1>2 DEF WaitersWait, SingleFlight, JwksTypeOK
<1>7. ServerInv'
  BY <1>0, <1>1 DEF ServerInv
<1>8. LagBounded'
  <2>1. ASSUME current' # None
        PROVE  /\ current'.doc.version =< published'.version
               /\ \A k \in current'.doc.keys : gone'[k] =< current'.age + TimeoutTicks
    <3>1. current # None /\ current'.doc = current.doc
      BY <1>3, <2>1
    <3>2. current.doc.version =< published.version
      BY <3>1 DEF LagBounded
    <3>3. ASSUME NEW k \in current.doc.keys PROVE gone'[k] =< current'.age + TimeoutTicks
      <4>1. k \in Keys
        BY <3>1, <3>3 DEF JwksTypeOK, Cached, Documents
      <4>2. gone[k] =< current.age + TimeoutTicks /\ gone[k] \in Nat
        BY <3>1, <3>3, <4>1 DEF LagBounded, JwksTypeOK
      <4>3. gone'[k] \in Nat /\ gone'[k] =< GoneCap /\ gone'[k] =< gone[k] + 1
        BY <1>1, <4>1
      <4> QED BY <1>3, <3>1, <4>2, <4>3 DEF Older
    <3> QED BY <1>0, <3>1, <3>2, <3>3
  <2>2. ASSUME NEW f \in Fetches, fetches'[f] # None, fetches'[f].doc # None
        PROVE  /\ fetches'[f].doc.version =< published'.version
               /\ \A k \in fetches'[f].doc.keys : gone'[k] =< fetches'[f].age
               /\ current' # None => current'.doc.version =< fetches'[f].doc.version
    <3>1. fetches[f] # None /\ fetches[f].doc # None /\ fetches'[f].doc = fetches[f].doc
      BY <1>2, <2>2
    <3>2. fetches[f].doc.version =< published.version
      BY <3>1 DEF LagBounded
    <3>3. ASSUME NEW k \in fetches[f].doc.keys PROVE gone'[k] =< fetches'[f].age
      <4>1. k \in Keys
        BY <3>1, <3>3 DEF JwksTypeOK, Flights, Documents
      <4>2. gone[k] =< fetches[f].age /\ gone[k] \in Nat
        BY <3>1, <3>3, <4>1 DEF LagBounded, JwksTypeOK
      <4>3. gone'[k] \in Nat /\ gone'[k] =< gone[k] + 1
        BY <1>1, <4>1
      <4> QED BY <1>2, <3>1, <4>2, <4>3
    <3>4. current' # None => current'.doc.version =< fetches[f].doc.version
      BY <1>3, <3>1 DEF LagBounded
    <3> QED BY <1>0, <3>1, <3>2, <3>3, <3>4
  <2> QED BY <2>1, <2>2 DEF LagBounded
<1> QED BY <1>4, <1>5, <1>6, <1>7, <1>8

LEMMA StutterHolds ==
    ASSUME JwksInv, UNCHANGED vars
    PROVE  JwksInv'
  BY DEF vars, JwksInv, JwksTypeOK, SingleFlight, WaitersWait, ServerInv, LagBounded

\* Whatever keys the team publishes and whenever its server fails, at most one
\* fetch is under way, it owes its result to exactly the requests that wait, and
\* the cache lags by no more than its age says (createJwksCache, src/auth/jwks.mjs).
THEOREM JwksInvariant == Spec => []JwksInv
<1>1. ASSUME JwksInv, Next PROVE JwksInv'
  <2>1. ASSUME NEW r \in Requests, NEW k \in Keys, GetFresh(r, k) \/ GetStale(r, k) \/ GetMissing(r, k)
        PROVE  JwksInv'
    BY <1>1, <2>1, GetFreshHolds, GetStaleHolds, GetMissingHolds, Zenon
  <2>2. ASSUME NEW r \in Requests, Respond(r) PROVE JwksInv'
    BY <1>1, <2>2, RespondHolds, Zenon
  <2>3. ASSUME NEW f \in Fetches, FetchAnswered(f) \/ FetchLands(f) \/ FetchFails(f)
        PROVE  JwksInv'
    BY <1>1, <2>3, FetchAnsweredHolds, FetchLandsHolds, FetchFailsHolds, Zenon
  <2>4. ASSUME NEW f \in Fetches, StartupFails(f) \/ BackgroundFails(f)
        PROVE  JwksInv'
    BY <1>1, <2>4, DiesHolds, Zenon DEF StartupFails, BackgroundFails
  <2>5. ASSUME Start \/ Publish \/ Outage \/ Tick PROVE JwksInv'
    BY <1>1, <2>5, StartHolds, PublishHolds, OutageHolds, TickHolds, Zenon
  <2> QED BY <1>1, <2>1, <2>2, <2>3, <2>4, <2>5, Zenon DEF Next
<1>2. JwksInv /\ [Next]_vars => JwksInv'
  BY <1>1, StutterHolds, Zenon
<1> QED BY InitHolds, <1>2, PTL DEF Spec

\* A step that admits a request does so with a key the cache or the landing
\* fetch holds, and LagBounded says how long that key can have been gone.
LEMMA AdmittedInTime ==
    ASSUME JwksInv, Next, NEW r \in Requests,
           request[r].step # "admitted", request'[r].step = "admitted"
    PROVE  gone[request'[r].key] =< AcceptanceBound
<1> USE Caps, NoneIsNothing DEF JwksInv
<1>1. ASSUME NEW q \in Requests, NEW k \in Keys, GetFresh(q, k) \/ GetStale(q, k)
      PROVE  gone[request'[r].key] =< AcceptanceBound
  <2>1. /\ Within(FreshTicks + StaleTicks)
        /\ request' = [request EXCEPT ![q] = Verdict(k, current.doc)]
    BY <1>1 DEF GetFresh, GetStale, Within, JwksTypeOK, Cached
  <2>2. q = r
    BY <2>1 DEF JwksTypeOK
  <2>3. k \in current.doc.keys /\ request'[r].key = k
    BY <2>1, <2>2 DEF Verdict, JwksTypeOK
  <2>4. gone[k] =< current.age + TimeoutTicks /\ current.age \in Nat /\ gone[k] \in Nat
    BY <2>1, <2>3 DEF LagBounded, Within, JwksTypeOK, Cached
  <2> QED BY <2>1, <2>3, <2>4 DEF Within, AcceptanceBound
<1>2. ASSUME NEW f \in Fetches, FetchLands(f)
      PROVE  gone[request'[r].key] =< AcceptanceBound
  <2>1. fetches[f] # None /\ fetches[f].doc # None /\ fetches[f] \in Flights
    BY <1>2 DEF FetchLands, JwksTypeOK
  <2>2. r \in fetches[f].waiters /\ request'[r] = Verdict(request[r].key, fetches[f].doc)
    BY <1>2 DEF FetchLands
  <2>3. request[r].key \in fetches[f].doc.keys /\ request'[r].key = request[r].key
    BY <2>2 DEF Verdict
  <2>4. gone[request[r].key] =< fetches[f].age
    BY <2>1, <2>3 DEF LagBounded
  <2>5. fetches[f].age \in 0 .. TimeoutTicks /\ request[r].key \in Keys
    BY <2>1, <2>3 DEF Flights, Documents
  <2>6. gone[request[r].key] \in Nat
    BY <2>5 DEF JwksTypeOK
  <2> QED BY <2>3, <2>4, <2>5, <2>6 DEF AcceptanceBound
<1>3. ASSUME NEW q \in Requests, NEW k \in Keys, GetMissing(q, k) PROVE FALSE
  BY <1>3 DEF GetMissing, JwksTypeOK
<1>4. ASSUME NEW q \in Requests, Respond(q) PROVE FALSE
  BY <1>4 DEF Respond, JwksTypeOK, IdleRequest
<1>5. ASSUME NEW f \in Fetches, FetchFails(f) PROVE FALSE
  BY <1>5 DEF FetchFails, Rejected
<1>6. ASSUME NEW f \in Fetches, StartupFails(f) \/ BackgroundFails(f) PROVE FALSE
  BY <1>6 DEF StartupFails, BackgroundFails, Dies, IdleRequest
<1>7. ASSUME NEW f \in Fetches, FetchAnswered(f) PROVE FALSE
  BY <1>7 DEF FetchAnswered
<1>8. ASSUME Start \/ Publish \/ Outage \/ Tick PROVE FALSE
  BY <1>8 DEF Start, Publish, Outage, Tick
<1> QED BY <1>1, <1>2, <1>3, <1>4, <1>5, <1>6, <1>7, <1>8, Zenon DEF Next

\* Stale keys: a key is accepted at most the fresh window, the stale window and
\* one fetch timeout after the team withdrew it (SECURITY.md, signing keys).
THEOREM WithdrawnKeysAreRefused == Spec => WithdrawnKeysExpire
<1>1. JwksInv /\ [Next]_vars =>
        [\A r \in Requests :
           request[r].step # "admitted" /\ request'[r].step = "admitted"
             => gone[request'[r].key] =< AcceptanceBound]_vars
  BY AdmittedInTime, Zenon
<1> QED BY JwksInvariant, <1>1, PTL DEF Spec, WithdrawnKeysExpire

\* The landing fetch was answered after whatever the cache holds.
LEMMA ForwardOnly ==
    ASSUME JwksInv, Next, current # None, current' # None
    PROVE  current'.doc.version >= current.doc.version
<1> USE Caps, NoneIsNothing DEF JwksInv
<1>0. current.doc.version \in Nat
  BY DEF JwksTypeOK, Cached, Documents
<1>1. ASSUME NEW f \in Fetches, FetchLands(f)
      PROVE  current'.doc.version >= current.doc.version
  <2>1. /\ fetches[f] # None /\ fetches[f].doc # None
        /\ current'.doc = fetches[f].doc
    BY <1>1 DEF FetchLands
  <2>2. fetches[f].doc.version \in Nat
    BY <2>1 DEF JwksTypeOK, Flights, Documents
  <2>3. current.doc.version =< fetches[f].doc.version
    BY <2>1 DEF LagBounded
  <2> QED BY <1>0, <2>1, <2>2, <2>3
<1>2. ASSUME Tick PROVE current'.doc.version >= current.doc.version
  <2>1. current'.doc = current.doc
    BY <1>2 DEF Tick, JwksTypeOK, Cached
  <2> QED BY <1>0, <2>1
<1>3. ASSUME current' = current PROVE current'.doc.version >= current.doc.version
  BY <1>0, <1>3
<1>4. ASSUME NEW r \in Requests, NEW k \in Keys, GetFresh(r, k) \/ GetStale(r, k) \/ GetMissing(r, k)
      PROVE  current' = current
  BY <1>4 DEF GetFresh, GetStale, GetMissing
<1>5. ASSUME NEW r \in Requests, Respond(r) PROVE current' = current
  BY <1>5 DEF Respond
<1>6. ASSUME NEW f \in Fetches, FetchAnswered(f) \/ FetchFails(f) PROVE current' = current
  BY <1>6 DEF FetchAnswered, FetchFails
<1>7. ASSUME NEW f \in Fetches, StartupFails(f) \/ BackgroundFails(f) PROVE FALSE
  BY <1>7 DEF StartupFails, BackgroundFails, Dies
<1>8. ASSUME Start \/ Publish \/ Outage PROVE current' = current
  BY <1>8 DEF Start, Publish, Outage
<1> QED BY <1>1, <1>2, <1>3, <1>4, <1>5, <1>6, <1>7, <1>8, Zenon DEF Next

\* A slow answer never brings a withdrawn key back (the single flight of get()).
THEOREM CacheMovesForward == Spec => NoRollback
<1>1. JwksInv /\ [Next]_vars =>
        [current # None /\ current' # None
           => current'.doc.version >= current.doc.version]_vars
  BY ForwardOnly, Zenon
<1> QED BY JwksInvariant, <1>1, PTL DEF Spec, NoRollback
=============================================================================
