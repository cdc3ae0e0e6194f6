----------------------- MODULE GatewayCredential_proofs -----------------------
(***************************************************************************)
(* Proofs about gateway-credential authentication, for any number of       *)
(* requests, sessions and CLI processes: the gateway's inductive invariant *)
(* and, from it, that the module implements RevocableAccess, that a        *)
(* session that is gone stays gone, and that its lifetime is bounded.      *)
(* Its logins are throttled by LoginLimiter, which shares no state with it *)
(* and is proved about at the end, for any number of sources and attempts. *)
(***************************************************************************)
EXTENDS GatewayCredential, CredentialStore_proofs, LoginLimiter, FiniteSetTheorems

Inv == StoreInv /\ GatewayInv

\* The two "nothing" values differ from every session and request by a field.
LEMMA Distinct ==
    /\ \A s \in SessionRecord : s # NoSession /\ s.who \in Principals
    /\ \A q \in LoadingReq \union LoadedReq \union AdmittedReq : q # IdleReq /\ q.at # "idle"
    /\ IdleReq.at = "idle"
<1>1. \A s \in SessionRecord : s # NoSession
  <2> SUFFICES ASSUME NEW s \in SessionRecord, s = NoSession PROVE FALSE
    OBVIOUS
  <2>1. DOMAIN s = {"who", "createdAt", "lastSeenAt"}
    BY DEF SessionRecord
  <2>2. DOMAIN NoSession = {"who"}
    BY DEF NoSession
  <2> QED
    BY <2>1, <2>2
<1>2. \A s \in SessionRecord : s.who \in Principals
  BY DEF SessionRecord
<1>3. \A q \in LoadingReq \union LoadedReq \union AdmittedReq : q # IdleReq /\ q.at # "idle"
  BY DEF LoadingReq, LoadedReq, AdmittedReq, IdleReq
<1> QED
  BY <1>1, <1>2, <1>3 DEF IdleReq

\* What the type invariant says of a request at each point.
LEMMA ReqType ==
    ASSUME GatewayTypeOK, NEW r \in Requests
    PROVE  /\ req[r].at = "idle" <=> req[r] = IdleReq
           /\ req[r].at = "loading" => req[r] \in LoadingReq
           /\ req[r].at = "loaded" => req[r] \in LoadedReq
           /\ req[r].at = "admitted" => req[r] \in AdmittedReq
           /\ req[r].at \in {"idle", "loading", "loaded", "admitted"}
BY DEF GatewayTypeOK, IdleReq, LoadingReq, LoadedReq, AdmittedReq

\* What it says of a session in the table.
LEMMA SessionType ==
    ASSUME GatewayTypeOK, NEW s \in SessionIds, HasSession(s)
    PROVE  sessions[s] \in SessionRecord
BY DEF GatewayTypeOK, HasSession

LEMMA InitInv == Init => Inv
<1> SUFFICES ASSUME Init PROVE Inv
  OBVIOUS
<1>1. StoreInv
  BY StoreInitInv DEF Init
<1>2. GatewayTypeOK
  BY DEF Init, GatewayInit, GatewayTypeOK
<1>3. \A s \in SessionIds : ~HasSession(s)
  BY DEF Init, GatewayInit, HasSession
<1>4. SessionsGenuine /\ OnlyAllowlisted
  BY <1>3 DEF Init, GatewayInit, SessionsGenuine, OnlyAllowlisted, SignedIn, IdleReq
<1> QED
  BY <1>1, <1>2, <1>4 DEF Inv, GatewayInv

-----------------------------------------------------------------------------
(* The steps.  A step that only replaces one request's state, or also       *)
(* drops sessions, keeps the invariant if the new request state is sound.   *)

SoundReq(q) ==
    /\ q \in {IdleReq} \union LoadingReq \union LoadedReq \union AdmittedReq
    /\ q.at = "admitted" \/ (q.at # "idle" /\ q.kind = "access") => q.who \in Trusted

LEMMA ReplaceReq ==
    ASSUME GatewayInv, NEW r \in Requests, NEW q, SoundReq(q),
           req' = [req EXCEPT ![r] = q], now' = now, known' = known,
           NEW S \in SUBSET SessionIds, sessions' = Without(S)
    PROVE  GatewayInv'
<1>1. \A s \in SessionIds : sessions'[s] = IF s \in S THEN NoSession ELSE sessions[s]
  BY DEF Without
<1>2. GatewayTypeOK'
  BY <1>1 DEF GatewayInv, GatewayTypeOK, Without, SoundReq
<1>3. SessionsGenuine'
  BY <1>1 DEF GatewayInv, SessionsGenuine, HasSession
<1>4. SignedIn' \subseteq SignedIn
  BY <1>1 DEF SignedIn, HasSession
<1>5. OnlyAllowlisted'
  BY <1>4 DEF GatewayInv, GatewayTypeOK, OnlyAllowlisted, SoundReq
<1> QED
  BY <1>2, <1>3, <1>5 DEF GatewayInv

LEMMA SameSessions ==
    ASSUME GatewayTypeOK, sessions' = sessions
    PROVE  sessions' = Without({})
BY DEF GatewayTypeOK, Without

LEMMA TouchInv ==
    ASSUME GatewayInv, NEW r \in Requests, NEW s \in SessionIds, AuthenticateStart(r, s)
    PROVE  GatewayInv'
<1>1. sessions[s] \in SessionRecord /\ HasSession(s)
  BY SessionType DEF AuthenticateStart, GatewayInv
<1>2. sessions' = [sessions EXCEPT ![s] = Session(sessions[s].who, sessions[s].createdAt, now)]
  BY DEF AuthenticateStart, Touched
<1>3. Session(sessions[s].who, sessions[s].createdAt, now) \in SessionRecord
  BY <1>1 DEF Session, SessionRecord, GatewayInv, GatewayTypeOK
<1>4. /\ sessions' \in [SessionIds -> {NoSession} \union SessionRecord]
      /\ \A x \in SessionIds :
           /\ HasSession(x)' <=> HasSession(x)
           /\ HasSession(x) => /\ sessions'[x].who = sessions[x].who
                               /\ sessions'[x].createdAt = sessions[x].createdAt
  BY <1>1, <1>2, <1>3, Distinct DEF GatewayInv, GatewayTypeOK, HasSession, Session, SessionRecord
<1>5. now' = now /\ known' = known
  BY DEF AuthenticateStart
<1>6. sessions[s].who \in Trusted
  BY <1>1 DEF GatewayInv, OnlyAllowlisted, SignedIn
<1>7. req' = [req EXCEPT ![r] = Loading("access", sessions[s].who, s, 0)]
  BY <1>6 DEF AuthenticateStart
<1>8. Loading("access", sessions[s].who, s, 0) \in LoadingReq
  BY <1>1 DEF Loading, LoadingReq, SessionRecord
<1>9. GatewayTypeOK'
  BY <1>4, <1>5, <1>7, <1>8 DEF GatewayInv, GatewayTypeOK
<1>10. SessionsGenuine'
  BY <1>4, <1>5 DEF GatewayInv, SessionsGenuine
<1>11. OnlyAllowlisted'
  <2>1. SignedIn' = SignedIn
    BY <1>4 DEF SignedIn
  <2> QED
    BY <1>6, <1>7, <2>1 DEF GatewayInv, GatewayTypeOK, OnlyAllowlisted, Loading
<1> QED
  BY <1>9, <1>10, <1>11 DEF GatewayInv

LEMMA LoginAdmitInv ==
    ASSUME GatewayInv, NEW r \in Requests, NEW s \in SessionIds, LoginAdmit(r, s)
    PROVE  GatewayInv'
<1> DEFINE new == Session(req[r].who, now, now)
<1>1. req[r] \in LoadedReq /\ req[r].who \in Principals /\ req[r].who \in Trusted
  BY ReqType DEF LoginAdmit, GatewayInv, LoadedReq
<1>2. new \in SessionRecord /\ new.who = req[r].who /\ new.createdAt = now
  BY <1>1 DEF Session, SessionRecord, GatewayInv, GatewayTypeOK
<1>3. /\ known[s] = NoSession /\ now' = now
      /\ sessions' = [sessions EXCEPT ![s] = new] /\ known' = [known EXCEPT ![s] = new]
      /\ req' = [req EXCEPT ![r] = Admitted(req[r], s)]
  BY DEF LoginAdmit
<1>4. Admitted(req[r], s) \in AdmittedReq /\ Admitted(req[r], s).who = req[r].who
  BY <1>1 DEF Admitted, AdmittedReq, LoadedReq
<1>5. GatewayTypeOK'
  BY <1>2, <1>3, <1>4 DEF GatewayInv, GatewayTypeOK
<1>6. SessionsGenuine'
  BY <1>2, <1>3, Distinct DEF GatewayInv, GatewayTypeOK, SessionsGenuine, HasSession
<1>7. OnlyAllowlisted'
  <2>1. SignedIn' \subseteq SignedIn \union {req[r].who}
    BY <1>2, <1>3 DEF SignedIn, HasSession, GatewayInv, GatewayTypeOK
  <2> QED
    BY <1>1, <1>3, <1>4, <2>1 DEF GatewayInv, GatewayTypeOK, OnlyAllowlisted
<1> QED
  BY <1>5, <1>6, <1>7 DEF GatewayInv

LEMMA ServeInv ==
    ASSUME Inv, NEW r \in Requests, Serve(r)
    PROVE  GatewayInv'
<1> USE DEF Inv
<1>1. SoundReq(IdleReq)
  BY Distinct DEF SoundReq
<1>2. ASSUME UNCHANGED <<now, known, sessions>>, NEW q, SoundReq(q),
             req' = [req EXCEPT ![r] = q]
      PROVE  GatewayInv'
  BY <1>2, ReplaceReq, SameSessions DEF GatewayInv
<1>3. CASE StoreRead(r)
  <2>1. req[r] \in LoadingReq
    BY <1>3, ReqType DEF StoreRead, GatewayInv
  <2>2. \A e \in [serial : Nat, revoked : BOOLEAN], b \in BOOLEAN :
          SoundReq(Loaded(req[r], b, e))
    BY <1>3, <2>1 DEF Loaded, SoundReq, LoadedReq, LoadingReq, StoreRead, GatewayInv,
                      OnlyAllowlisted
  <2>3. NoEntry \in [serial : Nat, revoked : BOOLEAN]
    BY DEF NoEntry
  <2>4. file.doc[req[r].who] \in [serial : Nat, revoked : BOOLEAN]
    BY <2>1 DEF StoreInv, StoreTypeOK, Document, LoadingReq
  <2> QED
    BY <1>2, <1>3, <2>2, <2>3, <2>4 DEF StoreRead
<1>4. CASE AuthenticateAdmit(r)
  <2>1. req[r] \in LoadedReq
    BY <1>4, ReqType DEF AuthenticateAdmit, GatewayInv
  <2>2. SoundReq(Admitted(req[r], req[r].session))
    BY <1>4, <2>1 DEF Admitted, SoundReq, LoadedReq, AdmittedReq, AuthenticateAdmit, GatewayInv,
                      OnlyAllowlisted
  <2> QED
    BY <1>2, <1>4, <2>2 DEF AuthenticateAdmit
<1>5. CASE AuthenticateRevoked(r)
  <2>1. OfPrincipal(req[r].who) \in SUBSET SessionIds
    BY DEF OfPrincipal
  <2> QED
    BY <1>1, <1>5, <2>1, ReplaceReq DEF AuthenticateRevoked, Refuse
<1>6. CASE LoginDenied(r)
  BY <1>1, <1>2, <1>6 DEF LoginDenied, Refuse
<1>7. CASE StoreThrew(r)
  BY <1>1, <1>2, <1>7 DEF StoreThrew, Refuse
<1>8. CASE Respond(r)
  BY <1>1, <1>2, <1>8 DEF Respond
<1>9. ASSUME NEW s \in SessionIds, LoginAdmit(r, s) PROVE GatewayInv'
  BY <1>9, LoginAdmitInv
<1> QED
  BY <1>3, <1>4, <1>5, <1>6, <1>7, <1>8, <1>9 DEF Serve

LEMMA ArriveInv ==
    ASSUME GatewayInv, NEW r \in Requests, Arrive(r)
    PROVE  GatewayInv'
<1>1. ASSUME NEW s \in SessionIds, AuthenticateStart(r, s) PROVE GatewayInv'
  BY <1>1, TouchInv
<1>2. ASSUME NEW s \in SessionIds, AuthenticateExpired(r, s) PROVE GatewayInv'
  <2>1. req' = [req EXCEPT ![r] = IdleReq] /\ SoundReq(IdleReq)
    BY <1>2, Distinct DEF AuthenticateExpired, GatewayInv, GatewayTypeOK, SoundReq
  <2> QED
    BY <1>2, <2>1, ReplaceReq DEF AuthenticateExpired
<1>3. ASSUME NEW p \in Principals, NEW n \in 1 .. MaxSecrets, LoginStart(r, p, n)
      PROVE  GatewayInv'
  <2>1. SoundReq(Loading("login", p, NoSessionId, n))
    BY MaxSecretsAssumption DEF Loading, SoundReq, LoadingReq
  <2> QED
    BY <1>3, <2>1, ReplaceReq, SameSessions DEF LoginStart, GatewayInv
<1> QED
  BY <1>1, <1>2, <1>3 DEF Arrive

LEMMA StepInv == Inv /\ [Next]_vars => Inv'
<1> SUFFICES ASSUME Inv, [Next]_vars PROVE Inv'
  OBVIOUS
<1>1. ASSUME UNCHANGED gatewayVars PROVE GatewayInv'
  BY <1>1 DEF gatewayVars, Inv, GatewayInv, GatewayTypeOK, SessionsGenuine, OnlyAllowlisted,
              SignedIn, HasSession
<1>2. ASSUME GatewayNext PROVE GatewayInv'
  <2>1. ASSUME NEW r \in Requests, Arrive(r) PROVE GatewayInv'
    BY <2>1, ArriveInv DEF Inv
  <2>2. ASSUME NEW r \in Requests, Serve(r) PROVE GatewayInv'
    BY <2>2, ServeInv
  <2>3. CASE Restart
    <3>1. \A s \in SessionIds : ~HasSession(s)'
      BY <2>3 DEF Restart, HasSession
    <3> QED
      BY <2>3, <3>1 DEF Restart, Inv, GatewayInv, GatewayTypeOK, SessionsGenuine,
                        OnlyAllowlisted, SignedIn, IdleReq
  <2>4. CASE Tick
    BY <2>4 DEF Tick, Inv, GatewayInv, GatewayTypeOK, SessionsGenuine, OnlyAllowlisted,
                SignedIn, HasSession
  <2> QED
    BY <1>2, <2>1, <2>2, <2>3, <2>4 DEF GatewayNext
<1>3. GatewayNext => UNCHANGED storeVars
  BY DEF GatewayNext, Arrive, Serve, AuthenticateStart, AuthenticateExpired, LoginStart,
         StoreRead, AuthenticateAdmit, AuthenticateRevoked, LoginAdmit, LoginDenied, StoreThrew,
         Respond, Restart, Tick
<1>4. StoreInv'
  BY <1>3, StoreStepInv DEF Inv, Next, AdminNext, vars
<1> QED
  BY <1>1, <1>2, <1>4 DEF Next, AdminNext, vars, Inv

\* The gateway's invariant holds next to any activity of the CLI.
THEOREM GatewayInvariant == Spec => []Inv
<1> QED
  BY InitInv, StepInv, PTL DEF Spec

\* Records have their type, every session answers to a login and every admitted
\* principal was on the allowlist and unrevoked when it was looked up.
THEOREM GatewayIsSound == Spec => []GatewayInv
<1>1. Inv => GatewayInv
  BY DEF Inv
<1> QED
  BY <1>1, GatewayInvariant, PTL

\* No principal off the allowlist ever has a session or an admitted request.
THEOREM AllowlistIsEnforced == Spec => []OnlyAllowlisted
<1>1. Inv => OnlyAllowlisted
  BY DEF Inv, GatewayInv
<1> QED
  BY <1>1, GatewayInvariant, PTL

-----------------------------------------------------------------------------
(* Action properties.                                                      *)

LEMMA NoResurrectionStep ==
    ASSUME Inv, [Next]_vars, NEW s \in SessionIds, known[s] # NoSession, ~HasSession(s)
    PROVE  sessions'[s] = NoSession
<1>1. sessions[s] = NoSession
  BY DEF HasSession
<1>2. \A x \in SessionIds : HasSession(x) => x # s
  OBVIOUS
<1>3. ASSUME NEW r \in Requests, NEW x \in SessionIds,
             AuthenticateStart(r, x) \/ AuthenticateExpired(r, x) \/ LoginAdmit(r, x)
      PROVE  sessions'[s] = NoSession
  <2>1. x # s
    BY <1>2, <1>3 DEF AuthenticateStart, AuthenticateExpired, LoginAdmit
  <2> QED
    BY <1>1, <1>3, <2>1 DEF AuthenticateStart, AuthenticateExpired, LoginAdmit, Touched, Without,
                            Inv, GatewayInv, GatewayTypeOK
<1>4. ASSUME NEW r \in Requests, AuthenticateRevoked(r) PROVE sessions'[s] = NoSession
  BY <1>1, <1>4 DEF AuthenticateRevoked, Without
<1>5. CASE Restart
  BY <1>5 DEF Restart
<1>6. CASE UNCHANGED sessions
  BY <1>1, <1>6
<1> QED
  BY <1>3, <1>4, <1>5, <1>6
     DEF Next, AdminNext, GatewayNext, Arrive, Serve, LoginStart, StoreRead, AuthenticateAdmit,
         LoginDenied, StoreThrew, Respond, Tick, vars, gatewayVars

\* A session that expired, was revoked or was lost in a restart is never back
\* in the table, even while handlers that had fetched it are still running.
THEOREM SessionsAreNotResurrected == Spec => NoResurrection
<1>1. Inv /\ [Next]_vars =>
        [\A s \in SessionIds :
           known[s] # NoSession /\ ~HasSession(s) => sessions'[s] = NoSession]_vars
  BY NoResurrectionStep
<1> QED
  BY <1>1, GatewayInvariant, PTL DEF Spec, NoResurrection

\* A session is in the table until it expires, its process ends, or the store
\* has been read without a live credential of its principal.
THEOREM SessionsAreKept == Spec => DroppedForAReason
<1> DEFINE Reason(s) ==
      \/ Expired(s)
      \/ \A r \in Requests : req'[r] = IdleReq /\ \A x \in SessionIds : sessions'[x] = NoSession
      \/ \E r \in Requests :
           /\ req[r].at = "loaded"
           /\ req[r].who = sessions[s].who
           /\ req[r].ok
           /\ ~Unrevoked(req[r])
<1>1. Inv /\ [Next]_vars =>
        [\A s \in SessionIds : HasSession(s) /\ sessions'[s] = NoSession => Reason(s)]_vars
  <2> SUFFICES ASSUME Inv, Next, NEW s \in SessionIds, HasSession(s), sessions'[s] = NoSession
               PROVE  Reason(s)
    BY DEF vars
  <2>1. sessions[s] # NoSession /\ sessions' # sessions
    BY DEF HasSession
  <2>2. \A p, start, seen : Session(p, start, seen) # NoSession
    <3> SUFFICES ASSUME NEW p, NEW start, NEW seen, Session(p, start, seen) = NoSession
                 PROVE  FALSE
      OBVIOUS
    <3>1. DOMAIN Session(p, start, seen) = {"who", "createdAt", "lastSeenAt"}
      BY DEF Session
    <3>2. DOMAIN NoSession = {"who"}
      BY DEF NoSession
    <3> QED BY <3>1, <3>2
  <2>3. ASSUME NEW r \in Requests, NEW x \in SessionIds, AuthenticateStart(r, x)
        PROVE  FALSE
    BY <2>1, <2>2, <2>3 DEF AuthenticateStart, Touched, Inv, GatewayInv, GatewayTypeOK
  <2>4. ASSUME NEW r \in Requests, NEW x \in SessionIds, AuthenticateExpired(r, x)
        PROVE  Expired(s)
    BY <2>1, <2>4 DEF AuthenticateExpired, Without
  <2>5. ASSUME NEW r \in Requests, NEW x \in SessionIds, LoginAdmit(r, x)
        PROVE  FALSE
    BY <2>1, <2>2, <2>5 DEF LoginAdmit, Inv, GatewayInv, GatewayTypeOK
  <2>6. ASSUME NEW r \in Requests, AuthenticateRevoked(r)
        PROVE  Reason(s)
    BY <2>1, <2>6 DEF AuthenticateRevoked, Without, OfPrincipal
  <2>7. CASE Restart
    BY <2>7 DEF Restart
  <2> QED
    BY <2>1, <2>3, <2>4, <2>5, <2>6, <2>7
       DEF Next, AdminNext, GatewayNext, Arrive, Serve, LoginStart, StoreRead, AuthenticateAdmit,
           LoginDenied, StoreThrew, Respond, Tick, gatewayVars
<1> QED
  BY <1>1, GatewayInvariant, PTL DEF Spec, DroppedForAReason

\* Use does not lengthen the life of a session: no request is accepted on one
\* more than AbsoluteMs after its login.
THEOREM LifetimeIsBounded == Spec => LifetimeBounded
<1> DEFINE Bounded == \A r \in Requests :
              (req[r] = IdleReq /\ req'[r].at = "loading" /\ req'[r].kind = "access")
                => now - known[req'[r].session].createdAt =< AbsoluteMs
<1>1. Inv /\ [Next]_vars => [Bounded]_vars
  <2> SUFFICES ASSUME Inv, Next, NEW r \in Requests,
                      req[r] = IdleReq, req'[r].at = "loading", req'[r].kind = "access"
               PROVE  now - known[req'[r].session].createdAt =< AbsoluteMs
    BY DEF vars
  <2> USE DEF Inv, GatewayInv, GatewayTypeOK
  <2>1. req[r].at = "idle" /\ req'[r] # req[r]
    BY DEF IdleReq
  <2>2. ASSUME NEW x \in Requests, Serve(x) PROVE FALSE
    BY <2>1, <2>2 DEF Serve, StoreRead, AuthenticateAdmit, AuthenticateRevoked, LoginAdmit,
                      LoginDenied, StoreThrew, Respond, Refuse, Admitted, Loaded, IdleReq
  <2>3. ASSUME NEW x \in Requests, NEW s \in SessionIds, AuthenticateStart(x, s)
        PROVE  now - known[req'[r].session].createdAt =< AbsoluteMs
    <3>1. req'[r].session = s
      BY <2>1, <2>3 DEF AuthenticateStart, Loading
    <3>2. sessions[s] \in SessionRecord /\ sessions[s].createdAt = known[s].createdAt
      BY <2>3, SessionType DEF AuthenticateStart, SessionsGenuine
    <3>3. now - sessions[s].createdAt =< AbsoluteMs
      BY <2>3, <3>2, GatewayAssumption DEF AuthenticateStart, Expired, SessionRecord
    <3> QED
      BY <3>1, <3>2, <3>3
  <2>4. ASSUME NEW x \in Requests, NEW p \in Principals, NEW n \in 1 .. MaxSecrets,
               LoginStart(x, p, n)
        PROVE  FALSE
    BY <2>1, <2>4 DEF LoginStart, Loading
  <2>5. ASSUME NEW x \in Requests, NEW s \in SessionIds, AuthenticateExpired(x, s) PROVE FALSE
    BY <2>1, <2>5 DEF AuthenticateExpired
  <2>6. CASE Restart \/ Tick \/ AdminNext
    BY <2>1, <2>6 DEF Restart, Tick, AdminNext, gatewayVars
  <2> QED
    BY <2>2, <2>3, <2>4, <2>5, <2>6 DEF Next, GatewayNext, Arrive
<1> QED
  BY <1>1, GatewayInvariant, PTL DEF Spec, LifetimeBounded

-----------------------------------------------------------------------------
(* The refinement.  The read of the store is the instant of the abstract   *)
(* Consult; everything the CLI does is an abstract ChangeCredentials.      *)

LEMMA InitRefines == Init => Access!AbsInit
<1> SUFFICES ASSUME Init PROVE Access!AbsInit
  OBVIOUS
<1>1. LivePrincipals = {}
  BY DEF Init, StoreInit, LivePrincipals, Live, IsDoc, AbsentFile
<1>2. SignedIn = {}
  BY DEF Init, GatewayInit, SignedIn, HasSession
<1>3. Phases = [r \in Requests |-> Access!Idle]
  BY DEF Init, GatewayInit, Phases, Phase, IdleReq, Access!Idle
<1> QED
  BY <1>1, <1>2, <1>3 DEF Access!AbsInit

LEMMA PhaseReplaced ==
    ASSUME GatewayTypeOK, NEW r \in Requests, NEW q, req' = [req EXCEPT ![r] = q]
    PROVE  Phases' = [Phases EXCEPT ![r] = Phase(q)]
BY DEF GatewayTypeOK, Phases

LEMMA LiveSame == UNCHANGED storeVars => LivePrincipals' = LivePrincipals
BY DEF storeVars, LivePrincipals, Live, IsDoc

LEMMA SignedInShrinks ==
    ASSUME NEW S \in SUBSET SessionIds, sessions' = Without(S)
    PROVE  SignedIn' \in SUBSET SignedIn
BY DEF SignedIn, HasSession, Without

\* A request that ends, whatever sessions go with it.
LEMMA EndRefines ==
    ASSUME GatewayTypeOK, NEW r \in Requests, req' = [req EXCEPT ![r] = IdleReq],
           UNCHANGED storeVars, SignedIn' \in SUBSET SignedIn
    PROVE  Access!AbsNext
<1>1. Phase(IdleReq) = Access!Idle
  BY DEF Phase, IdleReq, Access!Idle
<1>2. Access!End(r)
  BY <1>1, PhaseReplaced, LiveSame DEF Access!End
<1> QED
  BY <1>2 DEF Access!AbsNext

LEMMA AskRefines ==
    ASSUME GatewayTypeOK, NEW r \in Requests, NEW k \in {"access", "login"},
           NEW p \in Principals, NEW s, NEW n,
           req[r] = IdleReq, k = "access" => p \in SignedIn,
           req' = [req EXCEPT ![r] = Loading(k, p, s, n)],
           UNCHANGED storeVars, SignedIn' = SignedIn
    PROVE  Access!AbsNext
<1>1. Phases[r] = Access!Idle
  BY DEF Phases, Phase, IdleReq, Access!Idle
<1>2. Phase(Loading(k, p, s, n)) = Access!Asking(k, p)
  BY DEF Phase, Loading, Access!Asking
<1>3. Access!Ask(r, k, p)
  BY <1>1, <1>2, PhaseReplaced, LiveSame DEF Access!Ask
<1> QED
  BY <1>3 DEF Access!AbsNext

LEMMA ReadRefines ==
    ASSUME Inv, NEW r \in Requests, StoreRead(r)
    PROVE  Access!AbsNext \/ UNCHANGED Access!absVars
<1>1. GatewayTypeOK /\ req[r] \in LoadingReq
  BY ReqType DEF Inv, GatewayInv, StoreRead
<1>2. LivePrincipals' = LivePrincipals /\ SignedIn' = SignedIn
  BY LiveSame DEF StoreRead, SignedIn, HasSession
<1>3. Phases[r] = Access!Asking(req[r].kind, req[r].who)
  BY <1>1 DEF Phases, Phase, LoadingReq, Access!Asking
<1>4. ASSUME NEW b \in BOOLEAN, NEW e, req' = [req EXCEPT ![r] = Loaded(req[r], b, e)],
             ~Unrevoked(Loaded(req[r], b, e))
      PROVE  UNCHANGED Access!absVars
  <2>1. Phase(Loaded(req[r], b, e)) = Phases[r]
    BY <1>3, <1>4 DEF Phase, Loaded, Access!Asking
  <2>2. [Phases EXCEPT ![r] = Phases[r]] = Phases
    BY DEF Phases
  <2>3. Phases' = [Phases EXCEPT ![r] = Phase(Loaded(req[r], b, e))]
    BY <1>1, <1>4, PhaseReplaced
  <2> QED
    BY <1>2, <2>1, <2>2, <2>3 DEF Access!absVars
<1>5. ASSUME IsDoc, Unrevoked(Loaded(req[r], TRUE, file.doc[req[r].who])),
             req' = [req EXCEPT ![r] = Loaded(req[r], TRUE, file.doc[req[r].who])]
      PROVE  Access!AbsNext
  <2> DEFINE q == Loaded(req[r], TRUE, file.doc[req[r].who])
  <2>1. req[r].who \in LivePrincipals /\ req[r].kind \in {"access", "login"}
    BY <1>1, <1>5 DEF LivePrincipals, Live, Active, HasEntry, Unrevoked, Loaded, LoadingReq
  <2>2. Phase(q) = Access!Cleared(req[r].kind, req[r].who)
    BY <1>5 DEF Phase, Loaded, Access!Cleared
  <2>3. Access!Consult(r, req[r].kind, req[r].who)
    BY <1>1, <1>2, <1>3, <1>5, <2>1, <2>2, PhaseReplaced DEF Access!Consult
  <2> QED
    BY <2>1, <2>3, <1>1 DEF Access!AbsNext, LoadingReq
<1>6. ~Unrevoked(Loaded(req[r], FALSE, NoEntry))
  BY DEF Unrevoked, Loaded
<1> QED
  BY <1>4, <1>5, <1>6 DEF StoreRead

LEMMA GrantRefines ==
    ASSUME GatewayTypeOK, NEW r \in Requests, NEW s, req[r].at = "loaded", Unrevoked(req[r]),
           req' = [req EXCEPT ![r] = Admitted(req[r], s)], UNCHANGED storeVars,
           SignedIn' = IF req[r].kind = "login" THEN SignedIn \union {req[r].who} ELSE SignedIn
    PROVE  Access!AbsNext
<1>1. req[r].kind \in {"access", "login"} /\ req[r].who \in Principals
  BY ReqType DEF LoadedReq
<1>2. Phases[r] = Access!Cleared(req[r].kind, req[r].who)
  BY DEF Phases, Phase, Access!Cleared
<1>3. Phase(Admitted(req[r], s)) = Access!Granted(req[r].kind, req[r].who)
  BY DEF Phase, Admitted, Access!Granted
<1>4. Access!Grant(r, req[r].kind, req[r].who)
  BY <1>2, <1>3, PhaseReplaced, LiveSame DEF Access!Grant
<1> QED
  BY <1>1, <1>4 DEF Access!AbsNext

LEMMA StepRefines == Inv /\ [Next]_vars => [Access!AbsNext]_(Access!absVars)
<1> SUFFICES ASSUME Inv, [Next]_vars PROVE Access!AbsNext \/ UNCHANGED Access!absVars
  OBVIOUS
<1>1. GatewayTypeOK /\ SessionsGenuine
  BY DEF Inv, GatewayInv
<1>2. ASSUME NEW r \in Requests, NEW s \in SessionIds, AuthenticateStart(r, s)
      PROVE  Access!AbsNext
  <2>1. sessions[s] \in SessionRecord /\ sessions[s].who \in SignedIn
    BY <1>1, <1>2, SessionType DEF AuthenticateStart, SignedIn
  <2>2. \A x \in SessionIds :
          (HasSession(x)' <=> HasSession(x)) /\ sessions'[x].who = sessions[x].who
    BY <1>1, <1>2, <2>1, Distinct
       DEF AuthenticateStart, Touched, Session, HasSession, GatewayTypeOK, SessionRecord, NoSession
  <2>3. SignedIn' = SignedIn
    BY <2>2 DEF SignedIn
  <2>4. sessions[s].who \in Trusted /\ sessions[s].who \in Principals
    BY <2>1 DEF Inv, GatewayInv, OnlyAllowlisted, SessionRecord
  <2> QED
    BY <1>1, <1>2, <2>1, <2>3, <2>4, AskRefines DEF AuthenticateStart
<1>3. ASSUME NEW r \in Requests, NEW s \in SessionIds, AuthenticateExpired(r, s)
      PROVE  Access!AbsNext
  <2>1. req' = [req EXCEPT ![r] = IdleReq]
    BY <1>1, <1>3 DEF AuthenticateExpired, GatewayTypeOK
  <2> QED
    BY <1>1, <1>3, <2>1, SignedInShrinks, EndRefines DEF AuthenticateExpired
<1>4. ASSUME NEW r \in Requests, NEW p \in Principals, NEW n \in 1 .. MaxSecrets,
             LoginStart(r, p, n)
      PROVE  Access!AbsNext
  BY <1>1, <1>4, AskRefines DEF LoginStart, SignedIn, HasSession
<1>5. ASSUME NEW r \in Requests, AuthenticateRevoked(r) PROVE Access!AbsNext
  <2>1. OfPrincipal(req[r].who) \in SUBSET SessionIds
    BY DEF OfPrincipal
  <2> QED
    BY <1>1, <1>5, <2>1, SignedInShrinks, EndRefines DEF AuthenticateRevoked, Refuse
<1>6. ASSUME NEW r \in Requests, LoginDenied(r) \/ StoreThrew(r) \/ Respond(r)
      PROVE  Access!AbsNext
  <2>1. SignedIn' = SignedIn
    BY <1>6 DEF LoginDenied, StoreThrew, Respond, SignedIn, HasSession
  <2> QED
    BY <1>1, <1>6, <2>1, EndRefines DEF LoginDenied, StoreThrew, Respond, Refuse
<1>7. ASSUME NEW r \in Requests, AuthenticateAdmit(r) PROVE Access!AbsNext
  <2>1. SignedIn' = SignedIn
    BY <1>7 DEF AuthenticateAdmit, SignedIn, HasSession
  <2> QED
    BY <1>1, <1>7, <2>1, GrantRefines DEF AuthenticateAdmit
<1>8. ASSUME NEW r \in Requests, NEW s \in SessionIds, LoginAdmit(r, s) PROVE Access!AbsNext
  <2> DEFINE new == Session(req[r].who, now, now)
  <2>1. ~HasSession(s) /\ sessions' = [sessions EXCEPT ![s] = new]
    BY <1>1, <1>8 DEF LoginAdmit, SessionsGenuine
  <2>2. req[r].who \in Principals
    BY <1>1, <1>8, ReqType DEF LoginAdmit, LoadedReq
  <2>3. new \in SessionRecord /\ new.who = req[r].who
    BY <1>1, <2>2 DEF Session, SessionRecord, GatewayTypeOK
  <2>4. /\ HasSession(s)' /\ sessions'[s].who = req[r].who
        /\ \A x \in SessionIds \ {s} : sessions'[x] = sessions[x]
    BY <1>1, <2>1, <2>3, Distinct DEF HasSession, GatewayTypeOK
  <2>5. SignedIn' = SignedIn \union {req[r].who}
    BY <2>1, <2>4 DEF SignedIn, HasSession
  <2> QED
    BY <1>1, <1>8, <2>5, GrantRefines DEF LoginAdmit
<1>9. ASSUME Restart PROVE Access!AbsNext
  <2>1. SignedIn' = {}
    BY <1>9 DEF Restart, SignedIn, HasSession
  <2>2. Phases' = [r \in Requests |-> Access!Idle]
    BY <1>9 DEF Restart, Phases, Phase, IdleReq, Access!Idle
  <2> QED
    BY <1>9, <2>1, <2>2, LiveSame DEF Restart, Access!AbsNext, Access!Reset
<1>10. ASSUME Tick \/ UNCHANGED vars PROVE UNCHANGED Access!absVars
  <2>1. UNCHANGED <<storeVars, sessions, req>>
    BY <1>10 DEF Tick, vars, gatewayVars
  <2> QED
    BY <2>1, LiveSame DEF Access!absVars, SignedIn, HasSession, Phases
<1>11. ASSUME AdminNext PROVE Access!AbsNext
  <2>1. LivePrincipals' \in SUBSET Principals
    BY DEF LivePrincipals
  <2>2. SignedIn' = SignedIn /\ Phases' = Phases
    BY <1>11 DEF AdminNext, gatewayVars, SignedIn, HasSession, Phases
  <2> QED
    BY <2>1, <2>2 DEF Access!AbsNext, Access!ChangeCredentials
<1> QED
  BY <1>2, <1>3, <1>4, <1>5, <1>6, <1>7, <1>8, <1>9, <1>10, <1>11, ReadRefines
     DEF Next, GatewayNext, Arrive, Serve

\* Revocation takes effect on the next decision: gateway-credential, with its
\* store file, CLI, sessions and restarts, implements RevocableAccess.
THEOREM RevocationTakesEffect == Spec => AccessIsRevocable
<1> QED
  BY InitRefines, StepRefines, GatewayInvariant, PTL DEF Spec, AccessIsRevocable, Access!AbsSpec

-----------------------------------------------------------------------------
(* The limiter: how many hits a window counts.                              *)

LEMMA WindowIsFinite ==
    ASSUME NEW n \in Nat, NEW w \in [0 .. n - 1 -> Nat]
    PROVE  IsFiniteSet(Hits(w)) /\ Total(w) \in Nat
<1> DEFINE ofAge == [age \in 0 .. n - 1 |-> {age} \X (1 .. w[age])]
           T == {{age} \X (1 .. w[age]) : age \in 0 .. n - 1}
<1>1. ofAge \in Surjection(0 .. n - 1, T)
  BY DEF Surjection
<1>2. IsFiniteSet(0 .. n - 1)
  BY FS_Interval
<1>3. IsFiniteSet(T)
  BY <1>1, <1>2, FS_Surjection
<1>4. ASSUME NEW S \in T
      PROVE  IsFiniteSet(S)
  <2>1. PICK age \in 0 .. n - 1 : S = {age} \X (1 .. w[age])
    OBVIOUS
  <2>2. w[age] \in Int /\ 1 \in Int
    OBVIOUS
  <2>3. IsFiniteSet(1 .. w[age])
    BY <2>2, FS_Interval
  <2>4. IsFiniteSet({age})
    BY FS_Singleton
  <2> QED BY <2>1, <2>3, <2>4, FS_Product
<1>5. Hits(w) = UNION T
  BY DEF Hits
<1>6. IsFiniteSet(Hits(w))
  BY <1>3, <1>4, <1>5, FS_UNION
<1> QED BY <1>6, FS_CardinalityType DEF Total

\* The elements of Hits().
LEMMA HitsAre ==
    ASSUME NEW n \in Nat, NEW w \in [0 .. n - 1 -> Nat], NEW age, NEW k
    PROVE  <<age, k>> \in Hits(w) <=> age \in 0 .. n - 1 /\ k \in 1 .. w[age]
  BY DEF Hits

LEMMA EmptyTotal ==
    ASSUME NEW n \in Nat
    PROVE  Empty(n) \in [0 .. n - 1 -> Nat] /\ Total(Empty(n)) = 0
<1>1. Hits(Empty(n)) = {}
  BY DEF Hits, Empty
<1> QED BY <1>1, FS_EmptySet DEF Total, Empty

\* push() adds one hit, or none that is old enough to be pruned.
LEMMA HitTotal ==
    ASSUME NEW n \in Nat, NEW w \in [0 .. n - 1 -> Nat], NEW age \in Nat
    PROVE  Hit(w, age) \in [0 .. n - 1 -> Nat] /\ Total(Hit(w, age)) =< Total(w) + 1
<1>1. CASE age \notin DOMAIN w
  BY <1>1, WindowIsFinite DEF Hit
<1>2. CASE age \in DOMAIN w
  <2> DEFINE u == [w EXCEPT ![age] = @ + 1]
             new == <<age, w[age] + 1>>
  <2>1. u \in [0 .. n - 1 -> Nat] /\ Hit(w, age) = u
    BY <1>2 DEF Hit
  <2>2. \A a \in 0 .. n - 1 :
          {a} \X (1 .. u[a]) = IF a = age THEN ({a} \X (1 .. w[a])) \union {new} ELSE {a} \X (1 .. w[a])
    BY <1>2
  <2>3. Hits(u) = Hits(w) \union {new}
    BY <1>2, <2>1, <2>2 DEF Hits
  <2>4. IsFiniteSet(Hits(w)) /\ Total(w) \in Nat
    BY WindowIsFinite
  <2> HIDE DEF u, new
  <2>5. Total(u) = IF new \in Hits(w) THEN Total(w) ELSE Total(w) + 1
    BY <2>3, <2>4, FS_AddElement DEF Total
  <2> QED BY <2>1, <2>4, <2>5
<1> QED BY <1>1, <1>2

\* prune() never adds to a window.
LEMMA OlderTotal ==
    ASSUME NEW n \in Nat, NEW w \in [0 .. n - 1 -> Nat]
    PROVE  Older(w) \in [0 .. n - 1 -> Nat] /\ Total(Older(w)) =< Total(w)
<1> DEFINE u == Older(w)
           younger == [h \in Hits(u) |-> <<h[1] - 1, h[2]>>]
<1>1. u \in [0 .. n - 1 -> Nat]
  BY DEF Older
<1>2. ASSUME NEW h \in Hits(u)
      PROVE  /\ h = <<h[1], h[2]>> /\ h[1] \in 1 .. n - 1 /\ h[2] \in 1 .. w[h[1] - 1]
             /\ <<h[1] - 1, h[2]>> \in Hits(w)
  <2>1. PICK age \in 0 .. n - 1 : h \in {age} \X (1 .. u[age])
    BY DEF Hits, Older
  <2>2. age # 0 /\ u[age] = w[age - 1]
    BY <2>1 DEF Older
  <2>3. h = <<h[1], h[2]>> /\ h[1] = age /\ h[2] \in 1 .. w[age - 1]
    BY <2>1, <2>2
  <2> QED BY <2>2, <2>3, HitsAre
<1>3. younger \in Injection(Hits(u), Hits(w))
  <2>1. younger \in [Hits(u) -> Hits(w)]
    BY <1>2
  <2>2. ASSUME NEW g \in Hits(u), NEW h \in Hits(u), younger[g] = younger[h]
        PROVE  g = h
    <3>1. g[1] - 1 = h[1] - 1 /\ g[2] = h[2]
      BY <2>2
    <3>2. /\ g = <<g[1], g[2]>> /\ g[1] \in 1 .. n - 1
          /\ h = <<h[1], h[2]>> /\ h[1] \in 1 .. n - 1
      BY <1>2
    <3>3. g[1] = h[1]
      BY <3>1, <3>2
    <3> QED BY <3>1, <3>2, <3>3
  <2> QED BY <2>1, <2>2 DEF Injection, IsInjective
<1> QED BY <1>1, <1>3, WindowIsFinite, FS_Injection DEF Total

-----------------------------------------------------------------------------
(* The limiter: types.                                                      *)

\* "Two to the power of" its failures is a number of ticks.
LEMMA DelayType ==
    ASSUME LimiterTypeOK, NEW s \in Sources
    PROVE  Delay(s) \in 0 .. MaxDelay
<1>1. failures[s] \in Nat
  BY LimiterAssumption DEF LimiterTypeOK
<1>2. IsFiniteSet(1 .. failures[s]) /\ Cardinality(1 .. failures[s]) = failures[s]
  BY <1>1, FS_Interval
<1>3. 2 ^ failures[s] \in Nat
  BY <1>2, FS_SUBSET, FS_CardinalityType
<1> QED BY <1>3, LimiterAssumption DEF Delay

\* What the type invariant says of an attempt at each point.
LEMMA AttemptType ==
    ASSUME LimiterTypeOK, NEW a \in Attempts
    PROVE  /\ attempt[a].at = "idle" <=> attempt[a] = IdleAttempt
           /\ attempt[a].at # "idle" => attempt[a].src \in Sources
           /\ attempt[a].at = "waiting" =>
                /\ attempt[a] \in [at : {"waiting"}, src : Sources, left : 0 .. MaxDelay, age : 0 .. Longest]
  BY DEF LimiterTypeOK, IdleAttempt

LEMMA LongestType == Longest \in Nat
  BY LimiterAssumption DEF Longest

-----------------------------------------------------------------------------
(* The limiter: who sleeps.                                                 *)

Asleep == {a \in Attempts : attempt[a].at = "waiting"}

\* What one attempt does to the sets of sleepers.
LEMMA AllAsleep == LimiterTypeOK => UNION {Waiting(s) : s \in Sources} = Asleep
<1> SUFFICES ASSUME LimiterTypeOK PROVE UNION {Waiting(s) : s \in Sources} = Asleep
  OBVIOUS
<1>1. \A a \in Attempts : attempt[a].at = "waiting" => attempt[a].src \in Sources
  BY AttemptType
<1> QED BY <1>1 DEF Waiting, Asleep

LEMMA SleepersAre ==
    ASSUME LimiterTypeOK
    PROVE  /\ IsFiniteSet(Asleep) /\ Cardinality(Asleep) \in Nat
           /\ \A s \in Sources : IsFiniteSet(Waiting(s)) /\ Cardinality(Waiting(s)) \in Nat
           /\ IsFiniteSet(Attempts) /\ Cardinality(Attempts) \in Nat
<1>1. Asleep \in SUBSET Attempts /\ \A s \in Sources : Waiting(s) \in SUBSET Attempts
  BY DEF Waiting, Asleep
<1> QED BY <1>1, LimiterAssumption, FS_Subset, FS_CardinalityType

\* An attempt that is not asleep is not among the sleepers.
LEMMA AwakeIsOneLess ==
    ASSUME LimiterTypeOK, NEW S \in SUBSET Attempts, NEW a \in Attempts, a \notin S
    PROVE  /\ IsFiniteSet(S) /\ Cardinality(S) \in Nat
           /\ Cardinality(S) + 1 =< Cardinality(Attempts)
           /\ Cardinality(S \union {a}) = Cardinality(S) + 1
<1>1. IsFiniteSet(S)
  BY LimiterAssumption, FS_Subset
<1>2. Cardinality(S \union {a}) = Cardinality(S) + 1
  BY <1>1, FS_AddElement
<1>3. S \union {a} \in SUBSET Attempts
  OBVIOUS
<1>4. Cardinality(S \union {a}) =< Cardinality(Attempts)
  BY <1>3, LimiterAssumption, FS_Subset
<1> QED BY <1>1, <1>2, <1>4, FS_CardinalityType

-----------------------------------------------------------------------------
(* The limiter: the steps.                                                  *)

LEMMA LimiterInitInv == LimiterInit => LimiterInv
<1> SUFFICES ASSUME LimiterInit PROVE LimiterInv
  OBVIOUS
<1>1. SourceWindow \in Nat /\ GlobalWindow \in Nat
  BY LimiterAssumption
<1>2. LimiterTypeOK
  <2>1. /\ Empty(SourceWindow) \in [0 .. SourceWindow - 1 -> Nat]
        /\ Empty(GlobalWindow) \in [0 .. GlobalWindow - 1 -> Nat]
    BY <1>1, EmptyTotal
  <2>2. 0 \in 0 .. FailureCap
    BY LimiterAssumption
  <2> QED BY <2>1, <2>2 DEF LimiterInit, LimiterTypeOK
<1>3. Asleep = {} /\ \A s \in Sources : Waiting(s) = {}
  BY DEF LimiterInit, IdleAttempt, Asleep, Waiting
<1>4. Cardinality(Attempts) \in Nat
  BY <1>2, SleepersAre
<1>5. Total(globalHits) = 0 /\ \A s \in Sources : Total(hits[s]) = 0
  BY <1>1, EmptyTotal DEF LimiterInit
<1>6. UNION {Waiting(s) : s \in Sources} = {}
  BY <1>2, <1>3, AllAsleep
<1>7. OvershootBounded
  BY <1>3, <1>4, <1>5, <1>6, FS_EmptySet, LimiterAssumption DEF OvershootBounded
<1> QED BY <1>2, <1>7 DEF LimiterInv

\* What counting an attempt does to the windows.
LEMMA CountAdds ==
    ASSUME LimiterTypeOK, NEW s \in Sources, NEW age \in Nat, Count(s, age)
    PROVE  /\ hits' \in [Sources -> [0 .. SourceWindow - 1 -> Nat]]
           /\ globalHits' \in [0 .. GlobalWindow - 1 -> Nat]
           /\ Total(globalHits') =< Total(globalHits) + 1
           /\ Total(hits'[s]) =< Total(hits[s]) + 1
           /\ \A t \in Sources : t # s => hits'[t] = hits[t]
<1>1. SourceWindow \in Nat /\ GlobalWindow \in Nat
  BY LimiterAssumption
<1>2. hits[s] \in [0 .. SourceWindow - 1 -> Nat] /\ globalHits \in [0 .. GlobalWindow - 1 -> Nat]
  BY DEF LimiterTypeOK
<1>3. hits'[s] = Hit(hits[s], age) /\ globalHits' = Hit(globalHits, age)
      /\ hits' = [hits EXCEPT ![s] = Hit(hits[s], age)]
  BY DEF Count, LimiterTypeOK
<1>4. /\ Hit(hits[s], age) \in [0 .. SourceWindow - 1 -> Nat]
      /\ Total(Hit(hits[s], age)) =< Total(hits[s]) + 1
  BY <1>1, <1>2, HitTotal
<1>5. /\ Hit(globalHits, age) \in [0 .. GlobalWindow - 1 -> Nat]
      /\ Total(Hit(globalHits, age)) =< Total(globalHits) + 1
  BY <1>1, <1>2, HitTotal
<1> QED BY <1>3, <1>4, <1>5 DEF LimiterTypeOK

LEMMA TotalTypes ==
    LimiterTypeOK => Total(globalHits) \in Nat /\ \A t \in Sources : Total(hits[t]) \in Nat
<1>1. SourceWindow \in Nat /\ GlobalWindow \in Nat
  BY LimiterAssumption
<1>2. \A w \in [0 .. SourceWindow - 1 -> Nat] : Total(w) \in Nat
  BY <1>1, WindowIsFinite
<1>3. \A w \in [0 .. GlobalWindow - 1 -> Nat] : Total(w) \in Nat
  BY <1>1, WindowIsFinite
<1> QED BY <1>2, <1>3 DEF LimiterTypeOK

LEMMA TotalTypesAfter ==
    LimiterTypeOK' => (Total(globalHits) \in Nat /\ \A t \in Sources : Total(hits[t]) \in Nat)'
  BY TotalTypes, PTL

LEMMA LimiterTypes ==
    ASSUME LimiterTypeOK, LimiterNext
    PROVE  LimiterTypeOK'
<1> USE DEF LimiterTypeOK
<1>1. ASSUME NEW a \in Attempts, NEW s \in Sources, Reject(a, s)
      PROVE  LimiterTypeOK'
  BY <1>1 DEF Reject, Becomes
<1>2. ASSUME NEW a \in Attempts, NEW s \in Sources, AdmitNow(a, s)
      PROVE  LimiterTypeOK'
  BY <1>2, CountAdds DEF AdmitNow, Becomes
<1>3. ASSUME NEW a \in Attempts, NEW s \in Sources, AdmitLater(a, s)
      PROVE  LimiterTypeOK'
  BY <1>3, DelayType, LongestType DEF AdmitLater, Becomes
<1>4. ASSUME NEW a \in Attempts, Wake(a)
      PROVE  LimiterTypeOK'
  <2>1. attempt[a].src \in Sources /\ attempt[a].age \in Nat
    BY <1>4, AttemptType, LongestType DEF Wake
  <2> QED BY <1>4, <2>1, CountAdds DEF Wake, Becomes
<1>5. ASSUME NEW a \in Attempts, RecordFailure(a) \/ RecordSuccess(a)
      PROVE  LimiterTypeOK'
  <2>1. attempt[a].src \in Sources /\ FailureCap \in Nat
    BY <1>5, AttemptType, LimiterAssumption DEF RecordFailure, RecordSuccess
  <2>2. failures' \in [Sources -> 0 .. FailureCap]
    BY <1>5, <2>1 DEF RecordFailure, RecordSuccess
  <2> QED BY <1>5, <2>2 DEF RecordFailure, RecordSuccess, Becomes
<1>6. ASSUME NEW a \in Attempts, Refused(a)
      PROVE  LimiterTypeOK'
  BY <1>6 DEF Refused, Becomes
<1>7. CASE LimiterTick
  <2>1. SourceWindow \in Nat /\ GlobalWindow \in Nat
    BY LimiterAssumption
  <2>2. /\ hits' \in [Sources -> [0 .. SourceWindow - 1 -> Nat]]
        /\ globalHits' \in [0 .. GlobalWindow - 1 -> Nat]
    BY <1>7, <2>1, OlderTotal DEF LimiterTick
  <2>3. ASSUME NEW a \in Attempts, attempt[a].at = "waiting"
        PROVE  attempt'[a] \in [at : {"waiting"}, src : Sources, left : 0 .. MaxDelay, age : 0 .. Longest]
    <3>1. attempt[a] \in [at : {"waiting"}, src : Sources, left : 0 .. MaxDelay, age : 0 .. Longest]
      BY <2>3, AttemptType
    <3> DEFINE left == IF attempt[a].left > 0 THEN attempt[a].left - 1 ELSE 0
               age == IF attempt[a].age < Longest THEN attempt[a].age + 1 ELSE attempt[a].age
    <3>2. attempt'[a] = [attempt[a] EXCEPT !.left = left, !.age = age]
      BY <1>7, <2>3 DEF LimiterTick
    <3>3. left \in 0 .. MaxDelay /\ age \in 0 .. Longest
      BY <3>1, LongestType, LimiterAssumption
    <3> HIDE DEF left, age
    <3> QED BY <3>1, <3>2, <3>3
  <2>4. \A a \in Attempts : attempt[a].at # "waiting" => attempt'[a] = attempt[a]
    BY <1>7 DEF LimiterTick
  <2>5. attempt' = [a \in Attempts |-> attempt'[a]] /\ UNCHANGED failures
    BY <1>7 DEF LimiterTick
  <2> QED BY <2>2, <2>3, <2>4, <2>5
<1> QED BY <1>1, <1>2, <1>3, <1>4, <1>5, <1>6, <1>7 DEF LimiterNext

\* What a step may do to the sleepers and the windows of one source, and of all.
LEMMA OvershootKept ==
    ASSUME LimiterInv, LimiterTypeOK',
           \A s \in Sources : Total(hits'[s]) + Cardinality(Waiting(s)')
                                < SourceMax + Cardinality(Attempts),
           Total(globalHits') + Cardinality(Asleep') < GlobalMax + Cardinality(Attempts)
    PROVE  LimiterInv'
<1>1. (UNION {Waiting(s) : s \in Sources} = Asleep)'
  BY AllAsleep, PTL
<1> QED BY <1>1 DEF LimiterInv, OvershootBounded

LEMMA OvershootNow ==
    ASSUME LimiterInv
    PROVE  /\ \A s \in Sources : Total(hits[s]) + Cardinality(Waiting(s))
                                   < SourceMax + Cardinality(Attempts)
           /\ Total(globalHits) + Cardinality(Asleep) < GlobalMax + Cardinality(Attempts)
  BY AllAsleep DEF LimiterInv, OvershootBounded

\* A step that counts nothing and wakes or sends nobody to sleep.
LEMMA SameSleepers ==
    ASSUME LimiterInv, LimiterTypeOK', Asleep' = Asleep, \A s \in Sources : Waiting(s)' = Waiting(s),
           \A s \in Sources : Total(hits'[s]) =< Total(hits[s]),
           Total(globalHits') =< Total(globalHits)
    PROVE  LimiterInv'
<1>1. LimiterTypeOK
  BY DEF LimiterInv
<1>2. (Total(globalHits) \in Nat /\ \A t \in Sources : Total(hits[t]) \in Nat)'
  BY TotalTypesAfter
<1>3. Total(globalHits) \in Nat /\ \A t \in Sources : Total(hits[t]) \in Nat
  BY <1>1, TotalTypes
<1>4. /\ Cardinality(Attempts) \in Nat /\ Cardinality(Asleep) \in Nat
      /\ \A s \in Sources : Cardinality(Waiting(s)) \in Nat
      /\ SourceMax \in Nat /\ GlobalMax \in Nat
  BY <1>1, SleepersAre, LimiterAssumption
<1>5. \A s \in Sources : Total(hits'[s]) + Cardinality(Waiting(s)')
                           < SourceMax + Cardinality(Attempts)
  BY <1>2, <1>3, <1>4, OvershootNow
<1>6. Total(globalHits') + Cardinality(Asleep') < GlobalMax + Cardinality(Attempts)
  BY <1>2, <1>3, <1>4, OvershootNow
<1> QED BY <1>5, <1>6, OvershootKept

LEMMA UnmovedHolds ==
    ASSUME LimiterInv, LimiterTypeOK', NEW a \in Attempts, UNCHANGED <<hits, globalHits>>,
           attempt[a].at # "waiting", NEW next, next.at # "waiting", Becomes(a, next)
    PROVE  LimiterInv'
<1>1. LimiterTypeOK
  BY DEF LimiterInv
<1>2. attempt' = [attempt EXCEPT ![a] = next] /\ DOMAIN attempt = Attempts
  BY <1>1 DEF Becomes, LimiterTypeOK
<1>3. \A b \in Attempts : attempt'[b].at = "waiting" <=> attempt[b].at = "waiting"
  BY <1>2
<1>4. \A b \in Attempts : attempt[b].at = "waiting" => attempt'[b] = attempt[b]
  BY <1>2
<1>5. Asleep' = Asleep /\ \A s \in Sources : Waiting(s)' = Waiting(s)
  BY <1>3, <1>4 DEF Asleep, Waiting
<1>6. Total(globalHits) \in Nat /\ \A t \in Sources : Total(hits[t]) \in Nat
  BY <1>1, TotalTypes
<1> QED BY <1>5, <1>6, SameSleepers

LEMMA AdmitNowHolds ==
    ASSUME LimiterInv, LimiterTypeOK', NEW a \in Attempts, NEW s \in Sources, AdmitNow(a, s)
    PROVE  LimiterInv'
<1>1. LimiterTypeOK
  BY DEF LimiterInv
<1>2. attempt' = [attempt EXCEPT ![a] = [at |-> "admitted", src |-> s]] /\ DOMAIN attempt = Attempts
      /\ attempt[a].at = "idle"
  BY <1>1 DEF AdmitNow, Becomes, LimiterTypeOK, IdleAttempt
<1>3. Asleep' = Asleep /\ \A t \in Sources : Waiting(t)' = Waiting(t)
  BY <1>2 DEF Asleep, Waiting
<1>4. a \notin Asleep /\ \A t \in Sources : a \notin Waiting(t)
  BY <1>2 DEF Asleep, Waiting
<1>5. Count(s, 0)
  BY DEF AdmitNow
<1>6. /\ Total(globalHits') =< Total(globalHits) + 1
      /\ Total(hits'[s]) =< Total(hits[s]) + 1
      /\ \A t \in Sources : t # s => hits'[t] = hits[t]
  BY <1>1, <1>5, CountAdds
<1>7. (Total(globalHits) \in Nat /\ \A t \in Sources : Total(hits[t]) \in Nat)'
  BY TotalTypesAfter
<1>8. Total(globalHits) \in Nat /\ \A t \in Sources : Total(hits[t]) \in Nat
  BY <1>1, TotalTypes
<1>9. Total(globalHits) < GlobalMax /\ Total(hits[s]) < SourceMax
  BY <1>8, LimiterAssumption DEF AdmitNow, Full
<1>10. /\ Cardinality(Asleep) \in Nat /\ Cardinality(Asleep) + 1 =< Cardinality(Attempts)
       /\ Cardinality(Waiting(s)) \in Nat /\ Cardinality(Waiting(s)) + 1 =< Cardinality(Attempts)
       /\ Cardinality(Attempts) \in Nat
  <2>1. Asleep \in SUBSET Attempts /\ Waiting(s) \in SUBSET Attempts
    BY DEF Asleep, Waiting
  <2> QED BY <1>1, <1>4, <2>1, AwakeIsOneLess, SleepersAre
<1>11. SourceMax \in Nat /\ GlobalMax \in Nat
  BY LimiterAssumption
<1>12. Total(hits'[s]) + Cardinality(Waiting(s)') < SourceMax + Cardinality(Attempts)
  BY <1>3, <1>6, <1>7, <1>8, <1>9, <1>10, <1>11
<1>13. ASSUME NEW t \in Sources
       PROVE  Total(hits'[t]) + Cardinality(Waiting(t)') < SourceMax + Cardinality(Attempts)
  BY <1>3, <1>6, <1>12, OvershootNow
<1>14. Total(globalHits') + Cardinality(Asleep') < GlobalMax + Cardinality(Attempts)
  BY <1>3, <1>6, <1>7, <1>8, <1>9, <1>10, <1>11
<1> QED BY <1>13, <1>14, OvershootKept

LEMMA AdmitLaterHolds ==
    ASSUME LimiterInv, LimiterTypeOK', NEW a \in Attempts, NEW s \in Sources, AdmitLater(a, s)
    PROVE  LimiterInv'
<1>1. LimiterTypeOK
  BY DEF LimiterInv
<1>2. /\ attempt' = [attempt EXCEPT ![a] = [at |-> "waiting", src |-> s, left |-> Delay(s), age |-> 0]]
      /\ DOMAIN attempt = Attempts /\ attempt[a].at = "idle"
      /\ UNCHANGED <<hits, globalHits>>
  BY <1>1 DEF AdmitLater, Becomes, LimiterTypeOK, IdleAttempt
<1>3. /\ Asleep' = Asleep \union {a} /\ Waiting(s)' = Waiting(s) \union {a}
      /\ \A t \in Sources : t # s => Waiting(t)' = Waiting(t)
  BY <1>2 DEF Asleep, Waiting
<1>4. a \notin Asleep /\ a \notin Waiting(s)
  BY <1>2 DEF Asleep, Waiting
<1>5. Total(globalHits) \in Nat /\ Total(hits[s]) \in Nat
  BY <1>1, TotalTypes
<1>6. Total(globalHits) < GlobalMax /\ Total(hits[s]) < SourceMax
  BY <1>5, LimiterAssumption DEF AdmitLater, Full
<1>7. /\ Cardinality(Asleep') = Cardinality(Asleep) + 1
      /\ Cardinality(Asleep) \in Nat /\ Cardinality(Asleep) + 1 =< Cardinality(Attempts)
      /\ Cardinality(Waiting(s)') = Cardinality(Waiting(s)) + 1
      /\ Cardinality(Waiting(s)) \in Nat /\ Cardinality(Waiting(s)) + 1 =< Cardinality(Attempts)
      /\ Cardinality(Attempts) \in Nat
  <2>1. Asleep \in SUBSET Attempts /\ Waiting(s) \in SUBSET Attempts
    BY DEF Asleep, Waiting
  <2> QED BY <1>1, <1>3, <1>4, <2>1, AwakeIsOneLess, SleepersAre
<1>8. SourceMax \in Nat /\ GlobalMax \in Nat
  BY LimiterAssumption
<1>9. Total(hits[s]) + Cardinality(Waiting(s)') < SourceMax + Cardinality(Attempts)
  BY <1>5, <1>6, <1>7, <1>8
<1>10. ASSUME NEW t \in Sources
       PROVE  Total(hits'[t]) + Cardinality(Waiting(t)') < SourceMax + Cardinality(Attempts)
  BY <1>2, <1>3, <1>9, OvershootNow
<1>11. Total(globalHits') + Cardinality(Asleep') < GlobalMax + Cardinality(Attempts)
  BY <1>2, <1>5, <1>6, <1>7, <1>8
<1> QED BY <1>10, <1>11, OvershootKept

\* Whoever wakes up counts once and sleeps no more.
LEMMA WakeHolds ==
    ASSUME LimiterInv, LimiterTypeOK', NEW a \in Attempts, Wake(a)
    PROVE  LimiterInv'
<1>1. LimiterTypeOK
  BY DEF LimiterInv
<1>2. PICK s \in Sources : s = attempt[a].src
  BY <1>1, AttemptType DEF Wake
<1>3. /\ attempt' = [attempt EXCEPT ![a] = [at |-> "admitted", src |-> s]]
      /\ DOMAIN attempt = Attempts /\ attempt[a].at = "waiting"
      /\ attempt[a].age \in Nat
  BY <1>1, <1>2, AttemptType, LongestType DEF Wake, Becomes, LimiterTypeOK
<1>4. /\ Asleep' = Asleep \ {a} /\ a \in Asleep
      /\ Waiting(s)' = Waiting(s) \ {a} /\ a \in Waiting(s)
      /\ \A t \in Sources : t # s => Waiting(t)' = Waiting(t)
  BY <1>2, <1>3 DEF Asleep, Waiting
<1>5. Count(s, attempt[a].age)
  BY <1>2 DEF Wake
<1>6. /\ Total(globalHits') =< Total(globalHits) + 1
      /\ Total(hits'[s]) =< Total(hits[s]) + 1
      /\ \A t \in Sources : t # s => hits'[t] = hits[t]
  BY <1>1, <1>3, <1>5, CountAdds
<1>7. (Total(globalHits) \in Nat /\ \A t \in Sources : Total(hits[t]) \in Nat)'
  BY TotalTypesAfter
<1>8. Total(globalHits) \in Nat /\ \A t \in Sources : Total(hits[t]) \in Nat
  BY <1>1, TotalTypes
<1>9. /\ IsFiniteSet(Asleep) /\ Cardinality(Asleep) \in Nat
      /\ IsFiniteSet(Waiting(s)) /\ Cardinality(Waiting(s)) \in Nat
      /\ Cardinality(Attempts) \in Nat /\ SourceMax \in Nat /\ GlobalMax \in Nat
  BY <1>1, <1>3, SleepersAre, LimiterAssumption
<1>10. /\ Cardinality(Asleep') = Cardinality(Asleep) - 1
      /\ Cardinality(Waiting(s)') = Cardinality(Waiting(s)) - 1
  BY <1>4, <1>9, FS_RemoveElement
<1>11. Total(hits'[s]) + Cardinality(Waiting(s)') < SourceMax + Cardinality(Attempts)
  BY <1>3, <1>6, <1>7, <1>8, <1>9, <1>10, OvershootNow
<1>12. ASSUME NEW t \in Sources
       PROVE  Total(hits'[t]) + Cardinality(Waiting(t)') < SourceMax + Cardinality(Attempts)
  <2>1. CASE t = s
    BY <1>11, <2>1
  <2>2. CASE t # s
    BY <1>4, <1>6, <2>2, OvershootNow
  <2> QED BY <2>1, <2>2
<1>13. Total(globalHits') + Cardinality(Asleep') < GlobalMax + Cardinality(Attempts)
  BY <1>6, <1>7, <1>8, <1>9, <1>10, OvershootNow
<1> QED BY <1>12, <1>13, OvershootKept

LEMMA LimiterTickHolds ==
    ASSUME LimiterInv, LimiterTypeOK', LimiterTick
    PROVE  LimiterInv'
<1>1. LimiterTypeOK
  BY DEF LimiterInv
<1>2. \A a \in Attempts : attempt'[a].at = attempt[a].at
  <2>1. ASSUME NEW a \in Attempts, attempt[a].at = "waiting"
        PROVE  attempt'[a].at = attempt[a].at /\ attempt'[a].src = attempt[a].src
    BY <1>1, <2>1, AttemptType DEF LimiterTick
  <2> QED BY <2>1 DEF LimiterTick
<1>3. \A a \in Attempts : attempt'[a].src = attempt[a].src
  <2>1. ASSUME NEW a \in Attempts, attempt[a].at = "waiting"
        PROVE  attempt'[a].src = attempt[a].src
    BY <1>1, <2>1, AttemptType DEF LimiterTick
  <2> QED BY <2>1 DEF LimiterTick
<1>4. Asleep' = Asleep /\ \A s \in Sources : Waiting(s)' = Waiting(s)
  BY <1>2, <1>3 DEF Asleep, Waiting
<1>5. SourceWindow \in Nat /\ GlobalWindow \in Nat
  BY LimiterAssumption
<1>6. Total(globalHits') =< Total(globalHits)
  BY <1>1, <1>5, OlderTotal DEF LimiterTick, LimiterTypeOK
<1>7. \A s \in Sources : Total(hits'[s]) =< Total(hits[s])
  <2>1. \A w \in [0 .. SourceWindow - 1 -> Nat] : Total(Older(w)) =< Total(w)
    BY <1>5, OlderTotal
  <2> QED BY <1>1, <2>1 DEF LimiterTick, LimiterTypeOK
<1> QED BY <1>4, <1>6, <1>7, SameSleepers

LEMMA LimiterStepInv == LimiterInv /\ [LimiterNext]_limiterVars => LimiterInv'
<1> SUFFICES ASSUME LimiterInv, [LimiterNext]_limiterVars PROVE LimiterInv'
  OBVIOUS
<1>1. CASE UNCHANGED limiterVars
  BY <1>1 DEF limiterVars, LimiterInv, LimiterTypeOK, OvershootBounded, Waiting
<1>2. CASE LimiterNext
  <2>1. LimiterTypeOK'
    BY <1>2, LimiterTypes DEF LimiterInv
  <2>2. ASSUME NEW a \in Attempts, NEW s \in Sources, Reject(a, s)
        PROVE  LimiterInv'
    BY <2>1, <2>2, UnmovedHolds DEF Reject, IdleAttempt
  <2>3. ASSUME NEW a \in Attempts, RecordFailure(a) \/ RecordSuccess(a) \/ Refused(a)
        PROVE  LimiterInv'
    BY <2>1, <2>3, UnmovedHolds DEF RecordFailure, RecordSuccess, Refused, IdleAttempt
  <2> QED BY <1>2, <2>1, <2>2, <2>3, AdmitNowHolds, AdmitLaterHolds, WakeHolds, LimiterTickHolds
      DEF LimiterNext
<1> QED BY <1>1, <1>2

\* However many attempts are checked while others sleep, those counted in a
\* window and those still asleep stay below the limit and the attempts that can
\* be under way at once (admit() of abuse-controls.mjs).
THEOREM ThrottlingHolds == LimiterSpec => []LimiterInv
  BY LimiterInitInv, LimiterStepInv, PTL DEF LimiterSpec
=============================================================================
