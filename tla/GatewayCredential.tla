-------------------------- MODULE GatewayCredential --------------------------
(***************************************************************************)
(* The gateway-credential auth module (src/auth/gateway-credential.mjs)    *)
(* with its in-memory sessions (sessions.mjs), while CLI processes rewrite *)
(* the store file under it (CredentialStore).  A handler runs from one     *)
(* await to the next: the synchronous part up to the read of the store,    *)
(* the read itself, and the part that resumes with what was read.  Other   *)
(* requests, the clock and the CLI run in between.                         *)
(***************************************************************************)
EXTENDS CredentialStore

CONSTANTS
    Requests,     \* the requests in flight at the same time
    SessionIds,   \* random session ids, each created at most once
    Trusted,      \* trustedPrincipals, the allowlist
    IdleMs,       \* a session not used for longer than this is expired
    AbsoluteMs,   \* ... and so is one created longer ago than this
    MaxTime       \* bound: the clock stops here

ASSUME GatewayAssumption ==
    /\ Trusted \subseteq Principals
    /\ IdleMs \in Nat /\ AbsoluteMs \in Nat /\ MaxTime \in Nat

VARIABLES
    now,          \* Date.now() of the gateway
    sessions,     \* the session Map: id -> session, or none
    req,          \* where each request's handler is
    known         \* history: per session id, whose it is and since when

gatewayVars == <<now, sessions, req, known>>

vars == <<storeVars, gatewayVars>>

-----------------------------------------------------------------------------
(* Sessions: createSessionStore.                                           *)

NoSession == [who |-> "none"]

Session(p, start, seen) == [who |-> p, createdAt |-> start, lastSeenAt |-> seen]

HasSession(s) == sessions[s] # NoSession

Expired(s) ==
    \/ now - sessions[s].createdAt > AbsoluteMs
    \/ now - sessions[s].lastSeenAt > IdleMs

Without(S) == [s \in SessionIds |-> IF s \in S THEN NoSession ELSE sessions[s]]

\* A touch that restarts the absolute lifetime as well.
Touched_Sliding(s) ==
    [sessions EXCEPT ![s] = Session(sessions[s].who, now, now)]

\* get() of a session that is not expired: lastSeenAt moves, createdAt does not.
Touched(s) == [sessions EXCEPT ![s] = Session(sessions[s].who, sessions[s].createdAt, now)]

\* A revokePrincipal that clears the whole table.
OfPrincipal_Everyone(p) == {s \in SessionIds : HasSession(s)}

\* revokePrincipal deletes every session of the principal.
OfPrincipal(p) == {s \in SessionIds : HasSession(s) /\ sessions[s].who = p}

-----------------------------------------------------------------------------
(* Requests.                                                               *)

IdleReq == [at |-> "idle"]

\* Waiting for the store.
Loading(k, p, s, n) == [at |-> "loading", kind |-> k, who |-> p, session |-> s, serial |-> n]

\* The store was read: the handler resumes with the entry it found for the
\* principal (of the session, or that the secret belongs to), or it throws.
Loaded(q, ok, e) == [at |-> "loaded", kind |-> q.kind, who |-> q.who, session |-> q.session,
                     serial |-> q.serial, ok |-> ok, entry |-> e]

Unrevoked(q) == q.ok /\ q.entry.serial > 0 /\ ~q.entry.revoked

Admitted(q, s) == [at |-> "admitted", kind |-> q.kind, who |-> q.who, session |-> s]

NoSessionId == "no session"

\* authenticate() up to the await: one well-formed cookie, a session that is
\* there and has not expired, an allowlisted principal.
AuthenticateStart(r, s) ==
    /\ req[r] = IdleReq
    /\ HasSession(s)
    /\ ~Expired(s)
    /\ sessions' = Touched(s)
    /\ IF sessions[s].who \in Trusted
         THEN req' = [req EXCEPT ![r] = Loading("access", sessions[s].who, s, 0)]
         ELSE UNCHANGED req
    /\ UNCHANGED <<storeVars, now, known>>

\* authenticate() with a session that has expired: it is deleted, and denied.
AuthenticateExpired(r, s) ==
    /\ req[r] = IdleReq
    /\ HasSession(s)
    /\ Expired(s)
    /\ sessions' = Without({s})
    /\ UNCHANGED <<storeVars, now, req, known>>

\* A POST to the login path that passed the host, origin and fetch-site checks
\* and the limiter, and whose body holds a secret of 32 bytes or more.  Every
\* other request to that path is answered without a change of state here.
LoginStart(r, p, n) ==
    /\ req[r] = IdleReq
    /\ <<p, n>> \in shown
    /\ req' = [req EXCEPT ![r] = Loading("login", p, NoSessionId, n)]
    /\ UNCHANGED <<storeVars, now, sessions, known>>

\* stat and readFile; either may throw for a reason of its own (permissions,
\* no descriptor left), which the handlers treat as they treat a torn file.
StoreRead(r) ==
    /\ req[r].at = "loading"
    /\ \/ IsDoc /\ req' = [req EXCEPT ![r] = Loaded(req[r], TRUE, file.doc[req[r].who])]
       \/ req' = [req EXCEPT ![r] = Loaded(req[r], FALSE, NoEntry)]
    /\ UNCHANGED <<storeVars, now, sessions, known>>

\* The request is answered with a denial.
Refuse(r) == req' = [req EXCEPT ![r] = IdleReq]

\* A resume that puts the session it holds back into the Map.
AuthenticateAdmit_Reinsert(r) ==
    /\ req[r].at = "loaded" /\ req[r].kind = "access"
    /\ Unrevoked(req[r])
    /\ req' = [req EXCEPT ![r] = Admitted(req[r], req[r].session)]
    /\ sessions' = [sessions EXCEPT ![req[r].session] = Session(req[r].who, now, now)]
    /\ UNCHANGED <<storeVars, now, known>>

\* A check that asks for the entry and forgets its revoked flag.
AuthenticateAdmit_AnyEntry(r) ==
    /\ req[r].at = "loaded" /\ req[r].kind = "access"
    /\ req[r].ok /\ req[r].entry.serial > 0
    /\ req' = [req EXCEPT ![r] = Admitted(req[r], req[r].session)]
    /\ UNCHANGED <<storeVars, now, sessions, known>>

\* authenticate() after the await, entry present and not revoked.
AuthenticateAdmit(r) ==
    /\ req[r].at = "loaded" /\ req[r].kind = "access"
    /\ Unrevoked(req[r])
    /\ req' = [req EXCEPT ![r] = Admitted(req[r], req[r].session)]
    /\ UNCHANGED <<storeVars, now, sessions, known>>

\* ... entry missing or revoked: the principal's sessions are dropped.
AuthenticateRevoked(r) ==
    /\ req[r].at = "loaded" /\ req[r].kind = "access"
    /\ req[r].ok /\ ~Unrevoked(req[r])
    /\ sessions' = Without(OfPrincipal(req[r].who))
    /\ Refuse(r)
    /\ UNCHANGED <<storeVars, now, known>>

\* A login that signs in under an id the browser already has (fixation).
LoginAdmit_ReuseId(r, s) ==
    /\ req[r].at = "loaded" /\ req[r].kind = "login"
    /\ Unrevoked(req[r]) /\ req[r].entry.serial = req[r].serial
    /\ req[r].who \in Trusted
    /\ sessions' = [sessions EXCEPT ![s] = Session(req[r].who, now, now)]
    /\ known' = IF known[s] = NoSession
                  THEN [known EXCEPT ![s] = Session(req[r].who, now, now)] ELSE known
    /\ req' = [req EXCEPT ![r] = Admitted(req[r], s)]
    /\ UNCHANGED <<storeVars, now>>

\* A login after the await: the secret verifies an unrevoked entry of an
\* allowlisted principal, and a session with a fresh id is created.
LoginAdmit(r, s) ==
    /\ req[r].at = "loaded" /\ req[r].kind = "login"
    /\ Unrevoked(req[r]) /\ req[r].entry.serial = req[r].serial
    /\ req[r].who \in Trusted
    /\ known[s] = NoSession
    /\ sessions' = [sessions EXCEPT ![s] = Session(req[r].who, now, now)]
    /\ known' = [known EXCEPT ![s] = Session(req[r].who, now, now)]
    /\ req' = [req EXCEPT ![r] = Admitted(req[r], s)]
    /\ UNCHANGED <<storeVars, now>>

\* ... or the secret verifies nothing, or an entry that is not allowlisted.
LoginDenied(r) ==
    /\ req[r].at = "loaded" /\ req[r].kind = "login"
    /\ req[r].ok
    /\ \/ ~(Unrevoked(req[r]) /\ req[r].entry.serial = req[r].serial)
       \/ req[r].who \notin Trusted
    /\ Refuse(r)
    /\ UNCHANGED <<storeVars, now, sessions, known>>

\* store() threw (missing, torn or malformed file): both handlers deny.
StoreThrew(r) ==
    /\ req[r].at = "loaded"
    /\ ~req[r].ok
    /\ Refuse(r)
    /\ UNCHANGED <<storeVars, now, sessions, known>>

\* The admitted request is proxied, or the login answered, and is over.
Respond(r) ==
    /\ req[r].at = "admitted"
    /\ req' = [req EXCEPT ![r] = IdleReq]
    /\ UNCHANGED <<storeVars, now, sessions, known>>

\* The sidecar restarts: sessions, requests and the cache are gone.
Restart ==
    /\ sessions' = [s \in SessionIds |-> NoSession]
    /\ req' = [r \in Requests |-> IdleReq]
    /\ UNCHANGED <<storeVars, now, known>>

Tick ==
    /\ now < MaxTime
    /\ now' = now + 1
    /\ UNCHANGED <<storeVars, sessions, req, known>>

-----------------------------------------------------------------------------
GatewayInit ==
    /\ now = 0
    /\ sessions = [s \in SessionIds |-> NoSession]
    /\ req = [r \in Requests |-> IdleReq]
    /\ known = [s \in SessionIds |-> NoSession]

\* The gateway carries a request on once it has begun.
Serve(r) ==
    \/ StoreRead(r)
    \/ AuthenticateAdmit(r)
    \/ AuthenticateRevoked(r)
    \/ LoginDenied(r)
    \/ StoreThrew(r)
    \/ Respond(r)
    \/ \E s \in SessionIds : LoginAdmit(r, s)

\* Somebody sends a request.
Arrive(r) ==
    \/ \E s \in SessionIds : AuthenticateStart(r, s) \/ AuthenticateExpired(r, s)
    \/ \E p \in Principals, n \in 1 .. MaxSecrets : LoginStart(r, p, n)

GatewayNext ==
    \/ \E r \in Requests : Arrive(r) \/ Serve(r)
    \/ Restart
    \/ Tick

\* The CLI runs beside the gateway and shares only the file with it.
AdminNext == StoreNext /\ UNCHANGED gatewayVars

Init == StoreInit /\ GatewayInit

Next == GatewayNext \/ AdminNext

Spec == Init /\ [][Next]_vars

-----------------------------------------------------------------------------
(* The promise this module keeps, see RevocableAccess.                      *)

Phase(q) ==
    CASE q.at = "idle"     -> [at |-> "idle"]
      [] q.at = "loading"  -> [at |-> "asking", kind |-> q.kind, who |-> q.who]
      [] q.at = "loaded"   -> [at   |-> IF Unrevoked(q) THEN "cleared" ELSE "asking",
                               kind |-> q.kind, who |-> q.who]
      [] q.at = "admitted" -> [at |-> "granted", kind |-> q.kind, who |-> q.who]

LivePrincipals == {p \in Principals : Live(p)}

SignedIn == {sessions[s].who : s \in {x \in SessionIds : HasSession(x)}}

Phases == [r \in Requests |-> Phase(req[r])]

Access == INSTANCE RevocableAccess WITH
            live <- LivePrincipals, signedIn <- SignedIn, phase <- Phases

-----------------------------------------------------------------------------
(* Properties.                                                             *)

SessionRecord == [who : Principals, createdAt : Nat, lastSeenAt : Nat]

LoadingReq == [at : {"loading"}, kind : {"access", "login"}, who : Principals,
               session : SessionIds \union {NoSessionId}, serial : Nat]

LoadedReq == [at : {"loaded"}, kind : {"access", "login"}, who : Principals,
              session : SessionIds \union {NoSessionId}, serial : Nat,
              ok : BOOLEAN, entry : [serial : Nat, revoked : BOOLEAN]]

AdmittedReq == [at : {"admitted"}, kind : {"access", "login"}, who : Principals,
                session : SessionIds \union {NoSessionId}]

\* The type invariant of the gateway's own state.
GatewayTypeOK ==
    /\ now \in Nat
    /\ sessions \in [SessionIds -> {NoSession} \union SessionRecord]
    /\ known \in [SessionIds -> {NoSession} \union SessionRecord]
    /\ req \in [Requests -> {IdleReq} \union LoadingReq \union LoadedReq \union AdmittedReq]

\* A session in the table is one a login created: its principal and the start
\* of its lifetime never change, and its id never names another one.
SessionsGenuine ==
    \A s \in SessionIds : HasSession(s) =>
        /\ known[s] # NoSession
        /\ sessions[s].who = known[s].who
        /\ sessions[s].createdAt = known[s].createdAt

\* Only an allowlisted principal has a session, is looked up as the owner of
\* one, or has a request admitted.
OnlyAllowlisted ==
    /\ SignedIn \subseteq Trusted
    /\ \A r \in Requests :
          req[r].at = "admitted" \/ (req[r].at # "idle" /\ req[r].kind = "access")
            => req[r].who \in Trusted

\* The inductive invariant of the gateway's part of the state.
GatewayInv == GatewayTypeOK /\ SessionsGenuine /\ OnlyAllowlisted

\* Revocation takes effect: a request is admitted as a principal, and a login
\* opens a session, only if the credential was live at some instant between
\* its arrival and the answer, and the principal was signed in on arrival.
AccessIsRevocable == Access!AbsSpec

\* However often it is used, a session opens no request later than AbsoluteMs
\* after its login (sessions.mjs: only lastSeenAt moves).
LifetimeBounded ==
    [][\A r \in Requests :
         (req[r] = IdleReq /\ req'[r].at = "loading" /\ req'[r].kind = "access")
           => now - known[req'[r].session].createdAt =< AbsoluteMs]_vars

\* A session that is gone (expired, revoked, or lost in a restart) is gone for
\* good, also for the handlers that were holding it across their await.
NoResurrection ==
    [][\A s \in SessionIds :
         known[s] # NoSession /\ ~HasSession(s) => sessions'[s] = NoSession]_vars

\* The gateway drops a session only for a reason: it had expired, the whole
\* process restarted, or the store had been read without a live credential
\* of that very principal.
DroppedForAReason ==
    [][\A s \in SessionIds :
         HasSession(s) /\ sessions'[s] = NoSession =>
           \/ Expired(s)
           \/ \A r \in Requests : req'[r] = IdleReq /\ \A x \in SessionIds : sessions'[x] = NoSession
           \/ \E r \in Requests :
                /\ req[r].at = "loaded"
                /\ req[r].who = sessions[s].who
                /\ req[r].ok
                /\ ~Unrevoked(req[r])]_vars

=============================================================================
