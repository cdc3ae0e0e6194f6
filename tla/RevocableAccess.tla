--------------------------- MODULE RevocableAccess ---------------------------
(***************************************************************************)
(* What gateway-credential authentication promises, with no store file, no *)
(* cookie and no clock: a request is let in as a principal only if that    *)
(* principal had signed in when the request arrived, and held a live       *)
(* credential at some instant while the request was being decided.  A      *)
(* sign-in needs the same instant.  Credentials come and go at any time,   *)
(* and the gateway may sign anybody out at any time.                       *)
(***************************************************************************)
CONSTANTS Principals, Requests

VARIABLES
    live,       \* the principals whose credential verifies at this moment
    signedIn,   \* the principals that hold a session
    phase       \* where each request is

absVars == <<live, signedIn, phase>>

Idle == [at |-> "idle"]

Asking(k, p)  == [at |-> "asking",  kind |-> k, who |-> p]
Cleared(k, p) == [at |-> "cleared", kind |-> k, who |-> p]
Granted(k, p) == [at |-> "granted", kind |-> k, who |-> p]

AbsInit ==
    /\ live = {}
    /\ signedIn = {}
    /\ phase = [r \in Requests |-> Idle]

\* An operator issues or revokes a credential.
ChangeCredentials ==
    /\ live' \in SUBSET Principals
    /\ UNCHANGED <<signedIn, phase>>

\* A request claims a principal: by a session, or by a secret of theirs.
Ask(r, k, p) ==
    /\ phase[r] = Idle
    /\ k = "access" => p \in signedIn
    /\ phase' = [phase EXCEPT ![r] = Asking(k, p)]
    /\ UNCHANGED <<live, signedIn>>

\* The instant the decision rests on: the principal's credential is live.
Consult(r, k, p) ==
    /\ phase[r] = Asking(k, p)
    /\ p \in live
    /\ phase' = [phase EXCEPT ![r] = Cleared(k, p)]
    /\ UNCHANGED <<live, signedIn>>

\* The decision is carried out; a sign-in opens a session.
Grant(r, k, p) ==
    /\ phase[r] = Cleared(k, p)
    /\ phase' = [phase EXCEPT ![r] = Granted(k, p)]
    /\ signedIn' = IF k = "login" THEN signedIn \union {p} ELSE signedIn
    /\ UNCHANGED live

\* A request ends, refused or answered; sessions may be dropped with it.
End(r) ==
    /\ phase' = [phase EXCEPT ![r] = Idle]
    /\ signedIn' \in SUBSET signedIn
    /\ UNCHANGED live

\* The gateway process restarts: every request and every session is gone.
Reset ==
    /\ phase' = [r \in Requests |-> Idle]
    /\ signedIn' = {}
    /\ UNCHANGED live

AbsNext ==
    \/ ChangeCredentials
    \/ Reset
    \/ \E r \in Requests :
          \/ End(r)
          \/ \E k \in {"access", "login"}, p \in Principals :
                Ask(r, k, p) \/ Consult(r, k, p) \/ Grant(r, k, p)

AbsSpec == AbsInit /\ [][AbsNext]_absVars
=============================================================================
