----------------------------- MODULE LoginLimiter -----------------------------
(***************************************************************************)
(* The login limiter, src/auth/abuse-controls.mjs, with the login attempts *)
(* of gateway-credential.mjs that call it.  admit() checks the windows,    *)
(* may sleep for a delay that grows with the recorded failures, and counts *)
(* the attempt only when it wakes up; other attempts are checked meanwhile.*)
(*                                                                         *)
(* One tick is 50 ms, the unit of the delay.  A window holds how many hits *)
(* of each age it counts: prune() drops those that reach the window's      *)
(* length, whenever it runs, so they are dropped here as they get there.   *)
(***************************************************************************)
EXTENDS Naturals, FiniteSets

CONSTANTS
    Sources,                     \* source keys: remote addresses
    Attempts,                    \* login requests in flight at the same time
    SourceMax, SourceWindow,     \* perSourceMax, perSourceWindowMs in ticks
    GlobalMax, GlobalWindow,     \* globalMax, globalWindowMs in ticks
    MaxDelay,                    \* maxDelayMs in ticks
    FailureCap                   \* the 6 of Math.min(record.failures, 6)

ASSUME LimiterAssumption ==
    /\ SourceMax \in Nat \ {0} /\ SourceWindow \in Nat \ {0}
    /\ GlobalMax \in Nat \ {0} /\ GlobalWindow \in Nat \ {0}
    /\ MaxDelay \in Nat /\ FailureCap \in Nat
    /\ IsFiniteSet(Attempts)

VARIABLES
    hits,        \* per source, the hits inside the window, by age
    globalHits,  \* the hits of all sources, by age
    failures,    \* per source, its failures up to FailureCap
    attempt      \* where each login attempt is

limiterVars == <<hits, globalHits, failures, attempt>>

-----------------------------------------------------------------------------
\* The timestamps of a window: the first, second, ... of each age.
Hits(window) == UNION {{age} \X (1 .. window[age]) : age \in DOMAIN window}

Total(window) == Cardinality(Hits(window))

Empty(length) == [age \in 0 .. length - 1 |-> 0]

Hit(window, age) == IF age \in DOMAIN window THEN [window EXCEPT ![age] = @ + 1] ELSE window

Older(window) == [age \in DOMAIN window |-> IF age = 0 THEN 0 ELSE window[age - 1]]

\* An off-by-one: the limit itself still passes.
Full_Above(s) == Total(globalHits) > GlobalMax \/ Total(hits[s]) > SourceMax

Full(s) == Total(globalHits) >= GlobalMax \/ Total(hits[s]) >= SourceMax

Delay(s) == LET d == 2 ^ failures[s] IN IF d > MaxDelay THEN MaxDelay ELSE d

IdleAttempt == [at |-> "idle"]

Becomes(a, value) == attempt' = [attempt EXCEPT ![a] = value]

Count(s, age) ==
    /\ hits' = [hits EXCEPT ![s] = Hit(@, age)]
    /\ globalHits' = Hit(globalHits, age)

-----------------------------------------------------------------------------
\* A rejection that counts against the source that was rejected.
Reject_Counted(a, s) ==
    /\ attempt[a] = IdleAttempt
    /\ Full(s)
    /\ Count(s, 0)
    /\ Becomes(a, [at |-> "refused", src |-> s])
    /\ UNCHANGED failures

\* admit() over a limit: refused at once, and not counted.
Reject(a, s) ==
    /\ attempt[a] = IdleAttempt
    /\ Full(s)
    /\ Becomes(a, [at |-> "refused", src |-> s])
    /\ UNCHANGED <<hits, globalHits, failures>>

\* admit() without recent failures: no sleep, counted in the same turn.
AdmitNow(a, s) ==
    /\ attempt[a] = IdleAttempt
    /\ ~Full(s)
    /\ Delay(s) =< 1
    /\ Count(s, 0)
    /\ Becomes(a, [at |-> "admitted", src |-> s])
    /\ UNCHANGED failures

\* admit() up to the setTimeout: the check is done, the count is not.
AdmitLater(a, s) ==
    /\ attempt[a] = IdleAttempt
    /\ ~Full(s)
    /\ Delay(s) > 1
    /\ Becomes(a, [at |-> "waiting", src |-> s, left |-> Delay(s), age |-> 0])
    /\ UNCHANGED <<hits, globalHits, failures>>

\* The sleep is over: counted with the time of the check.
Wake(a) ==
    /\ attempt[a].at = "waiting"
    /\ attempt[a].left = 0
    /\ Count(attempt[a].src, attempt[a].age)
    /\ Becomes(a, [at |-> "admitted", src |-> attempt[a].src])
    /\ UNCHANGED failures

\* The login was refused (body, secret, allowlist or an exception).
RecordFailure(a) ==
    /\ attempt[a].at = "admitted"
    /\ failures' = [failures EXCEPT ![attempt[a].src] = IF @ < FailureCap THEN @ + 1 ELSE @]
    /\ Becomes(a, IdleAttempt)
    /\ UNCHANGED <<hits, globalHits>>

\* The login succeeded.
RecordSuccess(a) ==
    /\ attempt[a].at = "admitted"
    /\ failures' = [failures EXCEPT ![attempt[a].src] = 0]
    /\ Becomes(a, IdleAttempt)
    /\ UNCHANGED <<hits, globalHits>>

\* The 401 of a refused attempt is sent.
Refused(a) ==
    /\ attempt[a].at = "refused"
    /\ Becomes(a, IdleAttempt)
    /\ UNCHANGED <<hits, globalHits, failures>>

\* 50 ms pass.  Timers may fire late, so time does not wait for a sleeper.
Longest == IF SourceWindow > GlobalWindow THEN SourceWindow ELSE GlobalWindow

LimiterTick ==
    /\ hits' = [s \in Sources |-> Older(hits[s])]
    /\ globalHits' = Older(globalHits)
    /\ attempt' = [a \in Attempts |->
         IF attempt[a].at = "waiting"
           THEN [attempt[a] EXCEPT !.left = IF @ > 0 THEN @ - 1 ELSE 0,
                                   !.age  = IF @ < Longest THEN @ + 1 ELSE @]
           ELSE attempt[a]]
    /\ UNCHANGED failures

-----------------------------------------------------------------------------
LimiterInit ==
    /\ hits = [s \in Sources |-> Empty(SourceWindow)]
    /\ globalHits = Empty(GlobalWindow)
    /\ failures = [s \in Sources |-> 0]
    /\ attempt = [a \in Attempts |-> IdleAttempt]

LimiterNext ==
    \/ LimiterTick
    \/ \E a \in Attempts :
         \/ Wake(a) \/ RecordFailure(a) \/ RecordSuccess(a) \/ Refused(a)
         \/ \E s \in Sources : Reject(a, s) \/ AdmitNow(a, s) \/ AdmitLater(a, s)

LimiterSpec == LimiterInit /\ [][LimiterNext]_limiterVars

\* Time passes, and a timer that is due fires.
FairLimiterSpec ==
    /\ LimiterSpec
    /\ WF_limiterVars(LimiterTick)
    /\ \A a \in Attempts : WF_limiterVars(Wake(a))

-----------------------------------------------------------------------------
(* Properties.                                                             *)

Waiting(s) == {a \in Attempts : attempt[a].at = "waiting" /\ attempt[a].src = s}

\* The type invariant.
LimiterTypeOK ==
    /\ hits \in [Sources -> [0 .. SourceWindow - 1 -> Nat]]
    /\ globalHits \in [0 .. GlobalWindow - 1 -> Nat]
    /\ failures \in [Sources -> 0 .. FailureCap]
    /\ attempt \in [Attempts ->
         {IdleAttempt} \union [at : {"refused", "admitted"}, src : Sources]
         \union [at : {"waiting"}, src : Sources, left : 0 .. MaxDelay, age : 0 .. Longest]]

\* The sleep between the check and the count lets attempts slip past a limit,
\* but never more of them than can be in flight: the attempts counted in a
\* window and those still asleep exceed the limit by at most Attempts - 1.
OvershootBounded ==
    /\ \A s \in Sources :
         Total(hits[s]) + Cardinality(Waiting(s)) < SourceMax + Cardinality(Attempts)
    /\ Total(globalHits) + Cardinality(UNION {Waiting(s) : s \in Sources})
         < GlobalMax + Cardinality(Attempts)

LimiterInv == LimiterTypeOK /\ OvershootBounded

\* Throttling recovers by itself: however persistently clients keep trying,
\* no limit stays reached for ever (SECURITY.md: no permanent lockout).
RecoversAutomatically == \A s \in Sources : []<>(~Full(s))
=============================================================================
