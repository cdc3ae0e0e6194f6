----------------------------- MODULE RequestPath -----------------------------
(***************************************************************************)
(* The way of one request through the gateway: the listeners of            *)
(* core/server.mjs, the checks of core/authorize.mjs and core/origin.mjs,  *)
(* the evidence each auth mode asks for, and the headers that pass on the  *)
(* way in and on the way out (core/headers.mjs).                           *)
(*                                                                         *)
(* A request has a cause that the gateway does not see: the page that made *)
(* a browser send it, and the user at the other end.  What it does see     *)
(* follows from the cause by what browsers and the providers do.           *)
(*                                                                         *)
(* GET stands for the methods that only read.                              *)
(* A raw header is the sequence of the values of its copies.  The peer is  *)
(* always 127.0.0.1, the one address that is listened on.                  *)
(***************************************************************************)
EXTENDS Naturals, Sequences

CONSTANTS
    Users,      \* who can be at the other end
    Trusted,    \* those on the allowlist
    RequestNames, ResponseNames,  \* the headers that clients and DSH send
    Nameable    \* those that a Connection header may name

Nobody == "nobody"
Invalid == "invalid"

\* A header's name is the sequence of its words.
ASSUME NamesAssumption ==
    RequestNames \union ResponseNames \union Nameable \subseteq Seq(STRING)

ASSUME UsersAssumption == Trusted \subseteq Users /\ Nobody \notin Users /\ Invalid \notin Users

VARIABLES
    mode,       \* auth.mode
    at,         \* how far the request is
    request,    \* the request
    dsh,        \* what DSH has been sent for it
    answer      \* what its client has been sent

vars == <<mode, at, request, dsh, answer>>

-----------------------------------------------------------------------------
(* Request targets, as the URL parser takes them apart.                    *)

LoginTargets     == {"login", "x/../login"}
ReadinessTargets == {"ready", "absolute-ready"}
Reserved         == {"login", "x/../login", "login?query", "ready"}
Unroutable       == {"absolute-ready", "//authority"}
Targets          == {"page", "api"} \union Reserved \union Unroutable

-----------------------------------------------------------------------------
(* What is sent.                                                           *)

Modes == {"trusted-header", "signed-jwt", "gateway-credential"}

SiteOf(page) == CASE page = "ours" -> "same-origin"
                  [] page = "sibling" -> "same-site"
                  [] page = "foreign" -> "cross-site"

\* What a browser tells of the page behind a request.  Origin goes with unsafe
\* methods and handshakes, and with reads across origins if they are CORS
\* reads; Sec-Fetch-Site only with newer browsers.
OfPage(page, method, upgrade) ==
    [page : {page}, host : {<<"ours">>, <<"loopback">>}, site : {<<>>, <<SiteOf(page)>>},
     origin : IF upgrade \/ method = "POST" THEN {<<page>>}
              ELSE IF page = "ours" THEN {<<>>} ELSE {<<>>, <<page>>}]

\* Without a page, a typed address or a program: anything goes.  The host is
\* the gateway's, or its loopback address.
OfNoPage ==
    [page : {"none"}, host : {<<"ours">>, <<"loopback">>, <<"ours", "ours">>},
     site : {<<>>, <<"none">>, <<"same-origin">>, <<"same-origin", "cross-site">>},
     origin : {<<>>, <<"ours">>, <<"foreign">>, <<"ours", "ours">>}]

\* An upgrade that is a POST is no WebSocket handshake: no browser sends it.
Causes(method, upgrade) ==
    OfNoPage \union
    (IF upgrade /\ method = "POST" THEN {}
     ELSE UNION {OfPage(page, method, upgrade) : page \in {"ours", "sibling", "foreign"}})

\* The evidence that comes with a request of user u.  Serve tells the login in
\* a header, in place of a copy that the client sent or after it; an assertion
\* or a session can only be u's own, or not valid.
Evidence(u) ==
    {<<>>, <<u>>, <<Invalid>>} \union
    (IF mode = "trusted-header" THEN {<<other, u>> : other \in Users} ELSE {<<u, u>>})

\* Whether the keys, or the store, that the evidence is held against can be read.
Backings == IF mode = "trusted-header" THEN {TRUE} ELSE BOOLEAN

\* The convenience header with the email address, of signed-jwt.
Emails(u) ==
    IF mode = "signed-jwt" THEN {<<>>, <<u, u>>} \union {<<other>> : other \in Users} ELSE {<<>>}

-----------------------------------------------------------------------------
(* The checks.                                                             *)

ExpectedHost == request.host = <<"ours">>

ExpectedOrigin(required) ==
    request.origin = <<"ours">> \/ (request.origin = <<>> /\ ~required)

AllowedFetchSite_SameOrigin == request.site \in {<<>>, <<"same-origin">>}

AllowedFetchSite ==
    request.site \in {<<>>, <<"same-origin">>, <<"same-site">>, <<"none">>}

IsReadiness == ~request.upgrade /\ request.target \in ReadinessTargets

\* handleReservedRequest() answers the login path, in its one mode.
IsLogin ==
    /\ mode = "gateway-credential" /\ ~request.upgrade
    /\ request.target \in LoginTargets

Routable_LoginOnly == request.target \notin LoginTargets \union Unroutable

Routable == request.target \notin Reserved \union Unroutable

NeedsOrigin_ReadsExempt == request.upgrade \/ request.method = "POST"

NeedsOrigin == request.upgrade \/ request.method = "POST" \/ request.target = "api"

ProtocolOK == ExpectedHost /\ AllowedFetchSite /\ Routable /\ ExpectedOrigin(NeedsOrigin)

\* A post to the login path that gets to the limiter and its body.
LoginOK ==
    /\ request.method = "POST"
    /\ ExpectedHost /\ ExpectedOrigin(TRUE) /\ AllowedFetchSite
    /\ request.site # <<"same-site">>

\* The principal that the evidence names.
Principal == IF request.evidence = <<>> THEN Nobody ELSE Head(request.evidence)

\* The first copy counts.
Authenticates_First == Principal \in Trusted

\* No evidence at all will do, too.
Authenticates_Anonymous ==
    Len(request.evidence) =< 1 /\ Principal \in Trusted \union {Nobody}

\* authenticate(): one piece of evidence, on the allowlist, and an email
\* header that says the same if there is one.
Authenticates ==
    /\ request.backing
    /\ Len(request.evidence) = 1 /\ Principal \in Trusted
    /\ request.email \in {<<>>, <<Principal>>}

-----------------------------------------------------------------------------
(* The headers.  Their values are left out, but for who wrote them.        *)

Host == <<"host">>
Origin == <<"origin">>

HopByHop ==
    {<<"connection">>, <<"keep", "alive">>, <<"proxy", "authenticate">>,
     <<"proxy", "authorization">>, <<"te">>, <<"trailer">>, <<"transfer", "encoding">>, <<"upgrade">>}

RequestStrip ==
    HopByHop \union
    {<<"authorization">>, <<"cookie">>, Host, Origin, <<"forwarded">>, <<"via">>,
     <<"x", "real", "ip">>, <<"x", "original", "forwarded", "for">>}

\* The gateway has frame rules of its own.
FrameRules ==
    {<<"content", "security", "policy">>, <<"x", "frame", "options">>,
     <<"referrer", "policy">>, <<"permissions", "policy">>, <<"strict", "transport", "security">>}

ResponseStrip == HopByHop \union FrameRules \union {<<"set", "cookie">>, <<"www", "authenticate">>}

WebSocketAllowed ==
    {<<"sec", "websocket", "key">>, <<"sec", "websocket", "version">>,
     <<"sec", "websocket", "protocol">>, <<"sec", "websocket", "extensions">>,
     <<"user", "agent">>, <<"accept", "language">>}

\* Of the words in use, those that hold "auth", "token", "credential" or "cookie".
Telling == {"auth", "authorization", "authenticate", "authenticated", "token", "credential", "cookie"}

Begins(name, words) ==
    Len(words) < Len(name) /\ \A i \in 1 .. Len(words) : name[i] = words[i]

\* consumedHeaders of the auth mode's verdict.
Consumed ==
    CASE mode = "trusted-header" -> {<<"tailscale", "user", "login">>}
      [] mode = "signed-jwt" -> {<<"cf", "access", "jwt", "assertion">>,
                                 <<"cf", "access", "authenticated", "user", "email">>}
      [] OTHER -> {}

\* By the lists alone, with what the mode has read.
Stripped_ListsOnly(name, named) == name \in RequestStrip \union named \union Consumed

\* stripRequestHeader().
Stripped(name, named) ==
    \/ name \in RequestStrip \union named \union Consumed
    \/ Begins(name, <<"x">>) \/ Begins(name, <<"tailscale">>) \/ Begins(name, <<"proxy">>)
    \/ Begins(name, <<"cf", "access">>)
    \/ \E i \in 1 .. Len(name) : name[i] \in Telling

\* The headers that are sent on, with the gateway's own in place of others.
Written(kept, own) ==
    [name \in kept \union own |-> IF name \in own THEN "gateway" ELSE "sender"]

\* An upgrade's headers are those of a request with the handshake's.
UpstreamHeaders_OneRule(named) ==
    Written({name \in RequestNames : ~Stripped(name, named)},
            {Host, Origin} \union IF request.upgrade THEN {<<"connection">>, <<"upgrade">>} ELSE {})

\* rewriteUpstreamHeaders(), with the headers "named" in Connection, and
\* rewriteWebSocketHeaders(), which does not ask for them.
UpstreamHeaders(named) ==
    IF request.upgrade
      THEN Written(RequestNames \intersect WebSocketAllowed,
                   {Host, Origin, <<"connection">>, <<"upgrade">>})
      ELSE Written({name \in RequestNames : ~Stripped(name, named)}, {Host, Origin})

\* rewriteLocation(): a redirect to DSH's own origin is one to the gateway's.
Located(location) == IF location \in {"relative", "upstream"} THEN "ours" ELSE location

\* rewriteDownstreamHeaders(): what is left of DSH's headers, and the gateway's
\* frame rules; a 101 also gets a Connection header of the gateway's.
DownstreamHeaders(named, switching) ==
    Written({name \in ResponseNames :
               /\ name \notin ResponseStrip \union named
               /\ ~Begins(name, <<"access", "control">>) /\ ~Begins(name, <<"proxy">>)},
            FrameRules \union {<<"x", "content", "type", "options">>}
              \union IF switching THEN {<<"connection">>, <<"upgrade">>} ELSE {})

-----------------------------------------------------------------------------
Answers(status) ==
    /\ at' = "answered"
    /\ answer' = [status |-> status, named |-> {}, passed |-> Written({}, {}), location |-> "none"]
    /\ UNCHANGED <<mode, request, dsh>>

Arrive ==
    /\ at = "idle"
    /\ at' = "arrived"
    /\ \E upgrade \in BOOLEAN, method \in {"GET", "POST"}, target \in Targets, u \in Users :
       \E cause \in Causes(method, upgrade), evidence \in Evidence(u), email \in Emails(u),
          backing \in Backings :
         request' = [upgrade |-> upgrade, method |-> method, target |-> target, user |-> u,
                     page |-> cause.page, host |-> cause.host, origin |-> cause.origin,
                     site |-> cause.site, evidence |-> evidence, email |-> email,
                     backing |-> backing]
    /\ UNCHANGED <<mode, dsh, answer>>

\* The readiness path: 404, or the readiness to a program on this host that
\* knows the token and comes through no provider.
Readiness ==
    /\ at = "arrived" /\ IsReadiness
    /\ \/ Answers("404")
       \/ /\ request.page = "none"
          /\ request.method = "GET" /\ request.target = "ready" /\ request.host = <<"loopback">>
          /\ mode = "gateway-credential" \/ (request.evidence = <<>> /\ request.email = <<>>)
          /\ Answers("ready")

\* The login page, a login attempt, or the uniform denial.
Login ==
    /\ at = "arrived" /\ IsLogin
    /\ \/ LoginOK /\ Answers("login")
       \/ request.method = "GET" /\ ExpectedHost /\ AllowedFetchSite /\ Answers("page")
       \/ /\ ~LoginOK /\ ~(request.method = "GET" /\ ExpectedHost /\ AllowedFetchSite)
          /\ Answers("401")

ToAuthorize == at = "arrived" /\ ~IsReadiness /\ ~IsLogin

\* authorizeRequest() up to the auth module: the protocol comes first.
Refuse == ToAuthorize /\ ~ProtocolOK /\ Answers("403")

Ask ==
    /\ ToAuthorize /\ ProtocolOK
    /\ at' = "asking"
    /\ UNCHANGED <<mode, request, dsh, answer>>

\* authenticate() denies, or throws, or the upgrade is no WebSocket handshake.
Deny ==
    /\ at = "asking"
    /\ ~Authenticates \/ (request.upgrade /\ request.method # "GET")
    /\ Answers("403")

\* proxyHttp() and proxyWebSocket().
Forward ==
    /\ at = "asking"
    /\ Authenticates /\ (request.upgrade => request.method = "GET")
    /\ at' = "forwarded"
    /\ \E named \in SUBSET Nameable :
         dsh' = [principal |-> Principal, named |-> named, headers |-> UpstreamHeaders(named)]
    /\ UNCHANGED <<mode, request, answer>>

\* The declared length is over the limit, 413, or DSH fails, 502.
TooLarge == at = "asking" /\ ~request.upgrade /\ Authenticates /\ Answers("413")

DshFails == at = "forwarded" /\ Answers("502")

\* DSH answers, with headers and perhaps a redirect.
DshAnswers ==
    /\ at = "forwarded"
    /\ at' = "answered"
    /\ \E named \in SUBSET Nameable, switching \in {FALSE, request.upgrade},
          location \in {"none", "relative", "upstream", "elsewhere"} :
         answer' = [status |-> "dsh", named |-> named,
                    passed |-> DownstreamHeaders(named, switching),
                    location |-> Located(location)]
    /\ UNCHANGED <<mode, request, dsh>>

NoRequest == [method |-> "none"]
NoDsh == [principal |-> Nobody]
NoAnswer == [status |-> "none"]

Done ==
    /\ at = "answered"
    /\ at' = "idle"
    /\ request' = NoRequest /\ dsh' = NoDsh /\ answer' = NoAnswer
    /\ UNCHANGED mode

-----------------------------------------------------------------------------
Init ==
    /\ mode \in Modes
    /\ at = "idle"
    /\ request = NoRequest /\ dsh = NoDsh /\ answer = NoAnswer

Next ==
    \/ Arrive \/ Readiness \/ Login \/ Refuse \/ Ask \/ Deny \/ Forward \/ TooLarge
    \/ DshFails \/ DshAnswers \/ Done

Spec == Init /\ [][Next]_vars
-----------------------------------------------------------------------------
(* Properties.                                                             *)

\* Types: what DSH is sent is sent for a principal, and a request is answered
\* once it is said to be.
PathTypeOK ==
    /\ mode \in Modes
    /\ at \in {"idle", "arrived", "asking", "forwarded", "answered"}
    /\ at = "idle" <=> request = NoRequest
    /\ at = "answered" <=> answer # NoAnswer
    /\ at = "forwarded" => dsh # NoDsh
    /\ dsh # NoDsh => dsh.principal \in Users

\* Only the user at the other end acts, and only if trusted: in every mode, no
\* copy of a header that the client adds to the provider's, and no email header
\* next to an assertion, has DSH act for another (trusted-header.mjs:38-40,
\* signed-jwt.mjs:48-80).
OnlyTheUserActs ==
    dsh # NoDsh => dsh.principal = request.user /\ request.user \in Trusted

\* A page of another site, on the same domain or not, has a user's browser
\* neither change anything in DSH, nor call its API, nor open a WebSocket to
\* it, nor try a credential, whether the browser sends Sec-Fetch-Site or not
\* (authorize.mjs:34-35, gateway-credential.mjs:202-213).
OtherSitesNeverAct ==
    request # NoRequest /\ request.page \in {"sibling", "foreign"} =>
      /\ dsh # NoDsh => ~request.upgrade /\ request.method = "GET" /\ request.target # "api"
      /\ answer # NoAnswer => answer.status \notin {"login", "ready"}

\* The gateway's own paths stay with it, in the modes without a login page too
\* and when an upgrade asks for them, and however they are spelt: the three
\* places that take a target apart never disagree to DSH's side
\* (readiness.mjs:23-33, authorize.mjs:26-33, gateway-credential.mjs:177-178).
ReservedStaysHere ==
    dsh # NoDsh => request.target \notin Reserved \union Unroutable

\* The two together: what DSH was sent, and for which targets.
PathInv == PathTypeOK /\ ReservedStaysHere

\* What tells who is there, or where from: what Serve and Access add, in whatever
\* mode the gateway is, what browsers and programs authenticate with, and what
\* proxies say of a client.
Identifying ==
    {<<"tailscale", "user", "login">>, <<"tailscale", "user", "name">>,
     <<"cf", "access", "jwt", "assertion">>, <<"cf", "access", "authenticated", "user", "email">>,
     <<"cf", "access", "client", "secret">>, <<"cookie">>, <<"authorization">>,
     <<"proxy", "authorization">>, <<"private", "token">>, <<"x", "api", "key">>,
     <<"forwarded">>, <<"via">>, <<"x", "forwarded", "for">>, <<"x", "real", "ip">>}

\* What DSH has no say in: its cookies and challenges, who may read its answers,
\* and where its pages are framed.
Granting ==
    {<<"set", "cookie">>, <<"www", "authenticate">>, <<"proxy", "authenticate">>,
     <<"access", "control", "allow", "origin">>, <<"access", "control", "allow", "credentials">>,
     <<"content", "security", "policy">>, <<"x", "frame", "options">>}

\* What belongs to one connection, and has to be left there.
ConnectionBound ==
    {<<"connection">>, <<"keep", "alive">>, <<"te">>, <<"trailer">>, <<"transfer", "encoding">>,
     <<"upgrade">>}

\* What DSH has to see: of a handshake all, of a request what is not the
\* connection's.
Needed(named) ==
    IF request.upgrade
      THEN {<<"sec", "websocket", "key">>, <<"sec", "websocket", "version">>,
            <<"sec", "websocket", "protocol">>}
      ELSE {<<"accept">>, <<"content", "type">>} \ named

\* "Provider JWTs, identity headers, gateway credentials, and gateway session
\* cookies never reach DSH" (CONTRIBUTING.md): in whatever mode, and by whichever
\* of the two rules it is sent on, nothing of a client's tells DSH who it is, or
\* what host or origin it is asked for, and what is needed still arrives, a
\* handshake whatever Connection names.  None of DSH's cookies, grants, frame
\* rules or private addresses reaches a client.  Neither side is sent what belongs
\* to the other's connection (headers.mjs:76-151).
NothingPrivatePassesThrough ==
    /\ dsh # NoDsh =>
         /\ \A name \in {Host, Origin} :
              name \in DOMAIN dsh.headers /\ dsh.headers[name] = "gateway"
         /\ \A name \in DOMAIN dsh.headers : dsh.headers[name] = "sender" =>
              /\ name \notin Identifying \union ConnectionBound
              /\ name \in dsh.named => request.upgrade
         /\ RequestNames \intersect Needed(dsh.named) \subseteq DOMAIN dsh.headers
    /\ answer # NoAnswer =>
         /\ \A name \in DOMAIN answer.passed : answer.passed[name] = "sender" =>
              name \notin Granting \union ConnectionBound \union answer.named
         /\ answer.location # "upstream"

\* What a trusted user's browser sends from DSH's own pages, and a typed
\* address.  A plain GET of the API is not part of it: browsers send no Origin
\* with it, and the README refuses it.
Legitimate ==
    /\ request.user \in Trusted /\ request.backing
    /\ request.evidence = <<request.user>> /\ request.email \in {<<>>, <<request.user>>}
    /\ request.host = <<"ours">> /\ request.target \in {"page", "api"}
    /\ \/ /\ request.page = "ours"
          /\ request.method = "POST" \/ request.upgrade \/ request.target = "page"
       \/ /\ request.page = "none" /\ request.site \in {<<>>, <<"none">>} /\ request.origin = <<>>
          /\ request.method = "GET" /\ ~request.upgrade /\ request.target = "page"

\* The checks do not lock the trusted user out of DSH's own pages: such a
\* request is never forbidden, in any mode and with any browser
\* (authorize.mjs:21-37).
OwnPagesServed ==
    [][request # NoRequest /\ Legitimate /\ answer' # NoAnswer => answer'.status # "403"]_vars
=============================================================================
