-------------------------- MODULE RequestPath_proofs --------------------------
(***************************************************************************)
(* Proofs about RequestPath, for any users and any allowlist: who acts in  *)
(* DSH, from where, on what, and with which headers.                       *)
(***************************************************************************)
EXTENDS RequestPath, TLAPS

\* What is known of every request, from its cause.
RequestOK ==
    /\ request.upgrade \in BOOLEAN /\ request.method \in {"GET", "POST"}
    /\ request.user \in Users
    /\ request.evidence \in Evidence(request.user)
    /\ request.page \in {"none", "ours", "sibling", "foreign"}
    /\ request.page \in {"sibling", "foreign"} => request.origin # <<"ours">>
    /\ request.page = "ours" =>
         /\ request.site \in {<<>>, <<"same-origin">>}
         /\ request.origin = (IF request.upgrade \/ request.method = "POST" THEN <<"ours">> ELSE <<>>)
         /\ request.upgrade => request.method = "GET"

\* What is so at every point of a request's way.
Progress ==
    /\ at = "idle" => request = NoRequest /\ dsh = NoDsh
    /\ at # "idle" => RequestOK
    /\ at \in {"arrived", "asking"} => dsh = NoDsh
    /\ at = "asking" => ProtocolOK

\* The inductive invariant.
Inv ==
    /\ PathTypeOK /\ Progress
    /\ OnlyTheUserActs /\ OtherSitesNeverAct /\ ReservedStaysHere /\ NothingPrivatePassesThrough

\* What nobody has sent differs from what somebody has by one field.
LEMMA Distinct ==
    /\ \A r : r.method \in {"GET", "POST"} => r # NoRequest
    /\ \A d : d.principal \in Users => d # NoDsh
    /\ \A a : a.status # "none" => a # NoAnswer
    /\ NoRequest.method = "none" /\ NoDsh.principal = Nobody /\ NoAnswer.status = "none"
  BY UsersAssumption DEF NoRequest, NoDsh, NoAnswer

\* One piece of evidence that names a trusted user is the sender's own.
LEMMA EvidenceIsOwn ==
    ASSUME NEW u \in Users, NEW e \in Evidence(u), Len(e) = 1, Head(e) \in Trusted
    PROVE  Head(e) = u
<1>1. e = <<u>> \/ e = <<Invalid>> \/ e = <<>> \/ \E x, y \in Users : e = <<x, y>>
  BY DEF Evidence
<1>2. Head(e) # Invalid
  BY UsersAssumption
<1>3. CASE e = <<u>>
  BY <1>3
<1>4. CASE e = <<Invalid>>
  BY <1>2, <1>4
<1>5. CASE e = <<>>
  BY <1>5
<1>6. CASE \E x, y \in Users : e = <<x, y>>
  BY <1>6
<1> QED
  BY <1>1, <1>3, <1>4, <1>5, <1>6

LEMMA InitHolds == Init => Inv
<1> SUFFICES ASSUME Init PROVE Inv
  OBVIOUS
<1>1. mode \in Modes /\ at = "idle" /\ request = NoRequest /\ dsh = NoDsh /\ answer = NoAnswer
  BY DEF Init
<1>2. PathTypeOK /\ Progress
  BY <1>1 DEF PathTypeOK, Progress
<1>3. OnlyTheUserActs /\ ReservedStaysHere /\ OtherSitesNeverAct /\ NothingPrivatePassesThrough
  BY <1>1 DEF OnlyTheUserActs, ReservedStaysHere, OtherSitesNeverAct, NothingPrivatePassesThrough
<1> QED
  BY <1>2, <1>3 DEF Inv

-----------------------------------------------------------------------------
(* Steps.                                                                  *)

\* The gateway answers by itself: DSH is not concerned.
LEMMA AnswersHolds ==
    ASSUME Inv, at \in {"arrived", "asking", "forwarded"},
           NEW status, status # "none", Answers(status),
           request.page \in {"sibling", "foreign"} => status \notin {"login", "ready"}
    PROVE  Inv'
<1>1. /\ at' = "answered" /\ mode' = mode /\ request' = request /\ dsh' = dsh
      /\ answer' = [status |-> status, named |-> {}, passed |-> Written({}, {}), location |-> "none"]
  BY DEF Answers
<1>2. answer'.status = status /\ DOMAIN answer'.passed = {} /\ answer'.location = "none" /\ answer' # NoAnswer
  <2>1. answer'.status = status /\ answer'.passed = Written({}, {}) /\ answer'.location = "none"
    BY <1>1
  <2>2. DOMAIN Written({}, {}) = {}
    BY DEF Written
  <2> QED
    BY <2>1, <2>2, Distinct
<1>3. PathTypeOK'
  BY <1>1, <1>2 DEF PathTypeOK, Inv
<1>4. RequestOK' = RequestOK
  BY <1>1 DEF RequestOK, Evidence
<1>5. Progress'
  BY <1>1, <1>4 DEF Progress, Inv
<1>6. OnlyTheUserActs' /\ ReservedStaysHere'
  BY <1>1 DEF OnlyTheUserActs, ReservedStaysHere, Inv
<1>7. OtherSitesNeverAct'
  BY <1>1, <1>2 DEF OtherSitesNeverAct, Inv
<1>8. NothingPrivatePassesThrough'
  BY <1>1, <1>2 DEF NothingPrivatePassesThrough, Needed, Inv
<1> QED
  BY <1>3, <1>5, <1>6, <1>7, <1>8 DEF Inv

\* A request from a page has the origin that the browser says, and one from a
\* program has any.
LEMMA CauseFacts ==
    ASSUME NEW upgrade \in BOOLEAN, NEW method \in {"GET", "POST"}, NEW c \in Causes(method, upgrade)
    PROVE  /\ c.page \in {"none", "ours", "sibling", "foreign"}
           /\ c.page \in {"sibling", "foreign"} => c.origin # <<"ours">>
           /\ c.page = "ours" =>
                /\ c.site \in {<<>>, <<"same-origin">>}
                /\ c.origin = (IF upgrade \/ method = "POST" THEN <<"ours">> ELSE <<>>)
                /\ upgrade => method = "GET"
<1>1. CASE c \in OfNoPage
  BY <1>1 DEF OfNoPage
<1>2. ASSUME NEW page \in {"ours", "sibling", "foreign"}, c \in OfPage(page, method, upgrade),
             ~(upgrade /\ method = "POST")
      PROVE  /\ c.page = page
             /\ c.page \in {"sibling", "foreign"} => c.origin # <<"ours">>
             /\ c.page = "ours" =>
                  /\ c.site \in {<<>>, <<"same-origin">>}
                  /\ c.origin = (IF upgrade \/ method = "POST" THEN <<"ours">> ELSE <<>>)
                  /\ upgrade => method = "GET"
  <2>1. c.page = page
    BY <1>2 DEF OfPage
  <2>2. c.origin \in {<<>>, <<page>>} /\ <<page>> # <<>>
    BY <1>2 DEF OfPage
  <2>3. page # "ours" => c.origin # <<"ours">>
    BY <2>2
  <2>4. ASSUME page = "ours"
        PROVE  /\ c.site \in {<<>>, <<"same-origin">>}
               /\ c.origin = (IF upgrade \/ method = "POST" THEN <<"ours">> ELSE <<>>)
    BY <1>2, <2>4 DEF OfPage, SiteOf
  <2> QED
    BY <1>2, <2>1, <2>3, <2>4
<1> QED
  BY <1>1, <1>2 DEF Causes

LEMMA ArriveHolds == Inv /\ Arrive => Inv'
<1> SUFFICES ASSUME Inv, Arrive PROVE Inv'
  OBVIOUS
<1>1. at = "idle" /\ at' = "arrived" /\ mode' = mode /\ dsh' = dsh /\ answer' = answer
  BY DEF Arrive
<1>2. dsh = NoDsh /\ answer = NoAnswer
  BY <1>1 DEF Inv, Progress, PathTypeOK
<1>3. PICK upgrade \in BOOLEAN, method \in {"GET", "POST"}, target \in Targets, u \in Users :
        \E c \in Causes(method, upgrade), evidence \in Evidence(u), email \in Emails(u),
           backing \in Backings :
          request' = [upgrade |-> upgrade, method |-> method, target |-> target, user |-> u,
                      page |-> c.page, host |-> c.host, origin |-> c.origin,
                      site |-> c.site, evidence |-> evidence, email |-> email,
                      backing |-> backing]
  BY DEF Arrive
<1>4. PICK c \in Causes(method, upgrade), evidence \in Evidence(u) :
        \E email \in Emails(u), backing \in Backings :
          request' = [upgrade |-> upgrade, method |-> method, target |-> target, user |-> u,
                      page |-> c.page, host |-> c.host, origin |-> c.origin,
                      site |-> c.site, evidence |-> evidence, email |-> email,
                      backing |-> backing]
  BY <1>3
<1>5. /\ request'.upgrade = upgrade /\ request'.method = method /\ request'.user = u
      /\ request'.page = c.page /\ request'.origin = c.origin /\ request'.site = c.site
      /\ request'.evidence = evidence
  BY <1>4
<1>6. Evidence(u)' = Evidence(u)
  BY <1>1 DEF Evidence
<1>7. RequestOK'
  BY <1>1, <1>5, CauseFacts DEF RequestOK, Evidence
<1>8. PathTypeOK'
  BY <1>1, <1>2, <1>5, Distinct DEF PathTypeOK, Inv
<1>9. Progress'
  BY <1>1, <1>2, <1>7 DEF Progress
<1>10. OnlyTheUserActs' /\ ReservedStaysHere' /\ OtherSitesNeverAct' /\ NothingPrivatePassesThrough'
  BY <1>1, <1>2 DEF OnlyTheUserActs, ReservedStaysHere, OtherSitesNeverAct, NothingPrivatePassesThrough
<1> QED
  BY <1>8, <1>9, <1>10 DEF Inv
\* The protocol checks leave a page of another site nothing but a read.
LEMMA ProtocolStopsOthers ==
    ASSUME RequestOK, ProtocolOK, request.page \in {"sibling", "foreign"}
    PROVE  ~request.upgrade /\ request.method = "GET" /\ request.target # "api"
<1>1. request.origin # <<"ours">>
  BY DEF RequestOK
<1>2. ~NeedsOrigin
  BY <1>1 DEF ProtocolOK, ExpectedOrigin
<1> QED
  BY <1>2 DEF NeedsOrigin, RequestOK

LEMMA AskHolds == Inv /\ Ask => Inv'
<1> SUFFICES ASSUME Inv, Ask PROVE Inv'
  OBVIOUS
<1>1. /\ at = "arrived" /\ at' = "asking" /\ ProtocolOK
      /\ mode' = mode /\ request' = request /\ dsh' = dsh /\ answer' = answer
  BY DEF Ask, ToAuthorize
<1>2. ProtocolOK' = ProtocolOK /\ RequestOK' = RequestOK
  BY <1>1 DEF ProtocolOK, ExpectedHost, AllowedFetchSite, Routable, ExpectedOrigin, NeedsOrigin,
              RequestOK, Evidence
<1>3. PathTypeOK'
  BY <1>1 DEF PathTypeOK, Inv
<1>4. Progress'
  BY <1>1, <1>2 DEF Progress, Inv
<1>5. OnlyTheUserActs' /\ ReservedStaysHere' /\ OtherSitesNeverAct' /\ NothingPrivatePassesThrough'
  BY <1>1 DEF OnlyTheUserActs, ReservedStaysHere, OtherSitesNeverAct, NothingPrivatePassesThrough, Needed, Inv
<1> QED
  BY <1>3, <1>4, <1>5 DEF Inv

\* The rules for requests cover each name that identifies or is the connection's,
\* whatever the mode has consumed.
LEMMA StrippedNames ==
    ASSUME NEW named
    PROVE  \A name \in Identifying \union ConnectionBound \union named : Stripped(name, named)
<1>1. \A name \in RequestStrip \union named : Stripped(name, named)
  BY DEF Stripped
<1>2. ConnectionBound \subseteq RequestStrip
  BY DEF ConnectionBound, RequestStrip, HopByHop
<1>3. {<<"cookie">>, <<"authorization">>, <<"proxy", "authorization">>, <<"forwarded">>, <<"via">>,
       <<"x", "real", "ip">>} \subseteq RequestStrip
  BY DEF RequestStrip, HopByHop
<1>4. Stripped(<<"tailscale", "user", "login">>, named) /\ Stripped(<<"tailscale", "user", "name">>, named)
  BY DEF Stripped, Begins
<1>5. /\ Stripped(<<"cf", "access", "jwt", "assertion">>, named)
      /\ Stripped(<<"cf", "access", "authenticated", "user", "email">>, named)
      /\ Stripped(<<"cf", "access", "client", "secret">>, named)
  BY DEF Stripped, Begins
<1>6. Stripped(<<"x", "api", "key">>, named) /\ Stripped(<<"x", "forwarded", "for">>, named)
  BY DEF Stripped, Begins
<1>7. Stripped(<<"private", "token">>, named)
  BY DEF Stripped, Telling
<1> QED
  BY <1>1, <1>2, <1>3, <1>4, <1>5, <1>6, <1>7 DEF Identifying

\* They leave what DSH needs of a request.
LEMMA NeededNames ==
    ASSUME NEW named, NEW name \in {<<"accept">>, <<"content", "type">>} \ named
    PROVE  ~Stripped(name, named)
<1>1. name \notin RequestStrip \union named \union Consumed
  BY DEF RequestStrip, HopByHop, Host, Origin, Consumed
<1>2. CASE name = <<"accept">>
  BY <1>1, <1>2 DEF Stripped, Begins, Telling
<1>3. CASE name = <<"content", "type">>
  BY <1>1, <1>3 DEF Stripped, Begins, Telling
<1> QED
  BY <1>2, <1>3

\* The first words tell the two lists of handshakes apart from all others.
LEMMA AllowedNames ==
    /\ WebSocketAllowed \intersect (Identifying \union ConnectionBound) = {}
    /\ \A named : request.upgrade => Needed(named) \subseteq WebSocketAllowed
<1>1. \A name \in WebSocketAllowed : name[1] \in {"sec", "user", "accept"}
  BY DEF WebSocketAllowed
<1>2. \A name \in Identifying \union ConnectionBound : name[1] \notin {"sec", "user", "accept"}
  BY DEF Identifying, ConnectionBound
<1>3. \A named : request.upgrade => Needed(named) \subseteq WebSocketAllowed
  BY DEF Needed, WebSocketAllowed
<1> QED
  BY <1>1, <1>2, <1>3

\* What NothingPrivatePassesThrough says of the headers that DSH is sent.
UpstreamClean(headers, named) ==
    /\ \A name \in {Host, Origin} : name \in DOMAIN headers /\ headers[name] = "gateway"
    /\ \A name \in DOMAIN headers : headers[name] = "sender" =>
         /\ name \notin Identifying \union ConnectionBound
         /\ name \in named => request.upgrade
    /\ RequestNames \intersect Needed(named) \subseteq DOMAIN headers

LEMMA UpstreamIsClean ==
    ASSUME NEW named, request.upgrade \in BOOLEAN
    PROVE  UpstreamClean(UpstreamHeaders(named), named)
<1>1. CASE request.upgrade
  <2> DEFINE own == {Host, Origin, <<"connection">>, <<"upgrade">>}
             kept == RequestNames \intersect WebSocketAllowed
  <2>1. UpstreamHeaders(named) = Written(kept, own)
    BY <1>1 DEF UpstreamHeaders
  <2>2. RequestNames \intersect Needed(named) \subseteq kept /\ Host \in own /\ Origin \in own
    BY <1>1, AllowedNames
  <2>3. \A name \in kept : name \notin Identifying \union ConnectionBound
    BY AllowedNames
  <2> HIDE DEF own, kept
  <2>4. /\ DOMAIN UpstreamHeaders(named) = kept \union own
        /\ \A name \in own : UpstreamHeaders(named)[name] = "gateway"
    BY <2>1 DEF Written
  <2> QED
    BY <1>1, <2>2, <2>3, <2>4 DEF UpstreamClean
<1>2. CASE ~request.upgrade
  <2> DEFINE own == {Host, Origin}
             kept == {name \in RequestNames : ~Stripped(name, named)}
  <2>1. UpstreamHeaders(named) = Written(kept, own)
    BY <1>2 DEF UpstreamHeaders
  <2>2. RequestNames \intersect Needed(named) \subseteq kept /\ Host \in own /\ Origin \in own
    BY <1>2, NeededNames DEF Needed
  <2>3. \A name \in kept : name \notin Identifying \union ConnectionBound \union named
    BY StrippedNames
  <2> HIDE DEF own, kept
  <2>4. /\ DOMAIN UpstreamHeaders(named) = kept \union own
        /\ \A name \in own : UpstreamHeaders(named)[name] = "gateway"
    BY <2>1 DEF Written
  <2> QED
    BY <2>2, <2>3, <2>4 DEF UpstreamClean
<1> QED
  BY <1>1, <1>2

\* Of DSH's headers none grants anything or is its connection's.
DownstreamClean(headers, named) ==
    \A name \in DOMAIN headers : headers[name] = "sender" =>
      name \notin Granting \union ConnectionBound \union named

LEMMA DownstreamIsClean ==
    ASSUME NEW named, NEW switching
    PROVE  DownstreamClean(DownstreamHeaders(named, switching), named)
<1> DEFINE own == FrameRules \union {<<"x", "content", "type", "options">>}
                    \union IF switching THEN {<<"connection">>, <<"upgrade">>} ELSE {}
           kept == {name \in ResponseNames :
                      /\ name \notin ResponseStrip \union named
                      /\ ~Begins(name, <<"access", "control">>) /\ ~Begins(name, <<"proxy">>)}
<1>1. DownstreamHeaders(named, switching) = Written(kept, own)
  BY DEF DownstreamHeaders
<1>2. ConnectionBound \subseteq ResponseStrip
  BY DEF ConnectionBound, ResponseStrip, HopByHop
<1>3. /\ Begins(<<"access", "control", "allow", "origin">>, <<"access", "control">>)
      /\ Begins(<<"access", "control", "allow", "credentials">>, <<"access", "control">>)
  BY DEF Begins
<1>4. Granting \ {<<"access", "control", "allow", "origin">>, <<"access", "control", "allow", "credentials">>}
        \subseteq ResponseStrip
  BY DEF Granting, ResponseStrip, HopByHop, FrameRules
<1>5. \A name \in kept : name \notin Granting \union ConnectionBound \union named
  BY <1>2, <1>3, <1>4
<1> HIDE DEF own, kept
<1>6. /\ DOMAIN DownstreamHeaders(named, switching) = kept \union own
      /\ \A name \in own : DownstreamHeaders(named, switching)[name] = "gateway"
  BY <1>1 DEF Written
<1> QED
  BY <1>5, <1>6 DEF DownstreamClean

LEMMA ForwardHolds == Inv /\ Forward => Inv'
<1> SUFFICES ASSUME Inv, Forward PROVE Inv'
  OBVIOUS
<1>1. /\ at = "asking" /\ at' = "forwarded" /\ Authenticates
      /\ mode' = mode /\ request' = request /\ answer' = answer
  BY DEF Forward
<1>2. PICK named \in SUBSET Nameable :
        dsh' = [principal |-> Principal, named |-> named, headers |-> UpstreamHeaders(named)]
  BY DEF Forward
<1>3. dsh'.principal = Principal /\ dsh'.named = named /\ dsh'.headers = UpstreamHeaders(named)
  BY <1>2
<1>4. RequestOK /\ ProtocolOK /\ answer = NoAnswer
  BY <1>1 DEF Inv, Progress, PathTypeOK
<1>5. request.user \in Users /\ request.evidence \in Evidence(request.user)
  BY <1>4 DEF RequestOK
<1>6. request.evidence # <<>>
  BY <1>1 DEF Authenticates
<1>7. Principal = request.user /\ Principal \in Trusted
  BY <1>1, <1>5, <1>6, EvidenceIsOwn DEF Authenticates, Principal
<1>8. dsh' # NoDsh
  BY <1>3, <1>5, <1>7, Distinct
<1>9. PathTypeOK'
  BY <1>1, <1>3, <1>4, <1>5, <1>7, <1>8 DEF PathTypeOK, Inv
<1>10. Progress'
  <2>1. RequestOK' = RequestOK
    BY <1>1 DEF RequestOK, Evidence
  <2> QED
    BY <1>1, <1>4, <2>1 DEF Progress, Inv
<1>11. OnlyTheUserActs'
  BY <1>1, <1>3, <1>7 DEF OnlyTheUserActs
<1>12. ReservedStaysHere'
  BY <1>1, <1>4 DEF ReservedStaysHere, ProtocolOK, Routable
<1>13. OtherSitesNeverAct'
  BY <1>1, <1>4, ProtocolStopsOthers DEF OtherSitesNeverAct
<1>14. NothingPrivatePassesThrough'
  <2>1. UpstreamClean(UpstreamHeaders(named), named)
    BY <1>4, UpstreamIsClean DEF RequestOK
  <2>2. Needed(named)' = Needed(named)
    BY <1>1 DEF Needed
  <2> QED
    BY <1>1, <1>3, <1>4, <2>1, <2>2 DEF NothingPrivatePassesThrough, UpstreamClean, Needed
<1> QED
  BY <1>9, <1>10, <1>11, <1>12, <1>13, <1>14 DEF Inv

LEMMA DshAnswersHolds == Inv /\ DshAnswers => Inv'
<1> SUFFICES ASSUME Inv, DshAnswers PROVE Inv'
  OBVIOUS
<1>1. /\ at = "forwarded" /\ at' = "answered"
      /\ mode' = mode /\ request' = request /\ dsh' = dsh
  BY DEF DshAnswers
<1>2. PICK named \in SUBSET Nameable, switching \in {FALSE, request.upgrade},
           location \in {"none", "relative", "upstream", "elsewhere"} :
        answer' = [status |-> "dsh", named |-> named,
                   passed |-> DownstreamHeaders(named, switching), location |-> Located(location)]
  BY DEF DshAnswers
<1>3. /\ answer'.status = "dsh" /\ answer'.named = named
      /\ answer'.passed = DownstreamHeaders(named, switching) /\ answer'.location = Located(location)
  BY <1>2
<1>4. answer' # NoAnswer
  BY <1>3, Distinct
<1>5. DownstreamClean(DownstreamHeaders(named, switching), named)
  BY DownstreamIsClean
<1>6. Located(location) # "upstream"
  BY DEF Located
<1>7. PathTypeOK'
  BY <1>1, <1>4 DEF PathTypeOK, Inv
<1>8. Progress'
  <2>1. RequestOK' = RequestOK
    BY <1>1 DEF RequestOK, Evidence
  <2> QED
    BY <1>1, <2>1 DEF Progress, Inv
<1>9. OnlyTheUserActs' /\ ReservedStaysHere'
  BY <1>1 DEF OnlyTheUserActs, ReservedStaysHere, Inv
<1>10. OtherSitesNeverAct'
  BY <1>1, <1>3 DEF OtherSitesNeverAct, Inv
<1>11. NothingPrivatePassesThrough'
  BY <1>1, <1>3, <1>5, <1>6 DEF NothingPrivatePassesThrough, DownstreamClean, Needed, Inv
<1> QED
  BY <1>7, <1>8, <1>9, <1>10, <1>11 DEF Inv

LEMMA DoneHolds == Inv /\ Done => Inv'
<1> SUFFICES ASSUME Inv, Done PROVE Inv'
  OBVIOUS
<1>1. at' = "idle" /\ request' = NoRequest /\ dsh' = NoDsh /\ answer' = NoAnswer /\ mode' = mode
  BY DEF Done
<1>2. PathTypeOK' /\ Progress'
  BY <1>1 DEF PathTypeOK, Progress, Inv
<1>3. OnlyTheUserActs' /\ ReservedStaysHere' /\ OtherSitesNeverAct' /\ NothingPrivatePassesThrough'
  BY <1>1 DEF OnlyTheUserActs, ReservedStaysHere, OtherSitesNeverAct, NothingPrivatePassesThrough
<1> QED
  BY <1>2, <1>3 DEF Inv

\* Only a page of the gateway's own origin, or none, gets as far as a login.
LEMMA LoginHolds == Inv /\ Login => Inv'
<1> SUFFICES ASSUME Inv, Login PROVE Inv'
  OBVIOUS
<1>1. at = "arrived" /\ RequestOK
  BY DEF Login, Inv, Progress
<1>2. CASE LoginOK /\ Answers("login")
  <2>1. request.origin = <<"ours">>
    BY <1>2 DEF LoginOK, ExpectedOrigin
  <2>2. request.page \notin {"sibling", "foreign"}
    BY <1>1, <2>1 DEF RequestOK
  <2> QED
    BY <1>1, <1>2, <2>2, AnswersHolds
<1>3. CASE Answers("page") \/ Answers("401")
  BY <1>1, <1>3, AnswersHolds
<1> QED
  BY <1>2, <1>3 DEF Login

LEMMA StepHolds == Inv /\ [Next]_vars => Inv'
<1> SUFFICES ASSUME Inv, [Next]_vars PROVE Inv'
  OBVIOUS
<1>1. CASE Readiness
  <2>1. at = "arrived"
    BY <1>1 DEF Readiness
  <2>2. CASE Answers("404")
    BY <2>1, <2>2, AnswersHolds
  <2>3. CASE request.page = "none" /\ Answers("ready")
    BY <2>1, <2>3, AnswersHolds
  <2> QED
    BY <1>1, <2>2, <2>3 DEF Readiness
<1>2. CASE Refuse
  BY <1>2, AnswersHolds DEF Refuse, ToAuthorize
<1>3. CASE Deny
  BY <1>3, AnswersHolds DEF Deny
<1>4. CASE TooLarge
  BY <1>4, AnswersHolds DEF TooLarge
<1>5. CASE DshFails
  BY <1>5, AnswersHolds DEF DshFails
<1>6. CASE UNCHANGED vars
  <2>1. mode' = mode /\ at' = at /\ request' = request /\ dsh' = dsh /\ answer' = answer
    BY <1>6 DEF vars
  <2>2. RequestOK' = RequestOK /\ ProtocolOK' = ProtocolOK
    BY <2>1 DEF RequestOK, Evidence, ProtocolOK, ExpectedHost, AllowedFetchSite, Routable,
                ExpectedOrigin, NeedsOrigin
  <2>3. PathTypeOK' /\ Progress'
    BY <2>1, <2>2 DEF PathTypeOK, Progress, Inv
  <2>4. OnlyTheUserActs' /\ ReservedStaysHere' /\ OtherSitesNeverAct' /\ NothingPrivatePassesThrough'
    BY <2>1 DEF OnlyTheUserActs, ReservedStaysHere, OtherSitesNeverAct, NothingPrivatePassesThrough, Needed, Inv
  <2> QED
    BY <2>3, <2>4 DEF Inv
<1> QED
  BY <1>1, <1>2, <1>3, <1>4, <1>5, <1>6, ArriveHolds, LoginHolds, AskHolds, ForwardHolds,
     DshAnswersHolds, DoneHolds DEF Next

-----------------------------------------------------------------------------
(* Theorems.                                                               *)

\* The inductive invariant holds, in every mode.
THEOREM PathInvariant == Spec => []Inv
<1> QED
  BY InitHolds, StepHolds, PTL DEF Spec

\* Whatever copies of the identity and email headers come along, DSH acts only
\* for the user at the other end, and only for a trusted one.
THEOREM OnlyTrustedUsersAct == Spec => []OnlyTheUserActs
<1>1. Inv => OnlyTheUserActs
  BY DEF Inv
<1> QED
  BY <1>1, PathInvariant, PTL

\* A page of another site gets nothing but plain reads to DSH, and no login.
THEOREM OtherSitesAreStopped == Spec => []OtherSitesNeverAct
<1>1. Inv => OtherSitesNeverAct
  BY DEF Inv
<1> QED
  BY <1>1, PathInvariant, PTL

\* What DSH is sent has its type and is never for one of the gateway's own paths
\* (isReadinessPath(), authorizeRequest(), handleReservedRequest()).
THEOREM ReservedPathsStay == Spec => []PathInv
<1>1. Inv => PathInv
  BY DEF Inv, PathInv
<1> QED
  BY <1>1, PathInvariant, PTL

\* Whatever headers clients and DSH send and name in Connection, and in every mode:
\* stripRequestHeader() and the allowlist of the handshakes leave DSH nothing by
\* which a client could tell who it is, and all it needs; rewriteDownstreamHeaders()
\* leaves the client nothing that DSH must not grant.
THEOREM HeadersAreClean == Spec => []NothingPrivatePassesThrough
<1>1. Inv => NothingPrivatePassesThrough
  BY DEF Inv
<1> QED
  BY <1>1, PathInvariant, PTL

\* A legitimate request passes every check on its way.
LEMMA LegitimatePasses ==
    ASSUME RequestOK, Legitimate
    PROVE  ProtocolOK /\ Authenticates /\ (request.upgrade => request.method = "GET")
<1>1. ExpectedHost
  BY DEF Legitimate, ExpectedHost
<1>2. AllowedFetchSite
  BY DEF Legitimate, RequestOK, AllowedFetchSite
<1>3. Routable
  BY DEF Legitimate, Routable, Reserved, Unroutable
<1>4. ExpectedOrigin(NeedsOrigin)
  <2>1. CASE request.page = "ours"
    BY <2>1 DEF Legitimate, RequestOK, ExpectedOrigin, NeedsOrigin
  <2>2. CASE request.page = "none"
    BY <2>2 DEF Legitimate, ExpectedOrigin, NeedsOrigin
  <2> QED
    BY <2>1, <2>2 DEF Legitimate
<1>5. Principal = request.user
  BY DEF Legitimate, Principal
<1>6. Authenticates
  BY <1>5 DEF Legitimate, Authenticates
<1>7. request.upgrade => request.method = "GET"
  BY DEF Legitimate, RequestOK
<1> QED
  BY <1>1, <1>2, <1>3, <1>4, <1>6, <1>7 DEF ProtocolOK

\* A trusted user's own pages are never forbidden, in any mode.
THEOREM OwnPagesAreServed == Spec => OwnPagesServed
<1>1. ASSUME Inv, [Next]_vars, request # NoRequest, Legitimate, answer' # NoAnswer,
             answer'.status = "403"
      PROVE  UNCHANGED vars
  <2>1. RequestOK
    BY <1>1 DEF Inv, PathTypeOK, Progress
  <2>2. ~Refuse /\ ~Deny
    BY <1>1, <2>1, LegitimatePasses DEF Refuse, Deny
  <2>3. ASSUME NEW status, Answers(status) PROVE status = "403"
    BY <1>1, <2>3 DEF Answers
  <2>4. ~Readiness /\ ~Login /\ ~TooLarge /\ ~DshFails
    BY <2>3 DEF Readiness, Login, TooLarge, DshFails
  <2>5. ~Arrive
    BY <1>1 DEF Arrive, Inv, Progress
  <2>6. ASSUME DshAnswers PROVE FALSE
    <3>1. PICK named, passed, location :
            answer' = [status |-> "dsh", named |-> named, passed |-> passed, location |-> location]
      BY <2>6 DEF DshAnswers
    <3> QED
      BY <1>1, <3>1
  <2>7. ~Done
    BY <1>1 DEF Done
  <2>8. ~Ask /\ ~Forward
    BY <1>1 DEF Ask, ToAuthorize, Forward, Inv, PathTypeOK
  <2> QED
    BY <1>1, <2>2, <2>4, <2>5, <2>6, <2>7, <2>8 DEF Next
<1>2. Inv /\ [Next]_vars =>
        [request # NoRequest /\ Legitimate /\ answer' # NoAnswer => answer'.status # "403"]_vars
  BY <1>1
<1> QED
  BY <1>2, PathInvariant, PTL DEF Spec, OwnPagesServed
=============================================================================
