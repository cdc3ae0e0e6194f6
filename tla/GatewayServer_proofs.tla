------------------------- MODULE GatewayServer_proofs -------------------------
(***************************************************************************)
(* Proofs about GatewayServer, for any number of connections and any       *)
(* MAX_IN_FLIGHT: the guard's count is exact, nobody is answered twice,    *)
(* a slot is only held for a reason, and the server implements             *)
(* BoundedService.                                                         *)
(***************************************************************************)
EXTENDS GatewayServer, FiniteSetTheorems, TLAPS

OpenAnswers == {"none", "streaming", "ended"}

RunningHandlers == {"deciding", "reading", "checking"}

Holds(record) == record.counted /\ record.answer \in OpenAnswers

\* What the fields of one connection say about each other: where its handler,
\* its answer and its upstream can be at the same time.
Coherent(record) ==
    /\ record.heads \in {0, 1}
    /\ record.answer = "free" <=> record.handler = "none"
    /\ record.answer = "free" => record.upstream = "none" /\ record.heads = 0
    /\ record.handler \in RunningHandlers =>
         record.heads = 0 /\ record.upstream = "none" /\ record.answer \in {"none", "closed"}
    /\ record.upstream = "asked" => record.heads = 0 /\ record.answer \in {"none", "closed"}
    /\ record.upstream = "answering" => record.answer \in {"streaming", "closed"}
    /\ record.answer = "none" => record.handler \in RunningHandlers \/ record.upstream = "asked"
    /\ record.answer = "streaming" => record.upstream \in {"answering", "cut"}
    /\ ~record.counted => record.handler \notin RunningHandlers /\ record.upstream = "none"
    /\ record.kind = "upgraded" => record.upstream \in {"answering", "settled"}

AllCoherent == \A c \in Connections : Coherent(conn[c])

Inv == SlotsInv /\ AllCoherent

LEMMA FreeFacts ==
    /\ Free \in ConnType /\ Coherent(Free) /\ ~Holds(Free)
    /\ Free.answer = "free" /\ Free.upstream = "none" /\ Free.handler = "none"
  BY DEF Free, ConnType, Coherent, RunningHandlers, Holds, OpenAnswers

LEMMA HoldsIsHoldsSlot ==
    ASSUME NEW c \in Connections
    PROVE  HoldsSlot(c) <=> Holds(conn[c])
  BY DEF HoldsSlot, Open, Holds, OpenAnswers

\* The set of holders is finite, and it is not empty when somebody holds.
LEMMA HoldersFinite ==
    /\ IsFiniteSet({d \in Connections : HoldsSlot(d)})
    /\ \A c \in Connections : HoldsSlot(c) => Cardinality({d \in Connections : HoldsSlot(d)}) > 0
<1> DEFINE H == {d \in Connections : HoldsSlot(d)}
<1>1. IsFiniteSet(H)
  BY ServerAssumption, FS_Subset, H \subseteq Connections
<1>2. ASSUME NEW c \in Connections, HoldsSlot(c) PROVE Cardinality(H) > 0
  <2>1. c \in H
    BY <1>2
  <2>2. Cardinality(H) \in Nat
    BY <1>1, FS_CardinalityType
  <2>3. Cardinality(H) # 0
    BY <1>1, <2>1, FS_EmptySet
  <2> QED BY <2>2, <2>3
<1> QED BY <1>1, <1>2

\* One connection changes and the count follows it.
LEMMA CountFollows ==
    ASSUME Inv, NEW c \in Connections, NEW record \in ConnType, Becomes(c, record),
           \/ (Holds(record) <=> Holds(conn[c])) /\ inFlight' = inFlight
           \/ Holds(record) /\ ~Holds(conn[c]) /\ inFlight' = inFlight + 1
           \/ ~Holds(record) /\ Holds(conn[c]) /\ inFlight' = inFlight - 1,
           inFlight' \in 0 .. MaxInFlight, up' \in BOOLEAN, Coherent(record)
    PROVE  Inv'
<1> DEFINE H == {d \in Connections : HoldsSlot(d)}
           G == {d \in Connections : Holds(conn'[d])}
<1>1. conn' = [conn EXCEPT ![c] = record] /\ conn \in [Connections -> ConnType]
  BY DEF Becomes, Inv, SlotsInv, ServerTypeOK
<1>2. conn' \in [Connections -> ConnType] /\ conn'[c] = record
      /\ \A d \in Connections \ {c} : conn'[d] = conn[d]
  BY <1>1
<1>3. {d \in Connections : HoldsSlot(d)}' = G
  BY DEF HoldsSlot, Open, Holds, OpenAnswers
<1>4. IsFiniteSet(H) /\ inFlight = Cardinality(H)
  BY HoldersFinite DEF Inv, SlotsInv, SlotsAccounted
<1>5. H = {d \in Connections : Holds(conn[d])}
  BY HoldsIsHoldsSlot
<1>6. inFlight' = Cardinality(G)
  <2>1. CASE (Holds(record) <=> Holds(conn[c])) /\ inFlight' = inFlight
    <3>1. G = H
      BY <1>2, <1>5, <2>1
    <3> QED BY <1>4, <2>1, <3>1
  <2>2. CASE Holds(record) /\ ~Holds(conn[c]) /\ inFlight' = inFlight + 1
    <3>1. G = H \union {c} /\ c \notin H
      BY <1>2, <1>5, <2>2
    <3>2. Cardinality(H \union {c}) = Cardinality(H) + 1
      BY <1>4, <3>1, FS_AddElement
    <3> QED BY <1>4, <2>2, <3>1, <3>2
  <2>3. CASE ~Holds(record) /\ Holds(conn[c]) /\ inFlight' = inFlight - 1
    <3>1. G = H \ {c} /\ c \in H
      BY <1>2, <1>5, <2>3
    <3>2. Cardinality(H \ {c}) = Cardinality(H) - 1
      BY <1>4, <3>1, FS_RemoveElement
    <3> QED BY <1>4, <2>3, <3>1, <3>2
  <2> QED BY <2>1, <2>2, <2>3
<1>7. AllCoherent'
  BY <1>2 DEF AllCoherent, Inv
<1>8. ServerTypeOK' /\ SlotsAccounted'
  BY <1>2, <1>3, <1>6 DEF ServerTypeOK, SlotsAccounted
<1> QED BY <1>7, <1>8 DEF Inv, SlotsInv

\* The close event gives back the slot that the connection held.
LEMMA ClosedHolds ==
    ASSUME Inv, NEW c \in Connections, NEW record \in ConnType, Closed(c, record),
           record.counted = conn[c].counted, conn[c].answer # "free", up' = up,
           Coherent([record EXCEPT !.answer = "closed"])
    PROVE  Inv'
<1> DEFINE closed == [record EXCEPT !.answer = "closed"]
<1>1. closed \in ConnType /\ ~Holds(closed)
  BY DEF ConnType, Holds, OpenAnswers
<1>2. Becomes(c, closed)
  BY DEF Closed
<1>3. HoldsSlot(c) => inFlight > 0
  BY HoldersFinite DEF Inv, SlotsInv, SlotsAccounted
<1>4. inFlight \in 0 .. MaxInFlight /\ up' \in BOOLEAN /\ MaxInFlight \in Nat
  BY ServerAssumption DEF Inv, SlotsInv, ServerTypeOK
<1>5. IF Holds(conn[c]) THEN inFlight' = inFlight - 1 ELSE inFlight' = inFlight
  BY <1>3, HoldsIsHoldsSlot DEF Closed
<1>6. inFlight' \in 0 .. MaxInFlight
  BY <1>3, <1>4, <1>5, HoldsIsHoldsSlot
<1> HIDE DEF closed
<1> QED BY <1>1, <1>2, <1>4, <1>5, <1>6, CountFollows DEF closed

LEMMA StepHolds ==
    ASSUME Inv, NEW c \in Connections, NEW record \in ConnType, Becomes(c, record),
           Holds(record) <=> Holds(conn[c]), UNCHANGED <<up, inFlight>>, Coherent(record)
    PROVE  Inv'
<1>1. inFlight' \in 0 .. MaxInFlight /\ up' \in BOOLEAN
  BY DEF Inv, SlotsInv, ServerTypeOK
<1> QED BY <1>1, CountFollows

LEMMA ConnFacts ==
    ASSUME Inv, NEW c \in Connections
    PROVE  conn[c] \in ConnType /\ Coherent(conn[c])
  BY DEF Inv, SlotsInv, ServerTypeOK, AllCoherent

\* What writing a denial does to a connection, field by field.
LEMMA AnsweredFields ==
    ASSUME NEW r \in ConnType
    PROVE  /\ Answered(r) \in ConnType
           /\ Answered(r).heads = r.heads + 1
           /\ Answered(r).answer = (IF r.answer = "closed" THEN "closed" ELSE "ended")
           /\ Answered(r).counted = r.counted /\ Answered(r).handler = r.handler
           /\ Answered(r).upstream = r.upstream /\ Answered(r).kind = r.kind
           /\ Answered(r).client = r.client
<1>1. r = [kind |-> r.kind, counted |-> r.counted, handler |-> r.handler, answer |-> r.answer,
           heads |-> r.heads, upstream |-> r.upstream, client |-> r.client]
  BY DEF ConnType
<1>2. r.heads + 1 \in Nat
  BY DEF ConnType
<1> DEFINE answer == IF r.answer = "closed" THEN "closed" ELSE "ended"
<1>3. answer \in {"ended", "closed"}
  OBVIOUS
<1>4. Answered(r) = [r EXCEPT !.heads = r.heads + 1, !.answer = answer]
  BY DEF Answered
<1> HIDE DEF answer
<1>5. Answered(r) = [kind |-> r.kind, counted |-> r.counted, handler |-> r.handler, answer |-> answer,
                     heads |-> r.heads + 1, upstream |-> r.upstream, client |-> r.client]
  BY <1>1, <1>4
<1>6. Answered(r) \in ConnType
  BY <1>2, <1>3, <1>5 DEF ConnType
<1> QED BY <1>5, <1>6 DEF answer

LEMMA InitHolds == Init => Inv
<1> SUFFICES ASSUME Init PROVE Inv
  OBVIOUS
<1>1. \A c \in Connections : conn[c] = Free
  BY DEF Init
<1>2. {c \in Connections : HoldsSlot(c)} = {}
  BY <1>1, FreeFacts, HoldsIsHoldsSlot
<1>3. SlotsAccounted
  BY <1>2, FS_EmptySet DEF SlotsAccounted, Init
<1>4. ServerTypeOK
  BY FreeFacts, ServerAssumption DEF Init, ServerTypeOK
<1> QED BY <1>1, <1>3, <1>4, FreeFacts DEF Inv, SlotsInv, AllCoherent

LEMMA AcceptHolds ==
    ASSUME Inv, NEW c \in Connections, NEW kind \in Guarded, Accept(c, kind)
    PROVE  Inv'
<1> DEFINE record == [Free EXCEPT !.kind = kind, !.counted = TRUE,
                              !.handler = "deciding", !.answer = "none"]
<1>1. record \in ConnType /\ Holds(record) /\ Coherent(record)
  BY DEF Free, ConnType, Guarded, Holds, OpenAnswers, Coherent, RunningHandlers
<1>2. ~Holds(conn[c])
  BY FreeFacts DEF Accept
<1>3. Becomes(c, record) /\ inFlight' = inFlight + 1 /\ inFlight' \in 0 .. MaxInFlight /\ up' \in BOOLEAN
  BY ServerAssumption DEF Accept, Inv, SlotsInv, ServerTypeOK
<1> HIDE DEF record
<1> QED BY <1>1, <1>2, <1>3, CountFollows

LEMMA RefuseHolds ==
    ASSUME Inv, NEW c \in Connections, NEW base \in ConnType, conn[c] = Free,
           Becomes(c, Answered(base)), UNCHANGED <<up, inFlight>>,
           base.heads = 0, base.answer = "free", base.counted = FALSE,
           base.handler = "done", base.upstream = "none", base.kind # "upgraded"
    PROVE  Inv'
<1> DEFINE record == Answered(base)
<1>1. /\ record \in ConnType /\ record.heads = 1 /\ record.answer = "ended"
      /\ record.counted = FALSE /\ record.handler = "done" /\ record.upstream = "none"
      /\ record.kind # "upgraded"
  BY AnsweredFields
<1> HIDE DEF record
<1>2. ~Holds(record) /\ Coherent(record)
  BY <1>1 DEF Holds, Coherent, RunningHandlers
<1>3. ~Holds(conn[c])
  BY FreeFacts
<1>4. Becomes(c, record)
  BY DEF record
<1> QED BY <1>1, <1>2, <1>3, <1>4, StepHolds

LEMMA Refuse429Holds ==
    ASSUME Inv, NEW c \in Connections, NEW kind \in Guarded, Refuse(c, kind)
    PROVE  Inv'
<1> DEFINE base == [Free EXCEPT !.kind = kind, !.handler = "done"]
<1>1. /\ base \in ConnType /\ base.heads = 0 /\ base.answer = "free"
      /\ base.counted = FALSE /\ base.handler = "done" /\ base.upstream = "none"
      /\ base.kind # "upgraded"
  BY DEF Free, ConnType, Guarded
<1>2. Becomes(c, Answered(base)) /\ UNCHANGED <<up, inFlight>> /\ conn[c] = Free
  BY DEF Refuse
<1> HIDE DEF base
<1> QED BY <1>1, <1>2, RefuseHolds

LEMMA ReadinessHolds ==
    ASSUME Inv, NEW c \in Connections, Readiness(c)
    PROVE  Inv'
<1> DEFINE base == [Free EXCEPT !.kind = "probe", !.handler = "done"]
<1>1. /\ base \in ConnType /\ base.heads = 0 /\ base.answer = "free"
      /\ base.counted = FALSE /\ base.handler = "done" /\ base.upstream = "none"
      /\ base.kind # "upgraded"
  BY DEF Free, ConnType, Guarded
<1>2. Becomes(c, Answered(base)) /\ UNCHANGED <<up, inFlight>> /\ conn[c] = Free
  BY DEF Readiness
<1> HIDE DEF base
<1> QED BY <1>1, <1>2, RefuseHolds

LEMMA ConnectHolds ==
    ASSUME Inv, NEW c \in Connections, Connect(c)
    PROVE  Inv'
<1> DEFINE base == [Free EXCEPT !.kind = "connect", !.handler = "done"]
<1>1. /\ base \in ConnType /\ base.heads = 0 /\ base.answer = "free"
      /\ base.counted = FALSE /\ base.handler = "done" /\ base.upstream = "none"
      /\ base.kind # "upgraded"
  BY DEF Free, ConnType, Guarded
<1>2. Becomes(c, Answered(base)) /\ UNCHANGED <<up, inFlight>> /\ conn[c] = Free
  BY DEF Connect
<1> HIDE DEF base
<1> QED BY <1>1, <1>2, RefuseHolds

\* The handler reads a login body.
LEMMA ReadingHolds ==
    ASSUME Inv, NEW c \in Connections, AsksBody(c) \/ BodyRead(c)
    PROVE  Inv'
<1>1. conn[c] \in ConnType /\ Coherent(conn[c]) /\ conn[c].handler \in {"deciding", "reading"}
  BY ConnFacts DEF AsksBody, BodyRead
<1>2. PICK point \in {"reading", "checking"} :
        Becomes(c, [conn[c] EXCEPT !.handler = point]) /\ UNCHANGED <<up, inFlight>>
  BY DEF AsksBody, BodyRead
<1> DEFINE record == [conn[c] EXCEPT !.handler = point]
<1>3. record \in ConnType /\ (Holds(record) <=> Holds(conn[c])) /\ Coherent(record)
  BY <1>1 DEF ConnType, Holds, OpenAnswers, Coherent, RunningHandlers
<1> HIDE DEF record
<1>4. Becomes(c, record)
  BY <1>2 DEF record
<1> QED BY <1>2, <1>3, <1>4, StepHolds

LEMMA DenyHolds ==
    ASSUME Inv, NEW c \in Connections, Deny(c)
    PROVE  Inv'
<1> DEFINE record == Answered([conn[c] EXCEPT !.handler = "done"])
<1> DEFINE base == [conn[c] EXCEPT !.handler = "done"]
<1>1. conn[c] \in ConnType /\ Coherent(conn[c]) /\ conn[c].handler \in RunningHandlers
  BY ConnFacts DEF Deny, RunningHandlers
<1>2. record \in ConnType /\ (Holds(record) <=> Holds(conn[c])) /\ Coherent(record)
  <2>1. /\ base \in ConnType /\ base.heads = conn[c].heads /\ base.answer = conn[c].answer
        /\ base.counted = conn[c].counted /\ base.handler = "done"
        /\ base.upstream = conn[c].upstream /\ base.kind = conn[c].kind
    BY <1>1 DEF ConnType
  <2> HIDE DEF base
  <2>2. record = Answered(base)
    BY DEF base
  <2> HIDE DEF record
  <2>3. /\ record \in ConnType /\ record.heads = conn[c].heads + 1
        /\ record.answer = (IF conn[c].answer = "closed" THEN "closed" ELSE "ended")
        /\ record.counted = conn[c].counted /\ record.handler = "done"
        /\ record.upstream = conn[c].upstream /\ record.kind = conn[c].kind
    BY <2>1, <2>2, AnsweredFields
  <2>4. /\ conn[c].heads = 0 /\ conn[c].upstream = "none" /\ conn[c].answer \in {"none", "closed"}
        /\ conn[c].kind # "upgraded"
    BY <1>1 DEF Coherent, RunningHandlers
  <2>5. Coherent(record)
    BY <2>3, <2>4 DEF Coherent, RunningHandlers
  <2>6. Holds(record) <=> Holds(conn[c])
    BY <2>3, <2>4 DEF Holds, OpenAnswers
  <2> QED BY <2>3, <2>5, <2>6
<1>3. Becomes(c, record) /\ UNCHANGED <<up, inFlight>>
  BY DEF Deny
<1> HIDE DEF record
<1> QED BY <1>2, <1>3, StepHolds

LEMMA ForwardHolds ==
    ASSUME Inv, NEW c \in Connections, Forward(c)
    PROVE  Inv'
<1> DEFINE record == [conn[c] EXCEPT !.handler = "done", !.upstream = "asked"]
<1>1. conn[c] \in ConnType /\ Coherent(conn[c]) /\ conn[c].handler = "deciding"
  BY ConnFacts DEF Forward
<1>2. record \in ConnType /\ (Holds(record) <=> Holds(conn[c])) /\ Coherent(record)
  BY <1>1 DEF ConnType, Holds, OpenAnswers, Coherent, RunningHandlers
<1>3. Becomes(c, record) /\ UNCHANGED <<up, inFlight>>
  BY DEF Forward
<1> HIDE DEF record
<1> QED BY <1>2, <1>3, StepHolds

\* What a head from the upstream does to a connection, field by field.
LEMMA AnsweringFields ==
    ASSUME NEW c \in Connections, conn[c] \in ConnType, NEW kind \in {conn[c].kind, "upgraded"},
           conn[c].heads = 0, conn[c].answer \in {"none", "closed"}
    PROVE  LET record == Answering(c, kind)
           IN  /\ record \in ConnType /\ record.heads = 1 /\ record.upstream = "answering"
               /\ record.answer = (IF conn[c].answer = "none" THEN "streaming" ELSE "closed")
               /\ record.counted = conn[c].counted /\ record.handler = conn[c].handler
<1> DEFINE answer == IF conn[c].answer = "none" THEN "streaming" ELSE conn[c].answer
           client == IF kind = "upgraded" /\ conn[c].client = "unread" THEN "left" ELSE conn[c].client
<1>1. answer \in {"streaming", "closed"} /\ conn[c].heads + 1 = 1
      /\ client \in {"here", "left", "unread"}
      /\ answer = (IF conn[c].answer = "none" THEN "streaming" ELSE "closed")
      /\ kind \in Guarded \union {"none", "probe", "connect", "upgraded"}
  BY DEF ConnType
<1>2. Answering(c, kind) = [conn[c] EXCEPT !.upstream = "answering", !.heads = conn[c].heads + 1,
                                           !.answer = answer, !.kind = kind, !.client = client]
  BY DEF Answering
<1> HIDE DEF answer, client
<1>3. conn[c] = [kind |-> conn[c].kind, counted |-> conn[c].counted, handler |-> conn[c].handler,
                 answer |-> conn[c].answer, heads |-> conn[c].heads, upstream |-> conn[c].upstream,
                 client |-> conn[c].client]
  BY DEF ConnType
<1>4. Answering(c, kind) =
        [kind |-> kind, counted |-> conn[c].counted, handler |-> conn[c].handler,
         answer |-> answer, heads |-> 1, upstream |-> "answering", client |-> client]
  BY <1>1, <1>2, <1>3
<1>5. Answering(c, kind) \in ConnType
  BY <1>1, <1>4 DEF ConnType
<1> QED BY <1>1, <1>4, <1>5

LEMMA UpstreamAnswersHolds ==
    ASSUME Inv, NEW c \in Connections, UpstreamAnswers(c)
    PROVE  Inv'
<1>1. conn[c] \in ConnType /\ Coherent(conn[c]) /\ conn[c].upstream = "asked"
  BY ConnFacts DEF UpstreamAnswers
<1>2. /\ conn[c].heads = 0 /\ conn[c].answer \in {"none", "closed"}
      /\ conn[c].handler \notin RunningHandlers
  BY <1>1 DEF Coherent, RunningHandlers
<1>3. PICK kind \in {conn[c].kind, "upgraded"} :
        Becomes(c, Answering(c, kind)) /\ UNCHANGED <<up, inFlight>>
  BY DEF UpstreamAnswers
<1> DEFINE record == Answering(c, kind)
<1>4. /\ record \in ConnType /\ record.heads = 1 /\ record.upstream = "answering"
      /\ record.answer = (IF conn[c].answer = "none" THEN "streaming" ELSE "closed")
      /\ record.counted = conn[c].counted /\ record.handler = conn[c].handler
  BY <1>1, <1>2, AnsweringFields
<1> HIDE DEF record
<1>5. conn[c].handler # "none" /\ conn[c].counted = TRUE
  BY <1>1, <1>2 DEF Coherent, ConnType, RunningHandlers
<1>6. (Holds(record) <=> Holds(conn[c])) /\ Coherent(record)
  BY <1>2, <1>4, <1>5 DEF Holds, OpenAnswers, Coherent, RunningHandlers
<1>7. Becomes(c, record)
  BY <1>3 DEF record
<1> QED BY <1>3, <1>4, <1>6, <1>7, StepHolds

LEMMA UpstreamCompletesHolds ==
    ASSUME Inv, NEW c \in Connections, UpstreamCompletes(c)
    PROVE  Inv'
<1> DEFINE record == [conn[c] EXCEPT !.upstream = "settled",
                                     !.answer = IF @ = "streaming" THEN "ended" ELSE @]
<1>1. conn[c] \in ConnType /\ Coherent(conn[c]) /\ conn[c].upstream = "answering"
  BY ConnFacts DEF UpstreamCompletes
<1>2. record \in ConnType /\ (Holds(record) <=> Holds(conn[c])) /\ Coherent(record)
  BY <1>1 DEF ConnType, Holds, OpenAnswers, Coherent, RunningHandlers
<1>3. Becomes(c, record) /\ UNCHANGED <<up, inFlight>>
  BY DEF UpstreamCompletes
<1> HIDE DEF record
<1> QED BY <1>2, <1>3, StepHolds

LEMMA UpstreamCutHolds ==
    ASSUME Inv, NEW c \in Connections, UpstreamCut(c)
    PROVE  Inv'
<1> DEFINE record == [conn[c] EXCEPT !.upstream = "cut"]
<1>1. conn[c] \in ConnType /\ Coherent(conn[c]) /\ conn[c].upstream = "answering"
      /\ conn[c].kind # "upgraded"
  BY ConnFacts DEF UpstreamCut
<1>2. record \in ConnType /\ (Holds(record) <=> Holds(conn[c])) /\ Coherent(record)
  BY <1>1 DEF ConnType, Holds, OpenAnswers, Coherent, RunningHandlers
<1>3. Becomes(c, record) /\ UNCHANGED <<up, inFlight>>
  BY DEF UpstreamCut
<1> HIDE DEF record
<1> QED BY <1>2, <1>3, StepHolds

LEMMA UpstreamFailsHolds ==
    ASSUME Inv, NEW c \in Connections, UpstreamFails(c)
    PROVE  Inv'
<1> DEFINE settled == [conn[c] EXCEPT !.upstream = "settled"]
<1>1. conn[c] \in ConnType /\ Coherent(conn[c]) /\ up' = up
  BY ConnFacts DEF UpstreamFails
<1>2. settled \in ConnType /\ settled.counted = conn[c].counted
  BY <1>1 DEF ConnType
<1>3. CASE conn[c].upstream = "asked"
  <2> DEFINE record == Answered(settled)
  <2>1. /\ settled.heads = conn[c].heads /\ settled.answer = conn[c].answer
        /\ settled.handler = conn[c].handler /\ settled.upstream = "settled"
    BY <1>1 DEF ConnType
  <2>2. /\ conn[c].heads = 0 /\ conn[c].answer \in {"none", "closed"}
        /\ conn[c].handler \notin RunningHandlers /\ conn[c].handler # "none"
        /\ conn[c].counted = TRUE
    BY <1>1, <1>3 DEF Coherent, RunningHandlers, ConnType
  <2>3. Becomes(c, record) /\ UNCHANGED <<up, inFlight>>
    <3>1. conn[c].upstream = "asked"
      BY <1>3
    <3>2. Becomes(c, Answered(settled)) /\ inFlight' = inFlight
      BY <3>1 DEF UpstreamFails
    <3> QED BY <1>1, <3>2
  <2> HIDE DEF settled
  <2>4. /\ record \in ConnType /\ record.heads = 1
        /\ record.answer = (IF conn[c].answer = "closed" THEN "closed" ELSE "ended")
        /\ record.counted = conn[c].counted /\ record.handler = conn[c].handler
        /\ record.upstream = "settled"
    BY <1>2, <2>1, <2>2, AnsweredFields
  <2> HIDE DEF record
  <2>5. Coherent(record) /\ (Holds(record) <=> Holds(conn[c]))
    BY <2>2, <2>4 DEF Coherent, RunningHandlers, Holds, OpenAnswers
  <2> QED BY <2>3, <2>4, <2>5, StepHolds
<1>4. CASE conn[c].upstream = "answering" /\ conn[c].answer \in {"streaming", "ended"}
  <2>1. Closed(c, settled)
    BY <1>4 DEF UpstreamFails
  <2>2. Coherent([settled EXCEPT !.answer = "closed"])
    BY <1>1, <1>4 DEF ConnType, Coherent, RunningHandlers
  <2> HIDE DEF settled
  <2> QED BY <1>1, <1>2, <1>4, <2>1, <2>2, ClosedHolds
<1>5. CASE conn[c].upstream = "answering" /\ conn[c].answer \notin {"streaming", "ended"}
  <2>1. (Holds(settled) <=> Holds(conn[c])) /\ Coherent(settled)
    BY <1>1, <1>5 DEF ConnType, Holds, OpenAnswers, Coherent, RunningHandlers
  <2>2. Becomes(c, settled) /\ UNCHANGED <<up, inFlight>>
    BY <1>1, <1>5 DEF UpstreamFails
  <2> HIDE DEF settled
  <2> QED BY <1>2, <2>1, <2>2, StepHolds
<1> QED BY <1>3, <1>4, <1>5 DEF UpstreamFails, Busy

LEMMA FlushHolds ==
    ASSUME Inv, NEW c \in Connections, Flush(c)
    PROVE  Inv'
<1>1. conn[c] \in ConnType /\ Coherent(conn[c]) /\ conn[c].answer = "ended" /\ up' = up /\ Closed(c, conn[c])
  BY ConnFacts DEF Flush
<1>2. Coherent([conn[c] EXCEPT !.answer = "closed"])
  BY <1>1 DEF ConnType, Coherent, RunningHandlers
<1> QED BY <1>1, <1>2, ClosedHolds

LEMMA ClientLeavesHolds ==
    ASSUME Inv, NEW c \in Connections, ClientLeaves(c)
    PROVE  Inv'
<1> DEFINE settled == [conn[c] EXCEPT !.upstream = "settled"]
<1>1. conn[c] \in ConnType /\ Coherent(conn[c]) /\ up' = up /\ conn[c].answer \in OpenAnswers
  BY ConnFacts DEF ClientLeaves, Open, OpenAnswers
<1>2. settled \in ConnType /\ settled.counted = conn[c].counted
  BY <1>1 DEF ConnType
<1>3. Coherent([conn[c] EXCEPT !.answer = "closed"])
  BY <1>1 DEF ConnType, Coherent, RunningHandlers, OpenAnswers
<1>4. Coherent(conn[c]) /\ (Busy(c) \/ conn[c].kind = "upgraded") => Coherent([settled EXCEPT !.answer = "closed"])
  BY <1>1 DEF ConnType, Coherent, RunningHandlers, OpenAnswers, Busy
<1>5. conn[c].answer # "free"
  BY <1>1 DEF OpenAnswers
<1>6. Closed(c, conn[c]) \/ ((Busy(c) \/ conn[c].kind = "upgraded") /\ Closed(c, settled))
  BY DEF ClientLeaves
<1> HIDE DEF settled
<1> QED BY <1>1, <1>2, <1>3, <1>4, <1>5, <1>6, ClosedHolds

LEMMA ClientEndsHolds ==
    ASSUME Inv, NEW c \in Connections, ClientEnds(c)
    PROVE  Inv'
<1>1. PICK left \in {"left", "unread"} : Becomes(c, [conn[c] EXCEPT !.client = left])
  BY DEF ClientEnds
<1>2. UNCHANGED <<up, inFlight>>
  BY DEF ClientEnds
<1> DEFINE record == [conn[c] EXCEPT !.client = left]
<1>3. record \in ConnType /\ (Holds(record) <=> Holds(conn[c])) /\ Coherent(record)
  BY ConnFacts DEF ConnType, Holds, Coherent
<1> HIDE DEF record
<1>4. Becomes(c, record)
  BY <1>1 DEF record
<1> QED BY <1>2, <1>3, <1>4, StepHolds

LEMMA ReuseHolds ==
    ASSUME Inv, NEW c \in Connections, Reuse(c)
    PROVE  Inv'
<1>1. ~Holds(conn[c])
  BY DEF Reuse, Holds, OpenAnswers
<1>2. Becomes(c, Free) /\ UNCHANGED <<up, inFlight>>
  BY DEF Reuse
<1> QED BY <1>1, <1>2, FreeFacts, StepHolds

LEMMA ResetHolds ==
    ASSUME Inv, NEW c \in Connections, ClientResets(c)
    PROVE  Inv'
<1>1. /\ up' = FALSE /\ inFlight' = 0
      /\ conn' = [d \in Connections |-> Free]
  BY DEF ClientResets
<1>2. {d \in Connections : HoldsSlot(d)}' = {}
  BY <1>1, FreeFacts DEF HoldsSlot, Open
<1>3. SlotsAccounted'
  BY <1>1, <1>2, FS_EmptySet DEF SlotsAccounted
<1>4. ServerTypeOK'
  <2>1. conn' \in [Connections -> ConnType]
    BY <1>1, FreeFacts
  <2>2. inFlight' \in 0 .. MaxInFlight
    BY <1>1, ServerAssumption
  <2>3. up' \in BOOLEAN
    BY <1>1, Zenon
  <2> QED BY <2>1, <2>2, <2>3 DEF ServerTypeOK
<1> QED BY <1>1, <1>3, <1>4, FreeFacts DEF Inv, SlotsInv, AllCoherent

LEMMA QuietHolds ==
    ASSUME Inv, Restart \/ UNCHANGED vars
    PROVE  Inv'
  BY DEF Restart, vars, Inv, SlotsInv, ServerTypeOK, SlotsAccounted, AllCoherent, HoldsSlot, Open

\* The inductive invariant: the guard's count is exact, and every connection
\* is in one of the combinations of Coherent.
THEOREM ServerInvariant == Spec => []Inv
<1>1. ASSUME Inv, [Next]_vars PROVE Inv'
  <2>1. ASSUME NEW c \in Connections, NEW kind \in Guarded, Accept(c, kind) \/ Refuse(c, kind)
        PROVE  Inv'
    BY <1>1, <2>1, AcceptHolds, Refuse429Holds
  <2>2. ASSUME NEW c \in Connections, Readiness(c) \/ Connect(c) PROVE Inv'
    BY <1>1, <2>2, ReadinessHolds, ConnectHolds
  <2>3. ASSUME NEW c \in Connections, HandlerStep(c) \/ BodyRead(c) PROVE Inv'
    BY <1>1, <2>3, ReadingHolds, DenyHolds, ForwardHolds DEF HandlerStep
  <2>4. ASSUME NEW c \in Connections,
               UpstreamAnswers(c) \/ UpstreamCompletes(c) \/ UpstreamCut(c) \/ UpstreamFails(c)
        PROVE  Inv'
    BY <1>1, <2>4, UpstreamAnswersHolds, UpstreamCompletesHolds, UpstreamCutHolds, UpstreamFailsHolds
  <2>5. ASSUME NEW c \in Connections,
               Flush(c) \/ ClientLeaves(c) \/ ClientEnds(c) \/ ClientResets(c) \/ Reuse(c)
        PROVE  Inv'
    BY <1>1, <2>5, FlushHolds, ClientLeavesHolds, ClientEndsHolds, ResetHolds, ReuseHolds
  <2>6. ASSUME Restart \/ UNCHANGED vars PROVE Inv'
    BY <1>1, <2>6, QuietHolds
  <2> QED BY <1>1, <2>1, <2>2, <2>3, <2>4, <2>5, <2>6, Zenon DEF Next
<1> QED BY InitHolds, <1>1, PTL DEF Spec

\* The in-flight guard (createInFlightGuard) neither leaks a slot nor gives one
\* back twice, and never exceeds its limit.
THEOREM SlotsAreAccounted == Spec => []SlotsInv
<1>1. Inv => SlotsInv
  BY DEF Inv
<1> QED BY <1>1, ServerInvariant, PTL

\* No request is answered twice (writeDenied, the proxies and their errors).
THEOREM NobodyIsAnsweredTwice == Spec => []AnsweredOnce
<1>1. Inv => AnsweredOnce
  BY DEF Inv, AllCoherent, Coherent, RunningHandlers, AnsweredOnce
<1> QED BY <1>1, ServerInvariant, PTL

\* The guard's count is exact and each connection gets one answer, in whatever
\* order handler, upstream and client come to their end (createGatewayServer).
THEOREM ServerIsExact == Spec => []ServerInv
<1>1. SlotsInv /\ AnsweredOnce => ServerInv
  BY DEF ServerInv
<1> QED BY <1>1, SlotsAreAccounted, NobodyIsAnsweredTwice, PTL

\* No slot is held by an answer that was given up half-way, but for a body that
\* the upstream cut off: handler or upstream is at work, or it is the client's turn.
THEOREM SlotsAreHeldForAReason == Spec => []HeldForAReason
<1>1. Inv => HeldForAReason
  <2> SUFFICES ASSUME Inv, NEW c \in Connections, HoldsSlot(c)
               PROVE  \/ AtWork(c) \/ UpToClient(c)
                      \/ conn[c].answer = "streaming" /\ conn[c].upstream = "cut"
    BY DEF HeldForAReason
  <2>1. Coherent(conn[c]) /\ conn[c].answer \in {"none", "streaming", "ended"}
    BY ConnFacts DEF HoldsSlot, Open
  <2> QED BY <2>1 DEF Coherent, RunningHandlers, AtWork, UpToClient, Busy
<1> QED BY <1>1, ServerInvariant, PTL

-----------------------------------------------------------------------------
(* The server implements BoundedService.                                   *)

Stages == [c \in Connections |-> Stage(c)]

\* The instance counts as this module does.
LEMMA SameCount == Service!Cardinality(Service!Served) = Cardinality(Service!Served)
  BY DEF Service!Cardinality, Cardinality

\* The connections that are served hold the slots.
LEMMA ServedHold ==
    ASSUME Inv
    PROVE  Cardinality(Service!Served) = inFlight
<1>1. ASSUME NEW c \in Connections
      PROVE  Stage(c) \in {"waiting", "answered"} <=> HoldsSlot(c)
  <2>1. conn[c] \in ConnType /\ Coherent(conn[c])
    BY ConnFacts
  <2> QED BY <2>1 DEF ConnType, Coherent, RunningHandlers, Stage, HoldsSlot, Open
<1>2. Service!Served = {c \in Connections : HoldsSlot(c)}
  BY <1>1 DEF Service!Served
<1> QED BY <1>2 DEF Inv, SlotsInv, SlotsAccounted

\* One connection changes, and goes from one stage to another or stays.
LEMMA StageMoves ==
    ASSUME Inv, NEW c \in Connections, NEW record, Becomes(c, record),
           NEW from, NEW to, Stage(c) \in from, Stage(c)' = to
    PROVE  Service!Goes(c, from, to)
<1>1. \A d \in Connections : d # c => conn'[d] = conn[d]
  BY DEF Becomes, Inv, SlotsInv, ServerTypeOK
<1>2. \A d \in Connections : d # c => Stage(d)' = Stage(d)
  BY <1>1 DEF Stage
<1>3. Stages' = [Stages EXCEPT ![c] = to]
  BY <1>2 DEF Stages
<1> QED BY <1>3 DEF Service!Goes, Stages

LEMMA StageStays ==
    ASSUME Inv, NEW c \in Connections, NEW record, Becomes(c, record), Stage(c)' = Stage(c)
    PROVE  UNCHANGED Stages
<1>1. \A d \in Connections : d # c => conn'[d] = conn[d]
  BY DEF Becomes, Inv, SlotsInv, ServerTypeOK
<1>2. \A d \in Connections : Stage(d)' = Stage(d)
  BY <1>1 DEF Stage
<1> QED BY <1>2 DEF Stages

LEMMA NewRecord ==
    ASSUME Inv, NEW c \in Connections, NEW record, Becomes(c, record)
    PROVE  conn'[c] = record
  BY DEF Becomes, Inv, SlotsInv, ServerTypeOK

\* The three answers to a connection that is opened.
LEMMA OpeningRefines ==
    ASSUME Inv, NEW c \in Connections,
           (\E kind \in Guarded : Accept(c, kind) \/ Refuse(c, kind)) \/ Readiness(c) \/ Connect(c)
    PROVE  Service!ServiceNext
<1>1. ASSUME NEW kind \in Guarded, Accept(c, kind)
      PROVE  Service!Admit(c)
  <2> DEFINE record == [Free EXCEPT !.kind = kind, !.counted = TRUE,
                                    !.handler = "deciding", !.answer = "none"]
  <2>1. Becomes(c, record) /\ conn[c] = Free /\ inFlight < MaxInFlight
    BY <1>1 DEF Accept
  <2>2. record.answer = "none"
    BY DEF Free
  <2>3. Stage(c) = "free" /\ Stage(c)' = "waiting"
    BY <2>1, <2>2, NewRecord, FreeFacts DEF Stage
  <2> HIDE DEF record
  <2>4. Service!Goes(c, {"free"}, "waiting")
    BY <2>1, <2>3, StageMoves
  <2>5. Cardinality(Service!Served) < MaxInFlight
    BY <2>1, ServedHold
  <2> QED BY <2>4, <2>5, SameCount DEF Service!Admit
<1>2. ASSUME NEW kind \in Guarded, Refuse(c, kind)
      PROVE  Service!TurnAway(c)
  <2> DEFINE base == [Free EXCEPT !.kind = kind, !.handler = "done"]
  <2>1. Becomes(c, Answered(base)) /\ conn[c] = Free /\ inFlight >= MaxInFlight
    BY <1>2 DEF Refuse
  <2>2. base \in ConnType /\ base.answer = "free" /\ base.counted = FALSE /\ base.kind = kind
    BY DEF Free, ConnType
  <2> HIDE DEF base
  <2>3. conn'[c].answer = "ended" /\ conn'[c].counted = FALSE /\ conn'[c].kind = kind
    BY <2>1, <2>2, AnsweredFields, NewRecord
  <2>4. Stage(c) = "free" /\ Stage(c)' = "refused"
    BY <2>1, <2>3, FreeFacts DEF Stage, Guarded
  <2>5. Service!Goes(c, {"free"}, "refused")
    BY <2>1, <2>4, StageMoves
  <2>6. Cardinality(Service!Served) >= MaxInFlight
    BY <2>1, ServedHold
  <2> QED BY <2>5, <2>6, SameCount DEF Service!TurnAway
<1>3. CASE Readiness(c) \/ Connect(c)
  <2>0. PICK kind \in {"probe", "connect"} :
          Becomes(c, Answered([Free EXCEPT !.kind = kind, !.handler = "done"])) /\ conn[c] = Free
    BY <1>3 DEF Readiness, Connect
  <2> DEFINE base == [Free EXCEPT !.kind = kind, !.handler = "done"]
  <2>1. Becomes(c, Answered(base)) /\ conn[c] = Free
    BY <2>0
  <2>2. base \in ConnType /\ base.answer = "free" /\ base.counted = FALSE /\ base.kind = kind
    BY DEF Free, ConnType
  <2> HIDE DEF base
  <2>3. conn'[c].answer = "ended" /\ conn'[c].counted = FALSE /\ conn'[c].kind \in {"probe", "connect"}
    BY <2>1, <2>2, AnsweredFields, NewRecord
  <2>4. Stage(c) = "free" /\ Stage(c)' = "probed"
    BY <2>1, <2>3, FreeFacts DEF Stage
  <2>5. Service!Probe(c)
    BY <2>1, <2>4, StageMoves DEF Service!Probe
  <2> QED BY <2>5 DEF Service!ServiceNext
<1> QED BY <1>1, <1>2, <1>3 DEF Service!ServiceNext

\* A connection that waits is answered; to any other, nothing visible happens.
LEMMA AnsweringRefines ==
    ASSUME Inv, NEW c \in Connections, NEW record, Becomes(c, record),
           record.counted = conn[c].counted,
           record.kind = conn[c].kind \/ conn[c].counted,
           \/ record.answer = conn[c].answer
           \/ /\ conn[c].answer \in {"none", "streaming"}
              /\ record.answer \in {"streaming", "ended"}
    PROVE  Service!ServiceNext \/ UNCHANGED Stages
<1>1. conn[c] \in ConnType /\ Coherent(conn[c]) /\ conn'[c] = record
  BY ConnFacts, NewRecord
<1>2. CASE conn[c].answer = "none" /\ record.answer \in {"streaming", "ended"}
  <2>1. conn[c].counted = TRUE
    BY <1>1, <1>2 DEF Coherent, RunningHandlers, ConnType
  <2>2. Stage(c) = "waiting" /\ Stage(c)' = "answered"
    BY <1>1, <1>2, <2>1 DEF Stage
  <2>3. Service!Answer(c)
    BY <2>2, StageMoves DEF Service!Answer
  <2> QED BY <2>3 DEF Service!ServiceNext
<1>3. CASE conn[c].answer = "streaming" /\ record.answer \in {"streaming", "ended"}
  <2>1. Stage(c)' = Stage(c)
    BY <1>1, <1>3 DEF Stage
  <2> QED BY <2>1, StageStays
<1>4. CASE record.answer = conn[c].answer
  <2>1. Stage(c)' = Stage(c)
    BY <1>1, <1>4 DEF Stage
  <2> QED BY <2>1, StageStays
<1> QED BY <1>2, <1>3, <1>4

\* The close event ends a connection, whatever its stage.
LEMMA ClosingRefines ==
    ASSUME Inv, NEW c \in Connections, NEW record \in ConnType, Closed(c, record), Open(c)
    PROVE  Service!ServiceNext
<1> DEFINE closed == [record EXCEPT !.answer = "closed"]
<1>1. Becomes(c, closed) /\ closed.answer = "closed"
  BY DEF Closed, ConnType
<1>2. conn'[c].answer = "closed"
  BY <1>1, NewRecord
<1>3. Stage(c) \in {"waiting", "answered", "refused", "probed"} /\ Stage(c)' = "closed"
  BY <1>2 DEF Stage, Open
<1> HIDE DEF closed
<1>4. Service!Close(c)
  BY <1>1, <1>3, StageMoves DEF Service!Close
<1> QED BY <1>4 DEF Service!ServiceNext

LEMMA HandlerRefines ==
    ASSUME Inv, NEW c \in Connections, HandlerStep(c) \/ BodyRead(c)
    PROVE  Service!ServiceNext \/ UNCHANGED Stages
<1>1. conn[c] \in ConnType /\ Coherent(conn[c]) /\ conn[c].handler \in RunningHandlers
  BY ConnFacts DEF HandlerStep, Deny, Forward, AsksBody, BodyRead, RunningHandlers
<1>2. conn[c].answer \in {"none", "closed"}
  BY <1>1 DEF Coherent, RunningHandlers
<1>3. CASE Deny(c)
  <2> DEFINE base == [conn[c] EXCEPT !.handler = "done"]
  <2>1. Becomes(c, Answered(base))
    BY <1>3 DEF Deny
  <2>2. /\ base \in ConnType /\ base.answer = conn[c].answer
        /\ base.counted = conn[c].counted /\ base.kind = conn[c].kind
    BY <1>1 DEF ConnType
  <2> HIDE DEF base
  <2> QED BY <1>2, <2>1, <2>2, AnsweredFields, AnsweringRefines
<1>4. CASE Forward(c)
  <2> DEFINE record == [conn[c] EXCEPT !.handler = "done", !.upstream = "asked"]
  <2>1. Becomes(c, record)
    BY <1>4 DEF Forward
  <2>2. /\ record.answer = conn[c].answer
        /\ record.counted = conn[c].counted /\ record.kind = conn[c].kind
    BY <1>1 DEF ConnType
  <2> HIDE DEF record
  <2> QED BY <2>1, <2>2, AnsweringRefines
<1>5. CASE AsksBody(c) \/ BodyRead(c)
  <2>0. PICK point \in {"reading", "checking"} : Becomes(c, [conn[c] EXCEPT !.handler = point])
    BY <1>5 DEF AsksBody, BodyRead
  <2> DEFINE record == [conn[c] EXCEPT !.handler = point]
  <2>1. Becomes(c, record)
    BY <2>0
  <2>2. /\ record.answer = conn[c].answer
        /\ record.counted = conn[c].counted /\ record.kind = conn[c].kind
    BY <1>1 DEF ConnType
  <2> HIDE DEF record
  <2> QED BY <2>1, <2>2, AnsweringRefines
<1> QED BY <1>3, <1>4, <1>5 DEF HandlerStep

LEMMA UpstreamRefines ==
    ASSUME Inv, NEW c \in Connections, UpstreamAnswers(c) \/ UpstreamCompletes(c) \/ UpstreamCut(c)
    PROVE  Service!ServiceNext \/ UNCHANGED Stages
<1>1. conn[c] \in ConnType /\ Coherent(conn[c])
  BY ConnFacts
<1>2. CASE UpstreamAnswers(c)
  <2>1. PICK kind \in {conn[c].kind, "upgraded"} : Becomes(c, Answering(c, kind))
    BY <1>2 DEF UpstreamAnswers
  <2>2. conn[c].heads = 0 /\ conn[c].answer \in {"none", "closed"} /\ conn[c].counted
    BY <1>1, <1>2 DEF Coherent, ConnType, UpstreamAnswers
  <2> DEFINE record == Answering(c, kind)
  <2>3. /\ record.answer = (IF conn[c].answer = "none" THEN "streaming" ELSE "closed")
        /\ record.counted = conn[c].counted
    BY <1>1, <2>2, AnsweringFields
  <2> HIDE DEF record
  <2>4. Becomes(c, record)
    BY <2>1 DEF record
  <2> QED BY <2>2, <2>3, <2>4, AnsweringRefines
<1>3. CASE UpstreamCompletes(c)
  <2> DEFINE record == [conn[c] EXCEPT !.upstream = "settled",
                                       !.answer = IF @ = "streaming" THEN "ended" ELSE @]
  <2>1. Becomes(c, record)
    BY <1>3 DEF UpstreamCompletes
  <2>2. /\ record.answer = (IF conn[c].answer = "streaming" THEN "ended" ELSE conn[c].answer)
        /\ record.counted = conn[c].counted /\ record.kind = conn[c].kind
    BY <1>1 DEF ConnType
  <2> HIDE DEF record
  <2> QED BY <2>1, <2>2, AnsweringRefines
<1>4. CASE UpstreamCut(c)
  <2> DEFINE record == [conn[c] EXCEPT !.upstream = "cut"]
  <2>1. Becomes(c, record)
    BY <1>4 DEF UpstreamCut
  <2>2. /\ record.answer = conn[c].answer
        /\ record.counted = conn[c].counted /\ record.kind = conn[c].kind
    BY <1>1 DEF ConnType
  <2> HIDE DEF record
  <2> QED BY <2>1, <2>2, AnsweringRefines
<1> QED BY <1>2, <1>3, <1>4

LEMMA UpstreamFailsRefines ==
    ASSUME Inv, NEW c \in Connections, UpstreamFails(c)
    PROVE  Service!ServiceNext \/ UNCHANGED Stages
<1> DEFINE settled == [conn[c] EXCEPT !.upstream = "settled"]
<1>1. conn[c] \in ConnType /\ Coherent(conn[c])
  BY ConnFacts
<1>2. /\ settled \in ConnType /\ settled.answer = conn[c].answer
      /\ settled.counted = conn[c].counted /\ settled.kind = conn[c].kind
  BY <1>1 DEF ConnType
<1>3. CASE conn[c].upstream = "asked" /\ Becomes(c, Answered(settled))
  <2>1. conn[c].answer \in {"none", "closed"}
    BY <1>1, <1>3 DEF Coherent, RunningHandlers
  <2> HIDE DEF settled
  <2> QED BY <1>2, <1>3, <2>1, AnsweredFields, AnsweringRefines
<1>4. CASE conn[c].answer \in {"streaming", "ended"} /\ Closed(c, settled)
  <2> HIDE DEF settled
  <2> QED BY <1>2, <1>4, ClosingRefines DEF Open
<1>5. CASE Becomes(c, settled)
  <2> HIDE DEF settled
  <2> QED BY <1>2, <1>5, AnsweringRefines
<1> QED BY <1>3, <1>4, <1>5 DEF UpstreamFails

LEMMA ClientRefines ==
    ASSUME Inv, NEW c \in Connections,
           Flush(c) \/ ClientLeaves(c) \/ ClientEnds(c) \/ ClientResets(c) \/ Reuse(c)
    PROVE  Service!ServiceNext \/ UNCHANGED Stages
<1>1. conn[c] \in ConnType
  BY ConnFacts
<1>2. CASE Flush(c)
  BY <1>1, <1>2, ClosingRefines DEF Flush, Open
<1>3. CASE ClientLeaves(c)
  <2> DEFINE settled == [conn[c] EXCEPT !.upstream = "settled"]
  <2>1. Open(c) /\ (Closed(c, conn[c]) \/ Closed(c, settled))
    BY <1>3 DEF ClientLeaves
  <2>2. settled \in ConnType
    BY <1>1 DEF ConnType
  <2> HIDE DEF settled
  <2> QED BY <1>1, <2>1, <2>2, ClosingRefines
<1>4. CASE ClientResets(c)
  <2>1. conn' = [d \in Connections |-> Free]
    BY <1>4 DEF ClientResets
  <2>2. \A d \in Connections : Stage(d)' = "free"
    BY <2>1, FreeFacts DEF Stage
  <2>3. Service!Collapse
    BY <2>2 DEF Service!Collapse
  <2> QED BY <2>3 DEF Service!ServiceNext
<1>5. CASE Reuse(c)
  <2>1. Becomes(c, Free) /\ conn[c].answer = "closed"
    BY <1>5 DEF Reuse
  <2>2. Stage(c) = "closed" /\ Stage(c)' = "free"
    BY <2>1, NewRecord, FreeFacts DEF Stage
  <2>3. Service!Reopen(c)
    BY <2>1, <2>2, StageMoves DEF Service!Reopen
  <2> QED BY <2>3 DEF Service!ServiceNext
<1>6. CASE ClientEnds(c)
  <2>0. PICK left \in {"left", "unread"} : Becomes(c, [conn[c] EXCEPT !.client = left])
    BY <1>6 DEF ClientEnds
  <2> DEFINE record == [conn[c] EXCEPT !.client = left]
  <2>1. Becomes(c, record)
    BY <2>0
  <2>2. /\ record.answer = conn[c].answer
        /\ record.counted = conn[c].counted /\ record.kind = conn[c].kind
    BY <1>1 DEF ConnType
  <2> HIDE DEF record
  <2> QED BY <2>1, <2>2, AnsweringRefines
<1> QED BY <1>2, <1>3, <1>4, <1>5, <1>6

\* The server implements the bounded service: the guard's counter stands for the
\* connections that are really being served, at every listener and every event.
THEOREM ServerImplementsService == Spec => ServiceIsBounded
<1>1. Init => Service!ServiceInit
  <2> SUFFICES ASSUME Init PROVE Service!ServiceInit
    OBVIOUS
  <2>1. \A c \in Connections : Stage(c) = "free"
    BY FreeFacts DEF Init, Stage
  <2> QED BY <2>1 DEF Service!ServiceInit
<1>2. Inv /\ [Next]_vars => [Service!ServiceNext]_Stages
  <2> SUFFICES ASSUME Inv, [Next]_vars
               PROVE  Service!ServiceNext \/ UNCHANGED Stages
    OBVIOUS
  <2>1. ASSUME NEW c \in Connections, NEW kind \in Guarded, Accept(c, kind) \/ Refuse(c, kind)
        PROVE  Service!ServiceNext
    BY <2>1, OpeningRefines
  <2>2. ASSUME NEW c \in Connections, Readiness(c) \/ Connect(c)
        PROVE  Service!ServiceNext
    BY <2>2, OpeningRefines
  <2>3. ASSUME Restart \/ UNCHANGED vars
        PROVE  UNCHANGED Stages
    BY <2>3 DEF Restart, vars, Stages, Stage
  <2>4. ASSUME NEW c \in Connections, HandlerStep(c) \/ BodyRead(c)
        PROVE  Service!ServiceNext \/ UNCHANGED Stages
    BY <2>4, HandlerRefines
  <2>5. ASSUME NEW c \in Connections,
               UpstreamAnswers(c) \/ UpstreamCompletes(c) \/ UpstreamCut(c) \/ UpstreamFails(c)
        PROVE  Service!ServiceNext \/ UNCHANGED Stages
    BY <2>5, UpstreamRefines, UpstreamFailsRefines
  <2>6. ASSUME NEW c \in Connections,
               Flush(c) \/ ClientLeaves(c) \/ ClientEnds(c) \/ ClientResets(c) \/ Reuse(c)
        PROVE  Service!ServiceNext \/ UNCHANGED Stages
    BY <2>6, ClientRefines
  <2> QED BY <2>1, <2>2, <2>3, <2>4, <2>5, <2>6, Zenon DEF Next
<1> QED BY <1>1, <1>2, ServerInvariant, PTL DEF Spec, ServiceIsBounded, Service!ServiceSpec, Stages
=============================================================================
