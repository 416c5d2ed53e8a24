--------------------------- MODULE MangoCoreSafety ---------------------------
(***************************************************************************)
(* The safety of MangoCore for every value of its constants: CoreInv is    *)
(* inductive, from it no status ever goes back and no acknowledged request *)
(* is without a row, and the core implements the lifecycle of its requests.*)
(***************************************************************************)
EXTENDS MangoCoreInv, MangoCoreProofs

-----------------------------------------------------------------------------
(* Queues of things with an id.                                              *)

(* Once the first element of a queue is taken the others are one place on.   *)
LEMMA TakenAt ==
  ASSUME NEW S, NEW q \in Seq(S), q # << >>
  PROVE  /\ 1 \in DOMAIN q /\ Head(q) = q[1]
         /\ \A i \in DOMAIN Tail(q) : /\ i + 1 \in DOMAIN q /\ i + 1 # 1
                                      /\ Tail(q)[i] = q[i + 1]
         /\ \A i, j \in DOMAIN Tail(q) : i + 1 = j + 1 => i = j
  <1>1. Len(q) \in Nat \ {0} /\ DOMAIN q = 1 .. Len(q) /\ Head(q) = q[1]
    BY EmptySeq, LenProperties
  <1>2. /\ DOMAIN Tail(q) = 1 .. Len(q) - 1
        /\ \A i \in 1 .. Len(q) - 1 : Tail(q)[i] = q[i + 1]
    BY HeadTailProperties, LenProperties
  <1> QED
    BY <1>1, <1>2

(* An element added to a queue is its last; the others stay in their places. *)
LEMMA AppendedAt ==
  ASSUME NEW S, NEW q \in Seq(S), NEW x \in S
  PROVE  \A i \in DOMAIN Append(q, x) :
           \/ i \in DOMAIN q /\ Append(q, x)[i] = q[i]
           \/ i = Len(q) + 1 /\ Append(q, x)[i] = x
  <1>1. Len(q) \in Nat /\ DOMAIN q = 1 .. Len(q)
    BY LenProperties
  <1>2. /\ DOMAIN Append(q, x) = 1 .. Len(q) + 1
        /\ \A i \in 1 .. Len(q) : Append(q, x)[i] = q[i]
        /\ Append(q, x)[Len(q) + 1] = x
    BY AppendProperties, LenProperties
  <1> QED
    BY <1>1, <1>2

(* Taking the first of a queue leaves no id that was not in it.              *)
LEMMA NamedTaken ==
  ASSUME NEW S, NEW q \in Seq(S), q # << >>
  PROVE  Head(q).id \in Named(q) /\ Named(Tail(q)) \subseteq Named(q)
  BY TakenAt DEF Named

(* Adding to a queue adds that id.                                           *)
LEMMA NamedAdded ==
  ASSUME NEW S, NEW q \in Seq(S), NEW x \in S
  PROVE  Named(Append(q, x)) \subseteq Named(q) \cup {x.id}
  BY AppendedAt DEF Named

(* Losing the end or the beginning of a queue adds none.                     *)
LEMMA NamedCut ==
  ASSUME NEW S, NEW q \in Seq(S), NEW n \in 0 .. Len(q)
  PROVE  /\ Named(SubSeq(q, 1, n)) \subseteq Named(q)
         /\ Named(SubSeq(q, n + 1, Len(q))) \subseteq Named(q)
  <1>1. Len(q) \in Nat /\ DOMAIN q = 1 .. Len(q)
        /\ \A i \in 1 .. Len(q) : q[i] \in S
    BY LenProperties
  <1>2. /\ SubSeq(q, 1, n) \in Seq(S) /\ Len(SubSeq(q, 1, n)) = n
        /\ \A i \in 1 .. n : SubSeq(q, 1, n)[i] = q[i]
    BY <1>1, SubSeqProperties
  <1>3. DOMAIN SubSeq(q, 1, n) = 1 .. n
    BY <1>2, LenProperties
  <1>4. PICK m \in Nat : m = n + 1
    OBVIOUS
  <1> DEFINE rest == SubSeq(q, m, Len(q))
  <1>5. /\ rest \in Seq(S)
        /\ Len(rest) = (IF m <= Len(q) THEN Len(q) - m + 1 ELSE 0)
        /\ \A i \in 1 .. Len(q) - m + 1 : rest[i] = q[m + i - 1]
    <2>1. \A i \in m .. Len(q) : q[i] \in S
      BY <1>1, <1>4
    <2> QED
      BY <1>1, <1>4, <2>1, SubSeqProperties
  <1> HIDE DEF rest
  <1>6. Named(SubSeq(q, 1, n)) \subseteq Named(q)
    BY <1>1, <1>2, <1>3 DEF Named
  <1>7. Named(rest) \subseteq Named(q)
    <2>1. DOMAIN rest = 1 .. Len(q) - m + 1
      <3>0. m \in 1 .. Len(q) \/ m = Len(q) + 1
        BY <1>1, <1>4
      <3>1. Len(rest) = Len(q) - m + 1
        BY <1>1, <1>5, <3>0
      <3>2. DOMAIN rest = 1 .. Len(rest)
        BY <1>5, LenProperties
      <3> QED
        BY <3>1, <3>2
    <2>2. \A i \in 1 .. Len(q) - m + 1 : m + i - 1 \in 1 .. Len(q)
      BY <1>1, <1>4
    <2>3. \A i \in DOMAIN rest : rest[i] = q[m + i - 1] /\ m + i - 1 \in DOMAIN q
      BY <1>1, <1>5, <2>1, <2>2
    <2> QED
      BY <2>3 DEF Named
  <1> QED
    BY <1>4, <1>6, <1>7 DEF rest

(* An empty queue has none.                                                  *)
LEMMA NamedEmpty == Named(<< >>) = {}
  BY DEF Named

(* A queue of results stays one when its first result is taken.              *)
LEMMA ResultsTaken ==
  ASSUME NEW S, NEW q \in Seq(S), q # << >>, Results(q)
  PROVE  IsResult(Head(q)) /\ Results(Tail(q))
  BY TakenAt DEF Results

(* A queue of results stays one when a result is added.                      *)
LEMMA ResultsAdded ==
  ASSUME NEW S, NEW q \in Seq(S), NEW x \in S, Results(q), IsResult(x)
  PROVE  Results(Append(q, x))
  BY AppendedAt DEF Results

-----------------------------------------------------------------------------
(* Results.                                                                  *)

(* No step brings an earlier status into the queues that lead to the engine. *)
LEMMA ResultsStep ==
  ASSUME TypeOK, ResultsAreFinal, [Next]_vars
  PROVE  ResultsAreFinal'
  <1> USE DEF ResultsAreFinal
  <1>0. IsResult(Failure) /\ IsResult(Garbled) /\ Results(<< >>)
    BY DEF Failure, Garbled, Status, Results, IsResult
  <1>1. CASE UNCHANGED <<responseQueue, rFeed, computeFeed, rstatus, eupdate>>
    BY <1>1
  <1>2. CASE Engine
    <2>1. CASE TakeUpdate
      BY <2>1, <1>2, ResultsTaken DEF TakeUpdate, Engine, TypeOK, ChannelTypeOK,
                                      routerVars, queues
    <2>2. CASE RecordUpdate
      BY <2>2, <1>2, <1>0 DEF RecordUpdate, Engine, channels, routerVars, queues
    <2>3. CASE TakeCall \/ SubmitToCompute \/ RecordPending \/ Query \/ EngineIdle
      BY <2>3, <1>2, <1>1 DEF Engine, TakeCall, SubmitToCompute, RecordPending, Query,
                              EngineIdle, engineVars, channels, routerVars, queues
    <2> QED
      BY <1>2, <2>1, <2>2, <2>3 DEF Engine
  <1>3. CASE Route
    <2> USE <1>3 DEF Route, engineVars, queues
    <2>1. CASE PublishFails \/ TakeFromClosed
      BY <2>1, <1>0 DEF PublishFails, TakeFromClosed, Unmarshal
    <2>2. CASE TakeDelivery
      BY <2>2, <1>0, ResultsTaken
      DEF TakeDelivery, Unmarshal, TypeOK, RouterTypeOK
    <2>3. CASE SinkStatus
      BY <2>3, ResultsAdded DEF SinkStatus, TypeOK, ChannelTypeOK, RouterTypeOK
    <2>4. CASE TakeRequest \/ Publish \/ RouterIdle
      BY <2>4, <1>1 DEF TakeRequest, Publish, RouterIdle, routerVars
    <2> QED
      BY <2>1, <2>2, <2>3, <2>4
  <1>4. CASE Broker
    <2> USE <1>4 DEF Broker, engineVars
    <2>1. CASE Deliver
      BY <2>1, ResultsTaken, ResultsAdded, Taken
      DEF Deliver, TypeOK, RouterTypeOK, QueueTypeOK
    <2>2. CASE LoseConnection
      BY <2>2, <1>0 DEF LoseConnection, RouterCutOff
    <2> QED
      BY <2>1, <2>2
  <1>5. CASE Compute
    <2>1. CASE ComputeAnswers
      <3>1. PICK answer \in Answers(Head(requestQueue)) :
              responseQueue' = Append(responseQueue, answer)
        BY <2>1 DEF ComputeAnswers
      <3>2. IsResult(answer)
        BY <1>0 DEF Answers, Status, IsResult
      <3>3. answer \in DetectionStatus
        BY <2>1, <3>1, Taken, AnswersType DEF ComputeAnswers, TypeOK, QueueTypeOK
      <3>4. Results(responseQueue')
        BY <3>1, <3>2, <3>3, ResultsAdded DEF TypeOK, QueueTypeOK
      <3> QED
        BY <1>5, <3>4 DEF Compute, engineVars, routerVars
    <2>2. CASE ComputeDrops
      BY <2>2, <1>5, <1>1 DEF Compute, ComputeDrops, engineVars, routerVars
    <2> QED
      BY <1>5, <2>1, <2>2 DEF Compute
  <1>6. CASE Restart
    BY <1>6, <1>0 DEF Restart, ChannelRestart, EngineRestart, RouterRestart, queues
  <1>7. CASE \E c \in Calls : Handle(c)
    BY <1>7, <1>1 DEF Handle, engineVars, routerVars, queues
  <1>8. CASE Answer
    BY <1>8, <1>1 DEF Answer, Reply, channels, routerVars, queues
  <1>9. CASE UNCHANGED vars
    BY <1>9, <1>1 DEF vars, channels, engineVars, routerVars, queues
  <1>10. CASE BrokerCrash
    BY <1>10, <1>0 DEF BrokerCrash, QueuesLost, RouterCutOff, channels, engineVars
  <1> QED
    BY <1>2, <1>3, <1>4, <1>5, <1>6, <1>7, <1>8, <1>9, <1>10 DEF Next, CoreNext

-----------------------------------------------------------------------------
(* Calls and their messages.                                                 *)

(* The messages the handlers make are their calls' own.                      *)
LEMMA OwnMessages ==
  /\ \A c \in Puts, d \in Detectors : Own(c, DetectionRequest(c, d))
  /\ \A c \in Gets, id \in Ids : Own(c, DetectionQuery(id))
  /\ \A c \in Masses : Own(c, MassDetectionStatusRequest)
  BY CallAssumption
  DEF Own, DetectionRequest, DetectionQuery, MassDetectionStatusRequest

(* A message stays with the call that made it on its way to the engine.      *)
LEMMA CallsAreOwnStep ==
  ASSUME TypeOK, CallsAreOwn, [Next]_vars
  PROVE  CallsAreOwn'
  <1>1. CASE \E c \in Calls : Handle(c)
    <2>1. PICK c \in Calls : Handle(c)
      BY <1>1
    <2>2. UNCHANGED <<epc, ecall>>
      BY <2>1 DEF Handle, engineVars
    <2>3. ASSUME NEW msg \in Message, Own(c, msg), CallEngine(c, msg)
          PROVE  CallsAreOwn'
      <3>1. \A d \in Calls : hpc'[d] = "sending" => Own(d, hreq'[d])
        BY <2>3 DEF CallEngine, CallsAreOwn, TypeOK, WebTypeOK
      <3>2. UNCHANGED engineFeed
        BY <2>3 DEF CallEngine
      <3> QED
        BY <2>2, <3>1, <3>2 DEF CallsAreOwn, Own
    <2>4. ASSUME NEW code, Respond(c, code), UNCHANGED <<hreq, engineFeed>>
          PROVE  CallsAreOwn'
      BY <2>2, <2>4 DEF Respond, CallsAreOwn, TypeOK, WebTypeOK, Own
    <2>5. CASE PutDetection(c)
      BY <2>3, <2>4, <2>5, OwnMessages, MessageType DEF PutDetection, RejectPut, Ids
    <2>6. CASE GetDetection(c)
      BY <2>3, <2>4, <2>6, OwnMessages, MessageType DEF GetDetection
    <2>7. CASE MassGetDetection(c)
      BY <2>3, <2>4, <2>7, OwnMessages, MessageType DEF MassGetDetection
    <2>8. CASE ListDetectors(c) \/ TimeOut(c)
      BY <2>4, <2>8 DEF ListDetectors, TimeOut
    <2>9. CASE SendToEngine(c)
      <3> DEFINE cts == [ret |-> c, msg |-> hreq[c]]
      <3>1. cts \in ClientToServer /\ Own(cts.ret, cts.msg)
        BY <2>9 DEF SendToEngine, CallsAreOwn, TypeOK, WebTypeOK, ClientToServer
      <3>2. engineFeed' = Append(engineFeed, cts)
        BY <2>9 DEF SendToEngine
      <3> HIDE DEF cts
      <3>3. \A i \in DOMAIN engineFeed' : \/ i \in DOMAIN engineFeed
                                             /\ engineFeed'[i] = engineFeed[i]
                                         \/ engineFeed'[i] = cts
        BY <3>1, <3>2, AppendedAt DEF TypeOK, ChannelTypeOK
      <3>4. \A d \in Calls : hpc'[d] = "sending" => hpc[d] = "sending"
        BY <2>9 DEF SendToEngine, TypeOK, WebTypeOK
      <3> QED
        BY <2>2, <2>9, <3>1, <3>3, <3>4 DEF SendToEngine, CallsAreOwn, Own
    <2> QED
      BY <2>1, <2>5, <2>6, <2>7, <2>8, <2>9 DEF Handle, Handlers
  <1>2. CASE Answer
    <2>1. \A d \in Calls : hpc'[d] = "sending" => hpc[d] = "sending"
      BY <1>2 DEF Answer, ReceiveAnswer, Respond, TypeOK, WebTypeOK
    <2> QED
      BY <1>2, <2>1 DEF Answer, Reply, ReceiveAnswer, channels, CallsAreOwn, Own
  <1>3. CASE Engine
    <2> USE <1>3 DEF Engine, webVars, CallsAreOwn, Own
    <2>1. CASE TakeCall
      <3>1. engineFeed # << >> /\ engineFeed \in Seq(ClientToServer)
        BY <2>1 DEF TakeCall, TypeOK, ChannelTypeOK
      <3>2. /\ Own(Head(engineFeed).ret, Head(engineFeed).msg)
            /\ \A i \in DOMAIN Tail(engineFeed) :
                 Own(Tail(engineFeed)[i].ret, Tail(engineFeed)[i].msg)
        BY <3>1, TakenAt
      <3> QED
        BY <2>1, <3>2 DEF TakeCall
    <2>2. CASE SubmitToCompute \/ RecordPending \/ Query
      BY <2>2 DEF SubmitToCompute, RecordPending, Query, channels
    <2>3. CASE TakeUpdate \/ RecordUpdate \/ EngineIdle
      BY <2>3 DEF TakeUpdate, RecordUpdate, EngineIdle, channels, engineVars
    <2> QED
      BY <2>1, <2>2, <2>3
  <1>4. CASE Route \/ Broker \/ BrokerCrash \/ Compute
    BY <1>4 DEF Route, Broker, BrokerCrash, Compute, channels, webVars, engineVars,
                CallsAreOwn, Own
  <1>5. CASE Restart
    BY <1>5 DEF Restart, WebRestart, ChannelRestart, EngineRestart, CallsAreOwn, Own
  <1>6. CASE UNCHANGED vars
    BY <1>6 DEF vars, webVars, engineVars, channels, CallsAreOwn, Own
  <1> QED
    BY <1>1, <1>2, <1>3, <1>4, <1>5, <1>6 DEF Next, CoreNext

-----------------------------------------------------------------------------
(* One turn per request.                                                     *)

(* Only its own handler moves a call on.                                     *)
LEMMA HandleMoves ==
  ASSUME TypeOK, NEW c \in Calls, Handle(c)
  PROVE  /\ UNCHANGED <<epc, ecall>>
         /\ \A d \in Calls : d # c => hpc'[d] = hpc[d]
         /\ \/ UNCHANGED engineFeed
            \/ SendToEngine(c)
         /\ NotSent(c)' => NotSent(c)
  <1>1. UNCHANGED <<epc, ecall>>
    BY DEF Handle, engineVars
  <1> USE DEF TypeOK, WebTypeOK, Respond, CallEngine, NotSent
  <1>2. CASE PutDetection(c)
    <2>1. CASE Respond(c, 400) /\ UNCHANGED <<hreq, engineFeed>>
      BY <1>1, <2>1
    <2>2. CASE \E d \in Detectors : CallEngine(c, DetectionRequest(c, d))
      BY <1>1, <1>2, <2>2 DEF PutDetection
    <2> QED
      BY <1>2, <2>1, <2>2 DEF PutDetection, RejectPut
  <1>3. CASE GetDetection(c)
    BY <1>1, <1>3 DEF GetDetection
  <1>4. CASE MassGetDetection(c)
    BY <1>1, <1>4 DEF MassGetDetection
  <1>5. CASE ListDetectors(c)
    BY <1>1, <1>5 DEF ListDetectors
  <1>6. CASE SendToEngine(c)
    BY <1>1, <1>6 DEF SendToEngine
  <1>7. CASE TimeOut(c)
    BY <1>1, <1>7 DEF TimeOut
  <1> QED
    BY <1>2, <1>3, <1>4, <1>5, <1>6, <1>7 DEF Handle, Handlers

(* A call takes its turn once: it is not sent, or in the feed once, or in    *)
(* the engine's hand, or past all of these.                                  *)
LEMMA OneTurnStep ==
  ASSUME TypeOK, OneTurn, [Next]_vars
  PROVE  OneTurn'
  <1>1. CASE \E c \in Calls : Handle(c)
    <2>1. PICK c \in Calls : Handle(c)
      BY <1>1
    <2>2. /\ UNCHANGED <<epc, ecall>>
          /\ \A d \in Calls : NotSent(d)' => NotSent(d)
      BY <2>1, HandleMoves DEF NotSent
    <2>3. CASE UNCHANGED engineFeed
      BY <2>2, <2>3 DEF OneTurn, NotSent, InFeed, InHand, Calls
    <2>4. CASE SendToEngine(c)
      <3> DEFINE cts == [ret |-> c, msg |-> hreq[c]]
      <3>1. cts \in ClientToServer /\ engineFeed \in Seq(ClientToServer)
        BY DEF TypeOK, WebTypeOK, ChannelTypeOK, ClientToServer
      <3>2. engineFeed' = Append(engineFeed, cts) /\ cts.ret = c
        BY <2>4 DEF SendToEngine
      <3> HIDE DEF cts
      <3>3. \A i \in DOMAIN engineFeed' :
              \/ i \in DOMAIN engineFeed /\ engineFeed'[i].ret = engineFeed[i].ret
              \/ i = Len(engineFeed) + 1 /\ engineFeed'[i].ret = c
        BY <3>1, <3>2, AppendedAt
      <3>4. NotSent(c) /\ ~NotSent(c)'
        BY <2>4 DEF SendToEngine, NotSent, TypeOK, WebTypeOK
      <3>5. c \in Puts => ~InFeed(c) /\ ~InHand(c)
        BY <3>4 DEF OneTurn
      <3> QED
        BY <2>2, <3>3, <3>4, <3>5 DEF OneTurn, NotSent, InFeed, InHand, Calls
    <2> QED
      BY <2>1, <2>3, <2>4, HandleMoves
  <1>2. CASE Answer
    <2>1. \A d \in Calls : NotSent(d)' => NotSent(d)
      BY <1>2 DEF Answer, ReceiveAnswer, Respond, NotSent, TypeOK, WebTypeOK
    <2> QED
      BY <1>2, <2>1 DEF Answer, Reply, channels, OneTurn, NotSent, InFeed, InHand, Calls
  <1>3. CASE Engine
    <2> USE <1>3 DEF Engine, webVars, OneTurn, NotSent, InFeed, InHand
    <2>1. CASE TakeCall
      <3>1. engineFeed # << >> /\ engineFeed \in Seq(ClientToServer)
        BY <2>1 DEF TakeCall, TypeOK, ChannelTypeOK
      <3>2. /\ 1 \in DOMAIN engineFeed /\ Head(engineFeed) = engineFeed[1]
            /\ \A i \in DOMAIN Tail(engineFeed) :
                 /\ i + 1 \in DOMAIN engineFeed /\ i + 1 # 1
                 /\ Tail(engineFeed)[i] = engineFeed[i + 1]
            /\ \A i, j \in DOMAIN Tail(engineFeed) : i + 1 = j + 1 => i = j
        BY <3>1, TakenAt
      <3> QED
        BY <2>1, <3>2 DEF TakeCall
    <2>2. CASE SubmitToCompute
      BY <2>2 DEF SubmitToCompute
    <2>3. CASE RecordPending \/ Query \/ TakeUpdate \/ RecordUpdate
      BY <2>3 DEF RecordPending, Query, TakeUpdate, RecordUpdate, channels
    <2>4. CASE EngineIdle
      BY <2>4 DEF EngineIdle, channels, engineVars
    <2> QED
      BY <2>1, <2>2, <2>3, <2>4
  <1>4. CASE Route \/ Broker \/ BrokerCrash \/ Compute
    BY <1>4 DEF Route, Broker, BrokerCrash, Compute, channels, webVars, engineVars,
                OneTurn, NotSent, InFeed, InHand
  <1>5. CASE Restart
    BY <1>5 DEF Restart, WebRestart, ChannelRestart, EngineRestart, OneTurn, NotSent,
                InFeed, InHand, Calls
  <1>6. CASE UNCHANGED vars
    BY <1>6 DEF vars, webVars, engineVars, channels, OneTurn, NotSent, InFeed, InHand
  <1> QED
    BY <1>1, <1>2, <1>3, <1>4, <1>5, <1>6 DEF Next, CoreNext

-----------------------------------------------------------------------------
(* Fresh requests.                                                           *)

(* A request id comes into the pipeline only when the engine submits it.     *)
LEMMA OnlySubmitAdds ==
  ASSUME TypeOK, [Next]_vars
  PROVE  OnTheWay' \subseteq OnTheWay \cup {NilId}
                              \cup {id \in {ecall.msg.id} : SubmitToCompute}
  <1> USE DEF OnTheWay
  <1>0. Failure.id = NilId /\ Garbled.id = NilId
    BY DEF Failure, Garbled, Status
  <1>1. CASE UNCHANGED <<computeSink, computeFeed, routerVars, queues, eupdate, epc>>
    BY <1>1 DEF routerVars, queues
  <1>2. CASE \E c \in Calls : Handle(c)
    BY <1>1, <1>2 DEF Handle, engineVars
  <1>3. CASE Answer
    BY <1>3 DEF Answer, Reply, channels, routerVars, queues
  <1>4. CASE Engine
    <2> USE <1>4 DEF Engine, routerVars, queues
    <2>1. CASE TakeCall
      BY <2>1 DEF TakeCall
    <2>2. CASE SubmitToCompute
      <3>1. ecall.msg \in Message
        BY <2>2 DEF SubmitToCompute, TypeOK, EngineTypeOK, ClientToServer
      <3>2. Named(computeSink') \subseteq Named(computeSink) \cup {ecall.msg.id}
        BY <2>2, <3>1, NamedAdded DEF SubmitToCompute, TypeOK, ChannelTypeOK
      <3> QED
        BY <2>2, <3>2 DEF SubmitToCompute
    <2>3. CASE RecordPending \/ Query
      BY <2>3 DEF RecordPending, Query, channels
    <2>4. CASE TakeUpdate
      <3>1. eupdate'.id \in Named(computeFeed)
            /\ Named(computeFeed') \subseteq Named(computeFeed)
        BY <2>4, NamedTaken DEF TakeUpdate, TypeOK, ChannelTypeOK
      <3> QED
        BY <2>4, <3>1 DEF TakeUpdate
    <2>5. CASE RecordUpdate
      BY <2>5 DEF RecordUpdate, channels
    <2>6. CASE EngineIdle
      BY <2>6 DEF EngineIdle, channels, engineVars
    <2> QED
      BY <2>1, <2>2, <2>3, <2>4, <2>5, <2>6
  <1>5. CASE Route
    <2> USE <1>5 DEF Route, engineVars, queues
    <2>1. CASE TakeRequest
      <3>1. rrequest'.id \in Named(computeSink)
            /\ Named(computeSink') \subseteq Named(computeSink)
        BY <2>1, NamedTaken DEF TakeRequest, TypeOK, ChannelTypeOK
      <3> QED
        BY <2>1, <3>1 DEF TakeRequest
    <2>2. CASE Publish
      <3>1. Named(requestQueue') \subseteq Named(requestQueue) \cup {rrequest.id}
        BY <2>2, NamedAdded DEF Publish, TypeOK, RouterTypeOK, QueueTypeOK
      <3> QED
        BY <2>2, <3>1 DEF Publish
    <2>3. CASE PublishFails \/ TakeFromClosed
      BY <2>3, <1>0 DEF PublishFails, TakeFromClosed, Unmarshal
    <2>4. CASE TakeDelivery
      <3>1. Head(rFeed).id \in Named(rFeed) /\ Named(rFeed') \subseteq Named(rFeed)
        BY <2>4, NamedTaken DEF TakeDelivery, TypeOK, RouterTypeOK
      <3> QED
        BY <2>4, <3>1, <1>0 DEF TakeDelivery, Unmarshal
    <2>5. CASE SinkStatus
      <3>1. Named(computeFeed') \subseteq Named(computeFeed) \cup {rstatus.id}
        BY <2>5, NamedAdded DEF SinkStatus, TypeOK, ChannelTypeOK, RouterTypeOK
      <3> QED
        BY <2>5, <3>1 DEF SinkStatus
    <2>6. CASE RouterIdle
      BY <2>6 DEF RouterIdle, routerVars
    <2> QED
      BY <2>1, <2>2, <2>3, <2>4, <2>5, <2>6
  <1>6. CASE Broker
    <2> USE <1>6 DEF Broker, engineVars
    <2>1. CASE Deliver
      <3>1. Head(responseQueue).id \in Named(responseQueue)
            /\ Named(responseQueue') \subseteq Named(responseQueue)
            /\ Head(responseQueue) \in DetectionStatus
        BY <2>1, NamedTaken, Taken DEF Deliver, TypeOK, RouterTypeOK, QueueTypeOK
      <3>2. Named(rFeed') \subseteq Named(rFeed) \cup {Head(responseQueue).id}
        BY <2>1, <3>1, NamedAdded DEF Deliver, TypeOK, RouterTypeOK, QueueTypeOK
      <3> QED
        BY <2>1, <3>1, <3>2 DEF Deliver
    <2>2. CASE LoseConnection
      <3>1. Named(requestQueue') \subseteq Named(requestQueue)
        BY <2>2, NamedCut DEF LoseConnection, TypeOK, QueueTypeOK
      <3> QED
        BY <2>2, <3>1, NamedEmpty DEF LoseConnection, RouterCutOff
    <2> QED
      BY <2>1, <2>2
  <1>7. CASE Compute
    <2> USE <1>7 DEF Compute, engineVars, routerVars
    <2>1. CASE ComputeAnswers
      <3>1. Head(requestQueue).id \in Named(requestQueue)
            /\ Named(requestQueue') \subseteq Named(requestQueue)
            /\ Head(requestQueue) \in Message
        BY <2>1, NamedTaken, Taken DEF ComputeAnswers, TypeOK, QueueTypeOK
      <3>2. PICK answer \in Answers(Head(requestQueue)) :
              responseQueue' = Append(responseQueue, answer)
        BY <2>1 DEF ComputeAnswers
      <3>3. answer \in DetectionStatus
        BY <3>1, AnswersType
      <3>4. answer.id \in {Head(requestQueue).id, NilId}
        BY <1>0 DEF Answers, Status
      <3>5. Named(responseQueue') \subseteq Named(responseQueue) \cup {answer.id}
        BY <3>2, <3>3, NamedAdded DEF TypeOK, QueueTypeOK
      <3> QED
        BY <3>1, <3>4, <3>5
    <2>2. CASE ComputeDrops
      BY <2>2, NamedCut DEF ComputeDrops, TypeOK, QueueTypeOK
    <2> QED
      BY <2>1, <2>2
  <1>8. CASE Restart
    <2>1. Named(computeSink') = {} /\ Named(computeFeed') = {} /\ Named(rFeed') = {}
      BY <1>8, NamedEmpty DEF Restart, ChannelRestart, RouterRestart
    <2> QED
      BY <1>8, <2>1 DEF Restart, EngineRestart, RouterRestart, queues
  <1>9. CASE UNCHANGED vars
    BY <1>9, <1>1 DEF vars, channels, engineVars
  <1>10. CASE BrokerCrash
    BY <1>10, NamedEmpty DEF BrokerCrash, QueuesLost, RouterCutOff, channels, engineVars
  <1> QED
    BY <1>2, <1>3, <1>4, <1>5, <1>6, <1>7, <1>8, <1>9, <1>10 DEF Next, CoreNext

(* The table changes only where the engine writes a row: that of the request *)
(* in its hand, or that of the update it took.                               *)
LEMMA OnlyEngineWrites ==
  ASSUME TypeOK, [Next]_vars
  PROVE  \/ UNCHANGED storageVars
         \/ RecordPending /\ UpdStatus(Status(ecall.msg.id, "PENDING"))
                          /\ UNCHANGED <<webVars, channels>>
         \/ RecordUpdate /\ UpdStatus(eupdate) /\ UNCHANGED <<webVars, channels>>
  <1>1. CASE Engine
    BY <1>1 DEF Engine, TakeCall, SubmitToCompute, RecordPending, Query, TakeUpdate,
                RecordUpdate, EngineIdle
  <1>2. CASE CoreNext /\ ~Engine
    BY <1>2 DEF CoreNext, Handle, Answer, Reply, Route, Broker, Restart
  <1>3. CASE BrokerCrash \/ Compute
    BY <1>3 DEF BrokerCrash, Compute
  <1>4. CASE UNCHANGED vars
    BY <1>4 DEF vars
  <1> QED
    BY <1>1, <1>2, <1>3, <1>4 DEF Next

(* Storing a status touches no other request's row.                          *)
LEMMA UpdStatusWrites ==
  ASSUME TypeOK, NEW s \in DetectionStatus, UpdStatus(s)
  PROVE  /\ \A id \in Ids : id # s.id => table'[id] = table[id]
         /\ table'[s.id] # NoRow \/ s.id \in errorLog'
         /\ table'[s.id] = table[s.id] \/ table'[s.id].status = s.status
         /\ \A id \in Ids : table[id] # NoRow => table'[id] # NoRow
         /\ errorLog \subseteq errorLog'
  <1>1. s.id \in Ids /\ s.verdict \in Verdicts /\ table \in [Ids -> Row \cup {NoRow}]
    BY DEF DetectionStatus, TypeOK, StorageTypeOK
  <1>2. [status |-> s.status, verdict |-> s.verdict] # NoRow
    BY <1>1 DEF NoRow, Verdicts
  <1> QED
    BY <1>1, <1>2 DEF UpdStatus, Upsert

(* The status the engine records for a PUT is a status.                      *)
LEMMA PendingStatus ==
  ASSUME TypeOK, epc = "record"
  PROVE  /\ Status(ecall.msg.id, "PENDING") \in DetectionStatus
         /\ Status(ecall.msg.id, "PENDING").id = ecall.msg.id
         /\ Status(ecall.msg.id, "PENDING").status = "PENDING"
         /\ ecall.msg.id \in Ids /\ ecall.ret \in Calls /\ ecall.msg.op = "PUT"
  <1>1. ecall.msg.id \in Ids /\ ecall.ret \in Calls /\ ecall.msg.op = "PUT"
    BY DEF TypeOK, EngineTypeOK, ClientToServer, Message
  <1>2. "PENDING" \in StatusWord
    BY DEF StatusWord, DbStatus
  <1> QED
    BY <1>1, <1>2, StatusType DEF Status

(* A request that is not submitted after a step was not submitted before.    *)
LEMMA SubmittedForGood ==
  ASSUME TypeOK, OneTurn, [Next]_vars, NEW c \in Puts, NotSubmitted(c)'
  PROVE  NotSubmitted(c) /\ ~(SubmitToCompute /\ ecall.ret = c)
  <1> USE DEF NotSubmitted, NotSent, InFeed
  <1>0. c \in Calls
    BY DEF Calls
  <1>1. CASE \E d \in Calls : Handle(d)
    <2>1. PICK d \in Calls : Handle(d)
      BY <1>1
    <2>2. UNCHANGED <<epc, ecall>> /\ (NotSent(c)' => NotSent(c))
      BY <2>1, <1>0, HandleMoves
    <2>3. epc = "submit" => ~SubmitToCompute
      BY <2>2 DEF SubmitToCompute
    <2>4. CASE UNCHANGED engineFeed
      BY <2>2, <2>3, <2>4 DEF SubmitToCompute
    <2>5. CASE SendToEngine(d)
      <3> DEFINE cts == [ret |-> d, msg |-> hreq[d]]
      <3>1. cts \in ClientToServer /\ engineFeed \in Seq(ClientToServer)
        BY DEF TypeOK, WebTypeOK, ChannelTypeOK, ClientToServer
      <3>2. engineFeed' = Append(engineFeed, cts) /\ cts.ret = d
        BY <2>5 DEF SendToEngine
      <3> HIDE DEF cts
      <3>3. InFeed(c)' => InFeed(c) \/ c = d
        BY <3>1, <3>2, AppendedAt
      <3> QED
        BY <2>2, <2>3, <2>5, <3>3 DEF SendToEngine, SubmitToCompute
    <2> QED
      BY <2>1, <2>4, <2>5, HandleMoves
  <1>2. CASE Answer
    BY <1>0, <1>2 DEF Answer, Reply, ReceiveAnswer, Respond, channels, TypeOK, WebTypeOK,
                SubmitToCompute
  <1>3. CASE Engine
    <2> USE <1>3 DEF Engine, webVars
    <2>1. CASE TakeCall
      <3>1. engineFeed # << >> /\ engineFeed \in Seq(ClientToServer)
        BY <2>1 DEF TakeCall, TypeOK, ChannelTypeOK
      <3>2. /\ 1 \in DOMAIN engineFeed /\ Head(engineFeed) = engineFeed[1]
            /\ \A i \in DOMAIN Tail(engineFeed) :
                 /\ i + 1 \in DOMAIN engineFeed
                 /\ Tail(engineFeed)[i] = engineFeed[i + 1]
        BY <3>1, TakenAt
      <3> QED
        BY <2>1, <3>2 DEF TakeCall, SubmitToCompute
    <2>2. CASE SubmitToCompute
      BY <2>2 DEF SubmitToCompute, OneTurn, InHand
    <2>3. CASE RecordPending \/ Query \/ TakeUpdate \/ RecordUpdate
      BY <2>3 DEF RecordPending, Query, TakeUpdate, RecordUpdate, channels,
                  SubmitToCompute
    <2>4. CASE EngineIdle
      BY <2>4 DEF EngineIdle, channels, engineVars, SubmitToCompute
    <2> QED
      BY <2>1, <2>2, <2>3, <2>4
  <1>4. CASE Route \/ Broker \/ BrokerCrash \/ Compute
    BY <1>4 DEF Route, Broker, BrokerCrash, Compute, channels, webVars, engineVars,
                SubmitToCompute
  <1>5. CASE Restart
    BY <1>0, <1>5 DEF Restart, WebRestart, ChannelRestart, EngineRestart, SubmitToCompute
  <1>6. CASE UNCHANGED vars
    BY <1>6 DEF vars, webVars, engineVars, channels, SubmitToCompute
  <1> QED
    BY <1>1, <1>2, <1>3, <1>4, <1>5, <1>6 DEF Next, CoreNext

(* Until the engine submits a request there is no trace of it: no row and    *)
(* nothing on its way.                                                       *)
LEMMA FreshStep ==
  ASSUME TypeOK, CallsAreOwn, OneTurn, FreshHasNoTrace, [Next]_vars
  PROVE  FreshHasNoTrace'
  <1> SUFFICES ASSUME NEW c \in Puts, NotSubmitted(c)'
               PROVE  (table[c] = NoRow)' /\ c \notin OnTheWay'
    BY DEF FreshHasNoTrace
  <1>0. c \in Ids /\ c # NilId
    BY CallAssumption DEF Ids, Calls
  <1>1. NotSubmitted(c) /\ ~(SubmitToCompute /\ ecall.ret = c)
    BY SubmittedForGood
  <1>2. table[c] = NoRow /\ c \notin OnTheWay
    BY <1>1 DEF FreshHasNoTrace
  <1>3. c \notin OnTheWay'
    <2>1. SubmitToCompute => ecall.msg.id # c
      BY <1>1, CallAssumption DEF SubmitToCompute, CallsAreOwn, Own, TypeOK, EngineTypeOK
    <2> QED
      BY <1>0, <1>2, <2>1, OnlySubmitAdds
  <1>4. table'[c] = NoRow
    <2>1. CASE UNCHANGED storageVars
      BY <1>2, <2>1 DEF storageVars
    <2>2. CASE RecordPending /\ UpdStatus(Status(ecall.msg.id, "PENDING"))
               /\ UNCHANGED <<webVars, channels>>
      <3>1. epc = "record"
        BY <2>2 DEF RecordPending
      <3>2. ecall.ret \in Puts /\ ecall.msg.id = ecall.ret
        BY <3>1, PendingStatus DEF CallsAreOwn, Own
      <3>3. ecall.ret # c
        BY <1>1, <3>1 DEF NotSubmitted, OneTurn, InHand
      <3> QED
        BY <1>0, <1>2, <2>2, <3>1, <3>2, <3>3, PendingStatus, UpdStatusWrites
    <2>3. CASE RecordUpdate /\ UpdStatus(eupdate)
      <3>1. eupdate.id # c
        BY <1>2, <2>3 DEF RecordUpdate, OnTheWay
      <3>2. eupdate \in DetectionStatus
        BY DEF TypeOK, EngineTypeOK
      <3> QED
        BY <1>0, <1>2, <2>3, <3>1, <3>2, UpdStatusWrites
    <2> QED
      BY <2>1, <2>2, <2>3, OnlyEngineWrites
  <1> QED
    BY <1>3, <1>4

-----------------------------------------------------------------------------
(* Rows and answers.                                                         *)

(* No step deletes a row or clears the log.                                  *)
LEMMA RowsStay ==
  ASSUME TypeOK, [Next]_vars
  PROVE  /\ \A id \in Ids : table[id] # NoRow => table'[id] # NoRow
         /\ errorLog \subseteq errorLog'
  <1>1. CASE UNCHANGED storageVars
    BY <1>1 DEF storageVars
  <1>2. CASE RecordPending /\ UpdStatus(Status(ecall.msg.id, "PENDING"))
    BY <1>2, PendingStatus, UpdStatusWrites DEF RecordPending
  <1>3. CASE RecordUpdate /\ UpdStatus(eupdate)
    BY <1>3, UpdStatusWrites DEF TypeOK, EngineTypeOK
  <1> QED
    BY <1>1, <1>2, <1>3, OnlyEngineWrites

(* Where the engine stands after a step, if that is before a record or a     *)
(* reply: it came there by one step of its own, or it has not moved.         *)
LEMMA EngineMoves ==
  ASSUME [Next]_vars
  PROVE  /\ epc' = "record" => \/ SubmitToCompute
                               \/ epc = "record" /\ UNCHANGED ecall
         /\ epc' = "reply"  => \/ RecordPending \/ Query
                               \/ epc = "reply" /\ UNCHANGED <<ecall, eanswer>>
  <1>1. CASE Engine
    BY <1>1 DEF Engine, TakeCall, SubmitToCompute, RecordPending, Query, TakeUpdate,
                RecordUpdate, EngineIdle, engineVars
  <1>2. CASE \E c \in Calls : Handle(c)
    BY <1>2 DEF Handle, engineVars
  <1>3. CASE Answer \/ Restart
    BY <1>3 DEF Answer, Reply, Restart, EngineRestart
  <1>4. CASE Route \/ Broker \/ BrokerCrash \/ Compute \/ UNCHANGED vars
    BY <1>4 DEF Route, Broker, BrokerCrash, channels, Compute, vars, engineVars
  <1> QED
    BY <1>1, <1>2, <1>3, <1>4 DEF Next, CoreNext

(* The engine records a request that has no row.                             *)
LEMMA RecordIsFirstStep ==
  ASSUME CoreInv, [Next]_vars
  PROVE  RecordIsFirst'
  <1> SUFFICES ASSUME epc' = "record" PROVE table'[ecall'.msg.id] = NoRow
    BY DEF RecordIsFirst
  <1>1. UNCHANGED storageVars
    BY OnlyEngineWrites DEF CoreInv, RecordPending, RecordUpdate
  <1>2. CASE SubmitToCompute
    <2>1. ecall.ret \in Puts /\ ecall.msg.id = ecall.ret
      BY <1>2 DEF SubmitToCompute, CoreInv, TypeOK, EngineTypeOK, CallsAreOwn, Own
    <2>2. table[ecall.msg.id] = NoRow
      BY <1>2, <2>1 DEF SubmitToCompute, CoreInv, FreshHasNoTrace, NotSubmitted
    <2> QED
      BY <1>1, <1>2, <2>2 DEF SubmitToCompute, storageVars
  <1>3. CASE epc = "record" /\ UNCHANGED ecall
    BY <1>1, <1>3 DEF CoreInv, RecordIsFirst, storageVars
  <1> QED
    BY <1>2, <1>3, EngineMoves

(* The engine is ready to answer a PUT only with its row written or logged.  *)
LEMMA StoredBeforeToldStep ==
  ASSUME CoreInv, [Next]_vars
  PROVE  StoredBeforeTold'
  <1> SUFFICES ASSUME epc' = "reply", ecall'.msg.op = "PUT"
               PROVE  table'[ecall'.msg.id] # NoRow \/ ecall'.msg.id \in errorLog'
    BY DEF StoredBeforeTold
  <1>1. CASE RecordPending
    BY <1>1, PendingStatus, UpdStatusWrites DEF RecordPending, CoreInv
  <1>2. CASE Query
    BY <1>2 DEF Query, CoreInv, CallsAreOwn
  <1>3. CASE epc = "reply" /\ UNCHANGED ecall
    <2>1. ecall.msg.id \in Ids
      BY <1>3 DEF CoreInv, TypeOK, EngineTypeOK, ClientToServer, Message
    <2> QED
      BY <1>3, <2>1, RowsStay DEF CoreInv, StoredBeforeTold
  <1> QED
    BY <1>1, <1>2, <1>3, EngineMoves

(* A 200 for a PUT comes from the engine alone.                              *)
LEMMA AckedIsStoredStep ==
  ASSUME CoreInv, [Next]_vars
  PROVE  AckedIsStored'
  <1> SUFFICES ASSUME NEW c \in Puts, hres'[c] = 200
               PROVE  table'[c] # NoRow \/ c \in errorLog'
    BY DEF AckedIsStored
  <1>0. c \in Calls /\ c \in Ids /\ c \notin Lists
    BY CallAssumption DEF Calls, Ids
  <1>1. CASE hres[c] = 200
    BY <1>0, <1>1, RowsStay DEF CoreInv, AckedIsStored
  <1>2. CASE Answer /\ ecall.ret = c
    <2>1. ecall.msg.op = "PUT" /\ ecall.msg.id = c
      BY <1>2 DEF Answer, Reply, CoreInv, CallsAreOwn, Own
    <2> QED
      BY <1>0, <1>2, <2>1, RowsStay
      DEF Answer, Reply, CoreInv, StoredBeforeTold
  <1>3. hres[c] = 200 \/ (Answer /\ ecall.ret = c)
    <2> USE <1>0 DEF CoreInv, TypeOK, WebTypeOK, Respond
    <2>1. CASE \E d \in Calls : Handle(d)
      <3>1. PICK d \in Calls : Handle(d)
        BY <2>1
      <3>2. CASE PutDetection(d)
        <4>1. Respond(d, 400) \/ UNCHANGED hres
          BY <3>2 DEF PutDetection, RejectPut, CallEngine
        <4> QED
          BY <4>1
      <3>3. CASE GetDetection(d) \/ MassGetDetection(d)
        BY <3>3 DEF GetDetection, MassGetDetection, CallEngine
      <3>4. CASE ListDetectors(d)
        BY <3>4 DEF ListDetectors
      <3>5. CASE SendToEngine(d) \/ TimeOut(d)
        BY <3>5 DEF SendToEngine, TimeOut
      <3> QED
        BY <3>1, <3>2, <3>3, <3>4, <3>5 DEF Handle, Handlers
    <2>2. CASE Answer
      BY <2>2 DEF Answer, ReceiveAnswer
    <2>3. CASE \/ Engine \/ Route \/ Broker \/ BrokerCrash \/ Compute \/ Restart
               \/ UNCHANGED vars
      BY <2>3 DEF Engine, Route, Broker, BrokerCrash, Compute, Restart, WebRestart, vars,
                  webVars
    <2> QED
      BY <2>1, <2>2, <2>3 DEF Next, CoreNext
  <1> QED
    BY <1>1, <1>2, <1>3

-----------------------------------------------------------------------------
(* Accepted requests.                                                        *)

(* A queue of accepted requests stays one when its first is taken.           *)
LEMMA AcceptedTaken ==
  ASSUME NEW S, NEW q \in Seq(S), q # << >>, AllAccepted(q)
  PROVE  Accepted(Head(q)) /\ AllAccepted(Tail(q))
  BY TakenAt DEF AllAccepted

(* And when another accepted request is added.                               *)
LEMMA AcceptedAdded ==
  ASSUME NEW S, NEW q \in Seq(S), NEW x \in S, AllAccepted(q), Accepted(x)
  PROVE  AllAccepted(Append(q, x))
  BY AppendedAt DEF AllAccepted

(* And when its end or its beginning is lost.                                *)
LEMMA AcceptedCut ==
  ASSUME NEW S, NEW q \in Seq(S), NEW n \in 0 .. Len(q), AllAccepted(q)
  PROVE  /\ AllAccepted(SubSeq(q, 1, n))
         /\ AllAccepted(SubSeq(q, n + 1, Len(q)))
  <1>1. Len(q) \in Nat /\ DOMAIN q = 1 .. Len(q)
    BY LenProperties
  <1>2. /\ DOMAIN SubSeq(q, 1, n) = 1 .. n
        /\ \A i \in 1 .. n : SubSeq(q, 1, n)[i] = q[i]
    BY <1>1
  <1>3. /\ DOMAIN SubSeq(q, n + 1, Len(q)) = 1 .. Len(q) - n
        /\ \A i \in 1 .. Len(q) - n : SubSeq(q, n + 1, Len(q))[i] = q[i + n]
    BY <1>1
  <1>4. AllAccepted(SubSeq(q, 1, n))
    BY <1>1, <1>2 DEF AllAccepted
  <1>5. AllAccepted(SubSeq(q, n + 1, Len(q)))
    BY <1>1, <1>3 DEF AllAccepted
  <1> QED
    BY <1>4, <1>5

(* What goes from a handler to the engine is accepted, if it is a PUT.       *)
LEMMA AcceptedByHandler ==
  ASSUME TypeOK, CallsAreOwn, OnlyAccepted, NEW c \in Calls, Handle(c)
  PROVE  OnlyAccepted'
  <1> USE DEF TypeOK, WebTypeOK
  <1>0. UNCHANGED <<epc, ecall, computeSink, rpc, rrequest, requestQueue>>
    BY DEF Handle, engineVars, routerVars, queues
  <1>1. ASSUME \A d \in Puts : hpc'[d] = "sending" => Accepted(hreq'[d]),
               \A i \in DOMAIN engineFeed' :
                 engineFeed'[i].msg.op = "PUT" => Accepted(engineFeed'[i].msg)
        PROVE  OnlyAccepted'
    BY <1>0, <1>1 DEF OnlyAccepted
  <1>2. ASSUME NEW msg \in Message, CallEngine(c, msg), c \in Puts => Accepted(msg)
        PROVE  OnlyAccepted'
    BY <1>1, <1>2 DEF CallEngine, OnlyAccepted, Accepted
  <1>3. ASSUME NEW code, Respond(c, code), UNCHANGED <<hreq, engineFeed>>
        PROVE  OnlyAccepted'
    BY <1>1, <1>3 DEF Respond, OnlyAccepted, Accepted
  <1>4. CASE PutDetection(c)
    <2>1. ASSUME NEW d \in Detectors, TRUE \in DetectorExists(d)
          PROVE  Accepted(DetectionRequest(c, d)) /\ DetectionRequest(c, d) \in Message
      BY <1>4, <2>1, MessageType
      DEF PutDetection, DetectorExists, Accepted, DetectionRequest, Ids
    <2>2. CASE RejectPut(c) /\ UNCHANGED <<hreq, engineFeed>>
      BY <1>3, <2>2 DEF RejectPut
    <2> QED
      BY <1>2, <1>4, <2>1, <2>2 DEF PutDetection
  <1>5. CASE GetDetection(c)
    BY <1>2, <1>3, <1>5, MessageType, CallAssumption DEF GetDetection
  <1>6. CASE MassGetDetection(c)
    BY <1>2, <1>3, <1>6, MessageType, CallAssumption DEF MassGetDetection
  <1>7. CASE ListDetectors(c) \/ TimeOut(c)
    BY <1>3, <1>7 DEF ListDetectors, TimeOut
  <1>8. CASE SendToEngine(c)
    <2> DEFINE cts == [ret |-> c, msg |-> hreq[c]]
    <2>1. cts \in ClientToServer /\ (cts.msg.op = "PUT" => Accepted(cts.msg))
      BY <1>8 DEF SendToEngine, CallsAreOwn, Own, OnlyAccepted, ClientToServer
    <2>2. engineFeed' = Append(engineFeed, cts) /\ hreq' = hreq
          /\ \A d \in Puts : hpc'[d] = "sending" => hpc[d] = "sending"
      BY <1>8 DEF SendToEngine
    <2> HIDE DEF cts
    <2>3. \A i \in DOMAIN engineFeed' : \/ i \in DOMAIN engineFeed
                                           /\ engineFeed'[i] = engineFeed[i]
                                       \/ engineFeed'[i] = cts
      BY <2>1, <2>2, AppendedAt DEF ChannelTypeOK
    <2> QED
      BY <1>1, <2>1, <2>2, <2>3 DEF OnlyAccepted
  <1> QED
    BY <1>4, <1>5, <1>6, <1>7, <1>8 DEF Handle, Handlers

(* Nothing comes between the handlers and the compute service that no        *)
(* handler has accepted.                                                     *)
LEMMA OnlyAcceptedStep ==
  ASSUME TypeOK, CallsAreOwn, OnlyAccepted, [Next]_vars
  PROVE  OnlyAccepted'
  <1> USE DEF OnlyAccepted
  <1>0. AllAccepted(<< >>)
    BY DEF AllAccepted
  <1>1. CASE UNCHANGED <<hreq, engineFeed, epc, ecall, computeSink, rpc, rrequest,
                         requestQueue>>
             /\ \A c \in Puts : hpc'[c] = "sending" => hpc[c] = "sending"
    BY <1>1
  <1>2. CASE Answer \/ Restart
    <2>1. \A c \in Calls : hpc'[c] = "sending" => hpc[c] = "sending"
      BY <1>2 DEF Answer, ReceiveAnswer, Respond, Restart, WebRestart, TypeOK, WebTypeOK
    <2>2. UNCHANGED <<hreq, requestQueue>> /\ epc' # "submit"
      BY <1>2 DEF Answer, Reply, ReceiveAnswer, queues, Restart, WebRestart,
                  EngineRestart, RouterRestart
    <2>3. \/ UNCHANGED <<engineFeed, computeSink, rpc, rrequest>>
          \/ engineFeed' = << >> /\ computeSink' = << >> /\ rpc' # "publish"
      BY <1>2 DEF Answer, Reply, channels, routerVars, Restart, ChannelRestart,
                  RouterRestart
    <2> QED
      BY <1>0, <2>1, <2>2, <2>3 DEF Calls
  <1>3. CASE Engine
    <2>0. UNCHANGED <<hpc, hreq, rpc, rrequest, requestQueue>>
      BY <1>3 DEF Engine, webVars, routerVars, queues
    <2>1. CASE TakeCall
      <3>1. engineFeed # << >> /\ engineFeed \in Seq(ClientToServer)
        BY <2>1 DEF TakeCall, TypeOK, ChannelTypeOK
      <3>2. /\ Head(engineFeed).msg.op = "PUT" => Accepted(Head(engineFeed).msg)
            /\ \A i \in DOMAIN Tail(engineFeed) :
                 Tail(engineFeed)[i].msg.op = "PUT" => Accepted(Tail(engineFeed)[i].msg)
        BY <3>1, TakenAt
      <3> QED
        BY <2>0, <2>1, <3>2 DEF TakeCall
    <2>2. CASE SubmitToCompute
      <3>1. ecall.msg \in Message /\ computeSink \in Seq(Message)
        BY <2>2 DEF SubmitToCompute, TypeOK, EngineTypeOK, ChannelTypeOK, ClientToServer
      <3>2. AllAccepted(computeSink')
        BY <2>2, <3>1, AcceptedAdded DEF SubmitToCompute
      <3> QED
        BY <2>0, <2>2, <3>2 DEF SubmitToCompute
    <2>3. CASE RecordPending \/ Query \/ TakeUpdate \/ RecordUpdate
      BY <2>0, <2>3 DEF RecordPending, Query, TakeUpdate, RecordUpdate, channels
    <2>4. CASE EngineIdle
      BY <1>1, <2>0, <2>4 DEF EngineIdle, channels, engineVars
    <2> QED
      BY <1>3, <2>1, <2>2, <2>3, <2>4 DEF Engine
  <1>4. CASE Route
    <2>0. UNCHANGED <<hpc, hreq, epc, ecall, engineFeed>>
      BY <1>4 DEF Route, webVars, engineVars
    <2>1. CASE TakeRequest
      <3>1. Accepted(Head(computeSink)) /\ AllAccepted(Tail(computeSink))
        BY <2>1, AcceptedTaken DEF TakeRequest, TypeOK, ChannelTypeOK
      <3> QED
        BY <2>0, <2>1, <3>1 DEF TakeRequest, queues
    <2>2. CASE Publish
      <3>1. AllAccepted(requestQueue')
        BY <2>2, AcceptedAdded DEF Publish, TypeOK, QueueTypeOK, RouterTypeOK
      <3> QED
        BY <2>0, <2>2, <3>1 DEF Publish
    <2>3. CASE PublishFails \/ TakeDelivery \/ TakeFromClosed \/ SinkStatus
      BY <2>0, <2>3 DEF PublishFails, TakeDelivery, TakeFromClosed, SinkStatus, queues
    <2>4. CASE RouterIdle
      BY <1>1, <2>0, <2>4 DEF RouterIdle, routerVars, queues
    <2> QED
      BY <1>4, <2>1, <2>2, <2>3, <2>4 DEF Route
  <1>5. CASE Broker \/ BrokerCrash \/ Compute
    <2>0. UNCHANGED <<hpc, hreq, epc, ecall, engineFeed, computeSink, rpc, rrequest>>
      BY <1>5 DEF Broker, Deliver, LoseConnection, RouterCutOff, BrokerCrash, Compute,
                  webVars, engineVars, channels, routerVars
    <2>1. requestQueue \in Seq(Message)
      BY DEF TypeOK, QueueTypeOK
    <2>2. AllAccepted(requestQueue')
      <3>1. CASE ComputeAnswers
        BY <2>1, <3>1, AcceptedTaken DEF ComputeAnswers
      <3>2. CASE ComputeDrops
        <4>1. PICK n \in 1 .. Len(requestQueue) :
                requestQueue' = SubSeq(requestQueue, n + 1, Len(requestQueue))
          BY <3>2 DEF ComputeDrops
        <4>2. n \in 0 .. Len(requestQueue)
          BY <2>1, LenProperties
        <4> QED
          BY <2>1, <4>1, <4>2, AcceptedCut
      <3>3. CASE LoseConnection
        BY <2>1, <3>3, AcceptedCut DEF LoseConnection
      <3>4. CASE Deliver \/ BrokerCrash
        BY <1>0, <3>4 DEF Deliver, BrokerCrash, QueuesLost
      <3> QED
        BY <1>5, <3>1, <3>2, <3>3, <3>4 DEF Broker, Compute
    <2> QED
      BY <2>0, <2>2
  <1>6. CASE UNCHANGED vars
    BY <1>1, <1>6 DEF vars, webVars, engineVars, channels, routerVars, queues
  <1> QED
    BY <1>2, <1>3, <1>4, <1>5, <1>6, AcceptedByHandler DEF Next, CoreNext

-----------------------------------------------------------------------------
(* The theorems.                                                             *)

(* The invariant holds at the start.                                         *)
LEMMA InvInit == Init => CoreInv
  <1> SUFFICES ASSUME Init PROVE CoreInv
    OBVIOUS
  <1>1. IsResult(Failure) /\ Results(<< >>) /\ Named(<< >>) = {}
    BY NamedEmpty DEF Failure, Status, IsResult, Results
  <1>2. ResultsAreFinal /\ OnTheWay = {}
    BY <1>1 DEF Init, ResultsAreFinal, OnTheWay, ChannelInit, EngineInit, RouterInit,
                QueueInit
  <1>3. CallsAreOwn /\ OneTurn /\ RecordIsFirst /\ StoredBeforeTold
    BY DEF Init, WebInit, ChannelInit, EngineInit, CallsAreOwn, OneTurn, InFeed, InHand,
           RecordIsFirst, StoredBeforeTold
  <1>4. FreshHasNoTrace /\ AckedIsStored
    BY <1>2 DEF Init, StorageInit, WebInit, FreshHasNoTrace, AckedIsStored, Ids, Calls
  <1>5. OnlyAccepted
    BY DEF Init, WebInit, ChannelInit, EngineInit, RouterInit, QueueInit, OnlyAccepted,
           AllAccepted, Calls
  <1> QED
    BY <1>2, <1>3, <1>4, <1>5, InitType DEF CoreInv

(* And every step keeps it.                                                  *)
LEMMA InvStep == CoreInv /\ [Next]_vars => CoreInv'
  <1> SUFFICES ASSUME CoreInv, [Next]_vars PROVE CoreInv'
    OBVIOUS
  <1>1. TypeOK'
    BY TypeStep DEF CoreInv
  <1>2. CallsAreOwn' /\ OneTurn' /\ FreshHasNoTrace' /\ OnlyAccepted' /\ ResultsAreFinal'
    BY CallsAreOwnStep, OneTurnStep, FreshStep, OnlyAcceptedStep, ResultsStep DEF CoreInv
  <1> QED
    BY <1>1, <1>2, RecordIsFirstStep, StoredBeforeToldStep, AckedIsStoredStep
    DEF CoreInv

(* CoreInv holds in every reachable state.                                   *)
THEOREM Invariance == Spec => []CoreInv
  BY InvInit, InvStep, PTL DEF Spec

(* A PUT that was answered 200 has a row, or the log says why not.           *)
THEOREM AcknowledgedIsStored == Spec => []AckedIsStored
  <1>1. CoreInv => AckedIsStored
    BY DEF CoreInv
  <1> QED
    BY <1>1, Invariance, PTL

(* No step takes a status back.                                              *)
LEMMA RanksStay ==
  ASSUME CoreInv, [Next]_vars, NEW id \in Puts
  PROVE  Rank(table'[id].status) >= Rank(table[id].status)
  <1>0. TypeOK /\ id \in Ids /\ id # NilId
    BY CallAssumption DEF CoreInv, Ids, Calls
  <1>1. \A word : Rank(word) \in 0 .. 2
    BY DEF Rank
  <1>2. CASE table'[id] = table[id]
    BY <1>1, <1>2
  <1>3. CASE RecordPending /\ UpdStatus(Status(ecall.msg.id, "PENDING"))
             /\ ecall.msg.id = id
    <2>1. Rank(table[id].status) = 0
      BY <1>3 DEF RecordPending, CoreInv, RecordIsFirst, NoRow, Rank
    <2> QED
      BY <1>1, <2>1
  <1>4. CASE RecordUpdate /\ UpdStatus(eupdate) /\ eupdate.id = id
    <2>1. \/ table'[id] = table[id]
          \/ table'[id].status = eupdate.status
      BY <1>0, <1>4, UpdStatusWrites DEF TypeOK, EngineTypeOK
    <2>2. Rank(eupdate.status) = 2
      BY <1>0, <1>4 DEF CoreInv, ResultsAreFinal, IsResult, Rank
    <2> QED
      BY <1>1, <1>2, <2>1, <2>2
  <1>5. \/ table'[id] = table[id]
        \/ RecordPending /\ UpdStatus(Status(ecall.msg.id, "PENDING"))
           /\ ecall.msg.id = id
        \/ RecordUpdate /\ UpdStatus(eupdate) /\ eupdate.id = id
    <2>1. CASE UNCHANGED storageVars
      BY <2>1 DEF storageVars
    <2>2. CASE RecordPending /\ UpdStatus(Status(ecall.msg.id, "PENDING"))
      BY <1>0, <2>2, PendingStatus, UpdStatusWrites DEF RecordPending
    <2>3. CASE RecordUpdate /\ UpdStatus(eupdate)
      BY <1>0, <2>3, UpdStatusWrites DEF TypeOK, EngineTypeOK
    <2> QED
      BY <1>0, <2>1, <2>2, <2>3, OnlyEngineWrites
  <1> QED
    BY <1>2, <1>3, <1>4, <1>5

(* No status ever goes back, though a request is with the router before its  *)
(* row is written: the PENDING row is the first, and what overwrites it came *)
(* from the compute service.                                                 *)
THEOREM StatusesNeverGoBack == Spec => NoRegress
  <1>1. CoreInv /\ [Next]_vars
          => [\A id \in Puts : Rank(table'[id].status) >= Rank(table[id].status)]_vars
    BY RanksStay
  <1> QED
    BY <1>1, Invariance, PTL DEF Spec, NoRegress

-----------------------------------------------------------------------------
(* MangoCore implements DetectionLifecycle when SQL statements do not fail,  *)
(* whatever else fails: timeouts, the connection, the compute service, and   *)
(* the process itself.                                                       *)

(* The two queries return what the table holds.                              *)
LEMMA QueriesAreTrue ==
  ASSUME DbMayFail = FALSE, TypeOK
  PROVE  /\ \A id \in Ids : \A s \in GetStatus(id) : s.status = table[s.id].status
         /\ \A page \in MassStatus : \A s \in page : s.status = table[s.id].status
  BY DEF GetStatus, MassStatus, Status, convertDetectionStatus, NoRow

(* What was told of a request changes only to what the table says then.      *)
ToldMoves(p) == told'[p] \in {told[p], table[p].status}

LEMMA ToldMove ==
  ASSUME LifecycleInv, [Next]_vars, NEW p \in Puts
  PROVE  ToldMoves(p)
  <1>1. CASE Answer
    <2>1. epc = "reply" /\ \A s \in eanswer : s.status = table[s.id].status
      BY <1>1 DEF Answer, Reply, LifecycleInv, AnswersAreTrue
    <2>2. told'[p] = IF \E s \in eanswer : s.id = p
                     THEN (CHOOSE s \in eanswer : s.id = p).status ELSE told[p]
      BY <1>1 DEF Answer, Ids
    <2> QED
      BY <2>1, <2>2 DEF ToldMoves
  <1>2. CASE UNCHANGED told
    BY <1>2 DEF ToldMoves
  <1>3. Answer \/ UNCHANGED told
    BY DEF Next, CoreNext, Handle, Engine, Route, Broker, BrokerCrash, Compute, Restart,
           history, vars
  <1> QED
    BY <1>1, <1>2, <1>3

(* The rows and the answer the engine holds keep to the lifecycle.           *)
LEMMA LifecycleInvStep ==
  ASSUME DbMayFail = FALSE, CoreInv, LifecycleInv, [Next]_vars
  PROVE  LifecycleInv'
  <1> USE DEF CoreInv
  <1>1. AnswersAreTrue'
    <2> SUFFICES ASSUME epc' = "reply"
                 PROVE  \A s \in eanswer' : s.status = table'[s.id].status
      BY DEF AnswersAreTrue
    <2>1. CASE RecordPending
      <3> DEFINE status == Status(ecall.msg.id, "PENDING")
      <3>1. UpdStatus(status) /\ eanswer' = {status}
        BY <2>1 DEF RecordPending
      <3>2. /\ status.id = ecall.msg.id /\ status.status = "PENDING"
            /\ ecall.msg.id \in Ids
        BY <2>1, PendingStatus DEF RecordPending
      <3> HIDE DEF status
      <3>3. table' = [table EXCEPT ![status.id] = [status  |-> status.status,
                                                   verdict |-> status.verdict]]
        BY <3>1, <3>2 DEF UpdStatus, Upsert, DbStatus
      <3> QED
        BY <3>1, <3>2, <3>3 DEF TypeOK, StorageTypeOK
    <2>2. CASE Query
      <3>1. ecall.msg.id \in Ids
        BY <2>2 DEF Query, TypeOK, EngineTypeOK, ClientToServer, Message
      <3>2. \A s \in eanswer' : s.status = table[s.id].status
        <4>1. /\ \A id \in Ids : \A s \in GetStatus(id) : s.status = table[s.id].status
              /\ \A page \in MassStatus : \A s \in page : s.status = table[s.id].status
          BY QueriesAreTrue
        <4>2. CASE \E status \in GetStatus(ecall.msg.id) : eanswer' = {status}
          BY <3>1, <4>1, <4>2
        <4>3. CASE \E page \in MassStatus : eanswer' = page
          BY <4>1, <4>3
        <4> QED
          BY <2>2, <4>2, <4>3 DEF Query
      <3> QED
        BY <2>2, <3>2 DEF Query, storageVars
    <2>3. CASE epc = "reply" /\ UNCHANGED <<ecall, eanswer>>
      <3>1. UNCHANGED storageVars
        BY <2>3, OnlyEngineWrites DEF RecordPending, RecordUpdate
      <3> QED
        BY <2>3, <3>1 DEF LifecycleInv, AnswersAreTrue, storageVars
    <2> QED
      BY <2>1, <2>2, <2>3, EngineMoves
  <1>2. NoRequestFails'
    <2> SUFFICES ASSUME NEW p \in Puts
                 PROVE  table'[p].status \in {"UNKNOWN", "PENDING", "SUCCESS"}
      BY DEF NoRequestFails
    <2>0. p \in Ids /\ p # NilId
      BY CallAssumption DEF Ids, Calls
    <2>1. CASE table'[p] = table[p]
      BY <2>1 DEF LifecycleInv, NoRequestFails
    <2>2. CASE RecordPending /\ UpdStatus(Status(ecall.msg.id, "PENDING"))
      BY <2>0, <2>1, <2>2, PendingStatus, UpdStatusWrites DEF RecordPending
    <2>3. CASE RecordUpdate /\ UpdStatus(eupdate)
      <3>1. CASE eupdate.id = p
        <4>1. eupdate.status \in {"SUCCESS", "FAILED"}
          BY <2>0, <3>1 DEF ResultsAreFinal, IsResult
        <4>2. table'[p] = table[p] \/ table'[p].status = "SUCCESS"
          BY <2>0, <2>3, <3>1, <4>1
          DEF UpdStatus, Upsert, DbStatus, TypeOK, StorageTypeOK
        <4> QED
          BY <2>1, <4>2
      <3>2. CASE eupdate.id # p
        BY <2>0, <2>1, <2>3, <3>2, UpdStatusWrites DEF TypeOK, EngineTypeOK
      <3> QED
        BY <3>1, <3>2
    <2>4. CASE UNCHANGED storageVars
      BY <2>1, <2>4 DEF storageVars
    <2> QED
      BY <2>2, <2>3, <2>4, OnlyEngineWrites
  <1>3. ToldIsKnown'
    <2> SUFFICES ASSUME NEW p \in Puts
                 PROVE  Rank(told'[p]) <= Rank(table'[p].status)
      BY DEF ToldIsKnown
    <2>1. ToldMoves(p)
      BY ToldMove
    <2>2. /\ Rank(told[p]) <= Rank(table[p].status)
          /\ Rank(table'[p].status) >= Rank(table[p].status)
          /\ \A word : Rank(word) \in 0 .. 2
      BY RanksStay DEF LifecycleInv, ToldIsKnown, Rank
    <2> QED
      BY <2>1, <2>2 DEF ToldMoves
  <1> QED
    BY <1>1, <1>2, <1>3 DEF LifecycleInv

(* At the start no request has a status and nobody was told of one.          *)
LEMMA LifecycleStart == Init => LifecycleInv /\ Lifecycle!LifecycleInit
  <1> SUFFICES ASSUME Init PROVE LifecycleInv /\ Lifecycle!LifecycleInit
    OBVIOUS
  <1>1. \A p \in Puts : table[p].status = "UNKNOWN" /\ told[p] = "UNKNOWN"
    BY DEF Init, StorageInit, NoRow, Ids
  <1>2. LifecycleInv
    BY <1>1 DEF Init, EngineInit, LifecycleInv, AnswersAreTrue, NoRequestFails,
                ToldIsKnown, Rank
  <1> QED
    BY <1>1, <1>2 DEF Lifecycle!LifecycleInit

(* Every step of the core is a step of the lifecycle or none.                *)
LEMMA LifecycleStep ==
  ASSUME DbMayFail = FALSE, CoreInv, LifecycleInv, [Next]_vars
  PROVE  [Lifecycle!LifecycleNext]_Lifecycle!lifecycleVars
  <1> DEFINE status == [p \in Puts |-> table[p].status]
             known  == [p \in Puts |-> told[p]]
  <1> USE DEF CoreInv
  <1>0. Puts \subseteq Ids
    BY DEF Ids
  <1>1. CASE Answer
    <2>0. PICK asked \in SUBSET Puts :
            asked = {p \in Puts : \E s \in eanswer : s.id = p}
      OBVIOUS
    <2>1. UNCHANGED storageVars /\ epc = "reply"
      BY <1>1 DEF Answer, Reply
    <2>2. \A p \in Puts : told'[p] = IF p \in asked THEN table[p].status ELSE told[p]
      <3>1. \A p \in Puts :
              told'[p] = IF \E s \in eanswer : s.id = p
                         THEN (CHOOSE s \in eanswer : s.id = p).status ELSE told[p]
        BY <1>0, <1>1 DEF Answer
      <3>2. \A s \in eanswer : s.status = table[s.id].status
        BY <2>1 DEF LifecycleInv, AnswersAreTrue
      <3> QED
        BY <2>0, <3>1, <3>2
    <2>3. Lifecycle!Tell(asked)
      BY <2>1, <2>2 DEF Lifecycle!Tell, storageVars
    <2> QED
      BY <2>3 DEF Lifecycle!LifecycleNext
  <1>2. CASE RecordPending /\ UNCHANGED told
    <2>0. PICK r \in Puts : r = ecall.msg.id
      BY <1>2, PendingStatus DEF RecordPending, CallsAreOwn, Own
    <2>1. Status(r, "PENDING").id = r /\ Status(r, "PENDING").status = "PENDING"
      BY <1>2, <2>0, PendingStatus DEF RecordPending
    <2>2. table[r].status = "UNKNOWN"
      BY <1>2, <2>0 DEF RecordPending, RecordIsFirst, NoRow
    <2>3. table' = [table EXCEPT ![r] = [status  |-> "PENDING",
                                         verdict |-> Status(r, "PENDING").verdict]]
      BY <1>2, <2>0, <2>1 DEF RecordPending, UpdStatus, Upsert, DbStatus
    <2>4. status' = [status EXCEPT ![r] = "PENDING"]
      BY <1>0, <2>1, <2>3 DEF TypeOK, StorageTypeOK
    <2>5. Lifecycle!Record(r)
      BY <1>2, <2>1, <2>2, <2>4 DEF Lifecycle!Record
    <2> QED
      BY <2>1, <2>5 DEF Lifecycle!LifecycleNext
  <1>3. CASE RecordUpdate /\ UNCHANGED told
    <2>0. PICK r : r = eupdate.id
      OBVIOUS
    <2>1. UpdStatus(eupdate) /\ r \in Ids
      BY <1>3, <2>0 DEF RecordUpdate, TypeOK, EngineTypeOK, DetectionStatus
    <2>2. CASE UNCHANGED table
      BY <1>3, <2>2 DEF Lifecycle!lifecycleVars
    <2>3. CASE Upsert(eupdate) /\ r \notin Puts
      <3>1. status' = status
        BY <1>0, <2>0, <2>1, <2>3 DEF Upsert, TypeOK, StorageTypeOK
      <3> QED
        BY <1>3, <3>1 DEF Lifecycle!lifecycleVars
    <2>4. CASE Upsert(eupdate) /\ eupdate.status \in DbStatus /\ r \in Puts
      <3>1. eupdate.status = "SUCCESS"
        BY <2>0, <2>4, CallAssumption DEF ResultsAreFinal, IsResult, DbStatus, Calls
      <3>2. status' = [status EXCEPT ![r] = "SUCCESS"]
        BY <1>0, <2>0, <2>4, <3>1 DEF Upsert, TypeOK, StorageTypeOK
      <3>3. status[r] \in {"UNKNOWN", "PENDING", "SUCCESS"}
        BY <2>4 DEF LifecycleInv, NoRequestFails
      <3>4. CASE status[r] = "SUCCESS"
        <4>1. status' = status
          BY <2>4, <3>2, <3>4
        <4> QED
          BY <1>3, <4>1 DEF Lifecycle!lifecycleVars
      <3>5. CASE status[r] \in {"UNKNOWN", "PENDING"}
        <4>1. Lifecycle!Finish(r)
          BY <1>3, <3>2, <3>5 DEF Lifecycle!Finish
        <4> QED
          BY <2>4, <4>1 DEF Lifecycle!LifecycleNext
      <3> QED
        BY <3>3, <3>4, <3>5
    <2> QED
      BY <2>1, <2>2, <2>3, <2>4 DEF UpdStatus
  <1>4. CASE UNCHANGED storageVars /\ UNCHANGED told
    BY <1>4 DEF storageVars, Lifecycle!lifecycleVars
  <1>5. Answer \/ UNCHANGED told
    BY DEF Next, CoreNext, Handle, Engine, Route, Broker, BrokerCrash, Compute, Restart,
           history, vars
  <1> QED
    BY <1>1, <1>2, <1>3, <1>4, <1>5, OnlyEngineWrites

(* On a database that works the answer the engine holds is still what the    *)
(* table says when it sends it, and no request is ever marked FAILURE.       *)
THEOREM AnswersStayTrue ==
  ASSUME DbMayFail = FALSE
  PROVE  Spec => []LifecycleInv
  <1>1. Init => CoreInv /\ LifecycleInv
    BY InvInit, LifecycleStart
  <1>2. CoreInv /\ LifecycleInv /\ [Next]_vars => (CoreInv /\ LifecycleInv)'
    BY InvStep, LifecycleInvStep
  <1> QED
    BY <1>1, <1>2, PTL DEF Spec

(* On a database that works the core keeps the lifecycle of its requests:    *)
(* one status each that only moves on, and answers that say what it is.      *)
THEOREM CoreImplementsLifecycle ==
  ASSUME DbMayFail = FALSE
  PROVE  Spec => ImplementsLifecycle
  <1>1. Init => CoreInv /\ LifecycleInv /\ Lifecycle!LifecycleInit
    BY InvInit, LifecycleStart
  <1>2. CoreInv /\ LifecycleInv /\ [Next]_vars
          => (CoreInv /\ LifecycleInv)' /\ [Lifecycle!LifecycleNext]_Lifecycle!lifecycleVars
    BY InvStep, LifecycleInvStep, LifecycleStep
  <1> QED
    BY <1>1, <1>2, PTL DEF Spec, ImplementsLifecycle, Lifecycle!LifecycleSpec
=============================================================================
