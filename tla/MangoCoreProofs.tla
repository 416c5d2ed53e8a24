--------------------------- MODULE MangoCoreProofs ---------------------------
(***************************************************************************)
(* Theorems about MangoCore for every value of its constants.              *)
(***************************************************************************)
EXTENDS MangoCore, SequenceTheorems, TLAPS

-----------------------------------------------------------------------------
(* Queues.                                                                   *)

(* Taking the first element of a queue never makes it longer.                *)
LEMMA Taken ==
  ASSUME NEW S, NEW q \in Seq(S), q # << >>
  PROVE  /\ Head(q) \in S /\ Tail(q) \in Seq(S)
         /\ \A n \in Nat : Len(q) <= n => Len(Tail(q)) <= n
  BY HeadTailProperties, EmptySeq

(* A queue that has room for one more takes it.                              *)
LEMMA Added ==
  ASSUME NEW S, NEW q \in Seq(S), NEW x \in S
  PROVE  /\ Append(q, x) \in Seq(S)
         /\ \A n \in Nat : Len(q) < n => Len(Append(q, x)) <= n
  BY AppendProperties, LenProperties

(* What is left of a queue when its first or last elements are lost is a     *)
(* queue.                                                                    *)
LEMMA Cut ==
  ASSUME NEW S, NEW q \in Seq(S), NEW n \in 0 .. Len(q)
  PROVE  SubSeq(q, 1, n) \in Seq(S) /\ SubSeq(q, n + 1, Len(q)) \in Seq(S)
  <1>1. Len(q) \in Nat /\ \A i \in 1 .. Len(q) : q[i] \in S
    BY LenProperties
  <1>2. SubSeq(q, 1, n) \in Seq(S)
    BY <1>1, SubSeqProperties
  <1>3. SubSeq(q, n + 1, Len(q)) \in Seq(S)
    BY <1>1, SubSeqProperties
  <1> QED
    BY <1>2, <1>3

-----------------------------------------------------------------------------
(* What the operators of the model return.                                   *)

(* Status makes statuses out of request ids and words.                       *)
LEMMA StatusType ==
  ASSUME NEW id \in Ids, NEW word \in StatusWord
  PROVE  Status(id, word) \in DetectionStatus
  BY DEF Status, DetectionStatus, Verdicts

(* So the two statuses without a request id are statuses too.                *)
LEMMA NilStatusType == Failure \in DetectionStatus /\ Garbled \in DetectionStatus
  BY StatusType DEF Failure, Garbled, Ids, StatusWord, DbStatus

(* The messages the handlers send are messages.                              *)
LEMMA MessageType ==
  /\ MassDetectionStatusRequest \in Message
  /\ \A id \in Ids : DetectionQuery(id) \in Message
  /\ \A id \in Ids, d \in Detectors : DetectionRequest(id, d) \in Message
  BY DEF MassDetectionStatusRequest, DetectionQuery, DetectionRequest, Message, Ids

(* A query for one status answers with statuses.                             *)
LEMMA GetStatusType ==
  ASSUME StorageTypeOK, NEW id \in Ids
  PROVE  GetStatus(id) \subseteq DetectionStatus
  <1>1. Status(id, "UNKNOWN") \in DetectionStatus
    BY StatusType DEF StatusWord, DbStatus
  <1>2. table[id] # NoRow => convertDetectionStatus(id) \in DetectionStatus
    BY DEF StorageTypeOK, Row, convertDetectionStatus, DetectionStatus, StatusWord
  <1> QED
    BY <1>1, <1>2 DEF GetStatus

(* And so does a query for a page.                                           *)
LEMMA MassStatusType ==
  ASSUME StorageTypeOK, NEW page \in MassStatus
  PROVE  page \subseteq DetectionStatus
  <1>1. \A id \in Ids : table[id] # NoRow
                          => convertDetectionStatus(id) \in DetectionStatus
    BY DEF StorageTypeOK, Row, convertDetectionStatus, DetectionStatus, StatusWord
  <1> QED
    BY <1>1 DEF MassStatus

(* Storing a status leaves the table well typed, stored or refused.          *)
LEMMA UpdStatusType ==
  ASSUME StorageTypeOK, NEW s \in DetectionStatus, UpdStatus(s)
  PROVE  StorageTypeOK'
  BY DEF StorageTypeOK, UpdStatus, Upsert, DetectionStatus, Row

(* Whatever the compute service answers to a request is a status.            *)
LEMMA AnswersType ==
  ASSUME NEW request \in Message
  PROVE  Answers(request) \subseteq DetectionStatus
  <1>1. request.id \in Ids
    BY DEF Message
  <1>2. "SUCCESS" \in StatusWord /\ "FAILED" \in StatusWord
    BY DEF StatusWord, DbStatus
  <1> QED
    BY <1>1, <1>2, StatusType, NilStatusType DEF Answers

-----------------------------------------------------------------------------
(* Type correctness.                                                         *)

(* The starting values are of their types.                                   *)
LEMMA InitType == Init => TypeOK
  <1> SUFFICES ASSUME Init PROVE TypeOK
    OBVIOUS
  <1>1. StorageTypeOK
    BY DEF Init, StorageInit, StorageTypeOK
  <1>2. WebTypeOK
    BY MessageType DEF Init, WebInit, WebTypeOK
  <1>3. ChannelTypeOK
    BY BufferAssumption DEF Init, ChannelInit, ChannelTypeOK
  <1>4. EngineTypeOK
    BY NilStatusType DEF Init, EngineInit, EngineTypeOK
  <1>5. RouterTypeOK /\ QueueTypeOK
    BY NilStatusType, MessageType DEF Init, RouterInit, RouterTypeOK, QueueInit,
                                      QueueTypeOK
  <1>6. restarts \in 0 .. MaxRestarts /\ told \in [Ids -> StatusWord]
    BY FaultAssumption DEF Init, StatusWord, DbStatus
  <1> QED
    BY <1>1, <1>2, <1>3, <1>4, <1>5, <1>6 DEF TypeOK

(* A handler that responds is done, and has sent nothing.                    *)
LEMMA RespondType ==
  ASSUME WebTypeOK, NEW c \in Calls, NEW code \in {200, 400, 408},
         Respond(c, code), hreq' = hreq
  PROVE  WebTypeOK'
  BY DEF WebTypeOK, Respond

(* A handler that calls waitFromEngine has its message ready.                *)
LEMMA CallEngineType ==
  ASSUME WebTypeOK, NEW c \in Calls, NEW msg \in Message, CallEngine(c, msg)
  PROVE  WebTypeOK' /\ engineFeed' = engineFeed
  BY DEF WebTypeOK, CallEngine

(* A handler's step keeps the types: it changes its own state and may append *)
(* one message to a feed that has room.                                      *)
LEMMA HandleType ==
  ASSUME TypeOK, NEW c \in Calls, Handle(c)
  PROVE  TypeOK'
  <1> USE DEF TypeOK, Handle
  <1>1. UNCHANGED <<engineVars, routerVars, computeSink, computeFeed, queues,
                    storageVars, history>>
    OBVIOUS
  <1>2. WebTypeOK' /\ ChannelTypeOK'
    <2>0. engineFeed' = engineFeed => ChannelTypeOK'
      BY <1>1 DEF ChannelTypeOK
    <2>1. CASE PutDetection(c)
      <3>1. CASE RejectPut(c) /\ UNCHANGED <<hreq, engineFeed>>
        <4>1. Respond(c, 400) /\ hreq' = hreq /\ engineFeed' = engineFeed
          BY <3>1 DEF RejectPut
        <4> QED
          BY <4>1, <2>0, RespondType
      <3>2. CASE \E d \in Detectors : CallEngine(c, DetectionRequest(c, d))
        BY <3>2, <2>1, <2>0, MessageType, CallEngineType DEF PutDetection, Ids
      <3> QED
        BY <2>1, <3>1, <3>2 DEF PutDetection
    <2>2. CASE GetDetection(c)
      BY <2>2, <2>0, MessageType, CallEngineType, RespondType DEF GetDetection
    <2>3. CASE MassGetDetection(c)
      BY <2>3, <2>0, MessageType, CallEngineType, RespondType DEF MassGetDetection
    <2>4. CASE ListDetectors(c)
      BY <2>4, <2>0, RespondType DEF ListDetectors
    <2>5. CASE SendToEngine(c)
      <3>1. [ret |-> c, msg |-> hreq[c]] \in ClientToServer
        BY DEF ClientToServer, WebTypeOK
      <3>2. engineFeed' \in Seq(ClientToServer) /\ Len(engineFeed') <= FeedBufferSize
        BY <2>5, <3>1, Added, BufferAssumption DEF SendToEngine, ChannelTypeOK
      <3> QED
        BY <2>5, <1>1, <3>2 DEF SendToEngine, WebTypeOK, ChannelTypeOK
    <2>6. CASE TimeOut(c)
      BY <2>6, <2>0, RespondType DEF TimeOut
    <2> QED
      BY <2>1, <2>2, <2>3, <2>4, <2>5, <2>6 DEF Handlers
  <1>3. EngineTypeOK'
    BY <1>1 DEF EngineTypeOK, engineVars
  <1>4. StorageTypeOK'
    BY <1>1 DEF StorageTypeOK, storageVars
  <1>5. RouterTypeOK' /\ QueueTypeOK'
    BY <1>1 DEF RouterTypeOK, QueueTypeOK, routerVars, queues
  <1>6. restarts' \in 0 .. MaxRestarts /\ told' \in [Ids -> StatusWord]
    BY <1>1 DEF history
  <1> HIDE DEF Handle
  <1> QED
    BY <1>2, <1>3, <1>4, <1>5, <1>6

(* So does the rendezvous of the engine with a waiting handler.              *)
LEMMA AnswerType ==
  ASSUME TypeOK, Answer
  PROVE  TypeOK'
  <1> USE DEF TypeOK, Answer
  <1>1. WebTypeOK'
    <2>1. ecall.ret \in Calls
      BY DEF Reply, EngineTypeOK, ClientToServer
    <2>2. Respond(ecall.ret, 200) /\ hreq' = hreq
      BY DEF ReceiveAnswer
    <2> HIDE DEF Answer
    <2> QED
      BY <2>1, <2>2, RespondType
  <1>2. /\ ChannelTypeOK' /\ StorageTypeOK' /\ RouterTypeOK' /\ QueueTypeOK'
        /\ restarts' = restarts
    BY DEF Reply, channels, storageVars, routerVars, queues,
           ChannelTypeOK, StorageTypeOK, RouterTypeOK, QueueTypeOK
  <1>3. EngineTypeOK'
    BY DEF Reply, EngineTypeOK
  <1>4. told' \in [Ids -> StatusWord]
    <2>1. \A s \in eanswer : s.status \in StatusWord
      BY DEF EngineTypeOK, DetectionStatus
    <2> QED
      BY <2>1
  <1> QED
    BY <1>1, <1>2, <1>3, <1>4

(* A step of the engine's loop.                                              *)
LEMMA EngineType ==
  ASSUME TypeOK, Engine
  PROVE  TypeOK'
  <1> USE DEF TypeOK, Engine
  <1>1. WebTypeOK' /\ RouterTypeOK' /\ QueueTypeOK' /\ UNCHANGED history
    BY DEF webVars, routerVars, queues, WebTypeOK, RouterTypeOK, QueueTypeOK
  <1>2. EngineTypeOK' /\ ChannelTypeOK' /\ StorageTypeOK'
    <2>1. CASE TakeCall
      <3>1. /\ engineFeed # << >>
            /\ ecall' = Head(engineFeed) /\ engineFeed' = Tail(engineFeed)
            /\ epc' = IF ecall'.msg.op = "PUT" THEN "submit" ELSE "query"
            /\ UNCHANGED <<eanswer, eupdate, computeSink, computeFeed, table, errorLog>>
        BY <2>1 DEF TakeCall, storageVars
      <3>2. ecall' \in ClientToServer /\ engineFeed' \in Seq(ClientToServer)
            /\ Len(engineFeed') <= FeedBufferSize
        BY <3>1, Taken, BufferAssumption DEF ChannelTypeOK
      <3>3. ecall' # NoCall
        BY <3>2, CallAssumption DEF ClientToServer, NoCall
      <3> QED
        BY <3>1, <3>2, <3>3 DEF EngineTypeOK, ChannelTypeOK, StorageTypeOK
    <2>2. CASE SubmitToCompute
      <3>1. ecall.msg \in Message
        BY <2>2 DEF SubmitToCompute, EngineTypeOK, ClientToServer
      <3>2. computeSink' \in Seq(Message) /\ Len(computeSink') <= ComputeBufferSize
        BY <2>2, <3>1, Added, BufferAssumption DEF SubmitToCompute, ChannelTypeOK
      <3> QED
        BY <2>2, <3>2 DEF SubmitToCompute, EngineTypeOK, ChannelTypeOK, StorageTypeOK,
                          storageVars
    <2>3. CASE RecordPending
      <3> DEFINE status == Status(ecall.msg.id, "PENDING")
      <3>1. status \in DetectionStatus
        BY <2>3, StatusType
        DEF RecordPending, EngineTypeOK, ClientToServer, Message, StatusWord, DbStatus
      <3>2. StorageTypeOK'
        BY <2>3, <3>1, UpdStatusType DEF RecordPending
      <3> QED
        BY <2>3, <3>1, <3>2 DEF RecordPending, EngineTypeOK, ChannelTypeOK, channels
    <2>4. CASE Query
      <3>1. ecall.msg.id \in Ids
        BY <2>4 DEF Query, EngineTypeOK, ClientToServer, Message
      <3>2. GetStatus(ecall.msg.id) \subseteq DetectionStatus
        BY <3>1, GetStatusType
      <3>3. \A page \in MassStatus : page \subseteq DetectionStatus
        BY MassStatusType
      <3>4. eanswer' \subseteq DetectionStatus
        BY <2>4, <3>2, <3>3 DEF Query
      <3> QED
        BY <2>4, <3>4 DEF Query, EngineTypeOK, ChannelTypeOK, StorageTypeOK, channels,
                          storageVars
    <2>5. CASE TakeUpdate
      <3>1. /\ eupdate' \in DetectionStatus
            /\ computeFeed' \in Seq(DetectionStatus)
            /\ Len(computeFeed') <= ComputeBufferSize
        BY <2>5, Taken, BufferAssumption DEF TakeUpdate, ChannelTypeOK
      <3> QED
        BY <2>5, <3>1 DEF TakeUpdate, EngineTypeOK, ChannelTypeOK, StorageTypeOK,
                          storageVars
    <2>6. CASE RecordUpdate
      <3>1. StorageTypeOK'
        BY <2>6, UpdStatusType DEF RecordUpdate, EngineTypeOK
      <3> QED
        BY <2>6, <3>1, NilStatusType DEF RecordUpdate, EngineTypeOK, ChannelTypeOK,
                                         channels
    <2>7. CASE EngineIdle
      BY <2>7 DEF EngineIdle, EngineTypeOK, ChannelTypeOK, StorageTypeOK, engineVars,
                  channels, storageVars
    <2> QED
      BY <2>1, <2>2, <2>3, <2>4, <2>5, <2>6, <2>7
  <1> QED
    BY <1>1, <1>2 DEF history

(* A step of the router's loop.                                              *)
LEMMA RouteType ==
  ASSUME TypeOK, Route
  PROVE  TypeOK'
  <1> USE DEF TypeOK, Route
  <1>1. /\ WebTypeOK' /\ StorageTypeOK' /\ EngineTypeOK'
        /\ UNCHANGED history /\ UNCHANGED engineFeed
    BY DEF webVars, storageVars, engineVars, WebTypeOK, StorageTypeOK, EngineTypeOK
  <1>2. RouterTypeOK' /\ QueueTypeOK' /\ ChannelTypeOK'
    <2> USE <1>1 DEF RouterTypeOK, QueueTypeOK, ChannelTypeOK, queues
    <2>1. CASE TakeRequest
      <3>1. /\ rrequest' \in Message /\ computeSink' \in Seq(Message)
            /\ Len(computeSink') <= ComputeBufferSize
        BY <2>1, Taken, BufferAssumption DEF TakeRequest
      <3> QED
        BY <2>1, <3>1 DEF TakeRequest
    <2>2. CASE Publish
      BY <2>2 DEF Publish
    <2>3. CASE PublishFails
      BY <2>3, NilStatusType DEF PublishFails
    <2>4. CASE TakeDelivery
      BY <2>4, NilStatusType DEF TakeDelivery, Unmarshal
    <2>5. CASE TakeFromClosed
      BY <2>5, NilStatusType DEF TakeFromClosed, Unmarshal
    <2>6. CASE SinkStatus
      <3>1. /\ computeFeed' \in Seq(DetectionStatus)
            /\ Len(computeFeed') <= ComputeBufferSize
        BY <2>6, Added, BufferAssumption DEF SinkStatus
      <3> QED
        BY <2>6, <3>1 DEF SinkStatus
    <2>7. CASE RouterIdle
      BY <2>7 DEF RouterIdle, routerVars
    <2> QED
      BY <2>1, <2>2, <2>3, <2>4, <2>5, <2>6, <2>7
  <1> QED
    BY <1>1, <1>2 DEF history

(* A delivery, or the loss of the connection.                                *)
LEMMA BrokerType ==
  ASSUME TypeOK, Broker
  PROVE  TypeOK'
  <1> USE DEF TypeOK, Broker
  <1>1. /\ WebTypeOK' /\ StorageTypeOK' /\ EngineTypeOK' /\ ChannelTypeOK'
        /\ UNCHANGED history
    BY DEF webVars, storageVars, engineVars, WebTypeOK, StorageTypeOK, EngineTypeOK,
           ChannelTypeOK, Deliver, LoseConnection
  <1>2. RouterTypeOK' /\ QueueTypeOK'
    <2>1. CASE Deliver
      BY <2>1 DEF Deliver, RouterTypeOK, QueueTypeOK
    <2>2. CASE LoseConnection
      <3>1. requestQueue' \in Seq(Message)
        BY <2>2, Cut DEF LoseConnection, QueueTypeOK
      <3> QED
        BY <2>2, <3>1, EmptySeq DEF LoseConnection, RouterCutOff, RouterTypeOK,
                                    QueueTypeOK
    <2> QED
      BY <2>1, <2>2
  <1> QED
    BY <1>1, <1>2 DEF history

(* The broker goes down.                                                     *)
LEMMA BrokerCrashType ==
  ASSUME TypeOK, BrokerCrash
  PROVE  TypeOK'
  <1> USE DEF TypeOK, BrokerCrash
  <1>1. WebTypeOK' /\ StorageTypeOK' /\ EngineTypeOK' /\ ChannelTypeOK'
    BY DEF webVars, storageVars, engineVars, channels, WebTypeOK, StorageTypeOK,
           EngineTypeOK, ChannelTypeOK
  <1>2. RouterTypeOK' /\ QueueTypeOK'
    BY EmptySeq DEF QueuesLost, RouterCutOff, RouterTypeOK, QueueTypeOK
  <1> QED
    BY <1>1, <1>2 DEF history

(* A step of the compute service.                                            *)
LEMMA ComputeType ==
  ASSUME TypeOK, Compute
  PROVE  TypeOK'
  <1> USE DEF TypeOK, Compute
  <1>1. /\ WebTypeOK' /\ StorageTypeOK' /\ EngineTypeOK' /\ ChannelTypeOK'
        /\ UNCHANGED history
    BY DEF webVars, storageVars, engineVars, WebTypeOK, StorageTypeOK, EngineTypeOK,
           ChannelTypeOK
  <1>2. UNCHANGED routerVars
    OBVIOUS
  <1>3. RouterTypeOK' /\ QueueTypeOK'
    <2>1. CASE ComputeAnswers
      <3>1. Head(requestQueue) \in Message /\ Tail(requestQueue) \in Seq(Message)
        BY <2>1, Taken DEF ComputeAnswers, RouterTypeOK, QueueTypeOK
      <3>2. Answers(Head(requestQueue)) \subseteq DetectionStatus
        BY <3>1, AnswersType
      <3>3. responseQueue' \in Seq(DetectionStatus)
        BY <2>1, <3>2, Added DEF ComputeAnswers, RouterTypeOK, QueueTypeOK
      <3> QED
        BY <1>2, <2>1, <3>1, <3>3 DEF ComputeAnswers, RouterTypeOK, QueueTypeOK,
                                             routerVars
    <2>2. CASE ComputeDrops
      <3>1. requestQueue' \in Seq(Message)
        BY <2>2, Cut DEF ComputeDrops, QueueTypeOK
      <3> QED
        BY <1>2, <2>2, <3>1 DEF ComputeDrops, RouterTypeOK, QueueTypeOK, routerVars
    <2> QED
      BY <2>1, <2>2
  <1> QED
    BY <1>1, <1>3 DEF history

(* A new process starts with values of the types.                            *)
LEMMA RestartType ==
  ASSUME TypeOK, Restart
  PROVE  TypeOK'
  <1> USE DEF TypeOK, Restart
  <1>1. WebTypeOK'
    BY DEF WebRestart, WebTypeOK
  <1>2. ChannelTypeOK'
    BY BufferAssumption DEF ChannelRestart, ChannelTypeOK
  <1>3. EngineTypeOK'
    BY NilStatusType DEF EngineRestart, EngineTypeOK
  <1>4. RouterTypeOK' /\ QueueTypeOK'
    BY MessageType, NilStatusType DEF RouterRestart, RouterTypeOK, QueueTypeOK, queues
  <1>5. StorageTypeOK'
    BY DEF StorageTypeOK, storageVars
  <1>6. restarts' \in 0 .. MaxRestarts /\ UNCHANGED told
    BY FaultAssumption
  <1> QED
    BY <1>1, <1>2, <1>3, <1>4, <1>5, <1>6

(* No step at all.                                                           *)
LEMMA StutterType ==
  ASSUME TypeOK, UNCHANGED vars
  PROVE  TypeOK'
  BY DEF TypeOK, WebTypeOK, ChannelTypeOK, EngineTypeOK, StorageTypeOK, RouterTypeOK,
         QueueTypeOK,
         vars, webVars, engineVars, routerVars, channels, queues, storageVars, history

(* Every step keeps the types.                                               *)
LEMMA TypeStep == TypeOK /\ [Next]_vars => TypeOK'
  BY HandleType, AnswerType, EngineType, RouteType, BrokerType, BrokerCrashType,
     ComputeType, RestartType, StutterType
  DEF Next, CoreNext

(* Every reachable state is well typed: no buffer overruns its capacity and  *)
(* the engine (engine.go) never serves a message it does not hold.           *)
THEOREM TypeCorrect == Spec => []TypeOK
  BY InitType, TypeStep, PTL DEF Spec
=============================================================================
