--------------------------- MODULE MangoTruthProofs ---------------------------
(***************************************************************************)
(* Theorems about the whole system for every value of its constants: its   *)
(* types, that it implements MangoCore, where a SUCCESS comes from, and    *)
(* that it keeps what the core promises.                                   *)
(***************************************************************************)
EXTENDS MangoTruthInv, MangoCoreCounts

-----------------------------------------------------------------------------
(* Type correctness.                                                         *)

(* What process_request returns are statuses, and answers to the request.    *)
LEMMA ProcessAnswers ==
  ASSUME NEW request \in Message
  PROVE  /\ process_request(request) \subseteq DetectionStatus
         /\ process_request(request) \subseteq {Status(request.id, "SUCCESS"),
                                                Status(request.id, "FAILED"), Garbled}
         /\ Status(request.id, "SUCCESS") \in process_request(request)
              => request.detector \in loaded
  <1>1. /\ Status(request.id, "SUCCESS") \in DetectionStatus
        /\ Status(request.id, "FAILED") \in DetectionStatus
        /\ Garbled \in DetectionStatus
    BY StatusType, NilStatusType DEF Message, StatusWord, DbStatus
  <1>2. Status(request.id, "SUCCESS") # Status(request.id, "FAILED")
    BY DEF Status
  <1> QED
    BY <1>1, <1>2 DEF process_request

(* A step of the compute service keeps the types.                            *)
LEMMA WorkerType ==
  ASSUME SysTypeOK, WorkerStep
  PROVE  SysTypeOK'
  <1> USE DEF SysTypeOK, WorkerTypeOK, QueueTypeOK, queues
  <1>0. QueueTypeOK /\ WorkerTypeOK /\ Worker
    BY DEF TypeOK, WorkerStep
  <1>1. WorkerTypeOK' /\ QueueTypeOK'
    <2>1. CASE StartWorker
      BY <1>0, <2>1, WorkerAssumption DEF StartWorker
    <2>2. CASE LoadDetectors
      <3>1. loaded' \subseteq Detectors \cup {Mock}
        BY <1>0, <2>2, DetectorAssumption DEF LoadDetectors
      <3> QED
        BY <1>0, <2>2, <3>1, EmptySeq DEF LoadDetectors
    <2>3. CASE SendToConsumer
      <3>1. Head(requestQueue) \in Message /\ Tail(requestQueue) \in Seq(Message)
        BY <1>0, <2>3, Taken DEF SendToConsumer
      <3>2. Append(prefetched, Head(requestQueue)) \in Seq(Message)
        BY <1>0, <3>1, Added
      <3> QED
        BY <1>0, <2>3, <3>1, <3>2 DEF SendToConsumer
    <2>4. CASE TakeFromBroker
      <3>1. Head(prefetched) \in Message /\ Tail(prefetched) \in Seq(Message)
        BY <1>0, <2>4, Taken DEF TakeFromBroker
      <3> QED
        BY <1>0, <2>4, <3>1 DEF TakeFromBroker
    <2>5. CASE ProcessRequest
      BY <1>0, <2>5, ProcessAnswers DEF ProcessRequest
    <2>6. CASE PublishResponse
      <3>1. Append(responseQueue, wresponse) \in Seq(DetectionStatus)
        BY <1>0, Added
      <3> QED
        BY <1>0, <2>6, <3>1, EmptySeq DEF PublishResponse
    <2>7. CASE ConsumeFails
      BY <1>0, <2>7 DEF ConsumeFails
    <2>8. CASE LoseWorkerConnection \/ KillWorker
      BY <1>0, <2>8, EmptySeq DEF LoseWorkerConnection, KillWorker, WorkerCutOff
    <2> QED
      BY <1>0, <2>1, <2>2, <2>3, <2>4, <2>5, <2>6, <2>7, <2>8 DEF Worker, WorkerRuns
  <1>2. /\ WebTypeOK' /\ ChannelTypeOK' /\ EngineTypeOK' /\ StorageTypeOK'
        /\ RouterTypeOK' /\ restarts' = restarts /\ told' = told
    BY DEF WorkerStep, webVars, engineVars, routerVars, channels, storageVars, history,
           TypeOK, WebTypeOK, ChannelTypeOK, EngineTypeOK, StorageTypeOK, RouterTypeOK
  <1> HIDE DEF WorkerTypeOK, QueueTypeOK
  <1> QED
    BY <1>1, <1>2 DEF TypeOK

(* The values keep their types in the whole system.                          *)
LEMMA SysTypeStep == SysTypeOK /\ [SysNext]_sysVars => SysTypeOK'
  <1> SUFFICES ASSUME SysTypeOK, [SysNext]_sysVars PROVE SysTypeOK'
    OBVIOUS
  <1>1. CASE CoreNext /\ UNCHANGED workerVars
    BY <1>1, TypeStep DEF SysTypeOK, Next, workerVars, WorkerTypeOK
  <1>2. CASE SysCrash
    BY <1>2, TypeStep, EmptySeq DEF SysTypeOK, SysCrash, WorkerCutOff, Next, WorkerTypeOK
  <1>3. CASE UNCHANGED sysVars
    BY <1>3, TypeStep DEF SysTypeOK, sysVars, workerVars, WorkerTypeOK
  <1> QED
    BY <1>1, <1>2, <1>3, WorkerType DEF SysNext

(* The system starts well typed.                                             *)
LEMMA SysInitType == SysInit => SysTypeOK
  <1> SUFFICES ASSUME SysInit PROVE SysTypeOK
    OBVIOUS
  <1>1. WorkerTypeOK
    <2>1. 0 \in 0 .. MaxWorkerStarts
      BY WorkerAssumption
    <2> QED
      BY <2>1, NilStatusType, MessageType, EmptySeq DEF SysInit, WorkerInit, WorkerTypeOK
  <1> QED
    BY <1>1, InitType DEF SysInit, SysTypeOK

(* Every reachable state of the system is well typed: whatever is sent to a  *)
(* consumer whose connection is closed is gone.                              *)
THEOREM SystemTypeCorrect == SysSpec => []SysTypeOK
  BY SysInitType, SysTypeStep, PTL DEF SysSpec

-----------------------------------------------------------------------------
(* The system implements MangoCore.                                          *)

(* What the service may still answer, and what it has of it already.         *)
Here   == IF ~wconnected \/ wpc \notin {"working", "publish"} THEN << >> ELSE <<wrequest>>
InHere == Here \o prefetched

(* The end of a sequence is what is left when its beginning is lost.         *)
LEMMA Rest ==
  ASSUME NEW S, NEW p \in Seq(S), NEW q \in Seq(S)
  PROVE  SubSeq(p \o q, Len(p) + 1, Len(p \o q)) = q
  <1>1. /\ Len(p) \in Nat /\ Len(q) \in Nat /\ Len(p \o q) = Len(p) + Len(q)
        /\ \A i \in 1 .. Len(q) : (p \o q)[i + Len(p)] = q[i]
    BY LenProperties, ConcatProperties
  <1>2. /\ p \o q \in Seq(S) /\ q \in Seq(S)
    BY ConcatProperties
  <1> DEFINE r == SubSeq(p \o q, Len(p) + 1, Len(p \o q))
  <1>3. Len(r) = Len(q) /\ r \in Seq(S)
    BY <1>1, <1>2
  <1>4. \A i \in 1 .. Len(q) : r[i] = q[i]
    BY <1>1, <1>2
  <1> HIDE DEF r
  <1>5. r = q
    BY <1>2, <1>3, <1>4, SeqEqual
  <1> QED
    BY <1>5 DEF r

(* Adding to a queue is adding to any queue that ends in it.                 *)
LEMMA AppendBehind ==
  ASSUME NEW S, NEW p \in Seq(S), NEW q \in Seq(S), NEW x \in S
  PROVE  p \o Append(q, x) = Append(p \o q, x)
  <1>1. Append(q, x) \in Seq(S) /\ p \o q \in Seq(S)
    BY AppendProperties, ConcatProperties
  <1>2. /\ Len(p) \in Nat /\ Len(q) \in Nat /\ Len(Append(q, x)) = Len(q) + 1
        /\ Len(p \o q) = Len(p) + Len(q)
        /\ Len(p \o Append(q, x)) = Len(p) + Len(q) + 1
        /\ Len(Append(p \o q, x)) = Len(p) + Len(q) + 1
    BY <1>1, LenProperties, AppendProperties, ConcatProperties
  <1>3. \A i \in 1 .. Len(p) + Len(q) + 1 :
          (p \o Append(q, x))[i] = Append(p \o q, x)[i]
    BY <1>1, <1>2
  <1>4. p \o Append(q, x) \in Seq(S) /\ Append(p \o q, x) \in Seq(S)
    BY <1>1, ConcatProperties, AppendProperties
  <1> QED
    BY <1>2, <1>3, <1>4, SeqEqual

(* Losing the end of a queue is losing the end of any queue that ends in it. *)
LEMMA FrontCut ==
  ASSUME NEW S, NEW p \in Seq(S), NEW q \in Seq(S), NEW n \in 0 .. Len(q)
  PROVE  /\ p \o SubSeq(q, 1, n) = SubSeq(p \o q, 1, Len(p) + n)
         /\ Len(p) + n \in 0 .. Len(p \o q)
  <1>1. /\ Len(p) \in Nat /\ Len(q) \in Nat /\ Len(p \o q) = Len(p) + Len(q)
        /\ p \o q \in Seq(S)
    BY LenProperties, ConcatProperties
  <1>2. Len(p) + n \in 0 .. Len(p \o q)
    BY <1>1
  <1>3. SubSeq(q, 1, n) \in Seq(S) /\ SubSeq(p \o q, 1, Len(p) + n) \in Seq(S)
    BY <1>1, <1>2, Cut
  <1>4. p \o SubSeq(q, 1, n) \in Seq(S) /\ Len(p \o SubSeq(q, 1, n)) = Len(p) + n
    BY <1>1, <1>3
  <1>5. Len(SubSeq(p \o q, 1, Len(p) + n)) = Len(p) + n
    BY <1>1, <1>2
  <1>6. \A i \in 1 .. Len(p) + n :
          (p \o SubSeq(q, 1, n))[i] = SubSeq(p \o q, 1, Len(p) + n)[i]
    BY <1>1, <1>2
  <1> QED
    BY <1>2, <1>3, <1>4, <1>5, <1>6, SeqEqual

(* What the service has of the requests it may still answer is a queue.      *)
LEMMA InHereType ==
  ASSUME SysTypeOK
  PROVE  /\ InHere \in Seq(Message) /\ requestQueue \in Seq(Message)
         /\ Unanswered = InHere \o requestQueue
         /\ Unanswered \in Seq(Message)
  <1>1. /\ prefetched \in Seq(Message) /\ requestQueue \in Seq(Message)
        /\ wrequest \in Message
    BY DEF SysTypeOK, TypeOK, QueueTypeOK, WorkerTypeOK
  <1>2. Here \in Seq(Message)
    BY <1>1, EmptySeq DEF Here
  <1>3. InHere \in Seq(Message)
    BY <1>1, <1>2, ConcatProperties DEF InHere
  <1>4. Unanswered = InHere \o requestQueue
    BY DEF Unanswered, InHere, Here
  <1> QED
    BY <1>1, <1>3, <1>4, ConcatProperties

(* A call of a handler is one in MangoCore.                                  *)
LEMMA HandleIsCore ==
  ASSUME NEW c \in Calls, Handle(c), Unanswered' = Unanswered
  PROVE  Core!Handle(c)
  <1>1. Handlers(c) => Core!Handlers(c)
    BY DEF Handlers, PutDetection, RejectPut, Respond, DetectorExists, CallEngine,
           GetDetection, MassGetDetection, ListDetectors, SendToEngine, TimeOut,
           Core!Handlers, Core!PutDetection, Core!RejectPut, Core!Respond,
           Core!DetectorExists, Core!CallEngine, Core!GetDetection,
           Core!MassGetDetection, Core!ListDetectors, Core!SendToEngine, Core!TimeOut,
           DetectionRequest, DetectionQuery, MassDetectionStatusRequest, Ids,
           Core!DetectionRequest, Core!DetectionQuery, Core!MassDetectionStatusRequest,
           Core!Ids
  <1> QED
    BY <1>1 DEF Handle, engineVars, routerVars, queues, storageVars, history,
                Core!Handle, Core!engineVars, Core!routerVars, Core!queues,
                Core!storageVars, Core!history

(* An answer of the engine is one.                                           *)
LEMMA AnswerIsCore ==
  ASSUME Answer, Unanswered' = Unanswered
  PROVE  Core!Answer
  BY DEF Answer, Reply, ReceiveAnswer, Respond, routerVars, queues, channels, storageVars,
         Ids, Core!Answer, Core!Reply, Core!ReceiveAnswer, Core!Respond, Core!routerVars,
         Core!queues, Core!channels, Core!storageVars, Core!Ids, NoCall, Core!NoCall,
         MassDetectionStatusRequest, Core!MassDetectionStatusRequest

(* A step of the engine is one.                                              *)
LEMMA EngineIsCore ==
  ASSUME Engine, Unanswered' = Unanswered
  PROVE  Core!Engine
  <1> USE DEF channels, storageVars, engineVars, Core!channels, Core!storageVars,
              Core!engineVars
  <1>1. TakeCall => Core!TakeCall
    BY DEF TakeCall, Core!TakeCall
  <1>2. SubmitToCompute => Core!SubmitToCompute
    BY DEF SubmitToCompute, Core!SubmitToCompute
  <1>3. RecordPending => Core!RecordPending
    BY DEF RecordPending, Status, UpdStatus, Upsert, DbStatus, Core!RecordPending,
           Core!Status, Core!UpdStatus, Core!Upsert, Core!DbStatus
  <1>4. Query => Core!Query
    <2>1. MassStatus = Core!MassStatus
      <3>1. /\ \A id : convertDetectionStatus(id) = Core!convertDetectionStatus(id)
            /\ NoRow = Core!NoRow /\ Ids = Core!Ids
        BY DEF convertDetectionStatus, NoRow, Ids, Core!convertDetectionStatus,
               Core!NoRow, Core!Ids
      <3> DEFINE stored == {convertDetectionStatus(id) : id \in {i \in Ids : table[i] # NoRow}}
                 coreStored == {Core!convertDetectionStatus(id) :
                                  id \in {i \in Core!Ids : table[i] # Core!NoRow}}
                 size(rows) == IF Cardinality(rows) < MassLimit THEN Cardinality(rows)
                                                                ELSE MassLimit
                 pages(rows) == {page \in SUBSET rows : Cardinality(page) = size(rows)}
                                \cup (IF DbMayFail THEN {{}} ELSE {})
      <3>2. stored = coreStored
        BY <3>1
      <3>3. MassStatus = pages(stored)
        BY DEF MassStatus
      <3>4. \A S : Core!Cardinality(S) = Cardinality(S)
        BY DEF Cardinality, IsFiniteSet, Core!Cardinality, Core!IsFiniteSet
      <3>5. Core!MassStatus = pages(coreStored)
        BY <3>4 DEF Core!MassStatus
      <3> HIDE DEF stored, coreStored, pages
      <3> QED
        BY <3>2, <3>3, <3>5
    <2>2. \A id : GetStatus(id) = Core!GetStatus(id)
      BY DEF GetStatus, NoRow, Status, convertDetectionStatus,
             Core!GetStatus, Core!NoRow, Core!Status, Core!convertDetectionStatus
    <2> QED
      BY <2>1, <2>2 DEF Query, Core!Query
  <1>5. TakeUpdate => Core!TakeUpdate
    BY DEF TakeUpdate, Core!TakeUpdate
  <1>6. RecordUpdate => Core!RecordUpdate
    BY DEF RecordUpdate, UpdStatus, Upsert, DbStatus, Failure, Status, Core!RecordUpdate,
           Core!UpdStatus, Core!Upsert, Core!DbStatus, Core!Failure, Core!Status
  <1>7. EngineIdle => Core!EngineIdle
    BY DEF EngineIdle, Core!EngineIdle
  <1>8. UNCHANGED <<webVars, routerVars, queues, history>>
          => UNCHANGED <<Core!webVars, Core!routerVars, Core!queues, Core!history>>
    BY DEF webVars, routerVars, queues, history, Core!webVars, Core!routerVars,
           Core!queues, Core!history
  <1> QED
    BY <1>1, <1>2, <1>3, <1>4, <1>5, <1>6, <1>7, <1>8 DEF Engine, Core!Engine

(* A step of the router is one: what it publishes comes behind what the      *)
(* service has already.                                                      *)
LEMMA RouteIsCore ==
  ASSUME SysTypeOK, Route, InHere' = InHere
  PROVE  Core!Route
  <1>0. Unanswered = InHere \o requestQueue /\ Unanswered' = InHere' \o requestQueue'
    BY DEF Unanswered, InHere, Here
  <1>1. requestQueue' = requestQueue => Unanswered' = Unanswered
    BY <1>0
  <1>2. Failure = Core!Failure /\ \A body : Unmarshal(body) = Core!Unmarshal(body)
    BY DEF Failure, Unmarshal, Garbled, Status, Core!Failure, Core!Unmarshal,
           Core!Garbled, Core!Status
  <1>3. Garbled = Core!Garbled
    BY DEF Garbled, Status, Core!Garbled, Core!Status
  <1> USE DEF queues, Core!queues, routerVars, Core!routerVars
  <1>4. TakeRequest => Core!TakeRequest
    BY <1>1 DEF TakeRequest, Core!TakeRequest
  <1>5. Publish => Core!Publish
    <2> SUFFICES ASSUME Publish PROVE Core!Publish
      OBVIOUS
    <2>1. rrequest \in Message
      BY DEF SysTypeOK, TypeOK, RouterTypeOK
    <2>2. InHere \o Append(requestQueue, rrequest) = Append(Unanswered, rrequest)
      BY <1>0, <2>1, InHereType, AppendBehind
    <2>3. Unanswered' = Append(Unanswered, rrequest)
      BY <1>0, <2>2 DEF Publish
    <2> QED
      BY <2>3 DEF Publish, Core!Publish
  <1>6. PublishFails => Core!PublishFails
    BY <1>1, <1>2 DEF PublishFails, Core!PublishFails
  <1>7. TakeDelivery => Core!TakeDelivery
    BY <1>1, <1>2 DEF TakeDelivery, Core!TakeDelivery
  <1>8. TakeFromClosed => Core!TakeFromClosed
    BY <1>1, <1>2, <1>3 DEF TakeFromClosed, Core!TakeFromClosed
  <1>9. SinkStatus => Core!SinkStatus
    BY <1>1 DEF SinkStatus, Core!SinkStatus
  <1>10. RouterIdle => Core!RouterIdle
    BY <1>1 DEF RouterIdle, Core!RouterIdle
  <1>11. UNCHANGED <<webVars, engineVars, engineFeed, storageVars, history>>
           => UNCHANGED <<Core!webVars, Core!engineVars, engineFeed, Core!storageVars,
                          Core!history>>
    BY DEF webVars, engineVars, storageVars, history, Core!webVars, Core!engineVars,
           Core!storageVars, Core!history
  <1> QED
    BY <1>4, <1>5, <1>6, <1>7, <1>8, <1>9, <1>10, <1>11 DEF Route, Core!Route

(* What the broker does to the core's connection is one.                     *)
LEMMA BrokerIsCore ==
  ASSUME SysTypeOK, Broker, InHere' = InHere
  PROVE  Core!Broker
  <1>0. Unanswered = InHere \o requestQueue /\ Unanswered' = InHere' \o requestQueue'
    BY DEF Unanswered, InHere, Here
  <1>1. Deliver => Core!Deliver
    BY <1>0 DEF Deliver, Core!Deliver
  <1>2. LoseConnection => Core!LoseConnection
    <2> SUFFICES ASSUME LoseConnection PROVE Core!LoseConnection
      OBVIOUS
    <2>1. PICK n \in 0 .. Len(requestQueue) : requestQueue' = SubSeq(requestQueue, 1, n)
      BY DEF LoseConnection
    <2>2. /\ InHere \o SubSeq(requestQueue, 1, n)
               = SubSeq(InHere \o requestQueue, 1, Len(InHere) + n)
          /\ Len(InHere) + n \in 0 .. Len(InHere \o requestQueue)
      BY InHereType, FrontCut
    <2>3. \E m \in 0 .. Len(Unanswered) : Unanswered' = SubSeq(Unanswered, 1, m)
      BY <1>0, <2>1, <2>2
    <2> QED
      BY <2>3 DEF LoseConnection, RouterCutOff, Core!LoseConnection, Core!RouterCutOff
  <1>3. UNCHANGED <<webVars, engineVars, engineFeed, storageVars, history>>
           => UNCHANGED <<Core!webVars, Core!engineVars, engineFeed, Core!storageVars,
                          Core!history>>
    BY DEF webVars, engineVars, storageVars, history, Core!webVars, Core!engineVars,
           Core!storageVars, Core!history
  <1> QED
    BY <1>1, <1>2, <1>3 DEF Broker, Core!Broker

(* A restart of the core is one.                                             *)
LEMMA RestartIsCore ==
  ASSUME Restart, Unanswered' = Unanswered
  PROVE  Core!Restart
  BY DEF Restart, WebRestart, ChannelRestart, EngineRestart, RouterRestart, queues,
         storageVars, NoCall, Failure, Status, MassDetectionStatusRequest, Calls,
         Core!Restart, Core!WebRestart, Core!ChannelRestart, Core!EngineRestart,
         Core!RouterRestart, Core!queues, Core!storageVars, Core!NoCall, Core!Failure,
         Core!Status, Core!MassDetectionStatusRequest, Core!Calls

(* The response the service is about to send answers the request it holds.   *)
LEMMA RespondsStep ==
  ASSUME SysTypeOK, Responds, [SysNext]_sysVars
  PROVE  Responds'
  <1> USE DEF Responds
  <1>1. CASE UNCHANGED <<wpc, wrequest, wresponse>>
    BY <1>1
  <1>2. CASE WorkerStep
    <2>1. CASE ProcessRequest
      <3>1. wrequest \in Message
        BY DEF SysTypeOK, WorkerTypeOK
      <3> QED
        BY <2>1, <3>1, ProcessAnswers DEF ProcessRequest
    <2>2. CASE Worker /\ ~ProcessRequest
      BY <2>2 DEF Worker, WorkerRuns, StartWorker, LoadDetectors, SendToConsumer,
                  TakeFromBroker, PublishResponse, ConsumeFails, LoseWorkerConnection,
                  KillWorker
    <2> QED
      BY <1>2, <2>1, <2>2 DEF WorkerStep
  <1> QED
    BY <1>1, <1>2 DEF SysNext, SysCrash, workerVars, sysVars

(* A queue that begins with x.                                               *)
LEMMA FirstOf ==
  ASSUME NEW S, NEW x \in S, NEW q \in Seq(S)
  PROVE  /\ <<x>> \in Seq(S) /\ <<x>> \o q # << >>
         /\ Head(<<x>> \o q) = x /\ Tail(<<x>> \o q) = q
  <1>1. <<x>> \in Seq(S) /\ Len(<<x>>) = 1 /\ <<x>>[1] = x
    OBVIOUS
  <1> DEFINE r == <<x>> \o q
  <1>2. /\ r \in Seq(S) /\ Len(q) \in Nat /\ Len(r) = Len(q) + 1 /\ r[1] = x
        /\ \A i \in 1 .. Len(q) : r[i + 1] = q[i]
    BY <1>1, LenProperties, ConcatProperties
  <1> HIDE DEF r
  <1>3. r # << >> /\ Head(r) = x
    BY <1>2, EmptySeq
  <1>4. /\ Tail(r) \in Seq(S) /\ Len(Tail(r)) = Len(q)
        /\ \A i \in 1 .. Len(Tail(r)) : Tail(r)[i] = q[i]
    BY <1>2, <1>3, HeadTailProperties
  <1>5. Tail(r) = q
    BY <1>4, SeqEqual
  <1> QED
    BY <1>1, <1>3, <1>5 DEF r

(* A queue is its first and the rest.                                        *)
LEMMA HeadFirst ==
  ASSUME NEW S, NEW q \in Seq(S), q # << >>
  PROVE  q = <<Head(q)>> \o Tail(q)
  <1>1. /\ Head(q) \in S /\ Tail(q) \in Seq(S) /\ Len(q) \in Nat
        /\ Len(Tail(q)) = Len(q) - 1
        /\ Head(q) = q[1] /\ \A i \in 1 .. Len(q) - 1 : Tail(q)[i] = q[i + 1]
    BY EmptySeq, LenProperties, HeadTailProperties
  <1> DEFINE r == <<Head(q)>> \o Tail(q)
  <1>2. /\ r \in Seq(S) /\ Len(r) = Len(q) /\ r[1] = q[1]
        /\ \A i \in 2 .. Len(q) : r[i] = q[i]
    BY <1>1
  <1> HIDE DEF r
  <1>3. r = q
    BY <1>1, <1>2, SeqEqual
  <1> QED
    BY <1>3 DEF r

(* A service that loses the oldest of its requests drops them.               *)
LEMMA LosesOldest ==
  ASSUME NEW p \in Seq(Message), NEW q \in Seq(Message),
         Unanswered = p \o q, Unanswered' = q, UNCHANGED responseQueue
  PROVE  Unanswered' = Unanswered \/ Core!ComputeDrops
  <1>1. CASE p = << >>
    BY <1>1, ConcatEmptySeq
  <1>2. CASE p # << >>
    <2>1. Len(p) \in Nat \ {0} /\ Len(q) \in Nat /\ Len(p \o q) = Len(p) + Len(q)
      BY <1>2, LenProperties, EmptySeq, ConcatProperties
    <2>2. Len(p) \in 1 .. Len(Unanswered)
      BY <2>1
    <2>3. Unanswered' = SubSeq(Unanswered, Len(p) + 1, Len(Unanswered))
      BY Rest
    <2> QED
      BY <2>2, <2>3 DEF Core!ComputeDrops
  <1> QED
    BY <1>1, <1>2

(* Every step of the service is an answer to its oldest request, the loss of *)
(* some of its oldest, or nothing to the core.                               *)
LEMMA WorkerIsCore ==
  ASSUME SysTypeOK, SysTypeOK', Responds, WorkerStep
  PROVE  \/ Unanswered' = Unanswered /\ UNCHANGED responseQueue
         \/ Core!ComputeAnswers \/ Core!ComputeDrops
  <1> USE DEF SysTypeOK, WorkerTypeOK, QueueTypeOK
  <1>0. /\ prefetched \in Seq(Message) /\ requestQueue \in Seq(Message)
        /\ prefetched' \in Seq(Message) /\ requestQueue' \in Seq(Message)
        /\ wrequest \in Message /\ wrequest' \in Message /\ Worker
        /\ InHere \in Seq(Message)
    BY InHereType DEF TypeOK, WorkerStep
  <1>1. /\ Unanswered = InHere \o requestQueue /\ InHere = Here \o prefetched
        /\ Unanswered' = InHere' \o requestQueue' /\ InHere' = Here' \o prefetched'
    BY DEF Unanswered, InHere, Here
  <1>2. \A q \in Seq(Message) : << >> \o q = q
    BY ConcatEmptySeq
  <1>3. << >> \in Seq(Message)
    BY EmptySeq
  <1> HIDE DEF SysTypeOK
  <1>4. CASE wconnected' = FALSE /\ prefetched' = << >> /\ UNCHANGED queues
    <2>1. InHere' = << >>
      BY <1>1, <1>2, <1>3, <1>4 DEF Here
    <2>2. Unanswered' = requestQueue
      BY <1>0, <1>1, <1>2, <1>4, <2>1 DEF queues
    <2> QED
      BY <1>0, <1>1, <1>4, <2>2, LosesOldest DEF queues
  <1>5. CASE Here' = Here /\ UNCHANGED <<prefetched, queues>>
    BY <1>1, <1>5 DEF queues
  <1>6. CASE StartWorker
    BY <1>5, <1>6 DEF StartWorker, Here
  <1>7. CASE LoadDetectors
    BY <1>4, <1>5, <1>7 DEF LoadDetectors, Here
  <1>8. CASE SendToConsumer
    <2>1. Head(requestQueue) \in Message /\ Tail(requestQueue) \in Seq(Message)
          /\ requestQueue = <<Head(requestQueue)>> \o Tail(requestQueue)
      BY <1>0, <1>8, HeadFirst, Taken DEF SendToConsumer
    <2>2. Here' = Here /\ Here \in Seq(Message)
      BY <1>0, <1>3, <1>8 DEF SendToConsumer, Here
    <2>3. InHere' = Append(InHere, Head(requestQueue))
      <3>1. InHere' = Here \o Append(prefetched, Head(requestQueue))
        BY <1>1, <1>8, <2>2 DEF SendToConsumer
      <3>2. Here \in Seq(Message) /\ prefetched \in Seq(Message)
            /\ Head(requestQueue) \in Message
        BY <1>0, <2>1, <2>2
      <3>3. Here \o Append(prefetched, Head(requestQueue))
              = Append(Here \o prefetched, Head(requestQueue))
        BY ONLY <3>2, AppendBehind
      <3> QED
        BY <1>1, <3>1, <3>3
    <2>4. Append(InHere, Head(requestQueue)) = InHere \o <<Head(requestQueue)>>
      BY <1>0, <2>1, AppendProperties
    <2>5. Unanswered' = Unanswered
      <3> DEFINE h == Head(requestQueue)
                 t == Tail(requestQueue)
      <3>1. <<h>> \in Seq(Message) /\ t \in Seq(Message)
        BY <2>1, FirstOf
      <3>2. Unanswered' = (InHere \o <<h>>) \o t
        BY <1>1, <1>8, <2>3, <2>4 DEF SendToConsumer
      <3>3. Unanswered = InHere \o (<<h>> \o t)
        BY <1>1, <2>1
      <3>4. InHere \in Seq(Message)
        BY <1>0
      <3> HIDE DEF h, t
      <3> QED
        BY ONLY <3>1, <3>2, <3>3, <3>4, ConcatAssociative
    <2> QED
      BY <1>8, <2>5 DEF SendToConsumer
  <1>9. CASE TakeFromBroker
    <2>1. wconnected /\ wpc = "waiting" /\ wpc' = "working"
      BY <1>9 DEF TakeFromBroker, SysTypeOK
    <2>2. Here = << >> /\ Here' = <<Head(prefetched)>>
      BY <1>9, <2>1 DEF TakeFromBroker, Here
    <2>3. prefetched = <<Head(prefetched)>> \o Tail(prefetched)
      BY <1>0, <1>9, HeadFirst DEF TakeFromBroker
    <2>4. InHere' = InHere
      BY <1>0, <1>1, <1>2, <1>9, <2>2, <2>3 DEF TakeFromBroker
    <2> QED
      BY <1>1, <1>9, <2>4 DEF TakeFromBroker, queues
  <1>10. CASE ProcessRequest
    <2>1. CASE wpc' = "publish" \/ ~wconnected
      BY <1>5, <1>10, <2>1 DEF ProcessRequest, Here
    <2>2. CASE wpc' = "dead" /\ wconnected
      <3>1. Here = <<wrequest>> /\ Here' = << >> /\ UNCHANGED <<prefetched, queues>>
        BY <1>10, <2>2 DEF ProcessRequest, Here
      <3>2. <<wrequest>> \in Seq(Message) /\ prefetched \o requestQueue \in Seq(Message)
        BY <1>0, FirstOf, ConcatProperties
      <3>3. Unanswered = <<wrequest>> \o (prefetched \o requestQueue)
        BY <1>0, <1>1, <3>1, <3>2, ConcatAssociative
      <3>4. Unanswered' = prefetched \o requestQueue
        BY <1>0, <1>1, <1>2, <3>1 DEF queues
      <3> QED
        BY <3>1, <3>2, <3>3, <3>4, LosesOldest DEF queues
    <2> QED
      BY <1>10, <2>1, <2>2 DEF ProcessRequest
  <1>11. CASE PublishResponse
    <2>1. CASE wconnected /\ responseQueue' = Append(responseQueue, wresponse)
               /\ wpc' = "waiting" /\ UNCHANGED <<prefetched, wconnected>>
      <3>1. Here = <<wrequest>> /\ Here' = << >> /\ requestQueue' = requestQueue
        BY <1>11, <2>1 DEF PublishResponse, Here
      <3>2. prefetched \o requestQueue \in Seq(Message)
        BY <1>0, ConcatProperties
      <3>3. Unanswered = <<wrequest>> \o (prefetched \o requestQueue)
        BY <1>0, <1>1, <3>1, <3>2, FirstOf, ConcatAssociative
      <3>4. Unanswered' = prefetched \o requestQueue
        BY <1>0, <1>1, <1>2, <2>1, <3>1
      <3>5. /\ Unanswered # << >> /\ Head(Unanswered) = wrequest
            /\ Unanswered' = Tail(Unanswered)
        BY <1>0, <3>2, <3>3, <3>4, FirstOf
      <3>6. wresponse \in Core!Answers(wrequest)
        BY <1>11 DEF PublishResponse, Responds, Status, Garbled, Core!Answers,
                     Core!Status, Core!Garbled
      <3> QED
        BY <2>1, <3>5, <3>6 DEF Core!ComputeAnswers
    <2>2. CASE wconnected' = FALSE /\ prefetched' = << >> /\ UNCHANGED responseQueue
      BY <1>4, <1>11, <2>2 DEF PublishResponse, queues
    <2>3. CASE ~wconnected /\ UNCHANGED <<prefetched, wconnected, responseQueue>>
      BY <1>5, <1>11, <2>3 DEF PublishResponse, Here, queues
    <2> QED
      BY <1>11, <2>1, <2>2, <2>3 DEF PublishResponse
  <1>12. CASE ConsumeFails
    BY <1>5, <1>12 DEF ConsumeFails, Here
  <1>13. CASE LoseWorkerConnection \/ KillWorker
    BY <1>4, <1>13 DEF LoseWorkerConnection, KillWorker, WorkerCutOff
  <1> QED
    BY <1>0, <1>6, <1>7, <1>8, <1>9, <1>10, <1>11, <1>12, <1>13 DEF Worker, WorkerRuns

(* A crash of the broker loses what the service has too.                     *)
LEMMA CrashIsCore ==
  ASSUME SysCrash
  PROVE  Core!BrokerCrash
  <1>1. Unanswered' = << >>
    BY EmptySeq, ConcatEmptySeq DEF SysCrash, BrokerCrash, QueuesLost, WorkerCutOff, Unanswered
  <1> QED
    BY <1>1 DEF SysCrash, BrokerCrash, QueuesLost, RouterCutOff, webVars, engineVars,
                channels, storageVars, history, Core!BrokerCrash, Core!QueuesLost,
                Core!RouterCutOff, Core!webVars, Core!engineVars, Core!channels,
                Core!storageVars, Core!history

(* A step of the core is one of MangoCore.                                   *)
LEMMA CoreNextIsCore ==
  ASSUME SysTypeOK, CoreNext, UNCHANGED workerVars
  PROVE  Core!CoreNext
  <1>1. InHere' = InHere
    BY DEF InHere, Here, workerVars
  <1>2. requestQueue' = requestQueue => Unanswered' = Unanswered
    BY <1>1 DEF Unanswered, InHere, Here
  <1>3. CASE \E c \in Calls : Handle(c)
    <2>1. PICK c \in Calls : Handle(c)
      BY <1>3
    <2>2. Core!Handle(c)
      BY <1>2, <2>1, HandleIsCore DEF Handle, queues
    <2>3. c \in Core!Calls
      BY DEF Calls, Core!Calls
    <2> QED
      BY <2>2, <2>3 DEF Core!CoreNext
  <1>4. CASE Answer
    BY <1>2, <1>4, AnswerIsCore DEF Answer, queues, Core!CoreNext
  <1>5. CASE Engine
    BY <1>2, <1>5, EngineIsCore DEF Engine, queues, Core!CoreNext
  <1>6. CASE Route
    BY <1>1, <1>6, RouteIsCore DEF Core!CoreNext
  <1>7. CASE Broker
    BY <1>1, <1>7, BrokerIsCore DEF Core!CoreNext
  <1>8. CASE Restart
    BY <1>2, <1>8, RestartIsCore DEF Restart, RouterRestart, queues, Core!CoreNext
  <1> QED
    BY <1>3, <1>4, <1>5, <1>6, <1>7, <1>8 DEF CoreNext

(* The system starts as MangoCore does.                                      *)
LEMMA InitIsCore == SysInit => Core!Init
  <1> SUFFICES ASSUME SysInit PROVE Core!Init
    OBVIOUS
  <1>1. Unanswered = << >>
    BY EmptySeq, ConcatEmptySeq DEF SysInit, Init, QueueInit, WorkerInit, Unanswered
  <1> QED
    BY <1>1 DEF SysInit, Init, StorageInit, WebInit, EngineInit, ChannelInit, RouterInit,
                QueueInit, NoCall, Failure, Status, MassDetectionStatusRequest, NoRow, Ids,
                Calls, Core!Init, Core!StorageInit, Core!WebInit, Core!EngineInit,
                Core!ChannelInit, Core!RouterInit, Core!QueueInit, Core!NoCall,
                Core!Failure, Core!Status, Core!MassDetectionStatusRequest, Core!NoRow,
                Core!Ids, Core!Calls

(* Every step of the system is a step of MangoCore or nothing to it.         *)
LEMMA StepIsCore ==
  SysTypeOK /\ SysTypeOK' /\ Responds /\ [SysNext]_sysVars => [Core!Next]_(Core!vars)
  <1> SUFFICES ASSUME SysTypeOK, SysTypeOK', Responds, [SysNext]_sysVars
               PROVE  [Core!Next]_(Core!vars)
    OBVIOUS
  <1>1. CASE CoreNext /\ UNCHANGED workerVars
    BY <1>1, CoreNextIsCore DEF Core!Next
  <1>2. CASE WorkerStep
    <2>1. UNCHANGED <<webVars, engineVars, routerVars, channels, storageVars, history>>
      BY <1>2 DEF WorkerStep
    <2>2. UNCHANGED <<Core!webVars, Core!engineVars, Core!routerVars, engineFeed,
                      computeSink, computeFeed, Core!storageVars, Core!history>>
      BY <2>1 DEF webVars, engineVars, routerVars, channels, storageVars, history,
                  Core!webVars, Core!engineVars, Core!routerVars, Core!storageVars,
                  Core!history
    <2>3. CASE Core!ComputeAnswers \/ Core!ComputeDrops
      BY <2>2, <2>3 DEF Core!Next, Core!Compute
    <2>4. CASE Unanswered' = Unanswered /\ UNCHANGED responseQueue
      BY <2>2, <2>4 DEF Core!vars, Core!queues, Core!channels
    <2> QED
      BY <1>2, <2>3, <2>4, WorkerIsCore
  <1>3. CASE SysCrash
    BY <1>3, CrashIsCore DEF Core!Next
  <1>4. CASE UNCHANGED sysVars
    <2>1. Unanswered' = Unanswered
      BY <1>4 DEF sysVars, vars, queues, workerVars, Unanswered
    <2> QED
      BY <1>4, <2>1 DEF sysVars, vars, webVars, engineVars, routerVars, channels, queues,
                        storageVars, history, Core!vars, Core!webVars, Core!engineVars,
                        Core!routerVars, Core!channels, Core!queues, Core!storageVars,
                        Core!history
  <1> QED
    BY <1>1, <1>2, <1>3, <1>4 DEF SysNext

(* The core, the broker and the service together do nothing that MangoCore,  *)
(* in which the service is no more than an answer or none, does not allow:   *)
(* what holds of MangoCore with ComputeMayFail holds of the system.          *)
THEOREM SystemImplementsCore == SysSpec => ImplementsCore
  <1>1. SysInit => SysTypeOK /\ Responds /\ Core!Init
    BY SysInitType, InitIsCore DEF SysInit, WorkerInit, Responds
  <1>2. SysTypeOK /\ Responds /\ [SysNext]_sysVars => SysTypeOK' /\ Responds'
    BY SysTypeStep, RespondsStep
  <1> QED
    BY <1>1, <1>2, StepIsCore, PTL DEF SysSpec, ImplementsCore, Core!Spec

-----------------------------------------------------------------------------
(* Where a SUCCESS comes from.                                               *)

(* Taking the first of a queue leaves nothing that was not in it.            *)
LEMMA RangeTaken ==
  ASSUME NEW S, NEW q \in Seq(S), q # << >>
  PROVE  Head(q) \in Range(q) /\ Range(Tail(q)) \subseteq Range(q)
  BY TakenAt DEF Range

(* Adding to a queue adds that element alone.                                *)
LEMMA RangeAdded ==
  ASSUME NEW S, NEW q \in Seq(S), NEW x \in S
  PROVE  Range(Append(q, x)) \subseteq Range(q) \cup {x}
  BY AppendedAt DEF Range

(* Losing the end of a queue adds nothing.                                   *)
LEMMA RangeCut ==
  ASSUME NEW S, NEW q \in Seq(S), NEW n \in 0 .. Len(q)
  PROVE  Range(SubSeq(q, 1, n)) \subseteq Range(q)
  <1>1. Len(q) \in Nat /\ DOMAIN q = 1 .. Len(q)
        /\ \A i \in 1 .. Len(q) : q[i] \in S
    BY LenProperties
  <1>2. /\ SubSeq(q, 1, n) \in Seq(S) /\ Len(SubSeq(q, 1, n)) = n
        /\ \A i \in 1 .. n : SubSeq(q, 1, n)[i] = q[i]
    BY <1>1, SubSeqProperties
  <1>3. DOMAIN SubSeq(q, 1, n) = 1 .. n
    BY <1>2, LenProperties
  <1> QED
    BY <1>1, <1>2, <1>3 DEF Range

(* An empty queue has nothing.                                               *)
LEMMA RangeEmpty == Range(<< >>) = {}
  BY DEF Range

(* A handler that has made its request keeps it.                             *)
LEMMA RequestsStay ==
  ASSUME SysTypeOK, [SysNext]_sysVars, NEW p \in Puts, hpc[p] # "idle"
  PROVE  hpc'[p] # "idle" /\ hreq'[p] = hreq[p]
  <1>0. WebTypeOK /\ p \in Calls
    BY DEF SysTypeOK, TypeOK, Calls
  <1> USE DEF WebTypeOK, Respond
  <1>1. CASE UNCHANGED webVars
    BY <1>1 DEF webVars
  <1>2. CASE \E c \in Calls : Handle(c)
    <2>1. PICK c \in Calls : Handle(c)
      BY <1>2
    <2>2. CASE PutDetection(c) \/ GetDetection(c) \/ MassGetDetection(c) \/ ListDetectors(c)
      <3>1. hpc[c] = "idle"
        BY <2>2 DEF PutDetection, GetDetection, MassGetDetection, ListDetectors
      <3>2. \/ \E code : Respond(c, code) /\ UNCHANGED hreq
            \/ \E msg : CallEngine(c, msg)
        <4>1. CASE PutDetection(c)
          <5>1. CASE RejectPut(c) /\ UNCHANGED hreq
            BY <5>1 DEF RejectPut
          <5>2. CASE \E d \in Detectors : CallEngine(c, DetectionRequest(c, d))
            BY <5>2
          <5> QED
            BY <4>1, <5>1, <5>2 DEF PutDetection
        <4>2. CASE GetDetection(c) \/ MassGetDetection(c) \/ ListDetectors(c)
          BY <4>2 DEF GetDetection, MassGetDetection, ListDetectors
        <4> QED
          BY <2>2, <4>1, <4>2
      <3> QED
        BY <1>0, <3>1, <3>2 DEF CallEngine
    <2>3. CASE SendToEngine(c) \/ TimeOut(c)
      BY <1>0, <2>3 DEF SendToEngine, TimeOut
    <2> QED
      BY <2>1, <2>2, <2>3 DEF Handle, Handlers
  <1>3. CASE Answer
    BY <1>0, <1>3 DEF Answer, ReceiveAnswer
  <1>4. CASE Restart
    BY <1>0, <1>4 DEF Restart, WebRestart
  <1>5. CASE Engine \/ Route \/ Broker \/ WorkerStep \/ SysCrash \/ UNCHANGED sysVars
    BY <1>1, <1>5 DEF Engine, Route, Broker, WorkerStep, SysCrash, BrokerCrash, sysVars, vars
  <1> QED
    BY <1>2, <1>3, <1>4, <1>5 DEF SysNext, CoreNext

(* A request the service has or will get came from the engine's hand.        *)
LEMMA RequestsFlow ==
  ASSUME SysTypeOK, [SysNext]_sysVars
  PROVE  Requests' \subseteq Requests \cup {MassDetectionStatusRequest}
                               \cup {m \in {ecall.msg} : SubmitToCompute}
  <1> USE DEF Requests
  <1>0. /\ computeSink \in Seq(Message) /\ requestQueue \in Seq(Message)
        /\ prefetched \in Seq(Message) /\ rrequest \in Message
        /\ Range(<< >>) = {}
    BY RangeEmpty DEF SysTypeOK, TypeOK, ChannelTypeOK, QueueTypeOK, RouterTypeOK,
                      WorkerTypeOK
  <1>1. CASE UNCHANGED <<computeSink, rrequest, requestQueue, prefetched, wrequest>>
    BY <1>1
  <1>2. CASE CoreNext /\ UNCHANGED workerVars
    <2>0. UNCHANGED <<prefetched, wrequest>>
      BY <1>2 DEF workerVars
    <2>1. CASE (\E c \in Calls : Handle(c)) \/ Answer
      BY <1>1, <2>0, <2>1 DEF Handle, Answer, Reply, channels, routerVars, queues
    <2>2. CASE Engine
      <3>0. UNCHANGED <<rrequest, requestQueue>>
        BY <2>2 DEF Engine, routerVars, queues
      <3>1. CASE SubmitToCompute
        <4>1. ecall.msg \in Message
          BY <3>1 DEF SubmitToCompute, SysTypeOK, TypeOK, EngineTypeOK, ClientToServer
        <4>2. Range(computeSink') \subseteq Range(computeSink) \cup {ecall.msg}
          BY <1>0, <3>1, <4>1, RangeAdded DEF SubmitToCompute
        <4> QED
          BY <2>0, <3>0, <3>1, <4>2
      <3>2. CASE Engine /\ ~SubmitToCompute
        <4>1. UNCHANGED computeSink
          BY <3>2 DEF Engine, TakeCall, RecordPending, Query, TakeUpdate, RecordUpdate,
                      EngineIdle, channels
        <4> QED
          BY <1>1, <2>0, <3>0, <4>1
      <3> QED
        BY <2>2, <3>1, <3>2
    <2>3. CASE Route
      <3>1. CASE TakeRequest
        <4>1. Head(computeSink) \in Range(computeSink)
              /\ Range(Tail(computeSink)) \subseteq Range(computeSink)
          BY <1>0, <3>1, RangeTaken DEF TakeRequest
        <4> QED
          BY <2>0, <3>1, <4>1 DEF TakeRequest, queues
      <3>2. CASE Publish
        <4>1. Range(requestQueue') \subseteq Range(requestQueue) \cup {rrequest}
          BY <1>0, <3>2, RangeAdded DEF Publish
        <4> QED
          BY <2>0, <3>2, <4>1 DEF Publish
      <3>3. CASE PublishFails \/ TakeDelivery \/ TakeFromClosed \/ SinkStatus \/ RouterIdle
        BY <1>1, <2>0, <3>3 DEF PublishFails, TakeDelivery, TakeFromClosed, SinkStatus,
                                RouterIdle, queues, routerVars
      <3> QED
        BY <2>3, <3>1, <3>2, <3>3 DEF Route
    <2>4. CASE Broker
      <3>1. CASE Deliver
        BY <1>1, <2>0, <3>1 DEF Deliver
      <3>2. CASE LoseConnection
        <4>1. Range(requestQueue') \subseteq Range(requestQueue)
          BY <1>0, <3>2, RangeCut DEF LoseConnection
        <4> QED
          BY <2>0, <3>2, <4>1 DEF LoseConnection, RouterCutOff
      <3> QED
        BY <2>4, <3>1, <3>2 DEF Broker
    <2>5. CASE Restart
      BY <1>0, <2>0, <2>5 DEF Restart, ChannelRestart, RouterRestart, queues
    <2> QED
      BY <1>2, <2>1, <2>2, <2>3, <2>4, <2>5 DEF CoreNext
  <1>3. CASE WorkerStep
    <2>0. UNCHANGED <<computeSink, rrequest>>
      BY <1>3 DEF WorkerStep, channels, routerVars
    <2>1. CASE SendToConsumer
      <3>1. /\ Head(requestQueue) \in Range(requestQueue)
            /\ Range(Tail(requestQueue)) \subseteq Range(requestQueue)
        BY <1>0, <2>1, RangeTaken DEF SendToConsumer
      <3>2. Head(requestQueue) \in Message
        BY <1>0, <2>1, Taken DEF SendToConsumer
      <3>3. Range(prefetched') \subseteq Range(prefetched) \cup {Head(requestQueue)}
        BY <1>0, <2>1, <3>2, RangeAdded DEF SendToConsumer
      <3> QED
        BY <2>0, <2>1, <3>1, <3>3 DEF SendToConsumer
    <2>2. CASE TakeFromBroker
      <3>1. Head(prefetched) \in Range(prefetched)
            /\ Range(Tail(prefetched)) \subseteq Range(prefetched)
        BY <1>0, <2>2, RangeTaken DEF TakeFromBroker
      <3> QED
        BY <2>0, <2>2, <3>1 DEF TakeFromBroker, queues
    <2>3. CASE \/ StartWorker \/ LoadDetectors \/ ProcessRequest \/ PublishResponse
               \/ ConsumeFails \/ LoseWorkerConnection \/ KillWorker
      <3>1. UNCHANGED <<wrequest, requestQueue>> /\ prefetched' \in {prefetched, << >>}
        BY <2>3 DEF StartWorker, LoadDetectors, ProcessRequest, PublishResponse,
                    ConsumeFails, LoseWorkerConnection, KillWorker, WorkerCutOff, queues
      <3> QED
        BY <1>0, <2>0, <3>1
    <2> QED
      BY <1>3, <2>1, <2>2, <2>3 DEF WorkerStep, Worker, WorkerRuns
  <1>4. CASE SysCrash
    BY <1>0, <1>4 DEF SysCrash, BrokerCrash, QueuesLost, RouterCutOff, WorkerCutOff, channels
  <1>5. CASE UNCHANGED sysVars
    BY <1>1, <1>5 DEF sysVars, vars, channels, routerVars, queues, workerVars
  <1> QED
    BY <1>2, <1>3, <1>4, <1>5 DEF SysNext

(* A message stays its call's own in the whole system.                       *)
LEMMA SysCallsAreOwn ==
  ASSUME SysTypeOK, CallsAreOwn, [SysNext]_sysVars
  PROVE  CallsAreOwn'
  <1>1. CASE WorkerStep
    BY <1>1 DEF WorkerStep, webVars, engineVars, channels, CallsAreOwn, Own
  <1>2. [Next]_vars \/ WorkerStep
    BY DEF SysNext, Next, SysCrash, sysVars
  <1> QED
    BY <1>1, <1>2, CallsAreOwnStep DEF SysTypeOK

(* What a request asks for stays what its client asked for.                  *)
LEMMA AsksStays ==
  ASSUME SysTypeOK, [SysNext]_sysVars, NEW m, Asks(m)
  PROVE  m.id \in Puts => hpc'[m.id] # "idle" /\ m.detector = hreq'[m.id].detector
  BY RequestsStay DEF Asks

(* A call comes into the engine's feed from its handler, and into the        *)
(* engine's hand from the feed.                                              *)
LEMMA CallsFlow ==
  ASSUME SysTypeOK, [SysNext]_sysVars
  PROVE  /\ \A i \in DOMAIN engineFeed' :
              \/ \E j \in DOMAIN engineFeed : engineFeed'[i] = engineFeed[j]
              \/ \E c \in Calls : /\ engineFeed'[i] = [ret |-> c, msg |-> hreq[c]]
                                  /\ hpc[c] = "sending"
         /\ \/ ecall' \in {ecall, NoCall}
            \/ \E j \in DOMAIN engineFeed : ecall' = engineFeed[j]
  <1>0. engineFeed \in Seq(ClientToServer) /\ WebTypeOK
    BY DEF SysTypeOK, TypeOK, ChannelTypeOK
  <1>1. CASE UNCHANGED <<engineFeed, ecall>>
    BY <1>1
  <1>2. CASE \E c \in Calls : Handle(c)
    <2>1. PICK c \in Calls : Handle(c)
      BY <1>2
    <2>2. UNCHANGED ecall
      BY <2>1 DEF Handle, engineVars
    <2>3. CASE SendToEngine(c)
      <3> DEFINE cts == [ret |-> c, msg |-> hreq[c]]
      <3>1. cts \in ClientToServer
        BY <1>0 DEF WebTypeOK, ClientToServer
      <3>2. engineFeed' = Append(engineFeed, cts) /\ hpc[c] = "sending"
        BY <2>3 DEF SendToEngine
      <3>3. \A i \in DOMAIN engineFeed' : \/ i \in DOMAIN engineFeed
                                             /\ engineFeed'[i] = engineFeed[i]
                                         \/ engineFeed'[i] = cts
        <4> HIDE DEF cts
        <4> QED
          BY <1>0, <3>1, <3>2, AppendedAt
      <3> QED
        BY <2>2, <3>2, <3>3
    <2>4. CASE ~SendToEngine(c)
      <3>1. UNCHANGED engineFeed
        BY <2>1, <2>4 DEF Handle, Handlers, PutDetection, RejectPut, GetDetection,
                          MassGetDetection, ListDetectors, TimeOut, CallEngine
      <3> QED
        BY <1>1, <2>2, <3>1
    <2> QED
      BY <2>3, <2>4
  <1>3. CASE Answer
    BY <1>3 DEF Answer, Reply, channels
  <1>4. CASE Engine
    <2>1. CASE TakeCall
      <3>1. engineFeed # << >>
        BY <2>1 DEF TakeCall
      <3>2. /\ 1 \in DOMAIN engineFeed /\ Head(engineFeed) = engineFeed[1]
            /\ \A i \in DOMAIN Tail(engineFeed) :
                 /\ i + 1 \in DOMAIN engineFeed
                 /\ Tail(engineFeed)[i] = engineFeed[i + 1]
        BY <1>0, <3>1, TakenAt
      <3> QED
        BY <2>1, <3>2 DEF TakeCall
    <2>2. CASE Engine /\ ~TakeCall
      BY <1>1, <2>2 DEF Engine, SubmitToCompute, RecordPending, Query, TakeUpdate,
                        RecordUpdate, EngineIdle, channels, engineVars
    <2> QED
      BY <1>4, <2>1, <2>2
  <1>5. CASE Route \/ Broker
    BY <1>1, <1>5 DEF Route, Broker, engineVars
  <1>6. CASE Restart
    <2>1. DOMAIN << >> = {}
      OBVIOUS
    <2> QED
      BY <1>6, <2>1 DEF Restart, ChannelRestart, EngineRestart
  <1>7. CASE WorkerStep \/ SysCrash \/ UNCHANGED sysVars
    BY <1>1, <1>7 DEF WorkerStep, SysCrash, BrokerCrash, sysVars, vars, channels, engineVars
  <1> QED
    BY <1>2, <1>3, <1>4, <1>5, <1>6, <1>7 DEF SysNext, CoreNext

(* Every request on its way names the detector its client named.             *)
LEMMA RequestsAreAskedStep ==
  ASSUME SysTypeOK, CallsAreOwn, RequestsAreAsked, [SysNext]_sysVars
  PROVE  RequestsAreAsked'
  <1>0. NilId \notin Puts
    BY CallAssumption DEF Calls
  <1>1. \A m \in Requests' : Asks(m)'
    <2> SUFFICES ASSUME NEW m \in Requests' PROVE Asks(m)'
      OBVIOUS
    <2>1. CASE m = MassDetectionStatusRequest
      BY <1>0, <2>1 DEF Asks, MassDetectionStatusRequest
    <2>2. CASE m \in Requests
      BY <2>2, AsksStays DEF RequestsAreAsked, Asks
    <2>3. CASE SubmitToCompute /\ m = ecall.msg
      <3>1. ecall.ret \in Puts
        BY <2>3 DEF SubmitToCompute, SysTypeOK, TypeOK, EngineTypeOK, CallsAreOwn, Own
      <3> QED
        BY <2>3, <3>1, AsksStays DEF RequestsAreAsked, Asks
    <2> QED
      BY <2>1, <2>2, <2>3, RequestsFlow
  <1>2. ASSUME NEW c \in Puts, hpc[c] = "sending"
        PROVE  Asks(hreq[c])'
    <2>1. Own(c, hreq[c])
      BY <1>2 DEF CallsAreOwn, Calls
    <2>2. hpc'[c] # "idle" /\ hreq'[c] = hreq[c]
      BY <1>2, RequestsStay
    <2> QED
      BY <2>1, <2>2 DEF Own, Asks
  <1>3. ASSUME NEW m, Asks(m)
        PROVE  Asks(m)'
    BY <1>3, AsksStays DEF Asks
  <1>4. \A i \in DOMAIN engineFeed' :
          engineFeed'[i].ret \in Puts => Asks(engineFeed[i].msg)'
    <2> SUFFICES ASSUME NEW i \in DOMAIN engineFeed', engineFeed'[i].ret \in Puts
                 PROVE  Asks(engineFeed[i].msg)'
      OBVIOUS
    <2>1. CASE \E j \in DOMAIN engineFeed : engineFeed'[i] = engineFeed[j]
      <3>1. PICK j \in DOMAIN engineFeed : engineFeed'[i] = engineFeed[j]
        BY <2>1
      <3>2. Asks(engineFeed[j].msg)
        BY <3>1 DEF RequestsAreAsked
      <3> QED
        BY <3>1, <3>2, AsksStays DEF Asks
    <2>2. CASE \E c \in Calls : /\ engineFeed'[i] = [ret |-> c, msg |-> hreq[c]]
                                /\ hpc[c] = "sending"
      <3>1. PICK c \in Calls : /\ engineFeed'[i] = [ret |-> c, msg |-> hreq[c]]
                               /\ hpc[c] = "sending"
        BY <2>2
      <3>2. c \in Puts /\ engineFeed'[i].msg = hreq[c]
        BY <3>1
      <3>3. hreq'[c] = hreq[c]
        BY <3>1, <3>2, RequestsStay
      <3> QED
        BY <1>2, <3>1, <3>2, <3>3 DEF Asks
    <2> QED
      BY <2>1, <2>2, CallsFlow
  <1>5. ecall'.ret \in Puts => Asks(ecall.msg)'
    <2>1. CASE ecall' = ecall
      BY <2>1, AsksStays DEF RequestsAreAsked, Asks
    <2>2. CASE ecall' = NoCall
      BY <1>0, <2>2 DEF NoCall
    <2>3. CASE \E j \in DOMAIN engineFeed : ecall' = engineFeed[j]
      BY <2>3, AsksStays DEF RequestsAreAsked, Asks
    <2> QED
      BY <2>1, <2>2, <2>3, CallsFlow
  <1> QED
    BY <1>1, <1>4, <1>5 DEF RequestsAreAsked

(* What comes back is what process_request returned, or names no request.    *)
LEMMA ResponsesFlow ==
  ASSUME SysTypeOK, [SysNext]_sysVars
  PROVE  Responses' \subseteq Responses \cup {Failure, Garbled}
                                \cup {s \in {wresponse'} : WorkerStep /\ ProcessRequest}
  <1> USE DEF Responses
  <1>0. /\ responseQueue \in Seq(DetectionStatus) /\ rFeed \in Seq(DetectionStatus)
        /\ computeFeed \in Seq(DetectionStatus) /\ rstatus \in DetectionStatus
        /\ wresponse \in DetectionStatus /\ Range(<< >>) = {}
    BY RangeEmpty DEF SysTypeOK, TypeOK, ChannelTypeOK, QueueTypeOK, RouterTypeOK,
                      WorkerTypeOK
  <1>1. CASE UNCHANGED <<wresponse, responseQueue, rFeed, rstatus, computeFeed, eupdate>>
    BY <1>1
  <1>2. CASE CoreNext /\ UNCHANGED workerVars
    <2>0. UNCHANGED wresponse
      BY <1>2 DEF workerVars
    <2>1. CASE (\E c \in Calls : Handle(c)) \/ Answer
      BY <1>1, <2>0, <2>1 DEF Handle, Answer, Reply, channels, routerVars, queues,
                              engineVars
    <2>2. CASE Engine
      <3>0. UNCHANGED <<responseQueue, rFeed, rstatus>>
        BY <2>2 DEF Engine, routerVars, queues
      <3>1. CASE TakeUpdate
        <4>1. Head(computeFeed) \in Range(computeFeed)
              /\ Range(Tail(computeFeed)) \subseteq Range(computeFeed)
          BY <1>0, <3>1, RangeTaken DEF TakeUpdate
        <4> QED
          BY <2>0, <3>0, <3>1, <4>1 DEF TakeUpdate
      <3>2. CASE RecordUpdate
        BY <2>0, <3>0, <3>2 DEF RecordUpdate, channels
      <3>3. CASE TakeCall \/ SubmitToCompute \/ RecordPending \/ Query \/ EngineIdle
        BY <1>1, <2>0, <3>0, <3>3 DEF TakeCall, SubmitToCompute, RecordPending, Query,
                                      EngineIdle, channels, engineVars
      <3> QED
        BY <2>2, <3>1, <3>2, <3>3 DEF Engine
    <2>3. CASE Route
      <3>0. UNCHANGED eupdate
        BY <2>3 DEF Route, engineVars
      <3>1. CASE TakeDelivery
        <4>1. Head(rFeed) \in Range(rFeed) /\ Range(Tail(rFeed)) \subseteq Range(rFeed)
          BY <1>0, <3>1, RangeTaken DEF TakeDelivery
        <4>2. rstatus' \in {Head(rFeed), Failure}
          BY <3>1 DEF TakeDelivery, Unmarshal
        <4> QED
          BY <2>0, <3>0, <3>1, <4>1, <4>2 DEF TakeDelivery, queues
      <3>2. CASE SinkStatus
        <4>1. Range(computeFeed') \subseteq Range(computeFeed) \cup {rstatus}
          BY <1>0, <3>2, RangeAdded DEF SinkStatus
        <4> QED
          BY <2>0, <3>0, <3>2, <4>1 DEF SinkStatus, queues
      <3>3. CASE PublishFails \/ TakeFromClosed
        <4>1. rstatus' = Failure /\ UNCHANGED <<rFeed, computeFeed, responseQueue>>
          BY <3>3 DEF PublishFails, TakeFromClosed, Unmarshal, queues
        <4> QED
          BY <2>0, <3>0, <4>1
      <3>4. CASE TakeRequest \/ Publish \/ RouterIdle
        BY <1>1, <2>0, <3>0, <3>4 DEF TakeRequest, Publish, RouterIdle, queues, routerVars
      <3> QED
        BY <2>3, <3>1, <3>2, <3>3, <3>4 DEF Route
    <2>4. CASE Broker
      <3>0. UNCHANGED eupdate
        BY <2>4 DEF Broker, engineVars
      <3>1. CASE Deliver
        <4>1. /\ Head(responseQueue) \in Range(responseQueue)
              /\ Range(Tail(responseQueue)) \subseteq Range(responseQueue)
          BY <1>0, <3>1, RangeTaken DEF Deliver
        <4>2. Head(responseQueue) \in DetectionStatus
          BY <1>0, <3>1, Taken DEF Deliver
        <4>3. Range(rFeed') \subseteq Range(rFeed) \cup {Head(responseQueue)}
          BY <1>0, <3>1, <4>2, RangeAdded DEF Deliver
        <4> QED
          BY <2>0, <3>0, <3>1, <4>1, <4>3 DEF Deliver
      <3>2. CASE LoseConnection
        BY <1>0, <2>0, <3>0, <3>2 DEF LoseConnection, RouterCutOff
      <3> QED
        BY <2>4, <3>1, <3>2 DEF Broker
    <2>5. CASE Restart
      BY <1>0, <2>0, <2>5 DEF Restart, ChannelRestart, EngineRestart, RouterRestart, queues
    <2> QED
      BY <1>2, <2>1, <2>2, <2>3, <2>4, <2>5 DEF CoreNext
  <1>3. CASE WorkerStep
    <2>0. UNCHANGED <<rFeed, rstatus, computeFeed, eupdate>>
      BY <1>3 DEF WorkerStep, channels, routerVars, engineVars
    <2>1. CASE ProcessRequest
      BY <1>3, <2>0, <2>1 DEF ProcessRequest, queues
    <2>2. CASE PublishResponse
      <3>1. Range(responseQueue') \subseteq Range(responseQueue) \cup {wresponse}
        BY <1>0, <2>2, RangeAdded DEF PublishResponse
      <3> QED
        BY <2>0, <2>2, <3>1 DEF PublishResponse
    <2>3. CASE \/ StartWorker \/ LoadDetectors \/ SendToConsumer \/ TakeFromBroker
               \/ ConsumeFails \/ LoseWorkerConnection \/ KillWorker
      BY <1>1, <2>0, <2>3 DEF StartWorker, LoadDetectors, SendToConsumer, TakeFromBroker,
                              ConsumeFails, LoseWorkerConnection, KillWorker, queues
    <2> QED
      BY <1>3, <2>1, <2>2, <2>3 DEF WorkerStep, Worker, WorkerRuns
  <1>4. CASE SysCrash
    BY <1>0, <1>4 DEF SysCrash, BrokerCrash, QueuesLost, RouterCutOff, channels, engineVars
  <1>5. CASE UNCHANGED sysVars
    BY <1>1, <1>5 DEF sysVars, vars, channels, engineVars, routerVars, queues, workerVars
  <1> QED
    BY <1>2, <1>3, <1>4, <1>5 DEF SysNext

(* Until the service is started a second time no detector it has is lost.    *)
LEMMA LoadsFirstStep ==
  ASSUME SysTypeOK, LoadsFirst, [SysNext]_sysVars
  PROVE  /\ LoadsFirst'
         /\ starts' \in {0, 1} => starts \in {0, 1} /\ loaded \subseteq loaded'
  <1>0. starts \in Nat
    BY DEF SysTypeOK, WorkerTypeOK
  <1> USE DEF LoadsFirst
  <1>1. CASE UNCHANGED <<wpc, loaded, starts>>
    BY <1>1
  <1>2. CASE WorkerStep
    <2>1. CASE StartWorker
      BY <1>0, <2>1 DEF StartWorker
    <2>2. CASE LoadDetectors
      BY <1>0, <2>2 DEF LoadDetectors
    <2>3. CASE \/ SendToConsumer \/ WorkerRuns \/ LoseWorkerConnection
      <3>1. UNCHANGED <<loaded, starts>>
        BY <2>3 DEF SendToConsumer, WorkerRuns, TakeFromBroker, ProcessRequest,
                    PublishResponse, ConsumeFails, LoseWorkerConnection
      <3>2. wpc' = wpc \/ (wpc \notin {"down", "loading"} /\ wpc' # "loading")
        BY <2>3 DEF SendToConsumer, WorkerRuns, TakeFromBroker, ProcessRequest,
                    PublishResponse, ConsumeFails, LoseWorkerConnection
      <3> QED
        BY <1>0, <3>1, <3>2
    <2>4. CASE KillWorker
      BY <1>0, <2>4 DEF KillWorker
    <2> QED
      BY <1>2, <2>1, <2>2, <2>3, <2>4 DEF WorkerStep, Worker
  <1> QED
    BY <1>1, <1>2 DEF SysNext, SysCrash, workerVars, sysVars

(* A request whose detector was loaded stays one.                            *)
LEMMA ServedStays ==
  ASSUME SysTypeOK, LoadsFirst, [SysNext]_sysVars, starts' \in {0, 1},
         NEW p \in Puts, Served(p)
  PROVE  Served(p)'
  BY RequestsStay, LoadsFirstStep DEF Served

(* No step of the system stores a SUCCESS but the engine's, from its update. *)
LEMMA SuccessIsUpdate ==
  ASSUME SysTypeOK, [SysNext]_sysVars, NEW p \in Puts, table'[p].status = "SUCCESS"
  PROVE  \/ table[p].status = "SUCCESS"
         \/ eupdate.id = p /\ eupdate.status = "SUCCESS"
  <1>0. p \in Ids /\ TypeOK
    BY DEF Ids, SysTypeOK
  <1>1. CASE UNCHANGED storageVars
    BY <1>1 DEF storageVars
  <1>2. CASE RecordPending /\ UpdStatus(Status(ecall.msg.id, "PENDING"))
    <2>1. Status(ecall.msg.id, "PENDING").status # "SUCCESS"
      BY DEF Status
    <2> QED
      BY <1>0, <1>2, <2>1 DEF UpdStatus, Upsert, TypeOK, StorageTypeOK, storageVars
  <1>3. CASE RecordUpdate /\ UpdStatus(eupdate)
    BY <1>0, <1>3 DEF UpdStatus, Upsert, TypeOK, StorageTypeOK, storageVars
  <1>4. [Next]_vars \/ UNCHANGED storageVars
    BY DEF SysNext, Next, SysCrash, sysVars, WorkerStep
  <1> QED
    BY <1>0, <1>1, <1>2, <1>3, <1>4, OnlyEngineWrites

(* What comes back as SUCCESS was made of a request by a detector that was   *)
(* loaded, and stays that until it is in the table.                          *)
LEMMA SuccessIsServedStep ==
  ASSUME SysTypeOK, RequestsAreAsked, LoadsFirst, SuccessIsServed, [SysNext]_sysVars
  PROVE  SuccessIsServed'
  <1> SUFFICES ASSUME starts' \in {0, 1}
               PROVE  /\ \A s \in Responses' :
                           s.id \in Puts /\ s.status = "SUCCESS" => Served(s.id)'
                      /\ \A p \in Puts : table'[p].status = "SUCCESS" => Served(p)'
    BY DEF SuccessIsServed
  <1>0. NilId \notin Puts /\ starts \in {0, 1}
    BY CallAssumption, LoadsFirstStep DEF Calls
  <1>1. ASSUME NEW s \in Responses', s.id \in Puts, s.status = "SUCCESS"
        PROVE  Served(s.id)'
    <2>1. CASE s \in Responses
      <3>1. Served(s.id)
        BY <1>0, <1>1, <2>1 DEF SuccessIsServed
      <3> QED
        BY <1>1, <3>1, ServedStays DEF Served
    <2>2. CASE s \in {Failure, Garbled}
      BY <1>0, <1>1, <2>2 DEF Failure, Garbled, Status
    <2>3. CASE ProcessRequest /\ s = wresponse'
      <3>1. wrequest \in Message /\ UNCHANGED loaded
        BY <2>3 DEF SysTypeOK, WorkerTypeOK, ProcessRequest
      <3>2. CASE wresponse' \in process_request(wrequest)
        <4>0. Status(wrequest.id, "FAILED").status # "SUCCESS" /\ Garbled.status # "SUCCESS"
          BY DEF Status, Garbled
        <4>1. s = Status(wrequest.id, "SUCCESS")
          BY <1>1, <2>3, <3>1, <3>2, <4>0, ProcessAnswers
        <4>2. s.id = wrequest.id /\ wrequest.detector \in loaded
          BY <2>3, <3>1, <3>2, <4>1, ProcessAnswers DEF Status
        <4>3. Asks(wrequest)
          BY DEF RequestsAreAsked, Requests
        <4>4. Served(s.id)
          BY <1>1, <4>2, <4>3 DEF Asks, Served
        <4> QED
          BY <1>1, <4>4, ServedStays DEF Served
      <3>3. CASE UNCHANGED wresponse
        <4>1. s \in Responses
          BY <2>3, <3>3 DEF Responses
        <4> QED
          BY <2>1, <4>1
      <3> QED
        BY <2>3, <3>2, <3>3 DEF ProcessRequest
    <2> QED
      BY <1>1, <2>1, <2>2, <2>3, ResponsesFlow
  <1>2. ASSUME NEW p \in Puts, table'[p].status = "SUCCESS"
        PROVE  Served(p)'
    <2>1. Served(p)
      BY <1>0, <1>2, SuccessIsUpdate DEF SuccessIsServed, Responses
    <2> QED
      BY <2>1, ServedStays DEF Served
  <1> QED
    BY <1>1, <1>2

(* SourceInv holds at the start, and every step keeps it.                    *)
LEMMA SourceInit == SysInit => SourceInv
  <1> SUFFICES ASSUME SysInit PROVE SourceInv
    OBVIOUS
  <1>0. NilId \notin Calls /\ NilId \notin Puts /\ Range(<< >>) = {} /\ DOMAIN << >> = {}
    BY CallAssumption, RangeEmpty DEF Calls
  <1> USE DEF SysInit, Init, StorageInit, WebInit, EngineInit, ChannelInit, RouterInit,
              QueueInit, WorkerInit
  <1>1. CallsAreOwn
    BY <1>0 DEF CallsAreOwn
  <1>2. RequestsAreAsked
    <2>1. \A m \in Requests : m = MassDetectionStatusRequest
      BY <1>0 DEF Requests
    <2>2. Asks(MassDetectionStatusRequest)
      BY <1>0 DEF Asks, MassDetectionStatusRequest
    <2>3. ecall.ret \notin Puts /\ DOMAIN engineFeed = {}
      BY <1>0 DEF NoCall
    <2> QED
      BY <2>1, <2>2, <2>3 DEF RequestsAreAsked
  <1>3. LoadsFirst /\ Responds
    BY DEF LoadsFirst, Responds
  <1>4. SuccessIsServed
    <2>1. \A s \in Responses : s = Failure
      BY <1>0 DEF Responses
    <2> QED
      BY <1>0, <2>1 DEF SuccessIsServed, Failure, Status, NoRow, Ids
  <1> QED
    BY <1>1, <1>2, <1>3, <1>4, SysInitType DEF SourceInv

(* Every step keeps where a SUCCESS comes from.                              *)
LEMMA SourceStep == SourceInv /\ [SysNext]_sysVars => SourceInv'
  BY SysTypeStep, SysCallsAreOwn, RequestsAreAskedStep, LoadsFirstStep,
     SuccessIsServedStep, RespondsStep
  DEF SourceInv

(* SourceInv holds in every reachable state of the system.                   *)
THEOREM SourceInvariance == SysSpec => []SourceInv
  BY SourceInit, SourceStep, PTL DEF SysSpec

(* A SUCCESS in the core's table comes from the detector that the client     *)
(* named: with one start of the service, it is among those it loaded.        *)
THEOREM SuccessComesFromDetector == SysSpec => []SuccessNeedsDetector
  <1>1. SourceInv => SuccessNeedsDetector
    BY DEF SourceInv, SuccessIsServed, Served, SuccessNeedsDetector
  <1> QED
    BY <1>1, SourceInvariance, PTL

-----------------------------------------------------------------------------
(* The safety of the core in the whole system.  A step of the system is one  *)
(* of MangoCore over the real queues, or one of the service alone.           *)

(* Only the service's own steps are none of the core.                        *)
LEMMA CoreOrWorker ==
  ASSUME [SysNext]_sysVars
  PROVE  [Next]_vars \/ WorkerStep
  BY DEF SysNext, Next, SysCrash, sysVars

(* What the service does the engine, its channels and the table do not see.  *)
LEMMA WorkerLeavesCore ==
  ASSUME WorkerStep
  PROVE  /\ UNCHANGED <<webVars, engineVars, routerVars, channels, storageVars, told>>
         /\ \A c \in Puts : NotSubmitted(c)' <=> NotSubmitted(c)
  BY DEF WorkerStep, history, webVars, engineVars, channels, NotSubmitted, NotSent, InFeed

(* What the service takes from one queue was in it, and what it puts into    *)
(* the other answers the request it holds.                                   *)
LEMMA WorkerNames ==
  ASSUME SysTypeOK, Responds, WorkerStep
  PROVE  /\ Named(requestQueue') \subseteq Named(requestQueue)
         /\ Named(prefetched') \subseteq Named(prefetched) \cup Named(requestQueue)
         /\ Named(responseQueue') \subseteq Named(responseQueue) \cup {NilId}
                                      \cup {id \in {wrequest.id} : wpc = "publish"}
         /\ \/ responseQueue' = responseQueue
            \/ responseQueue' = Append(responseQueue, wresponse) /\ wpc = "publish"
         /\ Serving' => \/ Serving /\ wrequest' = wrequest
                        \/ wrequest'.id \in Named(prefetched)
  <1> USE DEF Serving
  <1>0. /\ requestQueue \in Seq(Message) /\ prefetched \in Seq(Message)
        /\ responseQueue \in Seq(DetectionStatus) /\ wresponse \in DetectionStatus
    BY DEF SysTypeOK, TypeOK, QueueTypeOK, WorkerTypeOK
  <1>1. CASE SendToConsumer
    <2>1. /\ Head(requestQueue) \in Message
          /\ Head(requestQueue).id \in Named(requestQueue)
          /\ Named(Tail(requestQueue)) \subseteq Named(requestQueue)
      BY <1>0, <1>1, Taken, NamedTaken DEF SendToConsumer
    <2>2. Named(prefetched') \subseteq Named(prefetched) \cup {Head(requestQueue).id}
      BY <1>0, <1>1, <2>1, NamedAdded DEF SendToConsumer
    <2> QED
      BY <1>1, <2>1, <2>2 DEF SendToConsumer
  <1>2. CASE TakeFromBroker
    <2>1. /\ Head(prefetched).id \in Named(prefetched)
          /\ Named(Tail(prefetched)) \subseteq Named(prefetched)
      BY <1>0, <1>2, NamedTaken DEF TakeFromBroker
    <2> QED
      BY <1>2, <2>1 DEF TakeFromBroker, queues
  <1>3. CASE PublishResponse
    <2>1. UNCHANGED <<requestQueue, wrequest>> /\ wpc' \notin {"working", "publish"}
      BY <1>3 DEF PublishResponse
    <2>2. Named(prefetched') \subseteq Named(prefetched)
      BY <1>3, NamedEmpty DEF PublishResponse
    <2>3. wpc = "publish" /\ wresponse.id \in {wrequest.id, NilId}
      BY <1>3 DEF PublishResponse, Responds, Status, Garbled
    <2>4. responseQueue' \in {responseQueue, Append(responseQueue, wresponse)}
      BY <1>3 DEF PublishResponse
    <2>5. Named(Append(responseQueue, wresponse))
            \subseteq Named(responseQueue) \cup {wresponse.id}
      BY <1>0, NamedAdded
    <2> QED
      BY <2>1, <2>2, <2>3, <2>4, <2>5
  <1>4. CASE StartWorker \/ LoadDetectors \/ ProcessRequest \/ ConsumeFails
             \/ LoseWorkerConnection \/ KillWorker
    <2>1. UNCHANGED <<queues, wrequest>> /\ prefetched' \in {prefetched, << >>}
      BY <1>4 DEF StartWorker, LoadDetectors, ProcessRequest, ConsumeFails,
                  LoseWorkerConnection, KillWorker, WorkerCutOff
    <2>2. wpc' \in {"working", "publish"} => wpc \in {"working", "publish"}
      BY <1>4 DEF StartWorker, LoadDetectors, ProcessRequest, ConsumeFails,
                  LoseWorkerConnection, KillWorker
    <2> QED
      BY <2>1, <2>2, NamedEmpty DEF queues
  <1> QED
    BY <1>1, <1>2, <1>3, <1>4 DEF WorkerStep, Worker, WorkerRuns

(* The service never has a request that the engine has not submitted.        *)
LEMMA FreshIsNotServedStep ==
  ASSUME SysCoreInv, [SysNext]_sysVars
  PROVE  FreshIsNotServed'
  <1> SUFFICES ASSUME NEW c \in Puts, NotSubmitted(c)'
               PROVE  /\ c \notin Named(prefetched')
                      /\ Serving' => wrequest'.id # c
    BY DEF FreshIsNotServed
  <1>1. NotSubmitted(c)
    BY SubmittedForGood, WorkerLeavesCore, CoreOrWorker DEF SysCoreInv, CoreInv
  <1>2. /\ c \notin Named(prefetched) /\ c \notin Named(requestQueue)
        /\ Serving => wrequest.id # c
    BY <1>1 DEF SysCoreInv, CoreInv, FreshIsNotServed, FreshHasNoTrace, OnTheWay
  <1>3. CASE WorkerStep
    BY <1>2, <1>3, WorkerNames DEF SysCoreInv
  <1>4. CASE SysCrash
    BY <1>2, <1>4, NamedEmpty DEF SysCrash, WorkerCutOff, Serving
  <1>5. CASE UNCHANGED workerVars
    BY <1>2, <1>5 DEF workerVars, Serving
  <1> QED
    BY <1>3, <1>4, <1>5 DEF SysNext, sysVars

(* Without a detector that fails to load, process_request has what it needs. *)
LEMMA ServesAcceptedStep ==
  ASSUME SysCoreInv, [SysNext]_sysVars
  PROVE  ServesAccepted'
  <1>0. /\ prefetched \in Seq(Message) /\ requestQueue \in Seq(Message)
        /\ wrequest \in Message /\ ServesAccepted /\ AllAccepted(requestQueue)
    BY DEF SysCoreInv, SysTypeOK, TypeOK, QueueTypeOK, WorkerTypeOK, CoreInv, OnlyAccepted
  <1>1. AllAccepted(<< >>)
    BY DEF AllAccepted
  <1> USE DEF ServesAccepted, Serving
  <1>2. CASE UNCHANGED <<wpc, wrequest, wresponse, loaded>>
             /\ prefetched' \in {prefetched, << >>}
    BY <1>0, <1>1, <1>2
  <1>3. CASE WorkerStep
    <2>1. CASE StartWorker \/ ConsumeFails \/ LoseWorkerConnection \/ KillWorker
      BY <1>0, <1>1, <2>1 DEF StartWorker, ConsumeFails, LoseWorkerConnection, KillWorker,
                              WorkerCutOff
    <2>2. CASE LoadDetectors
      <3>1. ~ComputeMayFail => ListedDetectors \subseteq loaded'
        BY <2>2 DEF LoadDetectors
      <3>2. prefetched' \in {prefetched, << >>} /\ wpc' \in {"waiting", "dead", "down"}
        BY <2>2 DEF LoadDetectors
      <3> QED
        BY <1>0, <1>1, <3>1, <3>2
    <2>3. CASE SendToConsumer
      <3>1. Accepted(Head(requestQueue)) /\ Head(requestQueue) \in Message
        BY <1>0, <2>3, AcceptedTaken, Taken DEF SendToConsumer
      <3>2. AllAccepted(prefetched')
        BY <1>0, <2>3, <3>1, AcceptedAdded DEF SendToConsumer
      <3> QED
        BY <1>0, <2>3, <3>2 DEF SendToConsumer
    <2>4. CASE TakeFromBroker
      <3>1. Accepted(wrequest') /\ AllAccepted(prefetched')
        BY <1>0, <2>4, AcceptedTaken DEF TakeFromBroker
      <3> QED
        BY <1>0, <2>4, <3>1 DEF TakeFromBroker
    <2>5. CASE ProcessRequest
      <3>1. ~ComputeMayFail => wresponse' = Status(wrequest.id, "SUCCESS")
        BY <1>0, <2>5 DEF ProcessRequest, process_request, Accepted
      <3> QED
        BY <1>0, <2>5, <3>1 DEF ProcessRequest, Status
    <2>6. CASE PublishResponse
      BY <1>0, <1>1, <2>6 DEF PublishResponse
    <2> QED
      BY <1>3, <2>1, <2>2, <2>3, <2>4, <2>5, <2>6 DEF WorkerStep, Worker, WorkerRuns
  <1> QED
    BY <1>2, <1>3 DEF SysNext, SysCrash, WorkerCutOff, workerVars, sysVars

(* The service keeps the core's invariant.                                   *)
LEMMA CoreInvOfWorker ==
  ASSUME SysCoreInv, WorkerStep
  PROVE  CoreInv'
  <1>0. CoreInv /\ TypeOK' /\ SysTypeOK /\ Responds /\ ServesAccepted
    BY WorkerType DEF SysCoreInv, SysTypeOK
  <1>1. /\ UNCHANGED <<webVars, engineVars, routerVars, channels, storageVars>>
        /\ \A c \in Puts : NotSubmitted(c)' <=> NotSubmitted(c)
    BY WorkerLeavesCore
  <1>2. CallsAreOwn' /\ OneTurn'
    BY <1>0, <1>1 DEF CoreInv, CallsAreOwn, Own, OneTurn, NotSent, InFeed, InHand,
                      webVars, engineVars, channels
  <1>3. RecordIsFirst' /\ StoredBeforeTold' /\ AckedIsStored'
    BY <1>0, <1>1 DEF CoreInv, RecordIsFirst, StoredBeforeTold, AckedIsStored,
                      webVars, engineVars, storageVars
  <1>4. ResultsAreFinal'
    <2>1. Results(responseQueue')
      <3>1. wpc = "publish" => IsResult(wresponse)
        BY <1>0 DEF Responds, ServesAccepted, IsResult, Status, Garbled
      <3>2. responseQueue \in Seq(DetectionStatus) /\ wresponse \in DetectionStatus
        BY <1>0 DEF SysTypeOK, TypeOK, QueueTypeOK, WorkerTypeOK
      <3>3. Results(responseQueue)
        BY <1>0 DEF CoreInv, ResultsAreFinal
      <3> QED
        BY <1>0, <3>1, <3>2, <3>3, WorkerNames, ResultsAdded
    <2>2. UNCHANGED <<rFeed, computeFeed, rstatus, eupdate>>
      BY <1>1 DEF routerVars, channels, engineVars
    <2> QED
      BY <1>0, <2>1, <2>2 DEF CoreInv, ResultsAreFinal
  <1>5. FreshHasNoTrace'
    <2> SUFFICES ASSUME NEW c \in Puts, NotSubmitted(c)
                 PROVE  table'[c] = NoRow /\ c \notin OnTheWay'
      BY <1>1 DEF FreshHasNoTrace
    <2>1. /\ table[c] = NoRow /\ c \notin OnTheWay /\ c # NilId
          /\ wpc = "publish" => wrequest.id # c
      BY CallAssumption DEF SysCoreInv, CoreInv, FreshHasNoTrace, FreshIsNotServed, Serving,
                            Calls
    <2>2. /\ Named(requestQueue') \subseteq Named(requestQueue)
          /\ c \notin Named(responseQueue) => c \notin Named(responseQueue')
      BY <1>0, <2>1, WorkerNames
    <2>3. UNCHANGED <<computeSink, rFeed, computeFeed, rpc, rrequest, rstatus, epc,
                      eupdate, table>>
      BY <1>1 DEF routerVars, channels, engineVars, storageVars
    <2> QED
      BY <2>1, <2>2, <2>3 DEF OnTheWay
  <1>6. OnlyAccepted'
    <2>1. requestQueue \in Seq(Message) /\ AllAccepted(requestQueue)
      BY <1>0 DEF CoreInv, TypeOK, QueueTypeOK, OnlyAccepted
    <2>2. \/ requestQueue' = requestQueue
          \/ requestQueue # << >> /\ requestQueue' = Tail(requestQueue)
      BY DEF WorkerStep, Worker, WorkerRuns, StartWorker, LoadDetectors, SendToConsumer,
             TakeFromBroker, ProcessRequest, PublishResponse, ConsumeFails,
             LoseWorkerConnection, KillWorker, queues
    <2>3. AllAccepted(requestQueue')
      BY <2>1, <2>2, AcceptedTaken
    <2> QED
      BY <1>0, <1>1, <2>3 DEF CoreInv, OnlyAccepted, webVars, engineVars, routerVars,
                              channels
  <1> QED
    BY <1>0, <1>2, <1>3, <1>4, <1>5, <1>6 DEF CoreInv

(* SysCoreInv holds at the start, and every step keeps it.                   *)
LEMMA SysCoreInit == SysInit => SysCoreInv
  BY SysInitType, InvInit, NamedEmpty
  DEF SysInit, WorkerInit, SysCoreInv, Responds, FreshIsNotServed, ServesAccepted, Serving,
      AllAccepted

(* A step of the core keeps it by InvStep, one of the service by the above.  *)
LEMMA SysCoreStep ==
  ASSUME SysCoreInv, [SysNext]_sysVars
  PROVE  SysCoreInv'
  <1>1. CoreInv'
    BY CoreOrWorker, InvStep, CoreInvOfWorker DEF SysCoreInv
  <1> QED
    BY <1>1, SysTypeStep, RespondsStep, FreshIsNotServedStep, ServesAcceptedStep
    DEF SysCoreInv

(* The invariant of the core is one of the whole system: what the service    *)
(* answers, MangoCore allows.                                                *)
THEOREM SystemInvariance == SysSpec => []SysCoreInv
  BY SysCoreInit, SysCoreStep, PTL DEF SysSpec

(* In the whole system too a PUT that was answered 200 has a row, or the log *)
(* says why not, whatever becomes of the broker and the service.             *)
THEOREM SystemKeepsAcknowledged == SysSpec => []AckedIsStored
  <1>1. SysCoreInv => AckedIsStored
    BY DEF SysCoreInv, CoreInv
  <1> QED
    BY <1>1, SystemInvariance, PTL

(* And no status goes back: nothing the service sends, at whatever time, is  *)
(* an earlier status than what the table has.                                *)
THEOREM SystemNeverGoesBack == SysSpec => NoRegress
  <1>1. SysCoreInv /\ [SysNext]_sysVars
          => [\A id \in Puts : Rank(table'[id].status) >= Rank(table[id].status)]_vars
    <2> SUFFICES ASSUME SysCoreInv, [SysNext]_sysVars, NEW id \in Puts
                 PROVE  Rank(table'[id].status) >= Rank(table[id].status)
      OBVIOUS
    <2>1. CASE [Next]_vars
      BY <2>1, RanksStay DEF SysCoreInv
    <2>2. CASE WorkerStep
      <3>1. Rank(table[id].status) \in 0 .. 2 /\ table' = table
        BY <2>2, WorkerLeavesCore DEF Rank, storageVars
      <3> QED
        BY <3>1
    <2> QED
      BY <2>1, <2>2, CoreOrWorker
  <1> QED
    BY <1>1, SystemInvariance, PTL DEF SysSpec, NoRegress

(* The system starts as its lifecycle does.                                  *)
LEMMA SysLifecycleStart == SysInit => SysCoreInv /\ LifecycleInv /\ Lifecycle!LifecycleInit
  BY SysCoreInit, LifecycleStart DEF SysInit

(* On a database that works every step of the system keeps to the lifecycle: *)
(* no step of the service touches the table or an answer.                    *)
LEMMA SysLifecycleStep ==
  ASSUME DbMayFail = FALSE, SysCoreInv, LifecycleInv, [SysNext]_sysVars
  PROVE  /\ LifecycleInv'
         /\ [Lifecycle!LifecycleNext]_Lifecycle!lifecycleVars
  <1>1. CASE [Next]_vars
    BY <1>1, LifecycleInvStep, LifecycleStep DEF SysCoreInv
  <1>2. CASE WorkerStep
    <2>1. UNCHANGED <<engineVars, storageVars, told>>
      BY <1>2, WorkerLeavesCore
    <2>2. LifecycleInv' /\ UNCHANGED Lifecycle!lifecycleVars
      BY <2>1 DEF LifecycleInv, AnswersAreTrue, NoRequestFails, ToldIsKnown, engineVars,
                  storageVars, Lifecycle!lifecycleVars
    <2> QED
      BY <2>2
  <1> QED
    BY <1>1, <1>2, CoreOrWorker

(* On a database that works the whole system keeps the lifecycle of its      *)
(* requests, from the HTTP call to the detector and back.                    *)
THEOREM SystemImplementsLifecycle ==
  ASSUME DbMayFail = FALSE
  PROVE  SysSpec => ImplementsLifecycle
  <1>1. SysCoreInv /\ LifecycleInv /\ [SysNext]_sysVars
          => /\ (SysCoreInv /\ LifecycleInv)'
             /\ [Lifecycle!LifecycleNext]_Lifecycle!lifecycleVars
    BY SysCoreStep, SysLifecycleStep
  <1> QED
    BY <1>1, SysLifecycleStart, PTL
    DEF SysSpec, ImplementsLifecycle, Lifecycle!LifecycleSpec

(* And whatever of the connection or of the service fails meanwhile, the     *)
(* answer the engine holds is what the table says, and nothing is a FAILURE. *)
THEOREM SystemAnswersStayTrue ==
  ASSUME DbMayFail = FALSE
  PROVE  SysSpec => []LifecycleInv
  <1>1. SysCoreInv /\ LifecycleInv /\ [SysNext]_sysVars => (SysCoreInv /\ LifecycleInv)'
    BY SysCoreStep, SysLifecycleStep
  <1> QED
    BY <1>1, SysLifecycleStart, PTL DEF SysSpec
-----------------------------------------------------------------------------
(* Handled once.                                                             *)

(* What the service has of a request is a number.                            *)
LEMMA SysInFlightType ==
  ASSUME SysTypeOK, NEW id
  PROVE  /\ Count(prefetched, id) \in Nat /\ Held(Serving, id, wrequest) \in {0, 1}
         /\ InFlight(id) \in Nat /\ SysInFlight(id) \in Nat
  <1>1. Count(prefetched, id) \in Nat /\ Held(Serving, id, wrequest) \in {0, 1}
    BY CountType DEF SysTypeOK, WorkerTypeOK, Held
  <1>2. InFlight(id) \in Nat
    BY InFlightType DEF SysTypeOK
  <1> HIDE DEF InFlight
  <1> QED
    BY <1>1, <1>2 DEF SysInFlight

(* And so it is after a step.                                                *)
LEMMA SysInFlightNext ==
  ASSUME SysTypeOK', NEW id
  PROVE  /\ Count(prefetched, id)' \in Nat /\ Held(Serving, id, wrequest)' \in {0, 1}
         /\ InFlight(id)' \in Nat /\ SysInFlight(id)' \in Nat
  <1>1. Count(prefetched', id) \in Nat /\ Held(Serving, id, wrequest)' \in {0, 1}
    BY CountType DEF SysTypeOK, WorkerTypeOK, Held
  <1>2. InFlight(id)' \in Nat
    BY InFlightNext DEF SysTypeOK
  <1>3. Count(prefetched, id)' = Count(prefetched', id)
    BY DEF Count
  <1> HIDE DEF InFlight
  <1> QED
    BY <1>1, <1>2, <1>3 DEF SysInFlight

(* The number of times a request is in the two queues and with the service.  *)
AtService(id) == Count(requestQueue, id) + Count(responseQueue, id)
                   + Count(prefetched, id) + Held(Serving, id, wrequest)

(* Of all ways only these change by a step of the service.                   *)
LEMMA ServiceShare ==
  ASSUME SysTypeOK, SysTypeOK', WorkerStep, NEW id
  PROVE  /\ AtService(id) \in Nat /\ AtService(id)' \in Nat
         /\ SysInFlight(id)' - SysInFlight(id) = AtService(id)' - AtService(id)
         /\ InFlight(id)' - InFlight(id)
              = (Count(requestQueue, id)' - Count(requestQueue, id))
                  + (Count(responseQueue, id)' - Count(responseQueue, id))
  <1>1. /\ Count(computeSink, id) \in Nat /\ Count(requestQueue, id) \in Nat
        /\ Count(responseQueue, id) \in Nat /\ Count(rFeed, id) \in Nat
        /\ Count(computeFeed, id) \in Nat
        /\ Held(rpc = "publish", id, rrequest) \in {0, 1}
        /\ Held(rpc = "sink", id, rstatus) \in {0, 1}
        /\ Held(epc = "update", id, eupdate) \in {0, 1}
        /\ Count(prefetched, id) \in Nat /\ Held(Serving, id, wrequest) \in {0, 1}
    BY InFlightType, SysInFlightType DEF SysTypeOK
  <1>2. /\ Count(requestQueue, id)' \in Nat /\ Count(responseQueue, id)' \in Nat
        /\ Count(prefetched, id)' \in Nat /\ Held(Serving, id, wrequest)' \in {0, 1}
    <2>1. Count(requestQueue', id) \in Nat /\ Count(responseQueue', id) \in Nat
      BY CountType DEF SysTypeOK, TypeOK, QueueTypeOK
    <2> QED
      BY <2>1, SysInFlightNext DEF Count
  <1>3. /\ Count(computeSink, id)' = Count(computeSink, id)
        /\ Count(rFeed, id)' = Count(rFeed, id)
        /\ Count(computeFeed, id)' = Count(computeFeed, id)
        /\ Held(rpc = "publish", id, rrequest)' = Held(rpc = "publish", id, rrequest)
        /\ Held(rpc = "sink", id, rstatus)' = Held(rpc = "sink", id, rstatus)
        /\ Held(epc = "update", id, eupdate)' = Held(epc = "update", id, eupdate)
    BY DEF WorkerStep, channels, routerVars, engineVars, Count, Held
  <1> HIDE DEF Count, Held
  <1> QED
    BY <1>1, <1>2, <1>3 DEF SysInFlight, InFlight, AtService

(* The service answers what it takes once at most, in place of the request.  *)
(* What it has lost it has lost with its connection, or with its thread, or  *)
(* it answers with a body that names no request.                             *)
LEMMA WorkerFlow ==
  ASSUME SysTypeOK, SysTypeOK', Responds, WorkerStep, NEW id
  PROVE  /\ id # NilId => AtService(id)' <= AtService(id)
         /\ \/ AtService(id)' = AtService(id)
            \/ ~wconnected' \/ wpc' = "dead"
            \/ Count(responseQueue, NilId)' > 0
         /\ Count(responseQueue, id) <= Count(responseQueue, id)'
  <1>0. /\ requestQueue \in Seq(Message) /\ prefetched \in Seq(Message)
        /\ requestQueue' \in Seq(Message) /\ prefetched' \in Seq(Message)
        /\ responseQueue \in Seq(DetectionStatus) /\ wresponse \in DetectionStatus
        /\ Worker
    BY DEF SysTypeOK, TypeOK, QueueTypeOK, WorkerTypeOK, WorkerStep
  <1>1. /\ Count(requestQueue, id) \in Nat /\ Count(responseQueue, id) \in Nat
        /\ Count(prefetched, id) \in Nat /\ Held(Serving, id, wrequest) \in {0, 1}
        /\ Count(requestQueue', id) \in Nat /\ Count(prefetched', id) \in Nat
    BY <1>0, CountType DEF Held
  <1>2. \A q : Count(q, id)' = Count(q', id)
    BY DEF Count
  <1>3. Count(<< >>, id) = 0
    BY CountEmpty
  <1> USE DEF AtService
  <1>4. CASE /\ prefetched' \in {prefetched, << >>} /\ UNCHANGED <<queues, wrequest>>
             /\ Serving' => Serving
             /\ (Serving' = Serving /\ prefetched' = prefetched)
                  \/ ~wconnected' \/ wpc' = "dead"
    <2>1. /\ Count(requestQueue, id)' = Count(requestQueue, id)
          /\ Count(responseQueue, id)' = Count(responseQueue, id)
          /\ Count(prefetched, id)' \in {0, Count(prefetched, id)}
          /\ Held(Serving, id, wrequest)' \in {0, Held(Serving, id, wrequest)}
          /\ (Serving' = Serving /\ prefetched' = prefetched)
               => Count(prefetched, id)' = Count(prefetched, id)
                    /\ Held(Serving, id, wrequest)' = Held(Serving, id, wrequest)
      BY <1>3, <1>4 DEF queues, Count, Held
    <2> HIDE DEF Count, Held, Serving
    <2> QED
      BY <1>1, <1>4, <2>1
  <1>5. CASE \/ StartWorker \/ LoadDetectors \/ ConsumeFails \/ LoseWorkerConnection
             \/ KillWorker \/ ProcessRequest
    BY <1>4, <1>5 DEF StartWorker, LoadDetectors, ConsumeFails, LoseWorkerConnection,
                      KillWorker, ProcessRequest, WorkerCutOff, Serving
  <1>6. CASE SendToConsumer
    <2>1. Head(requestQueue) \in Message
      BY <1>0, <1>6, Taken DEF SendToConsumer
    <2>2. /\ Count(requestQueue, id) = Count(requestQueue', id)
                                        + (IF Head(requestQueue).id = id THEN 1 ELSE 0)
          /\ Count(prefetched', id) = Count(prefetched, id)
                                        + (IF Head(requestQueue).id = id THEN 1 ELSE 0)
      BY <1>0, <1>6, <2>1, CountTaken, CountAdded DEF SendToConsumer
    <2>3. /\ Held(Serving, id, wrequest)' = Held(Serving, id, wrequest)
          /\ Count(responseQueue, id)' = Count(responseQueue, id)
          /\ Count(requestQueue, id)' = Count(requestQueue', id)
          /\ Count(prefetched, id)' = Count(prefetched', id)
      BY <1>6 DEF SendToConsumer, Held, Serving, Count
    <2> HIDE DEF Count, Held
    <2> QED
      BY <1>1, <2>2, <2>3
  <1>7. CASE TakeFromBroker
    <2>1. Count(prefetched, id) = Count(prefetched', id)
                                   + (IF wrequest'.id = id THEN 1 ELSE 0)
      BY <1>0, <1>7, CountTaken DEF TakeFromBroker
    <2>2. /\ Held(Serving, id, wrequest) = 0
          /\ Held(Serving, id, wrequest)' = (IF wrequest'.id = id THEN 1 ELSE 0)
          /\ Count(responseQueue, id)' = Count(responseQueue, id)
          /\ Count(requestQueue, id)' = Count(requestQueue, id)
          /\ Count(prefetched, id)' = Count(prefetched', id)
      BY <1>7 DEF TakeFromBroker, Held, Serving, Count, queues
    <2> HIDE DEF Count, Held
    <2> QED
      BY <1>1, <2>1, <2>2
  <1>8. CASE PublishResponse
    <2>1. /\ Held(Serving, id, wrequest) = (IF wrequest.id = id THEN 1 ELSE 0)
          /\ Held(Serving, id, wrequest)' = 0
          /\ Count(requestQueue, id)' = Count(requestQueue, id)
      BY <1>8 DEF PublishResponse, Held, Serving, Count
    <2>2. CASE responseQueue' = Append(responseQueue, wresponse) /\ UNCHANGED prefetched
      <3>1. \A name : Count(responseQueue', name)
                         = Count(responseQueue, name)
                             + (IF wresponse.id = name THEN 1 ELSE 0)
        BY <1>0, <2>2, CountAdded
      <3>2. wresponse.id \in {wrequest.id, NilId}
        BY <1>8 DEF PublishResponse, Responds, Status, Garbled
      <3>3. Count(responseQueue, NilId) \in Nat
        BY <1>0, CountType
      <3>4. /\ Count(prefetched, id)' = Count(prefetched, id)
            /\ Count(responseQueue, id)' = Count(responseQueue', id)
            /\ Count(responseQueue, NilId)' = Count(responseQueue', NilId)
        BY <2>2 DEF Count
      <3> HIDE DEF Count, Held
      <3> QED
        BY <1>1, <2>1, <3>1, <3>2, <3>3, <3>4
    <2>3. CASE /\ prefetched' \in {prefetched, << >>} /\ UNCHANGED responseQueue
               /\ ~wconnected' \/ wpc' = "dead"
      <3>1. /\ Count(prefetched, id)' \in {0, Count(prefetched, id)}
            /\ Count(responseQueue, id)' = Count(responseQueue, id)
        BY <1>3, <2>3 DEF Count
      <3> HIDE DEF Count, Held
      <3> QED
        BY <1>1, <2>1, <2>3, <3>1
    <2> QED
      BY <1>8, <2>2, <2>3 DEF PublishResponse
  <1> QED
    BY <1>0, <1>5, <1>6, <1>7, <1>8 DEF Worker, WorkerRuns
(* No step of the system but the engine's submission brings a request on its *)
(* way, and the update with its result takes it off.                         *)
LEMMA SysFlow ==
  ASSUME SysTypeOK, Responds, [SysNext]_sysVars, NEW id, id # NilId
  PROVE  /\ ~Submits(id) => SysInFlight(id)' <= SysInFlight(id)
         /\ Submits(id) => SysInFlight(id)' <= SysInFlight(id) + 1
         /\ Records(id) => SysInFlight(id)' <= SysInFlight(id) - 1
  <1>0. SysTypeOK' /\ TypeOK
    BY SysTypeStep DEF SysTypeOK
  <1>1. /\ InFlight(id) \in Nat /\ InFlight(id)' \in Nat
        /\ Count(prefetched, id) \in Nat /\ Held(Serving, id, wrequest) \in {0, 1}
        /\ SysInFlight(id) \in Nat /\ SysInFlight(id)' \in Nat
    BY <1>0, SysInFlightType, SysInFlightNext
  <1>2. CASE WorkerStep
    <2>1. ~Submits(id) /\ ~Records(id)
      BY <1>2 DEF WorkerStep, engineVars, Submits, SubmitToCompute, Records, RecordUpdate
    <2>2. SysInFlight(id)' - SysInFlight(id) = AtService(id)' - AtService(id)
          /\ AtService(id) \in Nat /\ AtService(id)' \in Nat
      BY <1>0, <1>2, ServiceShare
    <2>3. AtService(id)' <= AtService(id)
      BY <1>0, <1>2, WorkerFlow
    <2> HIDE DEF SysInFlight, AtService
    <2> QED
      BY <1>1, <2>1, <2>2, <2>3
  <1>3. CASE [Next]_vars /\ UNCHANGED <<wpc, wrequest>> /\ prefetched' \in {prefetched, << >>}
    <2>1. /\ ~Submits(id) => InFlight(id)' <= InFlight(id)
          /\ Submits(id) => InFlight(id)' = InFlight(id) + 1
          /\ Records(id) => InFlight(id)' = InFlight(id) - 1
      BY <1>0, <1>3, Flow
    <2>2. /\ Count(prefetched, id)' \in {0, Count(prefetched, id)}
          /\ Held(Serving, id, wrequest)' = Held(Serving, id, wrequest)
      BY <1>3, CountEmpty DEF Count, Held, Serving
    <2> HIDE DEF InFlight, Count, Held
    <2> QED
      BY <1>1, <2>1, <2>2 DEF SysInFlight
  <1> QED
    BY <1>2, <1>3 DEF SysNext, Next, SysCrash, WorkerCutOff, workerVars, sysVars

(* The request the engine submits is nowhere in the system before.           *)
LEMMA SubmitsUnserved ==
  ASSUME SysCoreInv, NEW id, Submits(id)
  PROVE  id \in Puts /\ table[id] = NoRow /\ SysInFlight(id) = 0 /\ UNCHANGED storageVars
  <1>1. /\ id \in Puts /\ table[id] = NoRow /\ InFlight(id) = 0 /\ UNCHANGED storageVars
        /\ epc = "submit" /\ ecall.msg.op = "PUT" /\ ecall.msg.id = id
    BY SubmitsFresh DEF SysCoreInv, Submits, SubmitToCompute, CoreInv, TypeOK, EngineTypeOK
  <1>2. ecall.ret = id
    BY <1>1 DEF SysCoreInv, CoreInv, CallsAreOwn, Own
  <1>3. id \notin Named(prefetched) /\ (Serving => wrequest.id # id)
    BY <1>1, <1>2 DEF SysCoreInv, FreshIsNotServed, NotSubmitted
  <1>4. Count(prefetched, id) = 0 /\ Held(Serving, id, wrequest) = 0
    BY <1>3, CountOfNone DEF SysCoreInv, SysTypeOK, WorkerTypeOK, Held
  <1> QED
    BY <1>1, <1>4 DEF SysInFlight

(* A step of the system keeps a request from being handled twice.            *)
LEMMA HandledOnceStep ==
  ASSUME SysCoreInv, HandledOnce, [SysNext]_sysVars
  PROVE  HandledOnce'
  <1> SUFFICES ASSUME NEW id \in Puts
               PROVE  /\ SysInFlight(id)' <= 1
                      /\ table'[id].status \in Final => SysInFlight(id)' = 0
    BY DEF HandledOnce
  <1>0. SysTypeOK /\ SysTypeOK' /\ Responds /\ id # NilId
    BY SysTypeStep, CallAssumption DEF SysCoreInv, Calls
  <1>1. SysInFlight(id) \in Nat /\ SysInFlight(id)' \in Nat
    BY <1>0, SysInFlightType, SysInFlightNext
  <1>2. /\ ~Submits(id) => SysInFlight(id)' <= SysInFlight(id)
        /\ Submits(id) => SysInFlight(id)' <= SysInFlight(id) + 1
        /\ Records(id) => SysInFlight(id)' <= SysInFlight(id) - 1
    BY <1>0, SysFlow
  <1>3. SysInFlight(id) <= 1 /\ (table[id].status \in Final => SysInFlight(id) = 0)
    BY DEF HandledOnce
  <1> HIDE DEF SysInFlight
  <1>4. CASE Submits(id)
    <2>1. table'[id].status \notin Final /\ SysInFlight(id) = 0
      BY <1>4, SubmitsUnserved DEF storageVars, NoRow, Final
    <2> QED
      BY <1>1, <1>2, <1>4, <2>1
  <1>5. CASE Records(id)
    BY <1>1, <1>2, <1>3, <1>5
  <1>6. CASE ~Submits(id) /\ ~Records(id)
    <2>1. table'[id] = table[id] \/ table'[id].status \notin Final
      <3>1. CASE WorkerStep
        BY <3>1, WorkerLeavesCore DEF storageVars
      <3>2. CASE [Next]_vars
        BY <1>6, <3>2, RowMoves DEF SysCoreInv, Final
      <3> QED
        BY <3>1, <3>2, CoreOrWorker
    <2> QED
      BY <1>1, <1>2, <1>3, <1>6, <2>1
  <1> QED
    BY <1>4, <1>5, <1>6

(* A request that is submitted was a PUT's, so nothing starts handled.       *)
LEMMA HandledOnceInit == SysInit => HandledOnce
  <1> SUFFICES ASSUME SysInit, NEW id \in Puts PROVE SysInFlight(id) = 0
    BY DEF HandledOnce
  <1>1. OnTheWay = {}
    BY NamedEmpty DEF SysInit, Init, OnTheWay, ChannelInit, EngineInit, RouterInit,
                      QueueInit
  <1>2. InFlight(id) = 0
    BY <1>1, InitType, NotOnTheWay DEF SysInit
  <1>3. Count(prefetched, id) = 0 /\ Held(Serving, id, wrequest) = 0
    BY CountEmpty DEF SysInit, WorkerInit, Held, Serving
  <1> QED
    BY <1>2, <1>3 DEF SysInFlight

(* In the whole system no request is handled twice, nor once more after its  *)
(* result is stored: what auto_ack makes the consumers forget (compute.go:64,*)
(* rabbitmq_broker.py) is not sent again, whichever end starts over.         *)
THEOREM NothingIsHandledTwice == SysSpec => []HandledOnce
  BY HandledOnceInit, HandledOnceStep, SystemInvariance, PTL DEF SysSpec

(* So in the whole system too the engine and the router block each other     *)
(* only when more requests were made than fill one channel and the engine's  *)
(* hand, whatever becomes of the broker and the service.                     *)
THEOREM SystemBlockingNeedsRequests == SysSpec => []CircularWaitNeedsRequests
  <1>1. SysCoreInv /\ IsFiniteSet(Made) /\ [SysNext]_sysVars => IsFiniteSet(Made)'
    <2> SUFFICES ASSUME SysCoreInv, IsFiniteSet(Made), [SysNext]_sysVars
                 PROVE  IsFiniteSet(Made')
      OBVIOUS
    <2>1. CASE [Next]_vars
      BY <2>1, MadeStep DEF SysCoreInv, CoreInv
    <2>2. CASE WorkerStep
      BY <2>2, WorkerLeavesCore DEF Made, webVars
    <2> QED
      BY <2>1, <2>2, CoreOrWorker
  <1>2. SysCoreInv /\ HandledOnce => AtMostOnce
    <2> SUFFICES ASSUME SysCoreInv, HandledOnce, NEW id \in Puts
                 PROVE  InFlight(id) <= 1 /\ (table[id].status \in Final => InFlight(id) = 0)
      BY DEF AtMostOnce
    <2>1. /\ Count(prefetched, id) \in Nat /\ Held(Serving, id, wrequest) \in {0, 1}
          /\ InFlight(id) \in Nat
      BY SysInFlightType DEF SysCoreInv
    <2> HIDE DEF InFlight, Count, Held
    <2> QED
      BY <2>1 DEF HandledOnce, SysInFlight
  <1>3. SysCoreInv /\ AtMostOnce /\ IsFiniteSet(Made) => CircularWaitNeedsRequests
    BY BlockedByRequests DEF SysCoreInv
  <1>4. SysInit => IsFiniteSet(Made)
    BY NoneMade DEF SysInit
  <1> QED
    BY <1>1, <1>2, <1>3, <1>4, SystemInvariance, NothingIsHandledTwice, PTL DEF SysSpec

-----------------------------------------------------------------------------
(* Nothing lost without a trace.                                             *)

(* That a process or a connection has gone down stays to be seen.            *)
LEMMA DisturbedStays ==
  ASSUME SysTypeOK, [SysNext]_sysVars, Disturbed
  PROVE  Disturbed'
  <1> USE DEF Disturbed
  <1>0. restarts \in Nat /\ starts \in Nat
    BY FaultAssumption, WorkerAssumption DEF SysTypeOK, TypeOK, WorkerTypeOK
  <1>1. restarts' \in {restarts, restarts + 1}
        /\ (connected' => connected \/ restarts' = restarts + 1)
    <2>1. CASE Restart
      BY <2>1 DEF Restart
    <2>2. CASE ~Restart
      BY <2>2 DEF SysNext, CoreNext, SysCrash, BrokerCrash, WorkerStep, Handle, Answer,
                  Engine, Route, Broker, RouterCutOff, history, routerVars, TakeRequest,
                  Publish, PublishFails, TakeDelivery, TakeFromClosed, SinkStatus,
                  RouterIdle, Deliver, LoseConnection, sysVars, vars
    <2> QED
      BY <2>1, <2>2
  <1>2. \/ starts' = starts /\ (wconnected' => wconnected)
             /\ (wpc = "dead" => wpc' = "dead" \/ ~wconnected')
        \/ starts' = starts + 1
    <2>1. CASE WorkerStep
      BY <2>1 DEF WorkerStep, Worker, WorkerRuns, StartWorker, LoadDetectors,
                  SendToConsumer, TakeFromBroker, ProcessRequest, PublishResponse,
                  ConsumeFails, LoseWorkerConnection, KillWorker, WorkerCutOff
    <2>2. CASE ~WorkerStep
      BY <2>2 DEF SysNext, SysCrash, WorkerCutOff, workerVars, sysVars
    <2> QED
      BY <2>1, <2>2
  <1> QED
    BY <1>0, <1>1, <1>2
(* While all that was started is up, a request stays on its way until its    *)
(* result is recorded, or the service has answered for no request.           *)
LEMMA SysFlowUndisturbed ==
  ASSUME SysCoreInv, LoadsFirst, [SysNext]_sysVars, ~Disturbed', NEW id
  PROVE  \/ SysInFlight(id)' = SysInFlight(id) + (IF Submits(id) THEN 1 ELSE 0)
                                               - (IF Records(id) THEN 1 ELSE 0)
         \/ InFlight(NilId)' > 0
  <1>0. SysTypeOK /\ SysTypeOK' /\ TypeOK /\ Responds
    BY SysTypeStep DEF SysCoreInv, SysTypeOK
  <1>1. SysInFlight(id) \in Nat /\ SysInFlight(id)' \in Nat
    BY <1>0, SysInFlightType, SysInFlightNext
  <1>2. CASE WorkerStep
    <2>1. ~Submits(id) /\ ~Records(id)
      BY <1>2 DEF WorkerStep, engineVars, Submits, SubmitToCompute, Records, RecordUpdate
    <2>2. SysInFlight(id)' - SysInFlight(id) = AtService(id)' - AtService(id)
          /\ AtService(id) \in Nat /\ AtService(id)' \in Nat
      BY <1>0, <1>2, ServiceShare
    <2>3. wconnected' /\ wpc' # "dead"
      <3>1. starts \in Nat /\ starts' \in {starts, starts + 1}
        BY <1>0, <1>2, WorkerAssumption
        DEF SysTypeOK, WorkerTypeOK, WorkerStep, Worker, WorkerRuns, StartWorker,
            LoadDetectors, SendToConsumer, TakeFromBroker, ProcessRequest,
            PublishResponse, ConsumeFails, LoseWorkerConnection, KillWorker
      <3>2. CASE starts = 0
        <4>1. wpc = "down" /\ ~wconnected
          BY <1>0, <3>2 DEF LoadsFirst, SysTypeOK, WorkerTypeOK
        <4> QED
          BY <1>2, <4>1 DEF WorkerStep, Worker, WorkerRuns, StartWorker, LoadDetectors,
               SendToConsumer, TakeFromBroker, ProcessRequest, PublishResponse,
               ConsumeFails, LoseWorkerConnection, KillWorker
      <3>3. CASE starts # 0
        BY <3>1, <3>3 DEF Disturbed
      <3> QED
        BY <3>2, <3>3
    <2>4. AtService(id)' = AtService(id) \/ Count(responseQueue, NilId)' > 0
      BY <1>0, <1>2, <2>3, WorkerFlow
    <2>5. Count(responseQueue, NilId)' > 0 => InFlight(NilId)' > 0
      <3>1. /\ Count(computeSink', NilId) \in Nat /\ Count(requestQueue', NilId) \in Nat
            /\ Count(responseQueue', NilId) \in Nat /\ Count(rFeed', NilId) \in Nat
            /\ Count(computeFeed', NilId) \in Nat
        BY <1>0, CountType DEF SysTypeOK, TypeOK, ChannelTypeOK, QueueTypeOK, RouterTypeOK
      <3>2. /\ Held(rpc = "publish", NilId, rrequest)' \in {0, 1}
            /\ Held(rpc = "sink", NilId, rstatus)' \in {0, 1}
            /\ Held(epc = "update", NilId, eupdate)' \in {0, 1}
        BY DEF Held
      <3>3. \A q : Count(q, NilId)' = Count(q', NilId)
        BY DEF Count
      <3> HIDE DEF Count, Held
      <3> QED
        BY <3>1, <3>2, <3>3 DEF InFlight
    <2> HIDE DEF SysInFlight, AtService, InFlight
    <2> QED
      BY <1>1, <2>1, <2>2, <2>4, <2>5
  <1>3. CASE (CoreNext \/ UNCHANGED vars) /\ UNCHANGED <<wpc, wrequest, prefetched>>
    <2>1. connected' /\ restarts' = 0
      BY <1>0, FaultAssumption DEF Disturbed, SysTypeOK, TypeOK
    <2>2. InFlight(id)' = InFlight(id) + (IF Submits(id) THEN 1 ELSE 0)
                                       - (IF Records(id) THEN 1 ELSE 0)
      BY <1>0, <1>3, <2>1, UndisturbedFlow
    <2>3. /\ Count(prefetched, id)' = Count(prefetched, id)
          /\ Held(Serving, id, wrequest)' = Held(Serving, id, wrequest)
      BY <1>3 DEF Count, Held, Serving
    <2>4. /\ InFlight(id) \in Nat /\ Count(prefetched, id) \in Nat
          /\ Held(Serving, id, wrequest) \in {0, 1}
      BY <1>0, SysInFlightType
    <2> HIDE DEF InFlight, Count, Held
    <2> QED
      BY <2>2, <2>3, <2>4 DEF SysInFlight
  <1>4. ~SysCrash
    BY DEF SysCrash, BrokerCrash, RouterCutOff, Disturbed
  <1> QED
    BY <1>2, <1>3, <1>4 DEF SysNext, workerVars, sysVars

(* A result that could not be stored stays one, and one that names no request*)
(* ends in the row of no request, or in the log.                             *)
LEMMA ResultLostStays ==
  ASSUME SysCoreInv, LoadsFirst, [SysNext]_sysVars, ~Disturbed', NEW id, ResultLost(id)
  PROVE  ResultLost(id)'
  <1>0. SysTypeOK /\ SysTypeOK' /\ TypeOK /\ Responds /\ NilId \notin Puts /\ NilId \in Ids
    BY SysTypeStep, CallAssumption DEF SysCoreInv, SysTypeOK, Calls, Ids
  <1>1. InFlight(NilId) \in Nat /\ InFlight(NilId)' \in Nat
    BY <1>0, SysInFlightType, SysInFlightNext
  <1>2. CASE WorkerStep
    <2>1. UNCHANGED storageVars
      BY <1>2, WorkerLeavesCore
    <2>2. InFlight(NilId)' - InFlight(NilId)
            = (Count(requestQueue, NilId)' - Count(requestQueue, NilId))
                + (Count(responseQueue, NilId)' - Count(responseQueue, NilId))
      BY <1>0, <1>2, ServiceShare
    <2>3. /\ requestQueue \in Seq(Message) /\ requestQueue' \in Seq(Message)
          /\ responseQueue \in Seq(DetectionStatus)
          /\ responseQueue' \in Seq(DetectionStatus)
      BY <1>0 DEF SysTypeOK, TypeOK, QueueTypeOK
    <2>4. Count(requestQueue, NilId) = 0
      <3>1. NilId \notin Named(requestQueue)
        BY <1>0 DEF Named, SysCoreInv, CoreInv, OnlyAccepted, AllAccepted, Accepted
      <3> QED
        BY <2>3, <3>1, CountOfNone
    <2>5. Count(responseQueue, NilId) <= Count(responseQueue, NilId)'
      BY <1>0, <1>2, WorkerFlow
    <2>6. /\ Count(requestQueue', NilId) \in Nat /\ Count(responseQueue, NilId) \in Nat
          /\ Count(responseQueue', NilId) \in Nat
      BY <2>3, CountType
    <2>7. \A q : Count(q, NilId)' = Count(q', NilId)
      BY DEF Count
    <2> HIDE DEF InFlight, Count
    <2>8. InFlight(NilId)' >= InFlight(NilId)
      BY <1>1, <2>2, <2>4, <2>5, <2>6, <2>7
    <2> QED
      BY <1>1, <2>1, <2>8 DEF ResultLost, storageVars
  <1>3. CASE CoreNext \/ UNCHANGED vars
    <2>1. connected' /\ restarts' = 0
      BY <1>0, FaultAssumption DEF Disturbed, SysTypeOK, TypeOK
    <2>2. InFlight(NilId)' = InFlight(NilId) + (IF Submits(NilId) THEN 1 ELSE 0)
                                             - (IF Records(NilId) THEN 1 ELSE 0)
      BY <1>0, <1>3, <2>1, UndisturbedFlow
    <2>3. /\ \A name \in Ids : table[name] # NoRow => table'[name] # NoRow
          /\ errorLog \subseteq errorLog'
      BY <1>0, <1>3, RowsStay DEF Next
    <2>4. Records(NilId) => table'[NilId] # NoRow \/ NilId \in errorLog'
      <3>1. eupdate \in DetectionStatus
        BY <1>0 DEF TypeOK, EngineTypeOK
      <3> QED
        BY <1>0, <3>1, UpdStatusWrites DEF Records, RecordUpdate
    <2>5. NoRow' = NoRow
      BY DEF NoRow
    <2> HIDE DEF InFlight
    <2> QED
      BY <1>0, <1>1, <2>2, <2>3, <2>4, <2>5 DEF ResultLost
  <1>4. ~SysCrash
    BY DEF SysCrash, BrokerCrash, RouterCutOff, Disturbed
  <1> QED
    BY <1>2, <1>3, <1>4 DEF SysNext, sysVars

(* A request has its reason to be where it is after a step, if it was there  *)
(* for one, or was just submitted.                                           *)
LEMMA TracedMove ==
  ASSUME SysCoreInv, LoadsFirst, [SysNext]_sysVars, NEW id \in Puts,
         Traced(id) \/ Submits(id), ~Records(id)
  PROVE  Traced(id)'
  <1> SUFFICES ASSUME ~Disturbed', ~ResultLost(id)'
               PROVE  SysInFlight(id)' = 1
    BY DEF Traced
  <1>1. ~Disturbed /\ ~ResultLost(id)
    BY DisturbedStays, ResultLostStays DEF SysCoreInv
  <1>2. \/ SysInFlight(id)' = SysInFlight(id) + (IF Submits(id) THEN 1 ELSE 0)
                                              - (IF Records(id) THEN 1 ELSE 0)
        \/ InFlight(NilId)' > 0
    BY SysFlowUndisturbed
  <1>3. ~(InFlight(NilId)' > 0)
    BY DEF ResultLost
  <1>4. Submits(id) => SysInFlight(id) = 0
    BY SubmitsUnserved
  <1>5. Submits(id) \/ SysInFlight(id) = 1
    BY <1>1 DEF Traced
  <1> HIDE DEF SysInFlight
  <1> QED
    BY <1>2, <1>3, <1>4, <1>5

(* Every step keeps requests on their way, or leaves a trace.                *)
LEMMA TracedStep ==
  ASSUME SysCoreInv, LoadsFirst, TracedInv, [SysNext]_sysVars
  PROVE  TracedInv'
  <1>0. TypeOK /\ CoreInv
    BY DEF SysCoreInv, CoreInv
  <1>1. ASSUME NEW id \in Puts, table'[id].status = "PENDING"
        PROVE  Traced(id)'
    <2>1. CASE Submits(id)
      BY <1>1, <2>1, SubmitsUnserved DEF storageVars, NoRow
    <2>2. CASE Records(id)
      <3>1. /\ UpdStatus(eupdate) /\ IsResult(eupdate) /\ eupdate.id = id
            /\ id # NilId /\ id \in Ids /\ table \in [Ids -> Row \cup {NoRow}]
        BY <1>0, <2>2, CallAssumption
        DEF Records, RecordUpdate, CoreInv, ResultsAreFinal, Calls, Ids, TypeOK,
            StorageTypeOK
      <3>2. eupdate.status \in {"SUCCESS", "FAILED"}
        BY <3>1 DEF IsResult
      <3>3. id \in errorLog'
        BY <1>1, <3>1, <3>2 DEF UpdStatus, Upsert, DbStatus
      <3> QED
        BY <3>3 DEF Traced, ResultLost
    <2>3. CASE ~Submits(id) /\ ~Records(id)
      <3>1. Traced(id)
        <4>1. CASE table'[id] = table[id]
          BY <1>1, <4>1 DEF TracedInv, PendingIsCarriedOrLost
        <4>2. CASE RecordPending /\ ecall.msg.id = id
          BY <4>2 DEF TracedInv, RecordPending
        <4>3. CASE WorkerStep
          BY <4>1, <4>3, WorkerLeavesCore DEF storageVars
        <4>4. CASE [Next]_vars
          BY <1>0, <2>3, <4>1, <4>2, <4>4, RowMoves
        <4> QED
          BY <4>3, <4>4, CoreOrWorker
      <3> QED
        BY <2>3, <3>1, TracedMove
    <2> QED
      BY <2>1, <2>2, <2>3
  <1>2. ASSUME NEW id \in Puts, epc' = "record", ecall'.msg.id = id
        PROVE  Traced(id)'
    <2>1. ~Records(id)
      BY <1>2 DEF Records, RecordUpdate
    <2>2. CASE Engine
      <3>1. SubmitToCompute /\ ecall'.msg = ecall.msg
        BY <1>2, <2>2 DEF Engine, TakeCall, SubmitToCompute, RecordPending, Query,
                          TakeUpdate, RecordUpdate, EngineIdle, engineVars
      <3>2. Submits(id)
        BY <1>2, <2>2, <3>1 DEF Submits
      <3> QED
        BY <2>1, <3>2, TracedMove
    <2>3. CASE ~Engine
      <3>1. epc = "record" /\ ecall' = ecall
        BY <1>2, <2>3 DEF SysNext, SysCrash, WorkerStep, CoreNext, Handle, Answer, Reply,
                          Route, Broker, BrokerCrash, Restart, EngineRestart,
                          engineVars, vars, sysVars
      <3>2. Traced(id)
        BY <1>2, <3>1 DEF TracedInv
      <3> QED
        BY <2>1, <3>2, TracedMove
    <2> QED
      BY <2>2, <2>3
  <1> QED
    BY <1>1, <1>2 DEF TracedInv, PendingIsCarriedOrLost

(* There is nothing to lose at the start.                                    *)
LEMMA TracedInit == SysInit => TracedInv
  BY DEF SysInit, Init, EngineInit, StorageInit, NoRow, Ids, TracedInv,
         PendingIsCarriedOrLost

(* Whatever fails in the whole system, a request that stays PENDING without  *)
(* being on its way has a reason one can see: a connection that is down, a   *)
(* process that was started again, a dead consumer thread, an error in the   *)
(* core's log (engine.go:70), or a failure that names no request             *)
(* (compute.go:94).  Nothing else in the code drops a request.               *)
THEOREM NothingIsLostUnseen == SysSpec => []PendingIsCarriedOrLost
  <1>1. SourceInv => LoadsFirst
    BY DEF SourceInv
  <1>2. TracedInv => PendingIsCarriedOrLost
    BY DEF TracedInv
  <1> QED
    BY <1>1, <1>2, TracedInit, TracedStep, SystemInvariance, SourceInvariance, PTL
    DEF SysSpec
(* The service's part in it: it answers what it takes with SUCCESS.          *)
LEMMA QuietWorker ==
  ASSUME ComputeMayFail = FALSE, MaxWorkerStarts <= 1, SysCoreInv, SysCoreInv', QuietInv,
         WorkerStep
  PROVE  QuietInv'
  <1>0. /\ SysTypeOK /\ SysTypeOK' /\ Responds /\ ServesAccepted /\ starts \in Nat
        /\ NilId \notin Puts /\ MaxWorkerStarts \in Nat
    BY CallAssumption, WorkerAssumption
    DEF SysCoreInv, SysTypeOK, WorkerTypeOK, Calls
  <1>1. UNCHANGED <<connected, restarts, table, errorLog>>
    BY DEF WorkerStep, routerVars, storageVars, history
  <1>2. WorkerIsUp'
    BY <1>0 DEF QuietInv, WorkerIsUp, WorkerStep, Worker, WorkerRuns, StartWorker, LoadDetectors,
               SendToConsumer, TakeFromBroker, ProcessRequest, PublishResponse,
               ConsumeFails, LoseWorkerConnection, KillWorker
  <1>3. InFlight(NilId)' = 0
    <2>1. InFlight(NilId)' - InFlight(NilId)
            = (Count(requestQueue, NilId)' - Count(requestQueue, NilId))
                + (Count(responseQueue, NilId)' - Count(responseQueue, NilId))
      BY <1>0, ServiceShare
    <2>2. /\ requestQueue \in Seq(Message) /\ requestQueue' \in Seq(Message)
          /\ responseQueue \in Seq(DetectionStatus) /\ wresponse \in DetectionStatus
      BY <1>0 DEF SysTypeOK, TypeOK, QueueTypeOK, WorkerTypeOK
    <2>3. NilId \notin Named(requestQueue) /\ NilId \notin Named(requestQueue')
      BY <1>0 DEF Named, SysCoreInv, CoreInv, OnlyAccepted, AllAccepted, Accepted
    <2>4. Count(requestQueue, NilId) = 0 /\ Count(requestQueue', NilId) = 0
      BY <2>2, <2>3, CountOfNone
    <2>5. wpc = "publish" => wresponse.id # NilId
      <3>1. wpc = "publish" => wresponse = Status(wrequest.id, "SUCCESS")
                                 /\ wrequest.id \in Puts
        BY <1>0 DEF ServesAccepted, Responds, Accepted, Serving, Status, Garbled
      <3> QED
        BY <1>0, <3>1 DEF Status
    <2>6. Count(responseQueue', NilId) = Count(responseQueue, NilId)
          /\ Count(responseQueue, NilId) \in Nat
      <3>1. \/ responseQueue' = responseQueue
            \/ responseQueue' = Append(responseQueue, wresponse) /\ wpc = "publish"
        BY <1>0, WorkerNames
      <3>2. Count(Append(responseQueue, wresponse), NilId)
              = Count(responseQueue, NilId) + (IF wresponse.id = NilId THEN 1 ELSE 0)
        BY <2>2, CountAdded
      <3>3. Count(responseQueue, NilId) \in Nat
        BY <2>2, CountType
      <3>4. wpc = "publish"
              => Count(Append(responseQueue, wresponse), NilId) = Count(responseQueue, NilId)
        BY ONLY <2>5, <3>2, <3>3
      <3> QED
        BY ONLY <3>1, <3>3, <3>4
    <2>7. \A q : Count(q, NilId)' = Count(q', NilId)
      BY DEF Count
    <2>8. InFlight(NilId) = 0 /\ InFlight(NilId)' \in Nat
      BY <1>0, SysInFlightNext DEF QuietInv
    <2> HIDE DEF InFlight, Count
    <2> QED
      BY <2>1, <2>4, <2>6, <2>7, <2>8
  <1> QED
    BY <1>1, <1>2, <1>3 DEF QuietInv, AnswersAreStored, NoRow

(* The core's part in it: what it stores the table takes.                    *)
LEMMA QuietCore ==
  ASSUME DbMayFail = FALSE, ConnMayFail = FALSE, ComputeMayFail = FALSE, MaxRestarts = 0,
         SysCoreInv, SysCoreInv', QuietInv, CoreNext \/ UNCHANGED vars, UNCHANGED workerVars
  PROVE  QuietInv'
  <1>0. /\ TypeOK /\ TypeOK' /\ CoreInv /\ NilId \notin Puts /\ [Next]_vars
        /\ table \in [Ids -> Row \cup {NoRow}] /\ NilId \in Ids
    BY CallAssumption
    DEF SysCoreInv, SysTypeOK, TypeOK, StorageTypeOK, Calls, Ids, Next
  <1>1. connected' /\ restarts' = 0
    <2>1. connected'
      BY <1>0, StaysConnected DEF QuietInv
    <2> QED
      BY <1>0, <2>1, FaultAssumption DEF TypeOK
  <1>2. WorkerIsUp'
    BY DEF workerVars, QuietInv, WorkerIsUp
  <1>3. InFlight(NilId)' = 0
    <2>1. InFlight(NilId)' = InFlight(NilId) + (IF Submits(NilId) THEN 1 ELSE 0)
                                             - (IF Records(NilId) THEN 1 ELSE 0)
      BY <1>0, <1>1, UndisturbedFlow
    <2>2. ~Submits(NilId)
      BY <1>0, SubmitsFresh
    <2>3. InFlight(NilId) = 0 /\ InFlight(NilId)' \in Nat
      BY <1>0, InFlightNext DEF QuietInv
    <2> HIDE DEF InFlight
    <2> QED
      BY <2>1, <2>2, <2>3
  <1>4. table'[NilId] = NoRow /\ errorLog' = {}
    <2>1. CASE UNCHANGED storageVars
      BY <2>1 DEF QuietInv, AnswersAreStored, storageVars
    <2>2. CASE RecordPending /\ UpdStatus(Status(ecall.msg.id, "PENDING"))
      <3>1. ecall.msg.op = "PUT" /\ ecall.ret \in Calls
        BY <1>0, <2>2 DEF RecordPending, TypeOK, EngineTypeOK, ClientToServer
      <3>2. ecall.msg.id \in Puts
        BY <1>0, <2>2, <3>1 DEF RecordPending, CoreInv, CallsAreOwn, Own
      <3> QED
        BY <1>0, <2>2, <3>2 DEF UpdStatus, Upsert, Status, DbStatus, QuietInv, AnswersAreStored
    <2>3. CASE RecordUpdate /\ UpdStatus(eupdate)
      <3>1. eupdate.id # NilId
        <4>1. epc = "update" /\ Held(epc = "update", NilId, eupdate) = 0
          <5>1. InFlight(NilId) = 0
            BY DEF QuietInv
          <5> QED
            BY <1>0, <2>3, <5>1, InFlightType DEF InFlight, RecordUpdate
        <4> QED
          BY <4>1 DEF Held
      <3>2. eupdate.status = "SUCCESS"
        BY <1>0, <3>1 DEF CoreInv, ResultsAreFinal, IsResult
      <3> QED
        BY <1>0, <2>3, <3>1, <3>2 DEF UpdStatus, Upsert, DbStatus, QuietInv, AnswersAreStored
    <2> QED
      BY <1>0, <2>1, <2>2, <2>3, OnlyEngineWrites
  <1> QED
    BY <1>1, <1>2, <1>3, <1>4 DEF QuietInv, AnswersAreStored, NoRow

(* Where nothing fails every answer of the compute service is stored         *)
(* (test_compute.py:39, engine.go:70), and a PENDING request is on its way,  *)
(* once, through the queues, the service's thread and back: every request    *)
(* that is accepted names a detector which the service has loaded.           *)
THEOREM NothingFailsNothingIsLost ==
  ASSUME DbMayFail = FALSE, ConnMayFail = FALSE, ComputeMayFail = FALSE, MaxRestarts = 0,
         MaxWorkerStarts <= 1
  PROVE  SysSpec => [](AnswersAreStored /\ SysPendingIsCarried)
  <1>1. SysInit => QuietInv
    <2> SUFFICES ASSUME SysInit PROVE QuietInv
      OBVIOUS
    <2>1. NilId \in Ids /\ OnTheWay = {}
      BY NamedEmpty DEF SysInit, Init, OnTheWay, ChannelInit, EngineInit, RouterInit,
                        QueueInit, Ids
    <2>2. InFlight(NilId) = 0
      BY <2>1, InitType, NotOnTheWay DEF SysInit
    <2> QED
      BY <2>1, <2>2 DEF SysInit, Init, WorkerInit, RouterInit, StorageInit, QuietInv,
                        WorkerIsUp, AnswersAreStored
  <1>2. SysCoreInv /\ SysCoreInv' /\ QuietInv /\ [SysNext]_sysVars => QuietInv'
    <2> SUFFICES ASSUME SysCoreInv, SysCoreInv', QuietInv, [SysNext]_sysVars PROVE QuietInv'
      OBVIOUS
    <2>1. ~SysCrash
      BY DEF SysCrash, BrokerCrash
    <2> QED
      BY <2>1, QuietWorker, QuietCore DEF SysNext, sysVars
  <1>3. QuietInv /\ PendingIsCarriedOrLost => AnswersAreStored /\ SysPendingIsCarried
    <2> SUFFICES ASSUME QuietInv, PendingIsCarriedOrLost, NEW id \in Puts,
                        table[id].status = "PENDING"
                 PROVE  SysInFlight(id) = 1
      BY DEF SysPendingIsCarried, QuietInv
    <2>1. ~Disturbed /\ ~ResultLost(id)
      BY DEF QuietInv, WorkerIsUp, Disturbed, ResultLost, AnswersAreStored
    <2> QED
      BY <2>1 DEF PendingIsCarriedOrLost, Traced
  <1> QED
    BY <1>1, <1>2, <1>3, SystemInvariance, NothingIsLostUnseen, PTL DEF SysSpec
=============================================================================
