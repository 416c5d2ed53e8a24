--------------------------- MODULE MangoCoreCounts ---------------------------
(***************************************************************************)
(* How many times a request is on its way, and how many messages are: for  *)
(* every value of the constants, a request is never on its way twice, is   *)
(* not lost when nothing fails, and the two goroutines of the core do not  *)
(* block each other below a load that fills what is between them.          *)
(***************************************************************************)
EXTENDS MangoCoreSafety, FiniteSetTheorems

-----------------------------------------------------------------------------
(* Counting in queues.                                                       *)

(* A set of numbers that fits, moved, into another is no larger.             *)
LEMMA MovedSet ==
  ASSUME NEW A \in SUBSET Int, NEW B, IsFiniteSet(B), NEW n \in Int,
         \A i \in A : i + n \in B
  PROVE  IsFiniteSet(A) /\ Cardinality(A) <= Cardinality(B)
  <1> DEFINE f == [i \in A |-> i + n]
  <1>1. f \in Injection(A, B)
    <2>1. f \in [A -> B]
      OBVIOUS
    <2>2. \A i, j \in A : f[i] = f[j] => i = j
      OBVIOUS
    <2> QED
      BY <2>1, <2>2 DEF Injection, IsInjective
  <1> QED
    BY <1>1, FS_Injection

Places(q, id) == {i \in DOMAIN q : q[i].id = id}

(* Counts are numbers.                                                       *)
LEMMA CountType ==
  ASSUME NEW S, NEW q \in Seq(S), NEW id
  PROVE  /\ Places(q, id) \in SUBSET Nat /\ IsFiniteSet(Places(q, id))
         /\ Count(q, id) = Cardinality(Places(q, id)) /\ Count(q, id) \in Nat
  <1>1. Len(q) \in Nat /\ DOMAIN q = 1 .. Len(q)
    BY LenProperties
  <1>2. IsFiniteSet(1 .. Len(q))
    BY <1>1, FS_Interval
  <1>3. Places(q, id) \in SUBSET (1 .. Len(q))
    BY <1>1 DEF Places
  <1>4. IsFiniteSet(Places(q, id)) /\ Cardinality(Places(q, id)) \in Nat
    BY <1>2, <1>3, FS_Subset, FS_CardinalityType
  <1> QED
    BY <1>1, <1>3, <1>4 DEF Count, Places

(* There is nothing in an empty queue.                                       *)
LEMMA CountEmpty == \A id : Count(<< >>, id) = 0
  <1>1. \A id : {i \in DOMAIN << >> : << >>[i].id = id} = {}
    OBVIOUS
  <1> QED
    BY <1>1, FS_EmptySet DEF Count

(* Adding to a queue adds one of that id.                                    *)
LEMMA CountAdded ==
  ASSUME NEW S, NEW q \in Seq(S), NEW x \in S, NEW id
  PROVE  Count(Append(q, x), id) = Count(q, id) + (IF x.id = id THEN 1 ELSE 0)
  <1> DEFINE n == Len(q) + 1
  <1>1. /\ Len(q) \in Nat /\ DOMAIN q = 1 .. Len(q)
        /\ DOMAIN Append(q, x) = 1 .. n
        /\ \A i \in 1 .. Len(q) : Append(q, x)[i] = q[i]
        /\ Append(q, x)[n] = x
    BY AppendProperties, LenProperties
  <1>2. /\ Count(q, id) = Cardinality(Places(q, id)) /\ IsFiniteSet(Places(q, id))
        /\ Count(Append(q, x), id) = Cardinality(Places(Append(q, x), id))
        /\ Count(q, id) \in Nat
    BY CountType, AppendProperties
  <1>3. n \notin Places(q, id)
    BY <1>1 DEF Places
  <1>4. CASE x.id = id
    <2>1. Places(Append(q, x), id) = Places(q, id) \cup {n}
      BY <1>1, <1>4 DEF Places
    <2>2. Cardinality(Places(q, id) \cup {n}) = Cardinality(Places(q, id)) + 1
      BY <1>2, <1>3, FS_AddElement
    <2> QED
      BY <1>2, <1>4, <2>1, <2>2
  <1>5. CASE x.id # id
    <2>1. Places(Append(q, x), id) = Places(q, id)
      BY <1>1, <1>5 DEF Places
    <2> QED
      BY <1>2, <1>5, <2>1
  <1> QED
    BY <1>4, <1>5

(* Taking the first of a queue takes one of that id.                         *)
LEMMA CountTaken ==
  ASSUME NEW S, NEW q \in Seq(S), q # << >>, NEW id
  PROVE  Count(q, id) = Count(Tail(q), id) + (IF Head(q).id = id THEN 1 ELSE 0)
  <1> DEFINE A == Places(Tail(q), id)
             B == Places(q, id) \ {1}
  <1>1. /\ Len(q) \in Nat \ {0} /\ DOMAIN q = 1 .. Len(q) /\ Head(q) = q[1]
        /\ DOMAIN Tail(q) = 1 .. Len(q) - 1
        /\ \A i \in 1 .. Len(q) - 1 : Tail(q)[i] = q[i + 1]
    BY EmptySeq, LenProperties, HeadTailProperties
  <1>2. /\ Count(q, id) = Cardinality(Places(q, id)) /\ IsFiniteSet(Places(q, id))
        /\ Count(Tail(q), id) = Cardinality(A) /\ IsFiniteSet(A)
        /\ Count(q, id) \in Nat /\ Count(Tail(q), id) \in Nat
    BY CountType, HeadTailProperties
  <1>3. /\ IsFiniteSet(B)
        /\ Cardinality(B) = IF 1 \in Places(q, id) THEN Cardinality(Places(q, id)) - 1
                                                   ELSE Cardinality(Places(q, id))
    BY <1>2, FS_RemoveElement
  <1>4. A \in SUBSET Int /\ B \in SUBSET Int
    BY <1>1 DEF Places
  <1>5. \A i \in A : i + 1 \in B
    BY <1>1 DEF Places
  <1>6. \A i \in B : i + (-1) \in A
    <2> SUFFICES ASSUME NEW i \in B PROVE i + (-1) \in A
      OBVIOUS
    <2>1. i \in 2 .. Len(q) /\ q[i].id = id
      BY <1>1 DEF Places
    <2>2. i + (-1) \in 1 .. Len(q) - 1 /\ (i + (-1)) + 1 = i
      BY <1>1, <2>1
    <2>3. Tail(q)[i + (-1)] = q[i]
      BY <1>1, <2>2
    <2> QED
      BY <1>1, <2>1, <2>2, <2>3 DEF Places
  <1>7. 1 \in Places(q, id) <=> Head(q).id = id
    BY <1>1 DEF Places
  <1> HIDE DEF A, B
  <1>8. Cardinality(A) <= Cardinality(B)
    BY <1>3, <1>4, <1>5, 1 \in Int, MovedSet
  <1>9. Cardinality(B) <= Cardinality(A)
    BY <1>2, <1>4, <1>6, -1 \in Int, MovedSet
  <1>10. Cardinality(A) \in Nat /\ Cardinality(B) \in Nat /\ Cardinality(Places(q, id)) \in Nat
    BY <1>2, <1>3, FS_CardinalityType
  <1> QED
    BY <1>2, <1>3, <1>7, <1>8, <1>9, <1>10

(* Losing the end or the beginning of a queue adds none.                     *)
LEMMA CountCut ==
  ASSUME NEW S, NEW q \in Seq(S), NEW n \in 0 .. Len(q), NEW id
  PROVE  /\ Count(SubSeq(q, 1, n), id) <= Count(q, id)
         /\ Count(SubSeq(q, n + 1, Len(q)), id) <= Count(q, id)
  <1>1. Len(q) \in Nat /\ DOMAIN q = 1 .. Len(q)
    BY LenProperties
  <1>2. /\ SubSeq(q, 1, n) \in Seq(S) /\ SubSeq(q, n + 1, Len(q)) \in Seq(S)
    BY Cut
  <1>3. /\ DOMAIN SubSeq(q, 1, n) = 1 .. n
        /\ \A i \in 1 .. n : SubSeq(q, 1, n)[i] = q[i]
    BY <1>1
  <1>4. /\ DOMAIN SubSeq(q, n + 1, Len(q)) = 1 .. Len(q) - n
        /\ \A i \in 1 .. Len(q) - n : SubSeq(q, n + 1, Len(q))[i] = q[i + n]
    BY <1>1
  <1>5. \A i \in Places(SubSeq(q, 1, n), id) : i + 0 \in Places(q, id)
    BY <1>1, <1>3 DEF Places
  <1>6. \A i \in Places(SubSeq(q, n + 1, Len(q)), id) : i + n \in Places(q, id)
    BY <1>1, <1>4 DEF Places
  <1>7. IsFiniteSet(Places(q, id)) /\ Count(q, id) = Cardinality(Places(q, id))
    BY CountType
  <1>8. Nat \subseteq Int /\ 0 \in Int /\ n \in Int
    BY <1>1
  <1>9. /\ Places(SubSeq(q, 1, n), id) \in SUBSET Int
        /\ Count(SubSeq(q, 1, n), id) = Cardinality(Places(SubSeq(q, 1, n), id))
    BY <1>2, <1>8, CountType
  <1>10. /\ Places(SubSeq(q, n + 1, Len(q)), id) \in SUBSET Int
         /\ Count(SubSeq(q, n + 1, Len(q)), id)
              = Cardinality(Places(SubSeq(q, n + 1, Len(q)), id))
    BY <1>2, <1>8, CountType
  <1>11. Count(SubSeq(q, 1, n), id) <= Count(q, id)
    BY <1>5, <1>7, <1>8, <1>9, MovedSet
  <1>12. Count(SubSeq(q, n + 1, Len(q)), id) <= Count(q, id)
    BY <1>6, <1>7, <1>8, <1>10, MovedSet
  <1> QED
    BY <1>11, <1>12

-----------------------------------------------------------------------------
(* The way of one request.                                                   *)

(* What is held is one or none, and the number on the way is a number.       *)
LEMMA InFlightType ==
  ASSUME TypeOK, NEW id
  PROVE  /\ Count(computeSink, id) \in Nat /\ Count(requestQueue, id) \in Nat
         /\ Count(responseQueue, id) \in Nat /\ Count(rFeed, id) \in Nat
         /\ Count(computeFeed, id) \in Nat
         /\ Held(rpc = "publish", id, rrequest) \in {0, 1}
         /\ Held(rpc = "sink", id, rstatus) \in {0, 1}
         /\ Held(epc = "update", id, eupdate) \in {0, 1}
         /\ InFlight(id) \in Nat
  <1>1. /\ Count(computeSink, id) \in Nat /\ Count(requestQueue, id) \in Nat
        /\ Count(responseQueue, id) \in Nat /\ Count(rFeed, id) \in Nat
        /\ Count(computeFeed, id) \in Nat
    BY CountType DEF TypeOK, ChannelTypeOK, QueueTypeOK, RouterTypeOK
  <1>2. /\ Held(rpc = "publish", id, rrequest) \in {0, 1}
        /\ Held(rpc = "sink", id, rstatus) \in {0, 1}
        /\ Held(epc = "update", id, eupdate) \in {0, 1}
    BY DEF Held
  <1> QED
    BY <1>1, <1>2 DEF InFlight

(* And so it is after a step.                                                *)
LEMMA InFlightNext ==
  ASSUME TypeOK', NEW id
  PROVE  InFlight(id)' \in Nat
  <1>1. /\ Count(computeSink', id) \in Nat /\ Count(requestQueue', id) \in Nat
        /\ Count(responseQueue', id) \in Nat /\ Count(rFeed', id) \in Nat
        /\ Count(computeFeed', id) \in Nat
    BY CountType DEF TypeOK, ChannelTypeOK, QueueTypeOK, RouterTypeOK
  <1>2. /\ Held(rpc' = "publish", id, rrequest') \in {0, 1}
        /\ Held(rpc' = "sink", id, rstatus') \in {0, 1}
        /\ Held(epc' = "update", id, eupdate') \in {0, 1}
    BY DEF Held
  <1> QED
    BY <1>1, <1>2 DEF InFlight

(* Submitting a request puts it on its way; the update of a request takes it *)
(* off; nothing else the engine does changes how often it is on its way.     *)
LEMMA EngineFlow ==
  ASSUME TypeOK, Engine, NEW id
  PROVE  InFlight(id)' = InFlight(id)
                           + (IF SubmitToCompute /\ ecall.msg.id = id THEN 1 ELSE 0)
                           - (IF RecordUpdate /\ eupdate.id = id THEN 1 ELSE 0)
  <1> USE DEF Engine, routerVars, queues, InFlight
  <1>0. /\ Count(computeSink, id) \in Nat /\ Count(requestQueue, id) \in Nat
        /\ Count(responseQueue, id) \in Nat /\ Count(rFeed, id) \in Nat
        /\ Count(computeFeed, id) \in Nat
        /\ Held(rpc = "publish", id, rrequest) \in {0, 1}
        /\ Held(rpc = "sink", id, rstatus) \in {0, 1}
        /\ Held(epc = "update", id, eupdate) \in {0, 1}
    BY InFlightType
  <1>00. /\ UNCHANGED <<rpc, rrequest, rstatus, rFeed, requestQueue, responseQueue>>
         /\ Held(rpc = "publish", id, rrequest)' = Held(rpc = "publish", id, rrequest)
         /\ Held(rpc = "sink", id, rstatus)' = Held(rpc = "sink", id, rstatus)
    BY DEF Held
  <1>1. CASE SubmitToCompute
    <2>1. ecall.msg \in Message
      BY <1>1 DEF SubmitToCompute, TypeOK, EngineTypeOK, ClientToServer
    <2>2. Count(computeSink', id)
            = Count(computeSink, id) + (IF ecall.msg.id = id THEN 1 ELSE 0)
      BY <1>1, <2>1, CountAdded DEF SubmitToCompute, TypeOK, ChannelTypeOK
    <2>3. /\ Held(epc = "update", id, eupdate)' = Held(epc = "update", id, eupdate)
          /\ computeFeed' = computeFeed /\ ~RecordUpdate
      BY <1>1 DEF SubmitToCompute, RecordUpdate, Held
    <2> QED
      BY <1>0, <1>00, <1>1, <2>2, <2>3
  <1>2. CASE RecordUpdate
    <2>1. /\ Held(epc = "update", id, eupdate)' = 0
          /\ Held(epc = "update", id, eupdate) = (IF eupdate.id = id THEN 1 ELSE 0)
          /\ UNCHANGED <<computeSink, computeFeed>> /\ ~SubmitToCompute
      BY <1>2 DEF SubmitToCompute, RecordUpdate, Held, channels
    <2> QED
      BY <1>0, <1>00, <1>2, <2>1
  <1>3. CASE TakeUpdate
    <2>1. Count(computeFeed, id)
            = Count(computeFeed', id) + (IF eupdate'.id = id THEN 1 ELSE 0)
      BY <1>3, CountTaken DEF TakeUpdate, TypeOK, ChannelTypeOK
    <2>2. Count(computeFeed', id) \in Nat
      BY <1>3, Taken, CountType DEF TakeUpdate, TypeOK, ChannelTypeOK
    <2>3. /\ Held(epc = "update", id, eupdate) = 0
          /\ Held(epc = "update", id, eupdate)' = (IF eupdate'.id = id THEN 1 ELSE 0)
          /\ computeSink' = computeSink /\ ~SubmitToCompute /\ ~RecordUpdate
      BY <1>3 DEF TakeUpdate, SubmitToCompute, RecordUpdate, Held
    <2> QED
      BY <1>0, <1>00, <2>1, <2>2, <2>3
  <1>4. CASE TakeCall \/ RecordPending \/ Query \/ EngineIdle
    <2>1. /\ Held(epc = "update", id, eupdate)' = Held(epc = "update", id, eupdate)
          /\ UNCHANGED <<computeSink, computeFeed>>
          /\ ~SubmitToCompute /\ ~RecordUpdate
      BY <1>4 DEF TakeCall, RecordPending, Query, EngineIdle, SubmitToCompute,
                  RecordUpdate, Held, channels, engineVars
    <2> QED
      BY <1>0, <1>00, <2>1
  <1> QED
    BY <1>1, <1>2, <1>3, <1>4

(* The failures that replace a lost request or answer name no request, and   *)
(* what does not unmarshal named none before.                                *)
LEMMA NobodysFailure ==
  /\ \A id : id # NilId => Failure.id # id /\ Garbled.id # id
  /\ \A body : Unmarshal(body).id = body.id
  BY DEF Failure, Garbled, Status, Unmarshal

(* The router hands on what it takes, except when it cannot publish; then it *)
(* has a failure instead, that names no request.                             *)
LEMMA RouteFlow ==
  ASSUME TypeOK, Route, NEW id
  PROVE  /\ id # NilId => InFlight(id)' <= InFlight(id)
         /\ connected => InFlight(id)' = InFlight(id)
  <1> USE DEF Route, engineVars, InFlight, TypeOK
  <1>0. /\ Count(computeSink, id) \in Nat /\ Count(requestQueue, id) \in Nat
        /\ Count(responseQueue, id) \in Nat /\ Count(rFeed, id) \in Nat
        /\ Count(computeFeed, id) \in Nat
        /\ Held(rpc = "publish", id, rrequest) \in {0, 1}
        /\ Held(rpc = "sink", id, rstatus) \in {0, 1}
        /\ Held(epc = "update", id, eupdate) \in {0, 1}
    BY InFlightType
  <1>00. Held(epc = "update", id, eupdate)' = Held(epc = "update", id, eupdate)
    BY DEF Held
  <1>1. CASE TakeRequest
    <2>1. Count(computeSink, id)
            = Count(computeSink', id) + (IF rrequest'.id = id THEN 1 ELSE 0)
          /\ Count(computeSink', id) \in Nat
      BY <1>1, CountTaken, Taken, CountType DEF TakeRequest, ChannelTypeOK
    <2>2. /\ Held(rpc = "publish", id, rrequest) = 0
          /\ Held(rpc = "publish", id, rrequest)' = (IF rrequest'.id = id THEN 1 ELSE 0)
          /\ Held(rpc = "sink", id, rstatus)' = Held(rpc = "sink", id, rstatus)
          /\ UNCHANGED <<requestQueue, responseQueue, rFeed, computeFeed>>
      BY <1>1 DEF TakeRequest, Held, queues
    <2> QED
      BY <1>0, <1>00, <2>1, <2>2
  <1>2. CASE Publish
    <2>1. Count(requestQueue', id)
            = Count(requestQueue, id) + (IF rrequest.id = id THEN 1 ELSE 0)
      BY <1>2, CountAdded DEF Publish, QueueTypeOK, RouterTypeOK
    <2>2. /\ Held(rpc = "publish", id, rrequest)' = 0
          /\ Held(rpc = "publish", id, rrequest) = (IF rrequest.id = id THEN 1 ELSE 0)
          /\ Held(rpc = "sink", id, rstatus)' = Held(rpc = "sink", id, rstatus)
          /\ UNCHANGED <<computeSink, responseQueue, rFeed, computeFeed>>
      BY <1>2 DEF Publish, Held
    <2> QED
      BY <1>0, <1>00, <2>1, <2>2
  <1>3. CASE PublishFails
    <2>1. /\ Held(rpc = "publish", id, rrequest)' = 0
          /\ id # NilId => Held(rpc = "sink", id, rstatus)' = 0
          /\ UNCHANGED <<computeSink, requestQueue, responseQueue, rFeed, computeFeed>>
          /\ ~connected
      BY <1>3, NobodysFailure DEF PublishFails, Held, queues
    <2> QED
      BY <1>0, <1>00, <2>1
  <1>4. CASE TakeDelivery
    <2>1. Count(rFeed, id) = Count(rFeed', id) + (IF Head(rFeed).id = id THEN 1 ELSE 0)
          /\ Count(rFeed', id) \in Nat
      BY <1>4, CountTaken, Taken, CountType DEF TakeDelivery, RouterTypeOK
    <2>2. /\ Held(rpc = "publish", id, rrequest)' = Held(rpc = "publish", id, rrequest)
          /\ Held(rpc = "sink", id, rstatus)' = (IF Head(rFeed).id = id THEN 1 ELSE 0)
          /\ Held(rpc = "sink", id, rstatus) = 0
          /\ UNCHANGED <<computeSink, requestQueue, responseQueue, computeFeed>>
      BY <1>4, NobodysFailure DEF TakeDelivery, Held, queues
    <2> QED
      BY <1>0, <1>00, <2>1, <2>2
  <1>5. CASE TakeFromClosed
    <2>1. /\ Held(rpc = "publish", id, rrequest)' = 0
          /\ id # NilId => Held(rpc = "sink", id, rstatus)' = 0
          /\ UNCHANGED <<computeSink, requestQueue, responseQueue, rFeed, computeFeed>>
          /\ ~connected
      BY <1>5, NobodysFailure DEF TakeFromClosed, Garbled, Status, Held, queues
    <2> QED
      BY <1>0, <1>00, <2>1
  <1>6. CASE SinkStatus
    <2>1. Count(computeFeed', id)
            = Count(computeFeed, id) + (IF rstatus.id = id THEN 1 ELSE 0)
      BY <1>6, CountAdded DEF SinkStatus, ChannelTypeOK, RouterTypeOK
    <2>2. /\ Held(rpc = "publish", id, rrequest)' = Held(rpc = "publish", id, rrequest)
          /\ Held(rpc = "sink", id, rstatus)' = 0
          /\ Held(rpc = "sink", id, rstatus) = (IF rstatus.id = id THEN 1 ELSE 0)
          /\ UNCHANGED <<computeSink, requestQueue, responseQueue, rFeed>>
      BY <1>6 DEF SinkStatus, Held, queues
    <2> QED
      BY <1>0, <1>00, <2>1, <2>2
  <1>7. CASE RouterIdle
    <2>1. /\ Held(rpc = "publish", id, rrequest)' = Held(rpc = "publish", id, rrequest)
          /\ Held(rpc = "sink", id, rstatus)' = Held(rpc = "sink", id, rstatus)
          /\ UNCHANGED <<computeSink, requestQueue, responseQueue, rFeed, computeFeed>>
      BY <1>7 DEF RouterIdle, routerVars, Held, queues
    <2> QED
      BY <1>0, <1>00, <2>1
  <1> QED
    BY <1>1, <1>2, <1>3, <1>4, <1>5, <1>6, <1>7

(* The broker's delivery moves an answer on; a lost connection and a crash   *)
(* of the broker only lose.                                                  *)
LEMMA BrokerFlow ==
  ASSUME TypeOK, Broker \/ BrokerCrash, NEW id
  PROVE  /\ InFlight(id)' <= InFlight(id)
         /\ ~ConnMayFail \/ connected' => InFlight(id)' = InFlight(id)
  <1> USE DEF engineVars, InFlight, TypeOK
  <1>0. /\ Count(computeSink, id) \in Nat /\ Count(requestQueue, id) \in Nat
        /\ Count(responseQueue, id) \in Nat /\ Count(rFeed, id) \in Nat
        /\ Count(computeFeed, id) \in Nat
        /\ Held(rpc = "publish", id, rrequest) \in {0, 1}
        /\ Held(rpc = "sink", id, rstatus) \in {0, 1}
        /\ Held(epc = "update", id, eupdate) \in {0, 1}
    BY InFlightType
  <1>1. CASE Broker /\ Deliver
    <2>0. responseQueue # << >> /\ responseQueue \in Seq(DetectionStatus)
          /\ rFeed \in Seq(DetectionStatus) /\ Head(responseQueue) \in DetectionStatus
          /\ responseQueue' = Tail(responseQueue)
          /\ rFeed' = Append(rFeed, Head(responseQueue))
          /\ Tail(responseQueue) \in Seq(DetectionStatus)
      BY <1>1, Taken DEF Deliver, QueueTypeOK, RouterTypeOK
    <2>1. Count(responseQueue, id)
            = Count(responseQueue', id) + (IF Head(responseQueue).id = id THEN 1 ELSE 0)
      BY <2>0, CountTaken
    <2>2. Count(rFeed', id)
            = Count(rFeed, id) + (IF Head(responseQueue).id = id THEN 1 ELSE 0)
          /\ Count(responseQueue', id) \in Nat
      BY <2>0, CountAdded, CountType
    <2>3. /\ UNCHANGED <<computeSink, requestQueue, computeFeed>>
          /\ Held(rpc = "publish", id, rrequest)' = Held(rpc = "publish", id, rrequest)
          /\ Held(rpc = "sink", id, rstatus)' = Held(rpc = "sink", id, rstatus)
          /\ Held(epc = "update", id, eupdate)' = Held(epc = "update", id, eupdate)
      BY <1>1 DEF Broker, Deliver, Held
    <2> QED
      BY <1>0, <2>1, <2>2, <2>3
  <1>2. CASE (Broker /\ LoseConnection) \/ BrokerCrash
    <2>1. /\ Count(requestQueue', id) <= Count(requestQueue, id)
          /\ Count(requestQueue', id) \in Nat
      <3>1. CASE LoseConnection
        BY <1>2, <3>1, CountCut, Cut, CountType DEF LoseConnection, QueueTypeOK
      <3>2. CASE BrokerCrash
        BY <1>0, <3>2, CountEmpty DEF BrokerCrash, QueuesLost
      <3> QED
        BY <1>2, <3>1, <3>2
    <2>2. /\ Count(rFeed', id) = 0
          /\ Count(responseQueue', id) \in {0, Count(responseQueue, id)}
          /\ UNCHANGED <<computeSink, computeFeed>>
      BY <1>2, CountEmpty DEF Broker, BrokerCrash, LoseConnection, QueuesLost, RouterCutOff,
                              channels
    <2>3. /\ Held(rpc = "publish", id, rrequest)' = Held(rpc = "publish", id, rrequest)
          /\ Held(rpc = "sink", id, rstatus)' = Held(rpc = "sink", id, rstatus)
          /\ Held(epc = "update", id, eupdate)' = Held(epc = "update", id, eupdate)
          /\ ConnMayFail /\ ~connected'
      BY <1>2 DEF Broker, BrokerCrash, LoseConnection, RouterCutOff, Held
    <2> QED
      BY <1>0, <2>1, <2>2, <2>3
  <1> QED
    BY <1>1, <1>2 DEF Broker

(* The compute service answers each request it takes once at most.           *)
LEMMA ComputeFlow ==
  ASSUME TypeOK, Compute, NEW id, id # NilId
  PROVE  /\ InFlight(id)' <= InFlight(id)
         /\ ~ComputeMayFail => InFlight(id)' = InFlight(id)
  <1> USE DEF Compute, engineVars, routerVars, InFlight, TypeOK
  <1>0. /\ Count(computeSink, id) \in Nat /\ Count(requestQueue, id) \in Nat
        /\ Count(responseQueue, id) \in Nat /\ Count(rFeed, id) \in Nat
        /\ Count(computeFeed, id) \in Nat
        /\ Held(rpc = "publish", id, rrequest) \in {0, 1}
        /\ Held(rpc = "sink", id, rstatus) \in {0, 1}
        /\ Held(epc = "update", id, eupdate) \in {0, 1}
    BY InFlightType
  <1>00. /\ UNCHANGED <<computeSink, computeFeed, rFeed>>
         /\ Held(rpc = "publish", id, rrequest)' = Held(rpc = "publish", id, rrequest)
         /\ Held(rpc = "sink", id, rstatus)' = Held(rpc = "sink", id, rstatus)
         /\ Held(epc = "update", id, eupdate)' = Held(epc = "update", id, eupdate)
    BY DEF Held
  <1>1. CASE ComputeAnswers
    <2>0. /\ requestQueue # << >> /\ requestQueue \in Seq(Message)
          /\ requestQueue' = Tail(requestQueue) /\ Head(requestQueue) \in Message
          /\ Tail(requestQueue) \in Seq(Message)
          /\ responseQueue \in Seq(DetectionStatus)
      BY <1>1, Taken DEF ComputeAnswers, QueueTypeOK
    <2>1. PICK answer \in Answers(Head(requestQueue)) :
            responseQueue' = Append(responseQueue, answer)
      BY <1>1 DEF ComputeAnswers
    <2>2. /\ answer \in DetectionStatus
          /\ answer.id = id => Head(requestQueue).id = id
          /\ ~ComputeMayFail => answer.id = Head(requestQueue).id
      BY <2>0, AnswersType, NobodysFailure DEF Answers, Status
    <2>3. Count(requestQueue, id)
            = Count(requestQueue', id) + (IF Head(requestQueue).id = id THEN 1 ELSE 0)
          /\ Count(requestQueue', id) \in Nat
      BY <2>0, CountTaken, CountType
    <2>4. Count(responseQueue', id)
            = Count(responseQueue, id) + (IF answer.id = id THEN 1 ELSE 0)
      BY <2>0, <2>1, <2>2, CountAdded
    <2> QED
      BY <1>0, <1>00, <2>2, <2>3, <2>4
  <1>2. CASE ComputeDrops
    <2>1. /\ Count(requestQueue', id) <= Count(requestQueue, id)
          /\ Count(requestQueue', id) \in Nat
          /\ responseQueue' = responseQueue /\ ComputeMayFail
      <3>1. PICK n \in 1 .. Len(requestQueue) :
              requestQueue' = SubSeq(requestQueue, n + 1, Len(requestQueue))
        BY <1>2 DEF ComputeDrops
      <3>2. requestQueue \in Seq(Message) /\ n \in 0 .. Len(requestQueue)
        BY LenProperties DEF QueueTypeOK
      <3>3. /\ Count(requestQueue', id) <= Count(requestQueue, id)
            /\ requestQueue' \in Seq(Message)
        BY <3>1, <3>2, CountCut, Cut
      <3>4. Count(requestQueue', id) \in Nat
        BY <3>3, CountType
      <3> QED
        BY <1>2, <3>3, <3>4 DEF ComputeDrops
    <2> QED
      BY <1>0, <1>00, <2>1
  <1> QED
    BY <1>1, <1>2

(* A restart loses what the process held; the queues stay.                   *)
LEMMA RestartFlow ==
  ASSUME TypeOK, Restart, NEW id
  PROVE  InFlight(id)' <= InFlight(id)
  <1>1. /\ Count(computeSink', id) = 0 /\ Count(computeFeed', id) = 0
        /\ Count(rFeed', id) = 0 /\ UNCHANGED queues
        /\ Held(rpc = "publish", id, rrequest)' = 0
        /\ Held(rpc = "sink", id, rstatus)' = 0
        /\ Held(epc = "update", id, eupdate)' = 0
    BY CountEmpty DEF Restart, ChannelRestart, EngineRestart, RouterRestart, Held
  <1> QED
    BY <1>1, InFlightType DEF InFlight, queues

(* A request comes on its way when the engine submits it and is off it when  *)
(* the engine records its result; nothing else brings it there, and where    *)
(* nothing fails nothing else takes it away.                                 *)
Submits(id) == Engine /\ SubmitToCompute /\ ecall.msg.id = id
Records(id) == Engine /\ RecordUpdate /\ eupdate.id = id

LEMMA Flow ==
  ASSUME TypeOK, [Next]_vars, NEW id, id # NilId
  PROVE  /\ ~Submits(id) => InFlight(id)' <= InFlight(id)
         /\ Submits(id) => InFlight(id)' = InFlight(id) + 1
         /\ Records(id) => InFlight(id)' = InFlight(id) - 1
         /\ connected /\ ~ConnMayFail /\ ~ComputeMayFail /\ MaxRestarts = 0
              /\ ~Submits(id) /\ ~Records(id) => InFlight(id)' = InFlight(id)
  <1>0. InFlight(id) \in Nat
    BY InFlightType
  <1>1. CASE Engine
    <2>1. ~(SubmitToCompute /\ RecordUpdate)
      BY DEF SubmitToCompute, RecordUpdate
    <2>2. InFlight(id)' = InFlight(id)
                            + (IF SubmitToCompute /\ ecall.msg.id = id THEN 1 ELSE 0)
                            - (IF RecordUpdate /\ eupdate.id = id THEN 1 ELSE 0)
      BY <1>1, EngineFlow
    <2> HIDE DEF InFlight
    <2> QED
      BY <1>0, <1>1, <2>1, <2>2 DEF Submits, Records
  <1>2. CASE ~Engine
    <2>1. ~Submits(id) /\ ~Records(id)
      BY <1>2 DEF Submits, Records
    <2>2. CASE UNCHANGED vars \/ Answer \/ \E c \in Calls : Handle(c)
      <3>1. /\ UNCHANGED <<computeSink, computeFeed, rFeed, rpc, rrequest, rstatus>>
            /\ UNCHANGED <<requestQueue, responseQueue, eupdate>>
            /\ (epc = "update") = (epc' = "update")
        BY <2>2 DEF vars, Answer, Reply, Handle, engineVars, routerVars, channels, queues
      <3>2. InFlight(id)' = InFlight(id)
        BY <3>1 DEF InFlight, Held
      <3> QED
        BY <1>0, <2>1, <3>2
    <2>3. CASE Restart
      BY <1>0, <2>1, <2>3, RestartFlow, FaultAssumption DEF Restart, TypeOK
    <2>4. CASE Route \/ Broker \/ BrokerCrash \/ Compute
      BY <1>0, <2>1, <2>4, RouteFlow, BrokerFlow, ComputeFlow
    <2> QED
      BY <1>2, <2>2, <2>3, <2>4 DEF Next, CoreNext
  <1> QED
    BY <1>1, <1>2

(* In one life of the core, on a connection that holds, no step of the core  *)
(* or of the broker makes or loses a message, of whatever id.                *)
LEMMA UndisturbedFlow ==
  ASSUME TypeOK, CoreNext \/ BrokerCrash \/ UNCHANGED vars, connected', restarts' = 0,
         NEW id
  PROVE  InFlight(id)' = InFlight(id) + (IF Submits(id) THEN 1 ELSE 0)
                                      - (IF Records(id) THEN 1 ELSE 0)
  <1>0. InFlight(id) \in Nat
    BY InFlightType
  <1>1. CASE Engine
    <2>1. InFlight(id)' = InFlight(id)
                            + (IF SubmitToCompute /\ ecall.msg.id = id THEN 1 ELSE 0)
                            - (IF RecordUpdate /\ eupdate.id = id THEN 1 ELSE 0)
      BY <1>1, EngineFlow
    <2> HIDE DEF InFlight
    <2> QED
      BY <1>0, <1>1, <2>1 DEF Submits, Records
  <1>2. CASE ~Engine
    <2>1. ~Submits(id) /\ ~Records(id)
      BY <1>2 DEF Submits, Records
    <2>2. CASE UNCHANGED vars \/ Answer \/ \E c \in Calls : Handle(c)
      <3>1. /\ UNCHANGED <<computeSink, computeFeed, rFeed, rpc, rrequest, rstatus>>
            /\ UNCHANGED <<requestQueue, responseQueue, eupdate>>
            /\ (epc = "update") = (epc' = "update")
        BY <2>2 DEF vars, Answer, Reply, Handle, engineVars, routerVars, channels, queues
      <3>2. InFlight(id)' = InFlight(id)
        BY <3>1 DEF InFlight, Held
      <3> QED
        BY <1>0, <2>1, <3>2
    <2>3. CASE Route
      <3>1. connected
        BY <2>3 DEF Route, TakeRequest, Publish, PublishFails, TakeDelivery,
                    TakeFromClosed, SinkStatus, RouterIdle, routerVars
      <3> QED
        BY <1>0, <2>1, <2>3, <3>1, RouteFlow
    <2>4. CASE Broker \/ BrokerCrash
      BY <1>0, <2>1, <2>4, BrokerFlow
    <2>5. ~Restart
      BY DEF Restart, TypeOK
    <2> QED
      BY <1>2, <2>2, <2>3, <2>4, <2>5 DEF CoreNext
  <1> QED
    BY <1>1, <1>2

(* Nothing of a request that is not submitted is on its way.                 *)
LEMMA CountOfNone ==
  ASSUME NEW S, NEW q \in Seq(S), NEW id, id \notin Named(q)
  PROVE  Count(q, id) = 0
  <1>1. {i \in DOMAIN q : q[i].id = id} = {}
    BY DEF Named
  <1> QED
    BY <1>1, FS_EmptySet DEF Count

LEMMA NotOnTheWay ==
  ASSUME TypeOK, NEW id, id \notin OnTheWay
  PROVE  InFlight(id) = 0
  <1>1. /\ Count(computeSink, id) = 0 /\ Count(requestQueue, id) = 0
        /\ Count(responseQueue, id) = 0 /\ Count(rFeed, id) = 0
        /\ Count(computeFeed, id) = 0
    BY CountOfNone DEF OnTheWay, TypeOK, ChannelTypeOK, QueueTypeOK, RouterTypeOK
  <1>2. /\ Held(rpc = "publish", id, rrequest) = 0
        /\ Held(rpc = "sink", id, rstatus) = 0
        /\ Held(epc = "update", id, eupdate) = 0
    BY DEF OnTheWay, Held
  <1> QED
    BY <1>1, <1>2 DEF InFlight

(* The request the engine submits is a PUT's own and has left no trace.      *)
LEMMA SubmitsFresh ==
  ASSUME CoreInv, NEW id, Submits(id)
  PROVE  id \in Puts /\ table[id] = NoRow /\ InFlight(id) = 0 /\ UNCHANGED storageVars
  <1>1. /\ epc = "submit" /\ ecall.msg.op = "PUT" /\ ecall.msg.id = id
        /\ UNCHANGED storageVars
    BY DEF Submits, SubmitToCompute, CoreInv, TypeOK, EngineTypeOK
  <1>2. ecall.ret = id /\ id \in Puts
    BY <1>1 DEF CoreInv, CallsAreOwn, Own
  <1>3. table[id] = NoRow /\ id \notin OnTheWay
    BY <1>1, <1>2 DEF CoreInv, FreshHasNoTrace, NotSubmitted
  <1> QED
    BY <1>1, <1>2, <1>3, NotOnTheWay DEF CoreInv

(* The table changes only by the engine's steps, at the row of the request   *)
(* it marks PENDING or of the result it records.                             *)
LEMMA RowMoves ==
  ASSUME CoreInv, [Next]_vars, NEW id \in Puts
  PROVE  \/ table'[id] = table[id]
         \/ /\ Engine /\ RecordPending /\ ecall.msg.id = id
            /\ table'[id].status = "PENDING"
         \/ Records(id) /\ table'[id].status = eupdate.status
  <1>0. TypeOK /\ id \in Ids
    BY DEF CoreInv, Ids
  <1>1. UNCHANGED storageVars \/ Engine
    BY DEF Next, CoreNext, Handle, Answer, Reply, Route, Broker, Restart, BrokerCrash,
           Compute, vars
  <1>2. CASE UNCHANGED storageVars
    BY <1>2 DEF storageVars
  <1>3. CASE Engine /\ RecordPending /\ UpdStatus(Status(ecall.msg.id, "PENDING"))
    BY <1>0, <1>3, PendingStatus, UpdStatusWrites DEF RecordPending
  <1>4. CASE Engine /\ RecordUpdate /\ UpdStatus(eupdate)
    <2>1. eupdate \in DetectionStatus
      BY <1>0 DEF TypeOK, EngineTypeOK
    <2> QED
      BY <1>0, <1>4, <2>1, UpdStatusWrites DEF Records
  <1> QED
    BY <1>0, <1>1, <1>2, <1>3, <1>4, OnlyEngineWrites

-----------------------------------------------------------------------------
(* At most once.                                                             *)

(* A step keeps a request from being on its way twice, or after its result.  *)
LEMMA AtMostOnceStep ==
  ASSUME CoreInv, AtMostOnce, [Next]_vars
  PROVE  AtMostOnce'
  <1> SUFFICES ASSUME NEW id \in Puts
               PROVE  /\ InFlight(id)' <= 1
                      /\ table'[id].status \in Final => InFlight(id)' = 0
    BY DEF AtMostOnce
  <1>0. TypeOK /\ TypeOK' /\ id # NilId
    BY TypeStep, CallAssumption DEF CoreInv, Calls
  <1>1. InFlight(id) \in Nat /\ InFlight(id)' \in Nat
    BY <1>0, InFlightType, InFlightNext
  <1>2. /\ ~Submits(id) => InFlight(id)' <= InFlight(id)
        /\ Submits(id) => InFlight(id)' = InFlight(id) + 1
        /\ Records(id) => InFlight(id)' = InFlight(id) - 1
    BY <1>0, Flow
  <1>3. InFlight(id) <= 1 /\ (table[id].status \in Final => InFlight(id) = 0)
    BY DEF AtMostOnce
  <1>4. CASE Submits(id)
    <2>1. table'[id].status \notin Final /\ InFlight(id) = 0
      BY <1>4, SubmitsFresh DEF storageVars, NoRow, Final
    <2> QED
      BY <1>2, <1>4, <2>1
  <1>5. CASE Records(id)
    BY <1>1, <1>2, <1>3, <1>5
  <1>6. CASE ~Submits(id) /\ ~Records(id)
    <2>1. table'[id] = table[id] \/ table'[id].status \notin Final
      BY <1>6, RowMoves DEF Final
    <2> QED
      BY <1>1, <1>2, <1>3, <1>6, <2>1
  <1> QED
    BY <1>4, <1>5, <1>6

(* A request is never on its way twice, and not at all once its result is    *)
(* stored, whatever is lost, restarted or refused: engine.go and compute.go  *)
(* hand on what they take and keep no copy.                                  *)
THEOREM NeverOnItsWayTwice == Spec => []AtMostOnce
  <1>1. Init => AtMostOnce
    <2> SUFFICES ASSUME Init, NEW id \in Puts
                 PROVE  InFlight(id) = 0
      BY DEF AtMostOnce
    <2>1. OnTheWay = {}
      BY NamedEmpty DEF Init, OnTheWay, ChannelInit, EngineInit, RouterInit, QueueInit
    <2> QED
      BY <2>1, InitType, NotOnTheWay
  <1>2. CoreInv /\ AtMostOnce /\ [Next]_vars => AtMostOnce'
    BY AtMostOnceStep
  <1> QED
    BY <1>1, <1>2, Invariance, PTL DEF Spec

-----------------------------------------------------------------------------
(* Nothing lost.                                                             *)

(* A connection nobody cuts stays up.                                        *)
LEMMA StaysConnected ==
  ASSUME ConnMayFail = FALSE, connected, [Next]_vars
  PROVE  connected'
  <1>1. CASE Route
    BY <1>1 DEF Route, TakeRequest, Publish, PublishFails, TakeDelivery, TakeFromClosed,
                SinkStatus, RouterIdle, routerVars
  <1>2. CASE Broker
    BY <1>2 DEF Broker, Deliver, LoseConnection
  <1>3. CASE ~Route /\ ~Broker
    BY <1>3 DEF Next, CoreNext, Handle, Answer, Engine, BrokerCrash, Compute, Restart,
                RouterRestart, routerVars, vars
  <1> QED
    BY <1>1, <1>2, <1>3

(* When nothing fails, a request that is marked or about to be marked        *)
(* PENDING stays on its way until its result is recorded.                    *)
LEMMA CarriedStep ==
  ASSUME DbMayFail = FALSE, ConnMayFail = FALSE, ComputeMayFail = FALSE, MaxRestarts = 0,
         CoreInv, CarriedInv, [Next]_vars
  PROVE  CarriedInv'
  <1>0. TypeOK /\ TypeOK' /\ connected /\ connected'
    BY TypeStep, StaysConnected DEF CoreInv, CarriedInv
  <1>1. \A id \in Puts :
          /\ InFlight(id) \in Nat /\ id \in Ids /\ id # NilId
          /\ Submits(id) => InFlight(id)' = InFlight(id) + 1
          /\ ~Submits(id) /\ ~Records(id) => InFlight(id)' = InFlight(id)
    BY <1>0, InFlightType, Flow, CallAssumption DEF Calls, Ids
  <1>2. PendingIsCarried'
    <2> SUFFICES ASSUME NEW id \in Puts, table'[id].status = "PENDING"
                 PROVE  InFlight(id)' = 1
      BY DEF PendingIsCarried
    <2>1. CASE Submits(id)
      BY <2>1, SubmitsFresh DEF storageVars, NoRow
    <2>2. CASE Records(id)
      <3>1. UpdStatus(eupdate) /\ IsResult(eupdate) /\ eupdate.id = id /\ id # NilId
        BY <1>1, <2>2 DEF Records, RecordUpdate, CoreInv, ResultsAreFinal
      <3>2. eupdate.status = "SUCCESS"
        BY <3>1 DEF IsResult
      <3>3. table'[id].status = "SUCCESS"
        BY <1>0, <1>1, <3>1, <3>2
        DEF UpdStatus, Upsert, DbStatus, TypeOK, StorageTypeOK
      <3> QED
        BY <3>3
    <2>3. CASE ~Submits(id) /\ ~Records(id)
      <3>1. InFlight(id)' = InFlight(id)
        BY <1>1, <2>3
      <3>2. CASE table'[id] = table[id]
        BY <3>1, <3>2 DEF CarriedInv, PendingIsCarried
      <3>3. CASE RecordPending /\ ecall.msg.id = id
        BY <3>1, <3>3 DEF CarriedInv, RecordPending
      <3> QED
        BY <2>3, <3>2, <3>3, RowMoves
    <2> QED
      BY <2>1, <2>2, <2>3
  <1>3. ASSUME NEW id \in Puts, epc' = "record", ecall'.msg.id = id
        PROVE  InFlight(id)' = 1
    <2>1. CASE Engine /\ SubmitToCompute
      <3>1. Submits(id)
        BY <1>3, <2>1 DEF Submits, SubmitToCompute
      <3> QED
        BY <1>1, <3>1, SubmitsFresh
    <2>2. CASE epc = "record" /\ ecall' = ecall /\ ~Engine
      <3>1. InFlight(id) = 1
        BY <1>3, <2>2 DEF CarriedInv
      <3> QED
        BY <1>1, <2>2, <3>1 DEF Submits, Records
    <2>3. Engine => SubmitToCompute
      BY <1>3 DEF Engine, TakeCall, RecordPending, Query, TakeUpdate, RecordUpdate, EngineIdle,
             engineVars
    <2>4. ~Engine => epc = "record" /\ ecall' = ecall
      BY <1>3 DEF Next, CoreNext, Handle, Answer, Reply, Route, Broker, BrokerCrash, Compute,
             Restart, EngineRestart, engineVars, vars
    <2> QED
      BY <2>1, <2>2, <2>3, <2>4
  <1> QED
    BY <1>0, <1>2, <1>3 DEF CarriedInv

(* When nothing fails a request is on its way, once, from the engine's       *)
(* submission (engine.go:50) to the update with its result: when its PENDING *)
(* row is being written, and as long as it is there.                         *)
THEOREM CarriedInvariance ==
  ASSUME DbMayFail = FALSE, ConnMayFail = FALSE, ComputeMayFail = FALSE, MaxRestarts = 0
  PROVE  Spec => []CarriedInv
  <1>1. Init => CarriedInv
    BY DEF Init, RouterInit, EngineInit, StorageInit, NoRow, CarriedInv, PendingIsCarried,
           Ids
  <1>2. CoreInv /\ CarriedInv /\ [Next]_vars => CarriedInv'
    BY CarriedStep
  <1> QED
    BY <1>1, <1>2, Invariance, PTL DEF Spec

(* When nothing fails a PENDING request is on its way, once, whatever the    *)
(* handlers' five seconds do: an answer nobody waits for (engine.go:56) and  *)
(* the row it acknowledges do not take the request out of the pipeline.      *)
THEOREM PendingRequestsAreCarried ==
  ASSUME DbMayFail = FALSE, ConnMayFail = FALSE, ComputeMayFail = FALSE, MaxRestarts = 0
  PROVE  Spec => []PendingIsCarried
  <1>1. CarriedInv => PendingIsCarried
    BY DEF CarriedInv
  <1> QED
    BY <1>1, CarriedInvariance, PTL

-----------------------------------------------------------------------------
(* The load between the two goroutines.                                      *)

(* How long a queue is after it is taken from, added to, or cut.             *)
LEMMA Lengths ==
  ASSUME NEW S, NEW q \in Seq(S)
  PROVE  /\ Size(q) \in Nat
         /\ q # << >> => Size(Tail(q)) \in Nat /\ Size(q) = Size(Tail(q)) + 1
         /\ \A x \in S : Size(Append(q, x)) = Size(q) + 1
         /\ \A n \in 0 .. Len(q) : /\ Size(SubSeq(q, n + 1, Len(q))) \in Nat
                                   /\ Size(SubSeq(q, n + 1, Len(q))) <= Size(q)
  <1>1. Len(q) \in Nat
    BY LenProperties
  <1>2. q # << >> => Len(Tail(q)) \in Nat /\ Len(q) = Len(Tail(q)) + 1
    BY <1>1, EmptySeq, HeadTailProperties
  <1>3. \A x \in S : Len(Append(q, x)) = Len(q) + 1
    BY AppendProperties
  <1>4. \A n \in 0 .. Len(q) : Len(SubSeq(q, n + 1, Len(q))) = Len(q) - n
    BY <1>1
  <1> QED
    BY <1>1, <1>2, <1>3, <1>4 DEF Size

(* The load is a number.                                                     *)
LEMMA LoadType ==
  ASSUME TypeOK
  PROVE  /\ Size(computeSink) \in Nat /\ Size(requestQueue) \in Nat
         /\ Size(responseQueue) \in Nat /\ Size(rFeed) \in Nat /\ Size(computeFeed) \in Nat
         /\ One(rpc, "publish") \in Nat /\ One(rpc, "sink") \in Nat
         /\ One(epc, "update") \in Nat
         /\ Load \in Nat
  <1>1. /\ Size(computeSink) \in Nat /\ Size(requestQueue) \in Nat
        /\ Size(responseQueue) \in Nat /\ Size(rFeed) \in Nat /\ Size(computeFeed) \in Nat
    BY Lengths DEF TypeOK, ChannelTypeOK, QueueTypeOK, RouterTypeOK
  <1>2. /\ One(rpc, "publish") \in Nat /\ One(rpc, "sink") \in Nat
        /\ One(epc, "update") \in Nat
    BY DEF One
  <1> QED
    BY <1>1, <1>2 DEF Load

(* And so it is after a step.                                                *)
LEMMA LoadTypeNext ==
  ASSUME TypeOK'
  PROVE  Load' \in Nat
  <1>1. /\ Size(computeSink') \in Nat /\ Size(requestQueue') \in Nat
        /\ Size(responseQueue') \in Nat /\ Size(rFeed') \in Nat /\ Size(computeFeed') \in Nat
    BY Lengths DEF TypeOK, ChannelTypeOK, QueueTypeOK, RouterTypeOK
  <1>2. /\ One(rpc', "publish") \in Nat /\ One(rpc', "sink") \in Nat
        /\ One(epc', "update") \in Nat
    BY DEF One
  <1> QED
    BY <1>1, <1>2 DEF Load

(* The engine adds to the load by a submission, and takes from it.           *)
LEMMA EngineLoad ==
  ASSUME TypeOK, Engine
  PROVE  Load' <= Load + (IF SubmitToCompute THEN 1 ELSE 0)
  <1>0. /\ Size(computeSink) \in Nat /\ Size(requestQueue) \in Nat
        /\ Size(responseQueue) \in Nat /\ Size(rFeed) \in Nat /\ Size(computeFeed) \in Nat
        /\ One(rpc, "publish") \in Nat /\ One(rpc, "sink") \in Nat
        /\ One(epc, "update") \in Nat
    BY LoadType
  <1>00. /\ UNCHANGED <<rFeed, requestQueue, responseQueue>>
         /\ One(rpc, "publish")' = One(rpc, "publish")
         /\ One(rpc, "sink")' = One(rpc, "sink")
    BY DEF Engine, routerVars, queues, One
  <1>1. CASE SubmitToCompute
    <2>1. ecall.msg \in Message
      BY <1>1 DEF SubmitToCompute, TypeOK, EngineTypeOK, ClientToServer
    <2>2. Size(computeSink') = Size(computeSink) + 1
      BY <1>1, <2>1, Lengths DEF SubmitToCompute, TypeOK, ChannelTypeOK
    <2>3. One(epc, "update")' = One(epc, "update") /\ computeFeed' = computeFeed
      BY <1>1 DEF SubmitToCompute, One
    <2>4. Load' = Load + 1
      BY <1>0, <1>00, <2>2, <2>3 DEF Load
    <2> QED
      BY <1>1, <2>4, LoadType
  <1>2. CASE RecordUpdate
    <2>1. /\ One(epc, "update")' = 0
          /\ UNCHANGED <<computeSink, computeFeed>> /\ ~SubmitToCompute
      BY <1>2 DEF RecordUpdate, SubmitToCompute, channels, One
    <2> QED
      BY <1>0, <1>00, <2>1 DEF Load
  <1>3. CASE TakeUpdate
    <2>1. Size(computeFeed) = Size(computeFeed') + 1 /\ Size(computeFeed') \in Nat
      BY <1>3, Lengths DEF TakeUpdate, TypeOK, ChannelTypeOK
    <2>2. /\ One(epc, "update") = 0 /\ One(epc, "update")' = 1
          /\ computeSink' = computeSink /\ ~SubmitToCompute
      BY <1>3 DEF TakeUpdate, SubmitToCompute, One
    <2> QED
      BY <1>0, <1>00, <2>1, <2>2 DEF Load
  <1>4. CASE TakeCall \/ RecordPending \/ Query \/ EngineIdle
    <2>1. /\ One(epc, "update")' = One(epc, "update")
          /\ UNCHANGED <<computeSink, computeFeed>> /\ ~SubmitToCompute
      BY <1>4 DEF TakeCall, RecordPending, Query, EngineIdle, SubmitToCompute, channels,
                  engineVars, One
    <2> QED
      BY <1>0, <1>00, <2>1 DEF Load
  <1> QED
    BY <1>1, <1>2, <1>3, <1>4 DEF Engine

(* The router keeps the load, while it is connected.                         *)
LEMMA RouteLoad ==
  ASSUME TypeOK, Route, connected
  PROVE  Load' <= Load
  <1>0. /\ Size(computeSink) \in Nat /\ Size(requestQueue) \in Nat
        /\ Size(responseQueue) \in Nat /\ Size(rFeed) \in Nat /\ Size(computeFeed) \in Nat
        /\ One(rpc, "publish") \in Nat /\ One(rpc, "sink") \in Nat
        /\ One(epc, "update") \in Nat
        /\ One(epc, "update")' = One(epc, "update")
    BY LoadType DEF Route, engineVars, One
  <1>1. CASE TakeRequest
    <2>1. Size(computeSink) = Size(computeSink') + 1 /\ Size(computeSink') \in Nat
      BY <1>1, Lengths DEF TakeRequest, TypeOK, ChannelTypeOK
    <2>2. /\ One(rpc, "publish") = 0 /\ One(rpc, "publish")' = 1
          /\ One(rpc, "sink")' = 0
          /\ UNCHANGED <<requestQueue, responseQueue, rFeed, computeFeed>>
      BY <1>1 DEF TakeRequest, queues, One
    <2> QED
      BY <1>0, <2>1, <2>2 DEF Load
  <1>2. CASE Publish
    <2>1. Size(requestQueue') = Size(requestQueue) + 1
      BY <1>2, Lengths DEF Publish, TypeOK, ChannelTypeOK, QueueTypeOK, RouterTypeOK
    <2>2. /\ One(rpc, "publish") = 1 /\ One(rpc, "publish")' = 0
          /\ One(rpc, "sink")' = 0
          /\ UNCHANGED <<computeSink, responseQueue, rFeed, computeFeed>>
      BY <1>2 DEF Publish, One
    <2> QED
      BY <1>0, <2>1, <2>2 DEF Load
  <1>3. CASE TakeDelivery
    <2>1. Size(rFeed) = Size(rFeed') + 1 /\ Size(rFeed') \in Nat
      BY <1>3, Lengths DEF TakeDelivery, TypeOK, ChannelTypeOK, RouterTypeOK
    <2>2. /\ One(rpc, "sink") = 0 /\ One(rpc, "sink")' = 1
          /\ One(rpc, "publish")' = 0
          /\ UNCHANGED <<computeSink, requestQueue, responseQueue, computeFeed>>
      BY <1>3 DEF TakeDelivery, queues, One
    <2> QED
      BY <1>0, <2>1, <2>2 DEF Load
  <1>4. CASE SinkStatus
    <2>1. Size(computeFeed') = Size(computeFeed) + 1
      BY <1>4, Lengths DEF SinkStatus, TypeOK, ChannelTypeOK, RouterTypeOK
    <2>2. /\ One(rpc, "sink") = 1 /\ One(rpc, "sink")' = 0
          /\ One(rpc, "publish")' = 0
          /\ UNCHANGED <<computeSink, requestQueue, responseQueue, rFeed>>
      BY <1>4 DEF SinkStatus, queues, One
    <2> QED
      BY <1>0, <2>1, <2>2 DEF Load
  <1>5. CASE RouterIdle
    <2>1. /\ One(rpc, "publish")' = One(rpc, "publish")
          /\ One(rpc, "sink")' = One(rpc, "sink")
          /\ UNCHANGED <<computeSink, requestQueue, responseQueue, rFeed, computeFeed>>
      BY <1>5 DEF RouterIdle, routerVars, queues, One
    <2> QED
      BY <1>0, <2>1 DEF Load
  <1> QED
    BY <1>1, <1>2, <1>3, <1>4, <1>5 DEF Route, PublishFails, TakeFromClosed

(* On a connection that holds, only the engine's submission adds to the load.*)
LEMMA LoadFlow ==
  ASSUME ConnMayFail = FALSE, TypeOK, connected, [Next]_vars
  PROVE  Load' <= Load + (IF Engine /\ SubmitToCompute THEN 1 ELSE 0)
  <1>0. /\ Size(computeSink) \in Nat /\ Size(requestQueue) \in Nat
        /\ Size(responseQueue) \in Nat /\ Size(rFeed) \in Nat /\ Size(computeFeed) \in Nat
        /\ One(rpc, "publish") \in Nat /\ One(rpc, "sink") \in Nat
        /\ One(epc, "update") \in Nat
    BY LoadType
  <1>1. CASE Broker
    <2>1. Deliver
      BY <1>1 DEF Broker, LoseConnection
    <2>2. /\ Size(responseQueue) = Size(responseQueue') + 1 /\ Size(responseQueue') \in Nat
          /\ Size(rFeed') = Size(rFeed) + 1
      BY <2>1, Lengths, Taken DEF Deliver, TypeOK, QueueTypeOK, RouterTypeOK
    <2>3. /\ One(rpc, "publish")' = One(rpc, "publish")
          /\ One(rpc, "sink")' = One(rpc, "sink")
          /\ One(epc, "update")' = One(epc, "update")
          /\ UNCHANGED <<computeSink, requestQueue, computeFeed>>
      BY <1>1, <2>1 DEF Broker, Deliver, engineVars, One
    <2>4. Load' = Load
      BY <1>0, <2>2, <2>3 DEF Load
    <2> QED
      BY <2>4, LoadType
  <1>2. CASE Compute
    <2>1. /\ One(rpc, "publish")' = One(rpc, "publish")
          /\ One(rpc, "sink")' = One(rpc, "sink")
          /\ One(epc, "update")' = One(epc, "update")
          /\ UNCHANGED <<computeSink, rFeed, computeFeed>>
      BY <1>2 DEF Compute, engineVars, routerVars, One
    <2>2. CASE ComputeAnswers
      <3>1. PICK answer \in Answers(Head(requestQueue)) :
              responseQueue' = Append(responseQueue, answer)
        BY <2>2 DEF ComputeAnswers
      <3>2. /\ Size(requestQueue) = Size(requestQueue') + 1 /\ Size(requestQueue') \in Nat
            /\ answer \in DetectionStatus
        BY <2>2, Lengths, Taken, AnswersType
        DEF ComputeAnswers, TypeOK, QueueTypeOK
      <3>3. Size(responseQueue') = Size(responseQueue) + 1
        BY <3>1, <3>2, Lengths DEF TypeOK, QueueTypeOK
      <3> QED
        BY <1>0, <2>1, <3>2, <3>3 DEF Load
    <2>3. CASE ComputeDrops
      <3>1. /\ Size(requestQueue') \in Nat /\ Size(requestQueue') <= Size(requestQueue)
            /\ responseQueue' = responseQueue
        BY <2>3, LenProperties, Lengths DEF ComputeDrops, TypeOK, QueueTypeOK
      <3> QED
        BY <1>0, <2>1, <3>1 DEF Load
    <2> QED
      BY <1>2, <2>2, <2>3 DEF Compute
  <1>3. CASE Restart
    <2>1. /\ Size(computeSink') = 0 /\ Size(rFeed') = 0 /\ Size(computeFeed') = 0
          /\ One(rpc, "publish")' = 0 /\ One(rpc, "sink")' = 0
          /\ One(epc, "update")' = 0 /\ UNCHANGED <<requestQueue, responseQueue>>
      BY <1>3 DEF Restart, ChannelRestart, EngineRestart, RouterRestart, queues, One, Size
    <2> QED
      BY <1>0, <2>1 DEF Load
  <1>4. CASE UNCHANGED vars \/ Answer \/ \E c \in Calls : Handle(c)
    <2>1. /\ UNCHANGED <<computeSink, computeFeed, rFeed, rpc, requestQueue,
                         responseQueue>>
          /\ (epc = "update") = (epc' = "update")
      BY <1>4 DEF vars, Answer, Reply, Handle, engineVars, routerVars, channels, queues
    <2>2. Load' = Load
      BY <2>1 DEF Load, One
    <2> QED
      BY <2>2, LoadType
  <1> QED
    <2>1. CASE Engine
      BY <2>1, EngineLoad
    <2>2. CASE Route
      BY <2>2, RouteLoad, LoadType, LoadTypeNext, TypeStep
    <2> QED
      BY <1>1, <1>2, <1>3, <1>4, <2>1, <2>2 DEF Next, CoreNext, BrokerCrash

(* A call that is made stays made, and no step makes more than one.          *)
LEMMA MadeStep ==
  ASSUME TypeOK, [Next]_vars, IsFiniteSet(Made)
  PROVE  IsFiniteSet(Made')
  <1>0. Puts \subseteq Calls
    BY DEF Calls
  <1>1. CASE \E c \in Calls : Handle(c)
    <2>1. PICK c \in Calls : Handle(c)
      BY <1>1
    <2>2. Made' \subseteq Made \cup {c}
      BY <1>0, <2>1, HandleMoves DEF Made
    <2>3. IsFiniteSet(Made \cup {c})
      BY FS_AddElement
    <2> QED
      BY <2>2, <2>3, FS_Subset
  <1>2. CASE ~\E c \in Calls : Handle(c)
    <2>1. \A c \in Calls : hpc'[c] # "idle" => hpc[c] # "idle"
      BY <1>2 DEF Next, CoreNext, Answer, ReceiveAnswer, Respond, Engine, Route, Broker,
                  BrokerCrash, Compute, Restart, WebRestart, webVars, vars, TypeOK,
                  WebTypeOK
    <2>2. Made' \subseteq Made
      BY <1>0, <2>1 DEF Made
    <2> QED
      BY <2>2, FS_Subset
  <1> QED
    BY <1>1, <1>2

(* A request is submitted for good, and the engine's submission is one more. *)
LEMMA SubmittedStep ==
  ASSUME CoreInv, [Next]_vars
  PROVE  /\ Submitted \subseteq Submitted' /\ Submitted \subseteq Made
         /\ epc = "submit" => ecall.ret \in Made \ Submitted
         /\ Engine /\ SubmitToCompute => ecall.ret \in Submitted'
  <1>0. TypeOK /\ OneTurn /\ CallsAreOwn
    BY DEF CoreInv
  <1>1. Submitted \subseteq Submitted' /\ Submitted \subseteq Made
    BY <1>0, SubmittedForGood DEF Submitted, Made, NotSubmitted, NotSent
  <1>2. epc = "submit" => ecall.ret \in Made \ Submitted
    BY <1>0 DEF TypeOK, EngineTypeOK, CallsAreOwn, Own, OneTurn, InHand, NotSent, Made,
                Submitted, NotSubmitted
  <1>3. Engine /\ SubmitToCompute => ecall.ret \in Submitted'
    <2> SUFFICES ASSUME Engine, SubmitToCompute PROVE ecall.ret \in Submitted'
      OBVIOUS
    <2>1. ecall.ret \in Puts
      BY <1>2 DEF SubmitToCompute, Made
    <2>2. ASSUME NEW c \in Puts, c = ecall.ret
          PROVE  ~NotSubmitted(c)'
      BY <1>0, <2>2, SubmittedForGood
    <2> QED
      BY <2>1, <2>2 DEF Submitted
  <1> QED
    BY <1>1, <1>2, <1>3

(* There are never more messages between the two than requests submitted.    *)
LEMMA LoadStep ==
  ASSUME ConnMayFail = FALSE, CoreInv, LoadInv, [Next]_vars
  PROVE  LoadInv'
  <1>0. TypeOK /\ TypeOK' /\ connected /\ connected'
    BY TypeStep, StaysConnected DEF CoreInv, LoadInv
  <1>1. IsFiniteSet(Made')
    BY <1>0, MadeStep DEF LoadInv
  <1>2. Submitted' \subseteq Made'
    BY DEF Submitted, Made, NotSubmitted, NotSent
  <1>3. IsFiniteSet(Submitted') /\ IsFiniteSet(Submitted)
    BY <1>1, <1>2, SubmittedStep, FS_Subset
  <1>4. Cardinality(Submitted) <= Cardinality(Submitted')
        /\ Cardinality(Submitted) \in Nat /\ Cardinality(Submitted') \in Nat
    BY <1>3, SubmittedStep, FS_Subset, FS_CardinalityType
  <1>5. Engine /\ SubmitToCompute => Cardinality(Submitted) + 1 <= Cardinality(Submitted')
    <2> SUFFICES ASSUME Engine, SubmitToCompute
                 PROVE  Cardinality(Submitted) + 1 <= Cardinality(Submitted')
      OBVIOUS
    <2>1. /\ ecall.ret \notin Submitted
          /\ Submitted \cup {ecall.ret} \subseteq Submitted'
      BY SubmittedStep DEF SubmitToCompute
    <2>2. Cardinality(Submitted \cup {ecall.ret}) = Cardinality(Submitted) + 1
      BY <1>3, <2>1, FS_AddElement
    <2>3. Cardinality(Submitted \cup {ecall.ret}) <= Cardinality(Submitted')
      BY <1>3, <2>1, FS_Subset
    <2> QED
      BY <2>2, <2>3
  <1>6. Load \in Nat /\ Load <= Cardinality(Submitted)
        /\ Load' <= Load + (IF Engine /\ SubmitToCompute THEN 1 ELSE 0)
    BY <1>0, LoadType, LoadFlow DEF LoadInv
  <1>7. Load' \in Nat
    BY <1>0, LoadTypeNext
  <1> HIDE DEF Load
  <1>8. Load' <= Cardinality(Submitted')
    BY <1>4, <1>5, <1>6, <1>7
  <1> QED
    BY <1>0, <1>1, <1>8 DEF LoadInv

(* On a connection that holds, the messages between the two goroutines of    *)
(* the core are never more than the requests the engine has submitted:       *)
(* compute.go makes no message that does not stand for one.                  *)
THEOREM LoadInvariance ==
  ASSUME ConnMayFail = FALSE
  PROVE  Spec => []LoadInv
  <1>1. Init => LoadInv
    <2> SUFFICES ASSUME Init PROVE LoadInv
      OBVIOUS
    <2>1. Made = {} /\ Submitted = {}
      BY DEF Init, WebInit, Made, Submitted, NotSubmitted, NotSent, Calls
    <2>2. Load = 0 /\ connected
      BY DEF Init, ChannelInit, EngineInit, RouterInit, QueueInit, Load, One, Size
    <2> QED
      BY <2>1, <2>2, FS_EmptySet DEF LoadInv
  <1>2. CoreInv /\ LoadInv /\ [Next]_vars => LoadInv'
    BY LoadStep
  <1> QED
    BY <1>1, <1>2, Invariance, PTL DEF Spec

(* On a connection that holds, the engine and the router block each other    *)
(* (engine.go:50, compute.go:97) only when the clients have made so many     *)
(* requests that both buffers are full and each goroutine holds one more.    *)
THEOREM BlockingNeedsLoad ==
  ASSUME ConnMayFail = FALSE
  PROVE  Spec => []CircularWaitNeedsLoad
  <1>1. CoreInv /\ LoadInv => CircularWaitNeedsLoad
    <2> SUFFICES ASSUME CoreInv, LoadInv, CircularWait
                 PROVE  Cardinality(Made) >= 2 * ComputeBufferSize + 2
      BY DEF CircularWaitNeedsLoad, Made
    <2>1. /\ ecall.ret \in Made \ Submitted /\ Submitted \subseteq Made
      BY DEF CircularWait, CoreInv, TypeOK, EngineTypeOK, CallsAreOwn, Own, OneTurn,
             InHand, NotSent, Made, Submitted, NotSubmitted
    <2>2. IsFiniteSet(Made) /\ IsFiniteSet(Submitted) /\ Cardinality(Submitted) \in Nat
      BY <2>1, FS_Subset, FS_CardinalityType DEF LoadInv
    <2>3. /\ Cardinality(Submitted \cup {ecall.ret}) = Cardinality(Submitted) + 1
          /\ Cardinality(Submitted \cup {ecall.ret}) <= Cardinality(Made)
          /\ Cardinality(Made) \in Nat
      BY <2>1, <2>2, FS_AddElement, FS_Subset, FS_CardinalityType
    <2>4. Load >= 2 * ComputeBufferSize + 1
      <3>1. /\ Size(computeSink) = ComputeBufferSize /\ Size(computeFeed) = ComputeBufferSize
            /\ One(rpc, "sink") = 1
        BY DEF CircularWait, Size, One
      <3>2. /\ Size(requestQueue) \in Nat /\ Size(responseQueue) \in Nat
            /\ Size(rFeed) \in Nat /\ One(rpc, "publish") \in Nat
            /\ One(epc, "update") \in Nat
        BY LoadType DEF CoreInv
      <3> QED
        BY <3>1, <3>2, BufferAssumption DEF Load
    <2>5. Load \in Nat /\ Load <= Cardinality(Submitted)
      BY LoadType DEF CoreInv, LoadInv
    <2> QED
      BY <2>2, <2>3, <2>4, <2>5, BufferAssumption
  <1> QED
    BY <1>1, Invariance, LoadInvariance, PTL
-----------------------------------------------------------------------------
(* The load in front of the router, whatever fails.                          *)

(* Two places of a queue for one id are two.                                 *)
LEMMA TwoPlaces ==
  ASSUME NEW S, NEW q \in Seq(S), NEW i \in DOMAIN q, NEW j \in DOMAIN q, i # j,
         q[i].id = q[j].id
  PROVE  Count(q, q[i].id) >= 2
  <1> DEFINE here == Places(q, q[i].id)
             two  == {i} \cup {j}
  <1>1. IsFiniteSet(here) /\ Count(q, q[i].id) = Cardinality(here)
    BY CountType
  <1>2. two \subseteq here
    BY DEF Places
  <1>3. Cardinality(two) = 2
    <2>1. IsFiniteSet({i}) /\ Cardinality({i}) = 1
      BY FS_Singleton
    <2>2. Cardinality(two) = Cardinality({i}) + 1
      BY <2>1, FS_AddElement
    <2> HIDE DEF two
    <2> QED
      BY <2>1, <2>2
  <1> HIDE DEF here, two
  <1>4. Cardinality(two) <= Cardinality(here)
    BY <1>1, <1>2, FS_Subset
  <1> QED
    BY <1>1, <1>3, <1>4

(* What waits for the router is on its way.                                  *)
LEMMA SinkIsInFlight ==
  ASSUME TypeOK, NEW id
  PROVE  Count(computeSink, id) <= InFlight(id)
  BY InFlightType DEF InFlight

(* What waits for the router is a different submitted request in every place.*)
LEMMA SinkIsOfSubmitted ==
  ASSUME CoreInv, AtMostOnce, IsFiniteSet(Submitted)
  PROVE  Len(computeSink) <= Cardinality(Submitted)
  <1> DEFINE places == 1 .. Len(computeSink)
             ask == [i \in places |-> computeSink[i].id]
  <1>1. /\ computeSink \in Seq(Message) /\ DOMAIN computeSink = places
        /\ Len(computeSink) \in Nat /\ TypeOK
    BY LenProperties DEF CoreInv, TypeOK, ChannelTypeOK
  <1>2. \A i \in places : computeSink[i].id \in Submitted
    <2> SUFFICES ASSUME NEW i \in places PROVE computeSink[i].id \in Submitted
      OBVIOUS
    <2>1. computeSink[i].id \in Puts
      BY <1>1 DEF CoreInv, OnlyAccepted, AllAccepted, Accepted
    <2>2. computeSink[i].id \in OnTheWay
      BY <1>1 DEF OnTheWay, Named
    <2> QED
      BY <2>1, <2>2 DEF CoreInv, FreshHasNoTrace, Submitted
  <1>3. \A i, j \in places : computeSink[i].id = computeSink[j].id => i = j
    <2> SUFFICES ASSUME NEW i \in places, NEW j \in places, i # j,
                        computeSink[i].id = computeSink[j].id
                 PROVE  FALSE
      OBVIOUS
    <2> DEFINE id == computeSink[i].id
    <2>1. Count(computeSink, id) >= 2
      BY <1>1, TwoPlaces
    <2>2. InFlight(id) <= 1
      BY <1>2 DEF AtMostOnce, Submitted
    <2>3. /\ Count(computeSink, id) \in Nat /\ InFlight(id) \in Nat
          /\ Count(computeSink, id) <= InFlight(id)
      BY <1>1, InFlightType, SinkIsInFlight
    <2> HIDE DEF id
    <2> QED
      BY <2>1, <2>2, <2>3
  <1>4. ask \in Injection(places, Submitted)
    <2>1. ask \in [places -> Submitted]
      BY <1>2
    <2>2. \A i, j \in places : ask[i] = ask[j] => i = j
      BY <1>3
    <2> HIDE DEF ask, places
    <2> QED
      BY <2>1, <2>2 DEF Injection, IsInjective
  <1>5. Cardinality(places) = Len(computeSink)
    BY <1>1, FS_Interval
  <1> HIDE DEF ask, places
  <1>6. Cardinality(places) <= Cardinality(Submitted)
    BY <1>4, FS_Injection
  <1> QED
    BY <1>5, <1>6

(* While the two block each other, those and the engine's own are different  *)
(* requests, all of them made by clients.                                    *)
LEMMA BlockedByRequests ==
  ASSUME CoreInv, AtMostOnce, IsFiniteSet(Made)
  PROVE  CircularWaitNeedsRequests
  <1> SUFFICES ASSUME CircularWait PROVE Cardinality(Made) >= ComputeBufferSize + 1
    BY DEF CircularWaitNeedsRequests, Made
  <1>1. ecall.ret \in Made \ Submitted /\ Submitted \subseteq Made
    BY DEF CircularWait, CoreInv, TypeOK, EngineTypeOK, CallsAreOwn, Own, OneTurn,
           InHand, NotSent, Made, Submitted, NotSubmitted
  <1>2. IsFiniteSet(Submitted) /\ Cardinality(Submitted) \in Nat
    BY <1>1, FS_Subset, FS_CardinalityType
  <1>3. /\ Cardinality(Submitted \cup {ecall.ret}) = Cardinality(Submitted) + 1
        /\ Cardinality(Submitted \cup {ecall.ret}) <= Cardinality(Made)
        /\ Cardinality(Made) \in Nat
    BY <1>1, <1>2, FS_AddElement, FS_Subset, FS_CardinalityType
  <1>4. ComputeBufferSize <= Cardinality(Submitted)
    BY <1>2, SinkIsOfSubmitted DEF CircularWait
  <1> QED
    BY <1>2, <1>3, <1>4, BufferAssumption

(* No client has made a request at the start.                                *)
LEMMA NoneMade == Init => IsFiniteSet(Made)
  <1> SUFFICES ASSUME Init PROVE IsFiniteSet(Made)
    OBVIOUS
  <1>1. Made = {}
    BY DEF Init, WebInit, Made, Calls
  <1> QED
    BY <1>1, FS_EmptySet

(* Whatever is lost, cut off or started again, the engine and the router     *)
(* block each other only when the clients have made more requests than       *)
(* engine.go:50 can buffer: the failures that a lost connection makes        *)
(* without end (compute.go:86-94) fill the other channel alone.              *)
THEOREM BlockingNeedsRequests == Spec => []CircularWaitNeedsRequests
  <1>1. CoreInv /\ IsFiniteSet(Made) /\ [Next]_vars => IsFiniteSet(Made)'
    BY MadeStep DEF CoreInv
  <1>2. CoreInv /\ AtMostOnce /\ IsFiniteSet(Made) => CircularWaitNeedsRequests
    BY BlockedByRequests
  <1> QED
    BY <1>1, <1>2, NoneMade, Invariance, NeverOnItsWayTwice, PTL DEF Spec
=============================================================================
