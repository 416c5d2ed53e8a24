------------------------------ MODULE MangoCore ------------------------------
(***************************************************************************)
(* The core server as core/cmd/server/main.go puts it together: the HTTP   *)
(* handlers, the engine goroutine and the router goroutine, the channels   *)
(* between them, the database, and the broker's two queues.                *)
(*                                                                         *)
(* The compute service is here only what the core sees of it: it takes     *)
(* requests from one queue and puts answers into the other.                *)
(*                                                                         *)
(* A restart ends the process: the calls being served get no response, all *)
(* channels and the consumer's buffer are gone, and a new process starts   *)
(* on the same table and the same queues.                                  *)
(***************************************************************************)
EXTENDS WebHandlers, MangoEngine, ComputeRouter

VARIABLES
  restarts,  (* bounded by MaxRestarts *)
  told       (* history: the status of each request in the last answer about *)
             (* it that the engine handed to a handler                       *)

history == <<restarts, told>>

vars == <<webVars, engineVars, routerVars, channels, queues, storageVars, history>>

Init ==
  /\ StorageInit
  /\ WebInit
  /\ EngineInit
  /\ ChannelInit
  /\ RouterInit
  /\ QueueInit
  /\ restarts = 0
  /\ told = [id \in Ids |-> "UNKNOWN"]

-----------------------------------------------------------------------------
(* How far a request has come, and what the clients have been told of it.    *)

Final == {"SUCCESS", "FAILURE"}

Rank(word) == CASE word = "UNKNOWN" -> 0
                [] word = "PENDING" -> 1
                [] OTHER            -> 2

-----------------------------------------------------------------------------
(* HTTP calls.                                                               *)

Handlers(c) ==
  \/ PutDetection(c)
  \/ GetDetection(c)
  \/ MassGetDetection(c)
  \/ ListDetectors(c)
  \/ SendToEngine(c)
  \/ TimeOut(c)

Handle(c) ==
  /\ Handlers(c)
  /\ UNCHANGED <<engineVars, routerVars, computeSink, computeFeed, queues,
                 storageVars, history>>

(* cts.Ret <- status meets case res := <-resp.  The handler's c.JSON is part *)
(* of the step: told is what was handed over, in that order.  The responses  *)
(* of overlapping calls may be written in another one.                       *)
Answer ==
  /\ Reply
  /\ ReceiveAnswer(ecall.ret)
  /\ told' = [id \in Ids |-> IF \E s \in eanswer : s.id = id
                             THEN (CHOOSE s \in eanswer : s.id = id).status
                             ELSE told[id]]
  /\ UNCHANGED <<routerVars, queues, restarts>>

-----------------------------------------------------------------------------
Engine ==
  /\ \/ TakeCall
     \/ SubmitToCompute
     \/ RecordPending
     \/ Query
     \/ TakeUpdate
     \/ RecordUpdate
     \/ EngineIdle
  /\ UNCHANGED <<webVars, routerVars, queues, history>>

Route ==
  /\ \/ TakeRequest
     \/ Publish
     \/ PublishFails
     \/ TakeDelivery
     \/ TakeFromClosed
     \/ SinkStatus
     \/ RouterIdle
  /\ UNCHANGED <<webVars, engineVars, engineFeed, storageVars, history>>

Broker ==
  /\ Deliver \/ LoseConnection
  /\ UNCHANGED <<webVars, engineVars, engineFeed, storageVars, history>>

BrokerCrash ==
  /\ ConnMayFail
  /\ QueuesLost
  /\ RouterCutOff
  /\ UNCHANGED <<webVars, engineVars, channels, storageVars, history>>

-----------------------------------------------------------------------------
(* The compute service.  When ComputeMayFail it may also answer FAILED, with *)
(* a body that is not JSON to Go (a NaN probability), or not at all: what it *)
(* has taken, always the oldest requests, may be lost together.              *)

Answers(request) ==
  {Status(request.id, "SUCCESS")}
  \cup (IF ComputeMayFail THEN {Status(request.id, "FAILED"), Garbled} ELSE {})

ComputeAnswers ==
  /\ requestQueue # << >>
  /\ \E answer \in Answers(Head(requestQueue)) :
       responseQueue' = Append(responseQueue, answer)
  /\ requestQueue' = Tail(requestQueue)

ComputeDrops ==
  /\ ComputeMayFail
  /\ \E n \in 1 .. Len(requestQueue) :
       requestQueue' = SubSeq(requestQueue, n + 1, Len(requestQueue))
  /\ UNCHANGED responseQueue

Compute ==
  /\ ComputeAnswers \/ ComputeDrops
  /\ UNCHANGED <<webVars, engineVars, routerVars, engineFeed, computeSink,
                 computeFeed, storageVars, history>>

-----------------------------------------------------------------------------
Restart ==
  /\ restarts < MaxRestarts
  /\ restarts' = restarts + 1
  /\ WebRestart
  /\ ChannelRestart
  /\ EngineRestart
  /\ RouterRestart
  /\ UNCHANGED <<storageVars, told>>

CoreNext ==
  \/ \E c \in Calls : Handle(c)
  \/ Answer
  \/ Engine
  \/ Route
  \/ Broker
  \/ Restart

Next == CoreNext \/ BrokerCrash \/ Compute

Spec == Init /\ [][Next]_vars

(* Go runs every goroutine that can run, a select among ready cases picks    *)
(* one at random and blocked senders are served first come first served, so  *)
(* what is ready again and again is chosen at last.  Nobody has to make a    *)
(* call, lose a connection or restart the server.                            *)
CoreFairness ==
  /\ \A c \in Calls : /\ SF_vars(Handle(c) /\ SendToEngine(c))
                      /\ WF_vars(Handle(c) /\ TimeOut(c))
  /\ WF_vars(Answer)
  /\ WF_vars(Engine)
  /\ SF_vars(Engine /\ TakeCall)
  /\ SF_vars(Engine /\ TakeUpdate)
  /\ WF_vars(Route)
  /\ SF_vars(Route /\ TakeRequest)
  /\ SF_vars(Route /\ TakeDelivery)
  /\ WF_vars(Broker /\ Deliver)

FairSpec == Spec /\ CoreFairness /\ WF_vars(Compute)

-----------------------------------------------------------------------------
(* Every variable holds a value of its Go type, a buffer never holds more    *)
(* than its capacity, and the engine is never past its receive without a     *)
(* message of the right kind to serve.                                       *)
TypeOK == /\ WebTypeOK
          /\ ChannelTypeOK
          /\ EngineTypeOK
          /\ StorageTypeOK
          /\ RouterTypeOK
          /\ QueueTypeOK
          /\ restarts \in 0 .. MaxRestarts
          /\ told \in [Ids -> StatusWord]

(* A PUT that was answered 200 (PutDetection, engine.go) has a row in the    *)
(* table from then on, unless the failed write was logged: UpdStatus runs    *)
(* before the answer is sent and no row is ever deleted.                     *)
AckedIsStored ==
  \A c \in Puts : hres[c] = 200 => table[c] # NoRow \/ c \in errorLog

(* The status of a request never goes back: the request is handed to the     *)
(* router before its PENDING row is written (engine.go), so its result may   *)
(* be on its way first, and PENDING must not overwrite it.                   *)
NoRegress ==
  [][\A id \in Puts : Rank(table'[id].status) >= Rank(table[id].status)]_vars

-----------------------------------------------------------------------------
(* The core implements the lifecycle of its requests when statements do not  *)
(* fail: its table is the lifecycle's status, and no answer is out of date   *)
(* because the goroutine that writes the table also reads it.                *)
Lifecycle == INSTANCE DetectionLifecycle
               WITH Requests <- Puts,
                    status   <- [p \in Puts |-> table[p].status],
                    told     <- [p \in Puts |-> told[p]]

ImplementsLifecycle == Lifecycle!LifecycleSpec

-----------------------------------------------------------------------------
(* The requests on their way from the engine to the compute service and back.*)
Count(queue, id) == Cardinality({i \in DOMAIN queue : queue[i].id = id})
Held(here, id, x) == IF here /\ x.id = id THEN 1 ELSE 0

InFlight(id) ==
  Count(computeSink, id) + Held(rpc = "publish", id, rrequest)
    + Count(requestQueue, id) + Count(responseQueue, id) + Count(rFeed, id)
    + Held(rpc = "sink", id, rstatus) + Count(computeFeed, id)
    + Held(epc = "update", id, eupdate)

(* A request is never on its way twice, and not at all once its result is    *)
(* stored: no step of engine.go or compute.go hands on what it also keeps.   *)
AtMostOnce ==
  \A id \in Puts : /\ InFlight(id) <= 1
                   /\ table[id].status \in Final => InFlight(id) = 0

(* When nothing fails a PENDING request is always on its way somewhere,      *)
(* whatever the handlers' timeouts do: no result is ever dropped.            *)
PendingIsCarried ==
  \A id \in Puts : table[id].status = "PENDING" => InFlight(id) = 1

(* The two goroutines each blocked on sending to the other (engine.go:50,    *)
(* compute.go:97).                                                           *)
CircularWait == /\ epc = "submit" /\ Len(computeSink) = ComputeBufferSize
                /\ rpc = "sink"   /\ Len(computeFeed) = ComputeBufferSize

(* The engine blocked on an answer nobody will receive (engine.go:56).       *)
Abandoned == epc = "reply" /\ hpc[ecall.ret] = "done"

(* On a connection that holds, the two can only block each other when both   *)
(* buffers are full and each holds one more request.                         *)
CircularWaitNeedsLoad ==
  CircularWait =>
    Cardinality({c \in Puts : hpc[c] # "idle"}) >= 2 * ComputeBufferSize + 2

(* Whatever is lost, cut off or started again, they can not while fewer      *)
(* requests were made than fill one buffer and the engine's hand: a closed   *)
(* rFeed fills computeFeed with failures (compute.go:86-94), but what fills  *)
(* computeSink is a different client's request in every place.               *)
CircularWaitNeedsRequests ==
  CircularWait =>
    Cardinality({c \in Puts : hpc[c] # "idle"}) >= ComputeBufferSize + 1

(* The engine comes back to its select for ever, except in the two ways      *)
(* above: nothing else stops it, be it a full buffer, a lost connection or a *)
(* restart.                                                                  *)
EngineServesOrIsStuck ==
  []<>(epc = "select") \/ <>[]Abandoned \/ <>[]CircularWait

(* While no handler gives up, every PUT that gets as far as its handler's    *)
(* send is answered, be the compute service there or not: the engine answers *)
(* as soon as the router has the request (engine.go:49-56).  This is for     *)
(* loads below the one of CircularWaitNeedsLoad.                             *)
EveryPutIsAnswered ==
  \A c \in Puts : hpc[c] = "sending" ~> hres[c] = 200

(* README.md:24: the core "routes requests to execution venues".  A request  *)
(* that the engine's feed accepted is handed to the router.                  *)
AcceptedIsRouted ==
  \A c \in Puts : hpc[c] = "waiting" ~> InFlight(c) = 1

(* test_compute.py:39: the status of a request no detector could serve is    *)
(* FAILED, so the core can store every answer of the compute service.        *)
AnswersAreStored == errorLog = {}
=============================================================================
