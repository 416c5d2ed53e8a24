---------------------------- MODULE ComputeWorker ----------------------------
(***************************************************************************)
(* The compute service (compute/): main.py connects to the broker, loads   *)
(* the detectors, starts the one consumer thread of RabbitMQBroker and     *)
(* then spins for ever.  The thread takes requests one by one and answers  *)
(* each with what ComputeEngine.process_request returns.                   *)
(*                                                                         *)
(* wpc is where the service stands:                                        *)
(*   down -> loading -> waiting -> working -> publish -> waiting           *)
(* and "dead" once an exception has ended the thread: nobody restarts it,  *)
(* the process spins on, and its consumer stays registered.  The broker    *)
(* keeps sending it requests until it misses the heartbeats that nobody    *)
(* answers any more and closes the connection, with all that it sent.      *)
(***************************************************************************)
EXTENDS BrokerQueues

CONSTANTS
  Mock,              (* "mock", the detector that is always there          *)
  MaxWorkerStarts    (* bound: how often main.py is started                *)

ASSUME WorkerAssumption == MaxWorkerStarts \in Nat

VARIABLES
  wpc,
  wrequest,      (* request of on_request                                  *)
  wresponse,     (* response of on_request                                 *)
  prefetched,    (* sent to the consumer, not handled yet                  *)
  loaded,        (* names of DetectorsEngine.detectors                     *)
  wconnected,    (* the broker connection is open                          *)
  starts

workerVars == <<wpc, wrequest, wresponse, prefetched, loaded, wconnected, starts>>

WorkerTypeOK ==
  /\ wpc \in {"down", "loading", "waiting", "working", "publish", "dead"}
  /\ wrequest \in Message
  /\ wresponse \in DetectionStatus
  /\ prefetched \in Seq(Message)
  /\ loaded \subseteq Detectors \cup {Mock}
  /\ wconnected \in BOOLEAN
  /\ ~wconnected => prefetched = << >>
  /\ wpc = "down" => ~wconnected
  /\ starts \in 0 .. MaxWorkerStarts

WorkerInit == /\ wpc = "down"
              /\ wrequest = MassDetectionStatusRequest
              /\ wresponse = Failure
              /\ prefetched = << >>
              /\ loaded = {}
              /\ wconnected = FALSE
              /\ starts = 0

-----------------------------------------------------------------------------
(* The connection is opened before the detectors are loaded, and nothing     *)
(* answers its heartbeats until the consumer thread runs.                    *)
StartWorker ==
  /\ wpc = "down" /\ starts < MaxWorkerStarts
  /\ wpc' = "loading"
  /\ wconnected' = TRUE
  /\ starts' = starts + 1
  /\ UNCHANGED <<wrequest, wresponse, prefetched, loaded, queues>>

(* DetectorsEngine.__init__: a detector that cannot be instantiated or whose *)
(* weights cannot be loaded is left out; without the table main.py ends.     *)
LoadDetectors ==
  /\ wpc = "loading"
  /\ \/ /\ \E missing \in SUBSET ListedDetectors :
             /\ ComputeMayFail \/ missing = {}
             /\ loaded' = {Mock} \cup (ListedDetectors \ missing)
        /\ wpc' = IF wconnected THEN "waiting" ELSE "dead"
        /\ UNCHANGED <<prefetched, wconnected>>
     \/ /\ ComputeMayFail
        /\ wpc' = "down" /\ wconnected' = FALSE /\ prefetched' = << >>
        /\ UNCHANGED loaded
  /\ UNCHANGED <<wrequest, wresponse, starts, queues>>

(* The broker sends the next request; auto_ack sets no limit to how many.    *)
SendToConsumer ==
  /\ wconnected /\ wpc \in {"waiting", "working", "publish", "dead"}
  /\ requestQueue # << >>
  /\ prefetched' = Append(prefetched, Head(requestQueue))
  /\ requestQueue' = Tail(requestQueue)
  /\ UNCHANGED <<wpc, wrequest, wresponse, loaded, wconnected, starts, responseQueue>>

(* Mutant: the message stays with the library until it is acknowledged, and  *)
(* nobody does.                                                              *)
TakeUnacked ==
  /\ wpc = "waiting" /\ prefetched # << >>
  /\ wrequest' = Head(prefetched)
  /\ wpc' = "working"
  /\ UNCHANGED <<wresponse, prefetched, loaded, wconnected, starts, queues>>

(* on_request is called.                                                     *)
TakeFromBroker ==
  /\ wpc = "waiting" /\ prefetched # << >>
  /\ wrequest' = Head(prefetched)
  /\ prefetched' = Tail(prefetched)
  /\ wpc' = "working"
  /\ UNCHANGED <<wresponse, loaded, wconnected, starts, queues>>

(* Mutant: a detector that is not there is replaced by the mock.             *)
process_with_any(request) ==
  {Status(request.id, "SUCCESS")} \cup (IF ComputeMayFail THEN {Garbled} ELSE {})

(* Mutant: a long request is acknowledged with the word for one under way.   *)
process_and_announce(request) ==
  {Status(request.id, "SUCCESS"), Status(request.id, "PENDING")}

(* What process_request may return.  The word for a detector that is not     *)
(* there is "FAILED"; NaN among the probabilities makes a body that is no    *)
(* JSON to Go.                                                               *)
process_request(request) ==
  IF request.detector \in loaded
  THEN {Status(request.id, "SUCCESS")} \cup (IF ComputeMayFail THEN {Garbled} ELSE {})
  ELSE {Status(request.id, "FAILED")}

(* Mutant: the exception is caught in on_request and that is all.            *)
ProcessSwallows ==
  /\ wpc = "working"
  /\ \/ wresponse' \in process_request(wrequest) /\ wpc' = "publish"
     \/ /\ ComputeMayFail /\ wrequest.detector \in loaded
        /\ wpc' = "waiting" /\ UNCHANGED wresponse
  /\ UNCHANGED <<wrequest, prefetched, loaded, wconnected, starts, queues>>

(* A detector may raise too, or return what json.dumps refuses.              *)
ProcessRequest ==
  /\ wpc = "working"
  /\ \/ wresponse' \in process_request(wrequest) /\ wpc' = "publish"
     \/ /\ ComputeMayFail /\ wrequest.detector \in loaded
        /\ wpc' = "dead" /\ UNCHANGED wresponse
  /\ UNCHANGED <<wrequest, prefetched, loaded, wconnected, starts, queues>>

(* basic_publish raises on a connection known to be closed; there are no     *)
(* confirms, so a response may also be written to one that is closed at the  *)
(* other end already.                                                        *)
PublishResponse ==
  /\ wpc = "publish"
  /\ \/ /\ wconnected
        /\ responseQueue' = Append(responseQueue, wresponse)
        /\ wpc' = "waiting"
        /\ UNCHANGED <<prefetched, wconnected>>
     \/ /\ wconnected /\ ComputeMayFail
        /\ wpc' = "waiting" /\ wconnected' = FALSE /\ prefetched' = << >>
        /\ UNCHANGED responseQueue
     \/ /\ ~wconnected
        /\ wpc' = "dead"
        /\ UNCHANGED <<prefetched, wconnected, responseQueue>>
  /\ UNCHANGED <<wrequest, wresponse, loaded, starts, requestQueue>>

(* channel.start_consuming raises.                                           *)
ConsumeFails ==
  /\ wpc = "waiting" /\ ~wconnected
  /\ wpc' = "dead"
  /\ UNCHANGED <<wrequest, wresponse, prefetched, loaded, wconnected, starts, queues>>

-----------------------------------------------------------------------------
(* Mutant: what was sent to the consumer outlives its connection.            *)
CutOffKeeping == wconnected' = FALSE /\ UNCHANGED prefetched

(* The worker's end of a lost connection.                                    *)
WorkerCutOff == wconnected' = FALSE /\ prefetched' = << >>

(* Two missed heartbeats, which the thread does not answer while a detector  *)
(* runs, or any other loss.                                                  *)
LoseWorkerConnection ==
  /\ ComputeMayFail /\ wconnected
  /\ WorkerCutOff
  /\ UNCHANGED <<wpc, wrequest, wresponse, loaded, starts, queues>>

(* Nothing services the connection of a dead thread: the broker misses its   *)
(* heartbeats and closes it.                                                 *)
HeartbeatsMissed == wpc = "dead" /\ LoseWorkerConnection

(* The process is killed, to be started again.                               *)
KillWorker ==
  /\ wpc # "down" /\ starts < MaxWorkerStarts
  /\ wpc' = "down"
  /\ WorkerCutOff
  /\ UNCHANGED <<wrequest, wresponse, loaded, starts, queues>>

WorkerRuns == TakeFromBroker \/ ProcessRequest \/ PublishResponse \/ ConsumeFails

Worker == \/ StartWorker
          \/ LoadDetectors
          \/ SendToConsumer
          \/ WorkerRuns
          \/ LoseWorkerConnection
          \/ KillWorker
=============================================================================
