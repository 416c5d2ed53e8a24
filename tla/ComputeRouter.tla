---------------------------- MODULE ComputeRouter ----------------------------
(***************************************************************************)
(* core/pkg/core/compute.go: the goroutine between the engine's channels   *)
(* and RabbitMQ.  Requests go from computeSink to the broker's request     *)
(* queue, statuses from the delivery channel rFeed to computeFeed.  Every  *)
(* failure on the way becomes Failure, a status without a request id.      *)
(*                                                                         *)
(* rFeed is filled by the client library as the broker sends.  The one     *)
(* connection is never opened again; once it is lost, Publish returns an   *)
(* error and rFeed is a closed channel, from which a receive returns an    *)
(* empty Delivery at once, again and again.                                *)
(***************************************************************************)
EXTENDS CoreChannels, BrokerQueues

VARIABLES
  rpc,            (* select -> publish -> select, select -> sink -> select *)
  rrequest,       (* msg of case msg := <-c.feed                           *)
  rstatus,        (* what goes to c.sink next                              *)
  rFeed,
  connected

routerVars == <<rpc, rrequest, rstatus, rFeed, connected>>

RouterTypeOK == /\ rpc \in {"select", "publish", "sink"}
                /\ rrequest \in Message
                /\ rstatus \in DetectionStatus
                /\ rFeed \in Seq(DetectionStatus)
                /\ connected \in BOOLEAN
                /\ ~connected => rFeed = << >>

RouterInit == /\ rpc = "select"
              /\ rrequest = MassDetectionStatusRequest
              /\ rstatus = Failure
              /\ rFeed = << >>
              /\ connected = TRUE

(* json.Unmarshal(msg.Body, &resp)                                           *)
Unmarshal(body) == IF body = Garbled THEN Failure ELSE body

TakeRequest ==
  /\ rpc = "select"
  /\ computeSink # << >>
  /\ rrequest' = Head(computeSink)
  /\ computeSink' = Tail(computeSink)
  /\ rpc' = "publish"
  /\ UNCHANGED <<rstatus, rFeed, connected, computeFeed, queues>>

(* Mutant: publishes again when it is not sure of the first time.            *)
PublishAgain ==
  /\ rpc = "publish"
  /\ connected
  /\ requestQueue' = Append(requestQueue, rrequest)
  /\ UNCHANGED <<rpc, rrequest, rstatus, rFeed, connected, computeSink, computeFeed,
                 responseQueue>>

(* There are no publisher confirms: no error only means that the frame was   *)
(* handed to the connection.                                                 *)
Publish ==
  /\ rpc = "publish"
  /\ connected
  /\ requestQueue' = Append(requestQueue, rrequest)
  /\ rpc' = "select"
  /\ UNCHANGED <<rrequest, rstatus, rFeed, connected, computeSink, computeFeed,
                 responseQueue>>

PublishFails ==
  /\ rpc = "publish"
  /\ ~connected
  /\ rstatus' = Failure
  /\ rpc' = "sink"
  /\ UNCHANGED <<rrequest, rFeed, connected, computeSink, computeFeed, queues>>

(* Mutant: the case does not reach c.sink <- resp.                           *)
TakeDeliveryUnsunk ==
  /\ rpc = "select"
  /\ connected
  /\ rFeed # << >>
  /\ rFeed' = Tail(rFeed)
  /\ UNCHANGED <<rpc, rrequest, rstatus, connected, computeSink, computeFeed, queues>>

TakeDelivery ==
  /\ rpc = "select"
  /\ connected
  /\ rFeed # << >>
  /\ rstatus' = Unmarshal(Head(rFeed))
  /\ rFeed' = Tail(rFeed)
  /\ rpc' = "sink"
  /\ UNCHANGED <<rrequest, connected, computeSink, computeFeed, queues>>

(* An empty body does not unmarshal.                                         *)
TakeFromClosed ==
  /\ rpc = "select"
  /\ ~connected
  /\ rstatus' = Unmarshal(Garbled)
  /\ rpc' = "sink"
  /\ UNCHANGED <<rrequest, rFeed, connected, computeSink, computeFeed, queues>>

(* c.sink <- resp blocks while the engine's buffer is full.                  *)
SinkStatus ==
  /\ rpc = "sink"
  /\ Len(computeFeed) < ComputeBufferSize
  /\ computeFeed' = Append(computeFeed, rstatus)
  /\ rpc' = "select"
  /\ UNCHANGED <<rrequest, rstatus, rFeed, connected, computeSink, queues>>

(* A new process dials the broker; the queues are still there.               *)
RouterRestart == /\ rpc' = "select"
                 /\ rrequest' = MassDetectionStatusRequest
                 /\ rstatus' = Failure
                 /\ rFeed' = << >>
                 /\ connected' = TRUE
                 /\ UNCHANGED queues

(* case <-time.After(IdlePeriodSeconds)                                      *)
RouterIdle == rpc = "select" /\ UNCHANGED <<routerVars, computeSink, computeFeed, queues>>

(* The broker pushes a response to the consumer (autoAck).                   *)
Deliver ==
  /\ connected
  /\ responseQueue # << >>
  /\ rFeed' = Append(rFeed, Head(responseQueue))
  /\ responseQueue' = Tail(responseQueue)
  /\ UNCHANGED <<rpc, rrequest, rstatus, connected, computeSink, computeFeed,
                 requestQueue>>

(* The router's end of a lost connection: the library drops its buffer.      *)
RouterCutOff == /\ connected' = FALSE
                /\ rFeed' = << >>
                /\ UNCHANGED <<rpc, rrequest, rstatus>>

(* The frames the library had not put on the wire, the last ones published,  *)
(* never reach the broker.                                                   *)
LoseConnection ==
  /\ ConnMayFail
  /\ connected
  /\ RouterCutOff
  /\ \E n \in 0 .. Len(requestQueue) : requestQueue' = SubSeq(requestQueue, 1, n)
  /\ UNCHANGED <<responseQueue, computeSink, computeFeed>>
=============================================================================
