----------------------------- MODULE BrokerQueues -----------------------------
(***************************************************************************)
(* The two RabbitMQ queues between the core and the compute service, which *)
(* both declare when they connect: durable=false, consumed with autoAck.   *)
(* A queue is gone when the broker goes down and a message is gone from it *)
(* once it was sent to a consumer, whether or not the consumer handles it. *)
(***************************************************************************)
EXTENDS CoreTypes

VARIABLES
  requestQueue,    (* core -> compute: DetectionRequest  *)
  responseQueue    (* compute -> core: DetectionStatus   *)

queues == <<requestQueue, responseQueue>>

QueueTypeOK == /\ requestQueue \in Seq(Message)
               /\ responseQueue \in Seq(DetectionStatus)

QueueInit == /\ requestQueue = << >>
             /\ responseQueue = << >>

QueuesLost == /\ requestQueue' = << >>
              /\ responseQueue' = << >>
=============================================================================
