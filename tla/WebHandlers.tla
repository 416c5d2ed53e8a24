----------------------------- MODULE WebHandlers -----------------------------
(***************************************************************************)
(* The HTTP handlers of core/pkg/web: one goroutine per call.  A handler   *)
(* validates its input, hands a ClientToServer to the engine over the      *)
(* buffered channel engineFeed (this send has no timeout) and then waits   *)
(* at most five seconds on an unbuffered channel of its own.               *)
(*                                                                         *)
(* hpc[c] is where the handler of call c stands:                           *)
(*   idle -> sending -> waiting -> done, or idle -> done.                  *)
(* hres[c] is the code of the response its client got; 0 is none (not yet, *)
(* or the server went down).  The body of a 200 is what the engine sent.   *)
(***************************************************************************)
EXTENDS CoreChannels, Storage

VARIABLES hpc, hreq, hres

webVars == <<hpc, hreq, hres>>

WebTypeOK == /\ hpc \in [Calls -> {"idle", "sending", "waiting", "done"}]
             /\ hreq \in [Calls -> Message]
             /\ hres \in [Calls -> {0, 200, 400, 408}]

WebInit == /\ hpc = [c \in Calls |-> "idle"]
           /\ hreq = [c \in Calls |-> MassDetectionStatusRequest]
           /\ hres = [c \in Calls |-> 0]

Respond(c, code) == /\ hpc' = [hpc EXCEPT ![c] = "done"]
                    /\ hres' = [hres EXCEPT ![c] = code]

(* The call to waitFromEngine: the handler is about to send its message.     *)
CallEngine(c, msg) ==
  /\ hpc' = [hpc EXCEPT ![c] = "sending"]
  /\ hreq' = [hreq EXCEPT ![c] = msg]
  /\ UNCHANGED <<hres, engineFeed>>

(* A body or query that does not bind, or a detector that is not in the      *)
(* table (or could not be looked up).                                        *)
RejectPut(c) ==
  \/ Respond(c, 400)
  \/ \E d \in Detectors : FALSE \in DetectorExists(d) /\ Respond(c, 400)

PutDetection(c) ==
  /\ c \in Puts /\ hpc[c] = "idle"
  /\ \/ RejectPut(c) /\ UNCHANGED <<hreq, engineFeed>>
     \/ \E d \in Detectors : TRUE \in DetectorExists(d)
                             /\ CallEngine(c, DetectionRequest(c, d))

GetDetection(c) ==
  /\ c \in Gets /\ hpc[c] = "idle"
  /\ \/ Respond(c, 400) /\ UNCHANGED <<hreq, engineFeed>>
     \/ \E id \in Ids : CallEngine(c, DetectionQuery(id))

MassGetDetection(c) ==
  /\ c \in Masses /\ hpc[c] = "idle"
  /\ \/ Respond(c, 400) /\ UNCHANGED <<hreq, engineFeed>>
     \/ CallEngine(c, MassDetectionStatusRequest)

(* Reads the database itself, and lists nothing on an error; the engine is   *)
(* not involved.                                                             *)
ListDetectors(c) ==
  /\ c \in Lists /\ hpc[c] = "idle"
  /\ Respond(c, 200)
  /\ UNCHANGED <<hreq, engineFeed>>

(* r.engineSink <- req blocks while the buffer is full.                      *)
SendToEngine(c) ==
  /\ hpc[c] = "sending"
  /\ Len(engineFeed) < FeedBufferSize
  /\ engineFeed' = Append(engineFeed, [ret |-> c, msg |-> hreq[c]])
  /\ hpc' = [hpc EXCEPT ![c] = "waiting"]
  /\ UNCHANGED <<hreq, hres>>

(* The handler's half of the rendezvous on its response channel.             *)
ReceiveAnswer(c) ==
  /\ hpc[c] = "waiting"
  /\ Respond(c, 200)
  /\ UNCHANGED hreq

(* Mutant: the handler tries again instead of answering 408.                 *)
TimeOutRetries(c) ==
  /\ MayTimeOut
  /\ hpc[c] = "waiting"
  /\ hpc' = [hpc EXCEPT ![c] = "sending"]
  /\ UNCHANGED <<hreq, hres, engineFeed>>

(* time.After(5s) won the select: nobody receives on the channel any more.   *)
TimeOut(c) ==
  /\ MayTimeOut
  /\ hpc[c] = "waiting"
  /\ Respond(c, 408)
  /\ UNCHANGED <<hreq, engineFeed>>

(* The process ends and every handler with it; their clients get nothing.    *)
WebRestart ==
  /\ hpc' = [c \in Calls |-> IF hpc[c] = "idle" THEN "idle" ELSE "done"]
  /\ UNCHANGED <<hreq, hres>>
=============================================================================
