---------------------------- MODULE MangoTruthInv ----------------------------
(***************************************************************************)
(* The inductive invariants behind the theorems of MangoTruthProofs: why   *)
(* what the service sends is an answer MangoCore allows, and why a SUCCESS *)
(* in the table can be traced to a detector that was there.                *)
(***************************************************************************)
EXTENDS MangoTruth, MangoCoreInv, Functions

(* The response the service is about to send answers the request it holds.   *)
Responds == wpc = "publish" => wresponse \in {Status(wrequest.id, "SUCCESS"),
                                              Status(wrequest.id, "FAILED"), Garbled}

(* The service has nothing of a request that the engine has not submitted.   *)
FreshIsNotServed ==
  \A c \in Puts : NotSubmitted(c) =>
    /\ c \notin Named(prefetched)
    /\ Serving => wrequest.id # c

(* The service only has requests that a PUT's handler let through.  Where no *)
(* detector can fail to load it has all that those may name, and no answer   *)
(* but SUCCESS (detectors.py, engine.py:19).                                 *)
ServesAccepted ==
  /\ AllAccepted(prefetched)
  /\ Serving => Accepted(wrequest)
  /\ ~ComputeMayFail =>
       /\ wpc \notin {"down", "loading"} => ListedDetectors \subseteq loaded
       /\ wpc = "publish" => wresponse.status = "SUCCESS"

(* The core's own invariant with the real service behind its queues: the     *)
(* service answers what the engine submitted, and with nothing but results.  *)
SysCoreInv == /\ SysTypeOK
              /\ CoreInv
              /\ Responds
              /\ FreshIsNotServed
              /\ ServesAccepted

(* Why no request is lost without a trace: it is on its way already when the *)
(* engine is about to write its PENDING row (engine.go:50-55).               *)
TracedInv == /\ PendingIsCarriedOrLost
             /\ \A id \in Puts : epc = "record" /\ ecall.msg.id = id => Traced(id)

(* Where no fault is possible none shows: all that was started is up, every  *)
(* answer was stored, and no message is of no request.                       *)
WorkerIsUp == \/ starts = 0 /\ wpc = "down"
              \/ starts = 1 /\ wconnected /\ wpc \notin {"down", "dead"}

QuietInv == /\ connected /\ restarts = 0
            /\ WorkerIsUp
            /\ AnswersAreStored
            /\ table[NilId] = NoRow
            /\ InFlight(NilId) = 0

SysPendingIsCarried ==
  \A id \in Puts : table[id].status = "PENDING" => SysInFlight(id) = 1

-----------------------------------------------------------------------------
(* What has left the engine for the service, and what has come back.         *)
Requests == Range(computeSink) \cup {rrequest} \cup Range(requestQueue)
              \cup Range(prefetched) \cup {wrequest}

Responses == {wresponse} \cup Range(responseQueue) \cup Range(rFeed) \cup {rstatus}
               \cup Range(computeFeed) \cup {eupdate}

(* A request names the detector its client named: nothing on the way changes *)
(* it, and a handler makes one request only.                                 *)
Asks(m) == m.id \in Puts => /\ hpc[m.id] # "idle"
                            /\ m.detector = hreq[m.id].detector

RequestsAreAsked ==
  /\ \A m \in Requests : Asks(m)
  /\ \A i \in DOMAIN engineFeed :
       engineFeed[i].ret \in Puts => Asks(engineFeed[i].msg)
  /\ ecall.ret \in Puts => Asks(ecall.msg)

(* The request id has a detector that was loaded.                            *)
Served(p) == hpc[p] # "idle" /\ hreq[p].detector \in loaded

(* A service that is started once loads its detectors before it serves and   *)
(* never again.                                                              *)
LoadsFirst == /\ starts = 0 => wpc = "down"
              /\ starts = 0 \/ (starts = 1 /\ wpc = "loading") => loaded = {}

(* A SUCCESS anywhere between the service and the table is of such a request.*)
SuccessIsServed ==
  starts \in {0, 1} =>
    /\ \A s \in Responses : s.id \in Puts /\ s.status = "SUCCESS" => Served(s.id)
    /\ \A p \in Puts : table[p].status = "SUCCESS" => Served(p)

(* Between a client and its result every message names what was asked for,   *)
(* and every SUCCESS is of a detector that engine.py had loaded.             *)
SourceInv == /\ SysTypeOK
             /\ CallsAreOwn
             /\ RequestsAreAsked
             /\ LoadsFirst
             /\ SuccessIsServed
             /\ Responds
=============================================================================
