------------------------------ MODULE MangoTruth ------------------------------
(***************************************************************************)
(* The whole system: the core server, the broker and the compute service.  *)
(* It implements MangoCore, in which the compute service is no more than   *)
(* an answer to each request or none.                                      *)
(***************************************************************************)
EXTENDS MangoCore, ComputeWorker

sysVars == <<vars, workerVars>>

SysInit == Init /\ WorkerInit

WorkerStep ==
  /\ Worker
  /\ UNCHANGED <<webVars, engineVars, routerVars, channels, storageVars, history>>

(* Both connections go down with the broker.                                 *)
SysCrash ==
  /\ BrokerCrash
  /\ WorkerCutOff
  /\ UNCHANGED <<wpc, wrequest, wresponse, loaded, starts>>

SysNext == \/ CoreNext /\ UNCHANGED workerVars
           \/ WorkerStep
           \/ SysCrash

SysSpec == SysInit /\ [][SysNext]_sysVars

(* The service is started once, a detector returns or raises, and the broker *)
(* sends what it has and closes a connection whose heartbeats stay away.     *)
(* Nobody has to kill the service or cut a live thread off.                  *)
WorkerFairness ==
  /\ WF_sysVars(WorkerStep /\ StartWorker)
  /\ WF_sysVars(WorkerStep /\ LoadDetectors)
  /\ WF_sysVars(WorkerStep /\ SendToConsumer)
  /\ WF_sysVars(WorkerStep /\ WorkerRuns)
  /\ WF_sysVars(WorkerStep /\ HeartbeatsMissed)

FairSysSpec == SysSpec /\ CoreFairness /\ WorkerFairness

-----------------------------------------------------------------------------
(* Values keep their types, and what was sent over a connection that is      *)
(* closed is nowhere.                                                        *)
SysTypeOK == TypeOK /\ WorkerTypeOK

(* The requests the service may still answer: the one it works on, those     *)
(* sent to it, those in the queue.  Without a connection it has none, and a  *)
(* dead thread answers none of its own.                                      *)
Unanswered ==
  (IF ~wconnected \/ wpc \notin {"working", "publish"} THEN << >> ELSE <<wrequest>>)
    \o prefetched \o requestQueue

(* The core sees of the service what MangoCore says of it, so that what      *)
(* holds of MangoCore holds of the system.                                   *)
Core == INSTANCE MangoCore WITH requestQueue <- Unanswered, ComputeMayFail <- TRUE

ImplementsCore == Core!Spec

(* A SUCCESS in the core's table comes from the detector the client named,   *)
(* loaded in the one process that could have run it (engine.py:19).          *)
SuccessNeedsDetector ==
  starts = 1 => \A p \in Puts : table[p].status = "SUCCESS" => hreq[p].detector \in loaded

(* The requests on their way, those the service has in hand among them.      *)
Serving == wpc \in {"working", "publish"}

SysInFlight(id) ==
  InFlight(id) + Count(prefetched, id) + Held(Serving, id, wrequest)

(* A request is never handled twice in the whole system, nor at all once its *)
(* result is stored: the consumers acknowledge what they are sent at once,   *)
(* and no goroutine and no thread keeps what it has handed on, not for a     *)
(* restart, a second start of the service or a new connection either.        *)
HandledOnce ==
  \A id \in Puts : /\ SysInFlight(id) <= 1
                   /\ table[id].status \in Final => SysInFlight(id) = 0

(* A connection is down, a process was started once more, or the service's   *)
(* thread is dead.                                                           *)
Disturbed == \/ ~connected \/ restarts > 0
             \/ starts > 1
             \/ starts = 1 /\ (~wconnected \/ wpc = "dead")

(* A result could not be stored, or there is one that names no request: on   *)
(* its way, stored or logged (compute.go:94, engine.go:70).                  *)
ResultLost(id) == \/ {id, NilId} \cap errorLog # {}
                  \/ table[NilId] # NoRow \/ InFlight(NilId) > 0

Traced(id) == SysInFlight(id) = 1 \/ Disturbed \/ ResultLost(id)

(* No request is lost without a trace.  One that is PENDING in the table is  *)
(* on its way, once, unless a process or a connection has gone down, or its  *)
(* result could not be stored, or came back as one that names no request.    *)
PendingIsCarriedOrLost ==
  \A id \in Puts : table[id].status = "PENDING" => Traced(id)

(* A request that reaches the core has its result stored in the end, unless  *)
(* the result could not be stored, it was no JSON, or the service is gone.   *)
WorkerGone == wpc \in {"dead", "down"}

EndsOrIsLost ==
  \A p \in Puts :
    hpc[p] = "sending" ~> \/ table[p].status \in Final
                          \/ p \in errorLog
                          \/ table[NilId] # NoRow
                          \/ WorkerGone

(* README.md:26: the compute engine "routes compute requests to detectors".  *)
(* A request it was sent is handed to process_request, unless the connection *)
(* is lost under a thread that still consumes.                               *)
SentIsProcessed ==
  \A p \in Puts : (\E i \in DOMAIN prefetched : prefetched[i].id = p)
                    ~> wrequest.id = p \/ (~wconnected /\ wpc # "dead")
=============================================================================
