----------------------------- MODULE MangoCoreInv -----------------------------
(***************************************************************************)
(* The inductive invariant behind the theorems of MangoCoreSafety.  It     *)
(* says why the engine may hand a request to the router before it writes   *)
(* the PENDING row: until that row is written nothing else in the system   *)
(* has made a row for the request, because only the engine's goroutine     *)
(* writes rows and each request has exactly one turn with it.              *)
(***************************************************************************)
EXTENDS MangoCore

(* A message is its call's own: a PUT carries the id drawn for that call.    *)
Own(c, msg) == /\ c \in Puts <=> msg.op = "PUT"
               /\ c \in Puts => msg.id = c

CallsAreOwn ==
  /\ \A c \in Calls : hpc[c] = "sending" => Own(c, hreq[c])
  /\ \A i \in DOMAIN engineFeed : Own(engineFeed[i].ret, engineFeed[i].msg)
  /\ epc \in {"submit", "record", "query", "reply"} => Own(ecall.ret, ecall.msg)
  /\ epc = "query" => ecall.msg.op # "PUT"

(* Calls that have not sent yet, that wait in the feed, and the one being    *)
(* served before its row is written, are different calls.                    *)
NotSent(c) == hpc[c] \in {"idle", "sending"}
InFeed(c)  == \E i \in DOMAIN engineFeed : engineFeed[i].ret = c
InHand(c)  == epc \in {"submit", "record"} /\ ecall.ret = c

OneTurn ==
  \A c \in Puts :
    /\ ~(NotSent(c) /\ InFeed(c))
    /\ ~(NotSent(c) /\ InHand(c))
    /\ ~(InFeed(c) /\ InHand(c))
    /\ \A i, j \in DOMAIN engineFeed :
         engineFeed[i].ret = c /\ engineFeed[j].ret = c => i = j

(* The request ids between the engine's submission and its update.           *)
Named(queue) == {queue[i].id : i \in DOMAIN queue}

OnTheWay ==
  Named(computeSink) \cup Named(requestQueue) \cup Named(responseQueue)
    \cup Named(rFeed) \cup Named(computeFeed)
    \cup {id \in {rrequest.id} : rpc = "publish"}
    \cup {id \in {rstatus.id}  : rpc = "sink"}
    \cup {id \in {eupdate.id}  : epc = "update"}

NotSubmitted(c) == NotSent(c) \/ InFeed(c) \/ (epc = "submit" /\ ecall.ret = c)

FreshHasNoTrace ==
  \A c \in Puts : NotSubmitted(c) => table[c] = NoRow /\ c \notin OnTheWay

RecordIsFirst == epc = "record" => table[ecall.msg.id] = NoRow

(* What comes back from the compute service is SUCCESS for the request it    *)
(* answers, or FAILED where it may fail, or a failure that names no request. *)
IsResult(s) == \/ s.status = "SUCCESS"
               \/ s.status = "FAILED" /\ ComputeMayFail
               \/ s.status \in {"FAILURE", "GARBLED"} /\ s.id = NilId

Results(queue) == \A i \in DOMAIN queue : IsResult(queue[i])

ResultsAreFinal == /\ Results(responseQueue)
                   /\ Results(rFeed)
                   /\ Results(computeFeed)
                   /\ IsResult(rstatus)
                   /\ IsResult(eupdate)

(* What a PUT's handler lets through (handlers.go:46-60): a request with an  *)
(* id of its own for a detector that the table lists.  Nothing else is ever  *)
(* between a PUT's handler and the compute service.                          *)
Accepted(m) == m.op = "PUT" /\ m.id \in Puts /\ m.detector \in ListedDetectors

AllAccepted(queue) == \A i \in DOMAIN queue : Accepted(queue[i])

OnlyAccepted ==
  /\ \A c \in Puts : hpc[c] = "sending" => Accepted(hreq[c])
  /\ \A i \in DOMAIN engineFeed :
       engineFeed[i].msg.op = "PUT" => Accepted(engineFeed[i].msg)
  /\ epc = "submit" => Accepted(ecall.msg)
  /\ AllAccepted(computeSink)
  /\ rpc = "publish" => Accepted(rrequest)
  /\ AllAccepted(requestQueue)

(* The engine answers a PUT after it has written its row or logged why not.  *)
StoredBeforeTold ==
  epc = "reply" /\ ecall.msg.op = "PUT" =>
    table[ecall.msg.id] # NoRow \/ ecall.msg.id \in errorLog

(* Each request has one turn with the engine and leaves no trace before it,  *)
(* only accepted requests go out to the compute service, and what comes back *)
(* is final (engine.go:46-60).                                               *)
CoreInv == /\ TypeOK
           /\ CallsAreOwn
           /\ OneTurn
           /\ FreshHasNoTrace
           /\ OnlyAccepted
           /\ RecordIsFirst
           /\ ResultsAreFinal
           /\ StoredBeforeTold
           /\ AckedIsStored

-----------------------------------------------------------------------------
(* What the refinement of DetectionLifecycle needs besides: an answer is     *)
(* still true when it is sent, because the goroutine that will send it is    *)
(* the one that writes the table (on a database that works), no request is   *)
(* ever marked FAILURE, because the failures that reach the engine name no   *)
(* request, and what was told is not ahead of the table.                     *)
AnswersAreTrue ==
  epc = "reply" => \A s \in eanswer : s.status = table[s.id].status

NoRequestFails ==
  \A p \in Puts : table[p].status \in {"UNKNOWN", "PENDING", "SUCCESS"}

ToldIsKnown ==
  \A p \in Puts : Rank(told[p]) <= Rank(table[p].status)

(* The answer the engine holds is what the table says, no request is marked  *)
(* FAILURE, though compute.go makes that status, and what clients were told  *)
(* is not ahead of the table.                                                *)
LifecycleInv == AnswersAreTrue /\ NoRequestFails /\ ToldIsKnown

-----------------------------------------------------------------------------
(* Why a PENDING request is on its way when nothing fails: it is already     *)
(* there when its PENDING row is being written, and only its result, which   *)
(* is then SUCCESS, takes it off.                                            *)
CarriedInv == /\ connected
              /\ PendingIsCarried
              /\ \A id \in Puts :
                   epc = "record" /\ ecall.msg.id = id => InFlight(id) = 1

(* Why the two goroutines only block each other under load: on a connection  *)
(* that holds every message between the two stands for a request of its own, *)
(* that a client made and the engine submitted.                              *)
Made      == {c \in Puts : hpc[c] # "idle"}
Submitted == {c \in Puts : ~NotSubmitted(c)}

Size(queue)  == Len(queue)
One(pc, at) == IF pc = at THEN 1 ELSE 0

Load == Size(computeSink) + One(rpc, "publish") + Size(requestQueue)
          + Size(responseQueue) + Size(rFeed) + One(rpc, "sink") + Size(computeFeed)
          + One(epc, "update")

(* The messages between engine and router are no more than the requests the  *)
(* engine has submitted: neither goroutine makes one of nothing.             *)
LoadInv == /\ connected
           /\ IsFiniteSet(Made)
           /\ Load <= Cardinality(Submitted)
=============================================================================
