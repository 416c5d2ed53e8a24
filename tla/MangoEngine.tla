----------------------------- MODULE MangoEngine -----------------------------
(***************************************************************************)
(* core/pkg/core/engine.go: the one goroutine that owns the storage.  Each *)
(* turn of its loop serves either a client's message or an update from the *)
(* compute router, to the end, before it looks at the next.                *)
(*                                                                         *)
(* epc is where the loop stands:                                           *)
(*   select -> submit -> record -> reply -> select   (DetectionRequest)    *)
(*   select -> query -> reply -> select              (the two queries)     *)
(*   select -> update -> select                      (a compute status)    *)
(* In "submit" and "reply" it stands at a channel operation that blocks    *)
(* until the other side is ready.                                          *)
(***************************************************************************)
EXTENDS CoreChannels, Storage

VARIABLES
  epc,
  ecall,        (* cts: the ClientToServer being served        *)
  eanswer,      (* what it is about to send on cts.Ret         *)
  eupdate       (* upd: the status taken from computeFeed      *)

engineVars == <<epc, ecall, eanswer, eupdate>>

NoCall == [ret |-> NilId, msg |-> MassDetectionStatusRequest]

EngineTypeOK ==
  /\ epc \in {"select", "submit", "record", "query", "reply", "update"}
  /\ ecall \in ClientToServer \cup {NoCall}
  /\ epc \in {"submit", "record", "query", "reply"} => ecall # NoCall
  /\ epc \in {"submit", "record"} => ecall.msg.op = "PUT"
  /\ eanswer \subseteq DetectionStatus
  /\ eupdate \in DetectionStatus

EngineInit == /\ epc = "select"
              /\ ecall = NoCall
              /\ eanswer = {}
              /\ eupdate = Failure

(* case cts := <-e.feed, with the type switch on cts.Msg.                    *)
TakeCall ==
  /\ epc = "select"
  /\ engineFeed # << >>
  /\ ecall' = Head(engineFeed)
  /\ engineFeed' = Tail(engineFeed)
  /\ epc' = IF ecall'.msg.op = "PUT" THEN "submit" ELSE "query"
  /\ UNCHANGED <<eanswer, eupdate, computeSink, computeFeed, storageVars>>

(* Mutant: the answer goes out and the row is never written.                 *)
SubmitUnrecorded ==
  /\ epc = "submit"
  /\ Len(computeSink) < ComputeBufferSize
  /\ computeSink' = Append(computeSink, ecall.msg)
  /\ eanswer' = {Status(ecall.msg.id, "PENDING")}
  /\ epc' = "reply"
  /\ UNCHANGED <<ecall, eupdate, engineFeed, computeFeed, storageVars>>

(* e.computeSink <- req blocks while the router's buffer is full.            *)
SubmitToCompute ==
  /\ epc = "submit"
  /\ Len(computeSink) < ComputeBufferSize
  /\ computeSink' = Append(computeSink, ecall.msg)
  /\ epc' = "record"
  /\ UNCHANGED <<ecall, eanswer, eupdate, engineFeed, computeFeed, storageVars>>

(* Mutant: the case ends without a send on cts.Ret.                          *)
RecordUnanswered ==
  /\ epc = "record"
  /\ UpdStatus(Status(ecall.msg.id, "PENDING"))
  /\ epc' = "select"
  /\ ecall' = NoCall
  /\ UNCHANGED <<eanswer, eupdate, channels>>

(* The request is already with the router when its PENDING row is written,   *)
(* and the answer is PENDING whether or not the write succeeded.             *)
RecordPending ==
  /\ epc = "record"
  /\ LET status == Status(ecall.msg.id, "PENDING")
     IN  /\ UpdStatus(status)
         /\ eanswer' = {status}
  /\ epc' = "reply"
  /\ UNCHANGED <<ecall, eupdate, channels>>

Query ==
  /\ epc = "query"
  /\ \/ /\ ecall.msg.op = "GET"
        /\ \E status \in GetStatus(ecall.msg.id) : eanswer' = {status}
     \/ /\ ecall.msg.op = "MASS"
        /\ \E page \in MassStatus : eanswer' = page
  /\ epc' = "reply"
  /\ UNCHANGED <<ecall, eupdate, channels, storageVars>>

(* The engine's half of the rendezvous cts.Ret <- status: an unbuffered      *)
(* channel, so it takes place only together with the handler's receive.      *)
Reply ==
  /\ epc = "reply"
  /\ epc' = "select"
  /\ ecall' = NoCall
  /\ eanswer' = {}
  /\ UNCHANGED <<eupdate, channels, storageVars>>

(* case upd := <-e.computeFeed, and the UpdStatus that follows.              *)
TakeUpdate ==
  /\ epc = "select"
  /\ computeFeed # << >>
  /\ eupdate' = Head(computeFeed)
  /\ computeFeed' = Tail(computeFeed)
  /\ epc' = "update"
  /\ UNCHANGED <<ecall, eanswer, engineFeed, computeSink, storageVars>>

(* Mutant: an UPDATE repeated until it finds the row it is for.              *)
RecordUpdateOfRow ==
  /\ epc = "update"
  /\ table[eupdate.id] # NoRow
  /\ UpdStatus(eupdate)
  /\ epc' = "select"
  /\ eupdate' = Failure
  /\ UNCHANGED <<ecall, eanswer, channels>>

RecordUpdate ==
  /\ epc = "update"
  /\ UpdStatus(eupdate)
  /\ epc' = "select"
  /\ eupdate' = Failure
  /\ UNCHANGED <<ecall, eanswer, channels>>

(* A new process: Work starts over, with no call and no update.             *)
EngineRestart == /\ epc' = "select"
                 /\ ecall' = NoCall
                 /\ eanswer' = {}
                 /\ eupdate' = Failure

(* case <-time.After(IdlePeriodSeconds): the loop goes round once more.      *)
EngineIdle == epc = "select" /\ UNCHANGED <<engineVars, channels, storageVars>>
=============================================================================
