------------------------------ MODULE CoreTypes ------------------------------
(***************************************************************************)
(* The parameters of the core server and the values its goroutines         *)
(* exchange: core/pkg/modules/models.go, the STATUS enum of the schema and *)
(* the buffer sizes of core/pkg/config.go.                                 *)
(*                                                                         *)
(* An HTTP call is a value of its own: gin runs one handler goroutine per  *)
(* call and a handler serves exactly one.  PutDetection draws a fresh      *)
(* uuid.New() for its request, so the call that submits a request stands   *)
(* for that request's identifier too.                                      *)
(***************************************************************************)
EXTENDS Naturals, Sequences, FiniteSets

CONSTANTS
  Puts,               (* calls of PUT /api/v1/detection, and request ids     *)
  Gets,               (* calls of GET /api/v1/detection                      *)
  Masses,             (* calls of GET /api/v1/detection/mass                 *)
  Lists,              (* calls of GET /api/v1/detectors                      *)
  NilId,              (* uuid.Nil, the zero RequestId of a Go struct         *)
  Detectors,          (* detector names a client may put in a request        *)
  ListedDetectors,    (* the rows of table detectors                         *)
  FeedBufferSize,     (* capacity of channel engineFeed                      *)
  ComputeBufferSize,  (* capacity of channels computeSink and computeFeed    *)
  MassLimit,          (* qm.Limit(10) of MassStatus                          *)
  DbMayFail,          (* TRUE: a SQL statement may fail                      *)
  MayTimeOut,         (* TRUE: the engine may take over 5 seconds to answer  *)
  ConnMayFail,        (* TRUE: the broker connection may be lost             *)
  ComputeMayFail,     (* TRUE: the compute service may drop or refuse work   *)
  MaxRestarts         (* bound: how often the core server is started again   *)

Calls == Puts \cup Gets \cup Masses \cup Lists
Ids   == Puts \cup {NilId}

(* Buffer sizes are at least one: DefaultConfig and the shipped file say     *)
(* 100; a rendezvous (size 0) would need another model of a send.            *)
ASSUME BufferAssumption == /\ FeedBufferSize \in Nat \ {0}
                           /\ ComputeBufferSize \in Nat \ {0}

(* The four kinds of call are different calls, and no uuid.New() is uuid.Nil.*)
ASSUME CallAssumption == /\ NilId \notin Calls
                         /\ Puts \cap (Gets \cup Masses \cup Lists) = {}
                         /\ Gets \cap (Masses \cup Lists) = {}
                         /\ Masses \cap Lists = {}

ASSUME DetectorAssumption == ListedDetectors \subseteq Detectors

ASSUME StorageAssumption == MassLimit \in Nat /\ DbMayFail \in BOOLEAN

ASSUME FaultAssumption == /\ MayTimeOut \in BOOLEAN
                          /\ ConnMayFail \in BOOLEAN
                          /\ ComputeMayFail \in BOOLEAN
                          /\ MaxRestarts \in Nat

(* Enum STATUS: what a row of detection_status may hold.                     *)
DbStatus == {"UNKNOWN", "PENDING", "SUCCESS", "FAILURE"}

(* What a DetectionStatus value may hold: the enum, the word the compute     *)
(* service answers with when it has no such detector, and the mark of a body *)
(* that json.Unmarshal refuses (such a body is no status at all).            *)
StatusWord == DbStatus \cup {"FAILED", "GARBLED"}

(* A verdict either carries labels with probabilities or is empty.           *)
Verdicts == {"none", "labels"}

DetectionStatus == [id : Ids, status : StatusWord, verdict : Verdicts]

Status(id, word) ==
  [id |-> id, status |-> word,
   verdict |-> IF word = "SUCCESS" THEN "labels" ELSE "none"]

(* DetectionStatus{Status: FAILURE}: the request id keeps its zero value.    *)
Failure == Status(NilId, "FAILURE")

Garbled == Status(NilId, "GARBLED")

(* The three message types of ClientToServer.Msg; the detector is the name   *)
(* a DetectionRequest carries, "" in the other two.                          *)
Message == [op : {"PUT", "GET", "MASS"}, id : Ids, detector : Detectors \cup {""}]

DetectionRequest(id, d)    == [op |-> "PUT",  id |-> id, detector |-> d]
DetectionQuery(id)         == [op |-> "GET",  id |-> id, detector |-> ""]
MassDetectionStatusRequest == [op |-> "MASS", id |-> NilId, detector |-> ""]

(* ClientToServer: the message and the channel to answer on, which is named  *)
(* by the call that made it.                                                 *)
ClientToServer == [ret : Calls, msg : Message]
=============================================================================
