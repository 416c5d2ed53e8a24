------------------------------- MODULE Storage -------------------------------
(***************************************************************************)
(* core/pkg/storage/storage.go over the PostgreSQL table detection_status. *)
(* Every call is one statement outside any transaction, so it is atomic.   *)
(* Its error path is the code's: the error is logged, the caller is not    *)
(* told and goes on.                                                       *)
(***************************************************************************)
EXTENDS CoreTypes

VARIABLES
  table,      (* detection_status: primary key request_id -> row *)
  errorLog    (* request ids of "Can not insert value into storage" *)

storageVars == <<table, errorLog>>

Row   == [status : DbStatus, verdict : Verdicts]
NoRow == [status |-> "UNKNOWN", verdict |-> "absent"]

StorageTypeOK == /\ table \in [Ids -> Row \cup {NoRow}]
                 /\ errorLog \subseteq Ids

StorageInit == /\ table = [id \in Ids |-> NoRow]
               /\ errorLog = {}

(* Mutant: an UPDATE that has lost its WHERE.                                *)
UpsertEverywhere(s) ==
  table' = [id \in Ids |-> IF id = s.id \/ table[id] # NoRow
                           THEN [status |-> s.status, verdict |-> s.verdict]
                           ELSE NoRow]

(* INSERT ... ON CONFLICT (request_id) DO UPDATE SET status, data.           *)
Upsert(s) == table' = [table EXCEPT ![s.id] = [status  |-> s.status,
                                               verdict |-> s.verdict]]

(* Mutant: a status column of type TEXT takes any word.                      *)
UpdStatusUnchecked(s) == Upsert(s) /\ UNCHANGED errorLog

(* Mutant: the error of the statement is not even logged.                    *)
UpdStatusUnlogged(s) ==
  \/ s.status \in DbStatus /\ Upsert(s) /\ UNCHANGED errorLog
  \/ (s.status \notin DbStatus \/ DbMayFail) /\ UNCHANGED storageVars

(* PostgreSQL refuses a word that is not in the enum, and may fail anyway,   *)
(* before the statement is done or with its answer still on the way.         *)
UpdStatus(s) ==
  \/ /\ s.status \in DbStatus
     /\ Upsert(s)
     /\ UNCHANGED errorLog
  \/ /\ s.status \notin DbStatus \/ DbMayFail
     /\ errorLog' = errorLog \cup {s.id}
     /\ UNCHANGED table
  \/ /\ s.status \in DbStatus /\ DbMayFail
     /\ errorLog' = errorLog \cup {s.id}
     /\ Upsert(s)

(* Mutant: a row without data reads as a row that is not there.              *)
convertFinishedOnly(id) ==
  [id |-> id, verdict |-> table[id].verdict,
   status |-> IF table[id].verdict = "labels" THEN table[id].status ELSE "UNKNOWN"]

convertDetectionStatus(id) ==
  [id |-> id, status |-> table[id].status, verdict |-> table[id].verdict]

(* What GetStatus may return: no row and an error both read as UNKNOWN.      *)
GetStatus(id) ==
  (IF table[id] = NoRow THEN {Status(id, "UNKNOWN")}
                        ELSE {convertDetectionStatus(id)})
  \cup (IF DbMayFail THEN {Status(id, "UNKNOWN")} ELSE {})

(* What MassStatus may return: any MassLimit rows (there is no ORDER BY), or *)
(* none on an error.                                                         *)
MassStatus ==
  LET stored == {convertDetectionStatus(id) : id \in {i \in Ids : table[i] # NoRow}}
      size   == IF Cardinality(stored) < MassLimit THEN Cardinality(stored)
                                                   ELSE MassLimit
  IN  {page \in SUBSET stored : Cardinality(page) = size}
      \cup (IF DbMayFail THEN {{}} ELSE {})

DetectorExists(d) ==
  {d \in ListedDetectors} \cup (IF DbMayFail THEN {FALSE} ELSE {})
=============================================================================
