----------------------------- MODULE BoilColumns -----------------------------
(***************************************************************************)
(* How the generated data access (core/pkg/storage/models) turns a call on *)
(* an object into a statement: which columns the statement names, and      *)
(* under which key it is cached.  A column list is the set of its columns; *)
(* the same columns in another order are another key for the same meaning. *)
(*                                                                         *)
(* The table is detection_status.  Null is SQL's NULL and the zero value   *)
(* of a Go field; the columns without a default are the NOT NULL ones, and *)
(* the others default to NULL (storage/docker/schema.sql).                 *)
(***************************************************************************)
CONSTANTS
  AllColumns,    (* detectionStatusAllColumns                                *)
  Key,           (* the one column of detectionStatusPrimaryKeyColumns       *)
  WithDefault,   (* detectionStatusColumnsWithDefault                        *)
  Keys,          (* request ids                                              *)
  Values,        (* what the other columns hold                              *)
  Null

ASSUME ColumnAssumption == /\ Key \in AllColumns
                           /\ WithDefault \subseteq AllColumns \ {Key}
                           /\ Null \notin Keys \cup Values

WithoutDefault == AllColumns \ WithDefault

(* DetectionStatus: one field per column.                                    *)
Object == {o \in [AllColumns -> Keys \cup Values \cup {Null}] : o[Key] \in Keys}

(* boil.Columns.                                                             *)
Columns == [kind : {"none", "infer", "whitelist", "blacklist", "greylist"},
            cols : SUBSET AllColumns]

Infer == [kind |-> "infer", cols |-> {}]

(* queries.NonZeroDefaultSet.                                                *)
NonZeroDefaultSet(o) == {col \in WithDefault : o[col] # Null}

InferredInsert(nz) == WithoutDefault \cup nz

(* Mutant: what the object holds in a column with a default is not sent.     *)
InsertSetWithoutNonZero(c, nz) == WithoutDefault

(* boil.Columns.InsertColumnSet, first result.                               *)
InsertColumnSet(c, nz) ==
  CASE c.kind = "none"      -> {}
    [] c.kind = "infer"     -> InferredInsert(nz)
    [] c.kind = "whitelist" -> c.cols
    [] c.kind = "blacklist" -> InferredInsert(nz) \ c.cols
    [] c.kind = "greylist"  -> InferredInsert(nz) \cup c.cols

(* boil.Columns.UpdateColumnSet.                                             *)
UpdateColumnSet(c) ==
  CASE c.kind = "none"      -> {}
    [] c.kind = "infer"     -> AllColumns \ {Key}
    [] c.kind = "whitelist" -> c.cols
    [] c.kind = "blacklist" -> (AllColumns \ {Key}) \ c.cols
    [] c.kind = "greylist"  -> (AllColumns \ {Key}) \cup c.cols

-----------------------------------------------------------------------------
(* A call of Insert, Update or Upsert: what it names besides its object.     *)
Call == [op : {"insert", "update", "upsert"}, updateOnConflict : BOOLEAN,
         conflict : SUBSET AllColumns, update : Columns, insert : Columns]

InsertCall(c) == [op |-> "insert", updateOnConflict |-> FALSE, conflict |-> {},
                  update |-> Infer, insert |-> c]
UpdateCall(c) == [op |-> "update", updateOnConflict |-> FALSE, conflict |-> {},
                  update |-> c, insert |-> Infer]
UpsertCall(t, conflict, u, i) ==
  [op |-> "upsert", updateOnConflict |-> t, conflict |-> conflict,
   update |-> u, insert |-> i]

(* The call of Storage.UpdStatus (storage.go:50).                            *)
StorageCall == UpsertCall(TRUE, {Key}, Infer, Infer)

(* A statement: the columns it gives values for, those it sets in a row that *)
(* is there, those it returns, and what it does when the row is there.       *)
Statement == [verb : {"insert", "update", "upsert"}, values : SUBSET AllColumns,
              set : SUBSET AllColumns, ret : SUBSET AllColumns,
              target : SUBSET AllColumns, nothing : BOOLEAN]

InsertStatement(call, nz) ==
  LET wl == InsertColumnSet(call.insert, nz)
  IN  [verb |-> "insert", values |-> wl, set |-> {},
       ret |-> IF call.insert.kind = "none" THEN {} ELSE WithDefault \ wl,
       target |-> {}, nothing |-> FALSE]

UpdateStatement(call) ==
  [verb |-> "update", values |-> {}, set |-> UpdateColumnSet(call.update),
   ret |-> {}, target |-> {Key}, nothing |-> FALSE]

(* Mutant: only the columns the insert does not name are read back.          *)
UpsertReturnsTheRest(call, nz) ==
  LET insert == InsertColumnSet(call.insert, nz)
      update == UpdateColumnSet(call.update)
  IN  [verb |-> "upsert", values |-> insert, set |-> update,
       ret |-> AllColumns \ insert,
       target |-> IF call.conflict = {} /\ call.updateOnConflict THEN {Key}
                                                               ELSE call.conflict,
       nothing |-> ~call.updateOnConflict \/ update = {}]

(* Upsert's column lists as buildUpsertQueryPostgres writes them down.       *)
UpsertStatement(call, nz) ==
  LET insert == InsertColumnSet(call.insert, nz)
      update == UpdateColumnSet(call.update)
  IN  [verb |-> "upsert", values |-> insert, set |-> update,
       ret |-> AllColumns \ (insert \cap update),
       target |-> IF call.conflict = {} /\ call.updateOnConflict THEN {Key}
                                                               ELSE call.conflict,
       nothing |-> ~call.updateOnConflict \/ update = {}]

Build(call, nz) ==
  CASE call.op = "insert" -> InsertStatement(call, nz)
    [] call.op = "update" -> UpdateStatement(call)
    [] call.op = "upsert" -> UpsertStatement(call, nz)

(* "could not build whitelist", "could not build update column list".        *)
Buildable(call) ==
  \/ call.op = "insert"
  \/ call.op = "upsert" /\ ~call.updateOnConflict
  \/ UpdateColumnSet(call.update) # {}

-----------------------------------------------------------------------------
makeCacheKey(c, nz) == <<c, nz>>

(* Mutant: a key without the object's non-zero defaults.                     *)
UpsertKeyWithoutNonZero(call, nz) ==
  <<call.updateOnConflict, call.conflict, call.update, call.insert>>

UpsertKey(call, nz) ==
  <<call.updateOnConflict, call.conflict, call.update, call.insert, nz>>

CacheKey(call, nz) ==
  CASE call.op = "insert" -> makeCacheKey(call.insert, nz)
    [] call.op = "update" -> makeCacheKey(call.update, {})
    [] call.op = "upsert" -> UpsertKey(call, nz)
=============================================================================
