------------------------------ MODULE BoilTable ------------------------------
(***************************************************************************)
(* The operations of the generated data access on one table, called by     *)
(* several goroutines: core/pkg/storage/models/detection_status.go.        *)
(*                                                                         *)
(* Insert, Update and Upsert look their statement up under a read lock,    *)
(* build it when it is not there, execute it, and put it into the cache    *)
(* under the write lock once it has succeeded.  Between these steps other  *)
(* goroutines do theirs.  What a goroutine does alone (hooks, building) is *)
(* part of the step that follows or goes before it, each statement is      *)
(* atomic in the database, and an object is its goroutine's own.           *)
(*                                                                         *)
(* Not modelled: the options of Upsert, which go into the statement and    *)
(* not into its key (nothing in the repository passes one), and Count and  *)
(* Exists, which are one statement and keep nothing.                       *)
(***************************************************************************)
EXTENDS BoilColumns, Naturals, FiniteSets

CONSTANTS
  Callers,        (* goroutines                                              *)
  CallsOffered,   (* the calls of Insert, Update and Upsert they make        *)
  ObjectsOffered, (* the objects they make them on                           *)
  NoRow,          (* there is no row with this key                           *)
  HookPoints,     (* where AddDetectionStatusHook may be used                *)
  DbMayFail,      (* TRUE: a statement may fail, done or not                 *)
  MaxCalls        (* bound: calls made                                         *)

(* boil.HookPoint, as far as a table has them.                              *)
Points == {"beforeInsert", "beforeUpdate", "beforeUpsert", "beforeDelete",
           "afterInsert", "afterUpdate", "afterUpsert", "afterDelete",
           "afterSelect"}

ASSUME OfferAssumption == /\ StorageCall \in CallsOffered
                          /\ CallsOffered \subseteq Call
                          /\ ObjectsOffered \subseteq Object
                          /\ NoRow \notin Object
                          /\ HookPoints \subseteq Points
                          /\ DbMayFail \in BOOLEAN
                          /\ MaxCalls \in Nat

VARIABLES
  rows,    (* the table                                                      *)
  cache,   (* insertCache, updateCache, upsertCache: key -> statement        *)
  hooks,   (* the hook points that have hooks                                *)
  pc,      (* of a goroutine: idle, or before the statement, or after it     *)
  frame,   (* of a goroutine: call, non-zero defaults, key, cached, statement*)
  obj,     (* the object a goroutine holds                                   *)
  slice,   (* the objects of its DetectionStatusSlice                        *)
  calls    (* how many calls were made                                       *)

vars == <<rows, cache, hooks, pc, frame, obj, slice, calls>>

Operations == {"insert", "update", "upsert"}

Before == [insert |-> "beforeInsert", update |-> "beforeUpdate",
           upsert |-> "beforeUpsert"]

NoStatement == [verb |-> "none"]

(* The local variables of Insert, Update and Upsert.                         *)
Frame(key) == [call : CallsOffered, nz : SUBSET WithDefault, key : {key},
               cached : BOOLEAN, stmt : Statement \cup {NoStatement}]

NoFrame == [call |-> StorageCall, nz |-> {}, key |-> CacheKey(StorageCall, {}),
            cached |-> FALSE, stmt |-> NoStatement]

Blank == [col \in AllColumns |-> Null]

BoilTypeOK ==
  /\ rows \in [Keys -> Object \cup {NoRow}]
  /\ \A k \in Keys : rows[k] # NoRow =>
       rows[k][Key] = k /\ \A col \in WithoutDefault : rows[k][col] # Null
  /\ DOMAIN cache = Operations
  /\ \A op \in Operations : \A key \in DOMAIN cache[op] : cache[op][key] \in Statement
  /\ hooks \subseteq Points
  /\ pc \in [Callers -> {"idle", "execute", "finish"}]
  /\ DOMAIN frame = Callers
  /\ \A c \in Callers : frame[c] \in Frame(CacheKey(frame[c].call, frame[c].nz))
  /\ obj \in [Callers -> Object \cup {Blank}]
  /\ slice \in [Callers -> SUBSET Object]
  /\ calls \in 0 .. MaxCalls

(* The caches start empty with the process, the table does not.              *)
Init ==
  /\ rows \in [Keys -> ObjectsOffered \cup {NoRow}]
  /\ \A k \in Keys : rows[k] # NoRow =>
       rows[k][Key] = k /\ \A col \in WithoutDefault : rows[k][col] # Null
  /\ cache = [op \in Operations |-> [key \in {} |-> NoStatement]]
  /\ hooks = {}
  /\ pc = [c \in Callers |-> "idle"]
  /\ frame = [c \in Callers |-> NoFrame]
  /\ obj = [c \in Callers |-> Blank]
  /\ slice = [c \in Callers |-> {}]
  /\ calls = 0

-----------------------------------------------------------------------------
(* Hooks are registered while no call is being served: the lists are read    *)
(* without their mutex.                                                      *)
AddDetectionStatusHook(point) ==
  /\ \A c \in Callers : pc[c] = "idle"
  /\ hooks' = hooks \cup {point}
  /\ UNCHANGED <<rows, cache, pc, frame, obj, slice, calls>>

Enter(c) == /\ pc[c] = "idle"
            /\ calls < MaxCalls
            /\ calls' = calls + 1

-----------------------------------------------------------------------------
(* Insert, Update, Upsert.                                                   *)

(* A list of hooks ends at the first that returns an error, and the call.    *)
RefusedBefore(call) == Before[call.op] \in hooks /\ UNCHANGED <<pc, frame>>

(* The before hooks have run; RLock, look up, RUnlock.                       *)
LookUp(c, call, o) ==
  LET nz     == NonZeroDefaultSet(o)
      key    == CacheKey(call, nz)
      cached == key \in DOMAIN cache[call.op]
  IN  /\ frame' = [frame EXCEPT ![c] =
                     [call |-> call, nz |-> nz, key |-> key, cached |-> cached,
                      stmt |-> IF cached THEN cache[call.op][key] ELSE NoStatement]]
      /\ pc' = [pc EXCEPT ![c] = "execute"]

Begin(c, call, o) ==
  /\ Enter(c)
  /\ obj' = [obj EXCEPT ![c] = o]
  /\ RefusedBefore(call) \/ LookUp(c, call, o)
  /\ UNCHANGED <<rows, cache, hooks, slice>>

(* The row an INSERT makes of the values it is given.                        *)
NewRow(stmt, o) == [col \in AllColumns |-> IF col \in stmt.values THEN o[col] ELSE Null]

(* Mutant: a table whose columns all take NULL.                              *)
TakesNull(row) == TRUE

Complete(row) == \A col \in WithoutDefault : row[col] # Null

(* The row a SET leaves, with the values of another row.                     *)
SetRow(old, set, new) == [col \in AllColumns |-> IF col \in set THEN new[col] ELSE old[col]]

Valid(stmt, o) ==
  CASE stmt.verb = "insert" -> Complete(NewRow(stmt, o)) /\ rows[o[Key]] = NoRow
    [] stmt.verb = "update" -> rows[o[Key]] # NoRow =>
                                 Complete(SetRow(rows[o[Key]], stmt.set, o))
    [] stmt.verb = "upsert" -> Complete(NewRow(stmt, o)) /\ stmt.target \in {{}, {Key}}

(* What a statement that is valid makes of the row with the object's key.    *)
RowAfter(stmt, o) ==
  LET old == rows[o[Key]]
  IN  CASE stmt.verb = "insert" -> NewRow(stmt, o)
        [] stmt.verb = "update" -> IF old = NoRow THEN NoRow ELSE SetRow(old, stmt.set, o)
        [] stmt.verb = "upsert" -> IF old = NoRow THEN NewRow(stmt, o)
                                   ELSE IF stmt.nothing THEN old
                                   ELSE SetRow(old, stmt.set, NewRow(stmt, o))

(* RETURNING gives nothing when ON CONFLICT did nothing; Scan fills the      *)
(* object's fields with what it gives.                                       *)
Returned(stmt, o) ==
  IF stmt.verb = "update" \/ (stmt.verb = "upsert" /\ stmt.nothing /\ rows[o[Key]] # NoRow)
  THEN {} ELSE stmt.ret

(* Mutant: an UPDATE that has lost its WHERE.                                *)
ApplyEverywhere(stmt, o) ==
  LET new == RowAfter(stmt, o)
  IN  rows' = [k \in Keys |-> IF k = o[Key] THEN new
                              ELSE IF NoRow \in {rows[k], new} THEN rows[k]
                              ELSE [new EXCEPT ![Key] = k]]

Apply(stmt, o) == rows' = [rows EXCEPT ![o[Key]] = RowAfter(stmt, o)]

Chosen(c) == IF frame[c].cached THEN frame[c].stmt
                                ELSE Build(frame[c].call, frame[c].nz)

Runs(c) == frame[c].cached \/ Buildable(frame[c].call)

Executed(c) ==
  /\ Runs(c)
  /\ Valid(Chosen(c), obj[c])
  /\ Apply(Chosen(c), obj[c])
  /\ obj' = [obj EXCEPT ![c] =
               SetRow(@, Returned(Chosen(c), @), RowAfter(Chosen(c), @))]
  /\ frame' = [frame EXCEPT ![c].stmt = Chosen(c)]
  /\ pc' = [pc EXCEPT ![c] = "finish"]

(* It could not be built, it was refused, or it failed; in the last case it  *)
(* may have been done before its answer was lost.                            *)
NotExecuted(c) ==
  /\ \/ ~Runs(c) /\ UNCHANGED rows
     \/ Runs(c) /\ (~Valid(Chosen(c), obj[c]) \/ DbMayFail) /\ UNCHANGED rows
     \/ Runs(c) /\ Valid(Chosen(c), obj[c]) /\ DbMayFail /\ Apply(Chosen(c), obj[c])
  /\ pc' = [pc EXCEPT ![c] = "idle"]
  /\ frame' = [frame EXCEPT ![c] = NoFrame]
  /\ UNCHANGED obj

Execute(c) ==
  /\ pc[c] = "execute"
  /\ Executed(c) \/ NotExecuted(c)
  /\ UNCHANGED <<cache, hooks, slice, calls>>

(* Lock, store, Unlock; then the after hooks.                                *)
Store(op, key, stmt) ==
  cache' = [cache EXCEPT ![op] =
              [k \in DOMAIN @ \cup {key} |-> IF k = key THEN stmt ELSE @[k]]]

Finish(c) ==
  LET f == frame[c]
  IN  /\ pc[c] = "finish"
      /\ IF f.cached THEN UNCHANGED cache ELSE Store(f.call.op, f.key, f.stmt)
      /\ pc' = [pc EXCEPT ![c] = "idle"]
      /\ frame' = [frame EXCEPT ![c] = NoFrame]
      /\ UNCHANGED <<rows, hooks, obj, slice, calls>>

-----------------------------------------------------------------------------
(* The operations that keep no statement: hooks, one statement, hooks.       *)

Without(ks) == rows' = [k \in Keys |-> IF k \in ks THEN NoRow ELSE rows[k]]

(* A before hook may refuse it; a statement that fails has been done or not. *)
DeleteKeys(ks) ==
  /\ \/ Without(ks)
     \/ (DbMayFail \/ "beforeDelete" \in hooks) /\ UNCHANGED rows
  /\ UNCHANGED <<cache, hooks, pc, frame, obj, slice>>

Delete(c) == /\ Enter(c)
             /\ obj[c] # Blank
             /\ DeleteKeys({obj[c][Key]})

SliceKeys(c) == {o[Key] : o \in slice[c]}

(* DeleteAll of a slice; of an empty one, nothing.                           *)
DeleteSlice(c) == Enter(c) /\ slice[c] # {} /\ DeleteKeys(SliceKeys(c))

(* DeleteAll and UpdateAll of a query, and UpdateAll of a slice, run no hook.*)
DeleteQuery(c, ks) ==
  /\ Enter(c)
  /\ Without(ks) \/ (DbMayFail /\ UNCHANGED rows)
  /\ UNCHANGED <<cache, hooks, pc, frame, obj, slice>>

UpdateAll(c, ks, col, value) ==
  /\ Enter(c)
  /\ \/ /\ value # Null \/ col \in WithDefault
        /\ rows' = [k \in Keys |-> IF k \in ks /\ rows[k] # NoRow
                                   THEN [rows[k] EXCEPT ![col] = value] ELSE rows[k]]
     \/ (DbMayFail \/ (value = Null /\ col \notin WithDefault)) /\ UNCHANGED rows
  /\ UNCHANGED <<cache, hooks, pc, frame, obj, slice>>

-----------------------------------------------------------------------------
(* Reads.  An after-select hook has the last word: its error leaves what was *)
(* read, but Reload then leaves its object alone.                            *)

(* Find by key, and One of a query, with the columns selected, the key among *)
(* them; or ErrNoRows.                                                       *)
One(c, k, cols) ==
  /\ Enter(c)
  /\ rows[k] # NoRow
  /\ obj' = [obj EXCEPT ![c] = SetRow(Blank, cols \cup {Key}, rows[k])]
  /\ UNCHANGED <<rows, cache, hooks, pc, frame, slice>>

Reload(c) ==
  /\ Enter(c)
  /\ obj[c] # Blank /\ rows[obj[c][Key]] # NoRow
  /\ \/ obj' = [obj EXCEPT ![c] = rows[@[Key]]]
     \/ (DbMayFail \/ "afterSelect" \in hooks) /\ UNCHANGED obj
  /\ UNCHANGED <<rows, cache, hooks, pc, frame, slice>>

Stored(ks) == {rows[k] : k \in {i \in ks : rows[i] # NoRow}}

All(c, ks) ==
  /\ Enter(c)
  /\ slice' = [slice EXCEPT ![c] = Stored(ks)]
  /\ UNCHANGED <<rows, cache, hooks, pc, frame, obj>>

(* The slice becomes what is left of its rows; no hook is run.               *)
ReloadAll(c) ==
  /\ Enter(c)
  /\ slice' = [slice EXCEPT ![c] = Stored(SliceKeys(c))]
  /\ UNCHANGED <<rows, cache, hooks, pc, frame, obj>>

-----------------------------------------------------------------------------
Write(c) ==
  \/ \E call \in CallsOffered : \E o \in ObjectsOffered \cup ({obj[c]} \ {Blank}) :
       Begin(c, call, o)
  \/ Execute(c)
  \/ Finish(c)

Bulk(c) ==
  \/ Delete(c)
  \/ DeleteSlice(c)
  \/ \E ks \in SUBSET Keys :
       \/ DeleteQuery(c, ks)
       \/ \E col \in AllColumns \ {Key} : \E o \in ObjectsOffered :
            UpdateAll(c, ks, col, o[col])

Read(c) ==
  \/ \E k \in Keys : \E cols \in {{}, AllColumns} : One(c, k, cols)
  \/ \E ks \in SUBSET Keys : All(c, ks)
  \/ Reload(c)
  \/ ReloadAll(c)

Next == \/ \E c \in Callers : Write(c) \/ Bulk(c) \/ Read(c)
        \/ \E point \in HookPoints : AddDetectionStatusHook(point)

Spec == Init /\ [][Next]_vars

-----------------------------------------------------------------------------
(* The statement a goroutine has in hand is the one its call and its object  *)
(* would build, and could, wherever it comes from.                           *)
FramesAgree ==
  \A c \in Callers :
    pc[c] # "idle" =>
      /\ obj[c] # Blank
      /\ pc[c] = "execute" => frame[c].nz = NonZeroDefaultSet(obj[c])
      /\ frame[c].cached \/ pc[c] = "finish" =>
           /\ Buildable(frame[c].call)
           /\ frame[c].stmt = Build(frame[c].call, frame[c].nz)

(* Whatever goroutines looked up, built and stored in between, a cached      *)
(* statement is the one that every call with its key would build for every   *)
(* object with its non-zero columns (detection_status.go:508, 577, 737): a   *)
(* call never runs a statement made for another kind of object, nor one that *)
(* it would have been refused without the cache.                             *)
CachesAgree ==
  /\ \A call \in CallsOffered : \A nz \in SUBSET WithDefault :
       CacheKey(call, nz) \in DOMAIN cache[call.op] =>
         /\ Buildable(call)
         /\ cache[call.op][CacheKey(call, nz)] = Build(call, nz)
  /\ FramesAgree

Succeeds(c) == pc[c] = "execute" /\ pc'[c] = "finish"

(* After an Insert, or an Upsert that updates, has succeeded, the object is  *)
(* the row: RETURNING names every column that the statement gave another     *)
(* value than the object's (detection_status.go:511, 759).  An Upsert that   *)
(* does nothing on a conflict leaves both as they were.                      *)
Synced ==
  [][\A c \in Callers :
       Succeeds(c) /\ \/ frame[c].call.op = "insert"
                      \/ /\ frame[c].call.op = "upsert"
                         /\ frame[c].call.updateOnConflict \/ rows[obj[c][Key]] = NoRow
       => obj'[c] = rows'[obj[c][Key]]]_vars

(* A statement for an object changes only the object's row, and in a row     *)
(* that was there only the columns the call means to update.                 *)
OwnRowOnly ==
  [][\A c \in Callers :
       pc[c] = "execute" /\ pc'[c] # "execute" /\ rows' # rows =>
         /\ \A k \in Keys \ {obj[c][Key]} : rows'[k] = rows[k]
         /\ rows[obj[c][Key]] # NoRow =>
              \A col \in AllColumns \ UpdateColumnSet(frame[c].call.update) :
                rows'[obj[c][Key]][col] = rows[obj[c][Key]][col]]_vars

(* What Storage counts on (storage.go:50): a status upserted the way it does *)
(* it replaces the whole row, be the statement cached or built, and nothing  *)
(* of the object is lost on the way.                                         *)
StorageUpsertIsWhole ==
  [][\A c \in Callers :
       Succeeds(c) /\ frame[c].call = StorageCall =>
         rows' = [rows EXCEPT ![obj[c][Key]] = obj[c]]]_vars
=============================================================================
