--------------------------- MODULE BoilTableProofs ---------------------------
(***************************************************************************)
(* Theorems about BoilTable for every table, every set of calls and every  *)
(* number of goroutines.                                                   *)
(***************************************************************************)
EXTENDS BoilTable, TLAPS

-----------------------------------------------------------------------------
(* Column sets and statements.                                               *)

(* The column sets a call infers are columns of the table.                   *)
LEMMA ColumnSetTypes ==
  ASSUME NEW c \in Columns, NEW nz \in SUBSET WithDefault
  PROVE  /\ InsertColumnSet(c, nz) \subseteq AllColumns
         /\ UpdateColumnSet(c) \subseteq AllColumns
  <1>1. c.kind \in {"none", "infer", "whitelist", "blacklist", "greylist"}
        /\ c.cols \subseteq AllColumns
    BY DEF Columns
  <1>2. InferredInsert(nz) \subseteq AllColumns
    BY ColumnAssumption DEF InferredInsert, WithoutDefault
  <1> QED
    BY <1>1, <1>2 DEF InsertColumnSet, UpdateColumnSet

(* What is built is a statement.                                             *)
LEMMA BuildType ==
  ASSUME NEW call \in Call, NEW nz \in SUBSET WithDefault
  PROVE  Build(call, nz) \in Statement
  <1>1. /\ call.op \in {"insert", "update", "upsert"}
        /\ call.updateOnConflict \in BOOLEAN
        /\ call.conflict \subseteq AllColumns
        /\ call.update \in Columns /\ call.insert \in Columns
    BY DEF Call
  <1>2. /\ InsertColumnSet(call.insert, nz) \subseteq AllColumns
        /\ UpdateColumnSet(call.update) \subseteq AllColumns
    BY <1>1, ColumnSetTypes
  <1>3. WithDefault \subseteq AllColumns /\ Key \in AllColumns
    BY ColumnAssumption
  <1>4. InsertStatement(call, nz) \in Statement
    BY <1>2, <1>3 DEF InsertStatement, Statement
  <1>5. UpdateStatement(call) \in Statement
    BY <1>2, <1>3 DEF UpdateStatement, Statement
  <1>6. UpsertStatement(call, nz) \in Statement
    BY <1>1, <1>2, <1>3 DEF UpsertStatement, Statement
  <1> QED
    BY <1>1, <1>4, <1>5, <1>6 DEF Build

(* Two calls of one operation with one cache key build one statement, or     *)
(* neither can be built.                                                     *)
LEMMA KeyDeterminesStatement ==
  ASSUME NEW call1 \in Call, NEW call2 \in Call,
         NEW nz1 \in SUBSET WithDefault, NEW nz2 \in SUBSET WithDefault,
         call1.op = call2.op, CacheKey(call1, nz1) = CacheKey(call2, nz2)
  PROVE  /\ Build(call1, nz1) = Build(call2, nz2)
         /\ Buildable(call1) <=> Buildable(call2)
  <1>1. CASE call1.op = "insert"
    <2>1. call1.insert = call2.insert /\ nz1 = nz2
      BY <1>1 DEF CacheKey, makeCacheKey
    <2> QED
      BY <1>1, <2>1 DEF Build, Buildable, InsertStatement
  <1>2. CASE call1.op = "update"
    <2>1. call1.update = call2.update
      BY <1>2 DEF CacheKey, makeCacheKey
    <2> QED
      BY <1>2, <2>1 DEF Build, Buildable, UpdateStatement
  <1>3. CASE call1.op = "upsert"
    <2>1. /\ call1.updateOnConflict = call2.updateOnConflict
          /\ call1.conflict = call2.conflict
          /\ call1.update = call2.update /\ call1.insert = call2.insert
          /\ nz1 = nz2
      BY <1>3 DEF CacheKey, UpsertKey
    <2> QED
      BY <1>3, <2>1 DEF Build, Buildable, UpsertStatement
  <1> QED
    BY <1>1, <1>2, <1>3 DEF Call

-----------------------------------------------------------------------------
(* Rows and objects.                                                         *)

(* The non-zero defaults of an object are columns with a default.            *)
LEMMA NonZeroType ==
  ASSUME NEW o
  PROVE  NonZeroDefaultSet(o) \in SUBSET WithDefault
  BY DEF NonZeroDefaultSet

(* An object some of whose columns are set from another is an object, and    *)
(* its key is one of theirs.                                                 *)
LEMMA SetRowType ==
  ASSUME NEW old \in Object, NEW new \in Object, NEW set
  PROVE  /\ SetRow(old, set, new) \in Object
         /\ old[Key] = new[Key] => SetRow(old, set, new)[Key] = old[Key]
  BY ColumnAssumption DEF SetRow, Object

(* A row that may be inserted is an object with the key of the one it is     *)
(* made of.                                                                  *)
LEMMA NewRowType ==
  ASSUME NEW stmt, NEW o \in Object, Complete(NewRow(stmt, o))
  PROVE  /\ NewRow(stmt, o) \in Object
         /\ NewRow(stmt, o)[Key] = o[Key]
  <1>1. Key \in AllColumns /\ Key \in WithoutDefault
    BY ColumnAssumption DEF WithoutDefault
  <1>2. Key \in stmt.values
    BY <1>1 DEF Complete, NewRow
  <1>3. NewRow(stmt, o)[Key] = o[Key]
    BY <1>1, <1>2 DEF NewRow
  <1> QED
    BY <1>1, <1>3 DEF NewRow, Object

(* The table and the objects are of their types.                             *)
TableOK ==
  /\ rows \in [Keys -> Object \cup {NoRow}]
  /\ \A k \in Keys : rows[k] # NoRow => rows[k][Key] = k /\ Complete(rows[k])

(* What a valid statement makes of a row is a row with the same key; only an *)
(* update may find none.                                                     *)
LEMMA RowAfterType ==
  ASSUME TableOK, NEW stmt \in Statement, NEW o \in Object, Valid(stmt, o)
  PROVE  LET row == RowAfter(stmt, o)
         IN  row # NoRow \/ stmt.verb # "update" =>
               row \in Object /\ row[Key] = o[Key] /\ Complete(row)
  <1>1. /\ o[Key] \in Keys
        /\ rows[o[Key]] # NoRow => /\ rows[o[Key]] \in Object
                                   /\ rows[o[Key]][Key] = o[Key]
                                   /\ Complete(rows[o[Key]])
    BY DEF TableOK, Object
  <1>2. stmt.verb \in {"insert", "update", "upsert"}
    BY DEF Statement
  <1>3. CASE stmt.verb = "insert"
    BY <1>3, NewRowType DEF RowAfter, Valid
  <1>4. CASE stmt.verb = "update"
    <2>1. rows[o[Key]] = NoRow => RowAfter(stmt, o) = NoRow
      BY <1>4 DEF RowAfter
    <2>2. rows[o[Key]] # NoRow =>
            /\ RowAfter(stmt, o) = SetRow(rows[o[Key]], stmt.set, o)
            /\ Complete(SetRow(rows[o[Key]], stmt.set, o))
      BY <1>4 DEF RowAfter, Valid
    <2> QED
      BY <1>4, <2>1, <2>2, <1>1, SetRowType
  <1>5. CASE stmt.verb = "upsert"
    <2>1. Complete(NewRow(stmt, o))
      BY <1>5 DEF Valid
    <2>2. NewRow(stmt, o) \in Object /\ NewRow(stmt, o)[Key] = o[Key]
      BY <2>1, NewRowType
    <2>3. CASE rows[o[Key]] = NoRow
      BY <1>5, <2>1, <2>2, <2>3 DEF RowAfter
    <2>4. CASE rows[o[Key]] # NoRow /\ stmt.nothing
      BY <1>5, <1>1, <2>4 DEF RowAfter
    <2>5. CASE rows[o[Key]] # NoRow /\ ~stmt.nothing
      <3> DEFINE old == rows[o[Key]]
                 new == NewRow(stmt, o)
      <3>1. RowAfter(stmt, o) = SetRow(old, stmt.set, new)
        BY <1>5, <2>5 DEF RowAfter
      <3>2. SetRow(old, stmt.set, new) \in Object
            /\ SetRow(old, stmt.set, new)[Key] = o[Key]
        BY <1>1, <2>2, <2>5, SetRowType
      <3>3. Complete(SetRow(old, stmt.set, new))
        BY <1>1, <2>1, <2>5 DEF Complete, SetRow, WithoutDefault
      <3> QED
        BY <3>1, <3>2, <3>3
    <2> QED
      BY <2>3, <2>4, <2>5
  <1> QED
    BY <1>2, <1>3, <1>4, <1>5

-----------------------------------------------------------------------------
(* The invariant: types, and caches and frames that agree.                   *)

BoilInv == BoilTypeOK /\ CachesAgree

LEMMA TypeGivesTable ==
  ASSUME BoilTypeOK
  PROVE  TableOK
  BY DEF BoilTypeOK, TableOK, Complete

(* What the calls offered are.                                               *)
LEMMA OfferType ==
  ASSUME NEW call \in CallsOffered
  PROVE  /\ call \in Call
         /\ call.op \in Operations
  BY OfferAssumption DEF Call, Operations

LEMMA NoFrameType ==
  NoFrame \in Frame(CacheKey(NoFrame.call, NoFrame.nz))
  BY OfferAssumption DEF NoFrame, Frame

LEMMA InitInv == Init => BoilInv
  <1> SUFFICES ASSUME Init PROVE BoilInv
    OBVIOUS
  <1> USE DEF Init
  <1>1. rows \in [Keys -> Object \cup {NoRow}]
    BY OfferAssumption
  <1>2. /\ DOMAIN cache = Operations
        /\ \A op \in Operations : DOMAIN cache[op] = {}
    OBVIOUS
  <1>3. \A c \in Callers : frame[c] \in Frame(CacheKey(frame[c].call, frame[c].nz))
    BY NoFrameType
  <1>4. /\ hooks \subseteq Points /\ calls \in 0 .. MaxCalls
        /\ pc \in [Callers -> {"idle", "execute", "finish"}]
        /\ obj \in [Callers -> Object \cup {Blank}]
        /\ slice \in [Callers -> SUBSET Object]
        /\ DOMAIN frame = Callers
    BY OfferAssumption
  <1>5. BoilTypeOK
    BY <1>1, <1>2, <1>3, <1>4 DEF BoilTypeOK
  <1>6. CachesAgree
    BY <1>2, OfferType DEF CachesAgree, FramesAgree
  <1> QED
    BY <1>5, <1>6 DEF BoilInv

-----------------------------------------------------------------------------
(* Insert, Update and Upsert keep the invariant.                             *)

LEMMA BeginStep ==
  ASSUME BoilInv, NEW c \in Callers, NEW call \in CallsOffered,
         NEW o \in Object, Begin(c, call, o)
  PROVE  BoilInv'
  <1>0. BoilTypeOK /\ CachesAgree
    BY DEF BoilInv
  <1>1. /\ obj' = [obj EXCEPT ![c] = o] /\ obj \in [Callers -> Object \cup {Blank}]
        /\ o # Blank /\ pc[c] = "idle"
    BY <1>0, ColumnAssumption DEF Begin, Enter, BoilTypeOK, Object, Blank
  <1>2. /\ calls' \in 0 .. MaxCalls
        /\ UNCHANGED <<rows, cache, hooks, slice>>
        /\ obj' \in [Callers -> Object \cup {Blank}]
    BY <1>0, <1>1, OfferAssumption DEF BoilTypeOK, Begin, Enter
  <1>3. CASE RefusedBefore(call)
    <2>1. BoilTypeOK'
      BY <1>0, <1>2, <1>3 DEF BoilTypeOK, RefusedBefore
    <2>2. CachesAgree'
      BY <1>0, <1>1, <1>2, <1>3 DEF CachesAgree, FramesAgree, RefusedBefore, BoilTypeOK
    <2> QED
      BY <2>1, <2>2 DEF BoilInv
  <1>4. CASE LookUp(c, call, o)
    <2> DEFINE nz     == NonZeroDefaultSet(o)
               key    == CacheKey(call, nz)
               cached == key \in DOMAIN cache[call.op]
               stmt   == IF cached THEN cache[call.op][key] ELSE NoStatement
               f      == [call |-> call, nz |-> nz, key |-> key,
                          cached |-> cached, stmt |-> stmt]
    <2>1. frame' = [frame EXCEPT ![c] = f] /\ pc' = [pc EXCEPT ![c] = "execute"]
      BY <1>4 DEF LookUp
    <2>2. nz \in SUBSET WithDefault
      BY NonZeroType
    <2>3. call.op \in Operations
      BY OfferType
    <2>4. stmt \in Statement \cup {NoStatement}
      BY <1>0, <2>3 DEF BoilTypeOK
    <2>5. f \in Frame(CacheKey(f.call, f.nz))
      BY <2>2, <2>4 DEF Frame
    <2>6. cached => Buildable(call) /\ stmt = Build(call, nz)
      BY <1>0, <2>2 DEF CachesAgree
    <2> HIDE DEF f
    <2>7. BoilTypeOK'
      <3>1. \A d \in Callers : frame'[d] \in Frame(CacheKey(frame'[d].call, frame'[d].nz))
        BY <1>0, <2>1, <2>5 DEF BoilTypeOK
      <3>2. DOMAIN frame' = Callers /\ pc' \in [Callers -> {"idle", "execute", "finish"}]
        BY <1>0, <2>1 DEF BoilTypeOK
      <3> QED
        BY <1>0, <1>2, <3>1, <3>2 DEF BoilTypeOK
    <2>8. FramesAgree'
      <3> SUFFICES ASSUME NEW d \in Callers, pc'[d] # "idle"
                   PROVE  /\ obj'[d] # Blank
                          /\ pc'[d] = "execute" => frame'[d].nz = NonZeroDefaultSet(obj'[d])
                          /\ frame'[d].cached \/ pc'[d] = "finish" =>
                               /\ Buildable(frame'[d].call)
                               /\ frame'[d].stmt = Build(frame'[d].call, frame'[d].nz)
        BY DEF FramesAgree
      <3>1. CASE d = c
        <4>1. frame'[d] = f /\ pc'[d] = "execute" /\ obj'[d] = o
          BY <1>0, <1>1, <2>1, <3>1 DEF BoilTypeOK
        <4>2. f.nz = nz /\ f.cached = cached /\ f.stmt = stmt /\ f.call = call
          BY DEF f
        <4> QED
          BY <1>1, <2>6, <4>1, <4>2
      <3>2. CASE d # c
        <4>1. frame'[d] = frame[d] /\ pc'[d] = pc[d] /\ obj'[d] = obj[d]
          BY <1>0, <1>1, <2>1, <3>2 DEF BoilTypeOK
        <4> QED
          BY <1>0, <4>1 DEF FramesAgree, CachesAgree
      <3> QED
        BY <3>1, <3>2
    <2>9. CachesAgree'
      BY <1>0, <1>2, <2>8 DEF CachesAgree
    <2> QED
      BY <2>7, <2>9 DEF BoilInv
  <1> QED
    BY <1>3, <1>4 DEF Begin

(* The rows a valid statement leaves are rows.                               *)
LEMMA ApplyType ==
  ASSUME BoilTypeOK, NEW stmt \in Statement, NEW o \in Object,
         Valid(stmt, o), Apply(stmt, o)
  PROVE  TableOK'
  <1>1. TableOK
    BY TypeGivesTable
  <1> DEFINE row == RowAfter(stmt, o)
  <1>2. row # NoRow => row \in Object /\ row[Key] = o[Key] /\ Complete(row)
    BY <1>1, RowAfterType
  <1>3. rows' = [rows EXCEPT ![o[Key]] = row] /\ rows \in [Keys -> Object \cup {NoRow}]
    BY <1>1 DEF Apply, TableOK
  <1> HIDE DEF row
  <1>4. rows' \in [Keys -> Object \cup {NoRow}]
    BY <1>2, <1>3
  <1>5. \A k \in Keys : rows'[k] # NoRow => rows'[k][Key] = k /\ Complete(rows'[k])
    BY <1>1, <1>2, <1>3 DEF TableOK
  <1> QED
    BY <1>4, <1>5 DEF TableOK

(* What a goroutine about to execute holds.                                  *)
LEMMA ChosenType ==
  ASSUME BoilInv, NEW c \in Callers, pc[c] = "execute"
  PROVE  /\ obj[c] \in Object
         /\ frame[c].call \in CallsOffered
         /\ frame[c].nz = NonZeroDefaultSet(obj[c])
         /\ frame[c].nz \in SUBSET WithDefault
         /\ Chosen(c) = Build(frame[c].call, frame[c].nz)
         /\ Chosen(c) \in Statement
         /\ Runs(c) <=> Buildable(frame[c].call)
  <1>1. /\ obj[c] \in Object
        /\ frame[c].nz = NonZeroDefaultSet(obj[c])
        /\ frame[c].cached => Buildable(frame[c].call)
        /\ frame[c].cached => frame[c].stmt = Build(frame[c].call, frame[c].nz)
    BY DEF BoilInv, BoilTypeOK, CachesAgree, FramesAgree
  <1>2. frame[c].call \in CallsOffered /\ frame[c].nz \in SUBSET WithDefault
    BY DEF BoilInv, BoilTypeOK, Frame
  <1>3. Chosen(c) = Build(frame[c].call, frame[c].nz)
    BY <1>1 DEF Chosen
  <1>4. Runs(c) <=> Buildable(frame[c].call)
    BY <1>1 DEF Runs
  <1> QED
    BY <1>1, <1>2, <1>3, <1>4, OfferType, BuildType

LEMMA ExecuteStep ==
  ASSUME BoilInv, NEW c \in Callers, Execute(c)
  PROVE  BoilInv'
  <1>1. BoilTypeOK /\ CachesAgree /\ pc[c] = "execute"
        /\ UNCHANGED <<cache, hooks, slice, calls>>
    BY DEF BoilInv, Execute
  <1>2. /\ obj[c] \in Object
        /\ frame[c].call \in CallsOffered
        /\ frame[c].nz \in SUBSET WithDefault
        /\ Chosen(c) = Build(frame[c].call, frame[c].nz)
        /\ Chosen(c) \in Statement
        /\ Runs(c) <=> Buildable(frame[c].call)
    BY <1>1, ChosenType
  <1>3. TableOK
    BY <1>1, TypeGivesTable
  <1>4. CASE Executed(c)
    <2> DEFINE o   == obj[c]
               s   == Chosen(c)
               new == SetRow(o, Returned(s, o), RowAfter(s, o))
    <2>1. /\ Valid(s, o) /\ Apply(s, o) /\ Runs(c)
          /\ obj' = [obj EXCEPT ![c] = new]
          /\ frame' = [frame EXCEPT ![c].stmt = s]
          /\ pc' = [pc EXCEPT ![c] = "finish"]
      BY <1>1, <1>4 DEF Executed, BoilTypeOK
    <2>2. TableOK'
      BY <1>1, <1>2, <2>1, ApplyType
    <2>3. new \in Object
      <3>1. CASE RowAfter(s, o) = NoRow
        <4>1. s.verb = "update"
          BY <1>2, <1>3, <2>1, <3>1, RowAfterType, OfferAssumption
        <4>2. Returned(s, o) = {}
          BY <4>1 DEF Returned
        <4>3. new = [col \in AllColumns |-> o[col]]
          BY <4>2 DEF SetRow
        <4> QED
          BY <1>2, <4>3 DEF Object
      <3>2. CASE RowAfter(s, o) # NoRow
        <4>1. RowAfter(s, o) \in Object
          BY <1>2, <1>3, <2>1, <3>2, RowAfterType
        <4> QED
          BY <1>2, <4>1, SetRowType
      <3> QED
        BY <3>1, <3>2
    <2> HIDE DEF new, s, o
    <2>4. /\ \A d \in Callers : frame'[d] \in Frame(CacheKey(frame'[d].call, frame'[d].nz))
          /\ DOMAIN frame' = Callers
          /\ frame'[c].call = frame[c].call /\ frame'[c].nz = frame[c].nz
          /\ frame'[c].stmt = s
      <3>1. s \in Statement /\ frame[c] \in Frame(CacheKey(frame[c].call, frame[c].nz))
        BY <1>1, <1>2 DEF s, BoilTypeOK
      <3>2. frame'[c] = [frame[c] EXCEPT !.stmt = s]
        BY <1>1, <2>1 DEF BoilTypeOK
      <3>3. /\ frame'[c].call = frame[c].call /\ frame'[c].nz = frame[c].nz
            /\ frame'[c].stmt = s
            /\ frame'[c] \in Frame(CacheKey(frame[c].call, frame[c].nz))
        BY <3>1, <3>2 DEF Frame
      <3>4. \A d \in Callers \ {c} : frame'[d] = frame[d]
        BY <1>1, <2>1 DEF BoilTypeOK
      <3> QED
        BY <1>1, <2>1, <3>3, <3>4 DEF BoilTypeOK
    <2>5. /\ obj' \in [Callers -> Object \cup {Blank}]
          /\ pc' \in [Callers -> {"idle", "execute", "finish"}]
      BY <1>1, <2>1, <2>3 DEF BoilTypeOK
    <2>6. BoilTypeOK'
      BY <1>1, <2>2, <2>4, <2>5 DEF BoilTypeOK, TableOK, Complete
    <2>7. FramesAgree'
      <3>1. new # Blank
        BY <2>3, ColumnAssumption DEF Object, Blank
      <3>2. \A d \in Callers \ {c} : /\ frame'[d] = frame[d] /\ pc'[d] = pc[d]
                                   /\ obj'[d] = obj[d]
        BY <1>1, <2>1 DEF BoilTypeOK
      <3>3. pc'[c] = "finish" /\ obj'[c] = new
        BY <1>1, <2>1 DEF BoilTypeOK
      <3>4. frame'[c].stmt = Build(frame'[c].call, frame'[c].nz)
            /\ Buildable(frame'[c].call)
        BY <1>2, <2>1, <2>4 DEF s
      <3> QED
        BY <1>1, <3>1, <3>2, <3>3, <3>4 DEF FramesAgree, CachesAgree
    <2> QED
      BY <1>1, <2>6, <2>7 DEF BoilInv, CachesAgree
  <1>5. CASE NotExecuted(c)
    <2>1. TableOK'
      <3>1. CASE UNCHANGED rows
        BY <1>3, <3>1 DEF TableOK
      <3>2. CASE Valid(Chosen(c), obj[c]) /\ Apply(Chosen(c), obj[c])
        BY <1>1, <1>2, <3>2, ApplyType
      <3> QED
        BY <1>5, <3>1, <3>2 DEF NotExecuted
    <2>2. /\ pc' = [pc EXCEPT ![c] = "idle"]
          /\ frame' = [frame EXCEPT ![c] = NoFrame]
          /\ obj' = obj
      BY <1>5 DEF NotExecuted
    <2>3. \A d \in Callers : frame'[d] \in Frame(CacheKey(frame'[d].call, frame'[d].nz))
      BY <1>1, <2>2, NoFrameType DEF BoilTypeOK
    <2>4. BoilTypeOK'
      BY <1>1, <2>1, <2>2, <2>3 DEF BoilTypeOK, TableOK, Complete
    <2>5. FramesAgree'
      BY <1>1, <2>2 DEF FramesAgree, CachesAgree, BoilTypeOK
    <2> QED
      BY <1>1, <2>4, <2>5 DEF BoilInv, CachesAgree
  <1> QED
    BY <1>4, <1>5 DEF Execute

LEMMA FinishStep ==
  ASSUME BoilInv, NEW c \in Callers, Finish(c)
  PROVE  BoilInv'
  <1> DEFINE f == frame[c]
  <1>1. /\ BoilTypeOK /\ CachesAgree /\ pc[c] = "finish"
        /\ pc' = [pc EXCEPT ![c] = "idle"]
        /\ frame' = [frame EXCEPT ![c] = NoFrame]
        /\ UNCHANGED <<rows, hooks, obj, slice, calls>>
    BY DEF BoilInv, Finish
  <1>2. /\ f.call \in CallsOffered /\ f.call.op \in Operations
        /\ f.nz \in SUBSET WithDefault
        /\ f.key = CacheKey(f.call, f.nz)
        /\ f.stmt = Build(f.call, f.nz) /\ Buildable(f.call)
    BY <1>1, OfferType DEF BoilTypeOK, Frame, CachesAgree, FramesAgree
  <1>3. f.stmt \in Statement
    BY <1>2, OfferType, BuildType
  <1>4. FramesAgree'
    BY <1>1 DEF FramesAgree, CachesAgree, BoilTypeOK
  <1>5. \A d \in Callers : frame'[d] \in Frame(CacheKey(frame'[d].call, frame'[d].nz))
    BY <1>1, NoFrameType DEF BoilTypeOK
  <1>6. CASE UNCHANGED cache
    <2>1. BoilTypeOK'
      BY <1>1, <1>5, <1>6 DEF BoilTypeOK
    <2> QED
      BY <1>1, <1>4, <1>6, <2>1 DEF BoilInv, CachesAgree
  <1>7. CASE Store(f.call.op, f.key, f.stmt)
    <2>1. /\ DOMAIN cache' = Operations
          /\ \A op \in Operations \ {f.call.op} : cache'[op] = cache[op]
          /\ cache'[f.call.op] =
               [k \in DOMAIN cache[f.call.op] \cup {f.key} |->
                  IF k = f.key THEN f.stmt ELSE cache[f.call.op][k]]
      BY <1>1, <1>2, <1>7 DEF Store, BoilTypeOK
    <2>2. \A op \in Operations : \A key \in DOMAIN cache'[op] : cache'[op][key] \in Statement
      BY <1>1, <1>3, <2>1 DEF BoilTypeOK
    <2>3. BoilTypeOK'
      BY <1>1, <1>5, <2>1, <2>2 DEF BoilTypeOK
    <2>4. ASSUME NEW call \in CallsOffered, NEW nz \in SUBSET WithDefault,
                 CacheKey(call, nz) \in DOMAIN cache'[call.op]
          PROVE  /\ Buildable(call)
                 /\ cache'[call.op][CacheKey(call, nz)] = Build(call, nz)
      <3>1. call \in Call /\ call.op \in Operations /\ f.call \in Call
        BY <1>2, OfferType
      <3>2. CASE call.op = f.call.op /\ CacheKey(call, nz) = f.key
        <4>1. Build(call, nz) = Build(f.call, f.nz) /\ Buildable(call)
          BY <1>2, <3>1, <3>2, KeyDeterminesStatement
        <4> QED
          BY <1>2, <2>1, <3>2, <4>1
      <3>3. CASE ~(call.op = f.call.op /\ CacheKey(call, nz) = f.key)
        <4>1. /\ CacheKey(call, nz) \in DOMAIN cache[call.op]
              /\ cache'[call.op][CacheKey(call, nz)] = cache[call.op][CacheKey(call, nz)]
          BY <2>1, <2>4, <3>1, <3>3
        <4> QED
          BY <1>1, <4>1 DEF CachesAgree
      <3> QED
        BY <3>2, <3>3
    <2> QED
      BY <1>4, <2>3, <2>4 DEF BoilInv, CachesAgree
  <1> QED
    BY <1>6, <1>7 DEF Finish

-----------------------------------------------------------------------------
(* The other operations leave pc, frames and caches alone.                   *)

(* A step of a goroutine that is not in the middle of a call, and that       *)
(* touches neither caches nor frames, keeps the invariant.                   *)
LEMMA OtherStep ==
  ASSUME BoilInv, NEW c \in Callers, pc[c] = "idle", TableOK',
         UNCHANGED <<cache, hooks, pc, frame>>, calls' \in 0 .. MaxCalls,
         obj' \in [Callers -> Object \cup {Blank}],
         \A d \in Callers \ {c} : obj'[d] = obj[d],
         slice' \in [Callers -> SUBSET Object]
  PROVE  BoilInv'
  <1>1. BoilTypeOK'
    BY DEF BoilInv, BoilTypeOK, TableOK, Complete
  <1>2. FramesAgree'
    BY DEF BoilInv, CachesAgree, FramesAgree
  <1> QED
    BY <1>1, <1>2 DEF BoilInv, CachesAgree

LEMMA EnterCounts ==
  ASSUME BoilInv, NEW c, Enter(c)
  PROVE  calls' \in 0 .. MaxCalls /\ pc[c] = "idle"
  BY OfferAssumption DEF BoilInv, BoilTypeOK, Enter

(* Rows that are deleted, or written by UpdateAll, leave a table.            *)
LEMMA WithoutType ==
  ASSUME TableOK, NEW ks, Without(ks) \/ UNCHANGED rows
  PROVE  TableOK'
  BY DEF TableOK, Without

LEMMA DeleteKeysStep ==
  ASSUME BoilInv, NEW c \in Callers, NEW ks, Enter(c), DeleteKeys(ks)
  PROVE  BoilInv'
  <1>1. TableOK
    BY TypeGivesTable DEF BoilInv
  <1>2. TableOK'
    BY <1>1, WithoutType DEF DeleteKeys
  <1> QED
    BY <1>2, EnterCounts, OtherStep DEF DeleteKeys, BoilInv, BoilTypeOK

LEMMA BulkStep ==
  ASSUME BoilInv, NEW c \in Callers, Bulk(c)
  PROVE  BoilInv'
  <1>1. TableOK /\ BoilTypeOK
    BY TypeGivesTable DEF BoilInv
  <1>2. CASE Delete(c)
    BY <1>2, DeleteKeysStep DEF Delete
  <1>3. CASE DeleteSlice(c)
    BY <1>3, DeleteKeysStep DEF DeleteSlice
  <1>4. ASSUME NEW ks \in SUBSET Keys, DeleteQuery(c, ks)
        PROVE  BoilInv'
    <2>1. TableOK'
      BY <1>1, <1>4, WithoutType DEF DeleteQuery
    <2> QED
      BY <1>1, <1>4, <2>1, EnterCounts, OtherStep DEF DeleteQuery, BoilTypeOK
  <1>5. ASSUME NEW ks \in SUBSET Keys, NEW col \in AllColumns \ {Key},
               NEW o \in ObjectsOffered, UpdateAll(c, ks, col, o[col])
        PROVE  BoilInv'
    <2>1. o[col] \in Keys \cup Values \cup {Null}
      BY OfferAssumption DEF Object
    <2>2. ASSUME NEW row \in Object, Complete(row), NEW v \in Keys \cup Values \cup {Null},
                 v # Null \/ col \in WithDefault
          PROVE  LET new == [row EXCEPT ![col] = v]
                 IN  new \in Object /\ new[Key] = row[Key] /\ Complete(new)
      <3> DEFINE new == [row EXCEPT ![col] = v]
      <3>1. /\ row \in [AllColumns -> Keys \cup Values \cup {Null}] /\ row[Key] \in Keys
            /\ Key \in AllColumns /\ col \in AllColumns /\ col # Key
        BY ColumnAssumption DEF Object
      <3>2. /\ new \in [AllColumns -> Keys \cup Values \cup {Null}]
            /\ new[Key] = row[Key] /\ new[col] = v
            /\ \A i \in AllColumns \ {col} : new[i] = row[i]
        BY <3>1
      <3> HIDE DEF new
      <3>3. Complete(new)
        BY <2>2, <3>1, <3>2 DEF Complete, WithoutDefault
      <3>4. new \in Object
        BY <3>1, <3>2 DEF Object
      <3> QED
        BY <3>2, <3>3, <3>4 DEF new
    <2>3. TableOK'
      <3>1. CASE UNCHANGED rows
        BY <1>1, <3>1 DEF TableOK
      <3>2. CASE /\ o[col] # Null \/ col \in WithDefault
                 /\ rows' = [k \in Keys |-> IF k \in ks /\ rows[k] # NoRow
                                  THEN [rows[k] EXCEPT ![col] = o[col]] ELSE rows[k]]
        <4>1. ASSUME NEW k \in Keys
              PROVE  /\ rows'[k] \in Object \cup {NoRow}
                     /\ rows'[k] # NoRow => rows'[k][Key] = k /\ Complete(rows'[k])
          <5>1. CASE k \in ks /\ rows[k] # NoRow
            <6>1. rows[k] \in Object /\ rows[k][Key] = k /\ Complete(rows[k])
              BY <1>1, <5>1 DEF TableOK
            <6>2. rows'[k] = [rows[k] EXCEPT ![col] = o[col]]
              BY <3>2, <5>1
            <6> QED
              BY <2>1, <2>2, <3>2, <6>1, <6>2
          <5>2. CASE ~(k \in ks /\ rows[k] # NoRow)
            <6>1. rows'[k] = rows[k]
              BY <3>2, <5>2
            <6> QED
              BY <1>1, <6>1 DEF TableOK
          <5> QED
            BY <5>1, <5>2
        <4> QED
          BY <3>2, <4>1 DEF TableOK
      <3> QED
        BY <1>5, <3>1, <3>2 DEF UpdateAll
    <2> QED
      BY <1>1, <1>5, <2>3, EnterCounts, OtherStep DEF UpdateAll, BoilTypeOK
  <1> QED
    BY <1>2, <1>3, <1>4, <1>5 DEF Bulk

LEMMA ReadStep ==
  ASSUME BoilInv, NEW c \in Callers, Read(c)
  PROVE  BoilInv'
  <1>1. TableOK /\ BoilTypeOK
    BY TypeGivesTable DEF BoilInv
  <1>2. \A ks : Stored(ks \cap Keys) \subseteq Object
    BY <1>1 DEF TableOK, Stored
  <1>3. ASSUME NEW k \in Keys, NEW cols, One(c, k, cols)
        PROVE  BoilInv'
    <2> DEFINE o == SetRow(Blank, cols \cup {Key}, rows[k])
    <2>1. o \in Object
      BY <1>1, <1>3, ColumnAssumption DEF One, TableOK, SetRow, Blank, Object
    <2>2. obj' = [obj EXCEPT ![c] = o]
      BY <1>3 DEF One
    <2> HIDE DEF o
    <2>3. /\ obj' \in [Callers -> Object \cup {Blank}]
          /\ \A d \in Callers \ {c} : obj'[d] = obj[d]
      BY <1>1, <2>1, <2>2 DEF BoilTypeOK
    <2>4. Enter(c) /\ UNCHANGED <<rows, cache, hooks, pc, frame, slice>>
      BY <1>3 DEF One
    <2>5. TableOK'
      BY <1>1, <2>4 DEF TableOK
    <2>6. slice' \in [Callers -> SUBSET Object]
      BY <1>1, <2>4 DEF BoilTypeOK
    <2>7. calls' \in 0 .. MaxCalls /\ pc[c] = "idle"
      BY <2>4, EnterCounts
    <2> QED
      BY <2>3, <2>4, <2>5, <2>6, <2>7, OtherStep
  <1>4. CASE Reload(c)
    <2>1. obj[c] \in Object /\ rows[obj[c][Key]] \in Object
      BY <1>1, <1>4 DEF Reload, BoilTypeOK, TableOK, Object
    <2>2. obj' \in [Callers -> Object \cup {Blank}]
          /\ \A d \in Callers \ {c} : obj'[d] = obj[d]
      BY <1>1, <1>4, <2>1 DEF Reload, BoilTypeOK
    <2> QED
      BY <1>1, <1>4, <2>2, EnterCounts, OtherStep DEF Reload, BoilTypeOK, TableOK
  <1>5. ASSUME NEW ks \in SUBSET Keys, All(c, ks)
        PROVE  BoilInv'
    <2>1. ks = ks \cap Keys
      OBVIOUS
    <2>2. Stored(ks) \subseteq Object
      BY <1>2, <2>1
    <2> QED
      BY <1>1, <1>5, <2>2, EnterCounts, OtherStep DEF All, BoilTypeOK, TableOK
  <1>6. CASE ReloadAll(c)
    <2>1. SliceKeys(c) = SliceKeys(c) \cap Keys
      BY <1>1 DEF SliceKeys, BoilTypeOK, Object
    <2>2. Stored(SliceKeys(c)) \subseteq Object
      BY <1>2, <2>1
    <2> QED
      BY <1>1, <1>6, <2>2, EnterCounts, OtherStep DEF ReloadAll, BoilTypeOK, TableOK
  <1> QED
    BY <1>3, <1>4, <1>5, <1>6 DEF Read

LEMMA WriteStep ==
  ASSUME BoilInv, NEW c \in Callers, Write(c)
  PROVE  BoilInv'
  <1>1. \A o \in ObjectsOffered \cup ({obj[c]} \ {Blank}) : o \in Object
    BY OfferAssumption DEF BoilInv, BoilTypeOK
  <1> QED
    BY <1>1, BeginStep, ExecuteStep, FinishStep DEF Write

LEMMA HookStep ==
  ASSUME BoilInv, NEW point \in HookPoints, AddDetectionStatusHook(point)
  PROVE  BoilInv'
  <1>1. BoilTypeOK'
    BY OfferAssumption DEF BoilInv, BoilTypeOK, AddDetectionStatusHook
  <1>2. CachesAgree'
    BY DEF BoilInv, CachesAgree, FramesAgree, AddDetectionStatusHook
  <1> QED
    BY <1>1, <1>2 DEF BoilInv

LEMMA BoilInvStep == BoilInv /\ [Next]_vars => BoilInv'
  <1> SUFFICES ASSUME BoilInv, [Next]_vars PROVE BoilInv'
    OBVIOUS
  <1>1. CASE UNCHANGED vars
    BY <1>1 DEF vars, BoilInv, BoilTypeOK, CachesAgree, FramesAgree
  <1>2. CASE Next
    BY <1>2, WriteStep, BulkStep, ReadStep, HookStep DEF Next
  <1> QED
    BY <1>1, <1>2

-----------------------------------------------------------------------------
(* BoilTable is type correct: rows are complete and under their own keys,    *)
(* caches hold statements.                                                   *)
THEOREM BoilTyped == Spec => []BoilTypeOK
  <1>1. BoilInv => BoilTypeOK
    BY DEF BoilInv
  <1> QED
    BY <1>1, InitInv, BoilInvStep, PTL DEF Spec

(* However the goroutines' lookups and stores interleave (the cache is read  *)
(* and written under separate locks, detection_status.go:736, 808), a cached *)
(* statement is the one every call with its key would build.                 *)
THEOREM CachesAlwaysAgree == Spec => []CachesAgree
  <1>1. BoilInv => CachesAgree
    BY DEF BoilInv
  <1> QED
    BY <1>1, InitInv, BoilInvStep, PTL DEF Spec

-----------------------------------------------------------------------------
(* What the statements do.                                                   *)

(* A goroutine leaves its statement behind only by executing it.             *)
LEMMA OnlyExecuteLeaves ==
  ASSUME BoilInv, [Next]_vars, NEW c \in Callers,
         pc[c] = "execute", pc'[c] # "execute"
  PROVE  Execute(c)
  <1>1. pc \in [Callers -> {"idle", "execute", "finish"}]
    BY DEF BoilInv, BoilTypeOK
  <1>2. pc' # pc
    OBVIOUS
  <1>3. PICK d \in Callers : Write(d)
    BY <1>2 DEF Next, vars, Bulk, Delete, DeleteSlice, DeleteKeys, DeleteQuery,
                UpdateAll, Read, One, All, Reload, ReloadAll, AddDetectionStatusHook
  <1>4. ASSUME NEW call \in CallsOffered, NEW o, Begin(d, call, o)
        PROVE  FALSE
    <2>1. CASE RefusedBefore(call)
      BY <1>2, <2>1 DEF RefusedBefore
    <2>2. CASE LookUp(d, call, o)
      BY <1>1, <2>2 DEF LookUp
    <2> QED
      BY <1>4, <2>1, <2>2 DEF Begin
  <1>5. ~Finish(d)
    BY <1>1 DEF Finish
  <1>6. Execute(d)
    BY <1>3, <1>4, <1>5 DEF Write
  <1>7. d = c
    BY <1>1, <1>6 DEF Execute, Executed, NotExecuted
  <1> QED
    BY <1>6, <1>7

(* What a goroutine that succeeds has done.                                  *)
LEMMA SuccessSteps ==
  ASSUME BoilInv, [Next]_vars, NEW c \in Callers, Succeeds(c)
  PROVE  /\ Buildable(frame[c].call)
         /\ Valid(Chosen(c), obj[c])
         /\ rows' = [rows EXCEPT ![obj[c][Key]] = RowAfter(Chosen(c), obj[c])]
         /\ obj'[c] = SetRow(obj[c], Returned(Chosen(c), obj[c]),
                             RowAfter(Chosen(c), obj[c]))
  <1>1. Execute(c)
    BY OnlyExecuteLeaves DEF Succeeds
  <1>2. ~NotExecuted(c)
    BY DEF NotExecuted, Succeeds, BoilInv, BoilTypeOK
  <1>3. Executed(c)
    BY <1>1, <1>2 DEF Execute
  <1>4. Runs(c) <=> Buildable(frame[c].call)
    BY <1>1, ChosenType DEF Execute
  <1> QED
    BY <1>3, <1>4 DEF Executed, Apply, BoilInv, BoilTypeOK


(* An object that a row is made of keeps what the row has of it.             *)
LEMMA SyncedStep ==
  ASSUME BoilInv, [Next]_vars, NEW c \in Callers, Succeeds(c),
         \/ frame[c].call.op = "insert"
         \/ /\ frame[c].call.op = "upsert"
            /\ frame[c].call.updateOnConflict \/ rows[obj[c][Key]] = NoRow
  PROVE  obj'[c] = rows'[obj[c][Key]]
  <1> DEFINE o    == obj[c]
             call == frame[c].call
             nz   == frame[c].nz
             s    == Chosen(c)
             new  == NewRow(s, o)
             row  == RowAfter(s, o)
             ret  == Returned(s, o)
             old  == rows[o[Key]]
  <1>1. /\ Buildable(call) /\ Valid(s, o)
        /\ rows' = [rows EXCEPT ![o[Key]] = row]
        /\ obj'[c] = SetRow(o, ret, row)
    BY SuccessSteps
  <1>2. /\ o \in Object /\ s \in Statement /\ nz \in SUBSET WithDefault
        /\ call \in Call /\ s = Build(call, nz)
    BY ChosenType, OfferType DEF Succeeds
  <1>3. TableOK
    BY TypeGivesTable DEF BoilInv
  <1>4. rows'[o[Key]] = row
    BY <1>1, <1>2, <1>3 DEF TableOK, Object
  <1>5. Key \in AllColumns /\ Key \in WithoutDefault /\ WithDefault \subseteq AllColumns
    BY ColumnAssumption DEF WithoutDefault
  <1>6. SUFFICES ASSUME row \in Object,
                        NEW col \in AllColumns, col \notin ret
                 PROVE  o[col] = row[col]
    <2>1. row \in Object
      <3>1. s.verb # "update"
        <4>1. CASE call.op = "insert"
          BY <1>2, <4>1 DEF Build, InsertStatement
        <4>2. CASE call.op = "upsert"
          BY <1>2, <4>2 DEF Build, UpsertStatement
        <4> QED
          BY <4>1, <4>2
      <3> QED
        BY <1>1, <1>2, <1>3, <3>1, RowAfterType
    <2>2. SetRow(o, ret, row) = row
      <3>1. \A col \in AllColumns : SetRow(o, ret, row)[col] = row[col]
        BY <1>6, <2>1 DEF SetRow
      <3> QED
        BY <2>1, <3>1 DEF SetRow, Object
    <2> QED
      BY <1>1, <1>4, <2>2
  <1>7. CASE call.op = "insert"
    <2>1. s = InsertStatement(call, nz)
      BY <1>2, <1>7 DEF Build
    <2>2. row = new /\ Complete(new) /\ ret = s.ret
      BY <1>1, <2>1 DEF InsertStatement, RowAfter, Valid, Returned
    <2>3. Key \in s.values
      BY <1>5, <2>2 DEF Complete, NewRow
    <2>4. s.ret = WithDefault \ s.values
      <3>1. /\ s.values = InsertColumnSet(call.insert, nz)
            /\ s.ret = IF call.insert.kind = "none" THEN {} ELSE WithDefault \ s.values
        BY <2>1 DEF InsertStatement
      <3>2. call.insert.kind = "none" => InsertColumnSet(call.insert, nz) = {}
        BY DEF InsertColumnSet
      <3> HIDE DEF s, call, nz
      <3> QED
        BY <2>3, <3>1, <3>2
    <2>5. col \in s.values
      BY <1>6, <2>2, <2>4 DEF Complete, NewRow, WithoutDefault
    <2> QED
      BY <2>2, <2>5 DEF NewRow
  <1>8. CASE call.op = "upsert"
    <2>1. s = UpsertStatement(call, nz)
      BY <1>2, <1>8 DEF Build
    <2>2. /\ s.verb = "upsert" /\ s.ret = AllColumns \ (s.values \cap s.set)
          /\ s.nothing = (~call.updateOnConflict \/ s.set = {})
          /\ s.set = UpdateColumnSet(call.update)
      BY <2>1 DEF UpsertStatement
    <2>3. old # NoRow => ~s.nothing
      BY <1>1, <1>8, <2>2 DEF Buildable
    <2>4. ret = s.ret
      BY <2>2, <2>3 DEF Returned
    <2>5. col \in s.values /\ col \in s.set
      BY <1>6, <2>2, <2>4
    <2>6. new[col] = o[col]
      BY <2>5 DEF NewRow
    <2>7. row = IF old = NoRow THEN new ELSE SetRow(old, s.set, new)
      BY <2>2, <2>3 DEF RowAfter
    <2> QED
      BY <2>5, <2>6, <2>7 DEF SetRow
  <1> QED
    BY <1>7, <1>8

(* After an Insert, or an Upsert that may update or finds no row, has        *)
(* succeeded, the goroutine's object is the row the database keeps: no       *)
(* column is left out of RETURNING (detection_status.go:511, psql_upsert.go) *)
THEOREM ObjectsAreSynced == Spec => Synced
  <1>1. BoilInv /\ [Next]_vars =>
          [\A c \in Callers :
             Succeeds(c) /\ \/ frame[c].call.op = "insert"
                            \/ /\ frame[c].call.op = "upsert"
                               /\ frame[c].call.updateOnConflict \/ rows[obj[c][Key]] = NoRow
             => obj'[c] = rows'[obj[c][Key]]]_vars
    BY SyncedStep
  <1> QED
    BY <1>1, InitInv, BoilInvStep, PTL DEF Spec, Synced

LEMMA StorageStep ==
  ASSUME BoilInv, [Next]_vars, NEW c \in Callers, Succeeds(c),
         frame[c].call = StorageCall
  PROVE  rows' = [rows EXCEPT ![obj[c][Key]] = obj[c]]
  <1> DEFINE o   == obj[c]
             nz  == frame[c].nz
             s   == Chosen(c)
             new == NewRow(s, o)
             old == rows[o[Key]]
  <1>1. /\ Buildable(StorageCall) /\ Valid(s, o)
        /\ rows' = [rows EXCEPT ![o[Key]] = RowAfter(s, o)]
    BY SuccessSteps
  <1>2. /\ o \in Object /\ nz = NonZeroDefaultSet(o)
        /\ s = Build(StorageCall, nz)
    BY ChosenType DEF Succeeds
  <1>3. TableOK
    BY TypeGivesTable DEF BoilInv
  <1>4. /\ s.verb = "upsert" /\ s.values = WithoutDefault \cup nz
        /\ s.set = AllColumns \ {Key} /\ ~s.nothing
    <2>1. /\ StorageCall.op = "upsert" /\ StorageCall.updateOnConflict
          /\ StorageCall.update.kind = "infer" /\ StorageCall.insert.kind = "infer"
      BY DEF StorageCall, UpsertCall, Infer
    <2>2. InsertColumnSet(StorageCall.insert, nz) = WithoutDefault \cup nz
      BY <2>1 DEF InsertColumnSet, InferredInsert
    <2>3. UpdateColumnSet(StorageCall.update) = AllColumns \ {Key}
      BY <2>1 DEF UpdateColumnSet
    <2>4. UpdateColumnSet(StorageCall.update) # {}
      BY <1>1, <2>1 DEF Buildable
    <2>5. s = UpsertStatement(StorageCall, nz)
      BY <1>2, <2>1 DEF Build
    <2> HIDE DEF s, nz
    <2> QED
      BY <2>1, <2>2, <2>3, <2>4, <2>5 DEF UpsertStatement
  <1>5. new = o
    <2>1. \A col \in AllColumns : new[col] = o[col]
      BY <1>2, <1>4 DEF NewRow, NonZeroDefaultSet, WithoutDefault
    <2> QED
      BY <1>2, <2>1 DEF NewRow, Object
  <1>6. CASE old = NoRow
    BY <1>1, <1>4, <1>5, <1>6 DEF RowAfter
  <1>7. CASE old # NoRow
    <2>1. RowAfter(s, o) = SetRow(old, AllColumns \ {Key}, o)
      BY <1>4, <1>5, <1>7 DEF RowAfter
    <2>2. old[Key] = o[Key]
      BY <1>2, <1>3, <1>7 DEF TableOK, Object
    <2>3. SetRow(old, AllColumns \ {Key}, o) = o
      <3>1. \A col \in AllColumns : SetRow(old, AllColumns \ {Key}, o)[col] = o[col]
        BY <2>2 DEF SetRow
      <3> QED
        BY <1>2, <3>1 DEF SetRow, Object
    <2> QED
      BY <1>1, <2>1, <2>3
  <1> QED
    BY <1>6, <1>7

(* The upsert of Storage.UpdStatus (storage.go:50), cached or built, makes   *)
(* the row the object, whatever else the table's columns and calls are: this *)
(* is what Storage's Upsert takes for granted.                               *)
THEOREM StorageUpsertWrites == Spec => StorageUpsertIsWhole
  <1>1. BoilInv /\ [Next]_vars =>
          [\A c \in Callers :
             Succeeds(c) /\ frame[c].call = StorageCall =>
               rows' = [rows EXCEPT ![obj[c][Key]] = obj[c]]]_vars
    BY StorageStep
  <1> QED
    BY <1>1, InitInv, BoilInvStep, PTL DEF Spec, StorageUpsertIsWhole

LEMMA OwnRowStep ==
  ASSUME BoilInv, [Next]_vars, NEW c \in Callers,
         pc[c] = "execute", pc'[c] # "execute", rows' # rows
  PROVE  /\ \A k \in Keys \ {obj[c][Key]} : rows'[k] = rows[k]
         /\ rows[obj[c][Key]] # NoRow =>
              \A col \in AllColumns \ UpdateColumnSet(frame[c].call.update) :
                rows'[obj[c][Key]][col] = rows[obj[c][Key]][col]
  <1> DEFINE o    == obj[c]
             call == frame[c].call
             s    == Chosen(c)
             new  == NewRow(s, o)
             row  == RowAfter(s, o)
             old  == rows[o[Key]]
  <1>1. Valid(s, o) /\ rows' = [rows EXCEPT ![o[Key]] = row]
    BY OnlyExecuteLeaves DEF Execute, Executed, NotExecuted, Apply
  <1>2. o \in Object /\ call \in Call /\ s = Build(call, frame[c].nz)
    BY ChosenType, OfferType
  <1>3. /\ \A k \in Keys \ {o[Key]} : rows'[k] = rows[k]
        /\ rows'[o[Key]] = row
    BY <1>1, <1>2, TypeGivesTable DEF BoilInv, TableOK, Object
  <1>4. SUFFICES ASSUME old # NoRow,
                        NEW col \in AllColumns \ UpdateColumnSet(call.update)
                 PROVE  row[col] = old[col]
    BY <1>3
  <1>5. CASE call.op = "insert"
    <2>1. s.verb = "insert"
      BY <1>2, <1>5 DEF Build, InsertStatement
    <2> QED
      BY <1>1, <1>4, <2>1 DEF Valid
  <1>6. CASE call.op = "update"
    <2>1. s.verb = "update" /\ s.set = UpdateColumnSet(call.update)
      BY <1>2, <1>6 DEF Build, UpdateStatement
    <2>2. row = SetRow(old, s.set, o)
      BY <1>4, <2>1 DEF RowAfter
    <2> QED
      BY <2>1, <2>2 DEF SetRow
  <1>7. CASE call.op = "upsert"
    <2>1. s.verb = "upsert" /\ s.set = UpdateColumnSet(call.update)
      BY <1>2, <1>7 DEF Build, UpsertStatement
    <2>2. row = old \/ row = SetRow(old, s.set, new)
      BY <1>4, <2>1 DEF RowAfter
    <2> QED
      BY <2>1, <2>2 DEF SetRow
  <1> QED
    BY <1>2, <1>5, <1>6, <1>7 DEF Call

(* A statement run for an object, cached or built, writes no other row, and  *)
(* in a row that was there no column its call does not mean to update.       *)
THEOREM StatementsKeepToTheirRow == Spec => OwnRowOnly
  <1>1. BoilInv /\ [Next]_vars =>
          [\A c \in Callers :
             pc[c] = "execute" /\ pc'[c] # "execute" /\ rows' # rows =>
               /\ \A k \in Keys \ {obj[c][Key]} : rows'[k] = rows[k]
               /\ rows[obj[c][Key]] # NoRow =>
                    \A col \in AllColumns \ UpdateColumnSet(frame[c].call.update) :
                      rows'[obj[c][Key]][col] = rows[obj[c][Key]][col]]_vars
    BY OwnRowStep
  <1> QED
    BY <1>1, InitInv, BoilInvStep, PTL DEF Spec, OwnRowOnly
=============================================================================
