---------------------------- MODULE FrontendProofs ----------------------------
(***************************************************************************)
(* Theorems about the page for every value of its constants: PageInv is    *)
(* inductive, and what the page shows follows from it.                     *)
(***************************************************************************)
EXTENDS FrontendInv, SequenceTheorems, FiniteSetTheorems, TLAPS

-----------------------------------------------------------------------------
(* Queues of updates.                                                        *)

(* A queue without its first.                                                *)
LEMMA Front ==
  ASSUME NEW S, NEW q \in Seq(S), q # << >>
  PROVE  /\ Len(q) \in Nat \ {0} /\ DOMAIN q = 1 .. Len(q)
         /\ Head(q) = q[1] /\ Head(q) \in S
         /\ Tail(q) \in Seq(S) /\ Len(Tail(q)) = Len(q) - 1
         /\ DOMAIN Tail(q) = 1 .. Len(q) - 1
         /\ \A i \in 1 .. Len(q) - 1 : Tail(q)[i] = q[i + 1]
  <1>1. Len(q) \in Nat \ {0} /\ DOMAIN q = 1 .. Len(q)
    BY EmptySeq, LenProperties
  <1>2. /\ Head(q) \in S /\ Tail(q) \in Seq(S) /\ Len(Tail(q)) = Len(q) - 1
        /\ \A i \in 1 .. Len(q) - 1 : Tail(q)[i] = q[i + 1]
    BY <1>1, HeadTailProperties
  <1>3. DOMAIN Tail(q) = 1 .. Len(q) - 1
    BY <1>2, LenProperties
  <1> QED
    BY <1>1, <1>2, <1>3

(* A queue with one more.                                                    *)
LEMMA Back ==
  ASSUME NEW S, NEW q \in Seq(S), NEW x \in S
  PROVE  /\ Len(q) \in Nat /\ DOMAIN q = 1 .. Len(q)
         /\ Append(q, x) \in Seq(S) /\ Len(Append(q, x)) = Len(q) + 1
         /\ DOMAIN Append(q, x) = 1 .. Len(q) + 1
         /\ \A i \in 1 .. Len(q) : Append(q, x)[i] = q[i]
         /\ Append(q, x)[Len(q) + 1] = x
  BY AppendProperties, LenProperties

(* What is in a longer queue was in the shorter one or is new.               *)
LEMMA AllOfBack ==
  ASSUME NEW S, NEW q \in Seq(S), NEW x \in S, NEW i \in DOMAIN Append(q, x)
  PROVE  \/ i \in DOMAIN q /\ Append(q, x)[i] = q[i]
         \/ i = Len(q) + 1 /\ i \notin DOMAIN q /\ Append(q, x)[i] = x
  BY Back

(* What is in the rest of a queue was in it, one place on.                   *)
LEMMA AllOfFront ==
  ASSUME NEW S, NEW q \in Seq(S), q # << >>, NEW i \in DOMAIN Tail(q)
  PROVE  i + 1 \in DOMAIN q /\ i + 1 # 1 /\ i \in Nat /\ Tail(q)[i] = q[i + 1]
  BY Front

(* What the dropdown lists after n updates is not changed by one more.       *)
LEMMA AppliedBack ==
  ASSUME NEW S, NEW q \in Seq(S), NEW x \in S, NEW now, NEW rows,
         NEW n \in 0 .. Len(q), Applied(q, now, n, rows)
  PROVE  Applied(Append(q, x), now, n, rows)
  <1>1. /\ Len(q) \in Nat
        /\ \A i \in 1 .. Len(q) : Append(q, x)[i] = q[i]
    BY Back
  <1>2. n \in Nat /\ \A i \in 1 .. n : i \in 1 .. Len(q)
    BY <1>1
  <1>3. \A i \in 1 .. n : Append(q, x)[i] = q[i]
    BY <1>1, <1>2
  <1>4. \A i \in 1 .. n : \A j \in (i + 1) .. n : j \in 1 .. n
    BY <1>2
  <1> QED
    BY <1>3, <1>4 DEF Applied

(* Applying the first update leaves the others to be applied.                *)
LEMMA AppliedFront ==
  ASSUME NEW S, NEW q \in Seq(S), q # << >>, NEW now, NEW rows,
         NEW n \in 1 .. Len(q), Applied(q, now, n, rows), NEW next,
         next = IF Head(q).from \in Buttons THEN Head(q).items ELSE now
  PROVE  Applied(Tail(q), next, n - 1, rows)
  <1>1. /\ Len(q) \in Nat /\ n \in Nat /\ n >= 1 /\ Head(q) = q[1]
        /\ \A i \in 1 .. n - 1 : Tail(q)[i] = q[i + 1]
    BY Front
  <1>2. CASE now = rows /\ \A i \in 1 .. n : q[i].from \notin Buttons
    <2>1. next = rows
      BY <1>1, <1>2
    <2>2. \A i \in 1 .. n - 1 : Tail(q)[i].from \notin Buttons
      BY <1>1, <1>2
    <2> QED
      BY <2>1, <2>2 DEF Applied
  <1>3. CASE \E i \in 1 .. n : /\ q[i].from \in Buttons /\ q[i].items = rows
                               /\ \A j \in (i + 1) .. n : q[j].from \notin Buttons
    <2>1. PICK i \in 1 .. n : /\ q[i].from \in Buttons /\ q[i].items = rows
                              /\ \A j \in (i + 1) .. n : q[j].from \notin Buttons
      BY <1>3
    <2>2. CASE i = 1
      <3>1. next = rows
        BY <1>1, <2>1, <2>2
      <3>2. \A j \in 1 .. n - 1 : Tail(q)[j].from \notin Buttons
        BY <1>1, <2>1, <2>2
      <3> QED
        BY <3>1, <3>2 DEF Applied
    <2>3. CASE i # 1
      <3>1. PICK k \in 1 .. n - 1 : i = k + 1
        BY <1>1, <2>3
      <3>2. Tail(q)[k].from \in Buttons /\ Tail(q)[k].items = rows
        BY <1>1, <2>1, <3>1
      <3>3. \A j \in (k + 1) .. n - 1 : Tail(q)[j].from \notin Buttons
        BY <1>1, <2>1, <3>1
      <3> QED
        BY <3>2, <3>3 DEF Applied
    <2> QED
      BY <2>2, <2>3
  <1> QED
    BY <1>2, <1>3 DEF Applied

-----------------------------------------------------------------------------
(* Types.                                                                    *)

(* The updates the server's functions send are updates.                      *)
LEMMA UpdateType ==
  /\ \A b \in Buttons, items \in SUBSET Item, first \in Item \cup {None},
        r \in Requests \cup {None, "error"} :
       [from |-> b, items |-> items, first |-> first, message |-> r] \in Update
  /\ \A shows \in Item \cup Notes : [from |-> "change", shows |-> shows] \in Update
  /\ \A u \in Update :
       \/ /\ u.from \in Buttons /\ u.items \in SUBSET Item
          /\ u.first \in Item \cup {None} /\ u.message \in Requests \cup {None, "error"}
       \/ u.from = "change" /\ u.shows \in Item \cup Notes
  /\ "change" \notin Buttons
  BY DEF Update, Buttons

(* A page has rows, and one for each request in it.                          *)
LEMMA PageType ==
  ASSUME FrontendTypeOK, NEW rows \in Pages
  PROVE  /\ rows \in SUBSET Item /\ Single(rows)
         /\ \A item \in rows : item.status = status[item.id]
         /\ \A first \in IF rows = {} THEN {None} ELSE rows :
              [items |-> rows, first |-> first] \in Lists
  <1>1. \A row \in Rows : row \in Item /\ row.status = status[row.id]
                                       /\ row = [id |-> row.id, status |-> status[row.id]]
    BY DEF Rows, Item, FrontendTypeOK
  <1>2. rows \subseteq Rows
    BY DEF Pages
  <1> QED
    BY <1>1, <1>2 DEF Single, Lists

(* Lists of no rows.                                                         *)
LEMMA EmptyType == Empty \in Lists /\ Empty.items = {} /\ Single(Empty.items)
  BY DEF Empty, Lists, Single

(* The function of the change event shows a row or a note.                   *)
LEMMA LookupType ==
  ASSUME FrontendTypeOK
  PROVE  /\ Found(asked, state) \in Item \cup Notes
         /\ (IF asked = None THEN Note("select one") ELSE process_fetch_response(asked))
              = Found(asked, state)
  BY DEF FrontendTypeOK, Found, process_fetch_response, Notes

(* What an update from a button carries is a list.                           *)
LEMMA HeadIsList ==
  ASSUME FrontendTypeOK, ListsAreLists, updates # << >>, Head(updates).from \in Buttons
  PROVE  /\ [items |-> Head(updates).items, first |-> Head(updates).first] \in Lists
         /\ Single(Head(updates).items)
         /\ Head(updates).items \in SUBSET Item
         /\ Head(updates).first \in Head(updates).items \cup {None}
         /\ Head(updates).items # {} => Head(updates).first # None
  <1> DEFINE u == Head(updates)
             l == [items |-> u.items, first |-> u.first]
  <1>1. 1 \in DOMAIN updates /\ u = updates[1]
    BY Front DEF FrontendTypeOK
  <1>2. l \in Lists /\ Single(u.items)
    BY <1>1 DEF ListsAreLists, IsList
  <1>3. /\ l.items = u.items /\ l.first = u.first /\ l.items \in SUBSET Item
        /\ IF l.items = {} THEN l.first = None ELSE l.first \in l.items
    BY <1>2 DEF Lists
  <1>4. None \notin u.items
    BY <1>3, NoneAssumption
  <1> HIDE DEF u, l
  <1>5. u.items \in SUBSET Item /\ u.first \in u.items \cup {None}
        /\ (u.items # {} => u.first # None)
    BY <1>3, <1>4
  <1> QED
    BY <1>2, <1>5 DEF u, l

(* Every step keeps the types.                                               *)
LEMMA FrontendTypeStep ==
  ASSUME FrontendTypeOK, ListsAreLists, SubmitFindsItsRow, [Next]_vars
  PROVE  FrontendTypeOK'
  <1>0. updates \in Seq(Update) /\ clicks \in Nat /\ MaxClicks \in Nat
    BY FrontendAssumption DEF FrontendTypeOK
  <1>1. CASE Core
    <2>1. UNCHANGED pageVars
      BY <1>1 DEF Core
    <2>2. PICK r \in Requests : /\ Record(r) \/ Finish(r)
                                /\ accepted' = accepted \cup {r} /\ unstored' = unstored
      BY <1>1 DEF Core
    <2> QED
      BY <2>1, <2>2 DEF FrontendTypeOK, pageVars, handlerVars, changeVars, screenVars,
                        Record, Finish
  <1>2. ASSUME NEW b \in Buttons, Click(b)
        PROVE  FrontendTypeOK'
    <2>1. clicks' \in 0 .. MaxClicks
      BY <1>0, <1>2 DEF Click, Acts
    <2> QED
      BY <1>2, <2>1 DEF FrontendTypeOK, Click, coreVars, lifecycleVars, changeVars,
                        screenVars
  <1>3. ASSUME NEW b \in Buttons, get_detection_requests(b)
        PROVE  FrontendTypeOK'
    <2>1. CASE \E rows \in Pages : \E first \in IF rows = {} THEN {None} ELSE rows :
                 /\ list' = [list EXCEPT ![b] = [items |-> rows, first |-> first]]
                 /\ Tell({row.id : row \in rows})
      <3>1. list' \in [Buttons -> Lists]
        BY <2>1, PageType DEF FrontendTypeOK
      <3>2. /\ told' \in [Requests -> {"UNKNOWN", "PENDING", "SUCCESS"}]
            /\ status' = status /\ unstored' = unstored
        <4>1. PICK rows \in Pages : Tell({row.id : row \in rows})
          BY <2>1
        <4>2. status' = status /\ told' = [r \in Requests |->
                                             IF r \in {row.id : row \in rows} THEN status[r]
                                                                            ELSE told[r]]
          BY <4>1 DEF Tell
        <4>3. unstored' = unstored
          BY <1>3 DEF get_detection_requests, coreVars
        <4> QED
          BY <4>2, <4>3 DEF FrontendTypeOK
      <3>3. /\ pc' \in [Buttons -> {"idle", "put", "sent", "fetch", "return", "returned"}]
            /\ UNCHANGED <<accepted, answer, state, updates, changeVars, screenVars,
                           overlapped, clicks>>
        BY <1>3 DEF FrontendTypeOK, get_detection_requests
      <3> QED
        BY <3>1, <3>2, <3>3 DEF FrontendTypeOK, changeVars, screenVars
    <2>2. CASE list' = [list EXCEPT ![b] = Empty] /\ UNCHANGED coreVars
      BY <1>3, <2>2, EmptyType DEF FrontendTypeOK, get_detection_requests, changeVars,
                                   screenVars, coreVars, lifecycleVars
    <2> QED
      BY <1>3, <2>1, <2>2 DEF get_detection_requests
  <1>4. ASSUME NEW b \in Buttons, Return(b)
        PROVE  FrontendTypeOK'
    <2>1. /\ list[b].items \in SUBSET Item /\ list[b].first \in Item \cup {None}
          /\ answer \in Requests \cup {None, "error"}
      BY DEF FrontendTypeOK, Lists
    <2>2. updates' \in Seq(Update)
      <3> DEFINE u == [from |-> b, items |-> list[b].items, first |-> list[b].first,
                       message |-> IF b = "submit" THEN answer ELSE None]
      <3>1. u \in Update
        BY <2>1, UpdateType
      <3>2. updates' = Append(updates, u)
        BY <1>4 DEF Return
      <3> HIDE DEF u
      <3> QED
        BY <1>0, <3>1, <3>2, Back
    <2> QED
      BY <1>4, <2>1, <2>2 DEF FrontendTypeOK, Return, coreVars, lifecycleVars, changeVars,
                              screenVars
  <1>5. ASSUME NEW item \in choices, Select(item)
        PROVE  FrontendTypeOK'
    <2>1. clicks' \in 0 .. MaxClicks
      BY <1>0, <1>5 DEF Select, Acts
    <2>2. item \in Item /\ item # None
      BY NoneAssumption DEF FrontendTypeOK
    <2>3. change' \in {"none", "sent", "done"} /\ asked' \in Item \cup {None}
          /\ again' \in BOOLEAN /\ selected' = item
      BY <1>5, <2>2 DEF Select, Changed, changeVars, FrontendTypeOK
    <2>4. /\ item \in choices' /\ choices' \in SUBSET Item
          /\ UNCHANGED <<coreVars, accepted, handlerVars, state, updates, shown, message,
                         detector, overlapped>>
      BY <1>5 DEF Select, FrontendTypeOK
    <2> QED
      BY <2>1, <2>2, <2>3, <2>4 DEF FrontendTypeOK, coreVars, lifecycleVars, handlerVars
  <1>6. CASE FetchDetectors
    BY <1>6 DEF FrontendTypeOK, FetchDetectors, coreVars, lifecycleVars, handlerVars,
                changeVars
  <1>7. CASE \E r \in Requests : SendPut(r)
    BY <1>7 DEF FrontendTypeOK, SendPut, coreVars, lifecycleVars, changeVars, screenVars
  <1>8. CASE PutAnswered
    <2>1. /\ pc' \in [Buttons -> {"idle", "put", "sent", "fetch", "return", "returned"}]
          /\ UNCHANGED <<lifecycleVars, accepted, answer, list, state, updates, changeVars,
                         screenVars, overlapped, clicks>>
      BY <1>8 DEF FrontendTypeOK, PutAnswered
    <2>2. unstored' \subseteq Requests
      BY <1>8 DEF FrontendTypeOK, PutAnswered, SubmitFindsItsRow
    <2> QED
      BY <2>1, <2>2 DEF FrontendTypeOK, coreVars, lifecycleVars, changeVars, screenVars
  <1>9. CASE PutFails
    <2>1. /\ pc' \in [Buttons -> {"idle", "put", "sent", "fetch", "return", "returned"}]
          /\ list' \in [Buttons -> Lists] /\ answer' = "error"
          /\ UNCHANGED <<coreVars, accepted, state, updates, changeVars, screenVars,
                         overlapped, clicks>>
      BY <1>9, EmptyType DEF FrontendTypeOK, PutFails
    <2> QED
      BY <2>1 DEF FrontendTypeOK, coreVars, lifecycleVars, changeVars, screenVars
  <1>10. CASE on_detection_request_selected
    <2>1. updates' \in Seq(Update)
      <3> DEFINE u == [from |-> "change", shows |-> Found(asked, state)]
      <3>1. u \in Update
        BY LookupType, UpdateType
      <3>2. updates' = Append(updates, u)
        BY <1>10, LookupType DEF on_detection_request_selected
      <3> HIDE DEF u
      <3> QED
        BY <1>0, <3>1, <3>2, Back
    <2>2. /\ UNCHANGED <<status, told, unstored, accepted, pc, answer, list, state, choices,
                         selected, shown, message, detector, asked, again, overlapped, clicks>>
          /\ change' = "done"
      BY <1>10 DEF on_detection_request_selected, coreVars, lifecycleVars, handlerVars,
                   screenVars
    <2> QED
      BY <2>1, <2>2 DEF FrontendTypeOK
  <1>11. CASE Apply
    <2> DEFINE u == Head(updates)
    <2>1. updates # << >> /\ updates' = Tail(updates) /\ updates' \in Seq(Update)
          /\ u \in Update
      BY <1>0, <1>11, Front DEF Apply
    <2>2. /\ UNCHANGED <<coreVars, accepted, state, detector, overlapped, clicks>>
          /\ ApplyList(u) \/ ApplyShown(u)
      BY <1>11 DEF Apply
    <2>3. CASE ApplyList(u)
      <3>1. u.from \in Buttons
        BY <2>3 DEF ApplyList
      <3>2. /\ u.items \in SUBSET Item /\ u.first \in u.items \cup {None}
            /\ u.items # {} => u.first # None
        BY <2>1, <3>1, HeadIsList
      <3>3. u.message \in Requests \cup {None, "error"}
        BY <2>1, <3>1, UpdateType
      <3> HIDE DEF u
      <3>4. /\ choices' = u.items /\ selected' = u.first
            /\ change' \in {"none", "sent", "done"} /\ asked' \in Item \cup {None}
            /\ again' \in BOOLEAN
        BY <2>3, <3>2 DEF ApplyList, SetDropdown, Changed, changeVars, FrontendTypeOK
      <3>5. /\ pc' \in [Buttons -> {"idle", "put", "sent", "fetch", "return", "returned"}]
            /\ list' \in [Buttons -> Lists] /\ shown' = shown
            /\ message' \in Requests \cup {None, "error"}
            /\ answer' \in Requests \cup {None, "error"}
        BY <2>3, <3>1, <3>3, EmptyType DEF ApplyList, FrontendTypeOK
      <3> QED
        BY <2>1, <2>2, <3>2, <3>4, <3>5 DEF FrontendTypeOK, coreVars, lifecycleVars
    <2>4. CASE ApplyShown(u)
      <3>1. u.shows \in Item \cup Notes
        BY <2>1, <2>4, UpdateType DEF ApplyShown
      <3> HIDE DEF u
      <3>2. /\ shown' \in Item \cup Notes /\ again' \in BOOLEAN
            /\ change' \in {"none", "sent", "done"} /\ asked' \in Item \cup {None}
            /\ UNCHANGED <<choices, selected, message, handlerVars>>
        BY <2>4, <3>1 DEF ApplyShown, FrontendTypeOK
      <3> QED
        BY <2>1, <2>2, <3>2 DEF FrontendTypeOK, coreVars, lifecycleVars, handlerVars
    <2> QED
      BY <2>2, <2>3, <2>4
  <1>12. CASE UNCHANGED vars
    BY <1>12 DEF FrontendTypeOK, vars, coreVars, lifecycleVars, pageVars, handlerVars,
                 changeVars, screenVars
  <1> QED
    BY <1>1, <1>2, <1>3, <1>4, <1>5, <1>6, <1>7, <1>8, <1>9, <1>10, <1>11, <1>12 DEF Next

-----------------------------------------------------------------------------
(* Updates in their order.                                                   *)

(* What no function that returns and no update that is applied changes.      *)
Quiet == /\ UNCHANGED <<updates, state, choices>>
         /\ \A b \in Buttons : pc[b] = "returned" => pc'[b] = "returned"
         /\ change = "done" => change' = "done" /\ asked' = asked

(* A step sends an update, applies one, or leaves them and what they wait    *)
(* for alone.                                                                *)
LEMMA UpdatesMove ==
  ASSUME FrontendTypeOK, [Next]_vars
  PROVE  \/ \E b \in Buttons : Return(b)
         \/ on_detection_request_selected
         \/ Apply
         \/ Quiet
  <1>0. pc \in [Buttons -> {"idle", "put", "sent", "fetch", "return", "returned"}]
        /\ "submit" \in Buttons
    BY DEF FrontendTypeOK, Buttons
  <1>1. CASE Core \/ FetchDetectors \/ UNCHANGED vars
    BY <1>1 DEF Core, FetchDetectors, vars, pageVars, handlerVars, changeVars, screenVars,
                Quiet
  <1>2. CASE \E b \in Buttons : Click(b) \/ get_detection_requests(b)
    BY <1>0, <1>2 DEF Click, get_detection_requests, changeVars, screenVars, Quiet
  <1>3. CASE \E item \in choices : Select(item)
    BY <1>3 DEF Select, Changed, changeVars, handlerVars, Quiet
  <1>4. CASE (\E r \in Requests : SendPut(r)) \/ PutAnswered \/ PutFails
    BY <1>0, <1>4 DEF SendPut, PutAnswered, PutFails, changeVars, screenVars, Quiet
  <1> QED
    BY <1>1, <1>2, <1>3, <1>4 DEF Next

(* The updates after a function returned.                                    *)
LEMMA ReturnSends ==
  ASSUME FrontendTypeOK, NEW b \in Buttons, Return(b)
  PROVE  \E u \in Update :
           /\ u.from = b /\ u.items = list[b].items /\ u.first = list[b].first
           /\ u.message = IF b = "submit" THEN answer ELSE None
           /\ updates' = Append(updates, u) /\ Len(updates) \in Nat
           /\ Len(updates') = Len(updates) + 1 /\ updates'[Len(updates) + 1] = u
           /\ \A i \in DOMAIN updates' :
                \/ i \in DOMAIN updates /\ updates'[i] = updates[i]
                \/ i = Len(updates) + 1 /\ i \notin DOMAIN updates /\ updates'[i] = u
  <1> DEFINE u == [from |-> b, items |-> list[b].items, first |-> list[b].first,
                   message |-> IF b = "submit" THEN answer ELSE None]
  <1>1. u \in Update /\ updates \in Seq(Update)
    BY UpdateType DEF FrontendTypeOK, Lists
  <1>2. /\ u.from = b /\ u.items = list[b].items /\ u.first = list[b].first
        /\ u.message = IF b = "submit" THEN answer ELSE None
    OBVIOUS
  <1>3. updates' = Append(updates, u)
    BY DEF Return
  <1> HIDE DEF u
  <1> QED
    BY <1>1, <1>2, <1>3, Back, AllOfBack

(* And after a lookup.                                                       *)
LEMMA LookupSends ==
  ASSUME FrontendTypeOK, on_detection_request_selected
  PROVE  \E u \in Update :
           /\ u.from = "change" /\ u.shows = Found(asked, state)
           /\ updates' = Append(updates, u) /\ Len(updates) \in Nat
           /\ Len(updates') = Len(updates) + 1
           /\ \A i \in DOMAIN updates' :
                \/ i \in DOMAIN updates /\ updates'[i] = updates[i]
                \/ i = Len(updates) + 1 /\ i \notin DOMAIN updates /\ updates'[i] = u
  <1> DEFINE u == [from |-> "change", shows |-> Found(asked, state)]
  <1>1. u \in Update /\ updates \in Seq(Update)
    BY LookupType, UpdateType DEF FrontendTypeOK
  <1>2. u.from = "change" /\ u.shows = Found(asked, state)
    OBVIOUS
  <1>3. updates' = Append(updates, u)
    BY LookupType DEF on_detection_request_selected
  <1> HIDE DEF u
  <1> QED
    BY <1>1, <1>2, <1>3, Back, AllOfBack

(* And after one is applied.                                                 *)
LEMMA ApplyTakes ==
  ASSUME FrontendTypeOK, Apply
  PROVE  /\ updates # << >> /\ updates' = Tail(updates) /\ updates \in Seq(Update)
         /\ Head(updates) = updates[1] /\ 1 \in DOMAIN updates
         /\ Len(updates) \in Nat /\ Len(updates') = Len(updates) - 1
         /\ DOMAIN updates = 1 .. Len(updates)
         /\ \A i \in DOMAIN updates' : /\ i + 1 \in DOMAIN updates /\ i + 1 # 1 /\ i \in Nat
                                       /\ updates'[i] = updates[i + 1]
         /\ ApplyList(Head(updates)) \/ ApplyShown(Head(updates))
         /\ UNCHANGED <<coreVars, accepted, state, detector, overlapped, clicks>>
  <1>1. /\ updates # << >> /\ updates' = Tail(updates) /\ updates \in Seq(Update)
        /\ ApplyList(Head(updates)) \/ ApplyShown(Head(updates))
        /\ UNCHANGED <<coreVars, accepted, state, detector, overlapped, clicks>>
    BY DEF Apply, FrontendTypeOK
  <1> QED
    BY <1>1, Front, AllOfFront

(* A function that has returned waits for its one update.                    *)
LEMMA InTurnStep ==
  ASSUME FrontendTypeOK, InTurn, [Next]_vars
  PROVE  InTurn'
  <1>0. /\ updates \in Seq(Update) /\ "change" \notin Buttons
        /\ pc \in [Buttons -> {"idle", "put", "sent", "fetch", "return", "returned"}]
    BY UpdateType DEF FrontendTypeOK
  <1> USE DEF InTurn, IsList
  <1>1. CASE Quiet
    BY <1>1 DEF Quiet
  <1>2. ASSUME NEW b \in Buttons, Return(b)
        PROVE  InTurn'
    <2>1. pc[b] = "return" /\ pc' = [pc EXCEPT ![b] = "returned"] /\ change' = change
      BY <1>2 DEF Return, changeVars
    <2>2. PICK u \in Update :
            /\ u.from = b
            /\ \A i \in DOMAIN updates' :
                 \/ i \in DOMAIN updates /\ updates'[i] = updates[i]
                 \/ i = Len(updates) + 1 /\ i \notin DOMAIN updates /\ updates'[i] = u
      BY <1>2, ReturnSends
    <2>3. \A i \in DOMAIN updates : updates[i].from # b
      BY <2>1
    <2> QED
      BY <1>0, <2>1, <2>2, <2>3
  <1>3. CASE on_detection_request_selected
    <2>1. change = "sent" /\ change' = "done" /\ pc' = pc
      BY <1>3 DEF on_detection_request_selected, handlerVars
    <2>2. PICK u \in Update :
            /\ u.from = "change"
            /\ \A i \in DOMAIN updates' :
                 \/ i \in DOMAIN updates /\ updates'[i] = updates[i]
                 \/ i = Len(updates) + 1 /\ i \notin DOMAIN updates /\ updates'[i] = u
      BY <1>3, LookupSends
    <2>3. \A i \in DOMAIN updates : updates[i].from # "change"
      BY <1>0, <2>1
    <2> QED
      BY <1>0, <2>1, <2>2, <2>3
  <1>4. CASE Apply
    <2>1. \A i \in DOMAIN updates' : /\ i + 1 \in DOMAIN updates /\ i + 1 # 1 /\ i \in Nat
                                     /\ updates'[i] = updates[i + 1]
      BY <1>4, ApplyTakes
    <2>2. \A i \in DOMAIN updates' : updates'[i].from # Head(updates).from
      BY <1>4, <2>1, ApplyTakes
    <2>3. \A i, j \in DOMAIN updates' : updates'[i].from = updates'[j].from => i = j
      <3> SUFFICES ASSUME NEW i \in DOMAIN updates', NEW j \in DOMAIN updates',
                          updates'[i].from = updates'[j].from
                   PROVE  i = j
        OBVIOUS
      <3>1. i + 1 = j + 1 /\ i \in Nat /\ j \in Nat
        BY <2>1
      <3> QED
        BY <3>1
    <2>4. CASE ApplyList(Head(updates))
      <3>1. /\ Head(updates).from \in Buttons
            /\ (change = "done" => change' = "done")
            /\ pc' = [pc EXCEPT ![Head(updates).from] = "idle"]
        BY <2>4 DEF ApplyList, SetDropdown, Changed, changeVars
      <3> QED
        BY <1>0, <2>1, <2>2, <2>3, <3>1
    <2>5. CASE ApplyShown(Head(updates))
      <3>1. Head(updates).from = "change" /\ pc' = pc
        BY <2>5 DEF ApplyShown, handlerVars
      <3>2. \A i \in DOMAIN updates : updates[i] \in Update
        BY <1>4, ApplyTakes, ElementOfSeq
      <3>3. \A i \in DOMAIN updates' : updates'[i].from \in Buttons
        BY <2>1, <2>2, <3>1, <3>2, UpdateType
      <3> QED
        BY <2>1, <2>3, <3>1, <3>3
    <2> QED
      BY <1>4, <2>4, <2>5, ApplyTakes
  <1> QED
    BY <1>1, <1>2, <1>3, <1>4, UpdatesMove

(* Lists stay lists on their way from the core to the screen.                *)
LEMMA ListsStep ==
  ASSUME FrontendTypeOK, ListsAreLists, [Next]_vars
  PROVE  ListsAreLists'
  <1>0. /\ updates \in Seq(Update) /\ "change" \notin Buttons
        /\ list \in [Buttons -> Lists] /\ "submit" \in Buttons
    BY UpdateType DEF FrontendTypeOK, Buttons
  <1> USE DEF ListsAreLists, IsList
  <1>1. ASSUME UNCHANGED <<state, choices, updates>>, \A b \in Buttons : Single(list'[b].items)
        PROVE  ListsAreLists'
    BY <1>1 DEF Single
  <1>2. CASE Core \/ FetchDetectors \/ UNCHANGED vars
    BY <1>2, <1>1 DEF Core, FetchDetectors, vars, pageVars, handlerVars, screenVars
  <1>3. CASE (\E b \in Buttons : Click(b)) \/ (\E item \in choices : Select(item))
    BY <1>3, <1>1 DEF Click, Select, handlerVars, screenVars
  <1>4. CASE (\E r \in Requests : SendPut(r)) \/ PutAnswered
    BY <1>4, <1>1 DEF SendPut, PutAnswered, screenVars
  <1>5. CASE PutFails
    <2>1. /\ list' = [list EXCEPT !["submit"] = Empty]
          /\ UNCHANGED <<state, choices, updates>>
      BY <1>5 DEF PutFails, screenVars
    <2> QED
      BY <1>0, <1>1, <2>1, EmptyType
  <1>6. ASSUME NEW b \in Buttons, get_detection_requests(b)
        PROVE  ListsAreLists'
    <2>1. UNCHANGED <<state, choices, updates>>
      BY <1>6 DEF get_detection_requests, screenVars
    <2>2. \E l : list' = [list EXCEPT ![b] = l] /\ Single(l.items)
      <3>1. CASE list' = [list EXCEPT ![b] = Empty]
        BY <3>1, EmptyType
      <3>2. CASE \E rows \in Pages : \E first \in IF rows = {} THEN {None} ELSE rows :
                   list' = [list EXCEPT ![b] = [items |-> rows, first |-> first]]
        <4>1. PICK rows \in Pages :
                \E first : list' = [list EXCEPT ![b] = [items |-> rows, first |-> first]]
          BY <3>2
        <4>2. PICK first : list' = [list EXCEPT ![b] = [items |-> rows, first |-> first]]
          BY <4>1
        <4>3. [items |-> rows, first |-> first].items = rows /\ Single(rows)
          BY PageType
        <4> QED
          BY <4>2, <4>3
      <3> QED
        BY <1>6, <3>1, <3>2 DEF get_detection_requests
    <2> QED
      BY <1>0, <1>1, <2>1, <2>2
  <1>7. ASSUME NEW b \in Buttons, Return(b)
        PROVE  ListsAreLists'
    <2>1. PICK u \in Update :
            /\ u.from = b /\ u.items = list[b].items /\ u.first = list[b].first
            /\ \A i \in DOMAIN updates' :
                 \/ i \in DOMAIN updates /\ updates'[i] = updates[i]
                 \/ i = Len(updates) + 1 /\ i \notin DOMAIN updates /\ updates'[i] = u
      BY <1>7, ReturnSends
    <2>2. [items |-> u.items, first |-> u.first] \in Lists
      <3>1. list[b] \in Lists
        BY <1>0
      <3>2. list[b] = [items |-> list[b].items, first |-> list[b].first]
        BY <3>1 DEF Lists
      <3> QED
        BY <2>1, <3>1, <3>2
    <2>3. state' = list[b].items /\ UNCHANGED <<choices, list>>
      BY <1>7 DEF Return, screenVars
    <2>4. /\ Single(state') /\ Single(choices')
          /\ \A c \in Buttons : Single(list'[c].items)
      BY <2>3
    <2>5. \A i \in DOMAIN updates' : updates'[i].from \in Buttons =>
            /\ Single(updates'[i].items)
            /\ [items |-> updates'[i].items, first |-> updates'[i].first] \in Lists
      BY <2>1, <2>2
    <2> QED
      BY <2>4, <2>5 DEF Single
  <1>8. CASE on_detection_request_selected
    <2>1. PICK u \in Update :
            /\ u.from = "change"
            /\ \A i \in DOMAIN updates' :
                 \/ i \in DOMAIN updates /\ updates'[i] = updates[i]
                 \/ i = Len(updates) + 1 /\ i \notin DOMAIN updates /\ updates'[i] = u
      BY <1>8, LookupSends
    <2>2. UNCHANGED <<state, choices, list>>
      BY <1>8 DEF on_detection_request_selected, handlerVars, screenVars
    <2>3. \A i \in DOMAIN updates' : updates'[i].from \in Buttons =>
            /\ Single(updates'[i].items)
            /\ [items |-> updates'[i].items, first |-> updates'[i].first] \in Lists
      BY <1>0, <2>1
    <2> QED
      BY <2>2, <2>3 DEF Single
  <1>9. CASE Apply
    <2>1. state' = state
      BY <1>9, ApplyTakes
    <2>2. \A i \in DOMAIN updates' : updates'[i].from \in Buttons =>
            /\ Single(updates'[i].items)
            /\ [items |-> updates'[i].items, first |-> updates'[i].first] \in Lists
      BY <1>9, ApplyTakes
    <2>3. Single(choices') /\ \A b \in Buttons : Single(list'[b].items)
      <3>1. CASE ApplyList(Head(updates))
        <4>1. /\ Head(updates).from \in Buttons /\ choices' = Head(updates).items
              /\ list' = [list EXCEPT ![Head(updates).from] = Empty]
          BY <3>1 DEF ApplyList, SetDropdown
        <4>2. Single(Head(updates).items)
          BY <1>9, <4>1, ApplyTakes
        <4> QED
          BY <1>0, <4>1, <4>2, EmptyType
      <3>2. CASE ApplyShown(Head(updates))
        BY <3>2 DEF ApplyShown, handlerVars
      <3> QED
        BY <1>9, <3>1, <3>2, ApplyTakes
    <2> QED
      BY <2>1, <2>2, <2>3 DEF Single
  <1> QED
    BY <1>2, <1>3, <1>4, <1>5, <1>6, <1>7, <1>8, <1>9 DEF Next

(* After an update is applied the others are still to be applied.            *)
LEMMA ApplyMoves ==
  ASSUME FrontendTypeOK, Apply, NEW n \in 1 .. Len(updates), NEW rows,
         Applied(updates, choices, n, rows)
  PROVE  Applied(updates', choices', n - 1, rows)
  <1>1. choices' = IF Head(updates).from \in Buttons THEN Head(updates).items ELSE choices
    BY ApplyTakes, UpdateType DEF ApplyList, ApplyShown, SetDropdown
  <1> QED
    BY <1>1, ApplyTakes, AppliedFront

(* The last list on its way to the screen is the session's.                  *)
LEMMA CatchUpStep ==
  ASSUME FrontendTypeOK, ScreenCatchesUp, [Next]_vars
  PROVE  ScreenCatchesUp'
  <1>0. updates \in Seq(Update) /\ Len(updates) \in Nat
    BY LenProperties DEF FrontendTypeOK
  <1> USE DEF ScreenCatchesUp
  <1>1. CASE Quiet
    BY <1>1 DEF Quiet
  <1>2. ASSUME NEW b \in Buttons, Return(b)
        PROVE  ScreenCatchesUp'
    <2>1. PICK u \in Update :
            /\ u.from = b /\ u.items = list[b].items
            /\ Len(updates') = Len(updates) + 1 /\ updates'[Len(updates) + 1] = u
      BY <1>2, ReturnSends
    <2>2. state' = u.items
      BY <1>2, <2>1 DEF Return
    <2>3. PICK n \in Nat \ {0} : n = Len(updates')
      BY <1>0, <2>1
    <2>4. updates'[n].from \in Buttons /\ updates'[n].items = state'
      BY <2>1, <2>2, <2>3
    <2>5. n \in 1 .. n /\ \A j \in (n + 1) .. n : FALSE
      BY <2>3
    <2>6. Applied(updates', choices', n, state')
      BY <2>4, <2>5 DEF Applied
    <2> QED
      BY <2>3, <2>6
  <1>3. CASE on_detection_request_selected
    <2>1. PICK u \in Update :
            /\ u.from = "change" /\ updates' = Append(updates, u)
            /\ Len(updates') = Len(updates) + 1
            /\ \A i \in DOMAIN updates' :
                 \/ i \in DOMAIN updates /\ updates'[i] = updates[i]
                 \/ i = Len(updates) + 1 /\ i \notin DOMAIN updates /\ updates'[i] = u
      BY <1>3, LookupSends
    <2>2. UNCHANGED <<state, choices>>
      BY <1>3 DEF on_detection_request_selected, screenVars
    <2>3. Applied(updates', choices, Len(updates), state)
      <3>1. Len(updates) \in 0 .. Len(updates)
        BY <1>0
      <3> QED
        BY <1>0, <2>1, <3>1, AppliedBack
    <2>4. updates'[Len(updates) + 1].from \notin Buttons
      BY <1>0, <2>1, Back, UpdateType
    <2>5. Applied(updates', choices, Len(updates) + 1, state)
      <3> DEFINE q == updates'
                 n == Len(updates)
      <3>1. n \in Nat /\ q[n + 1].from \notin Buttons /\ Applied(q, choices, n, state)
        BY <1>0, <2>3, <2>4
      <3> HIDE DEF q, n
      <3>2. CASE choices = state /\ \A i \in 1 .. n : q[i].from \notin Buttons
        <4>1. \A i \in 1 .. n + 1 : q[i].from \notin Buttons
          BY <3>1, <3>2
        <4>2. Applied(q, choices, n + 1, state)
          BY <3>2, <4>1 DEF Applied
        <4> QED
          BY <4>2 DEF q, n
      <3>3. CASE \E i \in 1 .. n : /\ q[i].from \in Buttons /\ q[i].items = state
                                   /\ \A j \in (i + 1) .. n : q[j].from \notin Buttons
        <4>1. PICK i \in 1 .. n : /\ q[i].from \in Buttons /\ q[i].items = state
                                  /\ \A j \in (i + 1) .. n : q[j].from \notin Buttons
          BY <3>3
        <4>2. i \in 1 .. n + 1 /\ \A j \in (i + 1) .. (n + 1) : q[j].from \notin Buttons
          BY <3>1, <4>1
        <4>3. Applied(q, choices, n + 1, state)
          BY <4>1, <4>2 DEF Applied
        <4> QED
          BY <4>3 DEF q, n
      <3> QED
        BY <3>1, <3>2, <3>3 DEF Applied
    <2> QED
      BY <2>1, <2>2, <2>5
  <1>4. CASE Apply
    <2>1. Len(updates) \in 1 .. Len(updates)
      BY <1>4, ApplyTakes
    <2>2. Applied(updates', choices', Len(updates) - 1, state)
      BY <1>4, <2>1, ApplyMoves
    <2> QED
      BY <1>4, <2>2, ApplyTakes
  <1> QED
    BY <1>1, <1>2, <1>3, <1>4, UpdatesMove

(* A status that was looked up in a list comes to the screen with that list. *)
LEMMA LookupsStep ==
  ASSUME FrontendTypeOK, InTurn, ListsAreLists, ScreenCatchesUp, LookupsAreOfTheirTime,
         [Next]_vars
  PROVE  LookupsAreOfTheirTime'
  <1>0. /\ updates \in Seq(Update) /\ Len(updates) \in Nat /\ DOMAIN updates = 1 .. Len(updates)
        /\ state \in SUBSET Item /\ Single(state) /\ "change" \notin Buttons
    BY LenProperties, UpdateType DEF FrontendTypeOK, ListsAreLists
  <1>1. CASE Quiet
    <2>1. \A k \in DOMAIN updates : updates[k].from = "change" => change = "done"
      BY <1>0 DEF InTurn, IsList
    <2> QED
      BY <1>1, <2>1 DEF Quiet, LookupsAreOfTheirTime
  <1>2. ASSUME NEW u \in Update, updates' = Append(updates, u), UNCHANGED <<asked, choices>>,
               \A i \in DOMAIN updates' :
                 \/ i \in DOMAIN updates /\ updates'[i] = updates[i]
                 \/ i = Len(updates) + 1 /\ i \notin DOMAIN updates /\ updates'[i] = u,
               u.from = "change" => u.shows = Found(asked, state)
        PROVE  LookupsAreOfTheirTime'
    <2> SUFFICES ASSUME NEW k \in DOMAIN updates', updates'[k].from = "change"
                 PROVE  \E rows \in SUBSET Item :
                          /\ Applied(updates', choices', k - 1, rows) /\ Single(rows)
                          /\ updates'[k].shows = Found(asked', rows)
      BY DEF LookupsAreOfTheirTime, Single, Found, Applied
    <2>1. CASE k \in DOMAIN updates /\ updates'[k] = updates[k]
      <3>1. PICK rows \in SUBSET Item :
              /\ Applied(updates, choices, k - 1, rows) /\ Single(rows)
              /\ updates[k].shows = Found(asked, rows)
        BY <2>1 DEF LookupsAreOfTheirTime
      <3>2. k - 1 \in 0 .. Len(updates)
        BY <1>0, <2>1
      <3>3. Applied(updates', choices, k - 1, rows)
        BY <1>0, <1>2, <3>1, <3>2, AppliedBack
      <3> QED
        BY <1>2, <2>1, <3>1, <3>3
    <2>2. CASE k = Len(updates) + 1 /\ updates'[k] = u
      <3>1. Len(updates) \in 0 .. Len(updates) /\ k - 1 = Len(updates)
        BY <1>0, <2>2
      <3>2. Applied(updates', choices, k - 1, state)
        BY <1>0, <1>2, <3>1, AppliedBack DEF ScreenCatchesUp
      <3> QED
        BY <1>0, <1>2, <2>2, <3>2
    <2> QED
      BY <1>2, <2>1, <2>2
  <1>3. CASE \E b \in Buttons : Return(b)
    <2>1. PICK b \in Buttons : Return(b)
      BY <1>3
    <2>2. PICK u \in Update :
            /\ u.from = b /\ updates' = Append(updates, u)
            /\ \A i \in DOMAIN updates' :
                 \/ i \in DOMAIN updates /\ updates'[i] = updates[i]
                 \/ i = Len(updates) + 1 /\ i \notin DOMAIN updates /\ updates'[i] = u
      BY <2>1, ReturnSends
    <2>3. UNCHANGED <<asked, choices>>
      BY <2>1 DEF Return, changeVars, screenVars
    <2>4. u.from # "change"
      BY <1>0, <2>2
    <2> QED
      BY <1>2, <2>2, <2>3, <2>4
  <1>4. CASE on_detection_request_selected
    <2>1. PICK u \in Update :
            /\ u.shows = Found(asked, state) /\ updates' = Append(updates, u)
            /\ \A i \in DOMAIN updates' :
                 \/ i \in DOMAIN updates /\ updates'[i] = updates[i]
                 \/ i = Len(updates) + 1 /\ i \notin DOMAIN updates /\ updates'[i] = u
      BY <1>4, LookupSends
    <2>2. UNCHANGED <<asked, choices>>
      BY <1>4 DEF on_detection_request_selected, screenVars
    <2> QED
      BY <1>2, <2>1, <2>2
  <1>5. CASE Apply
    <2> SUFFICES ASSUME NEW k \in DOMAIN updates', updates'[k].from = "change"
                 PROVE  \E rows \in SUBSET Item :
                          /\ Applied(updates', choices', k - 1, rows) /\ Single(rows)
                          /\ updates'[k].shows = Found(asked', rows)
      BY DEF LookupsAreOfTheirTime, Single, Found, Applied
    <2>1. /\ k + 1 \in DOMAIN updates /\ k + 1 # 1 /\ k \in Nat /\ 1 \in DOMAIN updates
          /\ updates'[k] = updates[k + 1] /\ Head(updates) = updates[1]
      BY <1>5, ApplyTakes
    <2>2. PICK rows \in SUBSET Item :
            /\ Applied(updates, choices, (k + 1) - 1, rows) /\ Single(rows)
            /\ updates[k + 1].shows = Found(asked, rows)
      BY <2>1 DEF LookupsAreOfTheirTime
    <2>3. (k + 1) - 1 = k /\ k \in 1 .. Len(updates)
      BY <1>0, <2>1
    <2>4. Applied(updates', choices', k - 1, rows)
      BY <1>5, <2>2, <2>3, ApplyMoves
    <2>5. asked' = asked
      <3>1. change = "done" /\ Head(updates).from # "change"
        BY <1>0, <2>1 DEF InTurn, IsList
      <3>2. ApplyList(Head(updates))
        BY <1>5, <3>1, ApplyTakes DEF ApplyShown
      <3> QED
        BY <3>1, <3>2 DEF ApplyList, SetDropdown, Changed, changeVars
    <2> QED
      BY <2>1, <2>2, <2>4, <2>5
  <1> QED
    BY <1>1, <1>3, <1>4, <1>5, UpdatesMove

(* The status that comes when no other change is to be asked for is the one  *)
(* of the row that is selected: the first update's list is on the screen.    *)
LEMMA ShownIsSelected ==
  ASSUME FrontendTypeOK, InTurn, LookupsAreOfTheirTime,
         change # "none" /\ ~again => asked = selected,
         updates # << >>, Head(updates).from = "change", ~again
  PROVE  IF selected = None THEN Head(updates).shows = Note("select one")
                            ELSE Head(updates).shows = selected
  <1>1. /\ 1 \in DOMAIN updates /\ Head(updates) = updates[1]
        /\ DOMAIN updates = 1 .. Len(updates) /\ "change" \notin Buttons
    BY Front, UpdateType DEF FrontendTypeOK
  <1>2. change = "done"
    BY <1>1 DEF InTurn, IsList
  <1>3. asked = selected
    BY <1>2
  <1>4. PICK rows \in SUBSET Item :
          /\ Applied(updates, choices, 1 - 1, rows) /\ Single(rows)
          /\ updates[1].shows = Found(asked, rows)
    BY <1>1 DEF LookupsAreOfTheirTime
  <1>5. rows = choices
    BY <1>4 DEF Applied
  <1>6. asked \in rows \cup {None} /\ None \notin rows
    BY <1>3, <1>5, NoneAssumption DEF FrontendTypeOK
  <1>7. CASE asked = None
    BY <1>1, <1>3, <1>4, <1>7 DEF Found
  <1>8. CASE asked # None
    <2>1. asked \in rows
      BY <1>6, <1>8
    <2>2. updates[1].shows = CHOOSE item \in rows : item.id = asked.id
      BY <1>4, <1>8, <2>1 DEF Found
    <2>3. updates[1].shows \in rows /\ updates[1].shows.id = asked.id
      BY <2>1, <2>2
    <2> QED
      BY <1>1, <1>3, <1>4, <1>8, <2>1, <2>3 DEF Single
  <1> QED
    BY <1>7, <1>8

(* The last change of the dropdown is looked up, and what is shown when no   *)
(* change is under way is of the row that is selected.                       *)
LEMMA ChangesStep ==
  ASSUME FrontendTypeOK, InTurn, LookupsAreOfTheirTime, ChangesAreAsked, [Next]_vars
  PROVE  ChangesAreAsked'
  <1> USE DEF ChangesAreAsked
  <1>1. CASE UNCHANGED <<changeVars, selected, shown>>
    BY <1>1 DEF changeVars
  <1>2. ASSUME NEW value, Changed(value), shown' = shown
        PROVE  ChangesAreAsked'
    <2>1. CASE value = selected
      BY <1>1, <1>2, <2>1 DEF Changed
    <2>2. CASE value # selected
      <3>1. change' # "none" /\ (~again' => asked' = selected')
        BY <1>2, <2>2 DEF Changed, FrontendTypeOK
      <3> QED
        BY <3>1
    <2> QED
      BY <2>1, <2>2
  <1>3. CASE Core \/ FetchDetectors \/ UNCHANGED vars
    BY <1>3, <1>1 DEF Core, FetchDetectors, vars, pageVars, screenVars
  <1>4. CASE \E b \in Buttons : Click(b) \/ get_detection_requests(b) \/ Return(b)
    BY <1>4, <1>1 DEF Click, get_detection_requests, Return, screenVars
  <1>5. CASE \E item \in choices : Select(item)
    BY <1>5, <1>2 DEF Select
  <1>6. CASE (\E r \in Requests : SendPut(r)) \/ PutAnswered \/ PutFails
    BY <1>6, <1>1 DEF SendPut, PutAnswered, PutFails, screenVars
  <1>7. CASE on_detection_request_selected
    BY <1>7 DEF on_detection_request_selected, screenVars
  <1>8. CASE Apply
    <2> DEFINE u == Head(updates)
    <2>1. u = updates[1] /\ 1 \in DOMAIN updates /\ (ApplyList(u) \/ ApplyShown(u))
      BY <1>8, ApplyTakes
    <2>2. CASE ApplyList(u)
      BY <1>2, <2>2 DEF ApplyList, SetDropdown
    <2>3. CASE ApplyShown(u) /\ again
      BY <2>3 DEF ApplyShown
    <2>4. CASE ApplyShown(u) /\ ~again
      <3>1. /\ u.from = "change" /\ shown' = u.shows /\ change' = "none"
            /\ selected' = selected
        BY <2>4 DEF ApplyShown
      <3>2. IF selected = None THEN u.shows = Note("select one") ELSE u.shows = selected
        BY <1>8, <2>4, <3>1, ApplyTakes, ShownIsSelected
      <3> QED
        BY <3>1, <3>2
    <2> QED
      BY <2>1, <2>2, <2>3, <2>4
  <1> QED
    BY <1>3, <1>4, <1>5, <1>6, <1>7, <1>8 DEF Next

-----------------------------------------------------------------------------
(* Submissions in their lists.                                               *)

(* A page has the row of any request, unless it is full.                     *)
LEMMA PageHasRow ==
  ASSUME FrontendTypeOK, IsFiniteSet(accepted), NEW rows \in Pages,
         NEW r \in Requests, status[r] # "UNKNOWN"
  PROVE  HasRow(r, rows)
  <1> DEFINE ids == {q \in Requests : status[q] # "UNKNOWN"}
             row == [q \in ids |-> [id |-> q, status |-> status[q]]]
  <1>1. IsFiniteSet(ids)
    <2>1. ids \in SUBSET accepted
      BY DEF FrontendTypeOK
    <2> QED
      BY <2>1, FS_Subset
  <1>2. IsFiniteSet(Rows)
    <2>1. row \in Surjection(ids, Rows)
      BY DEF Rows, Surjection
    <2> QED
      BY <1>1, <2>1, FS_Surjection
  <1>3. rows \in SUBSET Rows
        /\ Cardinality(rows) = IF Cardinality(Rows) < MassLimit
                               THEN Cardinality(Rows) ELSE MassLimit
    BY DEF Pages
  <1>4. CASE Cardinality(Rows) < MassLimit
    <2>1. rows = Rows
      BY <1>2, <1>3, <1>4, FS_Subset
    <2>2. [id |-> r, status |-> status[r]] \in Rows
      BY DEF Rows
    <2> QED
      BY <2>1, <2>2 DEF HasRow
  <1>5. CASE ~(Cardinality(Rows) < MassLimit)
    BY <1>3, <1>5 DEF HasRow
  <1> QED
    BY <1>4, <1>5

(* submit_detection fetches the list after the write of its row, done or     *)
(* failed.                                                                   *)
LEMMA SubmitStep ==
  ASSUME FrontendTypeOK, IsFiniteSet(accepted), SubmitFindsItsRow, [Next]_vars
  PROVE  IsFiniteSet(accepted') /\ SubmitFindsItsRow'
  <1>0. /\ pc \in [Buttons -> {"idle", "put", "sent", "fetch", "return", "returned"}]
        /\ list \in [Buttons -> Lists] /\ "submit" \in Buttons
        /\ status \in [Requests -> {"UNKNOWN", "PENDING", "SUCCESS"}]
    BY DEF FrontendTypeOK, Buttons
  <1>1. CASE UNCHANGED <<accepted, pc, answer, list>> /\ UNCHANGED <<status, unstored>>
    BY <1>1 DEF SubmitFindsItsRow, HasRow
  <1>2. CASE Core
    <2>1. UNCHANGED handlerVars
      BY <1>2 DEF Core, pageVars
    <2>2. IsFiniteSet(accepted')
      BY <1>2, FS_AddElement DEF Core
    <2>3. \A r \in Requests : status[r] # "UNKNOWN" => status'[r] # "UNKNOWN"
      BY <1>0, <1>2 DEF Core, Record, Finish, FrontendTypeOK
    <2>4. unstored' = unstored
      BY <1>2 DEF Core
    <2> QED
      BY <2>1, <2>2, <2>3, <2>4 DEF handlerVars, SubmitFindsItsRow, HasRow
  <1>3. ASSUME NEW b \in Buttons, Click(b)
        PROVE  IsFiniteSet(accepted') /\ SubmitFindsItsRow'
    BY <1>0, <1>3 DEF Click, coreVars, lifecycleVars, SubmitFindsItsRow, HasRow
  <1>4. ASSUME NEW b \in Buttons, get_detection_requests(b)
        PROVE  IsFiniteSet(accepted') /\ SubmitFindsItsRow'
    <2>1. /\ pc[b] = "fetch" /\ pc' = [pc EXCEPT ![b] = "return"]
          /\ UNCHANGED <<accepted, answer>>
      BY <1>4 DEF get_detection_requests
    <2>2. UNCHANGED <<status, unstored>>
      BY <1>4 DEF get_detection_requests, Tell, coreVars, lifecycleVars
    <2>3. PICK l : /\ list' = [list EXCEPT ![b] = l]
                   /\ l.items = {} \/ l.items \in Pages
      <3>1. CASE list' = [list EXCEPT ![b] = Empty]
        BY <3>1, EmptyType
      <3>2. CASE \E rows \in Pages : \E first \in IF rows = {} THEN {None} ELSE rows :
                   list' = [list EXCEPT ![b] = [items |-> rows, first |-> first]]
        <4>1. PICK rows \in Pages :
                \E first : list' = [list EXCEPT ![b] = [items |-> rows, first |-> first]]
          BY <3>2
        <4>2. PICK first : list' = [list EXCEPT ![b] = [items |-> rows, first |-> first]]
          BY <4>1
        <4>3. [items |-> rows, first |-> first].items = rows
          OBVIOUS
        <4> QED
          BY <4>2, <4>3
      <3> QED
        BY <1>4, <3>1, <3>2 DEF get_detection_requests
    <2>4. CASE b = "submit"
      <3>1. answer \in Requests /\ (status[answer] # "UNKNOWN" \/ answer \in unstored)
        BY <2>1, <2>4 DEF SubmitFindsItsRow
      <3>2. HasRow(answer, l.items)
        <4>1. CASE l.items = {}
          BY <4>1 DEF HasRow
        <4>2. CASE l.items \in Pages
          BY <3>1, <4>2, PageHasRow DEF HasRow
        <4> QED
          BY <2>3, <4>1, <4>2
      <3>3. pc'["submit"] = "return" /\ list'["submit"] = l /\ answer' = answer
        BY <1>0, <2>1, <2>3, <2>4
      <3> QED
        BY <2>1, <2>2, <3>2, <3>3 DEF SubmitFindsItsRow, HasRow
    <2>5. CASE b # "submit"
      <3>1. pc'["submit"] = pc["submit"] /\ list'["submit"] = list["submit"]
        BY <1>0, <2>1, <2>3, <2>5
      <3> QED
        BY <2>1, <2>2, <3>1 DEF SubmitFindsItsRow, HasRow
    <2> QED
      BY <2>4, <2>5
  <1>5. ASSUME NEW b \in Buttons, Return(b)
        PROVE  IsFiniteSet(accepted') /\ SubmitFindsItsRow'
    BY <1>0, <1>5 DEF Return, coreVars, lifecycleVars, SubmitFindsItsRow, HasRow
  <1>6. CASE (\E item \in choices : Select(item)) \/ FetchDetectors
    BY <1>1, <1>6 DEF Select, FetchDetectors, handlerVars, coreVars, lifecycleVars
  <1>7. CASE \E r \in Requests : SendPut(r)
    BY <1>0, <1>7, FS_AddElement DEF SendPut, SubmitFindsItsRow, HasRow
  <1>8. CASE PutAnswered
    <2>1. /\ pc'["submit"] = "fetch" /\ UNCHANGED <<accepted, answer>> /\ answer \in Requests
          /\ status' = status /\ (status[answer] # "UNKNOWN" \/ answer \in unstored')
      BY <1>0, <1>8 DEF PutAnswered, SubmitFindsItsRow, lifecycleVars
    <2> QED
      BY <2>1 DEF SubmitFindsItsRow, HasRow
  <1>9. CASE PutFails
    <2>1. /\ pc'["submit"] = "return" /\ list'["submit"].items = {} /\ accepted' = accepted
      BY <1>0, <1>9, EmptyType DEF PutFails
    <2> QED
      BY <2>1 DEF SubmitFindsItsRow, HasRow
  <1>10. CASE on_detection_request_selected \/ UNCHANGED vars
    BY <1>1, <1>10 DEF on_detection_request_selected, vars, pageVars, handlerVars, coreVars,
                       lifecycleVars
  <1>11. CASE Apply
    <2>1. UNCHANGED <<accepted, status, unstored>>
      BY <1>11, ApplyTakes DEF coreVars, lifecycleVars
    <2>2. CASE ApplyShown(Head(updates))
      BY <1>1, <2>1, <2>2 DEF ApplyShown, handlerVars
    <2>3. CASE ApplyList(Head(updates))
      <3> DEFINE b == Head(updates).from
      <3>1. /\ b \in Buttons /\ pc' = [pc EXCEPT ![b] = "idle"]
            /\ list' = [list EXCEPT ![b] = Empty]
            /\ b # "submit" => answer' = answer
        BY <2>3 DEF ApplyList
      <3> HIDE DEF b
      <3>2. CASE b = "submit"
        <4>1. pc'["submit"] = "idle"
          BY <1>0, <3>1, <3>2
        <4> QED
          BY <2>1, <4>1 DEF SubmitFindsItsRow
      <3>3. CASE b # "submit"
        <4>1. pc'["submit"] = pc["submit"] /\ list'["submit"] = list["submit"]
          BY <1>0, <3>1, <3>3
        <4> QED
          BY <2>1, <3>1, <3>3, <4>1 DEF SubmitFindsItsRow, HasRow
      <3> QED
        BY <3>2, <3>3
    <2> QED
      BY <1>11, <2>2, <2>3, ApplyTakes
  <1> QED
    BY <1>2, <1>3, <1>4, <1>5, <1>6, <1>7, <1>8, <1>9, <1>10, <1>11 DEF Next

(* The list a submission returned has its request until it is applied.       *)
LEMMA ListedStep ==
  ASSUME FrontendTypeOK, SubmitFindsItsRow, SubmittedIsListed, [Next]_vars
  PROVE  SubmittedIsListed'
  <1> DEFINE Listed(u) == u.from = "submit" => HasRow(u.message, u.items)
  <1>0. updates \in Seq(Update) /\ \A i \in DOMAIN updates : Listed(updates[i])
    BY DEF FrontendTypeOK, SubmittedIsListed, HasRow
  <1>1. (\A i \in DOMAIN updates' : Listed(updates'[i])) => SubmittedIsListed'
    <2>1. unstored \subseteq unstored'
      BY DEF Next, Core, Click, get_detection_requests, Return, Select, FetchDetectors, SendPut,
             PutAnswered, PutFails, on_detection_request_selected, Apply, coreVars, vars
    <2> QED
      BY <2>1 DEF SubmittedIsListed, HasRow
  <1> HIDE DEF Listed
  <1>2. CASE Quiet
    BY <1>0, <1>1, <1>2 DEF Quiet
  <1>3. ASSUME NEW b \in Buttons, Return(b)
        PROVE  SubmittedIsListed'
    <2>1. PICK u \in Update :
            /\ u.from = b /\ u.items = list[b].items
            /\ u.message = IF b = "submit" THEN answer ELSE None
            /\ \A i \in DOMAIN updates' :
                 \/ i \in DOMAIN updates /\ updates'[i] = updates[i]
                 \/ i = Len(updates) + 1 /\ i \notin DOMAIN updates /\ updates'[i] = u
      BY <1>3, ReturnSends
    <2>2. Listed(u)
      BY <1>3, <2>1 DEF Return, SubmitFindsItsRow, Listed
    <2> QED
      BY <1>0, <1>1, <2>1, <2>2
  <1>4. CASE on_detection_request_selected
    <2>1. PICK u \in Update :
            /\ u.from = "change"
            /\ \A i \in DOMAIN updates' :
                 \/ i \in DOMAIN updates /\ updates'[i] = updates[i]
                 \/ i = Len(updates) + 1 /\ i \notin DOMAIN updates /\ updates'[i] = u
      BY <1>4, LookupSends
    <2>2. Listed(u)
      BY <2>1 DEF Listed
    <2> QED
      BY <1>0, <1>1, <2>1, <2>2
  <1>5. CASE Apply
    BY <1>0, <1>1, <1>5, ApplyTakes
  <1> QED
    BY <1>2, <1>3, <1>4, <1>5, UpdatesMove

-----------------------------------------------------------------------------
(* One function at a time.                                                   *)

(* Lists on their way to the screen are those of functions that returned.    *)
LEMMA NoLists ==
  ASSUME InTurn, \A b \in Buttons : pc[b] # "returned"
  PROVE  \A i \in DOMAIN updates : ~IsList(i)
  BY DEF InTurn, IsList

(* A page tells what it shows.                                               *)
LEMMA PageIsTold ==
  ASSUME FrontendTypeOK, NEW rows \in Pages, Tell({row.id : row \in rows})
  PROVE  \A item \in rows : told'[item.id] = item.status
  <1> SUFFICES ASSUME NEW item \in rows
               PROVE  told'[item.id] = item.status
    OBVIOUS
  <1>1. item.id \in Requests /\ item.status = status[item.id]
    BY PageType DEF Item
  <1>2. item.id \in {row.id : row \in rows}
    OBVIOUS
  <1> QED
    BY <1>1, <1>2 DEF Tell

(* Without overlapping clicks the lists under way are the latest.            *)
LEMMA OneAtATimeStep ==
  ASSUME FrontendTypeOK, InTurn, OneAtATime, [Next]_vars
  PROVE  OneAtATime'
  <1>0. /\ pc \in [Buttons -> {"idle", "put", "sent", "fetch", "return", "returned"}]
        /\ list \in [Buttons -> Lists] /\ Buttons = {"submit", "refresh"}
        /\ updates \in Seq(Update) /\ "change" \notin Buttons
    BY UpdateType DEF FrontendTypeOK, Buttons
  <1> USE DEF OneAtATime, IsList, Latest
  <1>1. CASE UNCHANGED <<told, overlapped, pc, list, choices, updates>>
    BY <1>1
  <1>2. CASE Core \/ UNCHANGED vars
    BY <1>2, <1>1 DEF Core, Record, Finish, coreVars, lifecycleVars, vars, pageVars,
                      handlerVars, screenVars
  <1>3. CASE (\E item \in choices : Select(item)) \/ FetchDetectors
    BY <1>3, <1>1 DEF Select, FetchDetectors, coreVars, lifecycleVars, handlerVars
  <1>4. ASSUME NEW b \in Buttons, Click(b)
        PROVE  OneAtATime'
    <2>1. /\ pc[b] = "idle" /\ overlapped' = (pc[Other(b)] # "idle")
          /\ pc' = [pc EXCEPT ![b] = IF b = "submit" THEN "put" ELSE "fetch"]
          /\ UNCHANGED <<told, list, updates, choices>>
      BY <1>4 DEF Click, coreVars, lifecycleVars, screenVars
    <2> SUFFICES ASSUME pc[Other(b)] = "idle"
                 PROVE  OneAtATime'
      BY <2>1
    <2>2. Other(b) \in Buttons /\ Other(b) # b /\ Buttons = {b, Other(b)}
      BY <1>0 DEF Other
    <2>3. \A c \in Buttons : pc[c] = "idle"
      BY <2>1, <2>2
    <2>4. \A i \in DOMAIN updates : ~IsList(i)
      BY <2>3, NoLists
    <2>5. /\ pc'[Other(b)] = "idle"
          /\ \A c \in Buttons : pc'[c] \notin {"return", "returned"}
          /\ pc'[b] # "idle"
      BY <1>0, <2>1, <2>2, <2>3
    <2> QED
      BY <2>1, <2>2, <2>4, <2>5
  <1>5. ASSUME NEW b \in Buttons, get_detection_requests(b)
        PROVE  OneAtATime'
    <2>1. /\ pc[b] = "fetch" /\ pc' = [pc EXCEPT ![b] = "return"]
          /\ UNCHANGED <<updates, choices, overlapped>>
      BY <1>5 DEF get_detection_requests, screenVars
    <2> SUFFICES ASSUME ~overlapped
                 PROVE  OneAtATime'
      BY <2>1
    <2>2. PICK c \in Buttons : pc[c] = "idle"
      OBVIOUS
    <2>3. c # b /\ Buttons = {b, c}
      BY <1>0, <2>1, <2>2
    <2>4. \A i \in DOMAIN updates : ~IsList(i)
      BY <2>1, <2>2, <2>3, NoLists
    <2>5. \A item \in list'[b].items : told'[item.id] = item.status
      <3>1. CASE list' = [list EXCEPT ![b] = Empty]
        BY <1>0, <3>1, EmptyType
      <3>2. CASE \E rows \in Pages : \E first \in IF rows = {} THEN {None} ELSE rows :
                   /\ list' = [list EXCEPT ![b] = [items |-> rows, first |-> first]]
                   /\ Tell({row.id : row \in rows})
        <4>1. PICK rows \in Pages :
                /\ \E first : list' = [list EXCEPT ![b] = [items |-> rows, first |-> first]]
                /\ Tell({row.id : row \in rows})
          BY <3>2
        <4>2. list'[b].items = rows
          BY <1>0, <4>1
        <4> QED
          BY <4>1, <4>2, PageIsTold
      <3> QED
        BY <1>5, <3>1, <3>2 DEF get_detection_requests
    <2>6. pc'[c] = "idle" /\ pc'[b] = "return"
      BY <1>0, <2>1, <2>2, <2>3
    <2> QED
      BY <2>1, <2>3, <2>4, <2>5, <2>6
  <1>6. ASSUME NEW b \in Buttons, Return(b)
        PROVE  OneAtATime'
    <2>1. /\ pc[b] = "return" /\ pc' = [pc EXCEPT ![b] = "returned"]
          /\ UNCHANGED <<told, list, choices, overlapped>>
      BY <1>6 DEF Return, coreVars, lifecycleVars, screenVars
    <2> SUFFICES ASSUME ~overlapped
                 PROVE  OneAtATime'
      BY <2>1
    <2>2. PICK u \in Update :
            /\ u.items = list[b].items
            /\ \A i \in DOMAIN updates' :
                 \/ i \in DOMAIN updates /\ updates'[i] = updates[i]
                 \/ i = Len(updates) + 1 /\ i \notin DOMAIN updates /\ updates'[i] = u
      BY <1>6, ReturnSends
    <2>3. \A item \in u.items : told'[item.id] = item.status
      BY <2>1, <2>2
    <2>4. \A i \in DOMAIN updates' : updates'[i].from \in Buttons =>
            \A item \in updates'[i].items : told'[item.id] = item.status
      BY <2>1, <2>2, <2>3
    <2>5. \E c \in Buttons : pc'[c] = "idle"
      BY <1>0, <2>1
    <2>6. \A c \in Buttons : pc'[c] \in {"return", "returned"} =>
            pc[c] \in {"return", "returned"}
      BY <1>0, <2>1
    <2>7. pc'[b] # "idle"
      BY <1>0, <2>1
    <2> QED
      BY <2>1, <2>4, <2>5, <2>6, <2>7
  <1>7. ASSUME pc["submit"] # "idle", pc["submit"] # "returned",
               pc'["submit"] \notin {"idle", "returned"},
               pc'["refresh"] = pc["refresh"], list'["refresh"] = list["refresh"],
               pc'["submit"] = "return" => list'["submit"].items = {},
               UNCHANGED <<told, overlapped, choices, updates>>
        PROVE  OneAtATime'
    BY <1>0, <1>7
  <1>8. CASE (\E r \in Requests : SendPut(r)) \/ PutAnswered
    BY <1>0, <1>7, <1>8 DEF SendPut, PutAnswered, coreVars, lifecycleVars, screenVars
  <1>9. CASE PutFails
    BY <1>0, <1>7, <1>9, EmptyType DEF PutFails, coreVars, lifecycleVars, screenVars
  <1>10. CASE on_detection_request_selected
    <2>1. PICK u \in Update :
            /\ u.from = "change"
            /\ \A i \in DOMAIN updates' :
                 \/ i \in DOMAIN updates /\ updates'[i] = updates[i]
                 \/ i = Len(updates) + 1 /\ i \notin DOMAIN updates /\ updates'[i] = u
      BY <1>10, LookupSends
    <2>2. UNCHANGED <<told, overlapped, pc, list, choices>>
      BY <1>10 DEF on_detection_request_selected, coreVars, lifecycleVars, handlerVars,
                   screenVars
    <2> QED
      BY <1>0, <2>1, <2>2
  <1>11. CASE Apply
    <2>1. /\ UNCHANGED <<told, overlapped>>
          /\ \A i \in DOMAIN updates' : i + 1 \in DOMAIN updates /\ updates'[i] = updates[i + 1]
      BY <1>11, ApplyTakes DEF coreVars, lifecycleVars
    <2>2. CASE ApplyShown(Head(updates))
      BY <2>1, <2>2 DEF ApplyShown, handlerVars
    <2>3. CASE ApplyList(Head(updates))
      <3> DEFINE b == Head(updates).from
                 rows == Head(updates).items
      <3>1. /\ b \in Buttons /\ pc' = [pc EXCEPT ![b] = "idle"]
            /\ list' = [list EXCEPT ![b] = Empty]
            /\ choices' = rows
        BY <2>3 DEF ApplyList, SetDropdown
      <3>2. pc[b] = "returned"
        BY <1>11, <3>1, ApplyTakes DEF InTurn
      <3>3. ~overlapped => \A item \in rows : told[item.id] = item.status
        BY <1>11, <3>1, ApplyTakes
      <3> HIDE DEF b, rows
      <3>4. pc'[b] = "idle" /\ \A c \in Buttons : c # b => pc'[c] = pc[c] /\ list'[c] = list[c]
        BY <1>0, <3>1
      <3> QED
        BY <2>1, <3>1, <3>3, <3>4
    <2> QED
      BY <1>11, <2>2, <2>3, ApplyTakes
  <1> QED
    BY <1>2, <1>3, <1>4, <1>5, <1>6, <1>8, <1>9, <1>10, <1>11 DEF Next

-----------------------------------------------------------------------------
(* The page as it is opened.                                                 *)
LEMMA PageInit == Init => PageInv
  <1> SUFFICES ASSUME Init
               PROVE  PageInv
    OBVIOUS
  <1>0. /\ updates = << >> /\ updates \in Seq(Update) /\ Len(updates) = 0
        /\ DOMAIN updates = {}
    BY EmptySeq DEF Init
  <1>1. FrontendTypeOK
    <2>1. clicks \in 0 .. MaxClicks
      BY FrontendAssumption DEF Init
    <2>2. /\ status \in [Requests -> {"UNKNOWN", "PENDING", "SUCCESS"}]
          /\ told \in [Requests -> {"UNKNOWN", "PENDING", "SUCCESS"}]
          /\ \A r \in Requests : status[r] = "UNKNOWN"
      BY DEF Init, LifecycleInit
    <2>3. /\ pc \in [Buttons -> {"idle", "put", "sent", "fetch", "return", "returned"}]
          /\ list \in [Buttons -> Lists]
      BY EmptyType DEF Init
    <2>4. shown \in Notes
      BY DEF Init, Notes
    <2> QED
      BY <1>0, <2>1, <2>2, <2>3, <2>4 DEF Init, FrontendTypeOK
  <1>2. InTurn
    BY <1>0 DEF InTurn
  <1>3. ListsAreLists
    BY <1>0, EmptyType DEF Init, ListsAreLists, Single
  <1>4. ScreenCatchesUp
    BY <1>0 DEF Init, ScreenCatchesUp, Applied
  <1>5. LookupsAreOfTheirTime
    BY <1>0 DEF LookupsAreOfTheirTime
  <1>6. ChangesAreAsked
    BY DEF Init, ChangesAreAsked
  <1>7. SubmissionsAreListed
    BY <1>0, FS_EmptySet DEF Init, SubmissionsAreListed, SubmitFindsItsRow,
                             SubmittedIsListed, Buttons
  <1>8. OneAtATime
    BY <1>0 DEF Init, OneAtATime, Latest, Buttons
  <1> QED
    BY <1>1, <1>2, <1>3, <1>4, <1>5, <1>6, <1>7, <1>8 DEF PageInv

(* Every step of the page keeps its invariant.                               *)
LEMMA PageStep == PageInv /\ [Next]_vars => PageInv'
  BY FrontendTypeStep, InTurnStep, ListsStep, CatchUpStep, LookupsStep, ChangesStep,
     SubmitStep, ListedStep, OneAtATimeStep DEF PageInv, SubmissionsAreListed

(* The invariant of the page holds whatever the user clicks and however the  *)
(* functions of the two buttons and of the dropdown overlap                  *)
(* (app.py:414-435, 440-466, 611-635).                                       *)
THEOREM PageInvariance == Spec => []PageInv
  <1>1. Init => PageInv
    BY PageInit
  <1>2. PageInv /\ [Next]_vars => PageInv'
    BY PageStep
  <1> QED
    BY <1>1, <1>2, PTL DEF Spec

(* Every variable of the page keeps its type, the queue of updates too; a    *)
(* dropdown that is not empty has a selected row.                            *)
THEOREM FrontendTypeCorrect == Spec => []FrontendTypeOK
  <1>1. PageInv => FrontendTypeOK
    BY DEF PageInv
  <1> QED
    BY <1>1, PageInvariance, PTL

(* When nothing is under way, the dropdown lists the session's state and the *)
(* status on the screen is of the row that is selected, for any number of    *)
(* clicks, choices and overlapping functions (app.py:413-437, 611-635).      *)
THEOREM ScreenSettles == Spec => []SettledScreenAgrees
  <1>1. PageInv => SettledScreenAgrees
    <2> SUFFICES ASSUME PageInv, Settled
                 PROVE  /\ choices = state
                        /\ selected = None => shown \in {Blank, Note("select one")}
                        /\ selected # None => shown = selected
      BY DEF SettledScreenAgrees
    <2>1. updates = << >> /\ Len(updates) = 0 /\ change = "none"
      BY EmptySeq DEF Settled
    <2>2. choices = state
      BY <2>1 DEF PageInv, ScreenCatchesUp, Applied
    <2> QED
      BY <2>1, <2>2 DEF PageInv, ChangesAreAsked
  <1> QED
    BY <1>1, PageInvariance, PTL

(* The list a submission answered 200 returns has the submission's row, or   *)
(* is as long as a page gets, or the write of that row failed, for any page  *)
(* length and any other clients (app.py:440-466, storage.go:51-53, 101).     *)
THEOREM SubmissionsListed == Spec => []SubmittedIsListed
  <1>1. PageInv => SubmittedIsListed
    BY DEF PageInv, SubmissionsAreListed
  <1> QED
    BY <1>1, PageInvariance, PTL

(* Without overlapping clicks the settled screen shows no status older than  *)
(* the last this browser was told (app.py:611, 623).                         *)
THEOREM ScreenNotOutdated == Spec => []ScreenIsLatest
  <1>1. PageInv => ScreenIsLatest
    BY DEF PageInv, OneAtATime, Latest, ScreenIsLatest, Settled
  <1> QED
    BY <1>1, PageInvariance, PTL
=============================================================================
