----------------------------- MODULE FrontendInv -----------------------------
(***************************************************************************)
(* The inductive invariant behind the theorems of FrontendProofs.  Updates *)
(* come to the browser in the order in which the server's functions ended, *)
(* so that a status looked up in one list arrives when that list is on the *)
(* screen, and the last list on its way is the session's.                  *)
(***************************************************************************)
EXTENDS Frontend

IsList(i) == updates[i].from \in Buttons

(* A function that has returned waits for its one update.                    *)
InTurn ==
  /\ \A i, j \in DOMAIN updates : updates[i].from = updates[j].from => i = j
  /\ \A i \in DOMAIN updates : IF IsList(i) THEN pc[updates[i].from] = "returned"
                                            ELSE change = "done"

(* Lists have a row per request, and their first row in them.                *)
Single(rows) == \A x, y \in rows : x.id = y.id => x = y

ListsAreLists ==
  /\ Single(state) /\ Single(choices)
  /\ \A b \in Buttons : Single(list[b].items)
  /\ \A i \in DOMAIN updates : IsList(i) =>
       /\ Single(updates[i].items)
       /\ [items |-> updates[i].items, first |-> updates[i].first] \in Lists

(* What a dropdown lists once the first n updates of a queue are applied.    *)
Applied(queue, now, n, rows) ==
  \/ now = rows /\ \A i \in 1 .. n : queue[i].from \notin Buttons
  \/ \E i \in 1 .. n : /\ queue[i].from \in Buttons /\ queue[i].items = rows
                       /\ \A j \in (i + 1) .. n : queue[j].from \notin Buttons

ScreenCatchesUp == Applied(updates, choices, Len(updates), state)

(* What is found in a list for the value of the dropdown.                    *)
Found(value, rows) ==
  IF value = None THEN Note("select one")
  ELSE IF \E item \in rows : item.id = value.id
  THEN CHOOSE item \in rows : item.id = value.id
  ELSE Note("not found")

LookupsAreOfTheirTime ==
  \A k \in DOMAIN updates : updates[k].from = "change" =>
    \E rows \in SUBSET Item : /\ Applied(updates, choices, k - 1, rows)
                              /\ Single(rows)
                              /\ updates[k].shows = Found(asked, rows)

(* The last change of the dropdown is looked up, at once or later.           *)
ChangesAreAsked ==
  /\ change # "none" /\ ~again => asked = selected
  /\ change = "none" => /\ selected = None => shown \in {Blank, Note("select one")}
                        /\ selected # None => shown = selected

(* A submission's list was fetched when its row was stored or could not be.  *)
HasRow(r, rows) ==
  r \in Requests /\ rows # {} => \/ \E item \in rows : item.id = r
                                 \/ r \in unstored
                                 \/ Cardinality(rows) = MassLimit

SubmitFindsItsRow ==
  /\ pc["submit"] \in {"sent", "fetch"} => answer \in Requests
  /\ pc["submit"] = "fetch" => status[answer] # "UNKNOWN" \/ answer \in unstored
  /\ pc["submit"] = "return" => HasRow(answer, list["submit"].items)

SubmissionsAreListed == IsFiniteSet(accepted) /\ SubmitFindsItsRow /\ SubmittedIsListed

(* Without overlapping clicks there is one function at a time, and nothing   *)
(* is told between its fetch and the screen.                                 *)
Latest(rows) == \A item \in rows : told[item.id] = item.status

OneAtATime ==
  ~overlapped =>
    /\ \E b \in Buttons : pc[b] = "idle"
    /\ \A b \in Buttons : pc[b] \in {"return", "returned"} => Latest(list[b].items)
    /\ \A i \in DOMAIN updates : IsList(i) => Latest(updates[i].items)
    /\ (\A b \in Buttons : pc[b] = "idle") => Latest(choices)

(* Where the page of app.py is going: with what is on its way applied, its   *)
(* dropdown is the session's list and its status that of the selected row.   *)
PageInv == /\ FrontendTypeOK
           /\ InTurn
           /\ ListsAreLists
           /\ ScreenCatchesUp
           /\ LookupsAreOfTheirTime
           /\ ChangesAreAsked
           /\ SubmissionsAreListed
           /\ OneAtATime
=============================================================================
