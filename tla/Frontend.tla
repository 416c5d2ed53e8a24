------------------------------- MODULE Frontend -------------------------------
(***************************************************************************)
(* The page of frontend/app.py in one browser, over a core that keeps the  *)
(* lifecycle of its requests.                                              *)
(*                                                                         *)
(* A click on "Submit Detection" or "Refresh Requests" runs its function   *)
(* on the frontend's server; a second click on the same button has to      *)
(* wait for it, one on the other has not.  When the function ends, the     *)
(* list it returned becomes the session's request_mapping_state and an     *)
(* update is sent to the browser, which applies updates in order.  A new   *)
(* value of the dropdown makes the browser send a change event: one at a   *)
(* time, and if the value changed again meanwhile, one more with the last  *)
(* value.  Its function looks the value up in what request_mapping_state   *)
(* is by then.  The buttons, events and updates are gradio's.              *)
(***************************************************************************)
EXTENDS DetectionLifecycle, Naturals, Sequences, FiniteSets

CONSTANTS
  None,       (* no value                                                    *)
  MassLimit,  (* how many rows a page has (storage.go:101)                   *)
  MaxClicks   (* bound: clicks and choices of the user                       *)

ASSUME FrontendAssumption == MassLimit \in Nat \ {0} /\ MaxClicks \in Nat

VARIABLES
  accepted,   (* requests this browser sent, or that have a row              *)
  unstored,   (* of them, answered 200 when the write of the row had failed  *)
  pc,         (* of submit_and_refresh and refresh_detection_list            *)
  answer,     (* the request id submit_detection returned, or None           *)
  list,       (* what get_detection_requests returned to each                *)
  state,      (* request_mapping_state                                       *)
  updates,    (* sent to the browser, not applied yet                        *)
  choices, selected,  (* the dropdown                                        *)
  detector,   (* a detector is selected                                      *)
  change,     (* the change event: none, sent, done                          *)
  asked,      (* its value                                                   *)
  again,      (* the dropdown changed while it was under way                 *)
  shown,      (* fetch_status_message                                        *)
  message,    (* submit_output: the request of it, or an error               *)
  overlapped, (* the last click was made while the other button's ran        *)
  clicks

coreVars    == <<lifecycleVars, unstored>>
handlerVars == <<pc, answer, list>>
changeVars  == <<change, asked, again>>
screenVars  == <<choices, selected, shown, message, detector>>
pageVars == <<handlerVars, state, updates, changeVars, screenVars, overlapped, clicks>>
vars == <<coreVars, accepted, pageVars>>

Buttons == {"submit", "refresh"}

(* A row as the page shows it, and a list of them: the rows and which comes  *)
(* first.                                                                    *)
Item == [id : Requests, status : {"PENDING", "SUCCESS"}]
Lists == {l \in [items : SUBSET Item, first : Item \cup {None}] :
            IF l.items = {} THEN l.first = None ELSE l.first \in l.items}

(* No value is no row: an empty dropdown has None.                           *)
ASSUME NoneAssumption == None \notin Item

(* The status message without a request.                                     *)
Note(words) == [id |-> None, status |-> words]
Blank       == Note("")
Notes       == {Blank, Note("not found"), Note("select one")}

Empty == [items |-> {}, first |-> None]

(* What an update carries; from is the function that returned it.            *)
Update == [from : Buttons, items : SUBSET Item, first : Item \cup {None},
           message : Requests \cup {None, "error"}]
          \cup [from : {"change"}, shows : Item \cup Notes]

FrontendTypeOK ==
  /\ status \in [Requests -> {"UNKNOWN", "PENDING", "SUCCESS"}]
  /\ told \in [Requests -> {"UNKNOWN", "PENDING", "SUCCESS"}]
  /\ accepted \subseteq Requests
  /\ \A r \in Requests : status[r] # "UNKNOWN" => r \in accepted
  /\ unstored \subseteq Requests
  /\ pc \in [Buttons -> {"idle", "put", "sent", "fetch", "return", "returned"}]
  /\ answer \in Requests \cup {None, "error"}
  /\ list \in [Buttons -> Lists]
  /\ state \in SUBSET Item
  /\ updates \in Seq(Update)
  /\ choices \in SUBSET Item /\ selected \in choices \cup {None}
  /\ choices # {} => selected # None
  /\ change \in {"none", "sent", "done"}
  /\ asked \in Item \cup {None} /\ again \in BOOLEAN
  /\ shown \in Item \cup Notes
  /\ message \in Requests \cup {None, "error"}
  /\ detector \in BOOLEAN /\ overlapped \in BOOLEAN
  /\ clicks \in 0 .. MaxClicks

Init ==
  /\ LifecycleInit
  /\ accepted = {} /\ unstored = {}
  /\ pc = [b \in Buttons |-> "idle"]
  /\ answer = None
  /\ list = [b \in Buttons |-> Empty]
  /\ state = {} /\ choices = {} /\ selected = None
  /\ updates = << >>
  /\ change = "none" /\ asked = None /\ again = FALSE
  /\ shown = Blank /\ message = None
  /\ detector = FALSE /\ overlapped = FALSE
  /\ clicks = 0

-----------------------------------------------------------------------------
(* The core, with what other clients send it, which is known here when it    *)
(* has a row.  A row that could not be written is not tried again: it comes  *)
(* with the result, or not at all.                                           *)
Core ==
  \E r \in Requests :
    /\ (r \notin unstored /\ Record(r)) \/ Finish(r)
    /\ accepted' = accepted \cup {r}
    /\ UNCHANGED <<unstored, pageVars>>

-----------------------------------------------------------------------------
(* The user.                                                                 *)

Other(b) == IF b = "submit" THEN "refresh" ELSE "submit"

Acts == clicks < MaxClicks /\ clicks' = clicks + 1

Click(b) ==
  /\ Acts
  /\ pc[b] = "idle"
  /\ pc' = [pc EXCEPT ![b] = IF b = "submit" THEN "put" ELSE "fetch"]
  /\ overlapped' = (pc[Other(b)] # "idle")
  /\ UNCHANGED <<coreVars, accepted, answer, list, state, updates, changeVars, screenVars>>

(* A new value of the dropdown.                                              *)
Changed(value) ==
  /\ selected' = value
  /\ IF value = selected THEN UNCHANGED changeVars
     ELSE IF change = "none" THEN change' = "sent" /\ asked' = value /\ UNCHANGED again
     ELSE again' = TRUE /\ UNCHANGED <<change, asked>>

Select(item) ==
  /\ Acts
  /\ item # selected
  /\ Changed(item)
  /\ UNCHANGED <<coreVars, accepted, handlerVars, state, updates, choices, shown,
                 message, detector, overlapped>>

(* initialize_detectors, refresh_detectors: the first detector, None if      *)
(* there is none, and what was selected if they cannot be fetched.           *)
FetchDetectors ==
  /\ detector' \in BOOLEAN
  /\ UNCHANGED <<coreVars, accepted, handlerVars, state, updates, changeVars, choices,
                 selected, shown, message, overlapped, clicks>>

-----------------------------------------------------------------------------
(* submit_detection.                                                         *)

(* The PUT request reaches the core.                                         *)
SendPut(r) ==
  /\ pc["submit"] = "put" /\ detector
  /\ r \notin accepted
  /\ accepted' = accepted \cup {r}
  /\ pc' = [pc EXCEPT !["submit"] = "sent"]
  /\ answer' = r
  /\ UNCHANGED <<coreVars, list, state, updates, changeVars, screenVars, overlapped, clicks>>

(* Mutant: the answer is not waited for.                                     *)
PutUnanswered ==
  /\ pc["submit"] = "sent"
  /\ pc' = [pc EXCEPT !["submit"] = "fetch"]
  /\ UNCHANGED <<coreVars, accepted, answer, list, state, updates, changeVars, screenVars,
                 overlapped, clicks>>

(* 200, which the core answers when the request has its row, or when the     *)
(* write of it has failed and was logged (engine.go:55-56, storage.go:51).   *)
PutAnswered ==
  /\ pc["submit"] = "sent"
  /\ unstored' = IF status[answer] = "UNKNOWN" THEN unstored \cup {answer} ELSE unstored
  /\ pc' = [pc EXCEPT !["submit"] = "fetch"]
  /\ UNCHANGED <<lifecycleVars, accepted, answer, list, state, updates, changeVars, screenVars,
                 overlapped, clicks>>

(* No text, no detector, another answer than 200, no answer: gr.Error.  The  *)
(* request may have reached the core all the same.                           *)
PutFails ==
  /\ pc["submit"] \in {"put", "sent"}
  /\ pc' = [pc EXCEPT !["submit"] = "return"]
  /\ answer' = "error"
  /\ list' = [list EXCEPT !["submit"] = Empty]
  /\ UNCHANGED <<coreVars, accepted, state, updates, changeVars, screenVars, overlapped, clicks>>

(* get_detection_requests: a page, in no order; nothing, if it fails.        *)
Rows == {[id |-> r, status |-> status[r]] : r \in {q \in Requests : status[q] # "UNKNOWN"}}

Pages == {rows \in SUBSET Rows :
            Cardinality(rows) = IF Cardinality(Rows) < MassLimit
                                THEN Cardinality(Rows) ELSE MassLimit}

get_detection_requests(b) ==
  /\ pc[b] = "fetch"
  /\ \/ \E rows \in Pages : \E first \in IF rows = {} THEN {None} ELSE rows :
          /\ list' = [list EXCEPT ![b] = [items |-> rows, first |-> first]]
          /\ Tell({row.id : row \in rows}) /\ UNCHANGED unstored
     \/ /\ list' = [list EXCEPT ![b] = Empty]
        /\ UNCHANGED coreVars
  /\ pc' = [pc EXCEPT ![b] = "return"]
  /\ UNCHANGED <<accepted, answer, state, updates, changeVars, screenVars, overlapped, clicks>>

(* The function returns.                                                     *)
Return(b) ==
  /\ pc[b] = "return"
  /\ pc' = [pc EXCEPT ![b] = "returned"]
  /\ state' = list[b].items
  /\ updates' = Append(updates, [from |-> b, items |-> list[b].items, first |-> list[b].first,
                                 message |-> IF b = "submit" THEN answer ELSE None])
  /\ UNCHANGED <<coreVars, accepted, answer, list, changeVars, screenVars, overlapped, clicks>>

(* process_fetch_response: what is found in the list for a value.            *)
process_fetch_response(value) ==
  IF \E item \in state : item.id = value.id
  THEN CHOOSE item \in state : item.id = value.id
  ELSE Note("not found")

on_detection_request_selected ==
  /\ change = "sent"
  /\ change' = "done"
  /\ updates' = Append(updates,
       [from |-> "change",
        shows |-> IF asked = None THEN Note("select one") ELSE process_fetch_response(asked)])
  /\ UNCHANGED <<coreVars, accepted, handlerVars, state, asked, again, screenVars,
                 overlapped, clicks>>

-----------------------------------------------------------------------------
(* The browser applies an update.                                            *)

(* Mutant: the dropdown keeps its value.                                     *)
KeepValue(u) == choices' = u.items /\ Changed(selected)

(* Mutant: a dropdown whose value is the same is not updated.                *)
SetNewValue(u) ==
  /\ choices' = IF u.first = selected THEN choices ELSE u.items
  /\ Changed(u.first)

(* gr.Dropdown(choices=..., value=...)                                       *)
SetDropdown(u) == choices' = u.items /\ Changed(u.first)

ApplyList(u) ==
  /\ u.from \in Buttons
  /\ SetDropdown(u)
  /\ pc' = [pc EXCEPT ![u.from] = "idle"]
  /\ IF u.from = "submit" THEN message' = u.message /\ answer' = None
                          ELSE UNCHANGED <<message, answer>>
  /\ list' = [list EXCEPT ![u.from] = Empty]
  /\ UNCHANGED shown

(* Mutant: a change that came while an event was under way is forgotten.     *)
ApplyShownOnce(u) ==
  /\ u.from = "change"
  /\ shown' = u.shows
  /\ change' = "none" /\ asked' = None /\ again' = FALSE
  /\ UNCHANGED <<choices, selected, message, handlerVars>>

ApplyShown(u) ==
  /\ u.from = "change"
  /\ shown' = u.shows
  /\ again' = FALSE
  /\ IF again THEN change' = "sent" /\ asked' = selected
              ELSE change' = "none" /\ asked' = None
  /\ UNCHANGED <<choices, selected, message, handlerVars>>

Apply ==
  /\ updates # << >>
  /\ updates' = Tail(updates)
  /\ ApplyList(Head(updates)) \/ ApplyShown(Head(updates))
  /\ UNCHANGED <<coreVars, accepted, state, detector, overlapped, clicks>>

-----------------------------------------------------------------------------
Next ==
  \/ Core
  \/ \E b \in Buttons : Click(b) \/ get_detection_requests(b) \/ Return(b)
  \/ \E item \in choices : Select(item)
  \/ FetchDetectors
  \/ \E r \in Requests : SendPut(r)
  \/ PutAnswered
  \/ PutFails
  \/ on_detection_request_selected
  \/ Apply

Spec == Init /\ [][Next]_vars

-----------------------------------------------------------------------------
Settled == change = "none" /\ updates = << >> /\ \A b \in Buttons : pc[b] = "idle"

(* When nothing is under way, the dropdown lists what the session's state    *)
(* holds, and the status on the screen is what it holds of the request that  *)
(* is selected, however clicks, choices and their updates overlapped         *)
(* (app.py:413-437, 611-635).                                                *)
SettledScreenAgrees ==
  Settled =>
    /\ choices = state
    /\ selected = None => shown \in {Blank, Note("select one")}
    /\ selected # None => shown = selected

(* A submission answered 200 that fetched a list finds its own request in    *)
(* it, unless the write of its row failed (storage.go:51-53) or the list is  *)
(* as long as a page gets (storage.go:101): the core answers the PUT after   *)
(* the write, and the list is fetched after the answer.  Which request is    *)
(* selected is another matter (app.py:459).                                  *)
SubmittedIsListed ==
  \A i \in DOMAIN updates :
    updates[i].from = "submit" /\ updates[i].message \in Requests
      /\ updates[i].items # {}
    => \/ \E item \in updates[i].items : item.id = updates[i].message
       \/ updates[i].message \in unstored
       \/ Cardinality(updates[i].items) = MassLimit

(* Without overlapping clicks the screen shows no status older than the last *)
(* the core told this browser.  With them it may: the list fetched first may *)
(* be returned last, and a result goes back to PENDING (app.py:611, 623).    *)
ScreenIsLatest ==
  Settled /\ ~overlapped =>
    \A item \in choices : told[item.id] = item.status
=============================================================================
