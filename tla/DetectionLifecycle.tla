-------------------------- MODULE DetectionLifecycle --------------------------
(***************************************************************************)
(* What the core promises about detection requests, without its parts:     *)
(* one status per request, which only moves forward, and answers that each *)
(* say what the status is at the moment the engine hands them over.        *)
(*                                                                         *)
(* The result may come before the request is marked PENDING; it then is no *)
(* longer.                                                                 *)
(***************************************************************************)
CONSTANT Requests

VARIABLES
  status,   (* UNKNOWN until the request is recorded      *)
  told      (* the status in the last answer about it     *)

lifecycleVars == <<status, told>>

LifecycleInit == /\ status = [r \in Requests |-> "UNKNOWN"]
                 /\ told = [r \in Requests |-> "UNKNOWN"]

Record(r) == /\ status[r] = "UNKNOWN"
             /\ status' = [status EXCEPT ![r] = "PENDING"]
             /\ UNCHANGED told

Finish(r) == /\ status[r] \in {"UNKNOWN", "PENDING"}
             /\ status' = [status EXCEPT ![r] = "SUCCESS"]
             /\ UNCHANGED told

(* One answer may be about several requests (a page) or about none.          *)
Tell(asked) == /\ told' = [r \in Requests |-> IF r \in asked THEN status[r]
                                                           ELSE told[r]]
               /\ UNCHANGED status

LifecycleNext == \/ \E r \in Requests : Record(r) \/ Finish(r)
                 \/ \E asked \in SUBSET Requests : Tell(asked)

LifecycleSpec == LifecycleInit /\ [][LifecycleNext]_lifecycleVars
=============================================================================
