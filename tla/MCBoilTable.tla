----------------------------- MODULE MCBoilTable -----------------------------
(* Instances of BoilTable for TLC: table detection_status.                   *)
EXTENDS BoilTable, TLC

MCColumns == {"request_id", "status", "data"}

Status(k, s, d) == [request_id |-> k, status |-> s, data |-> d]

Objects == {Status(k, "PENDING", Null) : k \in Keys}
           \cup {Status(k, "SUCCESS", "verdict") : k \in Keys}

Only(kind, cols) == [kind |-> kind, cols |-> cols]

OfferedCalls ==
  {StorageCall,
   InsertCall(Only("blacklist", {"data"})),
   UpdateCall(Only("whitelist", {"status"})),
   UpdateCall(Only("blacklist", {"status", "data"})),
   UpsertCall(FALSE, {}, Infer, Infer),
   UpsertCall(TRUE, {}, Only("whitelist", {"data"}), Only("greylist", {"data"}))}

Symmetry == Permutations(Callers) \cup Permutations(Keys)
=============================================================================
