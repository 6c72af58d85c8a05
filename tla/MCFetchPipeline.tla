--------------------------- MODULE MCFetchPipeline ---------------------------
(* An instance of FetchPipeline on one place of the throttle: a preload, a  *)
(* loader of the same key and a request without a key compete for it while  *)
(* a blocking call of that key leads or joins.                             *)
EXTENDS FetchPipeline

CONSTANTS ka, pa, la, na, sa, hostA

MCKeyOf == [r \in AsyncReqs \cup SyncReqs |-> ka]

MCHostOf == [t \in AsyncReqs \cup Keyless |-> IF t = na THEN NoHost ELSE hostA]
=============================================================================
