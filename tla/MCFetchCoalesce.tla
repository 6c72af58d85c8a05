--------------------------- MODULE MCFetchCoalesce ---------------------------
(* An instance of FetchCoalesce.  On one key a preload, a loader and a      *)
(* blocked caller meet; the preload of a second key competes for the byte   *)
(* budget.                                                                 *)
EXTENDS FetchCoalesce

CONSTANTS ka, kb, pa, pb, la, sa

MCKeyOf == [r \in Reqs |-> IF r = pb THEN kb ELSE ka]
=============================================================================
