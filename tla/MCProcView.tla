----------------------------- MODULE MCProcView -----------------------------
(* A restart limit of two (of one where the limit itself is the question),  *)
(* one redirect and a few inputs; renderers die at any time.                *)
EXTENDS ProcView
=============================================================================
