---------------------------- MODULE MCHttpCache ----------------------------
(* Two requests with a key each, or two variants of one URL: key 1 without  *)
(* a selector, key 2 with one.                                             *)
EXTENDS HttpCache, TLC

OneEach == {{1}, {2}}
Variants == {{1}, {1, 2}}

(* Nothing tells two renderer processes apart.                             *)
Symmetry == Permutations(Processes)
=============================================================================
