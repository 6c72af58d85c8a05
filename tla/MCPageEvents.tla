---------------------------- MODULE MCPageEvents ----------------------------
(* Pairs of clients; queues that hold one droppable event.                 *)
EXTENDS PageEvents
=============================================================================
