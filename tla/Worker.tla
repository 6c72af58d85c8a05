------------------------------- MODULE Worker -------------------------------
(***************************************************************************)
(* One Worker of a page, in src/src/js.c: a thread with its own             *)
(* main context, which loads a script, runs it, and serves messages until   *)
(* it is told to quit.                                                      *)
(*                                                                         *)
(* Either side reaches the other by a source on the other's context; host   *)
(* carries the flags both look at.  The thread owns its context from its    *)
(* first step to its last, so only self.close() quits the loop on the spot. *)
(***************************************************************************)
EXTENDS Integers, Sequences

CONSTANT MaxPosts   \* bound: messages each side posts, and calls of terminate

VARIABLES
    page,       \* the page: "open", in ns_js_free ("closing"), or "freed"
    pumping,    \* js->in_pump
    main,       \* what the main thread is in: its loop ("idle") or a call
    pc,         \* where ns_worker_thread is
    closing,    \* host->closing
    ownerAlive, \* host->owner_alive
    inbox,      \* sources on host->context: messages and quits
    outbox,     \* deliveries to the owner on the default context
    looping,    \* host->loop: "none", "made", "running", "quit"
    posted,     \* messages the page has posted
    answered,   \* messages the worker has posted
    stops,      \* calls of terminate
    gone,       \* ns_js_free is done with this worker
    touched     \* history: "freed" page called, "nested" under a script

shared == <<page, pumping, main>>
script == <<posted, stops, gone>>
vars == <<pc, closing, ownerAlive, inbox, outbox, looping, answered, script,
          touched>>

TypeOK ==
    /\ pc \in {"none", "loading", "running", "ran", "ready", "looping",
               "leaving", "draining", "ended"}
    /\ closing \in BOOLEAN
    /\ ownerAlive \in BOOLEAN
    /\ inbox \in Seq({"message", "quit"})
    /\ outbox \in Seq({"message", "error"})
    /\ looping \in {"none", "made", "running", "quit"}
    /\ posted \in 0 .. MaxPosts
    /\ answered \in 0 .. MaxPosts
    /\ stops \in 0 .. MaxPosts
    /\ gone \in BOOLEAN
    /\ touched \subseteq {"freed", "nested"}

Init ==
    /\ pc = "none"
    /\ closing = FALSE
    /\ ownerAlive = TRUE
    /\ inbox = << >>
    /\ outbox = << >>
    /\ looping = "none"
    /\ posted = 0
    /\ answered = 0
    /\ stops = 0
    /\ gone = FALSE
    /\ touched = {}

Script == page = "open" /\ ~pumping /\ main = "idle"

-----------------------------------------------------------------------------
(* The worker's thread.                                                    *)

(* The script cannot be fetched, or there is no runtime to run it in.      *)
LoadFails ==
    /\ pc = "loading"
    /\ pc' = "draining"
    /\ outbox' = Append(outbox, "error")
    /\ closing' = TRUE
    /\ UNCHANGED <<ownerAlive, inbox, looping, answered, script, touched,
                   shared>>

Loads ==
    /\ pc = "loading"
    /\ pc' = "running"
    /\ UNCHANGED <<closing, ownerAlive, inbox, outbox, looping, answered,
                   script, touched, shared>>

(* ns_worker_eval_script returns.  The interrupt handler ends a script of a *)
(* worker that is to close, without an error for the owner.                 *)
ScriptEnds ==
    /\ pc = "running"
    /\ pc' = "ran"
    /\ UNCHANGED <<closing, ownerAlive, inbox, outbox, looping, answered,
                   script, touched, shared>>

ScriptFails ==
    /\ pc = "running"
    /\ pc' = "leaving"
    /\ closing' = TRUE
    /\ outbox' = IF closing THEN outbox ELSE Append(outbox, "error")
    /\ UNCHANGED <<ownerAlive, inbox, looping, answered, script, touched,
                   shared>>

MakeLoop ==
    /\ pc = "ran"
    /\ IF closing
       THEN pc' = "leaving" /\ UNCHANGED looping
       ELSE pc' = "ready" /\ looping' = "made"
    /\ UNCHANGED <<closing, ownerAlive, inbox, outbox, answered, script,
                   touched, shared>>

(* closing is looked at once more, for a stop that found no loop to quit.   *)
RunLoop ==
    /\ pc = "ready"
    /\ IF closing
       THEN pc' = "leaving" /\ looping' = "none"
       ELSE pc' = "looping" /\ looping' = "running"
    /\ UNCHANGED <<closing, ownerAlive, inbox, outbox, answered, script,
                   touched, shared>>

(* ns_worker_deliver_worker or ns_worker_quit_cb, whichever is first.      *)
Serve ==
    /\ pc = "looping"
    /\ looping = "running"
    /\ inbox # << >>
    /\ inbox' = Tail(inbox)
    /\ looping' = IF Head(inbox) = "quit" THEN "quit" ELSE looping
    /\ UNCHANGED <<pc, closing, ownerAlive, outbox, answered, script, touched,
                   shared>>

LeaveLoop ==
    /\ pc = "looping"
    /\ looping = "quit"
    /\ pc' = "leaving"
    /\ looping' = "none"
    /\ UNCHANGED <<closing, ownerAlive, inbox, outbox, answered, script,
                   touched, shared>>

(* worker_js is cleared and freed, closing is set.                         *)
FreeRuntime ==
    /\ pc = "leaving"
    /\ pc' = "draining"
    /\ closing' = TRUE
    /\ UNCHANGED <<ownerAlive, inbox, outbox, looping, answered, script,
                   touched, shared>>

(* ns_worker_context_drain: what is left is freed, unseen.                 *)
DrainContext ==
    /\ pc = "draining"
    /\ inbox' = << >>
    /\ pc' = "ended"
    /\ UNCHANGED <<closing, ownerAlive, outbox, looping, answered, script,
                   touched, shared>>

(* The worker's script: self.postMessage, and self.close.                  *)
WorkerPosts ==
    /\ pc \in {"running", "looping"}
    /\ ~closing
    /\ answered < MaxPosts
    /\ answered' = answered + 1
    /\ outbox' = Append(outbox, "message")
    /\ UNCHANGED <<pc, closing, ownerAlive, inbox, looping, script, touched,
                   shared>>

WorkerCloses ==
    /\ pc \in {"running", "looping"}
    /\ closing' = TRUE
    /\ looping' = IF looping = "running" THEN "quit" ELSE looping
    /\ UNCHANGED <<pc, ownerAlive, inbox, outbox, answered, script, touched,
                   shared>>

ThreadStep ==
    \/ LoadFails \/ Loads \/ ScriptEnds \/ ScriptFails \/ MakeLoop \/ RunLoop
    \/ Serve \/ LeaveLoop \/ FreeRuntime \/ DrainContext
    \/ WorkerPosts \/ WorkerCloses

-----------------------------------------------------------------------------
(* The main thread.                                                        *)

(* ns_worker_deliver_owner: it looks at owner_alive, not at in_pump.       *)
DeliverOwner ==
    /\ main = "idle" /\ page # "closing"
    /\ outbox # << >>
    /\ outbox' = Tail(outbox)
    /\ touched' = IF ~ownerAlive THEN touched
                  ELSE touched
                         \cup (IF page = "freed" THEN {"freed"} ELSE {})
                         \cup (IF pumping THEN {"nested"} ELSE {})
    /\ UNCHANGED <<pc, closing, ownerAlive, inbox, looping, answered, script,
                   shared>>

(* ns_worker_ctor.                                                         *)
Construct ==
    /\ Script
    /\ pc = "none"
    /\ pc' = "loading"
    /\ UNCHANGED <<closing, ownerAlive, inbox, outbox, looping, answered,
                   script, touched, shared>>

(* ns_worker_post_message: closing is read, the message is copied, and only *)
(* then is its source attached.                                            *)
PostMessage ==
    /\ Script
    /\ pc # "none" /\ ~closing
    /\ posted < MaxPosts
    /\ posted' = posted + 1
    /\ main' = "wk post"
    /\ UNCHANGED <<pc, closing, ownerAlive, inbox, outbox, looping, answered,
                   stops, gone, touched, page, pumping>>

AttachMessage ==
    /\ main = "wk post"
    /\ inbox' = Append(inbox, "message")
    /\ main' = "idle"
    /\ UNCHANGED <<pc, closing, ownerAlive, outbox, looping, answered, script,
                   touched, page, pumping>>

(* Mutant: only the flag is set, nothing wakes the worker's loop.          *)
AttachNothing == UNCHANGED inbox

(* ns_worker_host_request_quit from the page's side.                       *)
AttachQuit ==
    /\ inbox' = Append(inbox, "quit")

(* ns_worker_terminate: ns_worker_host_stop without a join, in its two      *)
(* steps.                                                                   *)
Terminate ==
    /\ Script
    /\ pc # "none"
    /\ stops < MaxPosts
    /\ stops' = stops + 1
    /\ closing' = TRUE
    /\ main' = "wk quit"
    /\ UNCHANGED <<pc, ownerAlive, inbox, outbox, looping, answered, posted,
                   gone, touched, page, pumping>>

SendQuit ==
    /\ main = "wk quit"
    /\ AttachQuit
    /\ main' = "idle"
    /\ UNCHANGED <<pc, closing, ownerAlive, outbox, looping, answered, script,
                   touched, page, pumping>>

(* Mutant: the worker is told to stop as terminate does, without a join.    *)
TeardownNoJoin ==
    /\ page = "closing"
    /\ main = "idle"
    /\ pc # "none" /\ ~gone
    /\ ownerAlive' = FALSE
    /\ closing' = TRUE
    /\ gone' = TRUE
    /\ AttachQuit
    /\ UNCHANGED <<pc, outbox, looping, answered, posted, stops, touched,
                   shared>>

(* ns_js_free, its loop over js->workers: the owner's pointers are taken    *)
(* out of the host before the join.                                        *)
Teardown ==
    /\ page = "closing"
    /\ main = "idle"
    /\ pc # "none" /\ ~gone
    /\ ownerAlive' = FALSE
    /\ closing' = TRUE
    /\ AttachQuit
    /\ main' = "wk join"
    /\ UNCHANGED <<pc, outbox, looping, answered, script, touched, page,
                   pumping>>

Joined ==
    /\ main = "wk join"
    /\ pc = "ended"
    /\ main' = "idle"
    /\ gone' = TRUE
    /\ UNCHANGED <<pc, closing, ownerAlive, inbox, outbox, looping, answered,
                   posted, stops, touched, page, pumping>>

MainStep ==
    \/ DeliverOwner \/ Construct \/ PostMessage \/ AttachMessage
    \/ Terminate \/ SendQuit \/ Joined

(* A fetch ends by its timeouts, a script by its budget or the interrupt    *)
(* handler, and both main loops run.                                       *)
Fairness ==
    /\ WF_vars(LoadFails \/ Loads)
    /\ WF_vars(ScriptEnds \/ ScriptFails)
    /\ WF_vars(MakeLoop \/ RunLoop)
    /\ WF_vars(Serve \/ LeaveLoop)
    /\ WF_vars(FreeRuntime \/ DrainContext)
    /\ WF_<<vars, main>>(AttachMessage \/ SendQuit \/ Joined)
    /\ WF_vars(DeliverOwner)
=============================================================================
