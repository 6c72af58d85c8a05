---------------------------- MODULE EventSource -----------------------------
(***************************************************************************)
(* One EventSource of a page: the thread of src/src/eventsource.c, which    *)
(* connects, reads the stream, and connects again with the last event id    *)
(* it read; the events it posts to the main loop; and the script object of  *)
(* src/src/js.c.                                                           *)
(*                                                                         *)
(* The server numbers its events and resumes behind the id it is given.    *)
(* Every dispatch is droppable here, also an error; one that finds the page *)
(* in a pump is put off by a timer of its own.                              *)
(***************************************************************************)
EXTENDS Integers, Sequences, SequencesExt

CONSTANTS
    MaxPending,  \* NS_ES_MAX_PENDING
    MaxEvents    \* bound: the events the server has

VARIABLES
    page,       \* the page: "open", in ns_js_free ("closing"), or "freed"
    pumping,    \* js->in_pump
    main,       \* what the main thread is in: its loop ("idle") or a call
    pc,         \* where ns_es_worker is
    lastId,     \* es->last_event_id
    next,       \* the next event of this connection
    exiting,    \* es->exit_requested
    detached,   \* es->detached
    idles,      \* dispatches in the main loop, by g_idle_add
    held,       \* dispatches put off by a timer, in any order
    ready,      \* readyState of the script object
    pinned,     \* the wrapper is pinned
    gone,       \* the script side of the stream is freed
    handed      \* history: how often each event was given to the page

shared == <<page, pumping, main>>
thread == <<pc, lastId, next>>
events == <<idles, held>>
script == <<ready, pinned, gone, handed>>
vars == <<thread, exiting, detached, events, script>>

Ids == 1 .. MaxEvents

(* A dispatch: an open, an error that is fatal or not, or an event's id.   *)
Dispatches == {"open", "error", "fatal"} \X {0} \cup {"event"} \X Ids

TypeOK ==
    /\ pc \in {"none", "connecting", "streaming", "event", "lost", "refused",
               "waiting", "ended"}
    /\ lastId \in 0 .. MaxEvents
    /\ next \in 1 .. MaxEvents + 1
    /\ exiting \in BOOLEAN
    /\ detached \in BOOLEAN
    /\ idles \in Seq(Dispatches)
    /\ held \in Seq(Dispatches)
    /\ ready \in 0 .. 2
    /\ pinned \in BOOLEAN
    /\ gone \in BOOLEAN
    /\ handed \in [Ids -> Nat]

Init ==
    /\ pc = "none"
    /\ lastId = 0
    /\ next = 1
    /\ exiting = FALSE
    /\ detached = FALSE
    /\ idles = << >>
    /\ held = << >>
    /\ ready = 0
    /\ pinned = FALSE
    /\ gone = FALSE
    /\ handed = [id \in Ids |-> 0]

Script == page = "open" /\ ~pumping /\ main = "idle"

-----------------------------------------------------------------------------
(* The thread.                                                             *)

(* ns_es_post: nothing for a detached stream, nothing when MaxPending       *)
(* dispatches wait already.                                                *)
Post(kind, id) ==
    /\ idles' = IF detached \/ Len(idles) + Len(held) >= MaxPending
                THEN idles
                ELSE Append(idles, <<kind, id>>)
    /\ UNCHANGED held

(* ns_es_header_cb: 200 and text/event-stream.  Headers and chunks that have *)
(* come are read to their end, also when exit_requested is set meanwhile.   *)
Opens ==
    /\ pc = "connecting"
    /\ pc' = "streaming"
    /\ Post("open", 0)
    /\ UNCHANGED <<lastId, next, exiting, detached, script, shared>>

(* ns_es_process_line: the id counts as soon as its line is read, ...      *)
ReadId ==
    /\ pc = "streaming"
    /\ next \in Ids
    /\ lastId' = next
    /\ pc' = "event"
    /\ UNCHANGED <<next, exiting, detached, events, script, shared>>

(* ... the event goes out at the blank line behind it.                     *)
EndEvent ==
    /\ pc = "event"
    /\ Post("event", next)
    /\ next' = next + 1
    /\ pc' = "streaming"
    /\ UNCHANGED <<lastId, exiting, detached, script, shared>>

(* curl_easy_perform returns: the server is not there, the stream ends or   *)
(* breaks, or a callback aborts it because exit_requested is set.           *)
Loses ==
    /\ pc \in {"connecting", "streaming", "event"}
    /\ pc' = "lost"
    /\ UNCHANGED <<lastId, next, exiting, detached, events, script, shared>>

(* A status or a content type that rules a retry out, or a line too long.   *)
Refuses ==
    /\ pc \in {"connecting", "streaming", "event"}
    /\ pc' = "refused"
    /\ UNCHANGED <<lastId, next, exiting, detached, events, script, shared>>

(* ns_es_worker, behind ns_es_connect_once.                                *)
AfterConnect ==
    /\ pc \in {"lost", "refused"}
    /\ IF exiting
       THEN pc' = "ended" /\ UNCHANGED events
       ELSE IF pc = "refused"
       THEN pc' = "ended" /\ Post("fatal", 0)
       ELSE pc' = "waiting" /\ Post("error", 0)
    /\ UNCHANGED <<lastId, next, exiting, detached, script, shared>>

(* Mutant: the connection starts over instead of resuming.                 *)
ReconnectAfresh ==
    /\ pc = "waiting"
    /\ IF exiting
       THEN pc' = "ended" /\ UNCHANGED next
       ELSE pc' = "connecting" /\ next' = 1
    /\ UNCHANGED <<lastId, exiting, detached, events, script, shared>>

(* The wait for reconnect_ms, then Last-Event-ID goes out.                 *)
Reconnect ==
    /\ pc = "waiting"
    /\ IF exiting
       THEN pc' = "ended" /\ UNCHANGED next
       ELSE pc' = "connecting" /\ next' = lastId + 1
    /\ UNCHANGED <<lastId, exiting, detached, events, script, shared>>

ThreadStep ==
    \/ Opens \/ ReadId \/ EndEvent \/ Loses \/ Refuses
    \/ AfterConnect \/ Reconnect

-----------------------------------------------------------------------------
(* The main loop: ns_es_dispatch_run and the callbacks of js.c.            *)

Invoke(kind, id) ==
    /\ ready' = CASE kind = "open"  -> 1
                  [] kind = "error" -> 0
                  [] kind = "fatal" -> 2
                  [] kind = "event" -> ready
    /\ pinned' = (pinned /\ kind # "fatal")
    /\ handed' = IF kind = "event"
                 THEN [handed EXCEPT ![id] = @ + 1]
                 ELSE handed
    /\ UNCHANGED gone

Run(dispatch, waiting) ==
    IF ~detached /\ pumping
    THEN held' = Append(waiting, dispatch) /\ UNCHANGED script
    ELSE /\ held' = waiting
         /\ IF detached THEN UNCHANGED script
            ELSE Invoke(dispatch[1], dispatch[2])

LoopIterates == main = "idle" /\ page # "closing"

RunIdle ==
    /\ LoopIterates
    /\ idles # << >>
    /\ idles' = Tail(idles)
    /\ Run(Head(idles), held)
    /\ UNCHANGED <<thread, exiting, detached, shared>>

RunTimer ==
    /\ LoopIterates
    /\ \E i \in 1 .. Len(held) : Run(held[i], RemoveAt(held, i))
    /\ UNCHANGED <<thread, exiting, detached, idles, shared>>

-----------------------------------------------------------------------------
(* The page's script.                                                      *)

(* ns_window_eventsource_ctor and ns_es_new.                               *)
Construct ==
    /\ Script
    /\ pc = "none"
    /\ pc' = "connecting"
    /\ pinned' = TRUE
    /\ UNCHANGED <<lastId, next, exiting, detached, events, ready, gone,
                   handed, shared>>

(* Mutant: close() only tells the page.                                    *)
CloseSilently ==
    /\ Script
    /\ pc # "none" /\ ~gone
    /\ ready' = 2
    /\ pinned' = FALSE
    /\ UNCHANGED <<thread, exiting, detached, events, gone, handed, shared>>

(* ns_js_es_close_method and ns_es_close: dispatches under way still run.   *)
Close ==
    /\ Script
    /\ pc # "none" /\ ~gone
    /\ ready' = 2
    /\ exiting' = TRUE
    /\ pinned' = FALSE
    /\ UNCHANGED <<thread, detached, events, gone, handed, shared>>

(* ns_es_free up to the join.                                              *)
Free ==
    /\ detached' = TRUE
    /\ exiting' = TRUE
    /\ main' = "es join"
    /\ UNCHANGED <<thread, events, script, page, pumping>>

(* ns_es_class_finalizer.                                                  *)
Collect ==
    /\ Script
    /\ pc # "none" /\ ~pinned /\ ~gone
    /\ Free

(* JS_FreeRuntime collects a wrapper that is not pinned; one that is, stays.*)
Teardown ==
    /\ page = "closing"
    /\ main = "idle"
    /\ pc # "none" /\ ~pinned /\ ~gone
    /\ Free

Joined ==
    /\ main = "es join"
    /\ pc = "ended"
    /\ main' = "idle"
    /\ gone' = TRUE
    /\ UNCHANGED <<thread, exiting, detached, events, ready, pinned, handed,
                   page, pumping>>

MainStep == RunIdle \/ RunTimer \/ Construct \/ Close \/ Collect \/ Joined

(* A transfer that is to be aborted ends, waits end, the main loop runs.   *)
Fairness ==
    /\ WF_vars(exiting /\ Loses)
    /\ WF_vars(AfterConnect)
    /\ WF_vars(Reconnect)
    /\ WF_<<vars, main>>(Joined)
    /\ WF_vars(RunIdle)
    /\ WF_vars(RunTimer)
=============================================================================
