----------------------------- MODULE WebSocket ------------------------------
(***************************************************************************)
(* One WebSocket of a page: the network thread of src/src/ws.c, the events  *)
(* it posts to the main loop, and the script object of src/src/js.c.        *)
(*                                                                         *)
(* The thread and the page share only the atomics state, exit_requested and *)
(* detached and the locked out queue; everything the page is to see travels *)
(* as a dispatch.  A dispatch that finds the page in a pump (a script is on  *)
(* the stack and the main loop runs nested in it) is put off by a timer of   *)
(* its own, so those behind it may overtake it.                             *)
(***************************************************************************)
EXTENDS Integers, Sequences, SequencesExt

CONSTANTS
    MaxPending,  \* NS_WS_MAX_PENDING
    MaxMessages  \* bound: messages the server sends, and the page

VARIABLES
    page,       \* the page: "open", in ns_js_free ("closing"), or "freed"
    pumping,    \* js->in_pump
    main,       \* what the main thread is in: its loop ("idle") or a call
    pc,         \* where ns_ws_worker_curl is
    state,      \* ws->state
    exiting,    \* ws->exit_requested
    detached,   \* ws->detached
    out,        \* ws->out_queue
    idles,      \* dispatches in the main loop, by g_idle_add
    held,       \* dispatches put off by a timer, in any order
    ready,      \* readyState of the script object
    pinned,     \* wrapper_pinned
    gone,       \* the script side of the socket is freed
    received,   \* messages the server has sent
    sent,       \* messages the page has sent
    called      \* history: the kinds of event the page was called with,
                \* "late" for one behind the close, "freed" for a page gone

shared == <<page, pumping, main>>
thread == <<pc, state, received>>
events == <<idles, held>>
script == <<ready, pinned, gone, sent, called>>
vars == <<thread, exiting, detached, out, events, script>>

Kinds == {"open", "message", "error", "close"}

TypeOK ==
    /\ pc \in {"none", "connecting", "opening", "loop", "drain", "recv",
               "closing", "ending", "ended"}
    /\ state \in {"CONNECTING", "OPEN", "CLOSING", "CLOSED"}
    /\ exiting \in BOOLEAN
    /\ detached \in BOOLEAN
    /\ out \in Seq({"data", "close"})
    /\ idles \in Seq(Kinds)
    /\ held \in Seq(Kinds)
    /\ ready \in 0 .. 3
    /\ pinned \in BOOLEAN
    /\ gone \in BOOLEAN
    /\ received \in 0 .. MaxMessages
    /\ sent \in 0 .. MaxMessages
    /\ called \subseteq Kinds \cup {"freed", "late"}

Init ==
    /\ pc = "none"
    /\ state = "CONNECTING"
    /\ exiting = FALSE
    /\ detached = FALSE
    /\ out = << >>
    /\ idles = << >>
    /\ held = << >>
    /\ ready = 0
    /\ pinned = FALSE
    /\ gone = FALSE
    /\ received = 0
    /\ sent = 0
    /\ called = {}

(* The page's script runs: not while its call is in a pump.                *)
Script == page = "open" /\ ~pumping /\ main = "idle"

-----------------------------------------------------------------------------
(* The network thread.                                                     *)

(* ns_ws_post: nothing for a detached socket; a message is dropped when     *)
(* MaxPending events wait already.                                          *)
Post(kind) ==
    /\ idles' = IF \/ detached
                   \/ kind = "message" /\ Len(idles) + Len(held) >= MaxPending
                THEN idles
                ELSE Append(idles, kind)
    /\ UNCHANGED held

(* The handshake fails, is refused, or is aborted by the progress callback. *)
ConnectFails ==
    /\ pc = "connecting"
    /\ pc' = "closing"
    /\ Post("error")
    /\ UNCHANGED <<state, received, exiting, detached, out, script, shared>>

(* Mutant: the handshake is not aborted (no progress callback).            *)
AbortHandshakeNever ==
    /\ exiting
    /\ pc \in {}
    /\ ConnectFails

AbortHandshake == exiting /\ ConnectFails

(* It succeeds, but the page has gone meanwhile.                           *)
ConnectedTooLate ==
    /\ pc = "connecting"
    /\ exiting
    /\ pc' = "closing"
    /\ UNCHANGED <<state, received, exiting, detached, out, events, script,
                   shared>>

(* ns_ws_dispatch_open, in two steps: the state, then the event.  The state *)
(* is set to OPEN also when the page has called close() meanwhile.          *)
Connected ==
    /\ pc = "connecting"
    /\ ~exiting
    /\ pc' = "opening"
    /\ state' = "OPEN"
    /\ UNCHANGED <<received, exiting, detached, out, events, script, shared>>

PostOpen ==
    /\ pc = "opening"
    /\ pc' = "loop"
    /\ Post("open")
    /\ UNCHANGED <<state, received, exiting, detached, out, script, shared>>

LoopTop ==
    /\ pc = "loop"
    /\ pc' = IF exiting THEN "closing" ELSE "drain"
    /\ UNCHANGED <<state, received, exiting, detached, out, events, script,
                   shared>>

(* ns_ws_drain_outgoing, one message; a close frame ends the connection.   *)
Drain ==
    /\ pc = "drain"
    /\ IF out = << >>
       THEN pc' = "recv" /\ UNCHANGED <<state, out>>
       ELSE /\ out' = Tail(out)
            /\ IF Head(out) = "close"
               THEN pc' = "closing" /\ state' = "CLOSING"
               ELSE UNCHANGED <<pc, state>>
    /\ UNCHANGED <<received, exiting, detached, events, script, shared>>

(* curl_ws_recv has nothing for the page: CURLE_AGAIN, a ping, a fragment.  *)
RecvNothing ==
    /\ pc = "recv"
    /\ pc' = "loop"
    /\ UNCHANGED <<state, received, exiting, detached, out, events, script,
                   shared>>

RecvMessage ==
    /\ pc = "recv"
    /\ received < MaxMessages
    /\ received' = received + 1
    /\ pc' = "loop"
    /\ Post("message")
    /\ UNCHANGED <<state, exiting, detached, out, script, shared>>

(* The peer closes, or sends a message too big or not in UTF-8.            *)
RecvClose ==
    /\ pc = "recv"
    /\ pc' = "closing"
    /\ state' = "CLOSING"
    /\ UNCHANGED <<received, exiting, detached, out, events, script, shared>>

RecvError ==
    /\ pc = "recv"
    /\ pc' = "closing"
    /\ Post("error")
    /\ UNCHANGED <<state, received, exiting, detached, out, script, shared>>

(* ns_ws_dispatch_close: the state, then the event.                        *)
MarkClosed ==
    /\ pc = "closing"
    /\ pc' = "ending"
    /\ state' = "CLOSED"
    /\ UNCHANGED <<received, exiting, detached, out, events, script, shared>>

(* Mutant: the close event is droppable like a message.                    *)
PostCloseDroppable ==
    /\ pc = "ending"
    /\ pc' = "ended"
    /\ idles' = IF detached \/ Len(idles) + Len(held) >= MaxPending
                THEN idles
                ELSE Append(idles, "close")
    /\ UNCHANGED <<held, state, received, exiting, detached, out, script,
                   shared>>

PostClose ==
    /\ pc = "ending"
    /\ pc' = "ended"
    /\ Post("close")
    /\ UNCHANGED <<state, received, exiting, detached, out, script, shared>>

ThreadStep ==
    \/ ConnectFails \/ ConnectedTooLate \/ Connected \/ PostOpen
    \/ LoopTop \/ Drain
    \/ RecvNothing \/ RecvMessage \/ RecvClose \/ RecvError
    \/ MarkClosed \/ PostClose

-----------------------------------------------------------------------------
(* The main loop: ns_ws_dispatch_run and the callbacks of js.c.            *)

(* The event reaches the script object: on_open, on_text, on_binary,        *)
(* on_error, on_close.                                                      *)
Invoke(kind) ==
    /\ ready' = CASE kind = "open" -> 1 [] kind = "close" -> 3 [] OTHER -> ready
    /\ pinned' = (pinned /\ kind # "close")
    /\ called' = called \cup {kind}
                        \cup (IF gone THEN {"freed"} ELSE {})
                        \cup (IF "close" \in called THEN {"late"} ELSE {})
    /\ UNCHANGED <<gone, sent>>

(* ns_ws_dispatch_run of a dispatch that is due.                           *)
Run(kind, waiting) ==
    IF ~detached /\ pumping
    THEN held' = Append(waiting, kind) /\ UNCHANGED script
    ELSE /\ held' = waiting
         /\ IF detached THEN UNCHANGED script ELSE Invoke(kind)

LoopIterates == main = "idle" /\ page # "closing"

RunIdle ==
    /\ LoopIterates
    /\ idles # << >>
    /\ idles' = Tail(idles)
    /\ Run(Head(idles), held)
    /\ UNCHANGED <<thread, exiting, detached, out, shared>>

RunTimer ==
    /\ LoopIterates
    /\ \E i \in 1 .. Len(held) : Run(held[i], RemoveAt(held, i))
    /\ UNCHANGED <<thread, exiting, detached, out, idles, shared>>

-----------------------------------------------------------------------------
(* The page's script.                                                      *)

(* ns_window_websocket_ctor and ns_ws_new.                                 *)
Construct ==
    /\ Script
    /\ pc = "none"
    /\ pc' = "connecting"
    /\ pinned' = TRUE
    /\ UNCHANGED <<state, received, exiting, detached, out, events, ready,
                   gone, sent, called, shared>>

(* ns_js_ws_send and ns_ws_enqueue.                                        *)
Send ==
    /\ Script
    /\ pc # "none" /\ ~gone
    /\ state = "OPEN"
    /\ sent < MaxMessages
    /\ sent' = sent + 1
    /\ out' = Append(out, "data")
    /\ UNCHANGED <<thread, exiting, detached, events, ready, pinned, gone,
                   called, shared>>

(* ns_js_ws_close_method: readyState first, then ns_ws_close, which reads   *)
(* the state again, queues the close frame, and overwrites the state.       *)
CallClose ==
    /\ Script
    /\ pc # "none" /\ ~gone
    /\ state \in {"CONNECTING", "OPEN"}
    /\ ready' = 2
    /\ main' = "ws close"
    /\ UNCHANGED <<thread, exiting, detached, out, events, pinned, gone, sent,
                   called, page, pumping>>

QueueClose ==
    /\ main = "ws close"
    /\ IF state \in {"CONNECTING", "OPEN"}
       THEN out' = Append(out, "close") /\ main' = "ws mark"
       ELSE main' = "idle" /\ UNCHANGED out
    /\ UNCHANGED <<thread, exiting, detached, events, script, page, pumping>>

MarkClosing ==
    /\ main = "ws mark"
    /\ state' = "CLOSING"
    /\ main' = "idle"
    /\ UNCHANGED <<pc, received, exiting, detached, out, events, script, page,
                   pumping>>

(* Mutant: the socket is freed without being detached.                     *)
FreeAttached ==
    /\ exiting' = TRUE
    /\ main' = "ws join"
    /\ UNCHANGED <<thread, detached, out, events, script, page, pumping>>

(* ns_ws_free up to the join.                                              *)
Free ==
    /\ detached' = TRUE
    /\ exiting' = TRUE
    /\ main' = "ws join"
    /\ UNCHANGED <<thread, out, events, script, page, pumping>>

(* ns_ws_class_finalizer: the collector finds the wrapper unreferenced.    *)
Collect ==
    /\ Script
    /\ pc # "none" /\ ~pinned /\ ~gone
    /\ Free

(* ns_js_free, its loop over pending_ws.                                   *)
Teardown ==
    /\ page = "closing"
    /\ main = "idle"
    /\ pc # "none" /\ ~gone
    /\ Free

(* g_thread_join returns, the caller frees its side of the socket.         *)
Joined ==
    /\ main = "ws join"
    /\ pc = "ended"
    /\ main' = "idle"
    /\ gone' = TRUE
    /\ pinned' = FALSE
    /\ UNCHANGED <<thread, exiting, detached, out, events, ready, sent,
                   called, page, pumping>>

MainStep ==
    \/ RunIdle \/ RunTimer
    \/ Construct \/ Send \/ CallClose \/ QueueClose \/ MarkClosing
    \/ Collect \/ Joined

(* The thread's own steps end by themselves; the handshake does when the    *)
(* progress callback sees exit_requested.  Nothing promises that a server   *)
(* answers it.                                                              *)
Fairness ==
    /\ WF_vars(AbortHandshake)
    /\ WF_vars(PostOpen \/ LoopTop \/ Drain \/ RecvNothing \/ MarkClosed
                 \/ PostClose)
    /\ WF_<<vars, main>>(QueueClose \/ MarkClosing \/ Joined)
    /\ WF_vars(RunIdle)
    /\ WF_vars(RunTimer)
=============================================================================
