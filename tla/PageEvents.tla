----------------------------- MODULE PageEvents -----------------------------
(***************************************************************************)
(* A page with one WebSocket, one EventSource and one Worker, each with a   *)
(* thread of its own: the clients share the page's main thread, its pump    *)
(* and its end.                                                            *)
(*                                                                         *)
(* While a script waits for a resource, ns_js_fetch_resource runs the main  *)
(* loop nested under it.  ns_js_free stops and joins the worker, then the   *)
(* socket, then lets the collector have what nothing pins any more.  A      *)
(* stream that is still pinned stays behind, with its thread.              *)
(*                                                                         *)
(* A script that an event starts in a pump is not followed: the model says  *)
(* that it was started, not what it does.                                  *)
(***************************************************************************)
EXTENDS Integers, FiniteSets

CONSTANTS
    MaxPending,   \* NS_WS_MAX_PENDING, NS_ES_MAX_PENDING
    MaxMessages,  \* bound: messages each way on the socket
    MaxEvents,    \* bound: the events of the stream's server
    MaxPosts,     \* bound: messages each way, and terminate, of the worker
    MaxPumps,     \* bound: how often a script waits in a pump
    MaxOpen,      \* bound: how many of the three clients the page opens,
    MaxTraffic    \* bound: messages, stops and pumps, for each one not opened

ASSUME PageAssumption ==
    /\ MaxPending \in Nat
    /\ MaxMessages \in Nat /\ MaxEvents \in Nat /\ MaxPosts \in Nat
    /\ MaxPumps \in Nat /\ MaxOpen \in Nat /\ MaxTraffic \in Nat

VARIABLES
    page,         \* the page: "open", in ns_js_free ("closing"), or "freed"
    pumping,      \* js->in_pump
    main,         \* what the main thread is in: its loop ("idle") or a call
    pumps,        \* pumps so far
    wsPc, wsState, wsExiting, wsDetached, wsOut, wsIdles, wsHeld, wsReady,
    wsPinned, wsGone, wsReceived, wsSent, wsCalled,
    esPc, esLastId, esNext, esExiting, esDetached, esIdles, esHeld, esReady,
    esPinned, esGone, esHanded,
    wkPc, wkClosing, wkOwnerAlive, wkInbox, wkOutbox, wkLooping, wkPosted,
    wkAnswered, wkStops, wkGone, wkTouched

socket ==
    <<wsPc, wsState, wsExiting, wsDetached, wsOut, wsIdles, wsHeld, wsReady,
      wsPinned, wsGone, wsReceived, wsSent, wsCalled>>
stream ==
    <<esPc, esLastId, esNext, esExiting, esDetached, esIdles, esHeld,
      esReady, esPinned, esGone, esHanded>>
worker ==
    <<wkPc, wkClosing, wkOwnerAlive, wkInbox, wkOutbox, wkLooping, wkPosted,
      wkAnswered, wkStops, wkGone, wkTouched>>
vars == <<page, pumping, main, pumps, socket, stream, worker>>

Socket == INSTANCE WebSocket WITH
    pc <- wsPc, state <- wsState, exiting <- wsExiting,
    detached <- wsDetached, out <- wsOut, idles <- wsIdles, held <- wsHeld,
    ready <- wsReady, pinned <- wsPinned, gone <- wsGone,
    received <- wsReceived, sent <- wsSent, called <- wsCalled
Stream == INSTANCE EventSource WITH
    pc <- esPc, lastId <- esLastId, next <- esNext, exiting <- esExiting,
    detached <- esDetached, idles <- esIdles, held <- esHeld,
    ready <- esReady, pinned <- esPinned, gone <- esGone,
    handed <- esHanded
Wk == INSTANCE Worker WITH
    pc <- wkPc, closing <- wkClosing, ownerAlive <- wkOwnerAlive,
    inbox <- wkInbox, outbox <- wkOutbox, looping <- wkLooping,
    posted <- wkPosted, answered <- wkAnswered, stops <- wkStops,
    gone <- wkGone, touched <- wkTouched

-----------------------------------------------------------------------------
Init ==
    /\ page = "open"
    /\ pumping = FALSE
    /\ main = "idle"
    /\ pumps = 0
    /\ Socket!Init
    /\ Stream!Init
    /\ Wk!Init

Opened ==
    Cardinality({c \in {<<"ws", wsPc>>, <<"es", esPc>>, <<"wk", wkPc>>} :
                 c[2] # "none"})

(* What pages, servers and users did so far.                               *)
Traffic == wsReceived + wsSent + esLastId + wkPosted + wkAnswered + wkStops
             + pumps

(* A bound, not code: the more clients, the less traffic.                  *)
WithinBound == Traffic' <= MaxTraffic * (MaxOpen - Opened')

SocketThread ==
    Socket!ThreadStep /\ UNCHANGED <<pumps, stream, worker>> /\ WithinBound

StreamThread ==
    Stream!ThreadStep /\ UNCHANGED <<pumps, socket, worker>> /\ WithinBound

WorkerThread ==
    Wk!ThreadStep /\ UNCHANGED <<pumps, socket, stream>> /\ WithinBound

SocketMain ==
    Socket!MainStep /\ UNCHANGED <<pumps, stream, worker>> /\ WithinBound

StreamMain ==
    Stream!MainStep /\ UNCHANGED <<pumps, socket, worker>> /\ WithinBound

WorkerMain ==
    Wk!MainStep /\ UNCHANGED <<pumps, socket, stream>> /\ WithinBound

(* ns_js_fetch_resource: the main loop runs nested under the script, until  *)
(* the transfer ends.                                                      *)
StartPump ==
    /\ page = "open" /\ ~pumping /\ main = "idle"
    /\ pumps < MaxPumps
    /\ pumps' = pumps + 1
    /\ pumping' = TRUE
    /\ UNCHANGED <<page, main, socket, stream, worker>>
    /\ WithinBound

EndPump ==
    /\ pumping /\ main = "idle"
    /\ pumping' = FALSE
    /\ UNCHANGED <<page, main, pumps, socket, stream, worker>>

(* The tab is closed: not in a pump, every teardown path waits for its end. *)
StartTeardown ==
    /\ page = "open" /\ ~pumping /\ main = "idle"
    /\ page' = "closing"
    /\ UNCHANGED <<pumping, main, pumps, socket, stream, worker>>

WorkerLeft == wkPc # "none" /\ ~wkGone
SocketLeft == wsPc # "none" /\ ~wsGone
StreamLeft == esPc # "none" /\ ~esPinned /\ ~esGone

TeardownWorker ==
    Wk!Teardown /\ UNCHANGED <<pumps, socket, stream>>

TeardownSocket ==
    ~WorkerLeft /\ Socket!Teardown /\ UNCHANGED <<pumps, stream, worker>>

TeardownStream ==
    /\ ~WorkerLeft /\ ~SocketLeft
    /\ Stream!Teardown
    /\ UNCHANGED <<pumps, socket, worker>>

FinishTeardown ==
    /\ page = "closing" /\ main = "idle"
    /\ ~WorkerLeft /\ ~SocketLeft /\ ~StreamLeft
    /\ page' = "freed"
    /\ UNCHANGED <<pumping, main, pumps, socket, stream, worker>>

TeardownStep ==
    TeardownWorker \/ TeardownSocket \/ TeardownStream \/ FinishTeardown

Next ==
    \/ SocketThread \/ StreamThread \/ WorkerThread
    \/ SocketMain \/ StreamMain \/ WorkerMain
    \/ StartPump \/ EndPump
    \/ StartTeardown \/ TeardownStep

Spec == Init /\ [][Next]_vars

(* The threads run; a transfer the pump waits for ends by its timeouts; a   *)
(* teardown goes on once it has begun.                                     *)
FairSpec ==
    /\ Spec
    /\ Socket!Fairness /\ Stream!Fairness /\ Wk!Fairness
    /\ WF_vars(EndPump)
    /\ WF_vars(TeardownStep)

-----------------------------------------------------------------------------
TypeOK ==
    /\ page \in {"open", "closing", "freed"}
    /\ pumping \in BOOLEAN
    /\ main \in {"idle", "ws close", "ws mark", "ws join", "es join",
                 "wk post", "wk quit", "wk join"}
    /\ pumps \in 0 .. MaxPumps
    /\ Socket!TypeOK
    /\ Stream!TypeOK
    /\ Wk!TypeOK

(* A page that was freed is left alone: neither the socket nor the worker   *)
(* has a thread any more, and no event of theirs that was still under way   *)
(* was delivered to what is gone (ns_js_free joins both; dispatches look at *)
(* detached and owner_alive).                                              *)
FreedPageIsQuiet ==
    /\ page = "freed" => wsPc \in {"none", "ended"} /\ wkPc \in {"none", "ended"}
    /\ "freed" \notin wsCalled
    /\ "freed" \notin wkTouched

(* The close of a connection always reaches the page, however many messages *)
(* were dropped: from the end of the thread its close event is queued, put  *)
(* off, or delivered.  And nothing follows it, unless a pump put an earlier *)
(* event off (ns_ws_post with droppable FALSE, ns_ws_dispatch_run).        *)
CloseIsReported ==
    /\ wsPc = "ended" /\ ~wsDetached =>
           \/ "close" \in wsCalled
           \/ \E i \in DOMAIN wsIdles : wsIdles[i] = "close"
           \/ \E i \in DOMAIN wsHeld : wsHeld[i] = "close"
    /\ "late" \in wsCalled => pumps > 0

(* However often the stream breaks, an event is given to the page once at   *)
(* most: the connection that follows resumes behind the last id that was    *)
(* read (ns_es_process_line, Last-Event-ID in ns_es_connect_once).         *)
NoEventTwice == \A id \in Stream!Ids : esHanded[id] <= 1

(* ns_js_free returns: each thread it joins sees that it is to go, in a     *)
(* handshake, in a stream, in a script or in its loop.                     *)
TeardownEnds == page = "closing" ~> page = "freed"

(* What was closed ends, whoever closed it and at whatever moment: the      *)
(* thread of a worker that is to close, also if it was told before it had a *)
(* loop; the thread of a closed stream; a closed socket, once connected,    *)
(* tells the page so or is collected.                                      *)
ClosedClientsEnd ==
    /\ wkPc # "none" /\ wkClosing ~> wkPc = "ended"
    /\ esReady = 2 ~> esPc = "ended"
    /\ wsReady = 2 /\ wsPc # "connecting" ~> wsReady = 3 \/ wsGone

(* docs/threading.md: no asynchronous source runs page script while another *)
(* frame of it is on the stack.                                            *)
NoNestedScript == "nested" \notin wkTouched
=============================================================================
