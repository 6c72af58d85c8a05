------------------------------ MODULE ProcView ------------------------------
(***************************************************************************)
(* One tab of the shell (src/src/gtk/procview.c): the main thread that      *)
(* loads, renders and stops, the worker thread that speaks to the tab's     *)
(* renderer process, the queue of requests between them, and the idle       *)
(* callbacks by which the answers come back, in order.                      *)
(*                                                                         *)
(* The code numbers loads and renders and drops an answer whose number is   *)
(* not the latest.  The model keeps of a number what the comparison tells:  *)
(* whether it is still the latest ("fresh").  Of a page it keeps whether    *)
(* it is the one asked for last ("now") or an earlier one ("old").          *)
(*                                                                         *)
(* Left out: the input, tick and media requests, whose answers end in the   *)
(* same request_render or do_load, and what a page paints.                  *)
(***************************************************************************)
EXTENDS Integers, FiniteSets, Sequences

CONSTANTS
    MaxRestarts,   \* NS_PROC_MAX_RESTARTS
    MaxRedirects,  \* NS_PROC_MAX_JS_REDIRECTS
    MaxInputs      \* bound: loads, render requests and a frame's navigations

ASSUME ProcViewAssumption ==
    MaxRestarts \in Nat /\ MaxRedirects \in Nat /\ MaxInputs \in Nat

VARIABLES
    main,       \* the main thread: runs, closes the tab, joins, has closed it
    sized,      \* the drawing area has its size
    deferred,   \* v->deferred_url is set
    loading,    \* v->loading
    opened,     \* v->opened
    hasUrl,     \* v->current_url is set
    shown,      \* the page v->frame is a picture of, or "none"
    inflight,   \* v->render_inflight
    pending,    \* v->render_pending
    restarts,   \* v->render_restarts
    redirects,  \* v->js_redirects
    queue,      \* v->queue
    results,    \* the idle callbacks on_result that are due
    pc,         \* where worker_main is
    job,        \* the request it serves
    proc,       \* v->proc: "none", or a renderer that is "up" or "dead"
    page,       \* the page that renderer holds, or "none"
    painted,    \* s->frame_valid there: the page has not changed since
    inputs,     \* inputs so far, up to MaxInputs
    reloads     \* history: restarts since the user last asked for a page

flags == <<loading, opened, inflight, pending>>
counters == <<restarts, redirects, reloads>>
renderer == <<proc, page, painted>>
worker == <<pc, job, renderer>>
area == <<main, sized, deferred>>
vars == <<area, flags, hasUrl, shown, counters, queue, results, worker, inputs>>

Pages == {"none", "now", "old"}
Request(t) == [type |-> t, fresh |-> TRUE]
Requests == [type : {"load", "render", "quit"}, fresh : BOOLEAN]
\* pic is the page a frame shows, "none" for an unchanged one.
Answers == [type : {"load", "render"}, fresh : BOOLEAN, ok : BOOLEAN,
            nav : BOOLEAN, pic : Pages]
NoJob == Request("quit")

ViewTypes ==
    /\ main \in {"run", "closing", "join", "closed"}
    /\ sized \in BOOLEAN /\ deferred \in BOOLEAN
    /\ loading \in BOOLEAN /\ opened \in BOOLEAN
    /\ inflight \in BOOLEAN /\ pending \in BOOLEAN
    /\ hasUrl \in BOOLEAN /\ shown \in Pages

CounterTypes ==
    /\ restarts \in 0 .. MaxRestarts
    /\ redirects \in 0 .. MaxRedirects
    /\ reloads \in 0 .. MaxRestarts + 1
    /\ inputs \in 0 .. MaxInputs

QueueTypes == queue \in Seq(Requests) /\ results \in Seq(Answers)

WorkerTypes ==
    /\ pc \in {"idle", "spawn", "call", "respawn", "retry", "ended"}
    /\ job \in Requests
    /\ proc \in {"none", "up", "dead"}
    /\ page \in Pages /\ painted \in BOOLEAN

TypeOK == ViewTypes /\ CounterTypes /\ QueueTypes /\ WorkerTypes

Init ==
    /\ main = "run" /\ sized = FALSE /\ deferred = FALSE
    /\ loading = FALSE /\ opened = FALSE /\ inflight = FALSE /\ pending = FALSE
    /\ hasUrl = FALSE /\ shown = "none"
    /\ restarts = 0 /\ redirects = 0 /\ reloads = 0
    /\ queue = <<>> /\ results = <<>>
    /\ pc = "idle" /\ job = NoJob
    /\ proc = "none" /\ page = "none" /\ painted = FALSE
    /\ inputs = 0

closed == main # "run"

\* ++load_seq or ++render_seq: what carries an earlier number is stale.
Stale(r, types) == IF r.type \in types THEN [r EXCEPT !.fresh = FALSE] ELSE r
AllStale(s, types) == [i \in DOMAIN s |-> Stale(s[i], types)]
Older(p) == IF p = "now" THEN "old" ELSE p
-----------------------------------------------------------------------------
(* The main thread; rest stands for the callbacks that are still due.       *)

start_render(rest) ==
    /\ queue' = Append(AllStale(queue, {"render"}), Request("render"))
    /\ job' = Stale(job, {"render"})
    /\ results' = AllStale(rest, {"render"})
    /\ inflight' = TRUE

request_render(rest) ==
    \/ /\ inflight
       /\ pending' = TRUE
       /\ results' = rest
       /\ UNCHANGED <<queue, job, inflight>>
    \/ /\ ~inflight
       /\ start_render(rest)
       /\ UNCHANGED pending

\* Mutant: the flags of the page that goes are kept.
LoadKeepsFlags(rest, allocated) ==
    LET both == {"load", "render"} IN
    /\ opened' = FALSE /\ loading' = TRUE /\ shown' = "none"
    /\ page' = Older(page)
    /\ job' = Stale(job, both)
    /\ results' = [i \in DOMAIN rest |->
                     [Stale(rest[i], both) EXCEPT !.pic = Older(@)]]
    /\ deferred' = ~allocated
    /\ queue' = AllStale(queue, both)
                  \o (IF allocated THEN <<Request("load")>> ELSE <<>>)
    /\ UNCHANGED <<inflight, pending>>

do_load(rest, allocated) ==
    LET both == {"load", "render"} IN
    /\ opened' = FALSE /\ inflight' = FALSE /\ pending' = FALSE
    /\ loading' = TRUE
    /\ shown' = "none"
    /\ page' = Older(page)
    /\ job' = Stale(job, both)
    /\ results' = [i \in DOMAIN rest |->
                     [Stale(rest[i], both) EXCEPT !.pic = Older(@)]]
    /\ deferred' = ~allocated
    /\ queue' = AllStale(queue, both)
                  \o (IF allocated THEN <<Request("load")>> ELSE <<>>)

\* ns_proc_view_load, _back, _forward and _reload.
Load ==
    /\ main = "run"
    /\ inputs < MaxInputs
    /\ inputs' = inputs + 1
    /\ restarts' = 0 /\ reloads' = 0
    /\ do_load(results, sized)
    /\ UNCHANGED <<main, sized, hasUrl, redirects, pc, proc, painted>>

\* Mutant: Escape stops a tab that is not loading, too.
StopAnyTime ==
    /\ main = "run"
    /\ loading' = FALSE /\ inflight' = FALSE /\ pending' = FALSE
    /\ queue' = AllStale(queue, {"render"})
    /\ job' = Stale(job, {"render"})
    /\ results' = AllStale(results, {"render"})
    /\ UNCHANGED <<area, opened, hasUrl, shown, counters, pc, renderer, inputs>>

\* The stop button and Escape are there while the tab loads.
Stop ==
    /\ main = "run"
    /\ loading
    /\ loading' = FALSE /\ inflight' = FALSE /\ pending' = FALSE
    /\ queue' = AllStale(queue, {"render"})
    /\ job' = Stale(job, {"render"})
    /\ results' = AllStale(results, {"render"})
    /\ UNCHANGED <<area, opened, hasUrl, shown, counters, pc, renderer, inputs>>

\* A scroll, an animation frame, a focus change or an answered input event.
Repaint ==
    /\ main = "run"
    /\ opened
    /\ inputs < MaxInputs
    /\ inputs' = inputs + 1
    /\ request_render(results)
    /\ UNCHANGED <<area, loading, opened, hasUrl, shown, counters, pc, renderer>>

\* The area is given its size; a load that waited for it starts.
Resize ==
    /\ main = "run"
    /\ ~sized
    /\ sized' = TRUE
    /\ \/ deferred /\ do_load(results, TRUE)
       \/ /\ ~deferred
          /\ UNCHANGED <<deferred, flags, shown, queue, results, job, page>>
    /\ UNCHANGED <<main, hasUrl, counters, pc, proc, painted, inputs>>

on_page(r, rest) ==
    \/ /\ ~r.fresh
       /\ results' = rest
       /\ UNCHANGED <<area, flags, hasUrl, shown, counters, queue, job, page>>
    \/ /\ r.fresh /\ ~r.ok
       /\ loading' = FALSE
       /\ results' = rest
       /\ UNCHANGED <<area, opened, inflight, pending, hasUrl, shown, counters,
                      queue, job, page>>
    \/ /\ r.fresh /\ r.ok /\ r.nav /\ redirects < MaxRedirects
       /\ redirects' = redirects + 1
       /\ do_load(rest, sized)
       /\ UNCHANGED <<main, sized, hasUrl, restarts, reloads>>
    \/ /\ r.fresh /\ r.ok /\ (r.nav => redirects = MaxRedirects)
       /\ redirects' = 0
       /\ hasUrl' = TRUE /\ opened' = TRUE /\ loading' = FALSE
       /\ request_render(rest)
       /\ UNCHANGED <<area, shown, restarts, reloads, page>>

\* The end of a frame's callback: the flag falls whatever the answer was.
next_render(rest) ==
    \/ /\ pending
       /\ pending' = FALSE
       /\ \/ opened /\ start_render(rest)
          \/ /\ ~opened
             /\ inflight' = FALSE
             /\ results' = rest
             /\ UNCHANGED <<queue, job>>
    \/ /\ ~pending
       /\ inflight' = FALSE
       /\ results' = rest
       /\ UNCHANGED <<pending, queue, job>>

on_frame(r, rest) ==
    \/ /\ ~r.fresh
       /\ next_render(rest)
       /\ UNCHANGED <<area, loading, opened, hasUrl, shown, counters, page>>
    \/ /\ r.fresh /\ r.ok /\ r.nav /\ redirects < MaxRedirects
       /\ restarts' = 0
       /\ redirects' = redirects + 1
       /\ do_load(rest, sized)
       /\ UNCHANGED <<main, sized, hasUrl, reloads>>
    \/ /\ r.fresh /\ r.ok /\ (r.nav => redirects = MaxRedirects)
       /\ shown' = IF r.pic = "none" THEN shown ELSE r.pic
       /\ restarts' = 0
       /\ next_render(rest)
       /\ UNCHANGED <<area, loading, opened, hasUrl, redirects, reloads, page>>
    \/ /\ r.fresh /\ ~r.ok /\ pending
       /\ next_render(rest)
       /\ UNCHANGED <<area, loading, opened, hasUrl, shown, counters, page>>
    \/ /\ r.fresh /\ ~r.ok /\ ~pending /\ hasUrl /\ restarts < MaxRestarts
       /\ restarts' = restarts + 1
       /\ reloads' = IF reloads > MaxRestarts THEN reloads ELSE reloads + 1
       /\ do_load(rest, sized)
       /\ UNCHANGED <<main, sized, hasUrl, redirects>>
    \/ /\ r.fresh /\ ~r.ok /\ ~pending /\ (hasUrl => restarts = MaxRestarts)
       /\ loading' = IF hasUrl THEN FALSE ELSE loading
       /\ next_render(rest)
       /\ UNCHANGED <<area, opened, hasUrl, shown, counters, page>>

OnResult ==
    /\ results # <<>>
    /\ \/ /\ main = "run"
          /\ \/ Head(results).type = "load" /\ on_page(Head(results), Tail(results))
             \/ Head(results).type = "render" /\ on_frame(Head(results), Tail(results))
       \/ /\ main = "closed"
          /\ results' = Tail(results)
          /\ UNCHANGED <<area, flags, hasUrl, shown, counters, queue, job, page>>
    /\ UNCHANGED <<pc, proc, painted, inputs>>

\* on_area_destroy: closed is set and REQ_QUIT pushed ...
Destroy ==
    /\ main = "run"
    /\ main' = "closing"
    /\ queue' = Append(queue, Request("quit"))
    /\ UNCHANGED <<sized, deferred, flags, hasUrl, shown, counters, results,
                   worker, inputs>>

\* ... then the renderer found in v->proc is cut off ...
Interrupt ==
    /\ main = "closing"
    /\ main' = "join"
    /\ proc' = IF proc = "up" THEN "dead" ELSE proc
    /\ UNCHANGED <<sized, deferred, flags, hasUrl, shown, counters, queue, results,
                   pc, job, page, painted, inputs>>

\* ... and the worker joined.
Joined ==
    /\ main = "join"
    /\ pc = "ended"
    /\ main' = "closed"
    /\ UNCHANGED <<sized, deferred, flags, hasUrl, shown, counters, queue, results,
                   worker, inputs>>
-----------------------------------------------------------------------------
(* The worker.                                                              *)

view == <<area, flags, hasUrl, shown, counters>>

Take ==
    /\ pc = "idle"
    /\ queue # <<>>
    /\ job' = Head(queue)
    /\ queue' = Tail(queue)
    /\ \/ /\ job'.type = "quit"
          /\ pc' = "ended"
          /\ proc' = "none" /\ page' = "none" /\ painted' = FALSE
       \/ /\ job'.type # "quit"
          /\ pc' = IF proc = "none" /\ ~closed THEN "spawn" ELSE "call"
          /\ UNCHANGED renderer
    /\ UNCHANGED <<view, results, inputs>>

\* The new renderer, or none when it could not be started, is swapped in.
Spawn ==
    /\ pc \in {"spawn", "respawn"}
    /\ pc' = IF pc = "spawn" THEN "call" ELSE "retry"
    /\ proc' \in {"up", "none"}
    /\ page' = "none" /\ painted' = FALSE
    /\ UNCHANGED <<view, queue, results, job, inputs>>

Post(ok, nav, pic) ==
    /\ results' = Append(results, [type |-> job.type, fresh |-> job.fresh,
                                   ok |-> ok, nav |-> nav, pic |-> pic])
    /\ pc' = "idle"
    /\ job' = NoJob

\* The renderer opens a page, perhaps one that redirects, or cannot.
ServeLoad ==
    /\ pc \in {"call", "retry"}
    /\ job.type = "load"
    /\ proc = "up"
    /\ \E ok, nav \in BOOLEAN :
         /\ nav => ok
         /\ Post(ok, nav, "none")
         /\ page' = IF ~ok THEN "none" ELSE IF job.fresh THEN "now" ELSE "old"
    /\ painted' = FALSE
    /\ UNCHANGED <<view, queue, proc, inputs>>

\* Mutant: a new renderer is tried as often as a call fails.
FailLoadTriesOn ==
    /\ pc \in {"call", "retry"}
    /\ job.type = "load"
    /\ proc # "up"
    /\ \/ /\ proc = "dead" /\ ~closed
          /\ pc' = "respawn"
          /\ proc' = "none" /\ page' = "none" /\ painted' = FALSE
          /\ UNCHANGED <<results, job>>
       \/ /\ proc = "none" \/ closed
          /\ Post(FALSE, FALSE, "none")
          /\ UNCHANGED renderer
    /\ UNCHANGED <<view, queue, inputs>>

\* The call fails: one new renderer is tried, unless the tab was closed.
FailLoad ==
    /\ pc \in {"call", "retry"}
    /\ job.type = "load"
    /\ proc # "up"
    /\ \/ /\ pc = "call" /\ proc = "dead" /\ ~closed
          /\ pc' = "respawn"
          /\ proc' = "none" /\ page' = "none" /\ painted' = FALSE
          /\ UNCHANGED <<results, job>>
       \/ /\ ~(pc = "call" /\ proc = "dead" /\ ~closed)
          /\ Post(FALSE, FALSE, "none")
          /\ UNCHANGED renderer
    /\ UNCHANGED <<view, queue, inputs>>

\* A frame of the page the renderer holds, or word that it did not change; the
\* script of the page may have asked for another page meanwhile.  Two failures
\* count as that frame: a page that cannot be drawn comes as a white one, after
\* which no word of no change is sent, and a frame may find no memory to be
\* staged in.
ServeRender ==
    /\ pc = "call"
    /\ job.type = "render"
    /\ proc = "up" /\ page # "none"
    /\ \E nav \in BOOLEAN, pic \in {page} \cup (IF painted THEN {"none"} ELSE {}) :
         /\ nav => inputs < MaxInputs
         /\ inputs' = IF nav THEN inputs + 1 ELSE inputs
         /\ Post(TRUE, nav, pic)
    /\ painted' = TRUE
    /\ UNCHANGED <<view, queue, proc, page>>

\* No renderer, a dead one, or one without a page: it is closed.
FailRender ==
    /\ pc = "call"
    /\ job.type = "render"
    /\ ~(proc = "up" /\ page # "none")
    /\ Post(FALSE, FALSE, "none")
    /\ proc' = "none" /\ page' = "none" /\ painted' = FALSE
    /\ UNCHANGED <<view, queue, inputs>>

\* A crash, or ns_proc_view_end_task from the task manager, at any time.
RendererDies ==
    /\ proc = "up"
    /\ proc' = "dead"
    /\ UNCHANGED <<view, queue, results, pc, job, page, painted, inputs>>
-----------------------------------------------------------------------------
Worker == Take \/ Spawn \/ ServeLoad \/ FailLoad \/ ServeRender \/ FailRender
Closing == Interrupt \/ Joined

Next ==
    \/ Load \/ Stop \/ Repaint \/ Resize
    \/ OnResult
    \/ Destroy \/ Interrupt \/ Joined
    \/ Take \/ Spawn \/ ServeLoad \/ FailLoad \/ ServeRender \/ FailRender
    \/ RendererDies

Spec == Init /\ [][Next]_vars

\* The worker runs, a call to a renderer returns (a read gives up after 30 s)
\* and the main loop runs its idle callbacks.
FairSpec == Spec /\ WF_vars(Worker) /\ WF_vars(OnResult) /\ WF_vars(Closing)
-----------------------------------------------------------------------------
(* Properties                                                               *)

Outstanding(t) ==
    {i \in DOMAIN queue : queue[i] = Request(t)}
      \cup {-i : i \in {k \in DOMAIN results : results[k].type = t /\ results[k].fresh}}
      \cup (IF job = Request(t) /\ pc # "ended" THEN {0} ELSE {})

(* What the tab believes is under way is under way: while inflight is set   *)
(* exactly one render will still be answered as the latest one, and while   *)
(* it is not set none will; the spinner turns only for a load that will be  *)
(* answered or waits for the size of the area.  (procview.c: every handler  *)
(* clears inflight, even for a stale frame, and stop and do_load clear it   *)
(* without waiting for the worker.)                                         *)
FlagsAreHonest ==
    main = "run" =>
        /\ Cardinality(Outstanding("render")) = IF inflight THEN 1 ELSE 0
        /\ pending => inflight
        /\ inflight => opened
        /\ loading => deferred \/ Outstanding("load") # {}

(* The tab never shows a page under the address of another, and an opened   *)
(* page without a render under way is shown, unless the tab gave up on a    *)
(* renderer that keeps failing.  (on_result, RES_FRAME: a frame dropped as  *)
(* stale may be the only one the renderer does not call unchanged.)         *)
PictureIsOfPage ==
    /\ shown # "old"
    /\ main = "run" /\ opened /\ ~inflight =>
            shown = "now" \/ restarts = MaxRestarts

Quiet ==
    /\ main \in {"run", "closed"}
    /\ queue = <<>> /\ results = <<>> /\ pc \in {"idle", "ended"}
    /\ main = "run" => ~inflight /\ (loading => deferred)

(* Once the user and the page ask for nothing more the tab comes to rest,   *)
(* whatever the renderers do meanwhile: every load is answered, restarts    *)
(* and redirects come to an end, and a tab that is closed is gone.          *)
TabSettles == <>[]Quiet

(* docs/tab-isolation.md:320: a dead renderer is restarted "bounded so a    *)
(* reliably-crashing page can't thrash": between two requests of the user   *)
(* no more than MaxRestarts restarts.  Every frame resets the count.        *)
RestartsAreBounded == reloads <= MaxRestarts

=============================================================================
