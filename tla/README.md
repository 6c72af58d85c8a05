# Verification of Nordstjernen

Nordstjernen is a web browser in C. Its engine (parsing, cascade, layout,
painting, script bindings) is sequential; what is hard to test in it is the part
that is not: the network layer, which main thread, pool threads, worker threads
and one network I/O thread share, the clients of a page that have threads of their
own (sockets, event streams, workers), and the processes around the engine (the
renderer of a tab, the supervisor of the browser). This directory holds TLA+
models of that part, the TLC configurations that check them, and proofs that
TLAPS checks.

Paths below are relative to the repository; `net.c` is `src/net.c` there and
`src/src/net.c` in `PROJECT.json`, whose `map` gives the lines behind every
definition.

    tlc -workers 2 -config FetchThrottle.cfg MCFetchThrottle    # a run
    tlapm FetchThrottle_proofs.tla                              # a proof module

## 1. Inventory

### The network layer (`src/net.c`)

| Component | State | Operations | Threads | What makes it correct |
|---|---|---|---|---|
| Fetch throttle | `g_fetch_queue`, `g_fetch_active`, `g_fetch_host_active` under `g_fetch_throttle_mutex` | submit, dispatch, the end of `ns_fetch_thread` | main thread submits; pool threads finish; both dispatch | counts equal the tasks that hold a place; both limits hold; a task that could start is always about to be started; first come, first served but for saturated hosts; every task ends |
| Preconnects | `g_preconnect_active`, same mutex | `ns_net_preconnect_async`, its thread | one thread each | none uses curl after the drain said so |
| Drain | `g_net_aborting` | `ns_net_drain`: raise the flag, empty the queue, fail what was in it, wait at most 3 s | main thread | answers in any case; TRUE means quiet; nobody is forgotten |
| Coalescer | `g_fetch_coalesce` under `g_fetch_mutex`, `g_fetch_cond` | claim, join (async, blocking), deliver, wait loop | main, pool and worker threads | one fetch per key; every joiner is answered once, with its own key's response; no dangling waiter |
| Preload map | `g_preload_expected`, `g_preload_store`, `g_preload_bytes`, same mutex | expect, store, take, clear | the scan of `engine.c` and every request | never both stored and in flight; each response taken once; exact byte count; bounded |
| Request pipeline | the two above | `ns_net_request_async`, `ns_net_request_blocking` | all | every group has a thread that will deliver to it; drain and deadline meet without losing a request |
| Network I/O thread | `g_multi`, `g_multi_thread`, `g_multi_quit`, `g_multi_incoming`, `g_multi_active` | `ns_net_multi_start/perform/loop/shutdown` | one loop thread, all pool threads, main | pointers to stack transfers never dangle; every transfer is signalled; one thread per handle; shutdown ends |
| Redirect chain | the locals of `ns_fetch_sync` | hop, redirect, header stripping | one per fetch | ends within the limit; secrets stay with their origin |
| Origin slots | `g_origin_slots`: `in_use` of each origin | acquire (with 250 ms re-check), release | all fetching threads | no slot leaks; no deadlock between crossing chains |
| Dead hosts | `g_dead_hosts` | mark dead, mark alive, ask | all fetching threads | advisory: a navigation tries the host in any case |
| Hop internals | locals | headers, cookies, referrer, TLS setup, HTTP/2 backend | one per fetch | formatting and library calls |

### Around it

| Component | State and operations | Hard behaviour | Correctness |
|---|---|---|---|
| HTTP cache (`src/cache.c`) | SQLite rows and body files; lookup, store, revalidate, evict, clear, upgrade | several renderers on the same key; a file and its row are two writes; a renderer is killed between them | headers and body of an entry belong together; no file is forgotten; the limit is kept |
| Tab view (`src/gtk/procview.c`, `src/rproc_http.c`) | request queue of one worker, `loading`, `opened`, `render_inflight`, `render_pending`, restart and redirect counts | late answers of an earlier load or render; a renderer that dies in a call; stop and close at any moment | what the flags say is under way is; no old page under a new address; every load settles |
| Watchdog (`src/watchdog.c`) | child process, burst window, timers, hang monitor | signals, crashes and the supervisor's own death between two steps | restarts are bounded; a stop request is never followed by a restart; no browser is left behind |
| WebSocket (`src/ws.c`) | `state`, `exit_requested`, `detached`, `out_queue`, dispatches that are due or put off | page in a pump, thread ending, page closing | the close reaches the page, last unless a pump reordered; nothing at a freed page |
| EventSource (`src/eventsource.c`) | `last_event_id`, the connection, dispatches | a stream that breaks within an event and is resumed | no event twice; a closed stream ends |
| Web Workers (`src/js.c`) | a thread and a context each, `closing`, `owner_alive`, sources both ways | terminate from outside against close from inside, before, in and behind the loop | no message to a freed page; every thread is joined |
| Single-process renderer (`src/rproc_inproc.c`) | reader threads, the busy queue of the main thread | `inproc_print` blocks its caller behind queued items | the queue is served in order; nobody waits for himself |
| Renderer session (`src/renderer_serve.c`, `src/renderer_http.c`, `src/ipc_http.c`) | current page, parked pages, frame state | none of its own: one command at a time; what the tab sees of it is in `ProcView` | conventional |
| Stores (`history`, `bookmarks`, `idb`, bytecode cache, ...) | SQLite or files behind one lock each | eviction in the bytecode cache | conventional |
| Page engine, script bindings, CSS, layout, painting | the document | none: sequential | outside the reach of TLC as a whole |
| Media helpers (`video*.c`, `webaudio.c`) | helper processes, shared-memory frame ring | the ring's sequence lock | no torn frame |
| Content policy, extensions | none | none | pure functions |
| Headless tools, printing | none | none | one-shot drivers |
| Vendored engines | | | third-party code |

### How they interact

* The scan of `engine.c` expects keys and issues preloads; the loaders of the
  page then ask for the same keys through `ns_net_request_async`; script
  workers ask through `ns_net_request_blocking` on their own threads.
* `ns_net_request_async` claims the key (coalescer), and only a leader submits
  a `GTask` (throttle). The pool thread runs the redirect chain, each hop of
  which takes a slot of its origin and hands its transfer to the I/O thread.
  When the chain ends, the thread delivers to its group (coalescer), returns
  the task, lowers the counts and dispatches again (throttle).
* `ns_net_shutdown` stops the I/O thread, then drains the throttle, telling the
  groups of tasks it discards (coalescer), then cleans up curl if the drain
  said it was quiet.
* The only shared variable without a lock of its own is `g_net_aborting`; the
  two mutexes of throttle and coalescer are never held together.
* The socket, stream and worker of a page run on their own threads and reach the
  page by sources on the main context. A script that waits for a resource
  (`ns_js_fetch_resource`) runs that context nested under itself (`js->in_pump`).
  `ns_js_free` stops and joins workers, then sockets; streams go with the collector.
* A tab view queues requests for its worker thread, which speaks to the renderer
  process and posts each answer back as an idle callback. The watchdog spawns the
  process all of this is in, and restarts it.

`PROJECT.json` lists under `hazards`, each at its line, what can go wrong here
that a test would hardly reach, with the properties that cover it or the module
of the plan that will.

## 2. Modules

| Module | Models | Lock whose critical sections are the actions |
|---|---|---|
| `FetchThrottle` | throttle, preconnects, drain | `g_fetch_throttle_mutex` |
| `SingleFlight` | what coalescer and preload map promise, without machinery | none: abstract |
| `FetchCoalesce` | coalescer, preload map, wait loop | `g_fetch_mutex` |
| `FetchPipeline` | `FetchThrottle` and `FetchCoalesce` composed | both |
| `NetMulti` | I/O thread, hand-over of transfers, shutdown order | `g_multi_lock`, and every unlocked assignment of the shutdown |
| `FetchHops` | redirect chain, origin slots, dead hosts | the slot mutex, and the stretches between two looks at shared state |
| `Watchdog` | supervisor, browser process, hang monitor, session file | none: callbacks of two main loops, and the kernel |
| `WebSocket`, `EventSource`, `Worker` | one client of a page each: its thread, its events, its script object | the locked or atomic accesses of the thread |
| `PageEvents` | the three composed with the pump and the end of their page | as above |
| `ProcView` | one tab: main thread, worker thread, renderer process | `queue_mutex`, idle callbacks, calls to the renderer |
| `HttpCache` | the HTTP cache of one or several renderer processes | SQLite statements, body files, `g_cache_mutex` of each process |
| `MC*` | instances of the above for TLC | |
| `*_proofs` | theorems about the above: `FetchTransport_proofs` about `FetchHops` and `NetMulti`, `CrashRecovery_proofs` about `Watchdog` and `HttpCache`, `FetchCoalesce_proofs` about `SingleFlight` too; the others about the module they name | |
| `SumLemmas` | what sums over finite sets are, for the proofs about byte counts and failures | |

**FetchThrottle.** `phase[t]` follows a task: queued, running (handed to
`g_task_run_in_thread`), returned (its result given, its place still held),
finished; or dropped and abandoned by the drain. `ns_fetch_throttle_dispatch`
locks anew in each iteration, so a caller inside that loop is a member of
`pumping` and each iteration is a step (`Dispatch`, or `StopPumping` when the
scan finds nothing). The end of `ns_fetch_thread` is two critical sections:
`Finish` lowers the counts and makes the thread a pumping caller. A preconnect
thread counts itself on its own thread (`PreEnter`), reads the abort flag after
that (`PreCheck`), and either uses curl or does not.

**FetchCoalesce.** `flight[k]` is the leader of the group of key `k`,
`tasks[k]` and `syncs[k]` are its joiners. `Deliver` is the whole critical
section of `ns_fetch_coalesce_deliver`: expectation used up, response stored or
dropped, group removed, waiters marked done, condition broadcast. What follows
the unlock - answering each async joiner, then the leader's own caller - are
steps of their own, `ReturnJoiner` and `ReturnLeader`. `g_fetch_cond` is shared
by all keys, so `nudged` holds every waiter a broadcast woke, and `Wake` looks
at done, at the abort flag, or sleeps again, as the loop of
`ns_fetch_join_sync` does; `Deadline` is the way out by `NS_FETCH_JOIN_MAX_WAIT_S`,
which takes an answer that is there. Responses are reduced to what the code
tells apart: reusable, other, failed, the size, and whose fetch it was.

**FetchPipeline** conjoins actions of the two as the callers do. A claim and
the submission that follows it are two critical sections of different mutexes:
`Unsubmitted` is the leader in between. `ReturnTask` is the one step that
belongs to both: the `GTask` is returned. The main thread does one thing at a
time (`MainFree`); pool threads and worker threads interleave freely.

**NetMulti.** A fetch is between transfers (`hop`), past
`ns_net_multi_start`, past the unlocked test of `g_multi`, blocked, or in the
fallback `curl_easy_perform`. Each loop thread alternates between the locked
half of an iteration (`Quit` or `Admit`) and the unlocked half (`Complete`,
`Poll`). After the join, every assignment of `ns_net_multi_shutdown` is a
step of its own, because nothing locks them.

**FetchHops.** A fetch is at the head of a hop, waits for a slot, holds it in
the transport, holds it after the transport, or stands in the redirect loop.
Every early return of `ns_fetch_sync_hop` is `EndWithoutNetwork`; the ways a
transfer ends are the `Outcomes`, which tell apart what the code then does.
The URL is a scheme and a host, which is what the origin comparison, the
upgrade to https and the slot key look at. `ns_url_origin_from` (`net.c:790`) knows
an origin for http and https only, and `net.c:5159` asks for a slot only where there
is an origin: an ftp hop goes straight to its transfer (`GoWithoutSlot`), is counted
nowhere and limited by nothing.

**Watchdog.** Time is counted in ticks: `burstAge`, `respawnIn`, `killIn` and
`quietFor` are what the code computes from `g_get_monotonic_time` and its timers.
A child is starting, has asked for the signal at its parent's death, is up, hangs, or has
exited with a status (`clean`, `crash`, or `stop` for SIGINT, SIGTERM and SIGKILL, which the
supervisor takes as a stop). `SupervisorDies` may happen between any two steps.
`recent` is a history of failures by age, against which the code's window is measured.

**WebSocket, EventSource, Worker.** Each is written over the page, the pump and
what the main thread is in (`page`, `pumping`, `main`), which `PageEvents`
shares among them by `INSTANCE ... WITH`. Events are of a kind only; `idles` are the
dispatches that are due, in order, `held` those put off by a timer, in any order.
A call of the script that touches shared state twice is two steps with `main` set
between them (`ns_ws_close` reads the state, then overwrites it; a worker's
message is posted after `closing` was read). `g_thread_join` is a value of `main`
that only the end of the thread leaves.

**ProcView.** The code compares sequence numbers for equality with the latest;
a request or an answer here is `fresh` or not, and `do_load`, `start_render` and `Stop` take
the freshness of what is under way. Of pages the model keeps whether they are the one
asked for last. Answers are handled in order, as idle callbacks are. `OnResult` is the whole of
`on_result` for a page or a frame, with what it starts at its end.

**HttpCache.** Every renderer opens the same directory, and `g_cache_mutex` is a
mutex of one process. A process is what the thread that holds its mutex is in
the middle of (`job`): each SQLite statement and each write, read or removal of
a file is a step, and between two of them the process may end, be shut down, or
another process act. A call may fail, and the step says what the code does then:
`Unlink` and `Remove` look at no result, `Given` is what `evict_by_select` collects of
the rows that match (nothing when its statement cannot be prepared), `DropRow` and
`Update` may leave the row, a start whose statements fail leaves a process
without a cache that can still be told to clear the files. `surprises` counts
these failures, kills and changes of the clock, so that a run can bound them. A
request is the set of row keys its URL, partition and headers can select; a
response is the size of its body.

Four histories record what the code does not undo, so that the invariants can say
that nothing else does, and when it ends: `torn` keys (two stores at once, an end
between row and file, a file that could not be removed; until a store that is alone
at the key), `leaked` keys (the row went while another process stored the key, the
file could not be removed, an end in a walk over the files; until the same),
`crossed` lookups (one that met a store or a deletion of its key under way), and
`lapsed` (the last eviction did not run to its end).

Definitions whose comment begins with "Mutant:" are wrong on purpose. No
specification uses them; they are plausible slips of the code, listed in
`PROJECT.json`, and the property named there fails when one of them stands in
for the definition it is a slip of.

## 3. What the runs check

| Run | Instance | Shows |
|---|---|---|
| `throttle` | 4 tasks (two on host A, one on B, one without host), 1 preconnect, limits 2 and 1 | the counts are exact and within the limits (`Accounted`), no dispatch is lost (`NoLostDispatch`), only tasks of saturated hosts are overtaken (`NoOvertaking`), TRUE from the drain means quiet (`DrainedIsQuiet`), every task ends, the drain answers even if transfers hang |
| `coalesce` | 2 keys; a preload and a loader on one, a preload on the other, a blocking call; 1 expectation, 3 bytes, bodies of 1 or 2 | one fetch per key, stored or in flight but never both, every joiner held exactly once (`TableSound`); blocked joiners reachable exactly while they sleep, each with a leader (`WaitersAreLed`); exact byte count; answers from the right key; `SingleFlight` implemented; everybody ends |
| `pipeline` | 1 place; a preload and a loader on one key, a request without key, a blocking call, any drain | every group has a thread that will deliver to it; the drain answers everybody it answers for, tasks and groups end together (`AnswersFollowTasks`); throttle and coalescer are both refined (`ImplementsComponents`); every request is answered, across both components |
| `net_multi` | 3 fetches, 2 I/O threads ever started | one running loop, no dangling transfer (`LoopOwnsTransfers`), no forgotten fetch (`BlockedAreDriven`), every transfer and `ns_net_shutdown` end |
| `hops` | a subresource and a navigation, 1 slot per http or https origin, 2 redirects, hosts A (http, https) and B (https, ftp, local) | exact slot counts within the limit, untouched by ftp hops (`SlotsSound`), secrets stay home, every fetch ends; a cancelled one leaves the wait for a slot without anybody's help, an abort ends all without any server's help (`StopIsHeeded`) |
| `watchdog` | 2 pages, burst limit 2 in 4 s, backoff, grace and hang limit 1 s | no browser is left unsupervised, as long as orphans are adopted by process 1 (`NoStrayBrowser`), the burst limit as the code computes it (`CrashLoopGuard`), nothing starts after a stop request (`StopIsFinal`), a stop ends the supervisor, every failure is answered |
| `page_events` | any two of a socket, a stream and a worker; queues of 1; up to 4 messages, stops and pumps for a client alone | a freed page is left alone, the close of a socket is reported, no event of a stream comes twice, `ns_js_free` returns, closed clients end |
| `procview` | 2 restarts, 1 redirect, 5 loads, repaints and navigations of frames; renderers that die, do not start, fail or redirect | the flags are what is really under way (`FlagsAreHonest`), an opened page is shown and no other (`PictureIsOfPage`), the tab comes to rest (`TabSettles`) |
| `cache` | 2 processes, 2 requests with a key each, bodies of 1 and 2 against a limit of 2, an old cache at the start; one of: a kill, a call that fails, a clock that is set | an entry is one response but for a crossed lookup or a torn key (`EntryIsOneResponse`), a file without a row is leaked or about to be removed (`EveryFileHasRow`), with nobody in the middle of anything the files are within the limit, unless lapsed, torn or leaked (`WithinBudget`) |

Three runs show where the code does something other than a document says. Each
checks one property, written from the document, and TLC finds a behaviour that
violates it:

| Run | The document | The code |
|---|---|---|
| `page_reentrancy` | `docs/threading.md:351,373`: no asynchronous source runs page script while another frame of it is on the stack | `ns_worker_deliver_owner` does not look at `in_pump`: a worker's message runs its handler under a script that waits in `ns_js_fetch_resource` |
| `procview_thrash` | `docs/tab-isolation.md:319`: restarts of a dead renderer are bounded, so that a crashing page cannot thrash | every frame that arrives clears the count, and the first frame after a restart is one |
| `cache_variants` | `docs/preloading.md:69`: the cache answers when a fresh entry exists for the variant | `find_row_key` takes the first row that matches; a stale one stored without `Vary` hides the fresh one |

Met while modelling, and left without a run of their own:

* `docs/threading.md:148` says shutdown joins the I/O thread before
  `curl_global_cleanup`. The thread is joined (`net.c:1935`) before the drain tells
  fetches to stop: one in its redirect loop starts another, which runs beside the
  cleanup. `:135` says a pool thread blocks until its transfer is done: one past
  the unlocked test of `g_multi` (`net.c:293`) queues its transfer after the thread
  and the quit flag (`:335`) are gone, and stays blocked. `NetMulti` has both
  behaviours; a shutdown that meets them is slow or unclean.
* `docs/threading.md:267` says all access to the cache is serialised by `g_cache_mutex`.
  Each renderer has a mutex of its own and opens the same rows and files. Without a
  kill or a failing call, two of them can
  - read a row and the file of another response, when one stores between the two reads
    of the other (`crossed`, the exception of `EntryIsOneResponse`);
  - leave the row of one response over the file of another, when both store one key
    (`torn`); the entry is served, and revalidated with the wrong ETag, until it expires
    or is stored again;
  - leave a file without a row: B inserts its row, A's lookup finds the row without a
    file and removes none, B writes the file, A deletes the row (`cache.c:514-522`, `:694-700`).
    Evictions go by rows, so they do not see the file and the limit does not count it
    (`leaked`, an exception of `EveryFileHasRow` and of `WithinBudget`).

  The three properties name these exceptions; the run and the proofs say that there are no
  others. And `ns_cache_shutdown` (`cache.c:351`) takes no lock and runs before the fetches are
  drained (`libnordstjernen.c:940`, `appmain.c:482`): a store that is under way then writes
  its file to a relative path (`PutAstray`).
* `delete_key` (`cache.c:514`, `:521`) ignores what `g_unlink` and the statement return, and
  `evict_by_select` (`cache.c:756`) returns when its statement cannot be prepared: a file may
  outlive its row, and the cache stay over its limit until the next eviction (`lapsed`).
* `docs/preloading.md:214` says the preload map stores at most
  `NS_PRELOAD_MAX_ENTRIES` entries. The limit is compared with the expectations
  (`net.c:5759`), which deliveries use up; only the byte budget bounds the map.
* `docs/preloading.md:103` says a blocking joiner wakes when the network layer
  starts aborting. The drain sets the flag and wakes nobody (`net.c:1905`); a
  joiner sleeps until a delivery or its deadline.
* `docs/watchdog.md` says at most five restarts within sixty seconds. The window
  begins with a failure and is not extended, so failures on both sides of its edge
  count apart; `CrashLoopGuard` is the bound that holds, twice the limit.
* `docs/watchdog.md:97` says a restarted browser restores the session. The next
  write of the session file (`procwindow.c:2393`) takes only tabs with a current URL: a restored
  tab that is still loading or deferred is left out, and a second crash loses it.
* The comment at `procview.c:4057` says closing a tab interrupts the renderer so
  that the join is prompt. A tab closed while its worker starts a renderer finds none
  in `v->proc` (`:1416`, `:1432`), interrupts nothing, and waits for the worker's call to the new one.
* A renderer killed between the row and the file of `ns_cache_put` (`cache.c:694`, `:698`)
  leaves the new headers, with their lifetime and ETag, over the old body. Nothing
  compares `body_size` with the file, so the entry is served, and revalidated, until it
  expires or is stored again (`torn`).
* A renderer killed in `ns_cache_clear` (`cache.c:387`) leaves files whose rows are
  gone. Evictions go by rows, so these files stay until they are stored again or
  the cache is cleared (`leaked`).

### Bounds, and why they are enough

* Limits are one or two so that they bind: with two places and one per host, a
  task is skipped for its host, another for the global limit, and a third
  overtakes.
* Two keys are what an error that mixes keys needs; three async requests and a
  blocked one give every pairing of leader and joiner, and a byte budget of
  three against bodies of one and two is met exactly, exceeded, and undercut.
* A deeper queue or more joiners repeat those situations. For the safety
  properties that are also proved, the number of tasks, keys, hosts, fetches and
  the limits are arbitrary, so the bounds matter for liveness only.
* Two events of a stream are what one given twice needs, queues of one entry make
  the second message droppable, and two pumps let a timer put an event off twice. Any two
  clients of a page together show each way one's join delays another; three add
  states and no new pair.
* The burst limit of two within four ticks lets failures fall on both sides of a
  window's edge; a backoff longer than a tick only spaces them out.
* In `ProcView` five inputs allow load, repaint, stop and load again around two
  answers under way. The restart limit of two lets a count be raised, cleared and used up.
* In `HttpCache` two processes are what an interference needs, and bodies of one and two
  against a limit of two make a store fit, replace and evict. One surprise lets a
  process be killed, a call fail or the clock be set at any point of any
  interleaving; what follows one of them is met by every later store, lookup and eviction
  of either process. The theorems have no bound on processes, keys, the overlap of
  requests, surprises or the clock. `cache_variants` has one process and two
  requests that share a key.
* `watchdog` has `InitAdopts = TRUE`: orphans are adopted by process 1.
* `MaxLoops` bounds the I/O threads ever started. A shutdown happens once, so
  the first thread and the one that a late fetch starts are all there can be
  unless `curl_multi_init` fails, which `Start` allows without a thread.
* Each origin has one slot in `hops`, so that two fetches suffice to compete;
  two redirects let a chain leave an origin and come back.
* Every request, task and preconnect is made at most once. A repeated request is
  another member of the set.

`CHECK_DEADLOCK` is off in all runs but those of the cache, where a process can always
store or start: once every request is made and answered, the system may stop, and a
drained network layer does.

### Fairness, and why the code justifies it

Threads inside the network layer run: weak fairness of every step of a thread
that has something to do. Transfers end, because `CURLOPT_TIMEOUT` bounds
each: weak fairness of `Return`, `Land`, `TransferEnds`. Nobody is obliged to
make a request, to cancel one, or to shut down.

Three properties assume less, and are stronger for it. `DrainEnds` assumes the
main thread alone: transfers may hang. `CancelEndsTheWait` assumes the waiting
threads alone, which wake every 250 ms. `AbortEndsEveryFetch` assumes no server: curl
calls `ns_xferinfo_cb` at least about once a second, which sees the flag.
`coalesce` gives `Deadline` no fairness, so blocked joiners end without it.

`NetMulti` needs strong fairness of `Complete`: the I/O thread is in the half of
its loop where it can see a transfer end only now and then.

`Watchdog`: the supervisor's main loop dispatches what is due, the clock runs, the
kernel delivers SIGKILL, and the hang monitor's thread is not stopped. The
browser owes nothing: it may hang, ignore SIGTERM, and never start up.

`PageEvents`: the threads run and the main loop dispatches. A handshake and a
stream are obliged to end only once `exit_requested` is set, because the progress callbacks
abort them then; a worker's fetch ends by its timeouts and its script by budget or the
interrupt handler; a pump ends with its transfer. No server is obliged to anything,
and no page to close what it opened.

`ProcView`: the worker runs, a call to a renderer returns (a read gives up after
30 s), idle callbacks run, and a tab that is being closed goes on closing. Renderers
may die for ever.

In `throttle`, `coalesce` and `hops` liveness is stated as `Fairness => ...`, so that the
run checks its invariants on the specification without fairness; the others
name `FairSpec`.

## 4. What is proved

All proofs hold for every value of the constants that satisfies the named
assumption of the module (finite sets of tasks and preconnects, positive limits,
disjoint kinds of requests, functions with the right domain). TLC evaluates the
assumptions in the runs. Where a theorem asks for more, it says so in its statement:
finitely many keys where bytes are summed. Every invariant and every action property that a passing run
checks is proved, and so is every refinement; liveness is not.

**Sums** (`SumLemmas`). `MapThenSumSet` is a fold: a recursive function over the
subsets of a set, which takes the elements in an order that CHOOSE fixes. The
module shows that such a function exists for every finite set, that any two agree, and
that the order does not matter: what is left when any element is taken out is the
sum of the others (`TotalSplit`). From this follow the laws the proofs use: a sum
changes by what one summand changes by, may be cut in two, and is the same when its
summands all move up one place. Induction over finite sets is replaced by the least
counterexample, which `WFMin` gives for the cardinalities: that theorem has no
operator as a parameter.

**Throttle** (`FetchThrottle_proofs`): `TypeOK`, `Accounted` (its parts
`CountersExact` and `WithinLimits` also alone), `NoLostDispatch`, `DrainedIsQuiet` and the action property `NoOvertaking`. The
inductive invariant `IInv` adds to them that the queue holds each queued task
once (`QueueExact`; without it `Dispatch` could start a task twice and the count
would be off), that the preconnect count is exact (`PreCountExact`; the drain's TRUE
rests on it), that the counts, not only the sets they count, respect the limits,
and what each stage of the drain has achieved (`DrainProgress`). That a
preconnect spawned but not counted cannot connect after the drain follows from
`PreCheck` reading the flag after the count was raised.

**Coalescer** (`FetchCoalesce_proofs`): `TypeOK`, `TableSound` (`OneFlightPerKey`,
`StoreXorFlight`, `JoinerHeldOnce`), `WaitersAreLed` (`WaiterReachable`, `WaiterHasLeader`),
`AnswerIsForKey`. `CInv`
replaces the cardinalities of `JoinerHeldOnce` by where joiners are
(`JoinersInGroups`, `JoinersInOutboxes`, `JoinersHeld`), and `OutcomesBound` follows
an outcome from its leader to answered joiners and into the preload map, which
is what makes `AnswerIsForKey` survive a stored response. `BytesExact`, for finitely many
keys, rests on `BytesInv`: each step but `Clear`, which empties the
map, changes the size of at most one key, and the counter by as much; the subtraction that clamps at zero in the code never has to, because a sum
is at least each of its parts.

**Refinement** (same module): `Spec => ImplementsSingleFlight`. A claim maps to
`Fly`, `Ride`, `TurnAway` or `Take`; a delivery to `Land`, with `keep` when
the response is stored; leaving a wait to `Leave`, `Clear` to `Forget`; all that
happens after the unlock of a delivery is a stutter. `Mapped` states what the mapping yields in each
phase, given `CInv`, so that the step lemmas need not unfold it.
`RidersAreBound` and `ServedRightly` prove of the abstract table that a request rides
only on the fetch that holds its key's slot, and is served only by a landed fetch for
its own key, and then, by the refinement, of the coalescer.

**Pipeline** (`FetchPipeline_proofs`): both refinements, and through them the
invariants of the components; then `EveryGroupHasDriver` and
`AnswersFollowTasks` (`LeaderAnsweredWithTask`, `DrainedAnswersEveryone`) from `PInv`, which ties for
each request the place of its task to the state of its group.

**Hops** (`FetchTransport_proofs`): `TypeOK`, `SlotsSound`, `SecretsStayHome`.
`SlotsExact` is needed for `TypeOK`: a release lowers a count that is positive
only because its own fetch holds a slot. `SecretsInv` extends `SecretsStayHome`
to every point of the chain.

**I/O thread** (same module): `MultiTypeOK`, `LoopOwnsTransfers` (`OneLoop`, `TransfersOnLiveStacks`),
`BlockedAreDriven` (`WaiterIsDriven`, `QuitLeavesNobody`). `MInv` says that only the thread
`g_multi_thread` names can run, that before a shutdown this thread runs and
knows every waiter, and what holds at each stage of the shutdown: while the
thread is joined every waiter is known to it, and from its exit until the flag is
taken back nobody waits. It says nothing of the time after that, in which the
shutdown can go wrong (section 3).

**Watchdog** (`CrashRecovery_proofs`): `TypeOK`, `NoStrayBrowser`, `CrashLoopGuard` and the
action property `StopIsFinal`, for every burst limit and every length of the timers. `Supervised`
ties the supervisor's flags to its child and its timers: a pid is held exactly
while a child is unreaped, no restart is scheduled meanwhile, a kill is
scheduled only after a stop request, and a child that outlives the request has been sent
SIGTERM. Without the last two, a timer could hit a child it was not set for.
`CrashLoopGuard` needs what the counter knows (`Counted`): inside its window it is the number
of failures no older than the window, and the older ones are at most the limit,
because their window ended without the supervisor giving up; after the window it
bounds everything recent. Twice the limit is what the two parts add up to.
`GivesUp` adds that a count beyond the limit ends the loop in the same iteration, in which no
second passes.

**HTTP cache** (same module): `CacheTypeOK`, `EntryIsOneResponse`, `EveryFileHasRow` and
`WithinBudget`, for any number of processes with one directory, and any number of ends,
shutdowns and failing calls between any two steps. The invariant `CacheInv` has three parts.
`Bodies` is about rows and files of two responses: where the two differ the key is torn
or somebody is about to write the file or to delete the entry (`DifferForReason`); who is
about to write a file finds the row it wrote, or none, or the key is torn
(`StoresAgree`); and a lookup that is not crossed, of a key that is not torn, finds nobody
storing there and reads the file of its row (`LookupsAgree`). `Places` is about files
without rows: each is leaked or on somebody's walk (`FilesHaveRows`), who is about to write
a file has its row, or the key is leaked (`StoresHaveRows`), and a row is dropped over no
file, or over one that leaked (`DropsHaveNoFile`). `Versions` says that a cache of another version
only sees processes that start, fail to, or clear (`NotYet`), and gets its version when no
file is left but leaked ones (`UpgradeIsClean`).
`WithinBudget` rests on `InBudget`: from an eviction to the next store, the entries
with row and file that are neither leaked nor about to be deleted or stored are within
the limit by the sizes in their rows, as long as no process is on its way to
another eviction or in one (`AllSettled`). An eviction establishes it, because the survivors are all counted in the
running sum of the last of them (`LastInOrder`), whatever the other processes are in the
middle of; every other step adds nothing (`AddsNothing`). Row sizes become
file sizes through `Bodies` and `Places` once nobody is in the middle of anything.

**Tab view** (`ProcView_proofs`): `TypeOK`, `FlagsAreHonest` and `PictureIsOfPage`. The invariant
follows each request and each answer through the queue, the worker and the results: what
is under way for a page that is open is at most one request, and `inflight` says
so; before the page is open everything under way is stale but for a load at the
very end, so that an answer of an older page cannot be taken for one of this.

**Page clients** (`PageEvents_proofs`): the three invariants of the run.
`FreedPageIsQuiet` follows from `CutOff`: a client that was joined has an ended
thread and a flag that keeps its events from the page, and the page is freed
after both. `NoEventTwice` follows from `EInv`, which says where an event of the
stream is: not read yet, in one place of one queue, or with the page; the lemmas
`AppendOnce`, `TakenOut` and `TailOnce` say what the queue operations do to that, whatever order the
timers fire in. `CloseIsReported` follows from `CInv`: the thread posts the close
last, no step drops it unless the socket was detached, and as long as there was no pump
nothing is put off.

### Only model-checked

* Liveness: `EveryTaskEnds`, `DrainEnds`, `EveryRequestEnds`, `EveryRequestAnswered`,
  `TransfersEnd`, `ShutdownReturns`, `EveryFetchEnds`, `StopIsHeeded`, `StopEnds`, `FailureIsAnswered`, `TeardownEnds`,
  `ClosedClientsEnd`, `TabSettles`.
That something eventually happens is out of the provers' reach.

## 5. What the models leave out

* Bodies, header text, MIME sniffing, cookies, the referrer policy, the contents of the
  HSTS store and of the cache: where control depends on them, the model chooses.
* In `FetchHops` the marks of a host and the release of the slot, under two
  locks but without a shared variable, are one step. The retry after a
  certificate error is inside the transfer. That a fetch marks a host dead after
  another has reached it has no property: no document orders the two, and the
  mark is a hint that expires.
* What curl does when `curl_multi_cleanup` runs under a running loop is undefined,
  and not followed: in `NetMulti` the loop of a second thread goes on as if the handle were
  still there.
* The HTTP/2 backend (`net_http2.c`) is an alternative transport of a hop, off by default;
  the models follow the curl path.
* `Watchdog`: the Windows branches. A child looks only whether its parent is process 1
  (`watchdog.c:91`): one whose supervisor died before the `prctl` and which a subreaper
  adopted (`InitAdopts = FALSE`) goes on unsupervised. The module has that behaviour, and
  `NoStrayBrowser` claims nothing of orphans then.
* `HttpCache`: a table that an upgrade has dropped and not yet made again is taken for an
  empty one. Age limits and freshness are counted in single seconds.
* `PageEvents`: what a handler does that an event runs inside a pump; events of a
  stream without an id, and servers that send an event again; sources a worker's
  owner attaches after the context was drained, which leak the host. As in the code, an
  event whose id line was read but which was torn before its blank line is not sent
  again; a pinned stream outlives `ns_js_free` with its thread; and an open event that
  was queued before `close()` still sets `readyState` to open.
* `ProcView`: input, tick, media and permission requests, printing, history entries, the
  console, and what is drawn. A page that cannot be drawn comes as a white frame
  (`renderer_serve.c:520`), and a frame for which `stage_fill` (`procview.c:1475`) finds no memory
  leaves the tab as it was while the renderer may say unchanged from then on; `ServeRender`
  takes both for a frame of the page. As in the code, `stop`
  does not make a load stale, so a load that was under way still opens its page, and a load
  by the user does not reset the redirect count.
* The parts of section 1 that have no module: single-process renderer, renderer
  session, stores, media helpers. The page
  engine, the script bindings and the media codecs stay out: sequential code over data that
  TLC could only sample. Vendored engines are not this project's code.

## 6. Plan

The network layer came first because every other component depends on it and
most of the shared state is there; then the processes and threads around the
engine. What is left, in this order:

| Module | Abstracts | Run and main properties | To prove |
|---|---|---|---|
| `ProcView` (extended) | input, tick and media requests and their answers | the same three properties | the invariant of `ProcView_proofs`, with the new kinds of requests |
| `InprocHost` | reader threads and busy queue | order, `inproc_print` does not wait for itself | |
| `FrameRing` | sequence lock of the shared-memory frame ring | no torn frame | the lock's invariant |

Candidates for further abstract specifications
are a fair bounded server for the throttle, and a channel that may reorder only
under a pump for `WebSocket` and `EventSource`.
