---------------------------- MODULE FetchThrottle ----------------------------
(***************************************************************************)
(* The fetch throttle of src/src/net.c: one queue of GTasks, a global and a *)
(* per-host limit on the tasks handed to the thread pool, and the drain     *)
(* that empties it at shutdown.                                             *)
(*                                                                         *)
(* Threads: any number of callers of ns_fetch_throttle_submit, one pool     *)
(* thread per running task, one thread per preconnect, and the main thread  *)
(* in ns_net_drain.  Every critical section of g_fetch_throttle_mutex is    *)
(* one action.  A caller inside the loop of ns_fetch_throttle_dispatch is   *)
(* a member of pumping: each iteration locks anew, so other threads run     *)
(* between two iterations of the same caller.                               *)
(***************************************************************************)
EXTENDS Integers, Sequences, FiniteSets, SequencesExt

CONSTANTS
    Tasks,          \* the fetches ever submitted
    Preconnects,    \* the calls of ns_net_preconnect_async
    Hosts,          \* the hosts that tasks name
    NoHost,         \* ns_fetch_task_host returned NULL
    HostOf,         \* [Tasks -> Hosts \cup {NoHost}]
    MaxConcurrent,  \* NS_MAX_CONCURRENT_FETCHES
    MaxPerHost      \* NS_MAX_FETCHES_PER_HOST

ASSUME ThrottleAssumption ==
    /\ IsFiniteSet(Tasks)
    /\ IsFiniteSet(Preconnects)
    /\ NoHost \notin Hosts
    /\ HostOf \in [Tasks -> Hosts \cup {NoHost}]
    /\ MaxConcurrent \in Nat \ {0}
    /\ MaxPerHost \in Nat \ {0}

VARIABLES
    queue,       \* g_fetch_queue
    active,      \* g_fetch_active
    hostActive,  \* g_fetch_host_active (an absent host counts 0)
    phase,       \* where each task is
    pumping,     \* callers inside ns_fetch_throttle_dispatch
    preActive,   \* g_preconnect_active
    prePhase,    \* where each preconnect thread is
    aborting,    \* g_net_aborting
    drain        \* where ns_net_drain is

vars == <<queue, active, hostActive, phase, pumping,
          preActive, prePhase, aborting, drain>>

Callers == {"submit", "finish"} \X Tasks

(* "running": handed to g_task_run_in_thread; "returned": the result has   *)
(* been given to the GTask, the counters not yet lowered; "dropped": popped *)
(* by the drain, not yet failed.                                            *)
Phases == {"new", "queued", "running", "returned", "finished",
           "dropped", "abandoned"}

PrePhases == {"new", "spawned", "counted", "connecting", "skipping", "done"}

DrainPhases == {"idle", "aborting", "abandoning", "waiting",
                "drained", "timedout"}

TypeOK ==
    /\ queue \in Seq(Tasks)
    /\ active \in Nat
    /\ hostActive \in [Hosts -> Nat]
    /\ phase \in [Tasks -> Phases]
    /\ pumping \subseteq Callers
    /\ preActive \in Nat
    /\ prePhase \in [Preconnects -> PrePhases]
    /\ aborting \in BOOLEAN
    /\ drain \in DrainPhases

Init ==
    /\ queue = << >>
    /\ active = 0
    /\ hostActive = [h \in Hosts |-> 0]
    /\ phase = [t \in Tasks |-> "new"]
    /\ pumping = {}
    /\ preActive = 0
    /\ prePhase = [p \in Preconnects |-> "new"]
    /\ aborting = FALSE
    /\ drain = "idle"

-----------------------------------------------------------------------------
(* Submission and dispatch.                                                *)

(* Mutant: the limit is compared one too high.                             *)
HasRoomOneTooMany(t) ==
    HostOf[t] = NoHost \/ hostActive[HostOf[t]] <= MaxPerHost

(* ns_fetch_host_count_locked(host) < NS_MAX_FETCHES_PER_HOST, or no host. *)
HasRoom(t) == HostOf[t] = NoHost \/ hostActive[HostOf[t]] < MaxPerHost

(* The positions the scan of the queue would accept.                       *)
Eligible ==
    IF active >= MaxConcurrent
    THEN {}
    ELSE {i \in DOMAIN queue : HasRoom(queue[i])}

(* ns_fetch_host_adjust_locked: a task without a host is not counted, and  *)
(* a count that would fall to zero or below leaves the table.              *)
HostAdjusted(h, delta) ==
    [g \in Hosts |->
        IF g # h THEN hostActive[g]
        ELSE IF hostActive[g] + delta <= 0 THEN 0
        ELSE hostActive[g] + delta]

(* ns_fetch_throttle_submit: push under the lock, then enter the dispatch  *)
(* loop.  Nobody submits once the main thread is in the drain.             *)
Submit(t) ==
    /\ drain = "idle"
    /\ phase[t] = "new"
    /\ queue' = Append(queue, t)
    /\ phase' = [phase EXCEPT ![t] = "queued"]
    /\ pumping' = pumping \cup {<<"submit", t>>}
    /\ UNCHANGED <<active, hostActive, preActive, prePhase, aborting, drain>>

(* Mutant: the scan takes the last eligible task.                          *)
DispatchLast(c, i) ==
    /\ c \in pumping
    /\ i \in Eligible
    /\ \A j \in Eligible : j <= i
    /\ queue' = RemoveAt(queue, i)
    /\ active' = active + 1
    /\ hostActive' = HostAdjusted(HostOf[queue[i]], 1)
    /\ phase' = [phase EXCEPT ![queue[i]] = "running"]
    /\ UNCHANGED <<pumping, preActive, prePhase, aborting, drain>>

(* One iteration of ns_fetch_throttle_dispatch that starts a task: the     *)
(* first in the queue whose host has room.  The caller stays in the loop.  *)
Dispatch(c, i) ==
    /\ c \in pumping
    /\ i \in Eligible
    /\ \A j \in Eligible : i <= j
    /\ queue' = RemoveAt(queue, i)
    /\ active' = active + 1
    /\ hostActive' = HostAdjusted(HostOf[queue[i]], 1)
    /\ phase' = [phase EXCEPT ![queue[i]] = "running"]
    /\ UNCHANGED <<pumping, preActive, prePhase, aborting, drain>>

(* The iteration that finds nothing to start: the caller leaves the loop.  *)
StopPumping(c) ==
    /\ c \in pumping
    /\ Eligible = {}
    /\ pumping' = pumping \ {c}
    /\ UNCHANGED <<queue, active, hostActive, phase,
                   preActive, prePhase, aborting, drain>>

(* ns_fetch_thread up to g_task_return_pointer / g_task_return_error.      *)
Return(t) ==
    /\ phase[t] = "running"
    /\ phase' = [phase EXCEPT ![t] = "returned"]
    /\ UNCHANGED <<queue, active, hostActive, pumping,
                   preActive, prePhase, aborting, drain>>

(* Mutant: the thread ends without dispatching again.                      *)
FinishWithoutDispatch(t) ==
    /\ phase[t] = "returned"
    /\ phase' = [phase EXCEPT ![t] = "finished"]
    /\ active' = IF active > 0 THEN active - 1 ELSE active
    /\ hostActive' = HostAdjusted(HostOf[t], -1)
    /\ UNCHANGED <<queue, pumping, preActive, prePhase, aborting, drain>>

(* Mutant: the host's count is not lowered.                                *)
FinishKeepingHost(t) ==
    /\ phase[t] = "returned"
    /\ phase' = [phase EXCEPT ![t] = "finished"]
    /\ active' = IF active > 0 THEN active - 1 ELSE active
    /\ pumping' = pumping \cup {<<"finish", t>>}
    /\ UNCHANGED <<queue, hostActive, preActive, prePhase, aborting, drain>>

(* The rest of ns_fetch_thread: lower the counts under the lock, then      *)
(* enter the dispatch loop.                                                *)
Finish(t) ==
    /\ phase[t] = "returned"
    /\ phase' = [phase EXCEPT ![t] = "finished"]
    /\ active' = IF active > 0 THEN active - 1 ELSE active
    /\ hostActive' = HostAdjusted(HostOf[t], -1)
    /\ pumping' = pumping \cup {<<"finish", t>>}
    /\ UNCHANGED <<queue, preActive, prePhase, aborting, drain>>

-----------------------------------------------------------------------------
(* Preconnects: ns_net_preconnect_async and ns_preconnect_thread.          *)

PreSpawn(p) ==
    /\ drain = "idle"
    /\ prePhase[p] = "new"
    /\ prePhase' = [prePhase EXCEPT ![p] = "spawned"]
    /\ UNCHANGED <<queue, active, hostActive, phase, pumping,
                   preActive, aborting, drain>>

PreEnter(p) ==
    /\ prePhase[p] = "spawned"
    /\ prePhase' = [prePhase EXCEPT ![p] = "counted"]
    /\ preActive' = preActive + 1
    /\ UNCHANGED <<queue, active, hostActive, phase, pumping, aborting, drain>>

(* g_net_aborting is read after the count is raised: an aborting network   *)
(* layer makes the thread skip curl.                                       *)
PreCheck(p) ==
    /\ prePhase[p] = "counted"
    /\ prePhase' = [prePhase EXCEPT ![p] =
                        IF aborting THEN "skipping" ELSE "connecting"]
    /\ UNCHANGED <<queue, active, hostActive, phase, pumping,
                   preActive, aborting, drain>>

PreLeave(p) ==
    /\ prePhase[p] \in {"connecting", "skipping"}
    /\ prePhase' = [prePhase EXCEPT ![p] = "done"]
    /\ preActive' = IF preActive > 0 THEN preActive - 1 ELSE preActive
    /\ UNCHANGED <<queue, active, hostActive, phase, pumping, aborting, drain>>

-----------------------------------------------------------------------------
(* ns_net_drain, run by the thread that submits, so it starts only when no *)
(* submitter is inside the dispatch loop.                                  *)

DrainStart ==
    /\ drain = "idle"
    /\ \A t \in Tasks : <<"submit", t>> \notin pumping
    /\ aborting' = TRUE
    /\ drain' = "aborting"
    /\ UNCHANGED <<queue, active, hostActive, phase, pumping,
                   preActive, prePhase>>

(* First critical section: every queued task moves to the local list.      *)
DrainTake ==
    /\ drain = "aborting"
    /\ drain' = "abandoning"
    /\ queue' = << >>
    /\ phase' = [t \in Tasks |->
                    IF t \in Range(queue) THEN "dropped" ELSE phase[t]]
    /\ UNCHANGED <<active, hostActive, pumping, preActive, prePhase, aborting>>

(* ns_fetch_task_abandon and g_task_return_error for one of them.          *)
Abandon(t) ==
    /\ drain = "abandoning"
    /\ phase[t] = "dropped"
    /\ phase' = [phase EXCEPT ![t] = "abandoned"]
    /\ UNCHANGED <<queue, active, hostActive, pumping,
                   preActive, prePhase, aborting, drain>>

DrainWait ==
    /\ drain = "abandoning"
    /\ \A t \in Tasks : phase[t] # "dropped"
    /\ drain' = "waiting"
    /\ UNCHANGED <<queue, active, hostActive, phase, pumping,
                   preActive, prePhase, aborting>>

(* Mutant: the wait looks at the fetches only.                             *)
DrainDoneIgnoringPreconnects ==
    /\ drain = "waiting"
    /\ active = 0
    /\ drain' = "drained"
    /\ UNCHANGED <<queue, active, hostActive, phase, pumping,
                   preActive, prePhase, aborting>>

(* The wait on g_fetch_idle_cond sees both counts at zero.                 *)
DrainDone ==
    /\ drain = "waiting"
    /\ active = 0
    /\ preActive = 0
    /\ drain' = "drained"
    /\ UNCHANGED <<queue, active, hostActive, phase, pumping,
                   preActive, prePhase, aborting>>

(* Mutant: the deadline is dropped while a fetch runs.                     *)
DrainTimeoutOnlyForPreconnects ==
    /\ drain = "waiting"
    /\ active = 0 /\ preActive # 0
    /\ drain' = "timedout"
    /\ UNCHANGED <<queue, active, hostActive, phase, pumping,
                   preActive, prePhase, aborting>>

(* The deadline passes; the counts are read once more before giving up.    *)
DrainTimeout ==
    /\ drain = "waiting"
    /\ active # 0 \/ preActive # 0
    /\ drain' = "timedout"
    /\ UNCHANGED <<queue, active, hostActive, phase, pumping,
                   preActive, prePhase, aborting>>

-----------------------------------------------------------------------------
Pump(c) == StopPumping(c) \/ \E i \in DOMAIN queue : Dispatch(c, i)

PreStep(p) == PreEnter(p) \/ PreCheck(p) \/ PreLeave(p)

DrainStep ==
    \/ DrainTake \/ DrainWait \/ DrainDone \/ DrainTimeout
    \/ \E t \in Tasks : Abandon(t)

Next ==
    \/ \E t \in Tasks : Submit(t) \/ Return(t) \/ Finish(t)
    \/ \E c \in pumping : Pump(c)
    \/ \E p \in Preconnects : PreSpawn(p) \/ PreStep(p)
    \/ DrainStart
    \/ DrainStep

Spec == Init /\ [][Next]_vars

(* Every thread inside the network layer keeps running, and every transfer *)
(* ends: curl's own timeout bounds it.  Nobody is obliged to submit, to    *)
(* preconnect or to shut down.                                             *)
Fairness ==
    /\ \A c \in Callers : WF_vars(Pump(c))
    /\ \A t \in Tasks : WF_vars(Return(t)) /\ WF_vars(Finish(t))
    /\ \A p \in Preconnects : WF_vars(PreStep(p))
    /\ WF_vars(DrainStep)

(* The main thread's own progress alone: transfers may hang.               *)
DrainFairness == WF_vars(DrainStep)

-----------------------------------------------------------------------------
(* Properties.                                                             *)

Counted == {t \in Tasks : phase[t] \in {"running", "returned"}}
CountedOn(h) == {t \in Counted : HostOf[t] = h}

(* The counters never drift from the tasks that hold a place: whatever the *)
(* order of dispatches, returns and drains, g_fetch_active is the number of *)
(* tasks between their dispatch and the last lock of ns_fetch_thread, and   *)
(* g_fetch_host_active is that number host by host.                        *)
CountersExact ==
    /\ active = Cardinality(Counted)
    /\ \A h \in Hosts : hostActive[h] = Cardinality(CountedOn(h))

(* Whatever the interleaving of dispatching threads, never more tasks hold *)
(* a place than NS_MAX_CONCURRENT_FETCHES, nor more on one host than       *)
(* NS_MAX_FETCHES_PER_HOST.                                                *)
WithinLimits ==
    /\ Cardinality(Counted) <= MaxConcurrent
    /\ \A h \in Hosts : Cardinality(CountedOn(h)) <= MaxPerHost

(* Both at once: the places are counted exactly and never oversubscribed,   *)
(* however the locks of returning threads, dispatchers and drain interleave *)
(* (net.c, g_fetch_throttle_mutex is taken twice per task).                *)
Accounted == CountersExact /\ WithinLimits

(* No wakeup is lost: whenever a queued task could start, some thread is   *)
(* still inside the dispatch loop and will start it.                       *)
NoLostDispatch == Eligible # {} => pumping # {}

(* What ns_net_shutdown relies on when ns_net_drain returns TRUE: no task  *)
(* is queued, running or waiting to be failed, and no preconnect thread is *)
(* using curl, even one that was spawned but had not raised its count.     *)
DrainedIsQuiet ==
    drain = "drained" =>
        /\ queue = << >>
        /\ \A t \in Tasks : phase[t] \notin {"queued", "running", "returned",
                                             "dropped"}
        /\ \A p \in Preconnects : prePhase[p] # "connecting"

(* Skipping a saturated host is the only way past an earlier task: when a  *)
(* task starts, everything queued before it names a host at its limit.     *)
NoOvertaking ==
    [][\A i, j \in DOMAIN queue :
          (i < j /\ phase[queue[j]] = "queued" /\ phase'[queue[j]] = "running")
          => /\ HostOf[queue[i]] # NoHost
             /\ Cardinality(CountedOn(HostOf[queue[i]])) = MaxPerHost]_vars

(* Every fetch that was submitted ends: it runs to completion, or the      *)
(* drain fails it.                                                         *)
EveryTaskEnds ==
    Fairness =>
        \A t \in Tasks :
            phase[t] = "queued" ~> phase[t] \in {"finished", "abandoned"}

(* The drain gives ns_net_shutdown an answer even when transfers hang: it  *)
(* needs no fairness but its own.                                          *)
DrainEnds ==
    DrainFairness => (drain = "aborting" ~> drain \in {"drained", "timedout"})
=============================================================================
