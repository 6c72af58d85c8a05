---------------------------- MODULE FetchPipeline ----------------------------
(***************************************************************************)
(* The throttle and the coalescer of src/src/net.c put together: a call of  *)
(* ns_net_request_async or ns_net_request_blocking from its claim to its    *)
(* answer, and ns_net_drain across both.                                   *)
(*                                                                         *)
(* The main thread claims and then submits, the pool threads fetch, deliver *)
(* and return, worker threads call the blocking variant and fetch on their  *)
(* own stack outside the throttle.  g_fetch_mutex and                      *)
(* g_fetch_throttle_mutex are never held together, so every step here is a  *)
(* step of one component, or the one in which a GTask is returned.         *)
(***************************************************************************)
EXTENDS Integers, Sequences, FiniteSets

CONSTANTS
    Keys, KeyOf, None,
    AsyncReqs,    \* calls of ns_net_request_async that have a key
    Keyless,      \* calls that have none: cancellable, or with a body
    SyncReqs,     \* calls of ns_net_request_blocking that have a key
    Preloads,     \* the async calls of the speculative scan
    MaxExpected, MaxBytes, Sizes,
    Hosts, NoHost, HostOf,
    MaxConcurrent, MaxPerHost,
    Preconnects

VARIABLES
    \* the coalescer
    phase, result, flight, tasks, syncs, outbox, nudged,
    expected, store, bytes, scanning,
    \* the throttle
    queue, active, hostActive, place, pumping, preActive, prePhase, drain,
    \* g_net_aborting, which both read
    aborting

Tasks == AsyncReqs \cup Keyless

C == INSTANCE FetchCoalesce

T == INSTANCE FetchThrottle WITH phase <- place

ASSUME PipelineAssumption ==
    /\ AsyncReqs \cap SyncReqs = {}
    /\ Keyless \cap (AsyncReqs \cup SyncReqs) = {}
    /\ Preloads \subseteq AsyncReqs
    /\ KeyOf \in [AsyncReqs \cup SyncReqs -> Keys]
    /\ None \notin AsyncReqs \cup SyncReqs /\ None \notin Keys
    /\ MaxExpected \in Nat /\ MaxBytes \in Nat /\ Sizes \subseteq Nat
    /\ IsFiniteSet(Tasks) /\ IsFiniteSet(Preconnects)
    /\ NoHost \notin Hosts
    /\ HostOf \in [Tasks -> Hosts \cup {NoHost}]
    /\ MaxConcurrent \in Nat \ {0} /\ MaxPerHost \in Nat \ {0}

coalesceVars == <<phase, result, flight, tasks, syncs, outbox, nudged,
                  expected, store, bytes, scanning>>

throttleVars == <<queue, active, hostActive, place, pumping,
                  preActive, prePhase, drain>>

vars == <<coalesceVars, throttleVars, aborting>>

Init == C!Init /\ T!Init

-----------------------------------------------------------------------------
(* ns_net_request_async and the speculative scan, on the main thread.      *)

(* The leader the main thread has made and not yet submitted.              *)
Unsubmitted == {r \in AsyncReqs : phase[r] = "lead" /\ place[r] = "new"}

(* The main thread is between two calls, outside the dispatch loop.        *)
MainFree ==
    /\ drain = "idle"
    /\ Unsubmitted = {}
    /\ \A t \in Tasks : <<"submit", t>> \notin pumping

Scan ==
    /\ MainFree
    /\ C!Clear \/ \E k \in Keys : C!Expect(k)
    /\ UNCHANGED throttleVars

(* A key: take the preloaded response, join a group, or lead a new one.    *)
ClaimAsync(r) ==
    /\ r \in AsyncReqs
    /\ MainFree
    /\ scanning # None => r \in Preloads
    /\ C!Claim(r)
    /\ UNCHANGED throttleVars

(* The leader's task, or the task of a request without a key, is queued.   *)
Submit(t) ==
    /\ IF t \in Keyless THEN MainFree /\ scanning = None ELSE t \in Unsubmitted
    /\ T!Submit(t)
    /\ UNCHANGED coalesceVars

Pump(c) == T!Pump(c) /\ UNCHANGED coalesceVars

-----------------------------------------------------------------------------
(* ns_fetch_thread, on a pool thread.                                      *)

(* The fetch ends with any outcome, and is delivered to the group.         *)
Fetched(r) ==
    /\ place[r] = "running"
    /\ C!Land(r)
    /\ UNCHANGED throttleVars

(* The joiners are answered by the thread that delivered: a pool thread,   *)
(* the drain, or the worker thread of a blocking call.                     *)
AnswerJoiner(r) ==
    /\ \E j \in outbox[r] : C!ReturnJoiner(r, j)
    /\ UNCHANGED throttleVars

(* Mutant: an early return skips the delivery.                             *)
ReturnUndelivered(t) == T!Return(t) /\ UNCHANGED coalesceVars

(* g_task_return_pointer or g_task_return_error, after the delivery.       *)
ReturnTask(t) ==
    /\ T!Return(t)
    /\ IF t \in Keyless THEN UNCHANGED coalesceVars ELSE C!ReturnLeader(t)

Finish(t) == T!Finish(t) /\ UNCHANGED coalesceVars

-----------------------------------------------------------------------------
(* ns_net_request_blocking, on a worker thread.                            *)

CallBlocking(s) ==
    /\ s \in SyncReqs
    /\ C!Claim(s)
    /\ UNCHANGED throttleVars

FetchedBlocking(s) ==
    /\ s \in SyncReqs
    /\ C!Land(s) \/ C!ReturnLeader(s)
    /\ UNCHANGED throttleVars

Wake(s) == C!Wake(s) /\ UNCHANGED throttleVars

Deadline(s) == C!Deadline(s) /\ UNCHANGED throttleVars

-----------------------------------------------------------------------------
Preconnect(p) ==
    /\ (MainFree /\ T!PreSpawn(p)) \/ T!PreStep(p)
    /\ UNCHANGED coalesceVars

(* Mutant: the drain forgets to empty the queue.                           *)
DrainStartAbandoning ==
    /\ Unsubmitted = {}
    /\ C!Abort
    /\ drain = "idle"
    /\ drain' = "abandoning"
    /\ UNCHANGED <<queue, active, hostActive, place, pumping,
                   preActive, prePhase>>

(* ns_net_drain.  Raising g_net_aborting is a step of both components.     *)
DrainStart ==
    /\ Unsubmitted = {}
    /\ C!Abort
    /\ T!DrainStart

DrainTake == T!DrainTake /\ UNCHANGED coalesceVars

(* The dropped task whose group the drain has told and which is not failed  *)
(* yet: the drain works on one task at a time.                             *)
Abandoning == {t \in AsyncReqs : place[t] = "dropped" /\ phase[t] = "delivering"}

(* Mutant: the group is removed, and nobody in it is told.                 *)
AbandonGroup(t) ==
    /\ drain = "abandoning"
    /\ place[t] = "dropped"
    /\ t \in AsyncReqs /\ phase[t] = "lead"
    /\ flight' = [flight EXCEPT ![KeyOf[t]] = None]
    /\ phase' = [phase EXCEPT ![t] = "delivering"]
    /\ result' = [result EXCEPT ![t] = C!Failure(t)]
    /\ UNCHANGED <<tasks, syncs, outbox, nudged, expected, store, bytes,
                   scanning, aborting>>
    /\ UNCHANGED throttleVars

(* ns_fetch_task_abandon: the group of a dropped leader is told of the     *)
(* failure before the task is.                                             *)
AbandonDeliver(t) ==
    /\ drain = "abandoning"
    /\ Abandoning = {}
    /\ place[t] = "dropped"
    /\ t \in AsyncReqs
    /\ C!Deliver(t, C!Failure(t))
    /\ UNCHANGED throttleVars

(* Mutant: the drain fails the task and forgets its group.                 *)
AbandonTaskOnly(t) == T!Abandon(t) /\ UNCHANGED coalesceVars

AbandonTask(t) ==
    /\ Abandoning \subseteq {t}
    /\ T!Abandon(t)
    /\ IF t \in Keyless THEN UNCHANGED coalesceVars ELSE C!ReturnLeader(t)

DrainWait ==
    /\ T!DrainWait \/ T!DrainDone \/ T!DrainTimeout
    /\ UNCHANGED coalesceVars

DrainStep ==
    \/ DrainTake
    \/ DrainWait
    \/ \E t \in Tasks : AbandonDeliver(t) \/ AbandonTask(t)

-----------------------------------------------------------------------------
Next ==
    \/ Scan
    \/ \E r \in AsyncReqs : ClaimAsync(r) \/ Fetched(r)
    \/ \E t \in Tasks : Submit(t) \/ ReturnTask(t) \/ Finish(t)
    \/ \E c \in pumping : Pump(c)
    \/ \E r \in AsyncReqs \cup SyncReqs : AnswerJoiner(r)
    \/ \E s \in SyncReqs :
          CallBlocking(s) \/ FetchedBlocking(s) \/ Wake(s) \/ Deadline(s)
    \/ \E p \in Preconnects : Preconnect(p)
    \/ DrainStart
    \/ DrainStep

Spec == Init /\ [][Next]_vars

(* Every thread keeps running and every transfer ends.  The main thread     *)
(* finishes the call it is in; nobody is obliged to start one.             *)
Fairness ==
    /\ \A r \in AsyncReqs : WF_vars(Fetched(r))
    /\ \A t \in Tasks :
          /\ WF_vars(t \in AsyncReqs /\ Submit(t))
          /\ WF_vars(ReturnTask(t))
          /\ WF_vars(Finish(t))
    /\ \A c \in T!Callers : WF_vars(Pump(c))
    /\ \A r \in AsyncReqs \cup SyncReqs : WF_vars(AnswerJoiner(r))
    /\ \A s \in SyncReqs : WF_vars(FetchedBlocking(s)) /\ WF_vars(Wake(s))
    /\ WF_vars(DrainStep)

FairSpec == Spec /\ Fairness

-----------------------------------------------------------------------------
(* Properties.                                                             *)

(* Every group has a thread that will deliver to it: the request that leads *)
(* a key is a blocking call, whose own thread fetches, or a task that is    *)
(* about to be queued, queued, running, or in the hands of the drain.  No   *)
(* group outlives its leader's task.                                       *)
EveryGroupHasDriver ==
    \A k \in Keys : flight[k] \in AsyncReqs =>
        \/ place[flight[k]] = "new" /\ drain = "idle"
        \/ place[flight[k]] = "queued" /\ drain \in {"idle", "aborting"}
        \/ place[flight[k]] = "running"
        \/ place[flight[k]] = "dropped" /\ drain = "abandoning"

(* docs/preloading.md: a leader that never runs does not strand its joiners. *)
(* When ns_net_drain has returned TRUE, every request of the main thread is *)
(* answered, except one that rides on a blocking call, which the drain does *)
(* not wait for.                                                           *)
DrainedAnswersEveryone ==
    drain = "drained" =>
        \A r \in AsyncReqs :
            \/ phase[r] \in {"new", "answered"}
            \/ /\ phase[r] = "joined"
               /\ \/ flight[KeyOf[r]] \in SyncReqs
                  \/ \E s \in SyncReqs : r \in outbox[s]

(* A GTask is returned to its caller in the same step that its pool thread  *)
(* or the drain moves past it: a leader is answered exactly when its task   *)
(* has been returned or abandoned, whichever thread got there.             *)
LeaderAnsweredWithTask ==
    \A r \in AsyncReqs :
        place[r] # "new" =>
            (phase[r] = "answered"
                <=> place[r] \in {"returned", "finished", "abandoned"})

(* A leader's answer and its delivery never part: no request is answered    *)
(* while its task is still to run, none is left over when the task or the   *)
(* drain has moved on (net.c, ns_fetch_thread and ns_net_drain both end a   *)
(* task).                                                                  *)
AnswersFollowTasks == LeaderAnsweredWithTask /\ DrainedAnswersEveryone

(* The composition refines both components, so what they promise of any    *)
(* environment holds of this one.                                          *)
ImplementsThrottle == T!Spec
ImplementsCoalesce == C!Spec
ImplementsComponents == ImplementsThrottle /\ ImplementsCoalesce

(* Every request of the main thread, with or without a drain in between,   *)
(* is answered: led, joined to a queued leader, or joined to a blocking    *)
(* call that itself may be stuck in no other wait.                         *)
EveryRequestAnswered ==
    \A r \in AsyncReqs \cup SyncReqs :
        phase[r] \in {"lead", "joined", "waiting"} ~>
            phase[r] \in {"answered", "abandoned"}
=============================================================================
