---------------------------- MODULE FetchCoalesce ----------------------------
(***************************************************************************)
(* The in-flight coalescer and the preload map of src/src/net.c.  Requests  *)
(* with equal keys share one fetch: the first to claim a key leads it, the  *)
(* others join its group; a response that the speculative scan expected is  *)
(* kept in the preload map until a request takes it.                       *)
(*                                                                         *)
(* Every critical section of g_fetch_mutex is one action.  A leader's fetch *)
(* itself is outside this module: it ends with any outcome, at any time.    *)
(* Only requests that have a key (bodyless GETs that cannot be cancelled)   *)
(* appear here.                                                            *)
(***************************************************************************)
EXTENDS Integers, FiniteSets, FiniteSetsExt

CONSTANTS
    Keys,         \* the values of ns_net_request_key
    AsyncReqs,    \* the calls of ns_net_request_async
    SyncReqs,     \* the calls of ns_net_request_blocking
    Preloads,     \* the async calls that the speculative scan issues
    KeyOf,        \* [Reqs -> Keys]
    None,         \* no request, no key
    MaxExpected,  \* NS_PRELOAD_MAX_ENTRIES
    MaxBytes,     \* NS_PRELOAD_MAX_BYTES
    Sizes         \* body lengths a storable response may have

Reqs == AsyncReqs \cup SyncReqs

ASSUME CoalesceAssumption ==
    /\ AsyncReqs \cap SyncReqs = {}
    /\ Preloads \subseteq AsyncReqs
    /\ KeyOf \in [Reqs -> Keys]
    /\ None \notin Reqs /\ None \notin Keys
    /\ MaxExpected \in Nat
    /\ MaxBytes \in Nat
    /\ Sizes \subseteq Nat

VARIABLES
    phase,     \* where each request is
    result,    \* what each request was, or will be, answered with
    flight,    \* g_fetch_coalesce: the request leading the group of a key
    tasks,     \* grp->tasks: async joiners of the group of a key
    syncs,     \* grp->syncs: blocked joiners of the group of a key
    outbox,    \* async joiners a leader took out and has still to answer
    nudged,    \* blocked joiners woken by a broadcast of g_fetch_cond
    expected,  \* g_preload_expected
    store,     \* g_preload_store
    bytes,     \* g_preload_bytes
    scanning,  \* the key the scan has expected and not requested yet
    aborting   \* g_net_aborting

vars == <<phase, result, flight, tasks, syncs, outbox, nudged,
          expected, store, bytes, scanning, aborting>>

(* "lead": fetching, its group is in the table; "joined": an async joiner;  *)
(* "waiting": a blocked joiner whose done flag is unset; "woken": its done  *)
(* flag is set; "delivering": a leader past its critical section.          *)
Phases == {"new", "lead", "joined", "waiting", "woken", "delivering",
           "answered", "abandoned"}

(* What ended a fetch, and who led it.  A "reusable" response is a 200 with *)
(* a body, no error and no no-store; "plain" is any other response; a       *)
(* "failed" fetch has none.                                                *)
Outcomes == [lead : Reqs, kind : {"reusable", "plain", "failed"},
             size : Sizes \cup {0}]

NoOutcome == [lead |-> None, kind |-> "none", size |-> 0]

OutcomesOf(r) ==
    [lead : {r}, kind : {"reusable"}, size : Sizes]
        \cup [lead : {r}, kind : {"plain", "failed"}, size : {0}]

Failure(r) == [lead |-> r, kind |-> "failed", size |-> 0]

TypeOK ==
    /\ phase \in [Reqs -> Phases]
    /\ result \in [Reqs -> Outcomes \cup {NoOutcome}]
    /\ flight \in [Keys -> Reqs \cup {None}]
    /\ tasks \in [Keys -> SUBSET AsyncReqs]
    /\ syncs \in [Keys -> SUBSET SyncReqs]
    /\ outbox \in [Reqs -> SUBSET AsyncReqs]
    /\ nudged \subseteq SyncReqs
    /\ expected \subseteq Keys
    /\ store \in [Keys -> Outcomes \cup {NoOutcome}]
    /\ bytes \in Nat
    /\ scanning \in Keys \cup {None}
    /\ aborting \in BOOLEAN

Init ==
    /\ phase = [r \in Reqs |-> "new"]
    /\ result = [r \in Reqs |-> NoOutcome]
    /\ flight = [k \in Keys |-> None]
    /\ tasks = [k \in Keys |-> {}]
    /\ syncs = [k \in Keys |-> {}]
    /\ outbox = [r \in Reqs |-> {}]
    /\ nudged = {}
    /\ expected = {}
    /\ store = [k \in Keys |-> NoOutcome]
    /\ bytes = 0
    /\ scanning = None
    /\ aborting = FALSE

-----------------------------------------------------------------------------
(* The speculative scan of the main thread.                                *)

(* Mutant: the map is emptied, its byte count is not.                      *)
EmptyMapKeepingBytes ==
    /\ expected' = {}
    /\ store' = [k \in Keys |-> NoOutcome]
    /\ UNCHANGED bytes

EmptyMap ==
    /\ expected' = {}
    /\ store' = [k \in Keys |-> NoOutcome]
    /\ bytes' = 0

(* ns_net_preload_clear, before a scan issues its first request.           *)
Clear ==
    /\ scanning = None
    /\ ~aborting
    /\ EmptyMap
    /\ UNCHANGED <<phase, result, flight, tasks, syncs, outbox, nudged,
                   scanning, aborting>>

(* ns_net_preload_expect, then on to the request for the same key.         *)
Expect(k) ==
    /\ scanning = None
    /\ ~aborting
    /\ \E p \in Preloads : KeyOf[p] = k /\ phase[p] = "new"
    /\ expected' = IF Cardinality(expected) < MaxExpected
                   THEN expected \cup {k} ELSE expected
    /\ scanning' = k
    /\ UNCHANGED <<phase, result, flight, tasks, syncs, outbox, nudged,
                   store, bytes, aborting>>

-----------------------------------------------------------------------------
(* ns_fetch_claim_locked and what its callers do under the same lock.      *)

(* r is about to be made: a preload when the scan has reached its key.     *)
Arrives(r) ==
    /\ phase[r] = "new"
    /\ r \in Preloads => scanning = KeyOf[r]
    /\ scanning' = IF r \in Preloads THEN None ELSE scanning

(* ns_preload_take_locked lowers the byte count without going below zero.  *)
BytesWithout(n) == IF bytes > n THEN bytes - n ELSE 0

(* NS_FETCH_PRELOADED: the response is taken out of the preload map.       *)
ClaimPreloaded(r) ==
    LET k == KeyOf[r] IN
    /\ Arrives(r)
    /\ store[k] # NoOutcome
    /\ phase' = [phase EXCEPT ![r] = "answered"]
    /\ result' = [result EXCEPT ![r] = store[k]]
    /\ store' = [store EXCEPT ![k] = NoOutcome]
    /\ bytes' = BytesWithout(store[k].size)
    /\ UNCHANGED <<flight, tasks, syncs, outbox, nudged, expected, aborting>>

(* NS_FETCH_JOINED in ns_fetch_join_async.                                 *)
JoinAsync(r) ==
    LET k == KeyOf[r] IN
    /\ r \in AsyncReqs
    /\ Arrives(r)
    /\ store[k] = NoOutcome
    /\ flight[k] # None
    /\ phase' = [phase EXCEPT ![r] = "joined"]
    /\ tasks' = [tasks EXCEPT ![k] = @ \cup {r}]
    /\ UNCHANGED <<result, flight, syncs, outbox, nudged,
                   expected, store, bytes, aborting>>

(* NS_FETCH_JOINED in ns_fetch_join_sync: the waiter registers and sleeps,  *)
(* unless the first look at g_net_aborting sends it away again.            *)
JoinSync(r) ==
    LET k == KeyOf[r] IN
    /\ r \in SyncReqs
    /\ Arrives(r)
    /\ store[k] = NoOutcome
    /\ flight[k] # None
    /\ IF aborting
       THEN /\ phase' = [phase EXCEPT ![r] = "abandoned"]
            /\ UNCHANGED syncs
       ELSE /\ phase' = [phase EXCEPT ![r] = "waiting"]
            /\ syncs' = [syncs EXCEPT ![k] = @ \cup {r}]
    /\ UNCHANGED <<result, flight, tasks, outbox, nudged,
                   expected, store, bytes, aborting>>

(* Mutant: the claim does not look for a group.                            *)
UnclaimedInStoreOnly(k) == store[k] = NoOutcome

(* Mutant: the claim does not look in the preload map.                     *)
UnclaimedInTableOnly(k) == flight[k] = None

(* Neither the preload map nor the table knows the key.                    *)
Unclaimed(k) == store[k] = NoOutcome /\ flight[k] = None

(* NS_FETCH_LEAD: a new group, which r now owes a delivery.                *)
Lead(r) ==
    /\ Arrives(r)
    /\ Unclaimed(KeyOf[r])
    /\ phase' = [phase EXCEPT ![r] = "lead"]
    /\ flight' = [flight EXCEPT ![KeyOf[r]] = r]
    /\ UNCHANGED <<result, tasks, syncs, outbox, nudged,
                   expected, store, bytes, aborting>>

-----------------------------------------------------------------------------
(* ns_fetch_coalesce_deliver.                                              *)

(* ns_preload_store_locked would keep this outcome for k.                  *)
Storable(k, o) ==
    /\ k \in expected
    /\ o.kind = "reusable"
    /\ bytes + o.size <= MaxBytes
    /\ store[k] = NoOutcome

(* ns_preload_store_locked.                                                *)
StoreOrDrop(k, o) ==
    IF Storable(k, o)
    THEN /\ store' = [store EXCEPT ![k] = o]
         /\ bytes' = bytes + o.size
    ELSE UNCHANGED <<store, bytes>>

(* Mutant: the group stays in the table when its response is stored.       *)
RemoveGroupUnlessStored(k, o) ==
    flight' = IF Storable(k, o) THEN flight ELSE [flight EXCEPT ![k] = None]

RemoveGroup(k, o) == flight' = [flight EXCEPT ![k] = None]

(* Mutant: the group is freed with its async joiners.                      *)
DropJoiners(r, k) ==
    /\ outbox' = outbox
    /\ tasks' = [tasks EXCEPT ![k] = {}]

(* The leader takes the async joiners out, to answer them later.           *)
TakeJoiners(r, k) ==
    /\ outbox' = [outbox EXCEPT ![r] = tasks[k]]
    /\ tasks' = [tasks EXCEPT ![k] = {}]

(* Mutant: the waiters of the group are not marked done.                   *)
MarkLeaderOnly(r, k, o) ==
    /\ syncs' = [syncs EXCEPT ![k] = {}]
    /\ phase' = [phase EXCEPT ![r] = "delivering"]
    /\ result' = [result EXCEPT ![r] = o]

(* Every blocked joiner gets its copy of the response and its done flag.   *)
MarkDone(r, k, o) ==
    /\ syncs' = [syncs EXCEPT ![k] = {}]
    /\ phase' = [q \in Reqs |->
                    IF q = r THEN "delivering"
                    ELSE IF q \in syncs[k] THEN "woken"
                    ELSE phase[q]]
    /\ result' = [q \in Reqs |->
                    IF q = r \/ q \in syncs[k] THEN o ELSE result[q]]

(* Mutant: done is set, g_fetch_cond is not broadcast.                     *)
NoBroadcast(k) == UNCHANGED nudged

(* g_fetch_cond is shared by all keys: every sleeping waiter wakes.  There  *)
(* is a broadcast whenever the group has a list of waiters, even a list all *)
(* of whose waiters have left again.                                       *)
Broadcast(k) ==
    \/ nudged' = {s \in SyncReqs : phase'[s] \in {"waiting", "woken"}}
    \/ syncs[k] = {} /\ UNCHANGED nudged

(* Its critical section, run by the leader: the expectation is used up, the *)
(* response stored or not, the group removed and its blocked joiners marked *)
(* done, all at once.                                                      *)
Deliver(r, o) ==
    LET k == KeyOf[r] IN
    /\ phase[r] = "lead"
    /\ expected' = expected \ {k}
    /\ StoreOrDrop(k, o)
    /\ RemoveGroup(k, o)
    /\ TakeJoiners(r, k)
    /\ MarkDone(r, k, o)
    /\ Broadcast(k)
    /\ UNCHANGED <<scanning, aborting>>

(* Mutant: the joiner's copy of the response is not made.                  *)
AnswerEmptyHanded(j, o) ==
    /\ phase' = [phase EXCEPT ![j] = "answered"]
    /\ UNCHANGED result

Answer(j, o) ==
    /\ phase' = [phase EXCEPT ![j] = "answered"]
    /\ result' = [result EXCEPT ![j] = o]

(* After the unlock: one async joiner of the group is answered.            *)
ReturnJoiner(r, j) ==
    /\ phase[r] = "delivering"
    /\ j \in outbox[r]
    /\ outbox' = [outbox EXCEPT ![r] = @ \ {j}]
    /\ Answer(j, result[r])
    /\ UNCHANGED <<flight, tasks, syncs, nudged,
                   expected, store, bytes, scanning, aborting>>

(* Only then does the leader answer its own caller.                        *)
ReturnLeader(r) ==
    /\ phase[r] = "delivering"
    /\ outbox[r] = {}
    /\ phase' = [phase EXCEPT ![r] = "answered"]
    /\ UNCHANGED <<result, flight, tasks, syncs, outbox, nudged,
                   expected, store, bytes, scanning, aborting>>

-----------------------------------------------------------------------------
(* The wait loop of ns_fetch_join_sync.                                    *)

(* Mutant: a waiter leaves and stays registered.                           *)
StayRegistered(s) == UNCHANGED syncs

(* Still without an answer, a waiter takes itself off its group's list.    *)
Unregister(s) == syncs' = [syncs EXCEPT ![KeyOf[s]] = @ \ {s}]

(* A broadcast wakes the waiter: done ends the wait, g_net_aborting ends it *)
(* without an answer, and anything else puts it back to sleep.             *)
Wake(s) ==
    /\ s \in nudged
    /\ nudged' = nudged \ {s}
    /\ \/ /\ phase[s] = "woken"
          /\ phase' = [phase EXCEPT ![s] = "answered"]
          /\ UNCHANGED syncs
       \/ /\ phase[s] = "waiting"
          /\ aborting
          /\ phase' = [phase EXCEPT ![s] = "abandoned"]
          /\ Unregister(s)
       \/ /\ phase[s] = "waiting"
          /\ ~aborting
          /\ UNCHANGED <<phase, syncs>>
    /\ UNCHANGED <<result, flight, tasks, outbox,
                   expected, store, bytes, scanning, aborting>>

(* The deadline ends the wait; done, if it was set meanwhile, still counts. *)
Deadline(s) ==
    /\ phase[s] \in {"waiting", "woken"}
    /\ phase' = [phase EXCEPT ![s] =
                    IF phase[s] = "woken" THEN "answered" ELSE "abandoned"]
    /\ Unregister(s)
    /\ nudged' = nudged \ {s}
    /\ UNCHANGED <<result, flight, tasks, outbox,
                   expected, store, bytes, scanning, aborting>>

(* ns_net_drain raises the flag; it does not broadcast g_fetch_cond.       *)
Abort ==
    /\ ~aborting
    /\ scanning = None
    /\ aborting' = TRUE
    /\ UNCHANGED <<phase, result, flight, tasks, syncs, outbox, nudged,
                   expected, store, bytes, scanning>>

-----------------------------------------------------------------------------
Claim(r) == ClaimPreloaded(r) \/ JoinAsync(r) \/ JoinSync(r) \/ Lead(r)

Return(r) == ReturnLeader(r) \/ \E j \in outbox[r] : ReturnJoiner(r, j)

Land(r) == \E o \in OutcomesOf(r) : Deliver(r, o)

Next ==
    \/ Clear
    \/ \E k \in Keys : Expect(k)
    \/ \E r \in Reqs : Claim(r) \/ Land(r) \/ Return(r)
    \/ \E s \in SyncReqs : Wake(s) \/ Deadline(s)
    \/ Abort

Spec == Init /\ [][Next]_vars

(* A leader's fetch ends (every transfer has a timeout) and its thread      *)
(* carries the delivery through; a waiter that was woken runs.             *)
Fairness ==
    /\ \A r \in Reqs : WF_vars(Land(r)) /\ WF_vars(Return(r))
    /\ \A s \in SyncReqs : WF_vars(Wake(s))

-----------------------------------------------------------------------------
(* Properties.                                                             *)

(* A resource is never fetched twice at once: for each key at most one      *)
(* request is in its fetch, and the group it will deliver to is the one in  *)
(* the table under its key.                                                *)
OneFlightPerKey ==
    /\ \A r \in Reqs : phase[r] = "lead" => flight[KeyOf[r]] = r
    /\ \A k \in Keys : flight[k] # None =>
          KeyOf[flight[k]] = k /\ phase[flight[k]] = "lead"

(* Nobody is stranded: an async joiner that is still unanswered is held by  *)
(* exactly one group or one delivering leader, which will answer it.       *)
JoinerHeldOnce ==
    \A j \in AsyncReqs :
        LET groups  == {k \in Keys : j \in tasks[k]}
            leaders == {r \in Reqs : j \in outbox[r]}
        IN  /\ phase[j] = "joined" =>
                  Cardinality(groups) + Cardinality(leaders) = 1
            /\ phase[j] # "joined" => groups = {} /\ leaders = {}
            /\ \A k \in groups : flight[k] # None
            /\ \A r \in leaders : phase[r] = "delivering"

(* The waiter on a blocked joiner's stack is reachable from a group exactly *)
(* while the joiner sleeps without an answer: a delivery never writes to a  *)
(* waiter that has returned, and never misses one that has not.            *)
WaiterReachable ==
    \A s \in SyncReqs :
        \A k \in Keys :
            s \in syncs[k] <=> phase[s] = "waiting" /\ k = KeyOf[s]

(* A blocked joiner without an answer sits in a group that has a leader.   *)
WaiterHasLeader ==
    \A s \in SyncReqs : phase[s] = "waiting" => flight[KeyOf[s]] # None

(* docs/preloading.md: a loader arriving at any instant sees exactly one of *)
(* the preload map and the coalescer, never the same key in both.          *)
StoreXorFlight == \A k \in Keys : store[k] # NoOutcome => flight[k] = None

(* The table and the preload map say the same at every instant: each key is *)
(* fetched at most once, is never both in flight and stored, and nobody who *)
(* joined its group is forgotten or told twice (net.c, one critical section *)
(* of g_fetch_mutex per claim and per delivery).                           *)
TableSound == OneFlightPerKey /\ StoreXorFlight /\ JoinerHeldOnce

(* Blocked joiners are found by the delivery as long as they sleep, and no  *)
(* longer, and there is a leader that owes them one (net.c, the waiter is   *)
(* on the stack of the thread that sleeps).                                *)
WaitersAreLed == WaiterReachable /\ WaiterHasLeader

(* The byte count of the preload map is exact and within its budget after   *)
(* any sequence of stores, takes and clears, so storing never starts        *)
(* failing on a map that is in fact empty.                                 *)
BytesExact ==
    /\ bytes = MapThenSumSet(LAMBDA k : store[k].size, Keys)
    /\ bytes <= MaxBytes

(* Whatever a request is answered with came from a fetch for its own key,   *)
(* and a joiner is told of a failure only if its leader's fetch failed.    *)
AnswerIsForKey ==
    \A r \in Reqs :
        phase[r] \in {"answered", "woken", "delivering"} =>
            /\ result[r].lead \in Reqs
            /\ KeyOf[result[r].lead] = KeyOf[r]
            /\ result[r] = result[result[r].lead]

(* The refinement: a key is flying while its group is in the table, ready   *)
(* while the preload map holds a response; a request is served once its     *)
(* outcome is decided, even if its joiner's answer is still in an outbox.   *)
SlotOf(k) ==
    IF flight[k] # None THEN [state |-> "flying", by |-> flight[k]]
    ELSE IF store[k] # NoOutcome THEN [state |-> "ready", by |-> store[k].lead]
    ELSE [state |-> "empty", by |-> None]

Riding(r) ==
    \/ phase[r] = "waiting"
    \/ phase[r] = "joined" /\ r \in tasks[KeyOf[r]]

StatusOf(r) ==
    CASE phase[r] = "new"       -> "new"
      [] phase[r] = "lead"      -> "flying"
      [] phase[r] = "abandoned" -> "left"
      [] Riding(r)              -> "riding"
      [] OTHER                  -> "served"

SourceOf(r) ==
    IF phase[r] \in {"new", "abandoned"} THEN None
    ELSE IF phase[r] = "lead" THEN r
    ELSE IF Riding(r) THEN flight[KeyOf[r]]
    ELSE IF phase[r] = "joined" THEN CHOOSE l \in Reqs : r \in outbox[l]
    ELSE result[r].lead

SF == INSTANCE SingleFlight WITH
        slot   <- [k \in Keys |-> SlotOf(k)],
        status <- [r \in Reqs |-> StatusOf(r)],
        source <- [r \in Reqs |-> SourceOf(r)]

(* The coalescer and the preload map together are one single-flight table:  *)
(* whatever thread interleaves with whatever delivery, each step is one of  *)
(* the abstract steps, or changes nothing a caller can tell.               *)
ImplementsSingleFlight == SF!Spec

(* Every request that claimed its key is answered or gives up, and a        *)
(* blocked joiner does not need its deadline for that.                     *)
EveryRequestEnds ==
    Fairness =>
        \A r \in Reqs :
            phase[r] \in {"lead", "joined", "waiting"} ~>
                phase[r] \in {"answered", "abandoned"}

=============================================================================
