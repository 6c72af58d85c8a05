----------------------------- MODULE SingleFlight -----------------------------
(***************************************************************************)
(* What docs/preloading.md promises of the coalescer and the preload map,   *)
(* without their machinery: each key is one slot, which is empty, or holds  *)
(* the one fetch in flight for the key, or holds one response that is ready *)
(* for exactly one taker.  A request is bound to one fetch of its own key,  *)
(* and all requests riding on a fetch are decided in the step it lands.    *)
(***************************************************************************)
CONSTANTS
    Keys,
    Reqs,
    KeyOf,   \* [Reqs -> Keys]
    None

VARIABLES
    slot,    \* [Keys -> the state of the key and the request that fetches]
    status,  \* [Reqs -> where the request is]
    source   \* [Reqs -> the fetch that decides, or decided, the request]

vars == <<slot, status, source>>

Empty == [state |-> "empty", by |-> None]
Flying(r) == [state |-> "flying", by |-> r]
Ready(r) == [state |-> "ready", by |-> r]

Slots == {Empty} \cup {Flying(r) : r \in Reqs} \cup {Ready(r) : r \in Reqs}

TypeOK ==
    /\ slot \in [Keys -> Slots]
    /\ status \in [Reqs -> {"new", "flying", "riding", "served", "left"}]
    /\ source \in [Reqs -> Reqs \cup {None}]

Init ==
    /\ slot = [k \in Keys |-> Empty]
    /\ status = [r \in Reqs |-> "new"]
    /\ source = [r \in Reqs |-> None]

(* An empty slot: the request fetches for the key.                         *)
Fly(r) ==
    /\ status[r] = "new"
    /\ slot[KeyOf[r]] = Empty
    /\ slot' = [slot EXCEPT ![KeyOf[r]] = Flying(r)]
    /\ status' = [status EXCEPT ![r] = "flying"]
    /\ source' = [source EXCEPT ![r] = r]

(* A fetch in flight: the request rides on it.                             *)
Ride(r, l) ==
    /\ status[r] = "new"
    /\ slot[KeyOf[r]] = Flying(l)
    /\ status' = [status EXCEPT ![r] = "riding"]
    /\ source' = [source EXCEPT ![r] = l]
    /\ UNCHANGED slot

(* A request may be turned away instead of riding.                         *)
TurnAway(r) ==
    /\ status[r] = "new"
    /\ slot[KeyOf[r]].state = "flying"
    /\ status' = [status EXCEPT ![r] = "left"]
    /\ UNCHANGED <<slot, source>>

(* A ready response: the request takes it, and nobody else can.            *)
Take(r, l) ==
    /\ status[r] = "new"
    /\ slot[KeyOf[r]] = Ready(l)
    /\ slot' = [slot EXCEPT ![KeyOf[r]] = Empty]
    /\ status' = [status EXCEPT ![r] = "served"]
    /\ source' = [source EXCEPT ![r] = l]

(* A response that nobody asked for in particular may be kept.             *)
Kept(l, keep) == IF keep THEN Ready(l) ELSE Empty

(* The fetch ends: everyone riding on it is decided with it.               *)
Land(l, keep) ==
    /\ status[l] = "flying"
    /\ slot[KeyOf[l]] = Flying(l)
    /\ slot' = [slot EXCEPT ![KeyOf[l]] = Kept(l, keep)]
    /\ status' = [r \in Reqs |->
                    IF r = l \/ (status[r] = "riding" /\ source[r] = l)
                    THEN "served" ELSE status[r]]
    /\ UNCHANGED source

(* A rider gives up before its fetch has landed.                           *)
Leave(r) ==
    /\ status[r] = "riding"
    /\ status' = [status EXCEPT ![r] = "left"]
    /\ source' = [source EXCEPT ![r] = None]
    /\ UNCHANGED slot

(* Every ready response is dropped; fetches in flight are not disturbed.   *)
Forget ==
    /\ slot' = [k \in Keys |->
                    IF slot[k].state = "ready" THEN Empty ELSE slot[k]]
    /\ UNCHANGED <<status, source>>

Next ==
    \/ \E r \in Reqs : Fly(r) \/ TurnAway(r) \/ Leave(r)
    \/ \E r, l \in Reqs : Ride(r, l) \/ Take(r, l)
    \/ \E l \in Reqs, keep \in BOOLEAN : Land(l, keep)
    \/ Forget

Spec == Init /\ [][Next]_vars

-----------------------------------------------------------------------------
(* A request rides only on the fetch its key's slot holds, so no fetch of a *)
(* key can start while somebody still waits for an earlier one.            *)
RidersFollowTheFlight ==
    \A r \in Reqs :
        status[r] = "riding" => slot[KeyOf[r]] = Flying(source[r])

(* A request that was served was served by a fetch for its own key which    *)
(* has landed.                                                             *)
ServedByOwnKey ==
    \A r \in Reqs :
        status[r] = "served" =>
            /\ source[r] \in Reqs
            /\ KeyOf[source[r]] = KeyOf[r]
            /\ status[source[r]] = "served"
=============================================================================
