------------------------ MODULE FetchCoalesce_proofs ------------------------
(***************************************************************************)
(* Proofs about FetchCoalesce, for every set of keys and requests and every *)
(* budget: at most one fetch per key, no stranded joiner, no dangling       *)
(* waiter, and every step a step of SingleFlight; of that abstract table,   *)
(* that a request rides and is served by fetches for its own key only.      *)
(***************************************************************************)
EXTENDS FetchCoalesce, SumLemmas, FiniteSetTheorems, TLAPS

(* Where async joiners are held, in a form each step can preserve.         *)
JoinersInGroups ==
    \A k \in Keys : \A j \in tasks[k] :
        phase[j] = "joined" /\ KeyOf[j] = k /\ flight[k] # None

JoinersInOutboxes ==
    /\ \A l \in Reqs : \A j \in outbox[l] :
          /\ phase[j] = "joined"
          /\ phase[l] = "delivering"
          /\ KeyOf[j] = KeyOf[l]
          /\ j \notin tasks[KeyOf[j]]
    /\ \A l, m \in Reqs : outbox[l] \cap outbox[m] # {} => l = m

JoinersHeld ==
    \A j \in Reqs : phase[j] = "joined" =>
        \/ j \in tasks[KeyOf[j]]
        \/ \E l \in Reqs : j \in outbox[l]

(* Decided requests carry the outcome of a fetch for their key; so does     *)
(* the preload map.                                                        *)
OutcomesBound ==
    /\ \A r \in Reqs : phase[r] = "delivering" => result[r].lead = r
    /\ \A r \in Reqs : phase[r] \in {"delivering", "woken", "answered"} =>
          /\ result[r] # NoOutcome
          /\ KeyOf[result[r].lead] = KeyOf[r]
          /\ phase[result[r].lead] \in {"delivering", "answered"}
          /\ result[r] = result[result[r].lead]
    /\ \A k \in Keys : store[k] # NoOutcome =>
          /\ KeyOf[store[k].lead] = k
          /\ phase[store[k].lead] \in {"delivering", "answered"}
          /\ store[k] = result[store[k].lead]

CInv ==
    /\ TypeOK
    /\ OneFlightPerKey
    /\ StoreXorFlight
    /\ WaiterReachable
    /\ WaiterHasLeader
    /\ JoinersInGroups
    /\ JoinersInOutboxes
    /\ JoinersHeld
    /\ OutcomesBound

-----------------------------------------------------------------------------
LEMMA OutcomeFacts ==
    /\ NoOutcome \notin Outcomes
    /\ \A o \in Outcomes : o.lead \in Reqs /\ o.size \in Nat
    /\ \A r \in Reqs : \A o \in OutcomesOf(r) : o \in Outcomes /\ o.lead = r
<1>1. NoOutcome \notin Outcomes
  BY DEF Outcomes, NoOutcome
<1>2. ASSUME NEW o \in Outcomes
      PROVE  o.lead \in Reqs /\ o.size \in Nat
  <2>1. o.lead \in Reqs /\ o.size \in Sizes \cup {0}
    BY <1>2 DEF Outcomes
  <2>2. \A n \in Sizes \cup {0} : n \in Nat
    BY CoalesceAssumption
  <2> QED
    BY <2>1, <2>2
<1>3. ASSUME NEW r \in Reqs, NEW o \in OutcomesOf(r)
      PROVE  o \in Outcomes /\ o.lead = r
  <2>1. CASE o \in [lead : {r}, kind : {"reusable"}, size : Sizes]
    BY <2>1 DEF Outcomes
  <2>2. CASE o \in [lead : {r}, kind : {"plain", "failed"}, size : {0}]
    BY <2>2 DEF Outcomes
  <2> QED
    BY <1>3, <2>1, <2>2 DEF OutcomesOf
<1> QED
  BY <1>1, <1>2, <1>3

LEMMA InitCInv == Init => CInv
<1> SUFFICES ASSUME Init PROVE CInv
  OBVIOUS
<1> USE CoalesceAssumption DEF Init
<1>1. TypeOK
  BY DEF TypeOK, Phases
<1>2. OneFlightPerKey /\ StoreXorFlight
  BY DEF OneFlightPerKey, StoreXorFlight
<1>3. WaiterReachable /\ WaiterHasLeader
  BY DEF WaiterReachable, WaiterHasLeader, Reqs
<1>4. JoinersInGroups /\ JoinersInOutboxes /\ JoinersHeld
  BY DEF JoinersInGroups, JoinersInOutboxes, JoinersHeld
<1>5. OutcomesBound
  BY DEF OutcomesBound
<1> QED
  BY <1>1, <1>2, <1>3, <1>4, <1>5 DEF CInv

(* Clear and Expect do not touch the requests.                             *)
LEMMA ScanCInv ==
    ASSUME CInv, Clear \/ \E k \in Keys : Expect(k)
    PROVE  CInv'
<1> USE DEF CInv
<1>1. CASE Clear
  <2>1. TypeOK'
    BY <1>1 DEF Clear, EmptyMap, TypeOK
  <2>2. UNCHANGED <<phase, result, flight, tasks, syncs, outbox>>
        /\ \A k \in Keys : store'[k] = NoOutcome
    BY <1>1 DEF Clear, EmptyMap
  <2> QED
    BY <2>1, <2>2
       DEF OneFlightPerKey, StoreXorFlight, WaiterReachable, WaiterHasLeader,
           JoinersInGroups, JoinersInOutboxes, JoinersHeld, OutcomesBound
<1>2. ASSUME NEW k \in Keys, Expect(k) PROVE CInv'
  <2>1. TypeOK'
    BY <1>2 DEF Expect, TypeOK
  <2>2. UNCHANGED <<phase, result, flight, tasks, syncs, outbox, store>>
    BY <1>2 DEF Expect
  <2> QED
    BY <2>1, <2>2
       DEF OneFlightPerKey, StoreXorFlight, WaiterReachable, WaiterHasLeader,
           JoinersInGroups, JoinersInOutboxes, JoinersHeld, OutcomesBound
<1> QED
  BY <1>1, <1>2

LEMMA ClaimPreloadedCInv ==
    ASSUME CInv, NEW r \in Reqs, ClaimPreloaded(r)
    PROVE  CInv'
<1> DEFINE k == KeyOf[r]
<1> USE DEF CInv
<1>1. k \in Keys
  BY CoalesceAssumption
<1>2. /\ phase[r] = "new" /\ store[k] # NoOutcome
      /\ store[k] \in Outcomes /\ store[k].lead \in Reqs
      /\ phase' = [phase EXCEPT ![r] = "answered"]
      /\ result' = [result EXCEPT ![r] = store[k]]
      /\ store' = [store EXCEPT ![k] = NoOutcome]
      /\ UNCHANGED <<flight, tasks, syncs, outbox, nudged, expected, aborting>>
  BY <1>1, OutcomeFacts DEF ClaimPreloaded, Arrives, TypeOK
<1>3. bytes' \in Nat /\ scanning' \in Keys \cup {None}
  BY <1>2, OutcomeFacts DEF ClaimPreloaded, Arrives, BytesWithout, TypeOK
<1>4. TypeOK'
  BY <1>1, <1>2, <1>3 DEF TypeOK, Phases
<1> HIDE DEF k
<1>5. \A q \in Reqs : phase'[q] = IF q = r THEN "answered" ELSE phase[q]
  BY <1>2 DEF TypeOK
<1>6. \A q \in Reqs : result'[q] = IF q = r THEN store[k] ELSE result[q]
  BY <1>2 DEF TypeOK
<1>7. \A h \in Keys : store'[h] = IF h = k THEN NoOutcome ELSE store[h]
  BY <1>2 DEF TypeOK
<1>8. OneFlightPerKey' /\ StoreXorFlight'
  BY <1>2, <1>5, <1>7 DEF OneFlightPerKey, StoreXorFlight, TypeOK
<1>9. WaiterReachable' /\ WaiterHasLeader'
  BY <1>2, <1>5 DEF WaiterReachable, WaiterHasLeader, Reqs
<1>10. JoinersInGroups' /\ JoinersInOutboxes' /\ JoinersHeld'
  BY <1>2, <1>5 DEF JoinersInGroups, JoinersInOutboxes, JoinersHeld,
                    TypeOK, Reqs
<1>11. OutcomesBound'
  <2>1. /\ KeyOf[store[k].lead] = k
        /\ phase[store[k].lead] \in {"delivering", "answered"}
        /\ store[k] = result[store[k].lead]
        /\ store[k].lead # r
    BY <1>1, <1>2 DEF OutcomesBound
  <2>2. \A q \in Reqs : phase[q] \in {"delivering", "woken", "answered"} =>
            result[q].lead \in Reqs /\ result[q].lead # r
    BY <1>2, OutcomeFacts DEF OutcomesBound, TypeOK
  <2>3. \A h \in Keys : store[h] # NoOutcome =>
            store[h].lead \in Reqs /\ store[h].lead # r
    BY <1>2, OutcomeFacts DEF OutcomesBound, TypeOK
  <2> QED
    BY <1>2, <1>5, <1>6, <1>7, <2>1, <2>2, <2>3 DEF OutcomesBound, k
<1> QED
  BY <1>4, <1>8, <1>9, <1>10, <1>11

LEMMA JoinAsyncCInv ==
    ASSUME CInv, NEW r \in Reqs, JoinAsync(r)
    PROVE  CInv'
<1> DEFINE k == KeyOf[r]
<1> USE DEF CInv
<1>1. k \in Keys
  BY CoalesceAssumption
<1>2. /\ r \in AsyncReqs /\ r \notin SyncReqs
      /\ phase[r] = "new" /\ store[k] = NoOutcome /\ flight[k] # None
      /\ phase' = [phase EXCEPT ![r] = "joined"]
      /\ tasks' = [tasks EXCEPT ![k] = @ \cup {r}]
      /\ UNCHANGED <<result, flight, syncs, outbox, nudged, expected, store,
                     bytes, aborting>>
  BY CoalesceAssumption DEF JoinAsync, Arrives
<1>3. scanning' \in Keys \cup {None}
  BY DEF JoinAsync, Arrives, TypeOK
<1>4. TypeOK'
  BY <1>1, <1>2, <1>3 DEF TypeOK, Phases
<1> HIDE DEF k
<1>5. \A q \in Reqs : phase'[q] = IF q = r THEN "joined" ELSE phase[q]
  BY <1>2 DEF TypeOK
<1>6. \A h \in Keys : tasks'[h] = IF h = k THEN tasks[h] \cup {r} ELSE tasks[h]
  BY <1>2 DEF TypeOK
<1>7. \A h \in Keys : r \notin tasks[h]
  BY <1>2 DEF JoinersInGroups
<1>8. \A l \in Reqs : r \notin outbox[l]
  BY <1>2 DEF JoinersInOutboxes
<1>9. OneFlightPerKey' /\ StoreXorFlight'
  BY <1>2, <1>5 DEF OneFlightPerKey, StoreXorFlight, TypeOK
<1>10. WaiterReachable' /\ WaiterHasLeader'
  BY <1>2, <1>5 DEF WaiterReachable, WaiterHasLeader, Reqs
<1>11. JoinersInGroups'
  BY <1>1, <1>2, <1>5, <1>6 DEF JoinersInGroups, TypeOK, Reqs, k
<1>12. JoinersInOutboxes'
  <2>1. \A j \in AsyncReqs : j # r => 
           (j \in tasks'[KeyOf[j]] <=> j \in tasks[KeyOf[j]])
    BY <1>6, CoalesceAssumption DEF Reqs
  <2> QED
    BY <1>2, <1>5, <1>8, <2>1 DEF JoinersInOutboxes, TypeOK, Reqs
<1>13. JoinersHeld'
  BY <1>1, <1>2, <1>5, <1>6, CoalesceAssumption DEF JoinersHeld, k
<1>14. OutcomesBound'
  BY <1>2, <1>5, OutcomeFacts DEF OutcomesBound, TypeOK
<1> QED
  BY <1>4, <1>9, <1>10, <1>11, <1>12, <1>13, <1>14

LEMMA JoinSyncCInv ==
    ASSUME CInv, NEW r \in Reqs, JoinSync(r)
    PROVE  CInv'
<1> DEFINE k == KeyOf[r]
<1> USE DEF CInv
<1>1. k \in Keys
  BY CoalesceAssumption
<1>2. /\ r \in SyncReqs /\ r \notin AsyncReqs
      /\ phase[r] = "new" /\ store[k] = NoOutcome /\ flight[k] # None
      /\ UNCHANGED <<result, flight, tasks, outbox, nudged, expected, store,
                     bytes, aborting>>
  BY CoalesceAssumption DEF JoinSync, Arrives
<1>3. /\ phase' = [phase EXCEPT ![r] = IF aborting THEN "abandoned"
                                                   ELSE "waiting"]
      /\ syncs' = [syncs EXCEPT ![k] = IF aborting THEN @ ELSE @ \cup {r}]
  <2>1. syncs = [syncs EXCEPT ![k] = @]
    BY <1>1 DEF TypeOK
  <2> QED
    BY <2>1 DEF JoinSync
<1>4. scanning' \in Keys \cup {None}
  BY DEF JoinSync, Arrives, TypeOK
<1>5. TypeOK'
  BY <1>1, <1>2, <1>3, <1>4 DEF TypeOK, Phases
<1> HIDE DEF k
<1>6. /\ \A q \in Reqs : q # r => phase'[q] = phase[q]
      /\ phase'[r] = IF aborting THEN "abandoned" ELSE "waiting"
  BY <1>3 DEF TypeOK
<1>7. \A h \in Keys :
        syncs'[h] = IF h = k /\ ~aborting THEN syncs[h] \cup {r} ELSE syncs[h]
  BY <1>3 DEF TypeOK
<1>8. OneFlightPerKey' /\ StoreXorFlight'
  BY <1>2, <1>6 DEF OneFlightPerKey, StoreXorFlight, TypeOK
<1>9. WaiterReachable' /\ WaiterHasLeader'
  <2>1. ASSUME NEW s \in SyncReqs, NEW h \in Keys
        PROVE  s \in syncs'[h] <=> phase'[s] = "waiting" /\ h = KeyOf[s]
    <3>1. s \in syncs[h] <=> phase[s] = "waiting" /\ h = KeyOf[s]
      BY DEF WaiterReachable
    <3>2. (s \in syncs'[h])
            <=> (s \in syncs[h] \/ (s = r /\ h = k /\ ~aborting))
      BY <1>7
    <3> QED
      BY <1>2, <1>6, <3>1, <3>2 DEF Reqs, k
  <2>2. WaiterHasLeader'
    BY <1>2, <1>6 DEF WaiterHasLeader, Reqs, k
  <2> QED
    BY <2>1, <2>2 DEF WaiterReachable
<1>10. JoinersInGroups' /\ JoinersInOutboxes' /\ JoinersHeld'
  BY <1>2, <1>6 DEF JoinersInGroups, JoinersInOutboxes, JoinersHeld,
                    TypeOK, Reqs
<1>11. OutcomesBound'
  BY <1>2, <1>6, OutcomeFacts DEF OutcomesBound, TypeOK
<1> QED
  BY <1>5, <1>8, <1>9, <1>10, <1>11

LEMMA LeadCInv ==
    ASSUME CInv, NEW r \in Reqs, Lead(r)
    PROVE  CInv'
<1> DEFINE k == KeyOf[r]
<1> USE DEF CInv
<1>1. k \in Keys
  BY CoalesceAssumption
<1>2. /\ phase[r] = "new" /\ store[k] = NoOutcome /\ flight[k] = None
      /\ phase' = [phase EXCEPT ![r] = "lead"]
      /\ flight' = [flight EXCEPT ![k] = r]
      /\ UNCHANGED <<result, tasks, syncs, outbox, nudged, expected, store,
                     bytes, aborting>>
  BY DEF Lead, Arrives, Unclaimed
<1>3. scanning' \in Keys \cup {None}
  BY DEF Lead, Arrives, TypeOK
<1>4. TypeOK'
  BY <1>1, <1>2, <1>3 DEF TypeOK, Phases
<1> HIDE DEF k
<1>5. \A q \in Reqs : phase'[q] = IF q = r THEN "lead" ELSE phase[q]
  BY <1>2 DEF TypeOK
<1>6. \A h \in Keys : flight'[h] = IF h = k THEN r ELSE flight[h]
  BY <1>2 DEF TypeOK
<1>7. OneFlightPerKey'
  <2>1. \A q \in Reqs : phase[q] = "lead" => KeyOf[q] # k
    BY <1>1, <1>2, CoalesceAssumption DEF OneFlightPerKey
  <2>2. \A h \in Keys : flight[h] # r
    BY <1>2, CoalesceAssumption DEF OneFlightPerKey
  <2> QED
    BY <1>1, <1>5, <1>6, <2>1, <2>2, CoalesceAssumption
       DEF OneFlightPerKey, TypeOK, k
<1>8. StoreXorFlight'
  BY <1>2, <1>6 DEF StoreXorFlight
<1>9. WaiterReachable' /\ WaiterHasLeader'
  BY <1>1, <1>2, <1>5, <1>6, CoalesceAssumption
     DEF WaiterReachable, WaiterHasLeader, Reqs
<1>10. JoinersInGroups' /\ JoinersInOutboxes' /\ JoinersHeld'
  BY <1>2, <1>5, <1>6, CoalesceAssumption
     DEF JoinersInGroups, JoinersInOutboxes, JoinersHeld, TypeOK, Reqs
<1>11. OutcomesBound'
  BY <1>2, <1>5, OutcomeFacts DEF OutcomesBound, TypeOK
<1> QED
  BY <1>4, <1>7, <1>8, <1>9, <1>10, <1>11

LEMMA DeliverCInv ==
    ASSUME CInv, NEW r \in Reqs, NEW o \in OutcomesOf(r), Deliver(r, o)
    PROVE  CInv'
<1> DEFINE k == KeyOf[r]
<1> USE DEF CInv
<1>1. k \in Keys /\ o \in Outcomes /\ o.lead = r /\ o # NoOutcome
      /\ o.size \in Nat
  BY CoalesceAssumption, OutcomeFacts
<1>2. /\ phase[r] = "lead"
      /\ expected' = expected \ {k}
      /\ flight' = [flight EXCEPT ![k] = None]
      /\ outbox' = [outbox EXCEPT ![r] = tasks[k]]
      /\ tasks' = [tasks EXCEPT ![k] = {}]
      /\ syncs' = [syncs EXCEPT ![k] = {}]
      /\ UNCHANGED <<scanning, aborting>>
  BY DEF Deliver, RemoveGroup, TakeJoiners, MarkDone
<1>3. /\ phase' = [q \in Reqs |->
                      IF q = r THEN "delivering"
                      ELSE IF q \in syncs[k] THEN "woken" ELSE phase[q]]
      /\ result' = [q \in Reqs |->
                      IF q = r \/ q \in syncs[k] THEN o ELSE result[q]]
  BY DEF Deliver, MarkDone
<1>4. nudged' \subseteq SyncReqs
  BY DEF Deliver, Broadcast, TypeOK
<1>5. /\ store' \in [Keys -> Outcomes \cup {NoOutcome}]
      /\ bytes' \in Nat
      /\ \A h \in Keys : h # k => store'[h] = store[h]
      /\ store'[k] = o \/ store'[k] = store[k]
  BY <1>1 DEF Deliver, StoreOrDrop, TypeOK
<1>6. flight[k] = r /\ store[k] = NoOutcome /\ r # None
  BY <1>1, <1>2, CoalesceAssumption DEF OneFlightPerKey, StoreXorFlight
<1>7. TypeOK'
  BY <1>1, <1>2, <1>3, <1>4, <1>5 DEF TypeOK, Phases
<1>8. \A s \in Reqs : s \in syncs[k] =>
        s \in SyncReqs /\ s \notin AsyncReqs /\ phase[s] = "waiting"
        /\ KeyOf[s] = k
  BY <1>1, CoalesceAssumption DEF WaiterReachable, TypeOK
<1> HIDE DEF k
<1>9. \A q \in Reqs :
        /\ phase'[q] = IF q = r THEN "delivering"
                       ELSE IF q \in syncs[k] THEN "woken" ELSE phase[q]
        /\ result'[q] = IF q = r \/ q \in syncs[k] THEN o ELSE result[q]
  BY <1>3
<1>10. \A h \in Keys :
        /\ flight'[h] = IF h = k THEN None ELSE flight[h]
        /\ tasks'[h] = IF h = k THEN {} ELSE tasks[h]
        /\ syncs'[h] = IF h = k THEN {} ELSE syncs[h]
  BY <1>2 DEF TypeOK
<1>11. \A l \in Reqs : outbox'[l] = IF l = r THEN tasks[k] ELSE outbox[l]
  BY <1>2 DEF TypeOK
<1>12. OneFlightPerKey'
  <2>1. \A q \in Reqs : q # r /\ phase[q] = "lead" => KeyOf[q] # k
    BY <1>6 DEF OneFlightPerKey
  <2>2. \A h \in Keys : h # k /\ flight[h] # None =>
            flight[h] # r /\ flight[h] \in Reqs
    BY <1>6 DEF OneFlightPerKey, TypeOK, k
  <2> QED
    BY <1>2, <1>8, <1>9, <1>10, <2>1, <2>2, CoalesceAssumption
       DEF OneFlightPerKey
<1>13. StoreXorFlight'
  BY <1>5, <1>10 DEF StoreXorFlight
<1>14. WaiterReachable'
  <2> SUFFICES ASSUME NEW s \in SyncReqs, NEW h \in Keys
               PROVE  (s \in syncs'[h])
                         <=> (phase'[s] = "waiting" /\ h = KeyOf[s])
    BY DEF WaiterReachable
  <2>1. (s \in syncs[h]) <=> (phase[s] = "waiting" /\ h = KeyOf[s])
    BY DEF WaiterReachable
  <2>2. s \in Reqs /\ KeyOf[s] \in Keys
    BY CoalesceAssumption DEF Reqs
  <2>3. (s \in syncs[k]) <=> (phase[s] = "waiting" /\ k = KeyOf[s])
    BY <1>1 DEF WaiterReachable
  <2> QED
    BY <1>2, <1>9, <1>10, <2>1, <2>2, <2>3
<1>15. WaiterHasLeader'
  <2> SUFFICES ASSUME NEW s \in SyncReqs, phase'[s] = "waiting"
               PROVE  flight'[KeyOf[s]] # None
    BY DEF WaiterHasLeader
  <2>1. s \in Reqs /\ KeyOf[s] \in Keys
    BY CoalesceAssumption DEF Reqs
  <2>2. phase[s] = "waiting" /\ s \notin syncs[k]
    BY <1>9, <2>1
  <2>3. KeyOf[s] # k
    BY <1>1, <2>2 DEF WaiterReachable
  <2> QED
    BY <1>10, <2>1, <2>2, <2>3 DEF WaiterHasLeader
<1>16. JoinersInGroups'
  BY <1>2, <1>8, <1>9, <1>10 DEF JoinersInGroups, TypeOK, Reqs
<1>17. JoinersInOutboxes'
  <2>1. \A j \in tasks[k] : /\ j \in Reqs /\ phase[j] = "joined"
                            /\ KeyOf[j] = k /\ j \in AsyncReqs
    BY <1>1 DEF JoinersInGroups, TypeOK, Reqs
  <2>2. \A j \in Reqs : phase[j] = "joined" => phase'[j] = "joined"
    BY <1>2, <1>8, <1>9
  <2>3. \A l \in Reqs : \A j \in outbox[l] :
            /\ j \in Reqs /\ phase[j] = "joined" /\ l # r
            /\ phase'[l] = "delivering" /\ j \notin tasks[k]
            /\ j \notin tasks'[KeyOf[j]]
    BY <1>2, <1>8, <1>9, <1>10, <2>1, CoalesceAssumption
       DEF JoinersInOutboxes, TypeOK, Reqs
  <2>4. \A l \in Reqs : \A j \in outbox'[l] :
            /\ phase'[j] = "joined"
            /\ phase'[l] = "delivering"
            /\ KeyOf[j] = KeyOf[l]
            /\ j \notin tasks'[KeyOf[j]]
    BY <1>1, <1>9, <1>10, <1>11, <2>1, <2>2, <2>3 DEF JoinersInOutboxes, k
  <2>5. \A l, m \in Reqs : outbox'[l] \cap outbox'[m] # {} => l = m
    BY <1>11, <2>3 DEF JoinersInOutboxes
  <2> QED
    BY <2>4, <2>5 DEF JoinersInOutboxes
<1>18. JoinersHeld'
  <2> SUFFICES ASSUME NEW j \in Reqs, phase'[j] = "joined"
               PROVE  \/ j \in tasks'[KeyOf[j]]
                      \/ \E l \in Reqs : j \in outbox'[l]
    BY DEF JoinersHeld
  <2>1. phase[j] = "joined" /\ KeyOf[j] \in Keys
    BY <1>9, CoalesceAssumption
  <2>2. CASE j \in tasks[KeyOf[j]]
    BY <1>10, <1>11, <2>1, <2>2
  <2>3. ASSUME NEW l \in Reqs, j \in outbox[l]
        PROVE  j \in outbox'[l]
    BY <1>2, <1>11, <2>3 DEF JoinersInOutboxes
  <2> QED
    BY <2>1, <2>2, <2>3 DEF JoinersHeld
<1>19. OutcomesBound'
  <2>1. \A l \in Reqs : phase[l] \in {"delivering", "answered"} =>
            /\ l # r /\ l \notin syncs[k]
            /\ phase'[l] = phase[l] /\ result'[l] = result[l]
    BY <1>2, <1>8, <1>9
  <2>2. phase'[r] = "delivering" /\ result'[r] = o
    BY <1>9
  <2>3. ASSUME NEW q \in Reqs,
               phase'[q] \in {"delivering", "woken", "answered"}
        PROVE  /\ result'[q] # NoOutcome
               /\ KeyOf[result'[q].lead] = KeyOf[q]
               /\ phase'[result'[q].lead] \in {"delivering", "answered"}
               /\ result'[q] = result'[result'[q].lead]
    <3>1. CASE q = r \/ q \in syncs[k]
      BY <1>1, <1>8, <1>9, <2>2, <3>1 DEF k
    <3>2. CASE ~(q = r \/ q \in syncs[k])
      <4>1. /\ phase'[q] = phase[q] /\ result'[q] = result[q]
            /\ result[q] \in Outcomes
        BY <1>9, <2>3, <3>2 DEF TypeOK, OutcomesBound
      <4> QED
        BY <2>1, <2>3, <4>1, OutcomeFacts DEF OutcomesBound
    <3> QED
      BY <3>1, <3>2
  <2>4. \A q \in Reqs : phase'[q] = "delivering" => result'[q].lead = q
    BY <1>1, <1>9, <2>2 DEF OutcomesBound
  <2>5. ASSUME NEW h \in Keys, store'[h] # NoOutcome
        PROVE  /\ KeyOf[store'[h].lead] = h
               /\ phase'[store'[h].lead] \in {"delivering", "answered"}
               /\ store'[h] = result'[store'[h].lead]
    <3>1. CASE h = k
      BY <1>1, <1>5, <1>6, <2>2, <2>5, <3>1 DEF k
    <3>2. CASE h # k
      <4>1. store'[h] = store[h] /\ store[h] \in Outcomes
        BY <1>5, <2>5, <3>2 DEF TypeOK
      <4> QED
        BY <2>1, <2>5, <4>1, OutcomeFacts DEF OutcomesBound
    <3> QED
      BY <3>1, <3>2
  <2> QED
    BY <2>3, <2>4, <2>5 DEF OutcomesBound
<1> QED
  BY <1>7, <1>12, <1>13, <1>14, <1>15, <1>16, <1>17, <1>18, <1>19

LEMMA ReturnJoinerCInv ==
    ASSUME CInv, NEW r \in Reqs, NEW j \in outbox[r], ReturnJoiner(r, j)
    PROVE  CInv'
<1> USE DEF CInv
<1>1. /\ phase[r] = "delivering"
      /\ outbox' = [outbox EXCEPT ![r] = @ \ {j}]
      /\ phase' = [phase EXCEPT ![j] = "answered"]
      /\ result' = [result EXCEPT ![j] = result[r]]
      /\ UNCHANGED <<flight, tasks, syncs, nudged, expected, store, bytes,
                     scanning, aborting>>
  BY DEF ReturnJoiner, Answer
<1>2. /\ j \in Reqs /\ j \in AsyncReqs /\ j \notin SyncReqs
      /\ phase[j] = "joined" /\ KeyOf[j] = KeyOf[r] /\ j # r
      /\ KeyOf[j] \in Keys /\ j \notin tasks[KeyOf[j]]
  BY <1>1, CoalesceAssumption DEF JoinersInOutboxes, TypeOK, Reqs
<1>3. TypeOK'
  BY <1>1, <1>2 DEF TypeOK, Phases
<1>4. \A q \in Reqs :
        /\ phase'[q] = IF q = j THEN "answered" ELSE phase[q]
        /\ result'[q] = IF q = j THEN result[r] ELSE result[q]
        /\ outbox'[q] = IF q = r THEN outbox[q] \ {j} ELSE outbox[q]
  BY <1>1, <1>2 DEF TypeOK
<1>5. OneFlightPerKey' /\ StoreXorFlight'
  BY <1>1, <1>2, <1>4 DEF OneFlightPerKey, StoreXorFlight, TypeOK
<1>6. WaiterReachable' /\ WaiterHasLeader'
  BY <1>1, <1>2, <1>4 DEF WaiterReachable, WaiterHasLeader, Reqs
<1>7. JoinersInGroups'
  BY <1>1, <1>2, <1>4 DEF JoinersInGroups, TypeOK, Reqs
<1>8. JoinersInOutboxes'
  <2>1. \A l \in Reqs : l # r => j \notin outbox[l]
    BY DEF JoinersInOutboxes
  <2>2. \A l \in Reqs : \A q \in outbox'[l] :
            q \in outbox[l] /\ q # j /\ q \in Reqs
    BY <1>4, <2>1 DEF TypeOK, Reqs
  <2>3. \A l \in Reqs : \A q \in outbox'[l] :
            /\ phase'[q] = "joined"
            /\ phase'[l] = "delivering"
            /\ KeyOf[q] = KeyOf[l]
            /\ q \notin tasks'[KeyOf[q]]
    BY <1>1, <1>2, <1>4, <2>2 DEF JoinersInOutboxes
  <2>4. \A l, m \in Reqs : outbox'[l] \cap outbox'[m] # {} => l = m
    BY <2>2 DEF JoinersInOutboxes
  <2> QED
    BY <2>3, <2>4 DEF JoinersInOutboxes
<1>9. JoinersHeld'
  BY <1>1, <1>4 DEF JoinersHeld
<1>10. OutcomesBound'
  <2>1. \A l \in Reqs : phase[l] \in {"delivering", "answered"} =>
            l # j /\ phase'[l] = phase[l] /\ result'[l] = result[l]
    BY <1>2, <1>4
  <2>2. /\ result[r].lead = r /\ result[r] # NoOutcome
        /\ result[r] = result[result[r].lead]
    BY <1>1 DEF OutcomesBound
  <2>6. /\ phase'[j] = "answered" /\ result'[j] = result[r]
        /\ phase'[r] = "delivering" /\ result'[r] = result[r]
    BY <1>1, <1>2, <1>4
  <2>7. \A q \in Reqs : q # j => phase'[q] = phase[q] /\ result'[q] = result[q]
    BY <1>4
  <2>3. ASSUME NEW q \in Reqs,
               phase'[q] \in {"delivering", "woken", "answered"}
        PROVE  /\ result'[q] # NoOutcome
               /\ KeyOf[result'[q].lead] = KeyOf[q]
               /\ phase'[result'[q].lead] \in {"delivering", "answered"}
               /\ result'[q] = result'[result'[q].lead]
    <3>1. CASE q = j
      BY <1>2, <2>2, <2>6, <3>1
    <3>2. CASE q # j
      <4>1. /\ phase'[q] = phase[q] /\ result'[q] = result[q]
            /\ result[q] \in Outcomes
        BY <2>3, <2>7, <3>2 DEF TypeOK, OutcomesBound
      <4> QED
        BY <2>1, <2>3, <4>1, OutcomeFacts DEF OutcomesBound
    <3> QED
      BY <3>1, <3>2
  <2>4. \A q \in Reqs : phase'[q] = "delivering" => result'[q].lead = q
    BY <2>6, <2>7 DEF OutcomesBound
  <2>5. ASSUME NEW h \in Keys, store'[h] # NoOutcome
        PROVE  /\ KeyOf[store'[h].lead] = h
               /\ phase'[store'[h].lead] \in {"delivering", "answered"}
               /\ store'[h] = result'[store'[h].lead]
    <3>1. store'[h] = store[h] /\ store[h] \in Outcomes
      BY <1>1, <2>5 DEF TypeOK
    <3> QED
      BY <2>1, <2>5, <3>1, OutcomeFacts DEF OutcomesBound
  <2> QED
    BY <2>3, <2>4, <2>5 DEF OutcomesBound
<1> QED
  BY <1>3, <1>5, <1>6, <1>7, <1>8, <1>9, <1>10

(* A request whose phase alone moves on to "answered" or "abandoned"       *)
(* leaves every outcome bound.                                             *)
LEMMA OutcomesStayBound ==
    ASSUME CInv, NEW r \in Reqs,
           NEW p \in {"answered", "abandoned"},
           phase' = [phase EXCEPT ![r] = p],
           phase[r] \in {"delivering", "woken"} => p = "answered",
           phase[r] \notin {"delivering", "woken"} => p = "abandoned",
           phase[r] # "answered",
           UNCHANGED <<result, store>>
    PROVE  OutcomesBound'
<1> USE DEF CInv
<1>1. \A q \in Reqs : phase'[q] = IF q = r THEN p ELSE phase[q]
  BY DEF TypeOK
<1>2. \A q \in Reqs : phase[q] \in {"delivering", "answered"} =>
        phase'[q] \in {"delivering", "answered"}
  BY <1>1
<1>3. \A q \in Reqs : phase'[q] \in {"delivering", "woken", "answered"} =>
        phase[q] \in {"delivering", "woken", "answered"}
  BY <1>1
<1>4. \A q \in Reqs : phase'[q] = "delivering" => phase[q] = "delivering"
  BY <1>1
<1>5. \A q \in Reqs : result[q] # NoOutcome => result[q].lead \in Reqs
  BY OutcomeFacts DEF TypeOK
<1>6. \A h \in Keys : store[h] # NoOutcome => store[h].lead \in Reqs
  BY OutcomeFacts DEF TypeOK
<1> QED
  BY <1>2, <1>3, <1>4, <1>5, <1>6 DEF OutcomesBound

LEMMA ReturnLeaderCInv ==
    ASSUME CInv, NEW r \in Reqs, ReturnLeader(r)
    PROVE  CInv'
<1> USE DEF CInv
<1>1. /\ phase[r] = "delivering" /\ outbox[r] = {}
      /\ phase' = [phase EXCEPT ![r] = "answered"]
      /\ UNCHANGED <<result, flight, tasks, syncs, outbox, nudged, expected,
                     store, bytes, scanning, aborting>>
  BY DEF ReturnLeader
<1>2. TypeOK'
  BY <1>1 DEF TypeOK, Phases
<1>3. \A q \in Reqs : phase'[q] = IF q = r THEN "answered" ELSE phase[q]
  BY <1>1 DEF TypeOK
<1>4. OneFlightPerKey' /\ StoreXorFlight'
  BY <1>1, <1>3 DEF OneFlightPerKey, StoreXorFlight, TypeOK
<1>5. WaiterReachable' /\ WaiterHasLeader'
  BY <1>1, <1>3 DEF WaiterReachable, WaiterHasLeader, Reqs
<1>6. JoinersInGroups' /\ JoinersInOutboxes' /\ JoinersHeld'
  BY <1>1, <1>3 DEF JoinersInGroups, JoinersInOutboxes, JoinersHeld,
                    TypeOK, Reqs
<1>7. OutcomesBound'
  BY <1>1, OutcomesStayBound
<1> QED
  BY <1>2, <1>4, <1>5, <1>6, <1>7

(* A blocked joiner leaves, with an answer or without one.                 *)
LEMMA WaiterLeavesCInv ==
    ASSUME CInv, NEW s \in SyncReqs,
           phase[s] \in {"waiting", "woken"},
           phase' = [phase EXCEPT ![s] =
                        IF phase[s] = "woken" THEN "answered" ELSE "abandoned"],
           syncs' = [syncs EXCEPT ![KeyOf[s]] = @ \ {s}],
           nudged' \subseteq SyncReqs,
           UNCHANGED <<result, flight, tasks, outbox, expected, store, bytes,
                       scanning, aborting>>
    PROVE  CInv'
<1> USE DEF CInv
<1>1. s \in Reqs /\ s \notin AsyncReqs /\ KeyOf[s] \in Keys
  BY CoalesceAssumption DEF Reqs
<1>2. TypeOK'
  BY <1>1 DEF TypeOK, Phases
<1>3. /\ \A q \in Reqs : q # s => phase'[q] = phase[q]
      /\ phase'[s] \in {"answered", "abandoned"}
  BY <1>1 DEF TypeOK
<1>4. \A h \in Keys :
        syncs'[h] = IF h = KeyOf[s] THEN syncs[h] \ {s} ELSE syncs[h]
  BY <1>1 DEF TypeOK
<1>5. OneFlightPerKey' /\ StoreXorFlight'
  BY <1>1, <1>3 DEF OneFlightPerKey, StoreXorFlight, TypeOK
<1>6. WaiterReachable'
  <2> SUFFICES ASSUME NEW q \in SyncReqs, NEW h \in Keys
               PROVE  (q \in syncs'[h])
                         <=> (phase'[q] = "waiting" /\ h = KeyOf[q])
    BY DEF WaiterReachable
  <2>1. (q \in syncs[h]) <=> (phase[q] = "waiting" /\ h = KeyOf[q])
    BY DEF WaiterReachable
  <2> QED
    BY <1>3, <1>4, <2>1 DEF Reqs
<1>7. WaiterHasLeader'
  BY <1>3 DEF WaiterHasLeader, Reqs
<1>8. JoinersInGroups' /\ JoinersInOutboxes' /\ JoinersHeld'
  BY <1>1, <1>3 DEF JoinersInGroups, JoinersInOutboxes, JoinersHeld,
                    TypeOK, Reqs
<1>9. OutcomesBound'
  BY <1>1, OutcomesStayBound
<1> QED
  BY <1>2, <1>5, <1>6, <1>7, <1>8, <1>9

LEMMA WakeCInv ==
    ASSUME CInv, NEW s \in SyncReqs, Wake(s)
    PROVE  CInv'
<1> USE DEF CInv
<1>1. KeyOf[s] \in Keys /\ s \in Reqs
  BY CoalesceAssumption DEF Reqs
<1>2. /\ nudged' \subseteq SyncReqs
      /\ UNCHANGED <<result, flight, tasks, outbox, expected, store, bytes,
                     scanning, aborting>>
  BY DEF Wake, TypeOK
<1>3. CASE /\ phase[s] = "woken"
           /\ phase' = [phase EXCEPT ![s] = "answered"]
           /\ UNCHANGED syncs
  <2>1. s \notin syncs[KeyOf[s]]
    BY <1>1, <1>3 DEF WaiterReachable
  <2>2. syncs' = [syncs EXCEPT ![KeyOf[s]] = @ \ {s}]
    BY <1>1, <1>3, <2>1 DEF TypeOK
  <2> QED
    BY <1>2, <1>3, <2>2, WaiterLeavesCInv
<1>4. CASE /\ phase[s] = "waiting"
           /\ phase' = [phase EXCEPT ![s] = "abandoned"]
           /\ Unregister(s)
  BY <1>2, <1>4, WaiterLeavesCInv DEF Unregister
<1>5. CASE UNCHANGED <<phase, syncs>>
  BY <1>2, <1>5
     DEF TypeOK, OneFlightPerKey, StoreXorFlight, WaiterReachable,
         WaiterHasLeader, JoinersInGroups, JoinersInOutboxes, JoinersHeld,
         OutcomesBound
<1> QED
  BY <1>3, <1>4, <1>5 DEF Wake

LEMMA DeadlineCInv ==
    ASSUME CInv, NEW s \in SyncReqs, Deadline(s)
    PROVE  CInv'
<1>1. nudged' \subseteq SyncReqs
  BY DEF Deadline, CInv, TypeOK
<1> QED
  BY <1>1, WaiterLeavesCInv DEF Deadline, Unregister

LEMMA AbortCInv ==
    ASSUME CInv, Abort \/ UNCHANGED vars
    PROVE  CInv'
<1>1. /\ aborting' \in BOOLEAN
      /\ UNCHANGED <<phase, result, flight, tasks, syncs, outbox, nudged,
                     expected, store, bytes, scanning>>
  BY DEF Abort, vars, CInv, TypeOK
<1> QED
  BY <1>1
     DEF CInv, TypeOK, OneFlightPerKey, StoreXorFlight, WaiterReachable,
         WaiterHasLeader, JoinersInGroups, JoinersInOutboxes, JoinersHeld,
         OutcomesBound

LEMMA NextCInv == CInv /\ [Next]_vars => CInv'
<1> SUFFICES ASSUME CInv, [Next]_vars PROVE CInv'
  OBVIOUS
<1>1. CASE Clear \/ \E k \in Keys : Expect(k)
  BY <1>1, ScanCInv
<1>2. ASSUME NEW r \in Reqs, Claim(r) PROVE CInv'
  BY <1>2, ClaimPreloadedCInv, JoinAsyncCInv, JoinSyncCInv, LeadCInv DEF Claim
<1>3. ASSUME NEW r \in Reqs, Land(r) PROVE CInv'
  BY <1>3, DeliverCInv DEF Land
<1>4. ASSUME NEW r \in Reqs, Return(r) PROVE CInv'
  BY <1>4, ReturnLeaderCInv, ReturnJoinerCInv DEF Return
<1>5. ASSUME NEW s \in SyncReqs, Wake(s) \/ Deadline(s) PROVE CInv'
  BY <1>5, WakeCInv, DeadlineCInv
<1>6. CASE Abort \/ UNCHANGED vars
  BY <1>6, AbortCInv
<1> QED
  BY <1>1, <1>2, <1>3, <1>4, <1>5, <1>6 DEF Next

-----------------------------------------------------------------------------
THEOREM Invariance == Spec => []CInv
BY InitCInv, NextCInv, PTL DEF Spec

(* The type invariant of the coalescer and the preload map.                *)
THEOREM TypeCorrect == Spec => []TypeOK
<1>1. CInv => TypeOK
  BY DEF CInv
<1> QED
  BY <1>1, Invariance, PTL

(* No resource is ever fetched twice at once.                              *)
THEOREM OneFetchAtATime == Spec => []OneFlightPerKey
<1>1. CInv => OneFlightPerKey
  BY DEF CInv
<1> QED
  BY <1>1, Invariance, PTL

(* A stored response and a fetch for the same key never coexist.           *)
THEOREM NeverStoredAndFlying == Spec => []StoreXorFlight
<1>1. CInv => StoreXorFlight
  BY DEF CInv
<1> QED
  BY <1>1, Invariance, PTL

(* A delivery reaches every sleeping waiter and no waiter that has left.   *)
THEOREM WaitersAreReachable == Spec => []WaiterReachable
<1>1. CInv => WaiterReachable
  BY DEF CInv
<1> QED
  BY <1>1, Invariance, PTL

(* No blocked joiner sleeps on a group whose leader is gone.               *)
THEOREM WaitersHaveLeaders == Spec => []WaiterHasLeader
<1>1. CInv => WaiterHasLeader
  BY DEF CInv
<1> QED
  BY <1>1, Invariance, PTL

(* Every answer comes from a fetch for the request's own key.              *)
THEOREM AnswersAreForTheirKey == Spec => []AnswerIsForKey
<1>1. CInv => AnswerIsForKey
  <2> SUFFICES ASSUME CInv, NEW r \in Reqs,
                      phase[r] \in {"answered", "woken", "delivering"}
               PROVE  /\ result[r].lead \in Reqs
                      /\ KeyOf[result[r].lead] = KeyOf[r]
                      /\ result[r] = result[result[r].lead]
    BY DEF AnswerIsForKey
  <2>1. result[r] \in Outcomes
    BY DEF CInv, OutcomesBound, TypeOK
  <2> QED
    BY <2>1, OutcomeFacts DEF CInv, OutcomesBound
<1> QED
  BY <1>1, Invariance, PTL

(* An unanswered async joiner is held by exactly one group or leader.      *)
THEOREM JoinersAreHeldOnce == Spec => []JoinerHeldOnce
<1>1. ASSUME CInv, NEW j \in AsyncReqs
      PROVE  LET groups  == {k \in Keys : j \in tasks[k]}
                 leaders == {r \in Reqs : j \in outbox[r]}
             IN  /\ phase[j] = "joined" =>
                       Cardinality(groups) + Cardinality(leaders) = 1
                 /\ phase[j] # "joined" => groups = {} /\ leaders = {}
                 /\ \A k \in groups : flight[k] # None
                 /\ \A r \in leaders : phase[r] = "delivering"
  <2> DEFINE groups  == {k \in Keys : j \in tasks[k]}
             leaders == {r \in Reqs : j \in outbox[r]}
  <2>1. j \in Reqs /\ KeyOf[j] \in Keys
    BY CoalesceAssumption DEF Reqs
  <2>2. \A k \in groups : phase[j] = "joined" /\ k = KeyOf[j] /\ flight[k] # None
    BY <1>1 DEF CInv, JoinersInGroups
  <2>3. \A r \in leaders : phase[j] = "joined" /\ phase[r] = "delivering"
                           /\ j \notin tasks[KeyOf[j]]
    BY <1>1 DEF CInv, JoinersInOutboxes
  <2>4. ASSUME phase[j] = "joined"
        PROVE  Cardinality(groups) + Cardinality(leaders) = 1
    <3>1. CASE j \in tasks[KeyOf[j]]
      <4>1. groups = {KeyOf[j]} /\ leaders = {}
        BY <2>1, <2>2, <2>3, <3>1
      <4>2. Cardinality({KeyOf[j]}) = 1 /\ Cardinality({}) = 0
        BY FS_EmptySet, FS_Singleton
      <4> HIDE DEF groups, leaders
      <4> QED
        BY <4>1, <4>2
    <3>2. CASE j \notin tasks[KeyOf[j]]
      <4>1. groups = {}
        BY <2>2, <3>2
      <4>2. PICK l \in Reqs : j \in outbox[l]
        BY <1>1, <2>1, <2>4, <3>2 DEF CInv, JoinersHeld
      <4>3. leaders = {l}
        BY <1>1, <4>2 DEF CInv, JoinersInOutboxes
      <4> HIDE DEF groups, leaders
      <4> QED
        BY <4>1, <4>3, FS_EmptySet, FS_Singleton
    <3> QED
      BY <3>1, <3>2
  <2> QED
    BY <2>2, <2>3, <2>4
<1>2. CInv => JoinerHeldOnce
  BY <1>1 DEF JoinerHeldOnce
<1> QED
  BY <1>2, Invariance, PTL

(* Table, preload map and joiners agree, for any requests and keys.         *)
THEOREM TableIsSound == Spec => []TableSound
BY OneFetchAtATime, NeverStoredAndFlying, JoinersAreHeldOnce, PTL DEF TableSound

(* Every sleeping joiner is known to a group whose leader will deliver.     *)
THEOREM JoinersAreLed == Spec => []WaitersAreLed
BY WaitersAreReachable, WaitersHaveLeaders, PTL DEF WaitersAreLed

-----------------------------------------------------------------------------
(* The byte count.  What the preload map holds, by key.                     *)
SizesIn(st) == [k \in Keys |-> st[k].size]

BytesInv ==
    /\ bytes = Total(SizesIn(store), Keys)
    /\ bytes <= MaxBytes

(* The sum of the model is that of the lemmas.                              *)
LEMMA SumOfSizes ==
    ASSUME NEW st, IsFiniteSet(Keys)
    PROVE  MapThenSumSet(LAMBDA k : st[k].size, Keys) = Total(SizesIn(st), Keys)
<1> DEFINE Solves(g) ==
        g = [s \in SUBSET Keys |->
                IF s = {} THEN 0
                ELSE st[Chosen(s)].size + g[s \ {Chosen(s)}]]
<1>1. \A g : Solves(g) <=> Sums(g, SizesIn(st), Keys)
  <2> TAKE g
  <2>1. \A s \in SUBSET Keys : s # {} =>
            SizesIn(st)[Chosen(s)] = st[Chosen(s)].size
    BY ChosenIn DEF SizesIn
  <2>2. \A s \in SUBSET Keys :
            FoldStep(g, SizesIn(st), s) =
                IF s = {} THEN 0
                ELSE st[Chosen(s)].size + g[s \ {Chosen(s)}]
    BY <2>1 DEF FoldStep
  <2>. QED
    BY <2>2 DEF Sums
<1>2. \E g : Solves(g)
  <2> HIDE DEF Solves
  <2>. QED
    BY <1>1, SumsExist
<1>3. \E g : Solves(g) /\ MapThenSumSet(LAMBDA k : st[k].size, Keys) = g[Keys]
  BY <1>2 DEF MapThenSumSet, MapThenFoldSet, Chosen
<1>4. PICK h : /\ Sums(h, SizesIn(st), Keys)
               /\ MapThenSumSet(LAMBDA k : st[k].size, Keys) = h[Keys]
  <2> HIDE DEF Solves
  <2>. QED
    BY <1>1, <1>3
<1>5. PICK g : Sums(g, SizesIn(st), Keys) /\ Total(SizesIn(st), Keys) = g[Keys]
  BY TotalIs
<1>6. h[Keys] = g[Keys]
  BY <1>4, <1>5, SumsAgree
<1>. QED
  BY <1>4, <1>5, <1>6

LEMMA SizesInNat == \A n \in Sizes \cup {0} : n \in Nat
<1>1. \A n \in Sizes : n \in Nat
  BY CoalesceAssumption
<1>2. 0 \in Nat
  OBVIOUS
<1>. QED
  BY <1>1, <1>2, Zenon

LEMMA SizesAreNumbers ==
    ASSUME TypeOK
    PROVE  /\ \A k \in Keys : store[k].size \in Nat
           /\ \A k \in Keys : SizesIn(store)[k] = store[k].size
<1>1. \A k \in Keys : store[k] \in Outcomes \cup {NoOutcome}
  BY DEF TypeOK
<1>2. \A o \in Outcomes \cup {NoOutcome} : o.size \in Nat
  <2>1. \A o \in Outcomes : o.size \in Sizes \cup {0}
    BY DEF Outcomes
  <2>2. NoOutcome.size = 0
    BY DEF NoOutcome
  <2>. QED
    BY <2>1, <2>2, SizesInNat, Zenon
<1>. QED
  BY <1>1, <1>2 DEF SizesIn

(* An emptied map, a response taken out, and one put in.                    *)
LEMMA EmptyMapBytes ==
    ASSUME IsFiniteSet(Keys), EmptyMap
    PROVE  BytesInv'
<1>1. \A k \in Keys : SizesIn(store')[k] = 0
  BY DEF EmptyMap, SizesIn, NoOutcome
<1>2. Total(SizesIn(store'), Keys) = 0
  BY <1>1, TotalZero
<1>. QED
  BY <1>2, CoalesceAssumption DEF BytesInv, EmptyMap

LEMMA TakenBytes ==
    ASSUME IsFiniteSet(Keys), TypeOK, TypeOK', BytesInv,
           NEW r \in Reqs, ClaimPreloaded(r)
    PROVE  BytesInv'
<1> DEFINE k == KeyOf[r]
           n == store[k].size
<1>1. k \in Keys
  BY CoalesceAssumption
<1>2. /\ SizesIn(store')[k] = 0
      /\ \A l \in Keys \ {k} : SizesIn(store')[l] = SizesIn(store)[l]
  BY <1>1 DEF ClaimPreloaded, SizesIn, TypeOK, NoOutcome
<1>3. \A l \in Keys : SizesIn(store)[l] \in Nat /\ SizesIn(store')[l] \in Nat
  BY <1>2, SizesAreNumbers
<1>4. SizesIn(store)[k] = n /\ n \in Nat
  BY <1>1, SizesAreNumbers
<1>5. Total(SizesIn(store), Keys) + 0 = Total(SizesIn(store'), Keys) + n
  <2> HIDE DEF k, n
  <2>. QED
    BY <1>1, <1>2, <1>3, <1>4, TotalChanged
<1>6. Total(SizesIn(store'), Keys) \in Nat
  BY <1>3, TotalNumber
<1>7. bytes' = IF bytes > n THEN bytes - n ELSE 0
  BY DEF ClaimPreloaded, BytesWithout
<1>. QED
  <2> HIDE DEF k, n
  <2>. QED
    BY <1>4, <1>5, <1>6, <1>7, CoalesceAssumption DEF BytesInv, TypeOK

LEMMA StoredBytes ==
    ASSUME IsFiniteSet(Keys), TypeOK, TypeOK', BytesInv,
           NEW r \in Reqs, NEW o \in OutcomesOf(r), Deliver(r, o)
    PROVE  BytesInv'
<1> DEFINE k == KeyOf[r]
<1>1. k \in Keys
  BY CoalesceAssumption
<1>2. o.size \in Nat
  <2>1. o.size \in Sizes \cup {0}
    BY DEF OutcomesOf
  <2>. QED
    BY <2>1, SizesInNat, Zenon
<1>3. CASE Storable(k, o)
  <2>1. store' = [store EXCEPT ![k] = o] /\ bytes' = bytes + o.size
    BY <1>3 DEF Deliver, StoreOrDrop
  <2>2. bytes + o.size <= MaxBytes /\ store[k] = NoOutcome
    BY <1>3 DEF Storable
  <2> HIDE DEF k
  <2>3. /\ SizesIn(store')[k] = o.size
        /\ SizesIn(store)[k] = 0
        /\ \A l \in Keys \ {k} : SizesIn(store')[l] = SizesIn(store)[l]
    BY <1>1, <2>1, <2>2 DEF SizesIn, TypeOK, NoOutcome
  <2>4. \A l \in Keys :
            SizesIn(store)[l] \in Nat /\ SizesIn(store')[l] \in Nat
    BY <1>2, <2>3, SizesAreNumbers
  <2>5. Total(SizesIn(store), Keys) + o.size = Total(SizesIn(store'), Keys) + 0
    BY <1>1, <2>3, <2>4, TotalChanged
  <2>6. Total(SizesIn(store'), Keys) \in Nat
    BY <2>4, TotalNumber
  <2>. QED
    BY <1>2, <2>1, <2>2, <2>5, <2>6, CoalesceAssumption DEF BytesInv, TypeOK
<1>4. CASE ~Storable(k, o)
  BY <1>4 DEF Deliver, StoreOrDrop, BytesInv
<1>. QED
  BY <1>3, <1>4

LEMMA NextBytes ==
    ASSUME IsFiniteSet(Keys), TypeOK, TypeOK', BytesInv, [Next]_vars
    PROVE  BytesInv'
<1>1. CASE UNCHANGED <<store, bytes>>
  BY <1>1 DEF BytesInv
<1>2. CASE Clear
  BY <1>2, EmptyMapBytes DEF Clear
<1>3. ASSUME NEW r \in Reqs, ClaimPreloaded(r) PROVE BytesInv'
  BY <1>3, TakenBytes
<1>4. ASSUME NEW r \in Reqs, Land(r) PROVE BytesInv'
  BY <1>4, StoredBytes DEF Land
<1>5. ASSUME NEW r \in Reqs, Claim(r) \/ Return(r), ~ClaimPreloaded(r)
      PROVE  UNCHANGED <<store, bytes>>
  BY <1>5 DEF Claim, JoinAsync, JoinSync, Lead, Return, ReturnLeader, ReturnJoiner
<1>6. ASSUME NEW s \in SyncReqs, Wake(s) \/ Deadline(s)
      PROVE  UNCHANGED <<store, bytes>>
  BY <1>6 DEF Wake, Deadline
<1>7. ASSUME NEW k \in Keys, Expect(k) PROVE UNCHANGED <<store, bytes>>
  BY <1>7 DEF Expect
<1>8. Abort \/ UNCHANGED vars => UNCHANGED <<store, bytes>>
  BY DEF Abort, vars
<1>. QED
  BY <1>1, <1>2, <1>3, <1>4, <1>5, <1>6, <1>7, <1>8 DEF Next

(* g_preload_bytes is the number of bytes in the preload map, whatever is   *)
(* stored, taken and cleared in whatever order, and never above the budget: *)
(* the clamp of ns_preload_take_locked never hides an error.                *)
THEOREM BytesAreExact ==
    ASSUME IsFiniteSet(Keys)
    PROVE  Spec => []BytesExact
<1>1. Init => BytesInv
  <2> SUFFICES ASSUME Init PROVE BytesInv
    OBVIOUS
  <2>1. \A k \in Keys : SizesIn(store)[k] = 0
    BY DEF Init, SizesIn, NoOutcome
  <2>2. Total(SizesIn(store), Keys) = 0
    BY <2>1, TotalZero
  <2>. QED
    BY <2>2, CoalesceAssumption DEF Init, BytesInv
<1>2. TypeOK /\ TypeOK' /\ BytesInv /\ [Next]_vars => BytesInv'
  BY NextBytes
<1>3. BytesInv => BytesExact
  BY SumOfSizes DEF BytesInv, BytesExact
<1>. QED
  BY <1>1, <1>2, <1>3, TypeCorrect, PTL DEF Spec

-----------------------------------------------------------------------------
(* What the refinement says of a request in each phase.                    *)
Mapped ==
    \A q \in Reqs :
        /\ phase[q] = "new" => StatusOf(q) = "new" /\ SourceOf(q) = None
        /\ phase[q] = "abandoned" =>
              StatusOf(q) = "left" /\ SourceOf(q) = None
        /\ phase[q] = "lead" => StatusOf(q) = "flying" /\ SourceOf(q) = q
        /\ Riding(q) =>
              StatusOf(q) = "riding" /\ SourceOf(q) = flight[KeyOf[q]]
        /\ \A l \in Reqs : q \in outbox[l] =>
              StatusOf(q) = "served" /\ SourceOf(q) = l
        /\ phase[q] \in {"woken", "delivering", "answered"} =>
              StatusOf(q) = "served" /\ SourceOf(q) = result[q].lead

LEMMA MappedHolds == CInv => Mapped
<1> SUFFICES ASSUME CInv, NEW q \in Reqs
             PROVE
        /\ phase[q] = "new" => StatusOf(q) = "new" /\ SourceOf(q) = None
        /\ phase[q] = "abandoned" =>
              StatusOf(q) = "left" /\ SourceOf(q) = None
        /\ phase[q] = "lead" => StatusOf(q) = "flying" /\ SourceOf(q) = q
        /\ Riding(q) =>
              StatusOf(q) = "riding" /\ SourceOf(q) = flight[KeyOf[q]]
        /\ \A l \in Reqs : q \in outbox[l] =>
              StatusOf(q) = "served" /\ SourceOf(q) = l
        /\ phase[q] \in {"woken", "delivering", "answered"} =>
              StatusOf(q) = "served" /\ SourceOf(q) = result[q].lead
  BY DEF Mapped
<1>1. /\ phase[q] = "new" => StatusOf(q) = "new" /\ SourceOf(q) = None
      /\ phase[q] = "abandoned" =>
            StatusOf(q) = "left" /\ SourceOf(q) = None
      /\ phase[q] = "lead" => StatusOf(q) = "flying" /\ SourceOf(q) = q
      /\ Riding(q) =>
            StatusOf(q) = "riding" /\ SourceOf(q) = flight[KeyOf[q]]
      /\ phase[q] \in {"woken", "delivering", "answered"} =>
            StatusOf(q) = "served" /\ SourceOf(q) = result[q].lead
  BY DEF StatusOf, SourceOf, Riding
<1>2. ASSUME NEW l \in Reqs, q \in outbox[l]
      PROVE  StatusOf(q) = "served" /\ SourceOf(q) = l
  <2>1. phase[q] = "joined" /\ q \notin tasks[KeyOf[q]]
    BY <1>2 DEF CInv, JoinersInOutboxes
  <2>2. ~Riding(q)
    BY <2>1 DEF Riding
  <2>3. \A m \in Reqs : q \in outbox[m] => m = l
    BY <1>2 DEF CInv, JoinersInOutboxes
  <2>4. (CHOOSE m \in Reqs : q \in outbox[m]) = l
    BY <1>2, <2>3
  <2> QED
    BY <2>1, <2>2, <2>4 DEF StatusOf, SourceOf
<1> QED
  BY <1>1, <1>2

LEMMA MappedStays == CInv' => Mapped'
BY MappedHolds, PTL

(* A request the step does not concern looks the same to the abstract table. *)
LEMMA SameRequest ==
    ASSUME CInv, CInv', NEW q \in Reqs,
           phase'[q] = phase[q],
           result'[q] = result[q],
           phase[q] = "joined" =>
              /\ q \in tasks[KeyOf[q]] <=> q \in tasks'[KeyOf[q]]
              /\ \A l \in Reqs : q \in outbox[l] => q \in outbox'[l],
           Riding(q) => flight'[KeyOf[q]] = flight[KeyOf[q]]
    PROVE  StatusOf(q)' = StatusOf(q) /\ SourceOf(q)' = SourceOf(q)
<1>1. Mapped /\ Mapped'
  BY MappedHolds, MappedStays
<1>2. CASE phase[q] \in {"new", "abandoned", "lead", "woken", "delivering",
                         "answered"}
  BY <1>1, <1>2 DEF Mapped
<1>3. CASE Riding(q)
  <2>1. Riding(q)'
    BY <1>3 DEF Riding
  <2> QED
    BY <1>1, <1>3, <2>1 DEF Mapped
<1>4. CASE phase[q] = "joined" /\ ~Riding(q)
  <2>1. PICK l \in Reqs : q \in outbox[l]
    BY <1>4 DEF CInv, JoinersHeld, Riding
  <2>2. q \in outbox'[l]
    BY <1>4, <2>1
  <2> QED
    BY <1>1, <2>1, <2>2 DEF Mapped
<1>5. phase[q] \in Phases
  BY DEF CInv, TypeOK
<1> QED
  BY <1>2, <1>3, <1>4, <1>5 DEF Riding, Phases

(* A step nobody can tell.                                                 *)
LEMMA Stutters ==
    ASSUME \A k \in Keys : SlotOf(k)' = SlotOf(k),
           \A q \in Reqs : StatusOf(q)' = StatusOf(q)
                           /\ SourceOf(q)' = SourceOf(q)
    PROVE  UNCHANGED SF!vars
BY DEF SF!vars

(* Only blocking calls wait.                                               *)
WaitersBlock == \A q \in Reqs : phase[q] = "waiting" => q \in SyncReqs

LEMMA InitWaitersBlock == Init => WaitersBlock
BY DEF Init, WaitersBlock

LEMMA NextWaitersBlock ==
    ASSUME CInv, WaitersBlock, [Next]_vars
    PROVE  WaitersBlock'
<1>1. ASSUME NEW q \in Reqs, phase'[q] = "waiting"
      PROVE  phase[q] = "waiting" \/ q \in SyncReqs
  <2>1. CASE Clear \/ (\E k \in Keys : Expect(k)) \/ Abort \/ UNCHANGED vars
    BY <1>1, <2>1 DEF Clear, Expect, Abort, vars
  <2>2. ASSUME NEW r \in Reqs, Claim(r)
        PROVE  phase[q] = "waiting" \/ q \in SyncReqs
    BY <1>1, <2>2 DEF Claim, ClaimPreloaded, JoinAsync, JoinSync, Lead,
                      CInv, TypeOK
  <2>3. ASSUME NEW r \in Reqs, NEW o \in OutcomesOf(r), Deliver(r, o)
        PROVE  phase[q] = "waiting" \/ q \in SyncReqs
    BY <1>1, <2>3 DEF Deliver, MarkDone
  <2>4. ASSUME NEW r \in Reqs, Return(r)
        PROVE  phase[q] = "waiting" \/ q \in SyncReqs
    BY <1>1, <2>4 DEF Return, ReturnLeader, ReturnJoiner, Answer,
                      CInv, TypeOK
  <2>5. ASSUME NEW s \in SyncReqs, Wake(s) \/ Deadline(s)
        PROVE  phase[q] = "waiting" \/ q \in SyncReqs
    BY <1>1, <2>5 DEF Wake, Deadline, CInv, TypeOK
  <2> QED
    BY <2>1, <2>2, <2>3, <2>4, <2>5 DEF Next, Land
<1> QED
  BY <1>1 DEF WaitersBlock

(* A request rides on a fetch that is in flight for its key.               *)
LEMMA RidersHaveFlights ==
    ASSUME CInv, WaitersBlock, NEW q \in Reqs, Riding(q)
    PROVE  flight[KeyOf[q]] # None
<1>1. CASE phase[q] = "waiting"
  BY <1>1 DEF WaitersBlock, CInv, WaiterHasLeader
<1>2. CASE q \in tasks[KeyOf[q]]
  BY <1>2, CoalesceAssumption DEF CInv, JoinersInGroups
<1> QED
  BY <1>1, <1>2 DEF Riding

(* What the refinement says of a key.                                      *)
LEMMA SlotKinds ==
    ASSUME CInv, NEW k \in Keys
    PROVE  /\ flight[k] # None => SlotOf(k) = SF!Flying(flight[k])
           /\ store[k] # NoOutcome => SlotOf(k) = SF!Ready(store[k].lead)
           /\ flight[k] = None /\ store[k] = NoOutcome => SlotOf(k) = SF!Empty
BY DEF CInv, StoreXorFlight, SlotOf, SF!Flying, SF!Ready, SF!Empty

(* Clear drops what is ready, whoever is flying.                           *)
LEMMA ClearRefines ==
    ASSUME CInv, CInv', Clear
    PROVE  SF!Forget
<1>1. /\ UNCHANGED <<phase, result, flight, tasks, outbox>>
      /\ \A k \in Keys : store'[k] = NoOutcome
  BY DEF Clear, EmptyMap
<1>2. ASSUME NEW q \in Reqs
      PROVE  StatusOf(q)' = StatusOf(q) /\ SourceOf(q)' = SourceOf(q)
  BY <1>1, SameRequest
<1>3. ASSUME NEW k \in Keys
      PROVE  SlotOf(k)' = IF SlotOf(k).state = "ready" THEN SF!Empty
                          ELSE SlotOf(k)
  BY <1>1 DEF SlotOf, SF!Empty
<1>4. /\ [q \in Reqs |-> StatusOf(q)]' = [q \in Reqs |-> StatusOf(q)]
      /\ [q \in Reqs |-> SourceOf(q)]' = [q \in Reqs |-> SourceOf(q)]
  BY <1>2
<1>5. [k \in Keys |-> SlotOf(k)]' =
        [k \in Keys |-> IF [h \in Keys |-> SlotOf(h)][k].state = "ready"
                        THEN SF!Empty ELSE [h \in Keys |-> SlotOf(h)][k]]
  BY <1>3
<1> QED
  BY <1>4, <1>5 DEF SF!Forget

(* The steps that change no key and no request the abstract table knows.    *)
LEMMA QuietRefines ==
    ASSUME CInv, CInv',
           \/ \E k \in Keys : Expect(k)
           \/ Abort
           \/ UNCHANGED vars
    PROVE  UNCHANGED SF!vars
<1>1. UNCHANGED <<phase, result, flight, tasks, outbox, store>>
  BY DEF Expect, Abort, vars
<1>2. ASSUME NEW q \in Reqs
      PROVE  StatusOf(q)' = StatusOf(q) /\ SourceOf(q)' = SourceOf(q)
  BY <1>1, SameRequest
<1>3. ASSUME NEW k \in Keys PROVE SlotOf(k)' = SlotOf(k)
  BY <1>1 DEF SlotOf
<1> QED
  BY <1>2, <1>3, Stutters

(* A response in the preload map goes to the request that claims it.       *)
LEMMA ClaimPreloadedRefines ==
    ASSUME CInv, CInv', NEW r \in Reqs, ClaimPreloaded(r)
    PROVE  \E l \in Reqs : SF!Take(r, l)
<1> DEFINE l == store[KeyOf[r]].lead
<1>1. KeyOf[r] \in Keys
  BY CoalesceAssumption
<1>2. /\ phase[r] = "new" /\ phase'[r] = "answered"
      /\ result'[r] = store[KeyOf[r]]
      /\ store[KeyOf[r]] # NoOutcome
      /\ store' = [store EXCEPT ![KeyOf[r]] = NoOutcome]
      /\ \A q \in Reqs : q # r => phase'[q] = phase[q]
                                  /\ result'[q] = result[q]
      /\ UNCHANGED <<flight, tasks, outbox>>
  BY DEF ClaimPreloaded, Arrives, CInv, TypeOK
<1>3. l \in Reqs
  BY <1>1, <1>2, OutcomeFacts DEF CInv, TypeOK
<1>4. /\ StatusOf(r) = "new"
      /\ StatusOf(r)' = "served"
      /\ SourceOf(r)' = l
  BY <1>2, MappedHolds, MappedStays DEF Mapped
<1>5. ASSUME NEW q \in Reqs, q # r
      PROVE  StatusOf(q)' = StatusOf(q) /\ SourceOf(q)' = SourceOf(q)
  BY <1>2, <1>5, SameRequest
<1>6. SlotOf(KeyOf[r]) = SF!Ready(l)
  BY <1>1, <1>2, SlotKinds
<1>7. SlotOf(KeyOf[r])' = SF!Empty
  BY <1>1, <1>2 DEF CInv, StoreXorFlight, TypeOK, SlotOf, SF!Empty
<1>8. ASSUME NEW k \in Keys, k # KeyOf[r] PROVE SlotOf(k)' = SlotOf(k)
  BY <1>2, <1>8 DEF SlotOf, CInv, TypeOK
<1> HIDE DEF l
<1> QED
  BY <1>1, <1>3, <1>4, <1>5, <1>6, <1>7, <1>8 DEF SF!Take

(* A request that joins a group rides on the fetch the slot holds.          *)
LEMMA JoinRefines ==
    ASSUME CInv, CInv', NEW r \in Reqs,
           phase[r] = "new", Riding(r)',
           store[KeyOf[r]] = NoOutcome, flight[KeyOf[r]] # None,
           \A q \in Reqs : q # r => /\ phase'[q] = phase[q]
                                    /\ q \in tasks'[KeyOf[q]]
                                          <=> q \in tasks[KeyOf[q]],
           UNCHANGED <<result, flight, outbox, store>>
    PROVE  \E l \in Reqs : SF!Ride(r, l)
<1> DEFINE l == flight[KeyOf[r]]
<1>1. KeyOf[r] \in Keys
  BY CoalesceAssumption
<1>2. l \in Reqs
  BY <1>1 DEF CInv, TypeOK
<1>3. /\ StatusOf(r) = "new"
      /\ StatusOf(r)' = "riding"
      /\ SourceOf(r)' = l
  BY MappedHolds, MappedStays DEF Mapped
<1>4. ASSUME NEW q \in Reqs, q # r
      PROVE  StatusOf(q)' = StatusOf(q) /\ SourceOf(q)' = SourceOf(q)
  BY <1>4, SameRequest
<1>5. SlotOf(KeyOf[r]) = SF!Flying(l)
  BY <1>1, SlotKinds
<1>6. ASSUME NEW k \in Keys PROVE SlotOf(k)' = SlotOf(k)
  BY DEF SlotOf
<1> HIDE DEF l
<1> QED
  BY <1>1, <1>2, <1>3, <1>4, <1>5, <1>6 DEF SF!Ride

LEMMA JoinAsyncRefines ==
    ASSUME CInv, CInv', NEW r \in Reqs, JoinAsync(r)
    PROVE  \E l \in Reqs : SF!Ride(r, l)
<1>1. KeyOf[r] \in Keys
  BY CoalesceAssumption
<1>2. /\ phase[r] = "new" /\ phase'[r] = "joined"
      /\ store[KeyOf[r]] = NoOutcome /\ flight[KeyOf[r]] # None
      /\ tasks' = [tasks EXCEPT ![KeyOf[r]] = @ \cup {r}]
      /\ \A q \in Reqs : q # r => phase'[q] = phase[q]
      /\ UNCHANGED <<result, flight, outbox, store>>
  BY DEF JoinAsync, Arrives, CInv, TypeOK
<1>3. Riding(r)'
  BY <1>1, <1>2 DEF Riding, CInv, TypeOK
<1>4. \A q \in Reqs : q # r =>
          (q \in tasks'[KeyOf[q]] <=> q \in tasks[KeyOf[q]])
  BY <1>2, CoalesceAssumption DEF CInv, TypeOK
<1> QED
  BY <1>2, <1>3, <1>4, JoinRefines

(* A blocked caller rides, or is turned away while the layer aborts.        *)
LEMMA JoinSyncRefines ==
    ASSUME CInv, CInv', NEW r \in Reqs, JoinSync(r)
    PROVE  SF!TurnAway(r) \/ \E l \in Reqs : SF!Ride(r, l)
<1>1. KeyOf[r] \in Keys
  BY CoalesceAssumption
<1>2. /\ phase[r] = "new"
      /\ phase'[r] = IF aborting THEN "abandoned" ELSE "waiting"
      /\ store[KeyOf[r]] = NoOutcome /\ flight[KeyOf[r]] # None
      /\ \A q \in Reqs : q # r => phase'[q] = phase[q]
      /\ UNCHANGED <<result, flight, tasks, outbox, store>>
  BY DEF JoinSync, Arrives, CInv, TypeOK
<1>3. CASE ~aborting
  <2>1. Riding(r)'
    BY <1>2, <1>3 DEF Riding
  <2> QED
    BY <1>2, <2>1, JoinRefines
<1>4. CASE aborting
  <2>1. /\ StatusOf(r) = "new"
        /\ StatusOf(r)' = "left"
        /\ SourceOf(r)' = SourceOf(r)
    BY <1>2, <1>4, MappedHolds, MappedStays DEF Mapped
  <2>2. ASSUME NEW q \in Reqs, q # r
        PROVE  StatusOf(q)' = StatusOf(q) /\ SourceOf(q)' = SourceOf(q)
    BY <1>2, <2>2, SameRequest
  <2>3. SlotOf(KeyOf[r]).state = "flying"
    BY <1>1, <1>2 DEF SlotOf
  <2>4. ASSUME NEW k \in Keys PROVE SlotOf(k)' = SlotOf(k)
    BY <1>2 DEF SlotOf
  <2> QED
    BY <1>1, <2>1, <2>2, <2>3, <2>4 DEF SF!TurnAway
<1> QED
  BY <1>3, <1>4

(* A request that finds neither leads, and its key flies.                   *)
LEMMA LeadRefines ==
    ASSUME CInv, CInv', WaitersBlock, NEW r \in Reqs, Lead(r)
    PROVE  SF!Fly(r)
<1>1. KeyOf[r] \in Keys /\ r # None
  BY CoalesceAssumption
<1>2. /\ phase[r] = "new" /\ phase'[r] = "lead"
      /\ store[KeyOf[r]] = NoOutcome /\ flight[KeyOf[r]] = None
      /\ flight' = [flight EXCEPT ![KeyOf[r]] = r]
      /\ \A q \in Reqs : q # r => phase'[q] = phase[q]
      /\ UNCHANGED <<result, tasks, outbox, store>>
  BY DEF Lead, Arrives, Unclaimed, CInv, TypeOK
<1>3. /\ StatusOf(r) = "new"
      /\ StatusOf(r)' = "flying"
      /\ SourceOf(r)' = r
  BY <1>2, MappedHolds, MappedStays DEF Mapped
<1>4. ASSUME NEW q \in Reqs, Riding(q)
      PROVE  flight'[KeyOf[q]] = flight[KeyOf[q]]
  <2>1. flight[KeyOf[q]] # None
    BY <1>4, RidersHaveFlights
  <2> QED
    BY <1>2, <2>1, CoalesceAssumption DEF CInv, TypeOK
<1>5. ASSUME NEW q \in Reqs, q # r
      PROVE  StatusOf(q)' = StatusOf(q) /\ SourceOf(q)' = SourceOf(q)
  BY <1>2, <1>4, <1>5, SameRequest
<1>6. SlotOf(KeyOf[r]) = SF!Empty
  BY <1>1, <1>2, SlotKinds
<1>7. SlotOf(KeyOf[r])' = SF!Flying(r)
  BY <1>1, <1>2 DEF CInv, TypeOK, SlotOf, SF!Flying
<1>8. ASSUME NEW k \in Keys, k # KeyOf[r] PROVE SlotOf(k)' = SlotOf(k)
  BY <1>2, <1>8 DEF SlotOf, CInv, TypeOK
<1> QED
  BY <1>1, <1>3, <1>5, <1>6, <1>7, <1>8 DEF SF!Fly

(* A delivery lands the fetch: the leader and everyone riding on it are     *)
(* decided at once, and the key is ready or empty.                         *)
LEMMA DeliverRefines ==
    ASSUME CInv, CInv', WaitersBlock,
           NEW r \in Reqs, NEW o \in OutcomesOf(r), Deliver(r, o)
    PROVE  \E keep \in BOOLEAN : SF!Land(r, keep)
<1> DEFINE k == KeyOf[r]
           keep == Storable(k, o)
<1>1. /\ k \in Keys /\ r # None
      /\ o.lead = r /\ o # NoOutcome
  BY CoalesceAssumption, OutcomeFacts
<1>2. /\ phase[r] = "lead" /\ flight[k] = r /\ store[k] = NoOutcome
      /\ flight' = [flight EXCEPT ![k] = None]
      /\ outbox' = [outbox EXCEPT ![r] = tasks[k]]
      /\ tasks' = [tasks EXCEPT ![k] = {}]
      /\ store' = IF keep THEN [store EXCEPT ![k] = o] ELSE store
      /\ \A q \in Reqs :
            /\ phase'[q] = IF q = r THEN "delivering"
                           ELSE IF q \in syncs[k] THEN "woken" ELSE phase[q]
            /\ result'[q] = IF q = r \/ q \in syncs[k] THEN o ELSE result[q]
  BY <1>1 DEF Deliver, StoreOrDrop, RemoveGroup, TakeJoiners, MarkDone,
              CInv, OneFlightPerKey, StoreXorFlight
<1> HIDE DEF keep
<1>3. /\ \A h \in Keys : flight'[h] = IF h = k THEN None ELSE flight[h]
      /\ \A h \in Keys : tasks'[h] = IF h = k THEN {} ELSE tasks[h]
      /\ \A h \in Keys : store'[h] = IF h = k /\ keep THEN o ELSE store[h]
      /\ \A l \in Reqs : outbox'[l] = IF l = r THEN tasks[k] ELSE outbox[l]
  BY <1>1, <1>2 DEF CInv, TypeOK
<1>4. outbox[r] = {}
  BY <1>2 DEF CInv, JoinersInOutboxes
<1>5. /\ StatusOf(r) = "flying" /\ SourceOf(r) = r
      /\ StatusOf(r)' = "served" /\ SourceOf(r)' = r
  BY <1>1, <1>2, MappedHolds, MappedStays DEF Mapped
<1>6. ASSUME NEW q \in Reqs, q # r, Riding(q), KeyOf[q] = k
      PROVE  /\ StatusOf(q) = "riding" /\ SourceOf(q) = r
             /\ StatusOf(q)' = "served" /\ SourceOf(q)' = r
  <2>1. StatusOf(q) = "riding" /\ SourceOf(q) = r
    BY <1>2, <1>6, MappedHolds DEF Mapped
  <2>2. CASE phase[q] = "waiting"
    <3>1. q \in syncs[k]
      BY <1>1, <1>6, <2>2 DEF WaitersBlock, CInv, WaiterReachable
    <3> QED
      BY <1>1, <1>2, <1>6, <2>1, <3>1, MappedStays DEF Mapped
  <2>3. CASE q \in tasks[k]
    <3>1. q \in outbox'[r]
      BY <1>3, <2>3
    <3> QED
      BY <2>1, <3>1, MappedStays DEF Mapped
  <2> QED
    BY <1>6, <2>2, <2>3 DEF Riding
<1>7. ASSUME NEW q \in Reqs, q # r, ~(Riding(q) /\ KeyOf[q] = k)
      PROVE  /\ StatusOf(q)' = StatusOf(q)
             /\ SourceOf(q)' = SourceOf(q)
             /\ ~(StatusOf(q) = "riding" /\ SourceOf(q) = r)
  <2>1. KeyOf[q] \in Keys
    BY CoalesceAssumption
  <2>2. q \notin syncs[k]
    BY <1>1, <1>7 DEF CInv, TypeOK, WaiterReachable, Riding
  <2>3. phase'[q] = phase[q] /\ result'[q] = result[q]
    BY <1>2, <1>7, <2>2
  <2>4. Riding(q) => flight'[KeyOf[q]] = flight[KeyOf[q]]
    BY <1>3, <1>7, <2>1
  <2>5. phase[q] = "joined" =>
          /\ q \in tasks[KeyOf[q]] <=> q \in tasks'[KeyOf[q]]
          /\ \A l \in Reqs : q \in outbox[l] => q \in outbox'[l]
    BY <1>3, <1>4, <1>7, <2>1 DEF Riding
  <2>6. StatusOf(q)' = StatusOf(q) /\ SourceOf(q)' = SourceOf(q)
    BY <2>3, <2>4, <2>5, SameRequest
  <2>7. StatusOf(q) = "riding" => Riding(q)
    BY DEF StatusOf
  <2>8. Riding(q) => SourceOf(q) = flight[KeyOf[q]]
    BY MappedHolds DEF Mapped
  <2>9. flight[KeyOf[q]] = r => KeyOf[q] = k
    BY <1>1, <2>1 DEF CInv, OneFlightPerKey
  <2> QED
    BY <1>7, <2>6, <2>7, <2>8, <2>9
<1>8. /\ SlotOf(k) = SF!Flying(r)
      /\ SlotOf(k)' = SF!Kept(r, keep)
  BY <1>1, <1>2, <1>3 DEF SlotOf, SF!Flying, SF!Kept, SF!Ready, SF!Empty
<1>9. ASSUME NEW h \in Keys, h # k PROVE SlotOf(h)' = SlotOf(h)
  BY <1>3, <1>9 DEF SlotOf
<1>10. keep \in BOOLEAN
  BY DEF keep, Storable
<1>11. ASSUME NEW q \in Reqs
       PROVE  /\ StatusOf(q)' = IF q = r \/ (StatusOf(q) = "riding"
                                               /\ SourceOf(q) = r)
                                THEN "served" ELSE StatusOf(q)
              /\ SourceOf(q)' = SourceOf(q)
  BY <1>5, <1>6, <1>7
<1> HIDE DEF k
<1>12. SF!Land(r, keep)
  BY <1>1, <1>5, <1>8, <1>9, <1>11 DEF SF!Land, k
<1> QED
  BY <1>10, <1>12

(* Handing out what was decided is invisible.                              *)
LEMMA ReturnRefines ==
    ASSUME CInv, CInv', NEW r \in Reqs, Return(r)
    PROVE  UNCHANGED SF!vars
<1>1. UNCHANGED <<flight, tasks, store>>
  BY DEF Return, ReturnLeader, ReturnJoiner
<1>2. ASSUME NEW k \in Keys PROVE SlotOf(k)' = SlotOf(k)
  BY <1>1 DEF SlotOf
<1>3. phase[r] = "delivering" /\ result[r].lead = r
  BY DEF Return, ReturnLeader, ReturnJoiner, CInv, OutcomesBound
<1>4. CASE ReturnLeader(r)
  <2>1. /\ phase'[r] = "answered"
        /\ \A q \in Reqs : q # r => phase'[q] = phase[q]
        /\ UNCHANGED <<result, outbox>>
    BY <1>4 DEF ReturnLeader, CInv, TypeOK
  <2>2. StatusOf(r)' = StatusOf(r) /\ SourceOf(r)' = SourceOf(r)
    BY <1>3, <2>1, MappedHolds, MappedStays DEF Mapped
  <2>3. ASSUME NEW q \in Reqs, q # r
        PROVE  StatusOf(q)' = StatusOf(q) /\ SourceOf(q)' = SourceOf(q)
    BY <1>1, <2>1, <2>3, SameRequest
  <2> QED
    BY <1>2, <2>2, <2>3, Stutters
<1>5. ASSUME NEW j \in outbox[r], ReturnJoiner(r, j)
      PROVE  UNCHANGED SF!vars
  <2>1. j \in Reqs
    BY DEF CInv, TypeOK, Reqs
  <2>2. /\ phase'[j] = "answered" /\ result'[j] = result[r]
        /\ \A q \in Reqs : q # j => phase'[q] = phase[q]
                                    /\ result'[q] = result[q]
        /\ outbox' = [outbox EXCEPT ![r] = @ \ {j}]
    BY <1>5, <2>1 DEF ReturnJoiner, Answer, CInv, TypeOK
  <2>3. StatusOf(j)' = StatusOf(j) /\ SourceOf(j)' = SourceOf(j)
    BY <1>3, <2>1, <2>2, MappedHolds, MappedStays DEF Mapped
  <2>4. ASSUME NEW q \in Reqs, q # j
        PROVE  StatusOf(q)' = StatusOf(q) /\ SourceOf(q)' = SourceOf(q)
    <3>1. \A l \in Reqs : q \in outbox[l] => q \in outbox'[l]
      BY <2>2, <2>4 DEF CInv, TypeOK
    <3> QED
      BY <1>1, <2>2, <2>4, <3>1, SameRequest
  <2> QED
    BY <1>2, <2>3, <2>4, Stutters
<1> QED
  BY <1>4, <1>5 DEF Return

(* A blocked caller leaves with its answer, leaves without one, or sleeps   *)
(* on.                                                                     *)
LEMMA WaiterRefines ==
    ASSUME CInv, CInv', NEW s \in SyncReqs, Wake(s) \/ Deadline(s)
    PROVE  SF!Leave(s) \/ UNCHANGED SF!vars
<1>1. s \in Reqs
  BY DEF Reqs
<1>2. /\ \A q \in Reqs : q # s => phase'[q] = phase[q]
      /\ UNCHANGED <<result, flight, tasks, outbox, store>>
  BY DEF Wake, Deadline, CInv, TypeOK
<1>3. \/ phase[s] = "woken" /\ phase'[s] = "answered"
      \/ phase[s] = "waiting" /\ phase'[s] = "abandoned"
      \/ phase'[s] = phase[s]
  BY <1>1 DEF Wake, Deadline, CInv, TypeOK
<1>4. ASSUME NEW q \in Reqs, q # s
      PROVE  StatusOf(q)' = StatusOf(q) /\ SourceOf(q)' = SourceOf(q)
  BY <1>2, <1>4, SameRequest
<1>5. ASSUME NEW k \in Keys PROVE SlotOf(k)' = SlotOf(k)
  BY <1>2 DEF SlotOf
<1>6. CASE phase[s] = "waiting" /\ phase'[s] = "abandoned"
  <2>1. /\ StatusOf(s) = "riding"
        /\ StatusOf(s)' = "left"
        /\ SourceOf(s)' = None
    BY <1>1, <1>6, MappedHolds, MappedStays DEF Mapped, Riding
  <2> QED
    BY <1>1, <1>4, <1>5, <2>1 DEF SF!Leave
<1>7. CASE phase[s] = "woken" /\ phase'[s] = "answered"
  <2>1. StatusOf(s)' = StatusOf(s) /\ SourceOf(s)' = SourceOf(s)
    BY <1>1, <1>2, <1>7, MappedHolds, MappedStays DEF Mapped
  <2> QED
    BY <1>4, <1>5, <2>1, Stutters
<1>8. CASE phase'[s] = phase[s]
  <2>1. StatusOf(s)' = StatusOf(s) /\ SourceOf(s)' = SourceOf(s)
    BY <1>1, <1>2, <1>8, SameRequest
  <2> QED
    BY <1>4, <1>5, <2>1, Stutters
<1> QED
  BY <1>3, <1>6, <1>7, <1>8

LEMMA InitRefines == Init => SF!Init
<1> SUFFICES ASSUME Init PROVE SF!Init
  OBVIOUS
<1>1. ASSUME NEW q \in Reqs
      PROVE  StatusOf(q) = "new" /\ SourceOf(q) = None
  BY InitCInv, MappedHolds DEF Init, Mapped
<1>2. ASSUME NEW k \in Keys PROVE SlotOf(k) = SF!Empty
  BY DEF Init, SlotOf, SF!Empty
<1> QED
  BY <1>1, <1>2 DEF SF!Init

LEMMA NextRefines ==
    ASSUME CInv, CInv', WaitersBlock, [Next]_vars
    PROVE  [SF!Next]_SF!vars
<1>1. CASE Clear
  BY <1>1, ClearRefines DEF SF!Next
<1>2. CASE (\E k \in Keys : Expect(k)) \/ Abort \/ UNCHANGED vars
  BY <1>2, QuietRefines
<1>3. ASSUME NEW r \in Reqs, Claim(r)
      PROVE  [SF!Next]_SF!vars
  BY <1>3, ClaimPreloadedRefines, JoinAsyncRefines, JoinSyncRefines,
     LeadRefines DEF Claim, SF!Next
<1>4. ASSUME NEW r \in Reqs, Land(r)
      PROVE  [SF!Next]_SF!vars
  BY <1>4, DeliverRefines DEF Land, SF!Next
<1>5. ASSUME NEW r \in Reqs, Return(r)
      PROVE  [SF!Next]_SF!vars
  BY <1>5, ReturnRefines
<1>6. ASSUME NEW s \in SyncReqs, Wake(s) \/ Deadline(s)
      PROVE  [SF!Next]_SF!vars
  BY <1>6, WaiterRefines DEF SF!Next, Reqs
<1> QED
  BY <1>1, <1>2, <1>3, <1>4, <1>5, <1>6 DEF Next

(* The coalescer and the preload map together are one single-flight table,  *)
(* for any number of keys, requests and waiters and any budget.             *)
THEOREM CoalescerIsSingleFlight == Spec => ImplementsSingleFlight
<1>1. CInv /\ WaitersBlock /\ [Next]_vars => CInv' /\ WaitersBlock'
  BY NextCInv, NextWaitersBlock
<1>2. CInv /\ CInv' /\ WaitersBlock /\ [Next]_vars => [SF!Next]_SF!vars
  BY NextRefines
<1> QED
  BY <1>1, <1>2, InitCInv, InitWaitersBlock, InitRefines, PTL
  DEF Spec, ImplementsSingleFlight, SF!Spec

-----------------------------------------------------------------------------
(* What the abstract table guarantees of itself, from its own steps alone,  *)
(* and so of the coalescer: SlotOf, StatusOf and SourceOf are its state.    *)
SlotsTyped ==
    /\ \A k \in Keys : SlotOf(k) \in SF!Slots
    /\ \A r \in Reqs : SourceOf(r) \in Reqs \cup {None}

(* A slot names the request that fetches or fetched for it.                 *)
SlotsBound ==
    \A k \in Keys, l \in Reqs :
        /\ SlotOf(k) = SF!Flying(l) => KeyOf[l] = k /\ StatusOf(l) = "flying"
        /\ SlotOf(k) = SF!Ready(l) => KeyOf[l] = k /\ StatusOf(l) = "served"

(* A request that fetches or was served has its source.                     *)
FlyersBound ==
    \A r \in Reqs :
        /\ StatusOf(r) = "flying" => SourceOf(r) = r
        /\ StatusOf(r) = "riding" => SourceOf(r) \in Reqs

RidersFollow ==
    \A r \in Reqs :
        StatusOf(r) = "riding" => SlotOf(KeyOf[r]) = SF!Flying(SourceOf(r))

ServedOwn ==
    \A r \in Reqs :
        StatusOf(r) = "served" =>
            /\ SourceOf(r) \in Reqs
            /\ KeyOf[SourceOf(r)] = KeyOf[r]
            /\ StatusOf(SourceOf(r)) = "served"

SFInv == SlotsTyped /\ SlotsBound /\ FlyersBound /\ RidersFollow /\ ServedOwn

(* The three kinds of slot are told apart by their state, and the holder by *)
(* the other field.                                                         *)
LEMMA SlotFacts ==
    /\ \A l : SF!Empty # SF!Flying(l) /\ SF!Empty # SF!Ready(l)
    /\ \A l, m : SF!Flying(l) # SF!Ready(m)
    /\ \A l, m : SF!Flying(l) = SF!Flying(m) => l = m
    /\ \A l, m : SF!Ready(l) = SF!Ready(m) => l = m
    /\ \A l : /\ SF!Flying(l).state = "flying"
              /\ SF!Ready(l).state = "ready"
    /\ SF!Empty.state = "empty"
<1>1. \A l : /\ SF!Flying(l).state = "flying" /\ SF!Flying(l).by = l
             /\ SF!Ready(l).state = "ready" /\ SF!Ready(l).by = l
  BY DEF SF!Flying, SF!Ready
<1>2. SF!Empty.state = "empty"
  BY DEF SF!Empty
<1> QED
  BY <1>1, <1>2

LEMMA SlotInSlots ==
    /\ SF!Empty \in SF!Slots
    /\ \A l \in Reqs : SF!Flying(l) \in SF!Slots /\ SF!Ready(l) \in SF!Slots
BY DEF SF!Slots

LEMMA InitSFInv == SF!Init => SFInv
<1> SUFFICES ASSUME SF!Init PROVE SFInv
  OBVIOUS
<1>1. ASSUME NEW k \in Keys PROVE SlotOf(k) = SF!Empty
  <2>1. [h \in Keys |-> SlotOf(h)] = [h \in Keys |-> SF!Empty]
    BY DEF SF!Init
  <2> QED
    BY <2>1
<1>2. ASSUME NEW r \in Reqs PROVE StatusOf(r) = "new" /\ SourceOf(r) = None
  <2>1. /\ [q \in Reqs |-> StatusOf(q)] = [q \in Reqs |-> "new"]
        /\ [q \in Reqs |-> SourceOf(q)] = [q \in Reqs |-> None]
    BY DEF SF!Init
  <2> QED
    BY <2>1
<1> QED
  BY <1>1, <1>2, SlotFacts, SlotInSlots
  DEF SFInv, SlotsTyped, SlotsBound, FlyersBound, RidersFollow, ServedOwn

(* What each step of the table does to a key and to a request.             *)
LEMMA FlyEffect ==
    ASSUME NEW r \in Reqs, SF!Fly(r)
    PROVE  /\ StatusOf(r) = "new" /\ SlotOf(KeyOf[r]) = SF!Empty
           /\ \A k \in Keys : SlotOf(k)' = IF k = KeyOf[r] THEN SF!Flying(r) ELSE SlotOf(k)
           /\ \A q \in Reqs : StatusOf(q)' = IF q = r THEN "flying" ELSE StatusOf(q)
           /\ \A q \in Reqs : SourceOf(q)' = IF q = r THEN r ELSE SourceOf(q)
BY CoalesceAssumption DEF SF!Fly

LEMMA RideEffect ==
    ASSUME NEW r \in Reqs, NEW l \in Reqs, SF!Ride(r, l)
    PROVE  /\ StatusOf(r) = "new" /\ SlotOf(KeyOf[r]) = SF!Flying(l)
           /\ \A k \in Keys : SlotOf(k)' = SlotOf(k)
           /\ \A q \in Reqs : StatusOf(q)' = IF q = r THEN "riding" ELSE StatusOf(q)
           /\ \A q \in Reqs : SourceOf(q)' = IF q = r THEN l ELSE SourceOf(q)
BY CoalesceAssumption DEF SF!Ride

LEMMA TurnAwayEffect ==
    ASSUME NEW r \in Reqs, SF!TurnAway(r)
    PROVE  /\ StatusOf(r) = "new"
           /\ \A k \in Keys : SlotOf(k)' = SlotOf(k)
           /\ \A q \in Reqs : StatusOf(q)' = IF q = r THEN "left" ELSE StatusOf(q)
           /\ \A q \in Reqs : SourceOf(q)' = SourceOf(q)
BY DEF SF!TurnAway

LEMMA TakeEffect ==
    ASSUME NEW r \in Reqs, NEW l \in Reqs, SF!Take(r, l)
    PROVE  /\ StatusOf(r) = "new" /\ SlotOf(KeyOf[r]) = SF!Ready(l)
           /\ \A k \in Keys : SlotOf(k)' = IF k = KeyOf[r] THEN SF!Empty ELSE SlotOf(k)
           /\ \A q \in Reqs : StatusOf(q)' = IF q = r THEN "served" ELSE StatusOf(q)
           /\ \A q \in Reqs : SourceOf(q)' = IF q = r THEN l ELSE SourceOf(q)
BY CoalesceAssumption DEF SF!Take

LEMMA LandEffect ==
    ASSUME NEW l \in Reqs, NEW keep \in BOOLEAN, SF!Land(l, keep)
    PROVE  /\ StatusOf(l) = "flying" /\ SlotOf(KeyOf[l]) = SF!Flying(l)
           /\ \A k \in Keys :
                 SlotOf(k)' = IF k = KeyOf[l] THEN SF!Kept(l, keep) ELSE SlotOf(k)
           /\ \A q \in Reqs :
                 StatusOf(q)' = IF \/ q = l
                                   \/ StatusOf(q) = "riding" /\ SourceOf(q) = l
                                THEN "served" ELSE StatusOf(q)
           /\ \A q \in Reqs : SourceOf(q)' = SourceOf(q)
BY CoalesceAssumption DEF SF!Land

LEMMA LeaveEffect ==
    ASSUME NEW r \in Reqs, SF!Leave(r)
    PROVE  /\ StatusOf(r) = "riding"
           /\ \A k \in Keys : SlotOf(k)' = SlotOf(k)
           /\ \A q \in Reqs : StatusOf(q)' = IF q = r THEN "left" ELSE StatusOf(q)
           /\ \A q \in Reqs : SourceOf(q)' = IF q = r THEN None ELSE SourceOf(q)
BY DEF SF!Leave

LEMMA ForgetEffect ==
    ASSUME SF!Forget
    PROVE  /\ \A k \in Keys :
                 SlotOf(k)' = IF SlotOf(k).state = "ready" THEN SF!Empty
                              ELSE SlotOf(k)
           /\ \A q \in Reqs : StatusOf(q)' = StatusOf(q)
           /\ \A q \in Reqs : SourceOf(q)' = SourceOf(q)
BY DEF SF!Forget

LEMMA StutterEffect ==
    ASSUME UNCHANGED SF!vars
    PROVE  /\ \A k \in Keys : SlotOf(k)' = SlotOf(k)
           /\ \A q \in Reqs : StatusOf(q)' = StatusOf(q)
           /\ \A q \in Reqs : SourceOf(q)' = SourceOf(q)
BY DEF SF!vars

LEMMA NextSFInv == SFInv /\ [SF!Next]_(SF!vars) => SFInv'
<1> SUFFICES ASSUME SFInv, [SF!Next]_(SF!vars) PROVE SFInv'
  OBVIOUS
<1>1. /\ SlotsTyped /\ SlotsBound /\ FlyersBound /\ RidersFollow /\ ServedOwn
      /\ \A r \in Reqs : KeyOf[r] \in Keys
      /\ None \notin Reqs
  BY CoalesceAssumption DEF SFInv
<1>2. ASSUME NEW r \in Reqs, SF!Fly(r)
      PROVE  SFInv'
  <2>1. SlotsTyped'
    BY <1>1, <1>2, FlyEffect, SlotInSlots DEF SlotsTyped
  <2>2. SlotsBound'
    BY <1>1, <1>2, FlyEffect, SlotFacts DEF SlotsBound
  <2>3. FlyersBound'
    BY <1>1, <1>2, FlyEffect DEF FlyersBound
  <2>4. RidersFollow'
    BY <1>1, <1>2, FlyEffect, SlotFacts DEF FlyersBound, RidersFollow
  <2>5. ServedOwn'
    BY <1>1, <1>2, FlyEffect DEF ServedOwn
  <2> QED
    BY <2>1, <2>2, <2>3, <2>4, <2>5 DEF SFInv
<1>3. ASSUME NEW r \in Reqs, NEW l \in Reqs, SF!Ride(r, l)
      PROVE  SFInv'
  <2>1. SlotsTyped'
    BY <1>1, <1>3, RideEffect, SlotInSlots DEF SlotsTyped
  <2>2. SlotsBound'
    BY <1>1, <1>3, RideEffect, SlotFacts DEF SlotsBound
  <2>3. FlyersBound'
    BY <1>1, <1>3, RideEffect DEF FlyersBound
  <2>4. RidersFollow'
    BY <1>1, <1>3, RideEffect, SlotFacts DEF FlyersBound, RidersFollow
  <2>5. ServedOwn'
    BY <1>1, <1>3, RideEffect DEF ServedOwn
  <2> QED
    BY <2>1, <2>2, <2>3, <2>4, <2>5 DEF SFInv
<1>4. ASSUME NEW r \in Reqs, SF!TurnAway(r)
      PROVE  SFInv'
  <2>1. SlotsTyped'
    BY <1>1, <1>4, TurnAwayEffect, SlotInSlots DEF SlotsTyped
  <2>2. SlotsBound'
    BY <1>1, <1>4, TurnAwayEffect, SlotFacts DEF SlotsBound
  <2>3. FlyersBound'
    BY <1>1, <1>4, TurnAwayEffect DEF FlyersBound
  <2>4. RidersFollow'
    BY <1>1, <1>4, TurnAwayEffect, SlotFacts DEF FlyersBound, RidersFollow
  <2>5. ServedOwn'
    BY <1>1, <1>4, TurnAwayEffect DEF ServedOwn
  <2> QED
    BY <2>1, <2>2, <2>3, <2>4, <2>5 DEF SFInv
<1>5. ASSUME NEW r \in Reqs, NEW l \in Reqs, SF!Take(r, l)
      PROVE  SFInv'
  <2>1. SlotsTyped'
    BY <1>1, <1>5, TakeEffect, SlotInSlots DEF SlotsTyped
  <2>2. SlotsBound'
    BY <1>1, <1>5, TakeEffect, SlotFacts DEF SlotsBound
  <2>3. FlyersBound'
    BY <1>1, <1>5, TakeEffect DEF FlyersBound
  <2>4. RidersFollow'
    BY <1>1, <1>5, TakeEffect, SlotFacts DEF FlyersBound, RidersFollow
  <2>5. ServedOwn'
    BY <1>1, <1>5, TakeEffect DEF SlotsBound, ServedOwn
  <2> QED
    BY <2>1, <2>2, <2>3, <2>4, <2>5 DEF SFInv
<1>6. ASSUME NEW l \in Reqs, NEW keep \in BOOLEAN, SF!Land(l, keep)
      PROVE  SFInv'
  <2>1. SlotsTyped'
    BY <1>1, <1>6, LandEffect, SlotInSlots DEF SlotsTyped, SF!Kept
  <2>2. SlotsBound'
    BY <1>1, <1>6, LandEffect, SlotFacts DEF SlotsBound, SF!Kept
  <2>3. FlyersBound'
    BY <1>1, <1>6, LandEffect DEF FlyersBound
  <2>4. RidersFollow'
    BY <1>1, <1>6, LandEffect, SlotFacts DEF SlotsBound, FlyersBound, RidersFollow
  <2>5. ServedOwn'
    BY <1>1, <1>6, LandEffect, SlotFacts DEF SlotsBound, FlyersBound, RidersFollow, ServedOwn
  <2> QED
    BY <2>1, <2>2, <2>3, <2>4, <2>5 DEF SFInv
<1>7. ASSUME NEW r \in Reqs, SF!Leave(r)
      PROVE  SFInv'
  <2>1. SlotsTyped'
    BY <1>1, <1>7, LeaveEffect, SlotInSlots DEF SlotsTyped
  <2>2. SlotsBound'
    BY <1>1, <1>7, LeaveEffect, SlotFacts DEF SlotsBound
  <2>3. FlyersBound'
    BY <1>1, <1>7, LeaveEffect DEF FlyersBound
  <2>4. RidersFollow'
    BY <1>1, <1>7, LeaveEffect, SlotFacts DEF FlyersBound, RidersFollow
  <2>5. ServedOwn'
    BY <1>1, <1>7, LeaveEffect DEF ServedOwn
  <2> QED
    BY <2>1, <2>2, <2>3, <2>4, <2>5 DEF SFInv
<1>8. ASSUME SF!Forget
      PROVE  SFInv'
  <2>1. SlotsTyped'
    BY <1>1, <1>8, ForgetEffect, SlotInSlots DEF SlotsTyped
  <2>2. SlotsBound'
    BY <1>1, <1>8, ForgetEffect, SlotFacts DEF SlotsBound
  <2>3. FlyersBound'
    BY <1>1, <1>8, ForgetEffect DEF FlyersBound
  <2>4. RidersFollow'
    BY <1>1, <1>8, ForgetEffect, SlotFacts DEF FlyersBound, RidersFollow
  <2>5. ServedOwn'
    BY <1>1, <1>8, ForgetEffect DEF ServedOwn
  <2> QED
    BY <2>1, <2>2, <2>3, <2>4, <2>5 DEF SFInv
<1>9. ASSUME UNCHANGED SF!vars
      PROVE  SFInv'
  <2>1. SlotsTyped'
    BY <1>1, <1>9, StutterEffect, SlotInSlots DEF SlotsTyped
  <2>2. SlotsBound'
    BY <1>1, <1>9, StutterEffect, SlotFacts DEF SlotsBound
  <2>3. FlyersBound'
    BY <1>1, <1>9, StutterEffect DEF FlyersBound
  <2>4. RidersFollow'
    BY <1>1, <1>9, StutterEffect, SlotFacts DEF FlyersBound, RidersFollow
  <2>5. ServedOwn'
    BY <1>1, <1>9, StutterEffect DEF ServedOwn
  <2> QED
    BY <2>1, <2>2, <2>3, <2>4, <2>5 DEF SFInv
<1> QED
  BY <1>2, <1>3, <1>4, <1>5, <1>6, <1>7, <1>8, <1>9 DEF SF!Next

LEMMA TableInvariant == SF!Spec => []SFInv
BY InitSFInv, NextSFInv, PTL DEF SF!Spec

(* A request rides only on the fetch its key's slot holds, so no fetch of a *)
(* key can start while somebody still waits for an earlier one: a promise   *)
(* of the abstract table, and so of the coalescer of net.c.                *)
THEOREM RidersAreBound ==
    /\ SF!Spec => []SF!RidersFollowTheFlight
    /\ Spec => []SF!RidersFollowTheFlight
<1>1. SFInv => SF!RidersFollowTheFlight
  BY CoalesceAssumption DEF SFInv, RidersFollow, SF!RidersFollowTheFlight
<1> QED
  BY <1>1, TableInvariant, CoalescerIsSingleFlight, PTL
  DEF ImplementsSingleFlight

(* A request is served only by a landed fetch for its own key, of the       *)
(* abstract table and so of the coalescer of net.c.                        *)
THEOREM ServedRightly ==
    /\ SF!Spec => []SF!ServedByOwnKey
    /\ Spec => []SF!ServedByOwnKey
<1>1. SFInv => SF!ServedByOwnKey
  BY CoalesceAssumption DEF SFInv, ServedOwn, SF!ServedByOwnKey
<1> QED
  BY <1>1, TableInvariant, CoalescerIsSingleFlight, PTL
  DEF ImplementsSingleFlight

=============================================================================
