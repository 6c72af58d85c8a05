------------------------- MODULE FetchPipeline_proofs -------------------------
(***************************************************************************)
(* Proofs about FetchPipeline: it implements both of its components, for    *)
(* every set of requests, keys and hosts and every limit; with what their   *)
(* own proofs establish, no group outlives its leader's task and a drain    *)
(* that reports success has answered everyone it can reach.                 *)
(***************************************************************************)
EXTENDS FetchPipeline, TLAPS

(* Which steps of the pipeline are steps of the throttle.                  *)
LEMMA StepImplementsThrottle == [Next]_vars => [T!Next]_(T!vars)
<1> SUFFICES ASSUME [Next]_vars PROVE [T!Next]_(T!vars)
  OBVIOUS
<1>1. CASE UNCHANGED vars
  BY <1>1 DEF vars, throttleVars, T!vars
<1>2. ASSUME UNCHANGED throttleVars, UNCHANGED aborting
      PROVE  [T!Next]_(T!vars)
  BY <1>2 DEF throttleVars, T!vars
<1>3. ASSUME Scan PROVE [T!Next]_(T!vars)
  BY <1>2, <1>3 DEF Scan, C!Clear, C!Expect
<1>4. ASSUME NEW r \in AsyncReqs \cup SyncReqs, C!Claim(r), UNCHANGED throttleVars
      PROVE  [T!Next]_(T!vars)
  BY <1>2, <1>4 DEF C!Claim, C!ClaimPreloaded, C!JoinAsync, C!JoinSync, C!Lead
<1>5. ASSUME NEW r \in AsyncReqs \cup SyncReqs,
             \/ \E o \in C!OutcomesOf(r) : C!Deliver(r, o)
             \/ \E j \in outbox[r] : C!ReturnJoiner(r, j)
             \/ C!ReturnLeader(r),
             UNCHANGED throttleVars
      PROVE  [T!Next]_(T!vars)
  BY <1>2, <1>5 DEF C!Deliver, C!ReturnJoiner, C!ReturnLeader
<1>6. ASSUME NEW r \in AsyncReqs, ClaimAsync(r) \/ Fetched(r)
      PROVE  [T!Next]_(T!vars)
  BY <1>4, <1>5, <1>6 DEF ClaimAsync, Fetched, C!Land
<1>7. ASSUME NEW t \in Tasks, Submit(t) \/ ReturnTask(t) \/ Finish(t)
      PROVE  [T!Next]_(T!vars)
  BY <1>7 DEF Submit, ReturnTask, Finish, T!Next
<1>8. ASSUME NEW c \in pumping, Pump(c)
      PROVE  [T!Next]_(T!vars)
  BY <1>8 DEF Pump, T!Next
<1>9. ASSUME NEW r \in AsyncReqs \cup SyncReqs, AnswerJoiner(r)
      PROVE  [T!Next]_(T!vars)
  BY <1>5, <1>9 DEF AnswerJoiner
<1>10. ASSUME NEW s \in SyncReqs, CallBlocking(s) \/ FetchedBlocking(s)
       PROVE  [T!Next]_(T!vars)
  BY <1>4, <1>5, <1>10 DEF CallBlocking, FetchedBlocking, C!Land
<1>11. ASSUME NEW s \in SyncReqs, Wake(s) \/ Deadline(s)
       PROVE  [T!Next]_(T!vars)
  BY <1>2, <1>11 DEF Wake, Deadline, C!Wake, C!Deadline
<1>12. ASSUME NEW p \in Preconnects, Preconnect(p)
       PROVE  [T!Next]_(T!vars)
  BY <1>12 DEF Preconnect, T!Next
<1>13. CASE DrainStart
  BY <1>13 DEF DrainStart, T!Next
<1>14. CASE DrainTake \/ DrainWait
  BY <1>14 DEF DrainTake, DrainWait, T!Next, T!DrainStep
<1>15. ASSUME NEW t \in Tasks, AbandonDeliver(t)
       PROVE  [T!Next]_(T!vars)
  BY <1>2, <1>15 DEF AbandonDeliver, C!Deliver
<1>16. ASSUME NEW t \in Tasks, AbandonTask(t)
       PROVE  [T!Next]_(T!vars)
  BY <1>16 DEF AbandonTask, T!Next, T!DrainStep
<1> QED
  BY <1>1, <1>3, <1>6, <1>7, <1>8, <1>9, <1>10, <1>11, <1>12, <1>13, <1>14,
     <1>15, <1>16 DEF Next, DrainStep

(* The pipeline implements the throttle.                                   *)
THEOREM PipelineImplementsThrottle == Spec => ImplementsThrottle
<1>1. Init => T!Init
  BY DEF Init
<1> QED
  BY <1>1, StepImplementsThrottle, PTL DEF Spec, ImplementsThrottle, T!Spec

(* Which steps of the pipeline are steps of the coalescer.                 *)
LEMMA StepImplementsCoalesce == [Next]_vars => [C!Next]_(C!vars)
<1> SUFFICES ASSUME [Next]_vars PROVE [C!Next]_(C!vars)
  OBVIOUS
<1>1. CASE UNCHANGED vars
  BY <1>1 DEF vars, coalesceVars, C!vars
<1>2. ASSUME UNCHANGED coalesceVars, UNCHANGED aborting
      PROVE  [C!Next]_(C!vars)
  BY <1>2 DEF coalesceVars, C!vars
<1>3. CASE Scan
  BY <1>3 DEF Scan, C!Next
<1>4. ASSUME NEW r \in C!Reqs, C!Claim(r) \/ C!Land(r) \/ C!Return(r)
      PROVE  [C!Next]_(C!vars)
  BY <1>4 DEF C!Next
<1>5. AsyncReqs \cup SyncReqs = C!Reqs /\ AsyncReqs \subseteq C!Reqs
        /\ SyncReqs \subseteq C!Reqs
  BY DEF C!Reqs
<1>6. ASSUME NEW r \in AsyncReqs, ClaimAsync(r) \/ Fetched(r)
      PROVE  [C!Next]_(C!vars)
  BY <1>4, <1>5, <1>6 DEF ClaimAsync, Fetched
<1>7. ASSUME NEW r \in C!Reqs, AnswerJoiner(r)
      PROVE  [C!Next]_(C!vars)
  BY <1>4, <1>7 DEF AnswerJoiner, C!Return
<1>8. ASSUME NEW s \in SyncReqs, CallBlocking(s) \/ FetchedBlocking(s)
      PROVE  [C!Next]_(C!vars)
  BY <1>4, <1>5, <1>8 DEF CallBlocking, FetchedBlocking, C!Return
<1>9. ASSUME NEW s \in SyncReqs, Wake(s) \/ Deadline(s)
      PROVE  [C!Next]_(C!vars)
  BY <1>9 DEF Wake, Deadline, C!Next
<1>10. ASSUME NEW t \in Tasks, Submit(t) \/ Finish(t)
       PROVE  [C!Next]_(C!vars)
  BY <1>2, <1>10 DEF Submit, Finish, T!Submit, T!Finish
<1>11. ASSUME NEW c \in pumping, Pump(c)
       PROVE  [C!Next]_(C!vars)
  BY <1>2, <1>11 DEF Pump, T!Pump, T!StopPumping, T!Dispatch
<1>12. ASSUME NEW t \in Tasks, ReturnTask(t) \/ AbandonTask(t)
       PROVE  [C!Next]_(C!vars)
  <2>1. CASE t \in Keyless
    BY <1>2, <1>12, <2>1 DEF ReturnTask, AbandonTask, T!Return, T!Abandon
  <2>2. CASE t \notin Keyless
    BY <1>4, <1>5, <1>12, <2>2 DEF ReturnTask, AbandonTask, C!Return, Tasks
  <2> QED
    BY <2>1, <2>2
<1>13. ASSUME NEW p \in Preconnects, Preconnect(p)
       PROVE  [C!Next]_(C!vars)
  BY <1>2, <1>13
     DEF Preconnect, T!PreSpawn, T!PreStep, T!PreEnter, T!PreCheck, T!PreLeave
<1>14. CASE DrainStart
  BY <1>14 DEF DrainStart, C!Next
<1>15. CASE DrainTake \/ DrainWait
  BY <1>2, <1>15 DEF DrainTake, DrainWait, T!DrainTake, T!DrainWait,
                     T!DrainDone, T!DrainTimeout
<1>16. ASSUME NEW t \in Tasks, AbandonDeliver(t)
       PROVE  [C!Next]_(C!vars)
  <2>1. t \in C!Reqs /\ C!Failure(t) \in C!OutcomesOf(t)
    BY <1>5, <1>16 DEF AbandonDeliver, C!Failure, C!OutcomesOf
  <2> QED
    BY <1>4, <1>16, <2>1 DEF AbandonDeliver, C!Land
<1> QED
  BY <1>1, <1>3, <1>5, <1>6, <1>7, <1>8, <1>9, <1>10, <1>11, <1>12, <1>13,
     <1>14, <1>15, <1>16 DEF Next, DrainStep

(* The pipeline implements the coalescer.                                  *)
THEOREM PipelineImplementsCoalesce == Spec => ImplementsCoalesce
<1>1. Init => C!Init
  BY DEF Init
<1> QED
  BY <1>1, StepImplementsCoalesce, PTL DEF Spec, ImplementsCoalesce, C!Spec

(* The pipeline implements both of its parts.                              *)
THEOREM PipelineImplementsParts == Spec => ImplementsComponents
  BY PipelineImplementsThrottle, PipelineImplementsCoalesce
     DEF ImplementsComponents

-----------------------------------------------------------------------------
(* What the proofs of the components establish carries over.               *)
TP == INSTANCE FetchThrottle_proofs WITH phase <- place

CP == INSTANCE FetchCoalesce_proofs

LEMMA SameThrottle == T!Spec => TP!Spec
<1>1. T!Init => TP!Init
  BY DEF T!Init, TP!Init
<1>2. \A q, i : T!RemoveAt(q, i) = TP!RemoveAt(q, i)
  BY DEF T!RemoveAt, TP!RemoveAt
<1>3. T!Eligible = TP!Eligible
  BY DEF T!Eligible, T!HasRoom, TP!Eligible, TP!HasRoom
<1>4. \A h, d : T!HostAdjusted(h, d) = TP!HostAdjusted(h, d)
  BY DEF T!HostAdjusted, TP!HostAdjusted
<1>5. T!Range(queue) = TP!Range(queue)
  BY DEF T!Range, TP!Range
<1>6. \A c, i : T!Dispatch(c, i) => TP!Dispatch(c, i)
  BY <1>2, <1>3, <1>4 DEF T!Dispatch, TP!Dispatch
<1>7. \A c : T!Pump(c) => TP!Pump(c)
  BY <1>3, <1>6 DEF T!Pump, T!StopPumping, TP!Pump, TP!StopPumping
<1>8. \A t : /\ T!Submit(t) => TP!Submit(t)
             /\ T!Return(t) => TP!Return(t)
             /\ T!Finish(t) => TP!Finish(t)
             /\ T!Abandon(t) => TP!Abandon(t)
  BY <1>4 DEF T!Submit, T!Return, T!Finish, T!Abandon,
              TP!Submit, TP!Return, TP!Finish, TP!Abandon
<1>9. \A p : /\ T!PreSpawn(p) => TP!PreSpawn(p)
             /\ T!PreStep(p) => TP!PreStep(p)
  BY DEF T!PreSpawn, T!PreStep, T!PreEnter, T!PreCheck, T!PreLeave,
         TP!PreSpawn, TP!PreStep, TP!PreEnter, TP!PreCheck, TP!PreLeave
<1>10. /\ T!DrainStart => TP!DrainStart
       /\ T!DrainTake => TP!DrainTake
       /\ T!DrainWait => TP!DrainWait
       /\ T!DrainDone => TP!DrainDone
       /\ T!DrainTimeout => TP!DrainTimeout
  BY <1>5 DEF T!DrainStart, T!DrainTake, T!DrainWait, T!DrainDone,
              T!DrainTimeout, TP!DrainStart, TP!DrainTake, TP!DrainWait,
              TP!DrainDone, TP!DrainTimeout
<1>11. [T!Next]_(T!vars) => [TP!Next]_(TP!vars)
  BY <1>7, <1>8, <1>9, <1>10
     DEF T!Next, T!vars, T!DrainStep, TP!Next, TP!vars, TP!DrainStep
<1> QED
  BY <1>1, <1>11, PTL DEF T!Spec, TP!Spec

LEMMA SameCoalesce == C!Spec => CP!Spec
<1> USE DEF C!Reqs, CP!Reqs, C!NoOutcome, CP!NoOutcome
<1>1. C!Init => CP!Init
  BY DEF C!Init, CP!Init
<1>2. /\ C!Clear => CP!Clear
      /\ \A k : C!Expect(k) => CP!Expect(k)
      /\ C!Abort => CP!Abort
  BY DEF C!Clear, C!EmptyMap, C!Expect, C!Abort, C!Cardinality,
         CP!Clear, CP!EmptyMap, CP!Expect, CP!Abort, CP!Cardinality
<1>3. \A r : C!Claim(r) => CP!Claim(r)
  BY DEF C!Claim, C!Arrives, C!Unclaimed, C!ClaimPreloaded, C!BytesWithout,
         C!JoinAsync, C!JoinSync, C!Lead,
         CP!Claim, CP!Arrives, CP!Unclaimed, CP!ClaimPreloaded,
         CP!BytesWithout, CP!JoinAsync, CP!JoinSync, CP!Lead
<1>4. \A r, o : C!Deliver(r, o) => CP!Deliver(r, o)
  BY DEF C!Deliver, C!Storable, C!StoreOrDrop, C!RemoveGroup, C!TakeJoiners,
         C!MarkDone, C!Broadcast,
         CP!Deliver, CP!Storable, CP!StoreOrDrop, CP!RemoveGroup,
         CP!TakeJoiners, CP!MarkDone, CP!Broadcast
<1>5. \A r : C!OutcomesOf(r) = CP!OutcomesOf(r)
  BY DEF C!OutcomesOf, CP!OutcomesOf
<1>6. \A r : /\ C!Land(r) => CP!Land(r)
             /\ C!Return(r) => CP!Return(r)
  BY <1>4, <1>5
     DEF C!Land, C!Return, C!ReturnLeader, C!ReturnJoiner, C!Answer,
         CP!Land, CP!Return, CP!ReturnLeader, CP!ReturnJoiner, CP!Answer
<1>7. \A s : /\ C!Wake(s) => CP!Wake(s)
             /\ C!Deadline(s) => CP!Deadline(s)
  BY DEF C!Wake, C!Deadline, C!Unregister, CP!Wake, CP!Deadline, CP!Unregister
<1>8. [C!Next]_(C!vars) => [CP!Next]_(CP!vars)
  BY <1>2, <1>3, <1>6, <1>7 DEF C!Next, C!vars, CP!Next, CP!vars
<1> QED
  BY <1>1, <1>8, PTL DEF C!Spec, CP!Spec

LEMMA ThrottleHolds == Spec => [](TP!IInv /\ TP!DrainedIsQuiet)
<1> USE PipelineAssumption DEF TP!IsFiniteSet, IsFiniteSet
<1>1. TP!Spec => []TP!IInv
  BY TP!ThrottleAssumption, TP!Invariance
<1>2. TP!Spec => []TP!DrainedIsQuiet
  BY TP!ThrottleAssumption, TP!DrainedStaysQuiet
<1> QED
  BY <1>1, <1>2, SameThrottle, PipelineImplementsThrottle, PTL
     DEF ImplementsThrottle

LEMMA CoalesceHolds == Spec => []CP!CInv
<1> USE PipelineAssumption DEF CP!Reqs
<1>1. CP!Spec => []CP!CInv
  BY CP!CoalesceAssumption, CP!Invariance
<1> QED
  BY <1>1, SameCoalesce, PipelineImplementsCoalesce, PTL DEF ImplementsCoalesce

-----------------------------------------------------------------------------
(* Where a request's task is and where its group is go together.           *)
TaskFollowsGroup(r) ==
    /\ place[r] = "new" =>
          /\ phase[r] \in {"new", "lead", "joined", "answered"}
          /\ phase[r] = "lead" => drain = "idle"
    /\ place[r] = "queued" => phase[r] = "lead" /\ drain \in {"idle", "aborting"}
    /\ place[r] = "running" => phase[r] \in {"lead", "delivering"}
    /\ place[r] = "dropped" =>
          phase[r] \in {"lead", "delivering"} /\ drain = "abandoning"
    /\ place[r] \in {"returned", "finished", "abandoned"} =>
          phase[r] = "answered"

PInv == \A r \in AsyncReqs : place[r] \in T!Phases /\ TaskFollowsGroup(r)

LEMMA InitPInv == Init => PInv
BY DEF Init, C!Init, T!Init, T!Phases, PInv, TaskFollowsGroup, Tasks, C!Reqs

(* What a step of the coalescer does to the phases of the main thread's    *)
(* requests.                                                               *)
LEMMA DeliverPhases ==
    ASSUME CP!CInv, NEW r \in AsyncReqs \cup SyncReqs, NEW o, C!Deliver(r, o)
    PROVE  /\ phase[r] = "lead"
           /\ \A q \in AsyncReqs :
                 phase'[q] = IF q = r THEN "delivering" ELSE phase[q]
<1>1. KeyOf[r] \in Keys
  BY PipelineAssumption
<1>2. \A q \in AsyncReqs : q \notin syncs[KeyOf[r]]
  BY <1>1, PipelineAssumption DEF CP!CInv, CP!TypeOK
<1> QED
  BY <1>2 DEF C!Deliver, C!MarkDone, C!Reqs

LEMMA ClaimPhases ==
    ASSUME CP!CInv, NEW r \in AsyncReqs \cup SyncReqs, C!Claim(r)
    PROVE  /\ phase[r] = "new"
           /\ \A q \in AsyncReqs : q # r => phase'[q] = phase[q]
           /\ r \in AsyncReqs => phase'[r] \in {"answered", "joined", "lead"}
<1>1. phase \in [AsyncReqs \cup SyncReqs -> CP!Phases]
  BY DEF CP!CInv, CP!TypeOK, CP!Reqs
<1>2. r \in AsyncReqs => r \notin SyncReqs
  BY PipelineAssumption
<1> QED
  BY <1>1, <1>2 DEF C!Claim, C!Arrives, C!ClaimPreloaded, C!JoinAsync,
                    C!JoinSync, C!Lead

LEMMA AnswerPhases ==
    ASSUME CP!CInv, NEW r \in AsyncReqs \cup SyncReqs,
           NEW j \in outbox[r], C!ReturnJoiner(r, j)
    PROVE  /\ phase[j] = "joined"
           /\ \A q \in AsyncReqs :
                 phase'[q] = IF q = j THEN "answered" ELSE phase[q]
<1>1. phase \in [AsyncReqs \cup SyncReqs -> CP!Phases]
  BY DEF CP!CInv, CP!TypeOK, CP!Reqs
<1>2. phase[j] = "joined"
  BY DEF CP!CInv, CP!JoinersInOutboxes, CP!Reqs
<1> QED
  BY <1>1, <1>2 DEF C!ReturnJoiner, C!Answer

LEMMA ReturnPhases ==
    ASSUME CP!CInv, NEW r \in AsyncReqs \cup SyncReqs, C!ReturnLeader(r)
    PROVE  /\ phase[r] = "delivering"
           /\ \A q \in AsyncReqs :
                 phase'[q] = IF q = r THEN "answered" ELSE phase[q]
<1>1. phase \in [AsyncReqs \cup SyncReqs -> CP!Phases]
  BY DEF CP!CInv, CP!TypeOK, CP!Reqs
<1> QED
  BY <1>1 DEF C!ReturnLeader

(* Steps of the coalescer alone.                                           *)
LEMMA CoalesceStepPInv ==
    ASSUME PInv, CP!CInv, UNCHANGED throttleVars,
           \/ Scan
           \/ \E r \in AsyncReqs : ClaimAsync(r) \/ Fetched(r)
           \/ \E r \in AsyncReqs \cup SyncReqs : AnswerJoiner(r)
           \/ \E s \in SyncReqs :
                 CallBlocking(s) \/ FetchedBlocking(s) \/ Wake(s) \/ Deadline(s)
           \/ \E t \in Tasks : AbandonDeliver(t)
    PROVE  PInv'
<1> USE DEF PInv, TaskFollowsGroup, throttleVars
<1>1. CASE Scan
  BY <1>1 DEF Scan, C!Clear, C!Expect
<1>2. ASSUME NEW r \in AsyncReqs, ClaimAsync(r) PROVE PInv'
  BY <1>2, ClaimPhases DEF ClaimAsync, MainFree, T!Phases
<1>3. ASSUME NEW r \in AsyncReqs, Fetched(r) PROVE PInv'
  BY <1>3, DeliverPhases DEF Fetched, C!Land
<1>4. ASSUME NEW r \in AsyncReqs \cup SyncReqs, AnswerJoiner(r) PROVE PInv'
  <2>1. PICK j \in outbox[r] : C!ReturnJoiner(r, j)
    BY <1>4 DEF AnswerJoiner
  <2> QED
    BY <2>1, AnswerPhases DEF T!Phases
<1>5. ASSUME NEW s \in SyncReqs, CallBlocking(s) PROVE PInv'
  BY <1>5, ClaimPhases, PipelineAssumption DEF CallBlocking
<1>6. ASSUME NEW s \in SyncReqs, FetchedBlocking(s) PROVE PInv'
  <2>1. s \notin AsyncReqs
    BY PipelineAssumption
  <2>2. \A q \in AsyncReqs : phase'[q] = phase[q]
    BY <1>6, <2>1, DeliverPhases, ReturnPhases DEF FetchedBlocking, C!Land
  <2> QED
    BY <2>2
<1>7. ASSUME NEW s \in SyncReqs, Wake(s) \/ Deadline(s) PROVE PInv'
  <2>1. s \notin AsyncReqs
    BY PipelineAssumption
  <2>2. \A q \in AsyncReqs : phase'[q] = phase[q]
    BY <1>7, <2>1 DEF Wake, Deadline, C!Wake, C!Deadline, CP!CInv, CP!TypeOK,
                      CP!Reqs
  <2> QED
    BY <2>2
<1>8. ASSUME NEW t \in Tasks, AbandonDeliver(t) PROVE PInv'
  BY <1>8, DeliverPhases DEF AbandonDeliver
<1> QED
  BY <1>1, <1>2, <1>3, <1>4, <1>5, <1>6, <1>7, <1>8

(* Steps of the throttle alone.                                            *)
LEMMA ThrottleStepPInv ==
    ASSUME PInv, TP!IInv, UNCHANGED phase,
           \/ \E t \in Tasks : Submit(t) \/ Finish(t)
           \/ \E c \in pumping : Pump(c)
           \/ \E p \in Preconnects : Preconnect(p)
           \/ DrainStart \/ DrainTake \/ DrainWait
    PROVE  PInv'
<1> USE DEF PInv, TaskFollowsGroup
<1>1. place \in [Tasks -> TP!Phases] /\ queue \in Seq(Tasks)
  BY DEF TP!IInv, TP!TypeOK
<1>2. AsyncReqs \subseteq Tasks
  BY DEF Tasks
<1>3. ASSUME NEW t \in Tasks, Submit(t) PROVE PInv'
  <2>1. /\ drain = "idle" /\ drain' = drain
        /\ place' = [place EXCEPT ![t] = "queued"]
        /\ t \in AsyncReqs => phase[t] = "lead"
    BY <1>3, PipelineAssumption DEF Submit, T!Submit, Unsubmitted
  <2> QED
    BY <1>1, <1>2, <2>1 DEF T!Phases
<1>4. ASSUME NEW t \in Tasks, Finish(t) PROVE PInv'
  BY <1>1, <1>2, <1>4 DEF Finish, T!Finish, T!Phases
<1>5. ASSUME NEW c \in pumping, Pump(c) PROVE PInv'
  <2>1. CASE T!StopPumping(c)
    BY <2>1 DEF T!StopPumping
  <2>2. ASSUME NEW i \in DOMAIN queue, T!Dispatch(c, i) PROVE PInv'
    <3>1. /\ place[queue[i]] = "queued"
          /\ place' = [place EXCEPT ![queue[i]] = "running"]
          /\ drain' = drain
      BY <1>1, <2>2 DEF T!Dispatch, TP!IInv, TP!QueueExact
    <3> QED
      BY <1>1, <1>2, <3>1 DEF T!Phases
  <2> QED
    BY <1>5, <2>1, <2>2 DEF Pump, T!Pump
<1>6. ASSUME NEW p \in Preconnects, Preconnect(p) PROVE PInv'
  BY <1>6 DEF Preconnect, T!PreSpawn, T!PreStep, T!PreEnter, T!PreCheck,
              T!PreLeave
<1>7. CASE DrainStart
  BY <1>7 DEF DrainStart, T!DrainStart, Unsubmitted
<1>8. CASE DrainTake
  <2>1. /\ drain = "aborting" /\ drain' = "abandoning"
        /\ \A t \in Tasks : place'[t] =
              IF t \in T!Range(queue) THEN "dropped" ELSE place[t]
    BY <1>8 DEF DrainTake, T!DrainTake
  <2>2. \A t \in Tasks : t \in T!Range(queue) <=> place[t] = "queued"
    BY <1>1 DEF TP!IInv, TP!QueueExact, T!Range
  <2> QED
    BY <1>2, <2>1, <2>2 DEF T!Phases
<1>9. CASE DrainWait
  BY <1>2, <1>9 DEF DrainWait, T!DrainWait, T!DrainDone, T!DrainTimeout
<1> QED
  BY <1>3, <1>4, <1>5, <1>6, <1>7, <1>8, <1>9

LEMMA NextPInv == PInv /\ TP!IInv /\ CP!CInv /\ [Next]_vars => PInv'
<1> SUFFICES ASSUME PInv, TP!IInv, CP!CInv, [Next]_vars PROVE PInv'
  OBVIOUS
<1>1. CASE UNCHANGED vars
  BY <1>1 DEF vars, coalesceVars, throttleVars, PInv, TaskFollowsGroup
<1>2. ASSUME NEW t \in Tasks, ReturnTask(t) \/ AbandonTask(t)
      PROVE  PInv'
  <2>1. place \in [Tasks -> TP!Phases] /\ AsyncReqs \subseteq Tasks
    BY DEF TP!IInv, TP!TypeOK, Tasks
  <2>2. /\ drain' = drain
        /\ \/ place[t] = "running" /\ place' = [place EXCEPT ![t] = "returned"]
           \/ place[t] = "dropped" /\ place' = [place EXCEPT ![t] = "abandoned"]
    BY <1>2 DEF ReturnTask, AbandonTask, T!Return, T!Abandon
  <2>3. CASE t \in Keyless
    <3>1. phase' = phase /\ t \notin AsyncReqs
      BY <1>2, <2>3, PipelineAssumption
         DEF ReturnTask, AbandonTask, coalesceVars
    <3> QED
      BY <2>1, <2>2, <3>1 DEF PInv, TaskFollowsGroup
  <2>4. CASE t \notin Keyless
    <3>1. t \in AsyncReqs
      BY <2>4 DEF Tasks
    <3>2. \A q \in AsyncReqs :
            phase'[q] = IF q = t THEN "answered" ELSE phase[q]
      BY <1>2, <2>4, <3>1, ReturnPhases DEF ReturnTask, AbandonTask
    <3> QED
      BY <2>1, <2>2, <3>1, <3>2 DEF PInv, TaskFollowsGroup, T!Phases
  <2> QED
    BY <2>3, <2>4
<1>3. ASSUME \/ Scan
             \/ \E r \in AsyncReqs : ClaimAsync(r) \/ Fetched(r)
             \/ \E r \in AsyncReqs \cup SyncReqs : AnswerJoiner(r)
             \/ \E s \in SyncReqs : \/ CallBlocking(s) \/ FetchedBlocking(s)
                                    \/ Wake(s) \/ Deadline(s)
             \/ \E t \in Tasks : AbandonDeliver(t)
      PROVE  PInv'
  <2>1. UNCHANGED throttleVars
    BY <1>3 DEF Scan, ClaimAsync, Fetched, AnswerJoiner, CallBlocking,
                FetchedBlocking, Wake, Deadline, AbandonDeliver
  <2> QED
    BY <1>3, <2>1, CoalesceStepPInv
<1>4. ASSUME \/ \E t \in Tasks : Submit(t) \/ Finish(t)
             \/ \E c \in pumping : Pump(c)
             \/ \E p \in Preconnects : Preconnect(p)
             \/ DrainStart \/ DrainTake \/ DrainWait
      PROVE  PInv'
  <2>1. UNCHANGED phase
    BY <1>4 DEF Submit, Finish, Pump, Preconnect, DrainStart, C!Abort,
                DrainTake, DrainWait, coalesceVars
  <2> QED
    BY <1>4, <2>1, ThrottleStepPInv
<1> QED
  BY <1>1, <1>2, <1>3, <1>4 DEF Next, DrainStep

LEMMA PipelineInvariance == Spec => [](PInv /\ TP!IInv /\ CP!CInv /\ TP!DrainedIsQuiet)
BY InitPInv, NextPInv, ThrottleHolds, CoalesceHolds, PTL DEF Spec

-----------------------------------------------------------------------------
(* No group outlives its leader's task.                                    *)
THEOREM GroupsHaveDrivers == Spec => []EveryGroupHasDriver
<1>1. PInv /\ CP!CInv => EveryGroupHasDriver
  <2> SUFFICES ASSUME PInv, CP!CInv, NEW k \in Keys, flight[k] \in AsyncReqs
               PROVE  \/ place[flight[k]] = "new" /\ drain = "idle"
                      \/ /\ place[flight[k]] = "queued"
                         /\ drain \in {"idle", "aborting"}
                      \/ place[flight[k]] = "running"
                      \/ /\ place[flight[k]] = "dropped"
                         /\ drain = "abandoning"
    BY DEF EveryGroupHasDriver
  <2>1. phase[flight[k]] = "lead"
    BY PipelineAssumption DEF CP!CInv, CP!OneFlightPerKey
  <2> QED
    BY <2>1 DEF PInv, TaskFollowsGroup, T!Phases
<1> QED
  BY <1>1, PipelineInvariance, PTL

(* A leader is answered exactly when its task has been moved past.         *)
THEOREM LeadersAnsweredWithTasks == Spec => []LeaderAnsweredWithTask
<1>1. PInv => LeaderAnsweredWithTask
  BY DEF PInv, TaskFollowsGroup, T!Phases, LeaderAnsweredWithTask
<1> QED
  BY <1>1, PipelineInvariance, PTL

(* A drain that reports success has stranded nobody but those who ride on  *)
(* a blocking call.                                                        *)
THEOREM DrainAnswersEveryone == Spec => []DrainedAnswersEveryone
<1>1. PInv /\ CP!CInv /\ TP!DrainedIsQuiet => DrainedAnswersEveryone
  <2> SUFFICES ASSUME PInv, CP!CInv, TP!DrainedIsQuiet, drain = "drained",
                      NEW r \in AsyncReqs
               PROVE  \/ phase[r] \in {"new", "answered"}
                      \/ /\ phase[r] = "joined"
                         /\ \/ flight[KeyOf[r]] \in SyncReqs
                            \/ \E s \in SyncReqs : r \in outbox[s]
    BY DEF DrainedAnswersEveryone
  <2>2. \A q \in AsyncReqs :
          /\ place[q] \in {"new", "finished", "abandoned"}
          /\ phase[q] \in {"new", "joined", "answered"}
    BY DEF TP!DrainedIsQuiet, PInv, TaskFollowsGroup, T!Phases, Tasks
  <2>3. CASE phase[r] = "joined"
    <3>1. KeyOf[r] \in Keys
      BY PipelineAssumption
    <3>2. CASE r \in tasks[KeyOf[r]]
      <4>1. flight[KeyOf[r]] # None
        BY <3>1, <3>2 DEF CP!CInv, CP!JoinersInGroups
      <4>2. /\ flight[KeyOf[r]] \in AsyncReqs \cup SyncReqs
            /\ phase[flight[KeyOf[r]]] = "lead"
        BY <3>1, <4>1 DEF CP!CInv, CP!OneFlightPerKey, CP!TypeOK, CP!Reqs
      <4> QED
        BY <2>2, <2>3, <4>2
    <3>3. ASSUME NEW l \in AsyncReqs \cup SyncReqs, r \in outbox[l]
          PROVE  \E s \in SyncReqs : r \in outbox[s]
      <4>1. phase[l] = "delivering"
        BY <3>3 DEF CP!CInv, CP!JoinersInOutboxes, CP!Reqs
      <4> QED
        BY <2>2, <3>3, <4>1
    <3> QED
      BY <2>3, <3>2, <3>3 DEF CP!CInv, CP!JoinersHeld, CP!Reqs
  <2> QED
    BY <2>2, <2>3
<1> QED
  BY <1>1, PipelineInvariance, PTL

(* Answers follow tasks, through every drain and for every bound.           *)
THEOREM AnswersWithTasks == Spec => []AnswersFollowTasks
BY LeadersAnsweredWithTasks, DrainAnswersEveryone, PTL DEF AnswersFollowTasks
=============================================================================
