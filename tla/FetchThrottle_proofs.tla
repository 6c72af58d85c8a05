------------------------ MODULE FetchThrottle_proofs ------------------------
(***************************************************************************)
(* Proofs about FetchThrottle, for every set of tasks, hosts, preconnects   *)
(* and every pair of limits.  The inductive invariant adds to the stated    *)
(* properties that the queue holds exactly the tasks in phase "queued",     *)
(* each once, that the preconnect counter is exact, and what each stage of  *)
(* the drain has already achieved.                                         *)
(***************************************************************************)
EXTENDS FetchThrottle, FiniteSetTheorems, SequenceTheorems, TLAPS

(* The queue holds the queued tasks, each of them once.                    *)
QueueExact ==
    /\ \A i \in 1..Len(queue) : phase[queue[i]] = "queued"
    /\ \A i, j \in 1..Len(queue) : queue[i] = queue[j] => i = j
    /\ \A t \in Tasks : phase[t] = "queued" =>
          \E i \in 1..Len(queue) : queue[i] = t

(* The counters respect the limits.                                        *)
CountersWithinLimits ==
    /\ active <= MaxConcurrent
    /\ \A h \in Hosts : hostActive[h] <= MaxPerHost

PreCounted == {p \in Preconnects :
                  prePhase[p] \in {"counted", "connecting", "skipping"}}

PreCountExact == preActive = Cardinality(PreCounted)

(* What the drain has achieved at each of its stages.                      *)
DrainProgress ==
    /\ drain # "idle" => aborting
    /\ drain \notin {"idle", "aborting"} => queue = << >>
    /\ drain \in {"waiting", "drained"} =>
          \A t \in Tasks : phase[t] # "dropped"
    /\ drain = "drained" =>
          /\ active = 0
          /\ \A p \in Preconnects : prePhase[p] # "connecting"

IInv ==
    /\ TypeOK
    /\ QueueExact
    /\ CountersExact
    /\ CountersWithinLimits
    /\ NoLostDispatch
    /\ PreCountExact
    /\ DrainProgress

-----------------------------------------------------------------------------
(* Removing the i-th element of a sequence keeps the others in order.      *)
LEMMA RemoveAtFacts ==
    ASSUME NEW S, NEW q \in Seq(S), NEW i \in 1..Len(q)
    PROVE  /\ RemoveAt(q, i) \in Seq(S)
           /\ Len(RemoveAt(q, i)) = Len(q) - 1
           /\ \A j \in 1..(Len(q) - 1) :
                 RemoveAt(q, i)[j] = IF j < i THEN q[j] ELSE q[j + 1]
<1> DEFINE front == SubSeq(q, 1, i - 1)
           back  == SubSeq(q, i + 1, Len(q))
<1>1. /\ front \in Seq(S)
      /\ Len(front) = i - 1
      /\ \A j \in 1..(i - 1) : front[j] = q[j]
  OBVIOUS
<1>2. /\ back \in Seq(S)
      /\ Len(back) = Len(q) - i
      /\ \A j \in 1..(Len(q) - i) : back[j] = q[j + i]
  OBVIOUS
<1> HIDE DEF front, back
<1>3. RemoveAt(q, i) = front \o back
  BY DEF RemoveAt, front, back
<1>4. /\ front \o back \in Seq(S)
      /\ Len(front \o back) = Len(front) + Len(back)
      /\ \A j \in 1..(Len(front) + Len(back)) :
            (front \o back)[j] = IF j <= Len(front) THEN front[j]
                                 ELSE back[j - Len(front)]
  BY <1>1, <1>2, ConcatProperties
<1>5. Len(q) \in Nat /\ i \in Nat /\ 1 <= i /\ i <= Len(q)
  OBVIOUS
<1>6. ASSUME NEW j \in 1..(Len(q) - 1)
      PROVE  (front \o back)[j] = IF j < i THEN q[j] ELSE q[j + 1]
  <2>1. CASE j < i
    BY <1>1, <1>2, <1>4, <1>5, <2>1
  <2>2. CASE ~(j < i)
    <3>1. j - (i - 1) \in 1..(Len(q) - i) /\ (j - (i - 1)) + i = j + 1
      BY <1>5, <2>2
    <3>2. (front \o back)[j] = back[j - (i - 1)]
      BY <1>1, <1>2, <1>4, <1>5, <2>2
    <3> QED
      BY <1>2, <2>2, <3>1, <3>2
  <2> QED
    BY <2>1, <2>2
<1> QED
  BY <1>1, <1>2, <1>3, <1>4, <1>5, <1>6

(* The counted tasks are finitely many.                                    *)
LEMMA CountedFinite ==
    /\ IsFiniteSet(Counted)
    /\ \A h \in Hosts : IsFiniteSet(CountedOn(h))
    /\ IsFiniteSet(PreCounted)
BY ThrottleAssumption, FS_Subset DEF Counted, CountedOn, PreCounted

(* A step that leaves the set of counted tasks and both counters alone     *)
(* keeps the counters exact.                                               *)
LEMMA SameCounted ==
    ASSUME CountersExact, CountersWithinLimits,
           Counted' = Counted, UNCHANGED <<active, hostActive>>
    PROVE  CountersExact' /\ CountersWithinLimits'
BY DEF CountersExact, CountersWithinLimits, CountedOn

-----------------------------------------------------------------------------
LEMMA InitIInv == Init => IInv
<1> SUFFICES ASSUME Init PROVE IInv
  OBVIOUS
<1> USE ThrottleAssumption DEF Init
<1>1. TypeOK
  <2>1. queue \in Seq(Tasks)
    OBVIOUS
  <2>2. hostActive \in [Hosts -> Nat]
    OBVIOUS
  <2>3. /\ phase \in [Tasks -> Phases]
        /\ prePhase \in [Preconnects -> PrePhases]
        /\ drain \in DrainPhases
    BY DEF Phases, PrePhases, DrainPhases
  <2> QED
    BY <2>1, <2>2, <2>3 DEF TypeOK
<1>2. QueueExact
  BY DEF QueueExact
<1>3. Counted = {} /\ \A h \in Hosts : CountedOn(h) = {}
  BY DEF Counted, CountedOn
<1>4. CountersExact
  BY <1>3, FS_EmptySet DEF CountersExact
<1>5. CountersWithinLimits
  BY DEF CountersWithinLimits
<1>6. NoLostDispatch
  BY DEF NoLostDispatch, Eligible
<1>7. PreCounted = {}
  BY DEF PreCounted
<1>8. PreCountExact
  BY <1>7, FS_EmptySet DEF PreCountExact
<1>9. DrainProgress
  BY DEF DrainProgress
<1> QED
  BY <1>1, <1>2, <1>4, <1>5, <1>6, <1>8, <1>9 DEF IInv

(* Submit: the queue grows by a task nobody has seen, and the submitter    *)
(* joins the callers of the dispatch loop.                                 *)
LEMMA SubmitIInv ==
    ASSUME IInv, NEW t \in Tasks, Submit(t)
    PROVE  IInv'
<1> USE DEF IInv
<1>1. TypeOK'
  BY DEF TypeOK, Submit, Phases, Callers
<1>2. /\ Len(queue') = Len(queue) + 1
      /\ \A i \in 1..Len(queue) : queue'[i] = queue[i]
      /\ queue'[Len(queue) + 1] = t
      /\ Len(queue) \in Nat
  BY DEF TypeOK, Submit
<1>3. \A i \in 1..Len(queue) : queue[i] \in Tasks /\ queue[i] # t
  BY DEF TypeOK, QueueExact, Submit
<1>4. QueueExact'
  <2>1. \A i \in 1..Len(queue') : phase'[queue'[i]] = "queued"
    BY <1>2, <1>3 DEF QueueExact, TypeOK, Submit
  <2>2. \A i, j \in 1..Len(queue') : queue'[i] = queue'[j] => i = j
    BY <1>2, <1>3 DEF QueueExact
  <2>3. ASSUME NEW u \in Tasks, phase'[u] = "queued"
        PROVE  \E i \in 1..Len(queue') : queue'[i] = u
    <3>1. CASE u = t
      BY <1>2, <3>1
    <3>2. CASE u # t
      <4>1. PICK i \in 1..Len(queue) : queue[i] = u
        BY <2>3, <3>2 DEF QueueExact, Submit, TypeOK
      <4> QED
        BY <4>1, <1>2
    <3> QED
      BY <3>1, <3>2
  <2> QED
    BY <2>1, <2>2, <2>3 DEF QueueExact
<1>5. Counted' = Counted
  BY DEF Counted, Submit, TypeOK
<1>6. CountersExact' /\ CountersWithinLimits'
  BY <1>5, SameCounted DEF Submit
<1>7. NoLostDispatch'
  BY DEF NoLostDispatch, Submit
<1>8. PreCountExact'
  BY DEF PreCountExact, PreCounted, Submit
<1>9. DrainProgress'
  BY DEF DrainProgress, Submit
<1> QED
  BY <1>1, <1>4, <1>6, <1>7, <1>8, <1>9
(* Dispatch: the first eligible task leaves the queue and takes a place.   *)
(* That it was eligible is what keeps both counters within their limits.   *)
LEMMA DispatchIInv ==
    ASSUME IInv, NEW c \in Callers, NEW i \in DOMAIN queue, Dispatch(c, i)
    PROVE  IInv'
<1> DEFINE t == queue[i]
<1> USE DEF IInv
<1>1. /\ i \in 1..Len(queue) /\ queue \in Seq(Tasks) /\ Len(queue) \in Nat
      /\ i \in Nat /\ 1 <= i /\ i <= Len(queue)
      /\ t \in Tasks
  BY DEF TypeOK
<1>2. /\ queue' \in Seq(Tasks)
      /\ Len(queue') = Len(queue) - 1
      /\ \A j \in 1..(Len(queue) - 1) :
            queue'[j] = IF j < i THEN queue[j] ELSE queue[j + 1]
  BY <1>1, RemoveAtFacts DEF Dispatch
<1>3. /\ phase[t] = "queued"
      /\ phase' = [phase EXCEPT ![t] = "running"]
      /\ active' = active + 1 /\ active < MaxConcurrent
      /\ HasRoom(t)
      /\ hostActive' = HostAdjusted(HostOf[t], 1)
      /\ c \in pumping /\ pumping' = pumping
  BY <1>1, ThrottleAssumption DEF TypeOK, QueueExact, Dispatch, Eligible
<1>4. /\ UNCHANGED <<preActive, prePhase, aborting, drain>>
      /\ drain \in {"idle", "aborting"}
  BY <1>1 DEF Dispatch, DrainProgress, TypeOK, DrainPhases
<1> HIDE DEF t
<1>5. hostActive' \in [Hosts -> Nat]
      /\ \A h \in Hosts :
            hostActive'[h] = IF h = HostOf[t] THEN hostActive[h] + 1
                             ELSE hostActive[h]
  BY <1>3 DEF HostAdjusted, TypeOK
<1>6. TypeOK'
  BY <1>1, <1>2, <1>3, <1>4, <1>5 DEF TypeOK, Phases
<1>7. QueueExact'
  <2>1. ASSUME NEW j \in 1..Len(queue')
        PROVE  \E k \in 1..Len(queue) : k # i /\ queue'[j] = queue[k]
                                        /\ k = IF j < i THEN j ELSE j + 1
    BY <1>1, <1>2
  <2>2. \A k \in 1..Len(queue) : k # i => queue[k] # t
    BY <1>1 DEF QueueExact, t
  <2>3. \A j \in 1..Len(queue') : phase'[queue'[j]] = "queued"
    BY <1>1, <1>3, <2>1, <2>2 DEF QueueExact, TypeOK
  <2>4. \A j, k \in 1..Len(queue') : queue'[j] = queue'[k] => j = k
    BY <1>1, <1>2, <2>1 DEF QueueExact
  <2>5. ASSUME NEW u \in Tasks, phase'[u] = "queued"
        PROVE  \E j \in 1..Len(queue') : queue'[j] = u
    <3>1. u # t /\ phase[u] = "queued"
      BY <1>1, <1>3, <2>5 DEF TypeOK
    <3>2. PICK k \in 1..Len(queue) : queue[k] = u
      BY <3>1 DEF QueueExact
    <3>3. k # i
      BY <3>1, <3>2 DEF t
    <3>4. CASE k < i
      BY <1>1, <1>2, <3>2, <3>4
    <3>5. CASE k > i
      <4>1. k - 1 \in 1..(Len(queue) - 1) /\ ~(k - 1 < i) /\ (k - 1) + 1 = k
        BY <1>1, <3>5
      <4> QED
        BY <1>2, <3>2, <4>1
    <3> QED
      BY <1>1, <3>3, <3>4, <3>5
  <2> QED
    BY <2>3, <2>4, <2>5 DEF QueueExact
<1>8. t \notin Counted /\ Counted' = Counted \cup {t}
  BY <1>1, <1>3 DEF Counted, TypeOK
<1>9. CountersExact'
  <2>1. active' = Cardinality(Counted')
    BY <1>3, <1>8, CountedFinite, FS_AddElement DEF CountersExact
  <2>2. ASSUME NEW h \in Hosts
        PROVE  hostActive'[h] = Cardinality(CountedOn(h)')
    <3>1. CASE h = HostOf[t]
      <4>1. CountedOn(h)' = CountedOn(h) \cup {t} /\ t \notin CountedOn(h)
        BY <1>8, <3>1 DEF CountedOn
      <4>2. Cardinality(CountedOn(h) \cup {t}) = Cardinality(CountedOn(h)) + 1
        BY <4>1, CountedFinite, FS_AddElement
      <4> QED
        BY <1>5, <3>1, <4>1, <4>2 DEF CountersExact
    <3>2. CASE h # HostOf[t]
      <4>1. CountedOn(h)' = CountedOn(h)
        BY <1>8, <3>2 DEF CountedOn
      <4> QED
        BY <1>5, <3>2, <4>1 DEF CountersExact
    <3> QED
      BY <3>1, <3>2
  <2> QED
    BY <2>1, <2>2 DEF CountersExact
<1>10. CountersWithinLimits'
  <2>1. active' <= MaxConcurrent
    BY <1>3, ThrottleAssumption DEF TypeOK
  <2>2. ASSUME NEW h \in Hosts PROVE hostActive'[h] <= MaxPerHost
    <3>1. h = HostOf[t] => hostActive[h] < MaxPerHost
      BY <1>3, ThrottleAssumption DEF HasRoom
    <3> QED
      BY <1>5, <3>1, ThrottleAssumption DEF CountersWithinLimits, TypeOK
  <2> QED
    BY <2>1, <2>2 DEF CountersWithinLimits
<1>11. NoLostDispatch'
  BY <1>3 DEF NoLostDispatch
<1>12. PreCountExact'
  BY <1>4 DEF PreCountExact, PreCounted
<1>13. DrainProgress'
  BY <1>4 DEF DrainProgress
<1> QED
  BY <1>6, <1>7, <1>9, <1>10, <1>11, <1>12, <1>13

(* StopPumping: a caller leaves only when nothing is eligible.             *)
LEMMA StopPumpingIInv ==
    ASSUME IInv, NEW c \in Callers, StopPumping(c)
    PROVE  IInv'
<1> USE DEF IInv
<1>1. TypeOK'
  BY DEF TypeOK, StopPumping
<1>2. QueueExact'
  BY DEF QueueExact, StopPumping
<1>3. Counted' = Counted
  BY DEF Counted, StopPumping
<1>4. CountersExact' /\ CountersWithinLimits'
  BY <1>3, SameCounted DEF StopPumping
<1>5. NoLostDispatch'
  BY DEF NoLostDispatch, StopPumping, Eligible, HasRoom
<1>6. PreCountExact'
  BY DEF PreCountExact, PreCounted, StopPumping
<1>7. DrainProgress'
  BY DEF DrainProgress, StopPumping
<1> QED
  BY <1>1, <1>2, <1>4, <1>5, <1>6, <1>7
(* Return: the task keeps its place until Finish lowers the counters.      *)
LEMMA ReturnIInv ==
    ASSUME IInv, NEW t \in Tasks, Return(t)
    PROVE  IInv'
<1> USE DEF IInv
<1>1. TypeOK'
  BY DEF TypeOK, Return, Phases
<1>2. QueueExact'
  BY DEF QueueExact, Return, TypeOK
<1>3. Counted' = Counted
  BY DEF Counted, Return, TypeOK
<1>4. CountersExact' /\ CountersWithinLimits'
  BY <1>3, SameCounted DEF Return
<1>5. NoLostDispatch'
  BY DEF NoLostDispatch, Return, Eligible, HasRoom
<1>6. PreCountExact'
  BY DEF PreCountExact, PreCounted, Return
<1>7. DrainProgress'
  BY DEF DrainProgress, Return, TypeOK
<1> QED
  BY <1>1, <1>2, <1>4, <1>5, <1>6, <1>7

(* Finish: a place becomes free, and the thread that freed it is inside    *)
(* the dispatch loop, so whatever became eligible has somebody to start it. *)
LEMMA FinishIInv ==
    ASSUME IInv, NEW t \in Tasks, Finish(t)
    PROVE  IInv'
<1> USE DEF IInv
<1>1. /\ phase[t] = "returned"
      /\ phase' = [phase EXCEPT ![t] = "finished"]
      /\ hostActive' = HostAdjusted(HostOf[t], -1)
      /\ pumping' = pumping \cup {<<"finish", t>>}
      /\ UNCHANGED <<queue, preActive, prePhase, aborting, drain>>
  BY DEF Finish
<1>2. t \in Counted /\ Counted' = Counted \ {t}
  BY <1>1 DEF Counted, TypeOK
<1>3. /\ Cardinality(Counted \ {t}) = Cardinality(Counted) - 1
      /\ Cardinality(Counted) # 0
  BY <1>2, CountedFinite, FS_RemoveElement, FS_EmptySet
<1>4. active > 0 /\ active' = active - 1
  BY <1>3 DEF Finish, CountersExact, TypeOK
<1>5. \A h \in Hosts : h = HostOf[t] =>
        /\ t \in CountedOn(h)
        /\ Cardinality(CountedOn(h) \ {t}) = Cardinality(CountedOn(h)) - 1
        /\ Cardinality(CountedOn(h)) # 0
  <2> SUFFICES ASSUME NEW h \in Hosts, h = HostOf[t]
               PROVE  /\ t \in CountedOn(h)
                      /\ Cardinality(CountedOn(h) \ {t})
                            = Cardinality(CountedOn(h)) - 1
                      /\ Cardinality(CountedOn(h)) # 0
    OBVIOUS
  <2>1. t \in CountedOn(h)
    BY <1>2 DEF CountedOn
  <2> QED
    BY <2>1, CountedFinite, FS_RemoveElement, FS_EmptySet
<1>6. /\ hostActive' \in [Hosts -> Nat]
      /\ \A h \in Hosts :
            hostActive'[h] = IF h = HostOf[t] THEN hostActive[h] - 1
                             ELSE hostActive[h]
  <2>1. \A h \in Hosts : /\ hostActive[h] \in Nat
                         /\ h = HostOf[t] => hostActive[h] # 0
    BY <1>5 DEF CountersExact, TypeOK
  <2>2. hostActive' = [h \in Hosts |->
                         IF h # HostOf[t] THEN hostActive[h]
                         ELSE IF hostActive[h] + (-1) <= 0 THEN 0
                         ELSE hostActive[h] + (-1)]
    BY <1>1 DEF HostAdjusted
  <2>3. \A h \in Hosts :
            hostActive'[h] = IF h = HostOf[t] THEN hostActive[h] - 1
                             ELSE hostActive[h]
    BY <2>1, <2>2
  <2>4. \A h \in Hosts : hostActive'[h] \in Nat
    BY <2>1, <2>3
  <2> QED
    BY <2>2, <2>3, <2>4
<1>7. TypeOK'
  BY <1>1, <1>4, <1>6 DEF TypeOK, Phases, Callers
<1>8. QueueExact'
  BY <1>1 DEF QueueExact, TypeOK
<1>9. CountersExact'
  <2>1. active' = Cardinality(Counted')
    BY <1>2, <1>3, <1>4 DEF CountersExact
  <2>2. ASSUME NEW h \in Hosts
        PROVE  hostActive'[h] = Cardinality(CountedOn(h)')
    <3>1. CASE h = HostOf[t]
      <4>1. CountedOn(h)' = CountedOn(h) \ {t}
        BY <1>2 DEF CountedOn
      <4> QED
        BY <1>5, <1>6, <3>1, <4>1 DEF CountersExact
    <3>2. CASE h # HostOf[t]
      <4>1. CountedOn(h)' = CountedOn(h)
        BY <1>2, <3>2 DEF CountedOn
      <4> QED
        BY <1>6, <3>2, <4>1 DEF CountersExact
    <3> QED
      BY <3>1, <3>2
  <2> QED
    BY <2>1, <2>2 DEF CountersExact
<1>10. CountersWithinLimits'
  <2>1. active' <= MaxConcurrent
    BY <1>4, ThrottleAssumption DEF CountersWithinLimits, TypeOK
  <2>2. ASSUME NEW h \in Hosts PROVE hostActive'[h] <= MaxPerHost
    <3>1. hostActive[h] \in Nat /\ MaxPerHost \in Nat
      BY ThrottleAssumption DEF TypeOK
    <3> QED
      BY <1>6, <3>1 DEF CountersWithinLimits
  <2> QED
    BY <2>1, <2>2 DEF CountersWithinLimits
<1>11. NoLostDispatch'
  BY <1>1 DEF NoLostDispatch
<1>12. PreCountExact'
  BY <1>1 DEF PreCountExact, PreCounted
<1>13. DrainProgress'
  BY <1>1, <1>4 DEF DrainProgress, TypeOK
<1> QED
  BY <1>7, <1>8, <1>9, <1>10, <1>11, <1>12, <1>13

(* The preconnect threads touch only their own counter.                    *)
LEMMA PreconnectIInv ==
    ASSUME IInv, NEW p \in Preconnects, PreSpawn(p) \/ PreStep(p)
    PROVE  IInv'
<1> USE DEF IInv
<1>1. UNCHANGED <<queue, active, hostActive, phase, pumping, aborting, drain>>
  BY DEF PreSpawn, PreStep, PreEnter, PreCheck, PreLeave
<1>2. Counted' = Counted
  BY <1>1 DEF Counted
<1>3. QueueExact' /\ CountersExact' /\ CountersWithinLimits'
  BY <1>1, <1>2, SameCounted DEF QueueExact
<1>4. NoLostDispatch'
  BY <1>1 DEF NoLostDispatch, Eligible, HasRoom
<1>5. CASE PreSpawn(p)
  <2>1. TypeOK' /\ DrainProgress'
    BY <1>1, <1>5 DEF PreSpawn, TypeOK, PrePhases, DrainProgress
  <2>2. PreCounted' = PreCounted
    BY <1>5 DEF PreSpawn, PreCounted, TypeOK
  <2>3. PreCountExact'
    BY <1>5, <2>2 DEF PreSpawn, PreCountExact
  <2> QED
    BY <1>3, <1>4, <2>1, <2>3
<1>6. CASE PreEnter(p)
  <2>1. TypeOK' /\ DrainProgress'
    BY <1>1, <1>6 DEF PreEnter, TypeOK, PrePhases, DrainProgress
  <2>2. p \notin PreCounted /\ PreCounted' = PreCounted \cup {p}
    BY <1>6 DEF PreEnter, PreCounted, TypeOK
  <2>3. Cardinality(PreCounted \cup {p}) = Cardinality(PreCounted) + 1
    BY <2>2, CountedFinite, FS_AddElement
  <2>4. PreCountExact'
    BY <1>6, <2>2, <2>3 DEF PreEnter, PreCountExact
  <2> QED
    BY <1>3, <1>4, <2>1, <2>4
<1>7. CASE PreCheck(p)
  <2>1. TypeOK'
    BY <1>1, <1>7 DEF PreCheck, TypeOK, PrePhases
  <2>2. DrainProgress'
    BY <1>1, <1>7 DEF PreCheck, TypeOK, DrainProgress
  <2>3. PreCounted' = PreCounted
    BY <1>7 DEF PreCheck, PreCounted, TypeOK
  <2>4. PreCountExact'
    BY <1>7, <2>3 DEF PreCheck, PreCountExact
  <2> QED
    BY <1>3, <1>4, <2>1, <2>2, <2>4
<1>8. CASE PreLeave(p)
  <2>1. p \in PreCounted /\ PreCounted' = PreCounted \ {p}
    BY <1>8 DEF PreLeave, PreCounted, TypeOK
  <2>2. /\ Cardinality(PreCounted \ {p}) = Cardinality(PreCounted) - 1
        /\ Cardinality(PreCounted) # 0
    BY <2>1, CountedFinite, FS_RemoveElement, FS_EmptySet
  <2>3. preActive > 0 /\ preActive' = preActive - 1
    BY <1>8, <2>2 DEF PreLeave, PreCountExact, TypeOK
  <2>4. TypeOK' /\ DrainProgress'
    BY <1>1, <1>8, <2>3 DEF PreLeave, TypeOK, PrePhases, DrainProgress
  <2>5. PreCountExact'
    BY <2>1, <2>2, <2>3 DEF PreCountExact
  <2> QED
    BY <1>3, <1>4, <2>4, <2>5
<1> QED
  BY <1>5, <1>6, <1>7, <1>8 DEF PreStep
(* The drain: each of its steps establishes what the next one relies on.   *)
LEMMA DrainIInv ==
    ASSUME IInv, DrainStart \/ DrainStep
    PROVE  IInv'
<1> USE DEF IInv
<1>1. CASE DrainStart
  <2>1. TypeOK' /\ QueueExact'
    BY <1>1 DEF DrainStart, TypeOK, DrainPhases, QueueExact
  <2>2. Counted' = Counted
    BY <1>1 DEF DrainStart, Counted
  <2>3. CountersExact' /\ CountersWithinLimits'
    BY <1>1, <2>2, SameCounted DEF DrainStart
  <2>4. NoLostDispatch' /\ PreCountExact' /\ DrainProgress'
    BY <1>1 DEF DrainStart, NoLostDispatch, Eligible, HasRoom,
                PreCountExact, PreCounted, DrainProgress
  <2> QED
    BY <2>1, <2>3, <2>4
<1>2. CASE DrainTake
  <2>1. \A t \in Tasks : t \in Range(queue) <=> phase[t] = "queued"
    BY DEF QueueExact, Range, TypeOK
  <2>2. phase' = [t \in Tasks |->
                    IF phase[t] = "queued" THEN "dropped" ELSE phase[t]]
    BY <1>2, <2>1 DEF DrainTake
  <2>3. queue' = << >> /\ drain' = "abandoning" /\ drain = "aborting"
        /\ UNCHANGED <<active, hostActive, pumping,
                       preActive, prePhase, aborting>>
    BY <1>2 DEF DrainTake
  <2>4. TypeOK'
    <3>1. phase' \in [Tasks -> Phases]
      BY <2>2 DEF TypeOK, Phases
    <3> QED
      BY <2>3, <3>1 DEF TypeOK, DrainPhases
  <2>5. QueueExact'
    BY <2>2, <2>3 DEF QueueExact, TypeOK
  <2>6. Counted' = Counted
    BY <2>2 DEF Counted, TypeOK
  <2>7. CountersExact' /\ CountersWithinLimits'
    BY <2>3, <2>6, SameCounted
  <2>8. NoLostDispatch'
    BY <2>3 DEF NoLostDispatch, Eligible
  <2>9. PreCountExact' /\ DrainProgress'
    BY <2>3 DEF PreCountExact, PreCounted, DrainProgress
  <2> QED
    BY <2>4, <2>5, <2>7, <2>8, <2>9
<1>3. ASSUME NEW t \in Tasks, Abandon(t) PROVE IInv'
  <2>1. TypeOK'
    BY <1>3 DEF Abandon, TypeOK, Phases
  <2>2. QueueExact'
    BY <1>3 DEF Abandon, QueueExact, DrainProgress
  <2>3. Counted' = Counted
    BY <1>3 DEF Abandon, Counted, TypeOK
  <2>4. CountersExact' /\ CountersWithinLimits'
    BY <1>3, <2>3, SameCounted DEF Abandon
  <2>5. NoLostDispatch' /\ PreCountExact' /\ DrainProgress'
    BY <1>3 DEF Abandon, NoLostDispatch, Eligible, HasRoom,
                PreCountExact, PreCounted, DrainProgress
  <2> QED
    BY <2>1, <2>2, <2>4, <2>5
<1>4. CASE DrainWait \/ DrainDone \/ DrainTimeout
  <2>1. UNCHANGED <<queue, active, hostActive, phase, pumping,
                    preActive, prePhase, aborting>>
    BY <1>4 DEF DrainWait, DrainDone, DrainTimeout
  <2>2. TypeOK' /\ QueueExact'
    BY <1>4, <2>1 DEF DrainWait, DrainDone, DrainTimeout,
                      TypeOK, DrainPhases, QueueExact
  <2>3. Counted' = Counted
    BY <2>1 DEF Counted
  <2>4. CountersExact' /\ CountersWithinLimits'
    BY <2>1, <2>3, SameCounted
  <2>5. NoLostDispatch' /\ PreCountExact'
    BY <2>1 DEF NoLostDispatch, Eligible, HasRoom, PreCountExact, PreCounted
  <2>6. preActive = 0 => \A p \in Preconnects : prePhase[p] # "connecting"
    <3>1. preActive = 0 => PreCounted = {}
      BY CountedFinite, FS_EmptySet DEF PreCountExact
    <3> QED
      BY <3>1 DEF PreCounted
  <2>7. DrainProgress'
    BY <1>4, <2>1, <2>6 DEF DrainWait, DrainDone, DrainTimeout, DrainProgress
  <2> QED
    BY <2>2, <2>4, <2>5, <2>7
<1> QED
  BY <1>1, <1>2, <1>3, <1>4 DEF DrainStep

-----------------------------------------------------------------------------
(* Every step of the throttle, and every stutter, preserves IInv.          *)
LEMMA NextIInv == IInv /\ [Next]_vars => IInv'
<1> SUFFICES ASSUME IInv, [Next]_vars PROVE IInv'
  OBVIOUS
<1>1. ASSUME NEW t \in Tasks, Submit(t) \/ Return(t) \/ Finish(t) PROVE IInv'
  BY <1>1, SubmitIInv, ReturnIInv, FinishIInv
<1>2. ASSUME NEW c \in pumping, Pump(c) PROVE IInv'
  <2>1. c \in Callers
    BY DEF IInv, TypeOK
  <2> QED
    BY <1>2, <2>1, StopPumpingIInv, DispatchIInv DEF Pump
<1>3. ASSUME NEW p \in Preconnects, PreSpawn(p) \/ PreStep(p) PROVE IInv'
  BY <1>3, PreconnectIInv
<1>4. CASE DrainStart \/ DrainStep
  BY <1>4, DrainIInv
<1>5. CASE UNCHANGED vars
  BY <1>5 DEF vars, IInv, TypeOK, QueueExact, CountersExact, Counted, CountedOn,
              CountersWithinLimits, NoLostDispatch, Eligible, HasRoom,
              PreCountExact, PreCounted, DrainProgress
<1> QED
  BY <1>1, <1>2, <1>3, <1>4, <1>5 DEF Next

(* The inductive invariant holds of every reachable state.                 *)
THEOREM Invariance == Spec => []IInv
BY InitIInv, NextIInv, PTL DEF Spec

(* Every variable keeps its type.                                          *)
THEOREM TypeCorrect == Spec => []TypeOK
BY Invariance, PTL DEF IInv

(* The counters count exactly the tasks that hold a place.                 *)
THEOREM CountersAreExact == Spec => []CountersExact
BY Invariance, PTL DEF IInv

(* At no time do more tasks hold a place than the limits allow, whatever   *)
(* the number of threads dispatching at once.                              *)
THEOREM LimitsHold == Spec => []WithinLimits
<1>1. IInv => WithinLimits
  BY DEF IInv, CountersExact, CountersWithinLimits, WithinLimits
<1> QED
  BY <1>1, Invariance, PTL

(* The places of the throttle are accounted for, for any limits.            *)
THEOREM PlacesAccounted == Spec => []Accounted
BY CountersAreExact, LimitsHold, PTL DEF Accounted

(* A queued task that could start never waits for a thread that is gone.   *)
THEOREM DispatchNotLost == Spec => []NoLostDispatch
BY Invariance, PTL DEF IInv

(* After a drain that succeeded nothing of the throttle uses curl again.   *)
THEOREM DrainedStaysQuiet == Spec => []DrainedIsQuiet
<1>1. IInv => DrainedIsQuiet
  <2> SUFFICES ASSUME IInv, drain = "drained"
               PROVE  /\ queue = << >>
                      /\ \A t \in Tasks :
                            phase[t] \notin {"queued", "running", "returned",
                                            "dropped"}
                      /\ \A p \in Preconnects : prePhase[p] # "connecting"
    BY DEF DrainedIsQuiet
  <2>1. queue = << >> /\ active = 0
    BY DEF IInv, DrainProgress
  <2>2. Counted = {}
    BY <2>1, CountedFinite, FS_EmptySet DEF IInv, CountersExact
  <2> QED
    BY <2>1, <2>2 DEF IInv, DrainProgress, QueueExact, Counted
<1> QED
  BY <1>1, Invariance, PTL
(* A task starts ahead of an earlier one only when the earlier one's host  *)
(* is at its limit, counted in tasks and not only in the counter.          *)
THEOREM EarlierTasksBlocked == Spec => NoOvertaking
<1> DEFINE Fair ==
      \A i, j \in DOMAIN queue :
        (i < j /\ phase[queue[j]] = "queued" /\ phase'[queue[j]] = "running")
        => /\ HostOf[queue[i]] # NoHost
           /\ Cardinality(CountedOn(HostOf[queue[i]])) = MaxPerHost
<1>1. IInv /\ [Next]_vars => [Fair]_vars
  <2> SUFFICES ASSUME IInv, Next,
                      NEW i \in DOMAIN queue, NEW j \in DOMAIN queue,
                      i < j, phase[queue[j]] = "queued",
                      phase'[queue[j]] = "running"
               PROVE  /\ HostOf[queue[i]] # NoHost
                      /\ Cardinality(CountedOn(HostOf[queue[i]])) = MaxPerHost
    OBVIOUS
  <2> USE DEF IInv
  <2>1. /\ i \in 1..Len(queue) /\ j \in 1..Len(queue)
        /\ queue[i] \in Tasks /\ queue[j] \in Tasks
        /\ i \in Int /\ j \in Int
    BY DEF TypeOK
  <2>2. PICK c \in Callers, k \in DOMAIN queue : Dispatch(c, k)
    <3>1. ASSUME NEW c \in pumping, Pump(c)
          PROVE  \E k \in DOMAIN queue : Dispatch(c, k)
      BY <2>1, <3>1 DEF Pump, StopPumping
    <3>2. \A t \in Tasks : ~(Submit(t) \/ Return(t) \/ Finish(t))
      BY <2>1 DEF Submit, Return, Finish, TypeOK
    <3>3. \A p \in Preconnects : ~(PreSpawn(p) \/ PreStep(p))
      BY DEF PreSpawn, PreStep, PreEnter, PreCheck, PreLeave
    <3>4. ~DrainStart /\ ~DrainTake /\ ~DrainWait /\ ~DrainDone /\ ~DrainTimeout
      BY <2>1 DEF DrainStart, DrainTake, DrainWait, DrainDone, DrainTimeout
    <3>5. \A t \in Tasks : ~Abandon(t)
      BY <2>1 DEF Abandon, TypeOK
    <3> QED
      BY <3>1, <3>2, <3>3, <3>4, <3>5 DEF Next, DrainStep, TypeOK
  <2>3. queue[k] = queue[j] /\ k = j
    BY <2>1, <2>2 DEF Dispatch, TypeOK, QueueExact
  <2>4. active < MaxConcurrent /\ ~HasRoom(queue[i])
    BY <2>1, <2>2, <2>3, ThrottleAssumption DEF Dispatch, Eligible, TypeOK
  <2>5. /\ HostOf[queue[i]] # NoHost
        /\ HostOf[queue[i]] \in Hosts
        /\ ~(hostActive[HostOf[queue[i]]] < MaxPerHost)
    BY <2>1, <2>4, ThrottleAssumption DEF HasRoom
  <2>6. hostActive[HostOf[queue[i]]] = MaxPerHost
    BY <2>5, ThrottleAssumption DEF CountersWithinLimits, TypeOK
  <2> QED
    BY <2>5, <2>6 DEF CountersExact
<1> QED
  BY <1>1, Invariance, PTL DEF Spec, NoOvertaking
=============================================================================
