------------------------ MODULE CrashRecovery_proofs ------------------------
(***************************************************************************)
(* Proofs about the two components whose state outlives a process that is   *)
(* killed: the supervisor, which starts the next one, and the HTTP cache,   *)
(* which the next one opens.                                               *)
(*                                                                         *)
(* Watchdog: for every set of pages, every burst limit and every length of  *)
(* the timers.  One inductive invariant says how the supervisor's flags,    *)
(* its timers and its child fit together, a second one what the burst       *)
(* counter knows of the failures.                                          *)
(*                                                                         *)
(* HttpCache: for any number of processes that share the directory, every   *)
(* set of keys, requests and responses, every limit, any setting of the     *)
(* clock and any number of ends, of failing calls and of shutdowns in the   *)
(* middle of an operation.  The row and the file of a key are written one   *)
(* after the other.  The invariant says of which keys the two may differ    *)
(* just now, which process is about to mend or to delete them, and which    *)
(* files have lost their row.                                              *)
(***************************************************************************)
EXTENDS Watchdog, HttpCache, SumLemmas, TLAPS

(* What the supervisor's own state says about its child and its timers: a   *)
(* pid is held exactly while a child is unreaped, no restart is scheduled   *)
(* while there is one, a loop that was asked to quit has no child left, a   *)
(* kill is scheduled only after a stop request, and a child that outlives   *)
(* the request has been sent SIGTERM.                                       *)
Supervised ==
    /\ havePid <=> child # "none"
    /\ havePid => respawnIn = Off
    /\ sup = "starting" => ~havePid /\ ~stopping /\ respawnIn = Off
    /\ sup \in {"quitting", "ended"} => ~havePid
    /\ sup = "quitting" /\ ~stopping => respawnIn = Off
    /\ killIn # Off => stopping
    /\ stopping /\ havePid => termed
    /\ havePid \/ respawnIn # Off \/ sup = "starting" => burstCount <= BurstMax

IInv == TypeOK /\ Supervised /\ NoStrayBrowser

-----------------------------------------------------------------------------
LEMMA Numbers ==
    /\ BurstMax \in Nat \ {0}
    /\ BurstSecs \in Nat \ {0}
    /\ Backoff \in Nat
    /\ Grace \in Nat
    /\ HangSecs \in Nat
BY WatchdogAssumption DEF WatchdogAssumption

LEMMA InitIInv == Init => IInv
<1> SUFFICES ASSUME Init PROVE IInv
  OBVIOUS
<1> USE DEF Init, Off, Alive, Statuses
<1>1. SupervisorTypes
  BY Numbers DEF SupervisorTypes
<1>2. TimeTypes
  BY Numbers DEF TimeTypes
<1>3. ChildTypes
  BY Numbers DEF ChildTypes
<1>4. TabTypes
  BY Numbers DEF TabTypes
<1>5. Supervised
  BY Numbers DEF Supervised
<1>6. NoStrayBrowser
  BY Numbers DEF NoStrayBrowser, LeavesNothing, OrphanIsTold
<1>. QED
  BY <1>1, <1>2, <1>3, <1>4, <1>5, <1>6 DEF IInv, TypeOK

(* The supervisor's flags.                                                 *)
LEMMA SupervisorTypesKept == IInv /\ [Next]_vars => SupervisorTypes'
<1> SUFFICES ASSUME IInv, [Next]_vars PROVE SupervisorTypes'
  OBVIOUS
<1> USE Numbers DEF IInv, TypeOK, SupervisorTypes,
        Off, Alive, Statuses, vars, supVars, burstVars, timers, childVars, tabs
<1>1. CASE Start
  BY <1>1 DEF Start, Spawn
<1>2. CASE Respawn
  BY <1>2 DEF Respawn, Spawn, LoopRuns
<1>3. CASE ChildExited
  BY <1>3 DEF ChildExited, ScheduleRestart, NextCount, LoopRuns
<1>4. CASE Signal
  BY <1>4 DEF Signal, LoopRuns
<1>5. CASE ForceKill
  BY <1>5 DEF ForceKill, LoopRuns
<1>6. CASE Finish
  BY <1>6 DEF Finish
<1>7. CASE SupervisorDies
  BY <1>7 DEF SupervisorDies, LoopRuns
<1>8. CASE ChildStep
  BY <1>8 DEF ChildStep, ArmParentDeath, FindsParentDead, EndsAs,
           Activate, OpenWindow, OpenTab, PageLoads, CloseTab,
           WriteSession, CloseWindow, Crash, KilledFromOutside, Hang,
           Unhang, HangExit, DiesOfTerm, DiesOfKill
<1>9. CASE Tick
  BY <1>9 DEF Tick, Older, Left
<1>10. CASE UNCHANGED vars
  BY <1>10
<1>. QED
  BY <1>1, <1>2, <1>3, <1>4, <1>5, <1>6, <1>7, <1>8, <1>9, <1>10
     DEF Next, SupervisorStep

(* The counters and timers.                                                *)
LEMMA TimeTypesKept == IInv /\ [Next]_vars => TimeTypes'
<1> SUFFICES ASSUME IInv, [Next]_vars PROVE TimeTypes'
  OBVIOUS
<1> USE Numbers DEF IInv, TypeOK, TimeTypes,
        Off, Alive, Statuses, vars, supVars, burstVars, timers, childVars, tabs
<1>1. CASE Start
  BY <1>1 DEF Start, Spawn
<1>2. CASE Respawn
  BY <1>2 DEF Respawn, Spawn, LoopRuns
<1>3. CASE ChildExited
  <2>1. /\ burstAge' \in 0 .. BurstSecs + 1
        /\ burstCount' \in 0 .. BurstMax + 1
        /\ respawnIn' \in {Off} \cup 0 .. Backoff
    BY <1>3 DEF Supervised, ChildExited, ScheduleRestart, NextCount
  <2>2. recent' \in [0 .. BurstSecs -> Nat]
    <3>1. CASE UNCHANGED recent
      BY <3>1
    <3>2. CASE recent' = [recent EXCEPT ![0] = @ + 1]
      BY <3>2
    <3>. QED
      BY <1>3, <3>1, <3>2 DEF ChildExited, ScheduleRestart
  <2>. QED
    BY <1>3, <2>1, <2>2 DEF ChildExited
<1>4. CASE Signal
  BY <1>4 DEF Signal, LoopRuns
<1>5. CASE ForceKill
  BY <1>5 DEF ForceKill, LoopRuns
<1>6. CASE Finish
  BY <1>6 DEF Finish
<1>7. CASE SupervisorDies
  BY <1>7 DEF SupervisorDies, LoopRuns
<1>8. CASE ChildStep
  BY <1>8 DEF ChildStep, ArmParentDeath, FindsParentDead, EndsAs,
           Activate, OpenWindow, OpenTab, PageLoads, CloseTab,
           WriteSession, CloseWindow, Crash, KilledFromOutside, Hang,
           Unhang, HangExit, DiesOfTerm, DiesOfKill
<1>9. CASE Tick
  BY <1>9 DEF Tick, Older, Left
<1>10. CASE UNCHANGED vars
  BY <1>10
<1>. QED
  BY <1>1, <1>2, <1>3, <1>4, <1>5, <1>6, <1>7, <1>8, <1>9, <1>10
     DEF Next, SupervisorStep

(* The child.                                                              *)
LEMMA ChildTypesKept == IInv /\ [Next]_vars => ChildTypes'
<1> SUFFICES ASSUME IInv, [Next]_vars PROVE ChildTypes'
  OBVIOUS
<1> USE Numbers DEF IInv, TypeOK, ChildTypes,
        Off, Alive, Statuses, vars, supVars, burstVars, timers, childVars, tabs
<1>1. CASE Start
  BY <1>1 DEF Start, Spawn
<1>2. CASE Respawn
  BY <1>2 DEF Respawn, Spawn, LoopRuns
<1>3. CASE ChildExited
  BY <1>3 DEF ChildExited, ScheduleRestart, NextCount, LoopRuns
<1>4. CASE Signal
  BY <1>4 DEF Signal, LoopRuns
<1>5. CASE ForceKill
  BY <1>5 DEF ForceKill, LoopRuns
<1>6. CASE Finish
  BY <1>6 DEF Finish
<1>7. CASE SupervisorDies
  BY <1>7 DEF SupervisorDies, LoopRuns
<1>8. CASE ChildStep
  BY <1>8 DEF ChildStep, ArmParentDeath, FindsParentDead, EndsAs,
           Activate, OpenWindow, OpenTab, PageLoads, CloseTab,
           WriteSession, CloseWindow, Crash, KilledFromOutside, Hang,
           Unhang, HangExit, DiesOfTerm, DiesOfKill
<1>9. CASE Tick
  BY <1>9 DEF Tick, Older, Left
<1>10. CASE UNCHANGED vars
  BY <1>10
<1>. QED
  BY <1>1, <1>2, <1>3, <1>4, <1>5, <1>6, <1>7, <1>8, <1>9, <1>10
     DEF Next, SupervisorStep

(* The tabs and the session file.                                          *)
LEMMA TabTypesKept == IInv /\ [Next]_vars => TabTypes'
<1> SUFFICES ASSUME IInv, [Next]_vars PROVE TabTypes'
  OBVIOUS
<1> USE Numbers DEF IInv, TypeOK, TabTypes,
        Off, Alive, Statuses, vars, supVars, burstVars, timers, childVars, tabs
<1>1. CASE Start
  BY <1>1 DEF Start, Spawn
<1>2. CASE Respawn
  BY <1>2 DEF Respawn, Spawn, LoopRuns
<1>3. CASE ChildExited
  BY <1>3 DEF ChildExited, ScheduleRestart, NextCount, LoopRuns
<1>4. CASE Signal
  BY <1>4 DEF Signal, LoopRuns
<1>5. CASE ForceKill
  BY <1>5 DEF ForceKill, LoopRuns
<1>6. CASE Finish
  BY <1>6 DEF Finish
<1>7. CASE SupervisorDies
  BY <1>7 DEF SupervisorDies, LoopRuns
<1>8. CASE ChildStep
  BY <1>8 DEF ChildStep, ArmParentDeath, FindsParentDead, EndsAs,
           Activate, OpenWindow, OpenTab, PageLoads, CloseTab,
           WriteSession, CloseWindow, Crash, KilledFromOutside, Hang,
           Unhang, HangExit, DiesOfTerm, DiesOfKill
<1>9. CASE Tick
  BY <1>9 DEF Tick, Older, Left
<1>10. CASE UNCHANGED vars
  BY <1>10
<1>. QED
  BY <1>1, <1>2, <1>3, <1>4, <1>5, <1>6, <1>7, <1>8, <1>9, <1>10
     DEF Next, SupervisorStep

(* The supervisor's own state.                                             *)
LEMMA SupervisedKept == IInv /\ [Next]_vars => Supervised'
<1> SUFFICES ASSUME IInv, [Next]_vars PROVE Supervised'
  OBVIOUS
<1> USE Numbers DEF IInv, TypeOK, SupervisorTypes, TimeTypes, ChildTypes, Supervised,
        Off, Alive, Statuses, vars, supVars, burstVars, timers, childVars, tabs
<1>1. CASE Start
  BY <1>1 DEF Start, Spawn
<1>2. CASE Respawn
  BY <1>2 DEF Respawn, Spawn, LoopRuns
<1>3. CASE ChildExited
  BY <1>3 DEF ChildExited, ScheduleRestart, NextCount, LoopRuns
<1>4. CASE Signal
  BY <1>4 DEF Signal, LoopRuns
<1>5. CASE ForceKill
  BY <1>5 DEF ForceKill, LoopRuns
<1>6. CASE Finish
  BY <1>6 DEF Finish
<1>7. CASE SupervisorDies
  BY <1>7 DEF SupervisorDies, LoopRuns
<1>8. CASE ChildStep
  BY <1>8 DEF ChildStep, ArmParentDeath, FindsParentDead, EndsAs,
           Activate, OpenWindow, OpenTab, PageLoads, CloseTab,
           WriteSession, CloseWindow, Crash, KilledFromOutside, Hang,
           Unhang, HangExit, DiesOfTerm, DiesOfKill
<1>9. CASE Tick
  BY <1>9 DEF Tick, Older, Left
<1>10. CASE UNCHANGED vars
  BY <1>10
<1>. QED
  BY <1>1, <1>2, <1>3, <1>4, <1>5, <1>6, <1>7, <1>8, <1>9, <1>10
     DEF Next, SupervisorStep

(* The property.                                                           *)
LEMMA NoStrayBrowserKept == IInv /\ [Next]_vars => NoStrayBrowser'
<1> SUFFICES ASSUME IInv, [Next]_vars PROVE NoStrayBrowser'
  OBVIOUS
<1> USE Numbers DEF IInv, TypeOK, SupervisorTypes, ChildTypes, Supervised, NoStrayBrowser, LeavesNothing, OrphanIsTold,
        Off, Alive, Statuses, vars, supVars, burstVars, timers, childVars, tabs
<1>1. CASE Start
  BY <1>1 DEF Start, Spawn
<1>2. CASE Respawn
  BY <1>2 DEF Respawn, Spawn, LoopRuns
<1>3. CASE ChildExited
  BY <1>3 DEF ChildExited, ScheduleRestart, NextCount, LoopRuns
<1>4. CASE Signal
  BY <1>4 DEF Signal, LoopRuns
<1>5. CASE ForceKill
  BY <1>5 DEF ForceKill, LoopRuns
<1>6. CASE Finish
  BY <1>6 DEF Finish
<1>7. CASE SupervisorDies
  BY <1>7 DEF SupervisorDies, LoopRuns
<1>8. CASE ChildStep
  BY <1>8 DEF ChildStep, ArmParentDeath, FindsParentDead, EndsAs,
           Activate, OpenWindow, OpenTab, PageLoads, CloseTab,
           WriteSession, CloseWindow, Crash, KilledFromOutside, Hang,
           Unhang, HangExit, DiesOfTerm, DiesOfKill
<1>9. CASE Tick
  BY <1>9 DEF Tick, Older, Left
<1>10. CASE UNCHANGED vars
  BY <1>10
<1>. QED
  BY <1>1, <1>2, <1>3, <1>4, <1>5, <1>6, <1>7, <1>8, <1>9, <1>10
     DEF Next, SupervisorStep

LEMMA NextIInv == IInv /\ [Next]_vars => IInv'
BY SupervisorTypesKept, TimeTypesKept, ChildTypesKept, TabTypesKept, SupervisedKept, NoStrayBrowserKept DEF IInv, TypeOK

LEMMA Inductive == Spec => []IInv
BY InitIInv, NextIInv, PTL DEF Spec

(* Every variable keeps its type: in particular the burst counter never     *)
(* exceeds the limit by more than one.                                      *)
THEOREM TypeCorrect == Spec => []TypeOK
BY Inductive, PTL DEF IInv

(* No browser runs unsupervised: an ended supervisor (watchdog.c:574-585)   *)
(* leaves neither a child nor the session file, and a child whose           *)
(* supervisor died has been sent the signal it asked for, where orphans are *)
(* adopted by process 1 (watchdog.c:91).                                   *)
THEOREM NoBrowserStrays == Spec => []NoStrayBrowser
BY Inductive, PTL DEF IInv

StepsAreFinal ==
    /\ stopping /\ child = "none" => child' = "none"
    /\ killed' /\ ~killed => stopping /\ termed

LEMMA StepIsFinal == IInv /\ [Next]_vars => [StepsAreFinal]_vars
<1> SUFFICES ASSUME IInv, Next PROVE StepsAreFinal
  OBVIOUS
<1> USE Numbers DEF IInv, TypeOK, SupervisorTypes, ChildTypes, Supervised,
        StepsAreFinal, Off, Alive, Statuses, vars, supVars, burstVars, timers, childVars, tabs
<1>1. CASE Start
  BY <1>1 DEF Start, Spawn
<1>2. CASE Respawn
  BY <1>2 DEF Respawn, Spawn, LoopRuns
<1>3. CASE ChildExited
  BY <1>3 DEF ChildExited, ScheduleRestart, NextCount, LoopRuns
<1>4. CASE Signal
  BY <1>4 DEF Signal, LoopRuns
<1>5. CASE ForceKill
  BY <1>5 DEF ForceKill, LoopRuns
<1>6. CASE Finish
  BY <1>6 DEF Finish
<1>7. CASE SupervisorDies
  BY <1>7 DEF SupervisorDies, LoopRuns
<1>8. CASE ChildStep
  BY <1>8 DEF ChildStep, ArmParentDeath, FindsParentDead, EndsAs,
           Activate, OpenWindow, OpenTab, PageLoads, CloseTab,
           WriteSession, CloseWindow, Crash, KilledFromOutside, Hang,
           Unhang, HangExit, DiesOfTerm, DiesOfKill
<1>9. CASE Tick
  BY <1>9 DEF Tick
<1>. QED
  BY <1>1, <1>2, <1>3, <1>4, <1>5, <1>6, <1>7, <1>8, <1>9
     DEF Next, SupervisorStep

(* After a stop request nothing is started any more, and SIGKILL goes only  *)
(* to a child that was sent SIGTERM before (watchdog.c:386-393, 500-506).   *)
THEOREM StopHolds == Spec => StopIsFinal
BY Inductive, StepIsFinal, PTL DEF Spec, StopIsFinal, StepsAreFinal

-----------------------------------------------------------------------------
(* The crash-loop guard.  F stands for recent, a for burstAge and c for     *)
(* burstCount.  The counter is the number of failures as old as its window  *)
(* or younger, and the older ones were never more than the limit; once the  *)
(* window is over, nothing has failed since, and the counter bounds all     *)
(* failures that are still recent.                                         *)
WindowOf(F, a, c) ==
    IF a <= BurstSecs
    THEN /\ Total(F, 0 .. a) = c
         /\ Total(F, a + 1 .. BurstSecs) <= BurstMax
    ELSE /\ Total(F, 0 .. BurstSecs) <= c
         /\ F[0] = 0

Counted == WindowOf(recent, burstAge, burstCount)

(* A counter beyond the limit ends the loop, within its window.             *)
GivesUp ==
    /\ burstCount > BurstMax => sup \in {"quitting", "ended", "dead"}
    /\ sup = "quitting" /\ burstCount > BurstMax => burstAge <= BurstSecs

Ages == [0 .. BurstSecs -> Nat]

LEMMA PartsOfAges ==
    ASSUME NEW F \in Ages, NEW S \in SUBSET (0 .. BurstSecs)
    PROVE  /\ IsFiniteSet(S)
           /\ \A x \in S : F[x] \in Nat
           /\ Total(F, S) \in Nat
           /\ \A T \in SUBSET S : Total(F, T) <= Total(F, S)
<1>1. IsFiniteSet(0 .. BurstSecs)
  BY Numbers, FS_Interval
<1>2. IsFiniteSet(S)
  BY <1>1, FS_Subset
<1>3. \A x \in S : F[x] \in Nat
  BY DEF Ages
<1>. QED
  BY <1>2, <1>3, TotalNumber, TotalOfPart

(* A second later every failure is a second older.                          *)
Aged(F) == [age \in 0 .. BurstSecs |-> IF age = 0 THEN 0 ELSE F[age - 1]]

LEMMA AgedTyped == ASSUME NEW F \in Ages PROVE Aged(F) \in Ages
BY Numbers DEF Ages, Aged

LEMMA AgedSum ==
    ASSUME NEW F \in Ages, NEW m \in Nat, NEW n \in Int, n < BurstSecs
    PROVE  Total(Aged(F), m + 1 .. n + 1) = Total(F, m .. n)
<1>1. m .. n \in SUBSET (0 .. BurstSecs)
  BY Numbers
<1>2. m .. n \subseteq Nat /\ IsFiniteSet(m .. n)
  BY <1>1, PartsOfAges
<1>3. IsFiniteSet(0 .. BurstSecs)
  BY PartsOfAges
<1>4. \A x \in m .. n :
          F[x] \in Nat /\ x + 1 \in 0 .. BurstSecs /\ Aged(F)[x + 1] = F[x]
  BY Numbers DEF Aged, Ages
<1>5. {x + 1 : x \in m .. n} = m + 1 .. n + 1
  <2>1. ASSUME NEW y \in m + 1 .. n + 1
        PROVE  y \in {x + 1 : x \in m .. n}
    <3>1. y - 1 \in m .. n /\ y = (y - 1) + 1
      OBVIOUS
    <3>. QED
      BY <3>1
  <2>2. ASSUME NEW x \in m .. n PROVE x + 1 \in m + 1 .. n + 1
    OBVIOUS
  <2>. QED
    BY <2>1, <2>2
<1> DEFINE S == m .. n
           T == 0 .. BurstSecs
<1>6. /\ S \subseteq Nat /\ IsFiniteSet(S) /\ IsFiniteSet(T)
      /\ \A x \in S : F[x] \in Nat /\ x + 1 \in T /\ Aged(F)[x + 1] = F[x]
  BY <1>2, <1>3, <1>4
<1>7. Total(Aged(F), {x + 1 : x \in S}) = Total(F, S)
  <2> HIDE DEF S, T
  <2>. QED
    BY <1>6, TotalMoved
<1>. QED
  BY <1>5, <1>7

LEMMA AgedSumFromZero ==
    ASSUME NEW F \in Ages, NEW n \in Nat, n < BurstSecs
    PROVE  Total(Aged(F), 0 .. n + 1) = Total(F, 0 .. n)
<1> DEFINE G == Aged(F)
           S == 0 .. n + 1
<1>1. G \in Ages
  BY AgedTyped
<1>2. S \in SUBSET (0 .. BurstSecs) /\ 0 \in S /\ S \ {0} = 0 + 1 .. n + 1
  BY Numbers
<1>3. G[0] = 0
  BY Numbers DEF Aged
<1>4. Total(G, S \ {0}) = Total(F, 0 .. n)
  <2> DEFINE m == 0
  <2>1. m \in Nat /\ n \in Int /\ m = 0
    OBVIOUS
  <2> HIDE DEF m
  <2>2. Total(Aged(F), m + 1 .. n + 1) = Total(F, m .. n)
    BY <2>1, AgedSum
  <2>. QED
    BY <1>2, <2>1, <2>2
<1>5. Total(G, S \ {0}) \in Nat
  BY <1>1, <1>2, PartsOfAges
<1> HIDE DEF G, S
<1>6. Total(G, S) = G[0] + Total(G, S \ {0})
  BY <1>1, <1>2, PartsOfAges, TotalSplit
<1>7. Total(G, S) = Total(F, 0 .. n)
  BY <1>3, <1>4, <1>5, <1>6
<1>. QED
  BY <1>7 DEF G, S

LEMMA SecondPasses ==
    ASSUME NEW F \in Ages, NEW a \in 0 .. BurstSecs + 1, NEW c \in Nat,
           WindowOf(F, a, c)
    PROVE  WindowOf(Aged(F), Older(a, BurstSecs + 1), c)
<1>1. CASE a < BurstSecs
  <2>1. Older(a, BurstSecs + 1) = a + 1
    BY <1>1, Numbers DEF Older
  <2>2. Total(Aged(F), 0 .. a + 1) = c
    BY <1>1, Numbers, AgedSumFromZero DEF WindowOf
  <2>3. Total(Aged(F), a + 1 + 1 .. BurstSecs) = Total(F, a + 1 .. BurstSecs - 1)
    <3>1. BurstSecs - 1 + 1 = BurstSecs /\ BurstSecs - 1 < BurstSecs
      BY Numbers
    <3>2. Total(Aged(F), a + 1 + 1 .. BurstSecs - 1 + 1)
              = Total(F, a + 1 .. BurstSecs - 1)
      BY <3>1, Numbers, AgedSum
    <3>. QED
      BY <3>1, <3>2
  <2>4. /\ Total(F, a + 1 .. BurstSecs - 1) <= Total(F, a + 1 .. BurstSecs)
        /\ Total(F, a + 1 .. BurstSecs - 1) \in Nat
        /\ Total(F, a + 1 .. BurstSecs) \in Nat
    <3>1. /\ a + 1 .. BurstSecs - 1 \in SUBSET (0 .. BurstSecs)
          /\ a + 1 .. BurstSecs \in SUBSET (0 .. BurstSecs)
          /\ a + 1 .. BurstSecs - 1 \in SUBSET (a + 1 .. BurstSecs)
      BY Numbers
    <3>. QED
      BY <3>1, PartsOfAges
  <2>. QED
    BY <1>1, <2>1, <2>2, <2>3, <2>4, Numbers DEF WindowOf
<1>2. CASE a >= BurstSecs
  <2>1. Older(a, BurstSecs + 1) = BurstSecs + 1
    BY <1>2, Numbers DEF Older
  <2>2. Total(F, 0 .. BurstSecs) <= c
    <3>1. Total(F, 0 .. BurstSecs) \in Nat
      BY PartsOfAges
    <3>2. a = BurstSecs \/ a = BurstSecs + 1
      BY <1>2, Numbers
    <3>. QED
      BY <3>1, <3>2, Numbers DEF WindowOf
  <2>3. Total(Aged(F), 0 .. BurstSecs) = Total(F, 0 .. BurstSecs - 1)
    <3>1. /\ BurstSecs - 1 + 1 = BurstSecs /\ BurstSecs - 1 < BurstSecs
          /\ BurstSecs - 1 \in Nat
      BY Numbers
    <3>2. Total(Aged(F), 0 .. BurstSecs - 1 + 1) = Total(F, 0 .. BurstSecs - 1)
      BY <3>1, AgedSumFromZero
    <3>. QED
      BY <3>1, <3>2
  <2>4. /\ Total(F, 0 .. BurstSecs - 1) <= Total(F, 0 .. BurstSecs)
        /\ Total(F, 0 .. BurstSecs - 1) \in Nat
        /\ Total(F, 0 .. BurstSecs) \in Nat
    <3>1. /\ 0 .. BurstSecs - 1 \in SUBSET (0 .. BurstSecs)
          /\ 0 .. BurstSecs \in SUBSET (0 .. BurstSecs)
      BY Numbers
    <3>. QED
      BY <3>1, PartsOfAges
  <2>5. Aged(F)[0] = 0
    BY Numbers DEF Aged
  <2>. QED
    BY <2>1, <2>2, <2>3, <2>4, <2>5, Numbers DEF WindowOf
<1>. QED
  BY <1>1, <1>2, Numbers

(* A failure is counted in its window, or opens a new one.                  *)
Failed(F) == [F EXCEPT ![0] = @ + 1]

LEMMA FailureCounted ==
    ASSUME NEW F \in Ages, NEW a \in 0 .. BurstSecs + 1, NEW c \in Nat,
           WindowOf(F, a, c), c <= BurstMax
    PROVE  IF a > BurstSecs THEN WindowOf(Failed(F), 0, 1)
           ELSE WindowOf(Failed(F), a, c + 1)
<1> DEFINE G == Failed(F)
<1>1. G \in Ages /\ G[0] = F[0] + 1 /\ F[0] \in Nat
  BY Numbers DEF Ages, Failed
<1>2. \A x \in 0 .. BurstSecs : x # 0 => G[x] = F[x]
  BY DEF Ages, Failed
<1> SUFFICES IF a > BurstSecs THEN WindowOf(G, 0, 1)
             ELSE WindowOf(G, a, c + 1)
  OBVIOUS
<1> HIDE DEF G
<1>3. CASE a > BurstSecs
  <2>1. Total(G, 0 .. 0) = 1
    <3>1. 0 .. 0 \in SUBSET (0 .. BurstSecs) /\ 0 \in 0 .. 0 /\ (0 .. 0) \ {0} = {}
      BY Numbers
    <3>2. Total(G, 0 .. 0) = G[0] + Total(G, (0 .. 0) \ {0})
      <4> DEFINE S == 0 .. 0
                 y == 0
      <4>1. IsFiniteSet(S) /\ (\A x \in S : G[x] \in Nat) /\ y \in S
        BY <1>1, <3>1, PartsOfAges
      <4> HIDE DEF S, y
      <4>2. Total(G, S) = G[y] + Total(G, S \ {y})
        BY <4>1, TotalSplit
      <4>. QED
        BY <4>2 DEF S, y
    <3>3. F[0] = 0
      BY <1>3, Numbers DEF WindowOf
    <3>. QED
      BY <1>1, <3>1, <3>2, <3>3, TotalEmpty
  <2>2. Total(G, 0 + 1 .. BurstSecs) = Total(F, 0 + 1 .. BurstSecs)
    <3>1. 0 + 1 .. BurstSecs \in SUBSET (0 .. BurstSecs)
      BY Numbers
    <3>2. \A x \in 0 + 1 .. BurstSecs : G[x] = F[x]
      BY <1>2, Numbers
    <3> DEFINE S == 0 + 1 .. BurstSecs
    <3>3. IsFiniteSet(S) /\ \A x \in S : G[x] = F[x]
      BY <3>1, <3>2, PartsOfAges
    <3> HIDE DEF S
    <3>4. Total(G, S) = Total(F, S)
      BY <3>3, TotalSame
    <3>. QED
      BY <3>4 DEF S
  <2>3. /\ Total(F, 0 + 1 .. BurstSecs) <= Total(F, 0 .. BurstSecs)
        /\ Total(F, 0 + 1 .. BurstSecs) \in Nat
        /\ Total(F, 0 .. BurstSecs) \in Nat
    <3>1. /\ 0 + 1 .. BurstSecs \in SUBSET (0 .. BurstSecs)
          /\ 0 .. BurstSecs \in SUBSET (0 .. BurstSecs)
      BY Numbers
    <3>. QED
      BY <3>1, PartsOfAges
  <2>4. Total(F, 0 .. BurstSecs) <= c
    BY <1>3, Numbers DEF WindowOf
  <2>. QED
    BY <1>3, <2>1, <2>2, <2>3, <2>4, Numbers DEF WindowOf
<1>4. CASE a <= BurstSecs
  <2>1. Total(F, 0 .. a) = c /\ Total(F, a + 1 .. BurstSecs) <= BurstMax
    BY <1>4 DEF WindowOf
  <2>2. /\ 0 .. a \in SUBSET (0 .. BurstSecs)
        /\ a + 1 .. BurstSecs \in SUBSET (0 .. BurstSecs)
        /\ 0 \in 0 .. a
    BY <1>4, Numbers
  <2>3. Total(F, 0 .. a) + G[0] = Total(G, 0 .. a) + F[0]
    <3> DEFINE S == 0 .. a
               y == 0
    <3>1. IsFiniteSet(S) /\ y \in S
      BY <2>2, PartsOfAges
    <3>2. \A x \in S : F[x] \in Nat /\ G[x] \in Nat
      BY <1>1, <2>2 DEF Ages
    <3>3. \A x \in S \ {y} : F[x] = G[x]
      BY <1>2, <2>2
    <3> HIDE DEF S, y
    <3>4. Total(F, S) + G[y] = Total(G, S) + F[y]
      BY <3>1, <3>2, <3>3, TotalChanged
    <3>. QED
      BY <3>4 DEF S, y
  <2>4. Total(G, 0 .. a) \in Nat
    BY <1>1, <2>2, PartsOfAges
  <2>5. Total(G, 0 .. a) = c + 1
    BY <1>1, <2>1, <2>3, <2>4
  <2>6. Total(G, a + 1 .. BurstSecs) = Total(F, a + 1 .. BurstSecs)
    <3>1. \A x \in a + 1 .. BurstSecs : G[x] = F[x]
      BY <1>2, <1>4, Numbers
    <3> DEFINE S == a + 1 .. BurstSecs
    <3>3. IsFiniteSet(S) /\ \A x \in S : G[x] = F[x]
      BY <2>2, <3>1, PartsOfAges
    <3> HIDE DEF S
    <3>4. Total(G, S) = Total(F, S)
      BY <3>3, TotalSame
    <3>. QED
      BY <3>4 DEF S
  <2>. QED
    BY <1>4, <2>1, <2>5, <2>6, Numbers DEF WindowOf
<1>. QED
  BY <1>3, <1>4, Numbers

LEMMA InitCounted == Init => Counted /\ GivesUp
<1> SUFFICES ASSUME Init PROVE Counted /\ GivesUp
  OBVIOUS
<1>1. \A S \in SUBSET (0 .. BurstSecs) : Total(recent, S) = 0
  <2> TAKE S \in SUBSET (0 .. BurstSecs)
  <2>1. IsFiniteSet(S)
    <3>1. IsFiniteSet(0 .. BurstSecs)
      BY Numbers, FS_Interval
    <3>. QED
      BY <3>1, FS_Subset
  <2>2. \A x \in S : recent[x] = 0
    BY DEF Init
  <2>. QED
    BY <2>1, <2>2, TotalZero
<1>2. /\ 0 .. 0 \in SUBSET (0 .. BurstSecs)
      /\ 0 + 1 .. BurstSecs \in SUBSET (0 .. BurstSecs)
  BY Numbers
<1>. QED
  BY <1>1, <1>2, Numbers DEF Init, Counted, GivesUp, WindowOf

LEMMA CountedKept ==
    IInv /\ Counted /\ GivesUp /\ [Next]_vars => Counted'
<1> SUFFICES ASSUME IInv, Counted, GivesUp, [Next]_vars PROVE Counted'
  OBVIOUS
<1>1. /\ recent \in Ages /\ burstAge \in 0 .. BurstSecs + 1
      /\ burstCount \in Nat
  BY Numbers DEF IInv, TypeOK, TimeTypes, Ages
<1>2. ASSUME UNCHANGED burstVars PROVE Counted'
  BY <1>2 DEF Counted, burstVars
<1>3. CASE ChildExited
  <2>1. CASE ScheduleRestart
    <3>1. burstCount <= BurstMax
      BY <1>3 DEF ChildExited, IInv, Supervised
    <3>2. recent' = Failed(recent)
      BY <2>1 DEF ScheduleRestart, Failed
    <3>3. IF burstAge > BurstSecs THEN WindowOf(recent', 0, 1)
          ELSE WindowOf(recent', burstAge, burstCount + 1)
      BY <1>1, <3>1, <3>2, FailureCounted DEF Counted
    <3>4. WindowOf(recent', burstAge', burstCount')
      BY <2>1, <3>3 DEF ScheduleRestart, NextCount
    <3>. QED
      BY <3>4 DEF Counted
  <2>2. CASE UNCHANGED burstVars
    BY <1>2, <2>2
  <2>. QED
    BY <1>3, <2>1, <2>2 DEF ChildExited
<1>4. CASE Tick
  <2>1. WindowOf(Aged(recent), Older(burstAge, BurstSecs + 1), burstCount)
    BY <1>1, SecondPasses DEF Counted
  <2>2. WindowOf(recent', burstAge', burstCount')
    BY <1>4, <2>1 DEF Tick, Aged
  <2>. QED
    BY <2>2 DEF Counted
<1>5. CASE Start \/ Respawn \/ Signal \/ ForceKill \/ Finish \/ SupervisorDies
  BY <1>2, <1>5 DEF Start, Respawn, Signal, ForceKill, Finish, SupervisorDies
<1>6. CASE ChildStep
  BY <1>2, <1>6 DEF ChildStep, ArmParentDeath, FindsParentDead, EndsAs,
           Activate, OpenWindow, OpenTab, PageLoads, CloseTab,
           WriteSession, CloseWindow, Crash, KilledFromOutside, Hang,
           Unhang, HangExit, DiesOfTerm, DiesOfKill
<1>7. CASE UNCHANGED vars
  BY <1>2, <1>7 DEF vars
<1>. QED
  BY <1>3, <1>4, <1>5, <1>6, <1>7 DEF Next, SupervisorStep

LEMMA GivesUpKept == IInv /\ GivesUp /\ [Next]_vars => GivesUp'
<1> SUFFICES ASSUME IInv, GivesUp, [Next]_vars PROVE GivesUp'
  OBVIOUS
<1> USE Numbers DEF IInv, TypeOK, SupervisorTypes, TimeTypes, Supervised, GivesUp,
        Off, vars, supVars, burstVars, timers, childVars, tabs
<1>1. CASE Start
  BY <1>1 DEF Start, Spawn
<1>2. CASE Respawn
  BY <1>2 DEF Respawn, Spawn, LoopRuns
<1>3. CASE ChildExited
  BY <1>3 DEF ChildExited, ScheduleRestart, NextCount, LoopRuns
<1>4. CASE Signal
  BY <1>4 DEF Signal, LoopRuns
<1>5. CASE ForceKill
  BY <1>5 DEF ForceKill, LoopRuns
<1>6. CASE Finish
  BY <1>6 DEF Finish
<1>7. CASE SupervisorDies
  BY <1>7 DEF SupervisorDies, LoopRuns
<1>8. CASE ChildStep
  BY <1>8 DEF ChildStep, ArmParentDeath, FindsParentDead, EndsAs,
           Activate, OpenWindow, OpenTab, PageLoads, CloseTab,
           WriteSession, CloseWindow, Crash, KilledFromOutside, Hang,
           Unhang, HangExit, DiesOfTerm, DiesOfKill
<1>9. CASE Tick
  BY <1>9 DEF Tick, Older, Left
<1>10. CASE UNCHANGED vars
  BY <1>10
<1>. QED
  BY <1>1, <1>2, <1>3, <1>4, <1>5, <1>6, <1>7, <1>8, <1>9, <1>10
     DEF Next, SupervisorStep

LEMMA GuardFollows == IInv /\ Counted /\ GivesUp => CrashLoopGuard
<1> SUFFICES ASSUME IInv, Counted, GivesUp PROVE CrashLoopGuard
  OBVIOUS
<1>1. /\ recent \in Ages /\ burstAge \in 0 .. BurstSecs + 1
      /\ burstCount \in Nat
  BY Numbers DEF IInv, TypeOK, TimeTypes, Ages
<1>2. Recent = Total(recent, 0 .. BurstSecs)
  BY DEF Recent, Total
<1>3. Total(recent, 0 .. BurstSecs) \in Nat
  BY <1>1, PartsOfAges
<1>4. CASE burstAge <= BurstSecs
  <2>1. /\ 0 .. burstAge \in SUBSET (0 .. BurstSecs)
        /\ burstAge + 1 .. BurstSecs \in SUBSET (0 .. BurstSecs)
        /\ 0 .. BurstSecs \in SUBSET (0 .. BurstSecs)
        /\ (0 .. BurstSecs) \ (0 .. burstAge) = burstAge + 1 .. BurstSecs
    BY <1>1, <1>4, Numbers
  <2>2. IsFiniteSet(0 .. BurstSecs) /\ \A x \in 0 .. BurstSecs : recent[x] \in Nat
    BY <1>1, <2>1, PartsOfAges
  <2> DEFINE S == 0 .. BurstSecs
             T == 0 .. burstAge
  <2>3. IsFiniteSet(S) /\ (\A x \in S : recent[x] \in Nat) /\ T \in SUBSET S
    BY <2>1, <2>2
  <2>4. S \ T = burstAge + 1 .. BurstSecs
    BY <2>1
  <2>5. Total(recent, S) = Total(recent, T) + Total(recent, S \ T)
    <3> HIDE DEF S, T
    <3>. QED
      BY <2>3, TotalOfParts
  <2>6. Total(recent, T) = burstCount /\ Total(recent, S \ T) <= BurstMax
    BY <1>4, <2>4 DEF Counted, WindowOf
  <2>7. Total(recent, S \ T) \in Nat
    BY <1>1, <2>1, <2>4, PartsOfAges
  <2>8. Recent = burstCount + Total(recent, S \ T)
    BY <1>2, <2>5, <2>6
  <2> HIDE DEF S, T
  <2>9. Recent > BurstMax \/ burstCount <= BurstMax
    BY <1>1, <2>7, <2>8, Numbers
  <2>10. burstCount <= BurstMax => Recent <= 2 * BurstMax
    BY <1>1, <2>6, <2>7, <2>8, Numbers
  <2>. QED
    BY <1>1, <2>9, <2>10, Numbers DEF CrashLoopGuard, IInv, Supervised
<1>5. CASE burstAge > BurstSecs
  <2>1. Recent <= burstCount
    BY <1>1, <1>2, <1>5, Numbers DEF Counted, WindowOf
  <2>2. Recent \in Nat
    BY <1>2, <1>3
  <2>3. burstCount <= BurstMax => Recent <= 2 * BurstMax
    BY <1>1, <2>1, <2>2, Numbers
  <2>. QED
    BY <1>1, <1>5, <2>3, Numbers DEF CrashLoopGuard, GivesUp, IInv, Supervised
<1>. QED
  BY <1>1, <1>4, <1>5, Numbers

(* What the counter says of the failures, for every limit and every window: *)
(* a restart is scheduled only while at most twice BurstMax failures are    *)
(* recent, and the supervisor gives up only after more than BurstMax        *)
(* (ns_watchdog_schedule_restart).                                         *)
THEOREM RestartsAreGuarded == Spec => []CrashLoopGuard
<1>1. Init => Counted /\ GivesUp
  BY InitCounted
<1>2. IInv /\ (Counted /\ GivesUp) /\ [Next]_vars => (Counted /\ GivesUp)'
  BY CountedKept, GivesUpKept
<1>3. IInv /\ (Counted /\ GivesUp) => CrashLoopGuard
  BY GuardFollows
<1>. QED
  BY <1>1, <1>2, <1>3, Inductive, PTL DEF Spec

-----------------------------------------------------------------------------
(* The jobs are told apart by where they are, and delete_key for no key at  *)
(* all is what comes next.                                                 *)
LEMMA Jobs ==
    /\ Idle.at = "idle" /\ Aging.at = "age" /\ Capping.at = "cap"
    /\ Upgrading.at = "upgrade" /\ Version.at = "version"
    /\ \A then : Deleting({}, then) = then
    /\ \A S, then : S # {} =>
          /\ Deleting(S, then).at = "unlink"
          /\ Deleting(S, then).todo = S
          /\ Deleting(S, then).next = then
BY DEF Idle, Aging, Capping, Upgrading, Version, Deleting

LEMMA PlainJobs ==
    /\ JobTyped(Idle) /\ JobTyped(Aging) /\ JobTyped(Capping)
    /\ JobTyped(Upgrading) /\ JobTyped(Version)
BY Jobs DEF JobTyped

LEMMA DeletingTyped ==
    ASSUME NEW S \in SUBSET Keys, NEW n \in {Idle, Capping}
    PROVE  JobTyped(Deleting(S, n))
<1>1. CASE S = {}
  BY <1>1, Jobs, PlainJobs
<1>2. CASE S # {}
  BY <1>2, Jobs DEF JobTyped
<1>. QED
  BY <1>1, <1>2

(* One process goes on to its next job.                                     *)
LEMMA BecomeEffect ==
    ASSUME ProcessTypes, NEW p \in Processes, NEW j, Become(p, j)
    PROVE  /\ job'[p] = j
           /\ \A q \in Processes : q # p => job'[q] = job[q]
           /\ job' = [q \in Processes |-> job'[q]]
<1>1. job' = [[q \in Processes |-> job[q]] EXCEPT ![p] = j]
  BY DEF Become, ProcessTypes
<1>. QED
  BY <1>1

LEMMA BecomeTyped ==
    ASSUME ProcessTypes, NEW p \in Processes, NEW j, Become(p, j), JobTyped(j),
           UNCHANGED proc, proc[p] # "down"
    PROVE  ProcessTypes'
BY BecomeEffect DEF ProcessTypes

LEMMA LifeTyped ==
    ASSUME ProcessTypes, NEW p \in Processes, NEW j, Become(p, j), JobTyped(j),
           NEW s \in {"down", "starting", "open", "failed", "closed"},
           proc' = [proc EXCEPT ![p] = s], s = "down" => j = Idle
    PROVE  ProcessTypes'
BY BecomeEffect DEF ProcessTypes

LEMMA Busy ==
    ASSUME ProcessTypes, NEW p \in Processes,
           job[p].at # "idle" \/ proc[p] \in {"open", "failed"}
    PROVE  proc[p] # "down"
BY Jobs DEF ProcessTypes

LEMMA ExpiryNat ==
    ASSUME clock \in Nat, NEW l \in Lifetimes
    PROVE  Expiry(l) \in Nat
BY CacheAssumption DEF Expiry

LEMMA SurprisesCounted ==
    ASSUME surprises \in Nat, Goes \/ Surprise
    PROVE  surprises' \in Nat
BY DEF Goes, Surprise

(* A walk of cache_rmrf that has k behind it.                               *)
LEMMA WalkOn ==
    ASSUME ProcessTypes, NEW p \in Processes, NEW k, job[p].at = "rmrf",
           job' = [job EXCEPT ![p].todo = @ \ {k}]
    PROVE  Become(p, [at |-> "rmrf", todo |-> job[p].todo \ {k},
                      next |-> job[p].next])
<1>1. job[p] = [at |-> "rmrf", todo |-> job[p].todo, next |-> job[p].next]
  BY DEF ProcessTypes, JobTyped
<1>2. [job[p] EXCEPT !.todo = @ \ {k}]
          = [at |-> "rmrf", todo |-> job[p].todo \ {k}, next |-> job[p].next]
  BY <1>1
<1>3. job' = [job EXCEPT ![p] = [job[p] EXCEPT !.todo = @ \ {k}]]
  OBVIOUS
<1>. QED
  BY <1>2, <1>3 DEF Become

-----------------------------------------------------------------------------
(* The types.                                                              *)
LEMMA InitTypes == CacheInit => CacheTypeOK
<1> SUFFICES ASSUME CacheInit PROVE CacheTypeOK
  OBVIOUS
<1>. QED
  BY PlainJobs
  DEF CacheInit, CacheTypeOK, DiskTypes, ProcessTypes, HistoryTypes

(* What Update does to a row keeps it a row, of the same body.              *)
LEMMA RowTypes ==
    ASSUME DiskTypes, NEW k \in Stored, NEW e \in Nat, NEW t \in Nat
    PROVE  /\ [rows[k] EXCEPT !.used = t] \in Rows
           /\ [rows[k] EXCEPT !.used = t].body = rows[k].body
           /\ [rows[k] EXCEPT !.expires = e, !.used = t] \in Rows
           /\ [rows[k] EXCEPT !.expires = e, !.used = t].body = rows[k].body
<1>1. rows[k] \in Rows
  BY DEF DiskTypes, Stored
<1>. QED
  BY <1>1 DEF Rows

LEMMA Updated ==
    ASSUME CacheTypeOK, NEW p, NEW k, NEW row, Update(p, k, row),
           k \in Stored => row \in Rows /\ row.body = rows[k].body
    PROVE  /\ rows' \in [Keys -> Rows \cup {NoRow}]
           /\ surprises' \in Nat
           /\ \A x \in Keys : \/ rows'[x] = rows[x]
                              \/ /\ x \in Stored /\ rows'[x] \in Rows
                                 /\ rows'[x].body = rows[x].body
<1>1. surprises' \in Nat
  BY SurprisesCounted DEF Update, CacheTypeOK, HistoryTypes
<1>. QED
  BY <1>1 DEF Update, CacheTypeOK, DiskTypes, Stored

(* The update of a row that a touch makes, or a promotion.                  *)
LEMMA Refreshed ==
    ASSUME CacheTypeOK, NEW p \in Processes, Touch(p) \/ Promoted(p)
    PROVE  /\ rows' \in [Keys -> Rows \cup {NoRow}]
           /\ surprises' \in Nat
           /\ \A x \in Keys : \/ rows'[x] = rows[x]
                              \/ /\ x \in Stored /\ rows'[x] \in Rows
                                 /\ rows'[x].body = rows[x].body
<1> DEFINE k == job[p].key
<1>1. clock \in Nat /\ DiskTypes
  BY DEF CacheTypeOK, HistoryTypes
<1>2. CASE Touch(p)
  <2> DEFINE r == [rows[k] EXCEPT !.used = clock]
  <2>1. Update(p, k, r)
    BY <1>2 DEF Touch
  <2>2. k \in Stored => r \in Rows /\ r.body = rows[k].body
    BY <1>1, RowTypes
  <2> HIDE DEF r, k
  <2>. QED
    BY <2>1, <2>2, Updated
<1>3. CASE Promoted(p)
  <2> DEFINE r == [rows[k] EXCEPT !.expires = job[p].expires, !.used = clock]
  <2>1. Update(p, k, r)
    BY <1>3 DEF Promoted
  <2>2. job[p].expires \in Nat
    BY <1>3 DEF Promoted, CacheTypeOK, ProcessTypes, JobTyped
  <2>3. k \in Stored => r \in Rows /\ r.body = rows[k].body
    BY <1>1, <2>2, RowTypes
  <2> HIDE DEF r, k
  <2>. QED
    BY <2>1, <2>3, Updated
<1>. QED
  BY <1>2, <1>3

(* The parts of a job that a step of its process can rely on.               *)
LEMMA JobParts ==
    ASSUME ProcessTypes, NEW p \in Processes
    PROVE  /\ job[p].at = "file" => job[p].key \in Keys /\ job[p].body \in Responses
           /\ job[p].at = "unlink" =>
                 job[p].todo \subseteq Keys /\ job[p].next \in {Idle, Capping}
           /\ job[p].at = "drop" =>
                 /\ job[p].key \in Keys
                 /\ \E S \in SUBSET Keys, n \in {Idle, Capping} :
                       job[p].next = Deleting(S, n)
           /\ job[p].at \in {"read", "touch"} => job[p].key \in Keys
           /\ job[p].at = "read" => job[p].head \in Responses
           /\ job[p].at = "rmrf" =>
                 job[p].todo \subseteq Keys /\ job[p].next \in {Idle, Version}
BY DEF ProcessTypes, JobTyped

LEMMA PutTypes ==
    ASSUME CacheTypeOK, NEW p \in Processes, Put(p)
    PROVE  CacheTypeOK'
<1>1. ProcessTypes /\ DiskTypes /\ HistoryTypes
  BY DEF CacheTypeOK
<1>2. /\ surprises' \in Nat /\ UNCHANGED <<current, proc, clock>>
      /\ proc[p] # "down"
  BY <1>1, SurprisesCounted, Busy
  DEF Put, PutRow, PutFile, PutAstray, PutFails, Keep, HistoryTypes, Free
<1>3. CASE PutRow(p)
  <2>1. PICK k \in UNION Requests, r \in Responses, l \in Lifetimes :
           /\ rows' = [rows EXCEPT ![k] =
                          [body |-> r, expires |-> Expiry(l), used |-> clock]]
           /\ Become(p, [at |-> "file", key |-> k, body |-> r])
           /\ torn' \in {torn \ {k}, torn \cup {k}}
           /\ leaked' \in {leaked, leaked \ {k}}
           /\ crossed' = crossed \cup Looking(k)
    BY <1>3 DEF PutRow
  <2>2. k \in Keys
    BY CacheAssumption
  <2>3. [body |-> r, expires |-> Expiry(l), used |-> clock] \in Rows
    BY <1>1, ExpiryNat DEF HistoryTypes, Rows
  <2>4. JobTyped([at |-> "file", key |-> k, body |-> r])
    BY <2>2 DEF JobTyped
  <2>5. DiskTypes'
    BY <1>1, <1>2, <1>3, <2>1, <2>2, <2>3 DEF PutRow, DiskTypes
  <2>6. ProcessTypes'
    BY <1>1, <1>2, <2>1, <2>4, BecomeTyped
  <2>7. HistoryTypes'
    BY <1>1, <1>2, <1>3, <2>1, <2>2 DEF PutRow, HistoryTypes, Looking
  <2>. QED
    BY <2>5, <2>6, <2>7 DEF CacheTypeOK
<1>4. CASE PutFile(p) \/ PutAstray(p) \/ PutFails(p)
  <2>1. job[p].key \in Keys /\ job[p].body \in Responses
    BY <1>1, <1>4, JobParts DEF PutFile, PutAstray, PutFails
  <2>2. \E j : JobTyped(j) /\ Become(p, j)
    BY <1>4, <2>1, PlainJobs, DeletingTyped DEF PutFile, PutAstray, PutFails
  <2>3. ProcessTypes'
    BY <1>1, <1>2, <2>2, BecomeTyped
  <2>4. DiskTypes'
    BY <1>1, <1>2, <1>4, <2>1 DEF PutFile, PutAstray, PutFails, DiskTypes, histories
  <2>5. HistoryTypes'
    BY <1>1, <1>2, <1>4, <2>1
    DEF PutFile, PutAstray, PutFails, HistoryTypes, histories
  <2>. QED
    BY <2>3, <2>4, <2>5 DEF CacheTypeOK
<1>. QED
  BY <1>3, <1>4 DEF Put

(* Whatever of the rows that match is given to the eviction.                *)
LEMMA EvictSteps ==
    ASSUME ProcessTypes, NEW p \in Processes, Evict(p)
    PROVE  \/ EvictNothing(p) /\ job'[p] = Idle
           \/ /\ EvictAged(p)
              /\ \E S \in SUBSET Stored :
                    Become(p, Deleting(S, Capping)) /\ job'[p] = Deleting(S, Capping)
           \/ /\ EvictOver(p)
              /\ \E S \in SUBSET {k \in Stored : RunningSum(k) > Cap} :
                    /\ Become(p, Deleting(S, Idle)) /\ job'[p] = Deleting(S, Idle)
                    /\ lapsed' = (S # {k \in Stored : RunningSum(k) > Cap})
<1>1. CASE EvictNothing(p)
  BY <1>1, BecomeEffect DEF EvictNothing
<1>2. CASE EvictAged(p)
  <2>1. PICK S \in SUBSET {k \in Stored : rows[k].used < clock - MaxAge} :
           Become(p, Deleting(S, Capping))
    BY <1>2 DEF EvictAged
  <2>2. S \in SUBSET Stored
    OBVIOUS
  <2>. QED
    BY <1>2, <2>1, <2>2, BecomeEffect
<1>3. CASE EvictOver(p)
  <2> DEFINE Over == {k \in Stored : RunningSum(k) > Cap}
  <2>1. PICK S \in SUBSET Over :
           Become(p, Deleting(S, Idle)) /\ lapsed' = (S # Over)
    BY <1>3 DEF EvictOver
  <2>. QED
    BY <1>3, <2>1, BecomeEffect
<1>. QED
  BY <1>1, <1>2, <1>3 DEF Evict

LEMMA EvictTypes ==
    ASSUME CacheTypeOK, NEW p \in Processes, Evict(p)
    PROVE  CacheTypeOK'
<1>1. ProcessTypes /\ DiskTypes /\ HistoryTypes
  BY DEF CacheTypeOK
<1>2. /\ UNCHANGED <<rows, files, torn, leaked, crossed, current, proc, clock>>
      /\ proc[p] # "down"
  BY <1>1, Busy
  DEF Evict, EvictNothing, EvictAged, EvictOver, Keep, histories
<1>3. lapsed' \in BOOLEAN /\ surprises' \in Nat
  BY <1>1, SurprisesCounted
  DEF Evict, EvictNothing, EvictAged, EvictOver, Given, HistoryTypes, histories
<1>4. Stored \subseteq Keys
  BY DEF Stored
<1>5. \E j : JobTyped(j) /\ Become(p, j)
  <2>1. CASE EvictNothing(p)
    BY <2>1, PlainJobs DEF EvictNothing
  <2>2. CASE ~EvictNothing(p)
    <3>1. PICK S \in SUBSET Stored, n \in {Idle, Capping} : Become(p, Deleting(S, n))
      BY <1>1, <2>2, EvictSteps
    <3>. QED
      BY <1>4, <3>1, DeletingTyped
  <2>. QED
    BY <2>1, <2>2
<1>6. ProcessTypes'
  BY <1>1, <1>2, <1>5, BecomeTyped
<1>. QED
  BY <1>1, <1>2, <1>3, <1>6 DEF CacheTypeOK, DiskTypes, HistoryTypes

LEMMA DeleteTypes ==
    ASSUME CacheTypeOK, NEW p \in Processes, Delete(p)
    PROVE  CacheTypeOK'
<1>1. ProcessTypes /\ DiskTypes /\ HistoryTypes
  BY DEF CacheTypeOK
<1>2. UNCHANGED <<current, proc, clock, crossed, lapsed>> /\ proc[p] # "down"
  BY <1>1, Busy DEF Delete, Unlink, DropRow, Keep
<1>3. CASE Unlink(p)
  <2>1. PICK k \in job[p].todo :
           /\ Goes \/ Surprise
           /\ files' \in {files, [files EXCEPT ![k] = NoBody]}
           /\ torn' \in {torn, torn \cup {k}} /\ leaked' \in {leaked, leaked \cup {k}}
           /\ Become(p, [at |-> "drop", key |-> k,
                         next |-> Deleting(job[p].todo \ {k}, job[p].next)])
    BY <1>3 DEF Unlink
  <2>2. job[p].todo \subseteq Keys /\ job[p].next \in {Idle, Capping}
    BY <1>1, <1>3, JobParts DEF Unlink
  <2>3. JobTyped([at |-> "drop", key |-> k,
                  next |-> Deleting(job[p].todo \ {k}, job[p].next)])
    BY <2>2 DEF JobTyped
  <2>4. ProcessTypes'
    BY <1>1, <1>2, <2>1, <2>3, BecomeTyped
  <2>5. surprises' \in Nat
    BY <1>1, <2>1, SurprisesCounted DEF HistoryTypes
  <2>. QED
    BY <1>1, <1>2, <1>3, <2>1, <2>2, <2>4, <2>5
    DEF Unlink, CacheTypeOK, DiskTypes, HistoryTypes
<1>4. CASE DropRow(p)
  <2>1. job[p].key \in Keys /\ JobTyped(job[p].next)
    BY <1>1, <1>4, JobParts, DeletingTyped DEF DropRow
  <2>2. ProcessTypes'
    BY <1>1, <1>2, <1>4, <2>1, BecomeTyped DEF DropRow
  <2>3. surprises' \in Nat
    BY <1>1, <1>4, SurprisesCounted DEF DropRow, HistoryTypes
  <2>4. leaked' \subseteq Keys
    BY <1>1, <1>4, <2>1 DEF DropRow, HistoryTypes, Stranded
  <2>5. DiskTypes'
    BY <1>1, <1>2, <1>4, <2>1 DEF DropRow, DiskTypes
  <2>. QED
    BY <1>1, <1>2, <1>4, <2>2, <2>3, <2>4, <2>5 DEF DropRow, CacheTypeOK, HistoryTypes
<1>. QED
  BY <1>3, <1>4 DEF Delete

LEMMA GetTypes ==
    ASSUME CacheTypeOK, NEW p \in Processes, Get(p) \/ Promotion(p)
    PROVE  CacheTypeOK'
<1>1. ProcessTypes /\ DiskTypes /\ HistoryTypes
  BY DEF CacheTypeOK
<1>2. /\ UNCHANGED <<files, current, proc, clock, torn, leaked, lapsed>>
      /\ proc[p] # "down"
  BY <1>1, Busy
  DEF Get, GetRow, GetFile, Touch, Promotion, Promote, Promoted, Keep, Free, histories
<1>3. crossed' \in {crossed, crossed \cup {p}, crossed \ {p}}
  BY DEF Get, GetRow, GetFile, Touch, Promotion, Promote, Promoted, histories
<1>4. rows' \in [Keys -> Rows \cup {NoRow}] /\ surprises' \in Nat
  <2>1. CASE Touch(p) \/ Promoted(p)
    BY <2>1, Refreshed
  <2>2. CASE GetRow(p) \/ GetFile(p) \/ Promote(p)
    BY <1>1, <2>2, SurprisesCounted
    DEF GetRow, GetFile, Promote, DiskTypes, HistoryTypes
  <2>. QED
    BY <2>1, <2>2 DEF Get, Promotion
<1>5. \E j : JobTyped(j) /\ Become(p, j)
  <2>1. CASE GetRow(p)
    <3>1. PICK q \in Requests, k \in Stored :
             Become(p, [at |-> "read", key |-> k, head |-> rows[k].body,
                        expires |-> rows[k].expires, request |-> q])
      BY <2>1 DEF GetRow
    <3>2. k \in Keys /\ rows[k].body \in Responses
      BY <1>1 DEF Stored, DiskTypes, Rows
    <3>. QED
      BY <3>1, <3>2 DEF JobTyped
  <2>2. CASE GetFile(p)
    <3>1. job[p].key \in Keys
      BY <1>1, <2>2, JobParts DEF GetFile
    <3>. QED
      BY <2>2, <3>1, DeletingTyped DEF GetFile, JobTyped
  <2>3. CASE Touch(p) \/ Promoted(p)
    BY <2>3, PlainJobs DEF Touch, Promoted
  <2>4. CASE Promote(p)
    <3>1. PICK k \in Stored, l \in Lifetimes :
             Become(p, [at |-> "promote", key |-> k, expires |-> Expiry(l)])
      BY <2>4 DEF Promote
    <3>2. k \in Keys /\ Expiry(l) \in Nat
      BY <1>1, ExpiryNat DEF Stored, HistoryTypes
    <3>. QED
      BY <3>1, <3>2 DEF JobTyped
  <2>. QED
    BY <2>1, <2>2, <2>3, <2>4 DEF Get, Promotion
<1>6. ProcessTypes'
  BY <1>1, <1>2, <1>5, BecomeTyped
<1>. QED
  BY <1>1, <1>2, <1>3, <1>4, <1>6 DEF CacheTypeOK, DiskTypes, HistoryTypes

LEMMA ClearingTypes ==
    ASSUME CacheTypeOK, NEW p \in Processes, Clearing(p)
    PROVE  CacheTypeOK'
<1>1. ProcessTypes /\ DiskTypes /\ HistoryTypes
  BY DEF CacheTypeOK
<1>2. /\ UNCHANGED <<current, proc, clock, torn, crossed, lapsed>>
      /\ proc[p] # "down"
  BY <1>1, Busy DEF Clearing, Clear, Remove, Removed, Keep, histories
<1>3. surprises' \in Nat
  BY <1>1, SurprisesCounted DEF Clearing, Clear, Remove, Removed, HistoryTypes
<1>4. CASE Clear(p)
  <2>1. JobTyped([at |-> "rmrf", todo |-> OnDisk, next |-> Idle])
    BY DEF JobTyped, OnDisk
  <2>2. ProcessTypes'
    BY <1>1, <1>2, <1>4, <2>1, BecomeTyped DEF Clear
  <2>. QED
    BY <1>1, <1>2, <1>3, <1>4, <2>2
    DEF Clear, CacheTypeOK, DiskTypes, HistoryTypes, Stranded
<1>5. CASE Remove(p)
  <2>1. PICK k \in job[p].todo \cup OnDisk :
           /\ files' \in {files, [files EXCEPT ![k] = NoBody]}
           /\ leaked' \in {leaked, leaked \cup {k}}
           /\ job' = [job EXCEPT ![p].todo = @ \ {k}]
    BY <1>5 DEF Remove
  <2>2. /\ job[p].todo \subseteq Keys /\ job[p].next \in {Idle, Version}
        /\ k \in Keys /\ job[p].at = "rmrf"
    BY <1>1, <1>5, <2>1, JobParts DEF Remove, OnDisk
  <2>3. Become(p, [at |-> "rmrf", todo |-> job[p].todo \ {k},
                   next |-> job[p].next])
    BY <1>1, <2>1, <2>2, WalkOn
  <2>4. JobTyped([at |-> "rmrf", todo |-> job[p].todo \ {k}, next |-> job[p].next])
    BY <2>2 DEF JobTyped
  <2>5. ProcessTypes'
    BY <1>1, <1>2, <2>3, <2>4, BecomeTyped
  <2>. QED
    BY <1>1, <1>2, <1>3, <1>5, <2>1, <2>2, <2>5
    DEF Remove, CacheTypeOK, DiskTypes, HistoryTypes
<1>6. CASE Removed(p)
  <2>1. JobTyped(job[p].next)
    BY <1>1, <1>6, JobParts, PlainJobs DEF Removed
  <2>2. ProcessTypes'
    BY <1>1, <1>2, <1>6, <2>1, BecomeTyped DEF Removed
  <2>. QED
    BY <1>1, <1>2, <1>3, <1>6, <2>2
    DEF Removed, CacheTypeOK, DiskTypes, HistoryTypes, histories
<1>. QED
  BY <1>4, <1>5, <1>6 DEF Clearing

LEMMA LifeTypes ==
    ASSUME CacheTypeOK, NEW p \in Processes, Life(p)
    PROVE  CacheTypeOK'
<1>1. ProcessTypes /\ DiskTypes /\ HistoryTypes
  BY DEF CacheTypeOK
<1>2. surprises' \in Nat /\ UNCHANGED <<files, clock>>
  BY <1>1, SurprisesCounted
  DEF Life, CacheStart, Upgrade, SetVersion, Started, StartFails, Shutdown, End,
      Keep, disk, HistoryTypes
<1>3. CASE CacheStart(p) \/ StartFails(p)
  <2>1. PICK j \in {Idle, Aging, Upgrading} : Become(p, j)
    BY <1>3 DEF CacheStart, StartFails
  <2>2. PICK s \in {"starting", "failed"} : proc' = [proc EXCEPT ![p] = s]
    BY <1>3 DEF CacheStart, StartFails
  <2>3. ProcessTypes'
    BY <1>1, <2>1, <2>2, PlainJobs, LifeTyped
  <2>. QED
    BY <1>1, <1>2, <1>3, <2>3
    DEF CacheStart, StartFails, CacheTypeOK, DiskTypes, HistoryTypes, disk, histories
<1>4. CASE Upgrade(p)
  <2>1. JobTyped([at |-> "rmrf", todo |-> OnDisk, next |-> Version])
    BY DEF JobTyped, OnDisk
  <2>2. ProcessTypes'
    BY <1>1, <1>4, <2>1, Busy, BecomeTyped DEF Upgrade, Keep
  <2>. QED
    BY <1>1, <1>2, <1>4, <2>2
    DEF Upgrade, Keep, CacheTypeOK, DiskTypes, HistoryTypes, Stranded
<1>5. CASE SetVersion(p)
  <2>1. ProcessTypes'
    BY <1>1, <1>5, Busy, PlainJobs, BecomeTyped DEF SetVersion
  <2>. QED
    BY <1>1, <1>2, <1>5, <2>1
    DEF SetVersion, CacheTypeOK, DiskTypes, HistoryTypes, histories
<1>6. CASE Started(p) \/ Shutdown(p)
  <2>1. ProcessTypes'
    BY <1>1, <1>6 DEF Started, Shutdown, ProcessTypes
  <2>. QED
    BY <1>1, <1>2, <1>6, <2>1
    DEF Started, Shutdown, CacheTypeOK, DiskTypes, HistoryTypes, disk, histories
<1>7. CASE End(p)
  <2>1. ProcessTypes'
    BY <1>1, <1>7, PlainJobs, LifeTyped DEF End
  <2>2. torn' \subseteq Keys /\ crossed' \subseteq Processes /\ lapsed' \in BOOLEAN
    BY <1>1, <1>7 DEF End, Stored, HistoryTypes
  <2>3. leaked' \subseteq Keys
    BY <1>1, <1>7, JobParts DEF End, HistoryTypes
  <2>. QED
    BY <1>1, <1>2, <1>7, <2>1, <2>2, <2>3
    DEF End, CacheTypeOK, DiskTypes, HistoryTypes, disk
<1>. QED
  BY <1>3, <1>4, <1>5, <1>6, <1>7 DEF Life

LEMMA ClockTypes == CacheTypeOK /\ (SetClock \/ UNCHANGED cacheVars) => CacheTypeOK'
<1> SUFFICES ASSUME CacheTypeOK, SetClock \/ UNCHANGED cacheVars PROVE CacheTypeOK'
  OBVIOUS
<1>1. clock' \in Nat /\ surprises' \in Nat
  BY CacheAssumption, SurprisesCounted
  DEF SetClock, cacheVars, CacheTypeOK, HistoryTypes
<1>. QED
  BY <1>1
  DEF SetClock, cacheVars, disk, histories, CacheTypeOK, DiskTypes, ProcessTypes,
      HistoryTypes

LEMMA NextTypes == CacheTypeOK /\ [CacheNext]_cacheVars => CacheTypeOK'
BY PutTypes, EvictTypes, DeleteTypes, GetTypes, ClearingTypes, LifeTypes,
   ClockTypes DEF CacheNext

(* Whatever several processes do to one cache, rows, files and what each    *)
(* process is in the middle of keep their shape: a process that has ended   *)
(* is in the middle of nothing (cache.c).                                  *)
THEOREM CacheTypeCorrect == CacheSpec => []CacheTypeOK
BY InitTypes, NextTypes, PTL DEF CacheSpec

-----------------------------------------------------------------------------
(* The keys whose row and file are of two responses.                        *)
Differing == {k \in Stored \cap OnDisk : rows[k].body # files[k]}

(* Who will make row and file of k one again: who writes the file, or could *)
(* not and takes the entry away.                                           *)
Mending(k) ==
    {p \in Processes :
        \/ job[p].at = "file" /\ job[p].key = k
        \/ job[p].at = "unlink" /\ job[p].todo = {k}}

Walking(k) == {p \in Processes : job[p].at = "rmrf" /\ k \in job[p].todo}

(* Row and file differ while somebody is at it, or the key is torn.         *)
DifferForReason == \A k \in Differing : k \in torn \/ Mending(k) # {}

(* Who is about to write a file finds the row it wrote before, or none.     *)
StoresAgree ==
    \A p \in Processes :
        job[p].at = "file" =>
            \/ job[p].key \in torn
            \/ job[p].key \notin Stored
            \/ rows[job[p].key].body = job[p].body

(* A lookup that met no store of its key reads the file of its row.         *)
NobodyStores(k) == \A p \in Processes : ~(job[p].at = "file" /\ job[p].key = k)

LookupAgrees(p) ==
    \/ p \in crossed
    \/ /\ job[p].at = "read" /\ job[p].key \notin torn =>
             /\ NobodyStores(job[p].key)
             /\ job[p].key \in OnDisk => files[job[p].key] = job[p].head
       /\ job[p].at = "touch" =>
             job[p].head = job[p].body \/ job[p].key \in torn

LookupsAgree == \A p \in Processes : LookupAgrees(p)

Bodies == DifferForReason /\ StoresAgree /\ LookupsAgree

(* What is written or deleted next cannot lose its row unseen.              *)
StoresHaveRows ==
    \A p \in Processes : job[p].at = "file" => job[p].key \in Stored \cup leaked

DropsHaveNoFile ==
    \A p \in Processes :
        job[p].at = "drop" => job[p].key \notin OnDisk \/ job[p].key \in leaked

FilesHaveRows ==
    current => \A k \in OnDisk : k \in Stored \cup leaked \/ Walking(k) # {}

(* A cache of another version gets its version when its files are gone.     *)
UpgradeIsClean ==
    ~current =>
        \A p \in Processes :
            /\ job[p].at = "rmrf" /\ job[p].next = Version =>
                  OnDisk \subseteq job[p].todo \cup leaked
            /\ job[p].at = "version" => OnDisk \subseteq leaked

(* Until then processes start, or fail to, and clear what is there.         *)
NotYet ==
    ~current =>
        \A p \in Processes :
            \/ /\ proc[p] = "starting"
               /\ \/ job[p].at \in {"upgrade", "version"}
                  \/ job[p].at = "rmrf" /\ job[p].next = Version
            \/ /\ proc[p] \in {"down", "failed"}
               /\ job[p] = Idle \/ (job[p].at = "rmrf" /\ job[p].next = Idle)

Places == StoresHaveRows /\ DropsHaveNoFile /\ FilesHaveRows
Versions == UpgradeIsClean /\ NotYet

CacheInv == CacheTypeOK /\ Bodies /\ Places /\ Versions

-----------------------------------------------------------------------------
LEMMA OnTheDisk ==
    /\ \A k : k \in Stored <=> k \in Keys /\ rows[k] # NoRow
    /\ \A k : k \in OnDisk <=> k \in Keys /\ files[k] # NoBody
    /\ \A k : k \in Differing <=> /\ k \in Stored /\ k \in OnDisk
                                  /\ rows[k].body # files[k]
BY DEF Stored, OnDisk, Differing

LEMMA OnTheDiskNext ==
    /\ \A k : k \in Stored' <=> k \in Keys /\ rows'[k] # NoRow
    /\ \A k : k \in OnDisk' <=> k \in Keys /\ files'[k] # NoBody
    /\ \A k : k \in Differing' <=> /\ k \in Stored' /\ k \in OnDisk'
                                   /\ rows'[k].body # files'[k]
BY DEF Stored, OnDisk, Differing

LEMMA NoRowIsNone ==
    ASSUME CacheTypeOK
    PROVE  /\ NoRow \notin Rows
           /\ \A k \in Stored : rows[k] \in Rows
           /\ \A k \in Keys : k \notin Stored => rows[k] = NoRow
           /\ \A k \in Keys : k \in OnDisk => files[k] \in Responses
           /\ NoBody \notin Responses
BY CacheAssumption DEF CacheTypeOK, DiskTypes, Stored, OnDisk, Rows

(* Operations on entries take place in a cache of this version.             *)
LEMMA Working ==
    ASSUME NotYet, NEW p \in Processes,
           Put(p) \/ Evict(p) \/ Delete(p) \/ Get(p) \/ Promotion(p)
    PROVE  current /\ current' /\ UNCHANGED current
BY Jobs
DEF NotYet, Put, PutRow, PutFile, PutAstray, PutFails, Evict, EvictNothing,
    EvictAged, EvictOver, Delete, Unlink, DropRow, Get, GetRow, GetFile, Touch,
    Promotion, Promote, Promoted, Free, Keep

(* The steps that write, in terms of single keys.                           *)
OthersStay(p) == \A q \in Processes : q # p => job'[q] = job[q]

LEMMA PutRowEffect ==
    ASSUME CacheTypeOK, NEW p \in Processes, PutRow(p)
    PROVE  \E k \in Keys, r \in Responses :
              /\ job[p].at = "idle" /\ proc[p] = "open"
              /\ job'[p] = [at |-> "file", key |-> k, body |-> r]
              /\ OthersStay(p)
              /\ rows'[k] # NoRow /\ rows'[k].body = r
              /\ \A x \in Keys : x # k => rows'[x] = rows[x]
              /\ UNCHANGED <<files, current, proc, lapsed>>
              /\ torn' = IF Storing(k) = {} THEN torn \ {k} ELSE torn \cup {k}
              /\ leaked' = IF Storing(k) \cup Dropping(k) = {}
                           THEN leaked \ {k} ELSE leaked
              /\ crossed' = crossed \cup Looking(k)
<1>1. PICK k \in UNION Requests, r \in Responses, l \in Lifetimes :
         /\ rows' = [rows EXCEPT ![k] =
                        [body |-> r, expires |-> Expiry(l), used |-> clock]]
         /\ Become(p, [at |-> "file", key |-> k, body |-> r])
         /\ torn' = IF Storing(k) = {} THEN torn \ {k} ELSE torn \cup {k}
         /\ leaked' = IF Storing(k) \cup Dropping(k) = {}
                      THEN leaked \ {k} ELSE leaked
         /\ crossed' = crossed \cup Looking(k)
  BY DEF PutRow
<1>2. k \in Keys
  BY CacheAssumption
<1>3. /\ rows'[k] = [body |-> r, expires |-> Expiry(l), used |-> clock]
      /\ \A x \in Keys : x # k => rows'[x] = rows[x]
  BY <1>1, <1>2 DEF CacheTypeOK, DiskTypes
<1>4. [body |-> r, expires |-> Expiry(l), used |-> clock] \in Rows
  BY ExpiryNat DEF CacheTypeOK, HistoryTypes, Rows
<1>5. rows'[k] # NoRow /\ rows'[k].body = r
  BY <1>3, <1>4, NoRowIsNone
<1>6. job'[p] = [at |-> "file", key |-> k, body |-> r] /\ OthersStay(p)
  BY <1>1, BecomeEffect DEF CacheTypeOK, OthersStay
<1>7. /\ job[p].at = "idle" /\ proc[p] = "open"
      /\ UNCHANGED <<files, current, proc, lapsed>>
  BY Jobs DEF PutRow, Free, Keep
<1>. QED
  BY <1>1, <1>2, <1>3, <1>5, <1>6, <1>7

LEMMA PutFileEffect ==
    ASSUME CacheTypeOK, NEW p \in Processes, PutFile(p)
    PROVE  /\ job[p].at = "file" /\ job[p].key \in Keys
           /\ job[p].body \in Responses
           /\ job'[p] = Aging /\ OthersStay(p)
           /\ files'[job[p].key] = job[p].body
           /\ \A x \in Keys : x # job[p].key => files'[x] = files[x]
           /\ leaked' = IF Dropping(job[p].key) = {} THEN leaked
                        ELSE leaked \cup {job[p].key}
           /\ UNCHANGED <<rows, torn, crossed, lapsed, current, proc>>
<1>1. job[p].at = "file" /\ job[p].key \in Keys /\ job[p].body \in Responses
  BY JobParts DEF PutFile, CacheTypeOK
<1>2. job'[p] = Aging /\ OthersStay(p)
  BY BecomeEffect DEF PutFile, CacheTypeOK, OthersStay
<1>. QED
  BY <1>1, <1>2 DEF PutFile, Keep, CacheTypeOK, DiskTypes

LEMMA UnlinkEffect ==
    ASSUME CacheTypeOK, NEW p \in Processes, Unlink(p)
    PROVE  \E k \in Keys :
              /\ job[p].at = "unlink" /\ k \in job[p].todo
              /\ job[p].todo \subseteq Keys /\ job[p].next \in {Idle, Capping}
              /\ job'[p].at = "drop" /\ job'[p].key = k
              /\ job'[p].next = Deleting(job[p].todo \ {k}, job[p].next)
              /\ OthersStay(p)
              /\ \A x \in Keys : x # k => files'[x] = files[x]
              /\ \/ files'[k] = NoBody /\ UNCHANGED <<torn, leaked>>
                 \/ /\ files'[k] = files[k]
                    /\ torn' = torn \cup {k} /\ leaked' = leaked \cup {k}
              /\ UNCHANGED <<rows, crossed, lapsed, current, proc>>
<1>1. PICK k \in job[p].todo :
         /\ \/ files' = [files EXCEPT ![k] = NoBody] /\ UNCHANGED <<torn, leaked>>
            \/ /\ UNCHANGED files
               /\ torn' = torn \cup {k} /\ leaked' = leaked \cup {k}
         /\ Become(p, [at |-> "drop", key |-> k,
                       next |-> Deleting(job[p].todo \ {k}, job[p].next)])
  BY DEF Unlink
<1>2. /\ job[p].at = "unlink" /\ job[p].todo \subseteq Keys
      /\ job[p].next \in {Idle, Capping}
  BY JobParts DEF Unlink, CacheTypeOK
<1>3. /\ job'[p] = [at |-> "drop", key |-> k,
                    next |-> Deleting(job[p].todo \ {k}, job[p].next)]
      /\ OthersStay(p)
  BY <1>1, BecomeEffect DEF CacheTypeOK, OthersStay
<1>4. /\ job'[p].at = "drop" /\ job'[p].key = k
      /\ job'[p].next = Deleting(job[p].todo \ {k}, job[p].next)
  BY <1>3
<1>5. /\ \A x \in Keys : x # k => files'[x] = files[x]
      /\ files'[k] = NoBody \/ UNCHANGED files
  BY <1>1, <1>2 DEF CacheTypeOK, DiskTypes
<1>6. /\ \/ files'[k] = NoBody /\ UNCHANGED <<torn, leaked>>
         \/ /\ files'[k] = files[k]
            /\ torn' = torn \cup {k} /\ leaked' = leaked \cup {k}
  BY <1>1, <1>2 DEF CacheTypeOK, DiskTypes
<1>7. UNCHANGED <<rows, crossed, lapsed, current, proc>>
  BY DEF Unlink, Keep
<1>8. k \in Keys
  BY <1>2
<1>. QED
  BY <1>2, <1>3, <1>4, <1>5, <1>6, <1>7, <1>8

LEMMA DropRowEffect ==
    ASSUME CacheTypeOK, NEW p \in Processes, DropRow(p)
    PROVE  /\ job[p].at = "drop" /\ job[p].key \in Keys
           /\ job'[p] = job[p].next /\ OthersStay(p)
           /\ \E S \in SUBSET Keys, n \in {Idle, Capping} :
                 job[p].next = Deleting(S, n)
           /\ job'[p].at \in {"idle", "cap", "unlink"}
           /\ \A x \in Keys : x # job[p].key => rows'[x] = rows[x]
           /\ \/ UNCHANGED <<rows, leaked>>
              \/ /\ rows'[job[p].key] = NoRow
                 /\ leaked' = leaked \cup Stranded({job[p].key})
           /\ UNCHANGED <<files, torn, crossed, lapsed, current, proc>>
<1>1. /\ job[p].at = "drop" /\ job[p].key \in Keys
      /\ \E S \in SUBSET Keys, n \in {Idle, Capping} :
            job[p].next = Deleting(S, n)
  BY JobParts DEF DropRow, CacheTypeOK
<1>2. job'[p] = job[p].next /\ OthersStay(p)
  BY BecomeEffect DEF DropRow, CacheTypeOK, OthersStay
<1>3. job'[p].at \in {"idle", "cap", "unlink"}
  BY <1>1, <1>2, Jobs
<1>. QED
  BY <1>1, <1>2, <1>3 DEF DropRow, Keep, CacheTypeOK, DiskTypes

(* Upgrade and Clear: the rows go, the files are walked over.               *)
LEMMA DropAllEffect ==
    ASSUME CacheTypeOK, NEW p \in Processes, Clear(p) \/ Upgrade(p)
    PROVE  \E n \in {Idle, Version} :
              /\ job'[p] = [at |-> "rmrf", todo |-> OnDisk, next |-> n]
              /\ OthersStay(p)
              /\ \/ Clear(p) /\ n = Idle /\ job[p] = Idle
                    /\ proc[p] \in {"open", "failed"}
                 \/ Upgrade(p) /\ n = Version /\ job[p].at = "upgrade"
              /\ \/ UNCHANGED <<rows, leaked>>
                 \/ /\ \A x \in Keys : rows'[x] = NoRow
                    /\ leaked' = leaked \cup Stranded(Keys)
              /\ UNCHANGED <<files, torn, crossed, lapsed, current, proc>>
<1>1. CASE Clear(p)
  <2>1. job'[p] = [at |-> "rmrf", todo |-> OnDisk, next |-> Idle] /\ OthersStay(p)
    BY <1>1, BecomeEffect DEF Clear, CacheTypeOK, OthersStay
  <2>2. UNCHANGED <<files, torn, crossed, lapsed, current, proc>>
    BY <1>1 DEF Clear, Keep
  <2>3. \/ UNCHANGED <<rows, leaked>>
        \/ /\ \A x \in Keys : rows'[x] = NoRow
           /\ leaked' = leaked \cup Stranded(Keys)
    BY <1>1 DEF Clear
  <2>. QED
    BY <1>1, <2>1, <2>2, <2>3 DEF Clear
<1>2. CASE Upgrade(p)
  <2>1. job'[p] = [at |-> "rmrf", todo |-> OnDisk, next |-> Version] /\ OthersStay(p)
    BY <1>2, BecomeEffect DEF Upgrade, CacheTypeOK, OthersStay
  <2>2. UNCHANGED <<files, torn, crossed, lapsed, current, proc>>
    BY <1>2 DEF Upgrade, Keep
  <2>3. /\ \A x \in Keys : rows'[x] = NoRow
        /\ leaked' = leaked \cup Stranded(Keys)
    BY <1>2 DEF Upgrade
  <2>. QED
    BY <1>2, <2>1, <2>2, <2>3 DEF Upgrade
<1>. QED
  BY <1>1, <1>2

LEMMA RemoveEffect ==
    ASSUME CacheTypeOK, NEW p \in Processes, Remove(p)
    PROVE  \E k \in Keys :
              /\ job[p].at = "rmrf" /\ job'[p].at = "rmrf"
              /\ job'[p].todo = job[p].todo \ {k} /\ job'[p].next = job[p].next
              /\ OthersStay(p)
              /\ \A x \in Keys : x # k => files'[x] = files[x]
              /\ \/ files'[k] = NoBody /\ UNCHANGED leaked
                 \/ files'[k] = files[k] /\ leaked' = leaked \cup {k}
              /\ UNCHANGED <<rows, torn, crossed, lapsed, current, proc>>
<1>1. PICK k \in job[p].todo \cup OnDisk :
         /\ \/ files' = [files EXCEPT ![k] = NoBody] /\ UNCHANGED leaked
            \/ UNCHANGED files /\ leaked' = leaked \cup {k}
         /\ job' = [job EXCEPT ![p].todo = @ \ {k}]
  BY DEF Remove
<1>2. job[p].at = "rmrf" /\ k \in Keys
  BY JobParts DEF Remove, CacheTypeOK, OnDisk
<1>3. Become(p, [at |-> "rmrf", todo |-> job[p].todo \ {k}, next |-> job[p].next])
  BY <1>1, <1>2, WalkOn DEF CacheTypeOK
<1>4. /\ job'[p].at = "rmrf"
      /\ job'[p].todo = job[p].todo \ {k} /\ job'[p].next = job[p].next
      /\ OthersStay(p)
  BY <1>3, BecomeEffect DEF CacheTypeOK, OthersStay
<1>5. /\ \A x \in Keys : x # k => files'[x] = files[x]
      /\ \/ files'[k] = NoBody /\ UNCHANGED leaked
         \/ files'[k] = files[k] /\ leaked' = leaked \cup {k}
  BY <1>1, <1>2 DEF CacheTypeOK, DiskTypes
<1>6. UNCHANGED <<rows, torn, crossed, lapsed, current, proc>>
  BY DEF Remove, Keep
<1>. QED
  BY <1>2, <1>4, <1>5, <1>6

LEMMA EndEffect ==
    ASSUME CacheTypeOK, NEW p \in Processes, End(p)
    PROVE  /\ job'[p] = Idle /\ OthersStay(p)
           /\ proc' = [proc EXCEPT ![p] = "down"]
           /\ torn' = torn \cup {k \in Differing : p \in Changing(k)}
           /\ leaked' = IF job[p].at = "rmrf" /\ (current \/ job[p].next = Idle)
                        THEN leaked \cup job[p].todo ELSE leaked
           /\ crossed' = crossed \ {p}
           /\ lapsed' = (lapsed \/ job[p].at \in
                                      {"file", "age", "cap", "unlink", "drop"})
           /\ UNCHANGED <<rows, files, current>>
<1>1. job'[p] = Idle /\ OthersStay(p)
  BY BecomeEffect DEF End, CacheTypeOK, OthersStay
<1>2. torn' = torn \cup {k \in Differing : p \in Changing(k)}
  BY DEF End, Differing
<1>. QED
  BY <1>1, <1>2 DEF End, disk

-----------------------------------------------------------------------------
(* A step that writes no file and no new row, of a process that was not in  *)
(* the middle of a store, a deletion or a walk.                             *)
LEMMA SameRows ==
    ASSUME CacheTypeOK, UNCHANGED files,
           \A x \in Keys : \/ rows'[x] = rows[x]
                           \/ /\ x \in Stored /\ rows'[x] \in Rows
                              /\ rows'[x].body = rows[x].body
    PROVE  /\ Stored' = Stored /\ OnDisk' = OnDisk /\ Differing' = Differing
           /\ \A x \in Stored : rows'[x].body = rows[x].body
<1>1. \A x \in Keys : rows'[x] # NoRow <=> rows[x] # NoRow
  BY NoRowIsNone, OnTheDisk
<1>2. \A x \in Stored : rows'[x].body = rows[x].body
  BY DEF Stored
<1>. QED
  BY <1>1, <1>2, OnTheDisk, OnTheDiskNext

QuietBefore(p) ==
    \/ job[p].at \in {"idle", "age", "cap", "read", "touch", "promote",
                      "upgrade", "version"}
    \/ job[p].at = "rmrf" /\ job[p].todo = {}

LEMMA QuietStep ==
    ASSUME CacheTypeOK, Bodies, Places, NEW p \in Processes, OthersStay(p),
           QuietBefore(p), job'[p].at \notin {"file", "drop", "read", "touch"},
           \A x \in Keys : \/ rows'[x] = rows[x]
                           \/ /\ x \in Stored /\ rows'[x] \in Rows
                              /\ rows'[x].body = rows[x].body,
           UNCHANGED <<files, torn, leaked>>, crossed \subseteq crossed' \cup {p}
    PROVE  /\ Bodies' /\ StoresHaveRows' /\ DropsHaveNoFile'
           /\ UNCHANGED current => FilesHaveRows'
<1>1. /\ Stored' = Stored /\ OnDisk' = OnDisk /\ Differing' = Differing
      /\ \A x \in Stored : rows'[x].body = rows[x].body
  BY SameRows
<1>2. /\ \A q \in Processes : job'[q].at \in {"file", "drop", "read", "touch"} =>
                                 q # p /\ job'[q] = job[q]
      /\ \A k : Mending(k) # {} => Mending(k)' # {}
      /\ \A k : Walking(k) # {} => Walking(k)' # {}
      /\ \A k : NobodyStores(k) => NobodyStores(k)'
  BY DEF OthersStay, QuietBefore, Mending, Walking, NobodyStores
<1>3. DifferForReason'
  BY <1>1, <1>2 DEF Bodies, DifferForReason
<1>4. StoresAgree'
  BY <1>1, <1>2 DEF Bodies, StoresAgree
<1>5. LookupsAgree'
  BY <1>1, <1>2 DEF Bodies, LookupsAgree, LookupAgrees, NobodyStores
<1>6. StoresHaveRows' /\ DropsHaveNoFile'
  BY <1>1, <1>2 DEF Places, StoresHaveRows, DropsHaveNoFile
<1>7. UNCHANGED current => FilesHaveRows'
  BY <1>1, <1>2 DEF Places, FilesHaveRows
<1>. QED
  BY <1>3, <1>4, <1>5, <1>6, <1>7 DEF Bodies

LEMMA PutRowKeeps ==
    ASSUME CacheTypeOK, Bodies, Places, NEW p \in Processes, PutRow(p)
    PROVE  Bodies' /\ Places'
<1>1. PICK k \in Keys, r \in Responses :
         /\ job[p].at = "idle" /\ proc[p] = "open"
         /\ job'[p] = [at |-> "file", key |-> k, body |-> r]
         /\ OthersStay(p)
         /\ rows'[k] # NoRow /\ rows'[k].body = r
         /\ \A x \in Keys : x # k => rows'[x] = rows[x]
         /\ UNCHANGED <<files, current, proc, lapsed>>
         /\ torn' = IF Storing(k) = {} THEN torn \ {k} ELSE torn \cup {k}
         /\ leaked' = IF Storing(k) \cup Dropping(k) = {}
                      THEN leaked \ {k} ELSE leaked
         /\ crossed' = crossed \cup Looking(k)
  BY PutRowEffect
<1>2. job'[p].at = "file" /\ job'[p].key = k /\ job'[p].body = r
  BY <1>1
<1>3. /\ OnDisk' = OnDisk /\ k \in Stored'
      /\ \A x : x # k => (x \in Stored' <=> x \in Stored)
      /\ \A x : x # k => (x \in Differing' <=> x \in Differing)
      /\ \A x : x # k => (x \in torn' <=> x \in torn) /\ (x \in leaked' <=> x \in leaked)
  BY <1>1, OnTheDisk, OnTheDiskNext
<1>4. \A q \in Processes : q # p => job'[q] = job[q]
  BY <1>1 DEF OthersStay
<1>5. DifferForReason'
  <2> SUFFICES ASSUME NEW x \in Differing', x \notin torn'
               PROVE  Mending(x)' # {}
    BY DEF DifferForReason
  <2>1. CASE x = k
    BY <1>2, <2>1 DEF Mending
  <2>2. CASE x # k
    <3>1. PICK q \in Processes : q \in Mending(x)
      BY <1>3, <2>2 DEF Bodies, DifferForReason, Mending
    <3>2. q # p
      BY <1>1, <3>1 DEF Mending
    <3>. QED
      BY <1>4, <3>1, <3>2 DEF Mending
  <2>. QED
    BY <2>1, <2>2
<1>6. StoresAgree'
  <2> SUFFICES ASSUME NEW q \in Processes, job'[q].at = "file",
                      job'[q].key \notin torn', job'[q].key \in Stored'
               PROVE  rows'[job'[q].key].body = job'[q].body
    BY DEF StoresAgree
  <2>1. CASE q = p
    BY <1>1, <1>2, <2>1
  <2>2. CASE q # p
    <3>1. job'[q] = job[q] /\ job[q].key \in Keys
      BY <1>4, <2>2, JobParts DEF CacheTypeOK
    <3>2. job[q].key # k
      BY <1>1, <3>1 DEF Storing
    <3>. QED
      BY <1>1, <1>3, <3>1, <3>2 DEF Bodies, StoresAgree
  <2>. QED
    BY <2>1, <2>2
<1>7. LookupsAgree'
  <2> SUFFICES ASSUME NEW q \in Processes, q \notin crossed'
               PROVE  LookupAgrees(q)'
    BY DEF LookupsAgree, LookupAgrees
  <2>1. CASE q = p
    BY <1>2, <2>1 DEF LookupAgrees
  <2>2. CASE q # p
    <3>1. job'[q] = job[q] /\ q \notin crossed
      BY <1>1, <1>4, <2>2
    <3>2. job[q].at \in {"read", "touch"} => job[q].key # k
      BY <1>1 DEF Looking
    <3>3. \A x : x # k /\ NobodyStores(x) => NobodyStores(x)'
      BY <1>2, <1>4 DEF NobodyStores
    <3>4. LookupAgrees(q)
      BY DEF Bodies, LookupsAgree
    <3>. QED
      BY <1>1, <1>3, <3>1, <3>2, <3>3, <3>4 DEF LookupAgrees, NobodyStores
  <2>. QED
    BY <2>1, <2>2
<1>8. StoresHaveRows'
  BY <1>2, <1>3, <1>4 DEF Places, StoresHaveRows
<1>9. DropsHaveNoFile'
  <2> SUFFICES ASSUME NEW q \in Processes, job'[q].at = "drop"
               PROVE  job'[q].key \notin OnDisk' \/ job'[q].key \in leaked'
    BY DEF DropsHaveNoFile
  <2>1. q # p /\ job'[q] = job[q]
    BY <1>2, <1>4
  <2>2. job[q].key = k => leaked' = leaked
    BY <1>1, <2>1 DEF Dropping
  <2>. QED
    BY <1>3, <2>1, <2>2 DEF Places, DropsHaveNoFile
<1>10. FilesHaveRows'
  <2>1. \A x : Walking(x) # {} => Walking(x)' # {}
    BY <1>1, <1>4 DEF Walking
  <2>. QED
    BY <1>1, <1>3, <2>1 DEF Places, FilesHaveRows
<1>. QED
  BY <1>5, <1>6, <1>7, <1>8, <1>9, <1>10 DEF Bodies, Places

LEMMA PutFileKeeps ==
    ASSUME CacheTypeOK, Bodies, Places, NEW p \in Processes, PutFile(p)
    PROVE  Bodies' /\ Places'
<1> DEFINE k == job[p].key
<1>1. /\ job[p].at = "file" /\ k \in Keys /\ job[p].body \in Responses
      /\ job'[p] = Aging /\ OthersStay(p)
      /\ files'[k] = job[p].body
      /\ \A x \in Keys : x # k => files'[x] = files[x]
      /\ leaked' = IF Dropping(k) = {} THEN leaked ELSE leaked \cup {k}
      /\ UNCHANGED <<rows, torn, crossed, lapsed, current, proc>>
  BY PutFileEffect
<1>2. job'[p].at = "age"
  BY <1>1, Jobs
<1>3. /\ Stored' = Stored
      /\ \A x : x # k => (x \in OnDisk' <=> x \in OnDisk)
      /\ \A x : x # k => (x \in Differing' <=> x \in Differing)
      /\ leaked \subseteq leaked'
  BY <1>1, OnTheDisk, OnTheDiskNext
<1>4. \A q \in Processes : q # p => job'[q] = job[q]
  BY <1>1 DEF OthersStay
<1>5. DifferForReason'
  <2> SUFFICES ASSUME NEW x \in Differing', x \notin torn'
               PROVE  Mending(x)' # {}
    BY DEF DifferForReason
  <2>1. x # k
    <3>1. k \notin torn /\ k \in Stored => rows[k].body = job[p].body
      BY <1>1 DEF Bodies, StoresAgree
    <3>. QED
      BY <1>1, <1>3, <3>1, OnTheDiskNext
  <2>2. PICK q \in Processes : q \in Mending(x)
    BY <1>1, <1>3, <2>1 DEF Bodies, DifferForReason, Mending
  <2>3. q # p
    BY <1>1, <2>1, <2>2 DEF Mending
  <2>. QED
    BY <1>4, <2>2, <2>3 DEF Mending
<1>6. StoresAgree'
  BY <1>1, <1>2, <1>3, <1>4 DEF Bodies, StoresAgree
<1>7. LookupsAgree'
  <2> SUFFICES ASSUME NEW q \in Processes, q \notin crossed'
               PROVE  LookupAgrees(q)'
    BY DEF LookupsAgree, LookupAgrees
  <2>1. CASE q = p
    BY <1>2, <2>1 DEF LookupAgrees
  <2>2. CASE q # p
    <3>1. job'[q] = job[q] /\ q \notin crossed
      BY <1>1, <1>4, <2>2
    <3>2. \A x : NobodyStores(x) => NobodyStores(x)'
      BY <1>2, <1>4 DEF NobodyStores
    <3>3. ~NobodyStores(k)
      BY <1>1 DEF NobodyStores
    <3>4. job[q].at = "read" => job[q].key \in Keys
      BY JobParts DEF CacheTypeOK
    <3>5. LookupAgrees(q)
      BY DEF Bodies, LookupsAgree
    <3>6. job[q].at = "read" /\ job[q].key \notin torn => job[q].key # k
      BY <3>1, <3>3, <3>5 DEF LookupAgrees
    <3> HIDE DEF k
    <3>. QED
      BY <1>1, <1>3, <3>1, <3>2, <3>4, <3>5, <3>6 DEF LookupAgrees, NobodyStores
  <2>. QED
    BY <2>1, <2>2
<1>8. StoresHaveRows'
  BY <1>2, <1>3, <1>4 DEF Places, StoresHaveRows
<1>9. DropsHaveNoFile'
  <2> SUFFICES ASSUME NEW q \in Processes, job'[q].at = "drop"
               PROVE  job'[q].key \notin OnDisk' \/ job'[q].key \in leaked'
    BY DEF DropsHaveNoFile
  <2>1. q # p /\ job'[q] = job[q]
    BY <1>2, <1>4
  <2>2. job[q].key = k => k \in leaked'
    BY <1>1, <2>1 DEF Dropping
  <2>. QED
    BY <1>3, <2>1, <2>2 DEF Places, DropsHaveNoFile
<1>10. FilesHaveRows'
  <2>1. \A x : Walking(x) # {} => Walking(x)' # {}
    BY <1>1, <1>4 DEF Walking
  <2>2. k \in Stored \cup leaked
    BY <1>1 DEF Places, StoresHaveRows
  <2> HIDE DEF k
  <2>. QED
    BY <1>1, <1>3, <2>1, <2>2 DEF Places, FilesHaveRows
<1>. QED
  BY <1>5, <1>6, <1>7, <1>8, <1>9, <1>10 DEF Bodies, Places

(* The store ends without its file: written elsewhere, or not at all.       *)
LEMMA PutLostKeeps ==
    ASSUME CacheTypeOK, Bodies, Places, NEW p \in Processes,
           PutAstray(p) \/ PutFails(p)
    PROVE  Bodies' /\ Places'
<1> DEFINE k == job[p].key
<1>1. /\ job[p].at = "file" /\ k \in Keys /\ OthersStay(p)
      /\ \/ torn' = torn \cup {k} /\ job'[p] = Aging
         \/ torn' = torn /\ job'[p] = Deleting({k}, Idle)
      /\ UNCHANGED <<rows, files, leaked, crossed, current>>
  <2>1. job[p].at = "file" /\ k \in Keys
    BY JobParts DEF PutAstray, PutFails, CacheTypeOK
  <2>2. CASE PutAstray(p)
    BY <2>1, <2>2, BecomeEffect DEF PutAstray, Keep, CacheTypeOK, OthersStay
  <2>3. CASE PutFails(p)
    BY <2>1, <2>3, BecomeEffect
    DEF PutFails, Keep, CacheTypeOK, OthersStay, histories
  <2>. QED
    BY <2>2, <2>3
<1>2. /\ job'[p].at \in {"age", "unlink"}
      /\ torn' = torn \cup {k} \/ (job'[p].at = "unlink" /\ job'[p].todo = {k})
  BY <1>1, Jobs
<1>3. /\ Stored' = Stored /\ OnDisk' = OnDisk /\ Differing' = Differing
      /\ torn \subseteq torn'
  BY <1>1, OnTheDisk, OnTheDiskNext
<1>4. \A q \in Processes : q # p => job'[q] = job[q]
  BY <1>1 DEF OthersStay
<1>5. DifferForReason'
  <2> SUFFICES ASSUME NEW x \in Differing, x \notin torn'
               PROVE  Mending(x)' # {}
    BY <1>3 DEF DifferForReason
  <2>1. PICK q \in Processes : q \in Mending(x)
    BY <1>3 DEF Bodies, DifferForReason, Mending
  <2>2. CASE q = p
    <3>1. x = k
      BY <1>1, <2>1, <2>2 DEF Mending
    <3>2. job'[p].at = "unlink" /\ job'[p].todo = {k}
      BY <1>2, <3>1
    <3>. QED
      BY <3>1, <3>2 DEF Mending
  <2>3. CASE q # p
    BY <1>4, <2>1, <2>3 DEF Mending
  <2>. QED
    BY <2>2, <2>3
<1>6. StoresAgree'
  BY <1>1, <1>2, <1>3, <1>4 DEF Bodies, StoresAgree
<1>7. LookupsAgree'
  <2>1. \A x : NobodyStores(x) => NobodyStores(x)'
    BY <1>2, <1>4 DEF NobodyStores
  <2>. QED
    BY <1>1, <1>2, <1>3, <1>4, <2>1
    DEF Bodies, LookupsAgree, LookupAgrees, NobodyStores
<1>8. StoresHaveRows' /\ DropsHaveNoFile'
  BY <1>1, <1>2, <1>3, <1>4 DEF Places, StoresHaveRows, DropsHaveNoFile
<1>9. FilesHaveRows'
  <2>1. \A x : Walking(x) # {} => Walking(x)' # {}
    BY <1>1, <1>4 DEF Walking
  <2>. QED
    BY <1>1, <1>3, <2>1 DEF Places, FilesHaveRows
<1>. QED
  BY <1>5, <1>6, <1>7, <1>8, <1>9 DEF Bodies, Places

LEMMA UnlinkKeeps ==
    ASSUME CacheTypeOK, Bodies, Places, NEW p \in Processes, Unlink(p)
    PROVE  Bodies' /\ Places'
<1>1. PICK k \in Keys :
         /\ job[p].at = "unlink" /\ k \in job[p].todo
         /\ job'[p].at = "drop" /\ job'[p].key = k
         /\ OthersStay(p)
         /\ \A x \in Keys : x # k => files'[x] = files[x]
         /\ \/ files'[k] = NoBody /\ UNCHANGED <<torn, leaked>>
            \/ /\ files'[k] = files[k]
               /\ torn' = torn \cup {k} /\ leaked' = leaked \cup {k}
         /\ UNCHANGED <<rows, crossed, current>>
  BY UnlinkEffect
<1>2. \A q \in Processes : q # p => job'[q] = job[q]
  BY <1>1 DEF OthersStay
<1>3. /\ Stored' = Stored
      /\ \A x : x \in OnDisk' => x \in OnDisk /\ files'[x] = files[x]
      /\ \A x : x \in Differing' => x \in Differing
      /\ k \in OnDisk' => k \in torn' /\ k \in leaked'
      /\ torn \subseteq torn' /\ leaked \subseteq leaked'
  BY <1>1, OnTheDisk, OnTheDiskNext
<1>4. DifferForReason'
  <2> SUFFICES ASSUME NEW x \in Differing', x \notin torn'
               PROVE  Mending(x)' # {}
    BY DEF DifferForReason
  <2>1. x # k /\ x \in Differing /\ x \notin torn
    BY <1>3, OnTheDiskNext
  <2>2. PICK q \in Processes : q \in Mending(x)
    BY <2>1 DEF Bodies, DifferForReason, Mending
  <2>3. q # p
    BY <1>1, <2>1, <2>2 DEF Mending
  <2>. QED
    BY <1>2, <2>2, <2>3 DEF Mending
<1>5. StoresAgree'
  BY <1>1, <1>2, <1>3 DEF Bodies, StoresAgree
<1>6. LookupsAgree'
  BY <1>1, <1>2, <1>3 DEF Bodies, LookupsAgree, LookupAgrees, NobodyStores
<1>7. StoresHaveRows'
  BY <1>1, <1>2, <1>3 DEF Places, StoresHaveRows
<1>8. DropsHaveNoFile'
  BY <1>1, <1>2, <1>3 DEF Places, DropsHaveNoFile
<1>9. FilesHaveRows'
  <2>1. \A x : Walking(x) # {} => Walking(x)' # {}
    BY <1>1, <1>2 DEF Walking
  <2>. QED
    BY <1>1, <1>3, <2>1 DEF Places, FilesHaveRows
<1>. QED
  BY <1>4, <1>5, <1>6, <1>7, <1>8, <1>9 DEF Bodies, Places

(* A row that goes takes no file with it that is not leaked.                *)
LEMMA DropRowKeeps ==
    ASSUME CacheTypeOK, Bodies, Places, NEW p \in Processes, DropRow(p)
    PROVE  Bodies' /\ Places'
<1> DEFINE k == job[p].key
<1>1. /\ job[p].at = "drop" /\ k \in Keys
      /\ OthersStay(p) /\ job'[p].at \in {"idle", "cap", "unlink"}
      /\ \A x \in Keys : x # k => rows'[x] = rows[x]
      /\ \/ UNCHANGED <<rows, leaked>>
         \/ rows'[k] = NoRow /\ leaked' = leaked \cup Stranded({k})
      /\ UNCHANGED <<files, torn, crossed, current>>
  BY DropRowEffect
<1>2. \A q \in Processes : q # p => job'[q] = job[q]
  BY <1>1 DEF OthersStay
<1>3. /\ OnDisk' = OnDisk
      /\ \A x : x \in Stored' => x \in Stored /\ rows'[x] = rows[x]
      /\ \A x : x \in Differing' => x \in Differing
      /\ \A x : x # k /\ x \in Stored => x \in Stored'
      /\ leaked \subseteq leaked'
      /\ k \in Stored' \cup leaked' \/ Storing(k) = {} \/ k \notin Stored \cup leaked
  BY <1>1, OnTheDisk, OnTheDiskNext DEF Stranded
<1>4. DifferForReason'
  BY <1>1, <1>2, <1>3 DEF Bodies, DifferForReason, Mending
<1>5. StoresAgree'
  BY <1>1, <1>2, <1>3 DEF Bodies, StoresAgree
<1>6. LookupsAgree'
  BY <1>1, <1>2, <1>3 DEF Bodies, LookupsAgree, LookupAgrees, NobodyStores
<1>7. StoresHaveRows'
  <2> SUFFICES ASSUME NEW q \in Processes, job'[q].at = "file"
               PROVE  job'[q].key \in Stored' \cup leaked'
    BY DEF StoresHaveRows
  <2>1. q # p /\ job'[q] = job[q]
    BY <1>1, <1>2
  <2>2. job[q].key \in Stored \cup leaked /\ Storing(job[q].key) # {}
    BY <2>1 DEF Places, StoresHaveRows, Storing
  <2>. QED
    BY <1>3, <2>1, <2>2
<1>8. DropsHaveNoFile'
  BY <1>1, <1>2, <1>3 DEF Places, DropsHaveNoFile
<1>9. FilesHaveRows'
  <2>1. \A x : Walking(x) # {} => Walking(x)' # {}
    BY <1>1, <1>2 DEF Walking
  <2>2. k \in OnDisk => k \in leaked
    BY <1>1 DEF Places, DropsHaveNoFile
  <2> HIDE DEF k
  <2>. QED
    BY <1>1, <1>3, <2>1, <2>2 DEF Places, FilesHaveRows
<1>. QED
  BY <1>4, <1>5, <1>6, <1>7, <1>8, <1>9 DEF Bodies, Places

LEMMA DropAllKeeps ==
    ASSUME CacheTypeOK, Bodies, Places, NEW p \in Processes,
           Clear(p) \/ Upgrade(p)
    PROVE  Bodies' /\ Places'
<1>1. PICK n \in {Idle, Version} :
         /\ job'[p] = [at |-> "rmrf", todo |-> OnDisk, next |-> n]
         /\ OthersStay(p)
         /\ job[p] = Idle \/ job[p].at = "upgrade"
         /\ \/ UNCHANGED <<rows, leaked>>
            \/ /\ \A x \in Keys : rows'[x] = NoRow
               /\ leaked' = leaked \cup Stranded(Keys)
         /\ UNCHANGED <<files, torn, crossed, current>>
  BY DropAllEffect
<1>2. \A q \in Processes : q # p => job'[q] = job[q]
  BY <1>1 DEF OthersStay
<1>3. /\ job'[p].at = "rmrf" /\ job'[p].todo = OnDisk
      /\ job[p].at \in {"idle", "upgrade"}
  BY <1>1, Jobs
<1>4. /\ OnDisk' = OnDisk
      /\ \A x : x \in Stored' => x \in Stored /\ rows'[x] = rows[x]
      /\ \A x : x \in Differing' => x \in Differing
      /\ leaked \subseteq leaked'
  BY <1>1, OnTheDisk, OnTheDiskNext
<1>5. DifferForReason'
  BY <1>1, <1>2, <1>3, <1>4 DEF Bodies, DifferForReason, Mending
<1>6. StoresAgree'
  BY <1>1, <1>2, <1>3, <1>4 DEF Bodies, StoresAgree
<1>7. LookupsAgree'
  BY <1>1, <1>2, <1>3, <1>4
  DEF Bodies, LookupsAgree, LookupAgrees, NobodyStores
<1>8. StoresHaveRows'
  <2> SUFFICES ASSUME NEW q \in Processes, job'[q].at = "file"
               PROVE  job'[q].key \in Stored' \cup leaked'
    BY DEF StoresHaveRows
  <2>1. q # p /\ job'[q] = job[q]
    BY <1>2, <1>3
  <2>2. /\ job[q].key \in Stored \cup leaked /\ Storing(job[q].key) # {}
        /\ job[q].key \in Keys
    BY <2>1, JobParts DEF Places, StoresHaveRows, Storing, CacheTypeOK
  <2>3. \/ Stored' = Stored
        \/ job[q].key \in leaked'
    BY <1>1, <2>2, OnTheDisk, OnTheDiskNext DEF Stranded
  <2>. QED
    BY <1>4, <2>1, <2>2, <2>3
<1>9. DropsHaveNoFile'
  BY <1>1, <1>2, <1>3, <1>4 DEF Places, DropsHaveNoFile
<1>10. FilesHaveRows'
  BY <1>3, <1>4 DEF FilesHaveRows, Walking
<1>. QED
  BY <1>5, <1>6, <1>7, <1>8, <1>9, <1>10 DEF Bodies, Places

LEMMA RemoveKeeps ==
    ASSUME CacheTypeOK, Bodies, Places, NEW p \in Processes, Remove(p)
    PROVE  Bodies' /\ Places'
<1>1. PICK k \in Keys :
         /\ job[p].at = "rmrf" /\ job'[p].at = "rmrf"
         /\ job'[p].todo = job[p].todo \ {k}
         /\ OthersStay(p)
         /\ \A x \in Keys : x # k => files'[x] = files[x]
         /\ \/ files'[k] = NoBody /\ UNCHANGED leaked
            \/ files'[k] = files[k] /\ leaked' = leaked \cup {k}
         /\ UNCHANGED <<rows, torn, crossed, current>>
  BY RemoveEffect
<1>2. \A q \in Processes : q # p => job'[q] = job[q]
  BY <1>1 DEF OthersStay
<1>3. /\ Stored' = Stored
      /\ \A x : x \in OnDisk' => x \in OnDisk /\ files'[x] = files[x]
      /\ \A x : x \in Differing' => x \in Differing
      /\ k \in OnDisk' => k \in leaked'
      /\ leaked \subseteq leaked'
  BY <1>1, OnTheDisk, OnTheDiskNext
<1>4. DifferForReason'
  BY <1>1, <1>2, <1>3 DEF Bodies, DifferForReason, Mending
<1>5. StoresAgree'
  BY <1>1, <1>2, <1>3 DEF Bodies, StoresAgree
<1>6. LookupsAgree'
  BY <1>1, <1>2, <1>3 DEF Bodies, LookupsAgree, LookupAgrees, NobodyStores
<1>7. StoresHaveRows' /\ DropsHaveNoFile'
  BY <1>1, <1>2, <1>3 DEF Places, StoresHaveRows, DropsHaveNoFile
<1>8. FilesHaveRows'
  <2>1. \A x : x # k /\ Walking(x) # {} => Walking(x)' # {}
    BY <1>1, <1>2 DEF Walking
  <2>. QED
    BY <1>1, <1>3, <2>1 DEF Places, FilesHaveRows
<1>. QED
  BY <1>4, <1>5, <1>6, <1>7, <1>8 DEF Bodies, Places

LEMMA GetRowKeeps ==
    ASSUME CacheTypeOK, Bodies, Places, NEW p \in Processes, GetRow(p)
    PROVE  Bodies' /\ Places'
<1>1. PICK q \in Requests, k \in Stored :
         /\ Become(p, [at |-> "read", key |-> k, head |-> rows[k].body,
                       expires |-> rows[k].expires, request |-> q])
         /\ crossed' = IF Changing(k) = {} THEN crossed ELSE crossed \cup {p}
  BY DEF GetRow
<1>2. /\ UNCHANGED <<rows, files, torn, leaked, current>>
      /\ job[p].at = "idle"
  BY Jobs DEF GetRow, Keep, Free
<1>3. /\ job'[p] = [at |-> "read", key |-> k, head |-> rows[k].body,
                    expires |-> rows[k].expires, request |-> q]
      /\ \A s \in Processes : s # p => job'[s] = job[s]
  BY <1>1, BecomeEffect DEF CacheTypeOK
<1>4. job'[p].at = "read" /\ job'[p].key = k /\ job'[p].head = rows[k].body
  BY <1>3
<1>5. Stored' = Stored /\ OnDisk' = OnDisk /\ Differing' = Differing
  BY <1>2, OnTheDisk, OnTheDiskNext
<1>6. DifferForReason'
  BY <1>2, <1>3, <1>4, <1>5 DEF Bodies, DifferForReason, Mending
<1>7. StoresAgree'
  BY <1>2, <1>3, <1>4, <1>5 DEF Bodies, StoresAgree
<1>8. LookupsAgree'
  <2>1. \A x : NobodyStores(x) => NobodyStores(x)'
    BY <1>3, <1>4 DEF NobodyStores
  <2> SUFFICES ASSUME NEW s \in Processes, s \notin crossed'
               PROVE  LookupAgrees(s)'
    BY DEF LookupsAgree, LookupAgrees
  <2>2. CASE s = p
    <3>1. Changing(k) = {}
      BY <1>1, <2>2
    <3>2. Mending(k) = {} /\ NobodyStores(k)
      BY <3>1 DEF Changing, Storing, Mending, NobodyStores
    <3>3. k \notin Differing \/ k \in torn
      BY <3>2 DEF Bodies, DifferForReason
    <3>4. k \in OnDisk /\ k \notin torn => files[k] = rows[k].body
      BY <3>3 DEF Differing
    <3>. QED
      BY <1>2, <1>4, <1>5, <2>1, <2>2, <3>2, <3>4 DEF LookupAgrees, NobodyStores
  <2>3. CASE s # p
    <3>1. LookupAgrees(s) /\ s \notin crossed
      BY <1>1 DEF Bodies, LookupsAgree
    <3>. QED
      BY <1>2, <1>3, <1>5, <2>1, <2>3, <3>1 DEF LookupAgrees, NobodyStores
  <2>. QED
    BY <2>2, <2>3
<1>9. StoresHaveRows' /\ DropsHaveNoFile'
  BY <1>2, <1>3, <1>4, <1>5 DEF Places, StoresHaveRows, DropsHaveNoFile
<1>10. FilesHaveRows'
  <2>1. \A x : Walking(x) # {} => Walking(x)' # {}
    BY <1>2, <1>3 DEF Walking
  <2>. QED
    BY <1>2, <1>5, <2>1 DEF Places, FilesHaveRows
<1>. QED
  BY <1>6, <1>7, <1>8, <1>9, <1>10 DEF Bodies, Places

LEMMA GetFileKeeps ==
    ASSUME CacheTypeOK, Bodies, Places, NEW p \in Processes, GetFile(p)
    PROVE  Bodies' /\ Places'
<1> DEFINE k == job[p].key
<1>1. /\ UNCHANGED <<rows, files, torn, leaked, current>>
      /\ job[p].at = "read" /\ k \in Keys
      /\ ProcessTypes
  BY JobParts DEF GetFile, Keep, CacheTypeOK
<1>2. CASE /\ k \in OnDisk
           /\ Become(p, [at |-> "touch", key |-> k, head |-> job[p].head,
                         expires |-> job[p].expires, request |-> job[p].request,
                         body |-> files[k]])
           /\ UNCHANGED crossed
  <2>1. /\ job'[p] = [at |-> "touch", key |-> k, head |-> job[p].head,
                      expires |-> job[p].expires, request |-> job[p].request,
                      body |-> files[k]]
        /\ \A s \in Processes : s # p => job'[s] = job[s]
    BY <1>1, <1>2, BecomeEffect
  <2>2. /\ job'[p].at = "touch" /\ job'[p].key = k
        /\ job'[p].head = job[p].head /\ job'[p].body = files[k]
    BY <2>1
  <2>3. Stored' = Stored /\ OnDisk' = OnDisk /\ Differing' = Differing
    BY <1>1, OnTheDisk, OnTheDiskNext
  <2>4. DifferForReason'
    BY <1>1, <2>1, <2>2, <2>3 DEF Bodies, DifferForReason, Mending
  <2>5. StoresAgree'
    BY <1>1, <2>1, <2>2, <2>3 DEF Bodies, StoresAgree
  <2>6. LookupsAgree'
    <3>1. \A x : NobodyStores(x) => NobodyStores(x)'
      BY <2>1, <2>2 DEF NobodyStores
    <3> SUFFICES ASSUME NEW s \in Processes, s \notin crossed'
                 PROVE  LookupAgrees(s)'
      BY DEF LookupsAgree, LookupAgrees
    <3>2. LookupAgrees(s) /\ s \notin crossed
      BY <1>2 DEF Bodies, LookupsAgree
    <3>3. CASE s = p
      BY <1>1, <1>2, <2>2, <3>2, <3>3 DEF LookupAgrees
    <3>4. CASE s # p
      BY <1>1, <2>1, <2>3, <3>1, <3>2, <3>4 DEF LookupAgrees, NobodyStores
    <3>. QED
      BY <3>3, <3>4
  <2>7. StoresHaveRows' /\ DropsHaveNoFile'
    BY <1>1, <2>1, <2>2, <2>3 DEF Places, StoresHaveRows, DropsHaveNoFile
  <2>8. FilesHaveRows'
    <3>1. \A x : Walking(x) # {} => Walking(x)' # {}
      BY <1>1, <2>1 DEF Walking
    <3>. QED
      BY <1>1, <2>3, <3>1 DEF Places, FilesHaveRows
  <2>. QED
    BY <2>4, <2>5, <2>6, <2>7, <2>8 DEF Bodies, Places
<1>3. CASE Become(p, Deleting({k}, Idle)) /\ crossed' = crossed \ {p}
  <2>1. job'[p] = Deleting({k}, Idle) /\ OthersStay(p)
    BY <1>1, <1>3, BecomeEffect DEF OthersStay
  <2>2. job'[p].at = "unlink"
    BY <2>1, Jobs
  <2>. QED
    BY <1>1, <1>3, <2>1, <2>2, QuietStep DEF QuietBefore, Places
<1>. QED
  BY <1>2, <1>3 DEF GetFile

LEMMA EndKeeps ==
    ASSUME CacheTypeOK, Bodies, Places, NEW p \in Processes, End(p)
    PROVE  Bodies' /\ Places'
<1>1. /\ job'[p] = Idle /\ OthersStay(p)
      /\ torn' = torn \cup {k \in Differing : p \in Changing(k)}
      /\ leaked' = IF job[p].at = "rmrf" /\ (current \/ job[p].next = Idle)
                   THEN leaked \cup job[p].todo ELSE leaked
      /\ crossed' = crossed \ {p}
      /\ UNCHANGED <<rows, files, current>>
  BY EndEffect
<1>2. \A q \in Processes : q # p => job'[q] = job[q]
  BY <1>1 DEF OthersStay
<1>3. /\ Stored' = Stored /\ OnDisk' = OnDisk /\ Differing' = Differing
      /\ job'[p].at = "idle" /\ torn \subseteq torn' /\ leaked \subseteq leaked'
  <2>1. Stored' = Stored /\ OnDisk' = OnDisk /\ Differing' = Differing
    BY <1>1 DEF Stored, OnDisk, Differing
  <2>2. torn \subseteq torn' /\ leaked \subseteq leaked'
    BY <1>1
  <2>. QED
    BY <1>1, <2>1, <2>2, Jobs
<1>4. DifferForReason'
  <2> SUFFICES ASSUME NEW x \in Differing, x \notin torn'
               PROVE  Mending(x)' # {}
    BY <1>3 DEF DifferForReason
  <2>1. PICK q \in Processes : q \in Mending(x)
    BY <1>3 DEF Bodies, DifferForReason, Mending
  <2>2. q # p
    <3>1. p \in Mending(x) => p \in Changing(x)
      BY DEF Mending, Changing, Storing
    <3>. QED
      BY <1>1, <2>1, <3>1
  <2>. QED
    BY <1>2, <2>1, <2>2 DEF Mending
<1>5. StoresAgree'
  BY <1>1, <1>2, <1>3 DEF Bodies, StoresAgree
<1>6. LookupsAgree'
  BY <1>1, <1>2, <1>3 DEF Bodies, LookupsAgree, LookupAgrees, NobodyStores
<1>7. StoresHaveRows' /\ DropsHaveNoFile'
  BY <1>1, <1>2, <1>3 DEF Places, StoresHaveRows, DropsHaveNoFile
<1>8. FilesHaveRows'
  <2> SUFFICES ASSUME current, NEW x \in OnDisk
               PROVE  x \in Stored' \cup leaked' \/ Walking(x)' # {}
    BY <1>1, <1>3 DEF FilesHaveRows
  <2>1. CASE x \in Stored \cup leaked
    BY <1>3, <2>1
  <2>2. CASE x \notin Stored \cup leaked
    <3>1. PICK q \in Processes : job[q].at = "rmrf" /\ x \in job[q].todo
      BY <2>2 DEF Places, FilesHaveRows, Walking
    <3>. QED
      BY <1>1, <1>2, <3>1 DEF Walking
  <2>. QED
    BY <2>1, <2>2
<1>. QED
  BY <1>4, <1>5, <1>6, <1>7, <1>8 DEF Bodies, Places

(* The other steps of a process are quiet.                                  *)
LEMMA QuietKeeps ==
    ASSUME CacheTypeOK, Bodies, Places, NEW p \in Processes,
           \/ Evict(p) \/ Touch(p) \/ Promotion(p) \/ Removed(p)
           \/ CacheStart(p) \/ StartFails(p) \/ SetVersion(p)
    PROVE  /\ Bodies' /\ StoresHaveRows' /\ DropsHaveNoFile'
           /\ UNCHANGED current => FilesHaveRows'
<1>1. ProcessTypes
  BY DEF CacheTypeOK
<1>2. QuietBefore(p)
  BY <1>1, Jobs
  DEF ProcessTypes, QuietBefore, Evict, EvictNothing, EvictAged, EvictOver, Touch,
      Promotion, Promote, Promoted, Free, Removed, CacheStart, StartFails, SetVersion
<1>3. /\ UNCHANGED <<files, torn, leaked>> /\ crossed \subseteq crossed' \cup {p}
  BY DEF Evict, EvictNothing, EvictAged, EvictOver, Touch, Promotion, Promote,
         Promoted, Removed, CacheStart, StartFails, SetVersion, disk, histories
<1>4. \A x \in Keys : \/ rows'[x] = rows[x]
                      \/ /\ x \in Stored /\ rows'[x] \in Rows
                         /\ rows'[x].body = rows[x].body
  <2>1. CASE Touch(p) \/ Promoted(p)
    BY <2>1, Refreshed
  <2>2. CASE ~(Touch(p) \/ Promoted(p))
    BY <2>2
    DEF Evict, EvictNothing, EvictAged, EvictOver, Promotion, Promote, Removed,
        CacheStart, StartFails, SetVersion, disk
  <2>. QED
    BY <2>1, <2>2
<1>5. /\ OthersStay(p)
      /\ job'[p].at \notin {"file", "drop", "read", "touch"}
  <2>1. CASE Evict(p)
    <3>1. CASE EvictNothing(p)
      BY <1>1, <3>1, BecomeEffect, Jobs DEF EvictNothing, OthersStay
    <3>2. CASE ~EvictNothing(p)
      <4>1. PICK S \in SUBSET Stored, n \in {Idle, Capping} :
               Become(p, Deleting(S, n))
        BY <1>1, <2>1, <3>2, EvictSteps
      <4>2. Deleting(S, n).at \in {"idle", "cap", "unlink"}
        BY Jobs
      <4>. QED
        BY <1>1, <4>1, <4>2, BecomeEffect DEF OthersStay
    <3>. QED
      BY <3>1, <3>2
  <2>2. CASE Promote(p)
    BY <1>1, <2>2, BecomeEffect DEF Promote, OthersStay
  <2>3. CASE \E j \in {Idle, Aging, Upgrading, Version} : Become(p, j)
    BY <1>1, <2>3, BecomeEffect, Jobs DEF OthersStay
  <2>4. CASE ~Evict(p) /\ ~Promote(p)
    <3>1. \E j \in {Idle, Aging, Upgrading, Version} : Become(p, j)
      BY <1>1, <2>4, JobParts
      DEF Touch, Promotion, Promoted, Removed, CacheStart, StartFails, SetVersion
    <3>. QED
      BY <2>3, <3>1
  <2>. QED
    BY <2>1, <2>2, <2>4
<1>. QED
  BY <1>2, <1>3, <1>4, <1>5, QuietStep

LEMMA StillKeeps ==
    ASSUME CacheTypeOK, Bodies, Places, UNCHANGED <<disk, job, histories>>
    PROVE  Bodies' /\ Places'
BY OnTheDisk, OnTheDiskNext
DEF disk, histories, Stored, OnDisk, Differing, Mending, Walking, NobodyStores,
    LookupAgrees, Bodies, DifferForReason, StoresAgree, LookupsAgree, Places,
    StoresHaveRows, DropsHaveNoFile, FilesHaveRows

(* The files of another version are gone when the version is set.           *)
LEMMA SetVersionKeeps ==
    ASSUME CacheTypeOK, Bodies, Places, Versions, NEW p \in Processes, SetVersion(p)
    PROVE  Bodies' /\ Places'
<1>1. Bodies' /\ StoresHaveRows' /\ DropsHaveNoFile'
  BY QuietKeeps
<1>2. /\ UNCHANGED <<rows, files, leaked>>
      /\ job[p].at = "version"
      /\ \A q \in Processes : q # p => job'[q] = job[q]
  BY BecomeEffect DEF SetVersion, CacheTypeOK, histories
<1>3. FilesHaveRows'
  <2>1. Stored' = Stored /\ OnDisk' = OnDisk
    BY <1>2 DEF Stored, OnDisk
  <2>2. CASE current
    <3>1. \A x : Walking(x) # {} => Walking(x)' # {}
      BY <1>2 DEF Walking
    <3>. QED
      BY <1>2, <2>1, <2>2, <3>1 DEF Places, FilesHaveRows
  <2>3. CASE ~current
    BY <1>2, <2>1, <2>3 DEF Versions, UpgradeIsClean, FilesHaveRows
  <2>. QED
    BY <2>2, <2>3
<1>. QED
  BY <1>1, <1>3 DEF Places

LEMMA EntriesKept ==
    ASSUME CacheTypeOK, Bodies, Places, Versions, [CacheNext]_cacheVars
    PROVE  Bodies' /\ Places'
<1>1. CASE SetClock \/ UNCHANGED cacheVars
  BY <1>1, StillKeeps DEF SetClock, cacheVars
<1>2. ASSUME NEW p \in Processes,
             Put(p) \/ Evict(p) \/ Delete(p) \/ Get(p) \/ Promotion(p)
      PROVE  Bodies' /\ Places'
  <2>1. UNCHANGED current
    BY <1>2, Working DEF Versions
  <2>. QED
    BY <1>2, <2>1, PutRowKeeps, PutFileKeeps, PutLostKeeps, UnlinkKeeps,
       DropRowKeeps, GetRowKeeps, GetFileKeeps, QuietKeeps
    DEF Put, Delete, Get, Places
<1>3. ASSUME NEW p \in Processes, Clearing(p) PROVE Bodies' /\ Places'
  <2>1. Removed(p) => UNCHANGED current
    BY DEF Removed, Keep
  <2>. QED
    BY <1>3, <2>1, DropAllKeeps, RemoveKeeps, QuietKeeps DEF Clearing, Places
<1>4. ASSUME NEW p \in Processes, Life(p) PROVE Bodies' /\ Places'
  <2>1. CASE CacheStart(p) \/ StartFails(p)
    <3>1. UNCHANGED current
      BY <2>1 DEF CacheStart, StartFails, disk
    <3>. QED
      BY <2>1, <3>1, QuietKeeps DEF Places
  <2>2. CASE Started(p) \/ Shutdown(p)
    BY <2>2, StillKeeps DEF Started, Shutdown
  <2>. QED
    BY <1>4, <2>1, <2>2, DropAllKeeps, SetVersionKeeps, EndKeeps DEF Life
<1>. QED
  BY <1>1, <1>2, <1>3, <1>4 DEF CacheNext

LEMMA WalksKept ==
    ASSUME CacheTypeOK, Versions, NEW p \in Processes, Clearing(p) \/ Upgrade(p)
    PROVE  Versions'
<1> SUFFICES ASSUME ~current' PROVE UpgradeIsClean' /\ NotYet'
  BY DEF Versions, UpgradeIsClean, NotYet
<1>1. ProcessTypes /\ ~current /\ UNCHANGED proc
  BY DEF CacheTypeOK, Clearing, Clear, Remove, Removed, Upgrade, Keep
<1>2. Idle # Version /\ Idle.at = "idle" /\ Version.at = "version"
  BY Jobs
<1>3. CASE Clear(p) \/ Upgrade(p)
  <2>1. PICK n \in {Idle, Version} :
           /\ job'[p] = [at |-> "rmrf", todo |-> OnDisk, next |-> n]
           /\ OthersStay(p)
           /\ \/ n = Idle /\ job[p] = Idle /\ proc[p] \in {"open", "failed"}
              \/ n = Version /\ job[p].at = "upgrade"
           /\ leaked \subseteq leaked' /\ UNCHANGED files
    <3>1. PICK n \in {Idle, Version} :
             /\ job'[p] = [at |-> "rmrf", todo |-> OnDisk, next |-> n]
             /\ OthersStay(p)
             /\ \/ n = Idle /\ job[p] = Idle /\ proc[p] \in {"open", "failed"}
                \/ n = Version /\ job[p].at = "upgrade"
             /\ leaked' = leaked \/ leaked' = leaked \cup Stranded(Keys)
             /\ UNCHANGED files
      BY <1>3, DropAllEffect
    <3>. QED
      BY <3>1
  <2>2. /\ job'[p].at = "rmrf" /\ job'[p].todo = OnDisk /\ job'[p].next = n
        /\ OnDisk' = OnDisk
        /\ \A q \in Processes : q # p => job'[q] = job[q]
    BY <2>1 DEF OnDisk, OthersStay
  <2>3. UpgradeIsClean'
    BY <1>1, <2>1, <2>2 DEF Versions, UpgradeIsClean
  <2>4. NotYet'
    BY <1>1, <1>2, <2>1, <2>2 DEF Versions, NotYet
  <2>. QED
    BY <2>3, <2>4
<1>4. CASE Remove(p)
  <2>1. PICK k \in Keys :
           /\ job[p].at = "rmrf" /\ job'[p].at = "rmrf"
           /\ job'[p].todo = job[p].todo \ {k} /\ job'[p].next = job[p].next
           /\ OthersStay(p)
           /\ \A x \in Keys : x # k => files'[x] = files[x]
           /\ \/ files'[k] = NoBody /\ UNCHANGED leaked
              \/ files'[k] = files[k] /\ leaked' = leaked \cup {k}
    BY <1>4, RemoveEffect
  <2>2. /\ \A x : x \in OnDisk' => x \in OnDisk
        /\ k \in OnDisk' => k \in leaked'
        /\ leaked \subseteq leaked'
        /\ \A q \in Processes : q # p => job'[q] = job[q]
    BY <2>1, OnTheDisk, OnTheDiskNext DEF OthersStay
  <2>3. UpgradeIsClean'
    BY <1>1, <2>1, <2>2 DEF Versions, UpgradeIsClean
  <2>4. NotYet'
    <3>1. job[p].at = "rmrf" => job[p] # Idle
      BY <1>2
    <3>. QED
      BY <1>1, <2>1, <2>2, <3>1 DEF Versions, NotYet
  <2>. QED
    BY <2>3, <2>4
<1>5. CASE Removed(p)
  <2>1. /\ job[p].at = "rmrf" /\ job[p].todo = {} /\ job'[p] = job[p].next
        /\ job[p].next \in {Idle, Version}
        /\ UNCHANGED <<files, leaked>>
        /\ \A q \in Processes : q # p => job'[q] = job[q]
    BY <1>1, <1>5, BecomeEffect, JobParts DEF Removed, histories
  <2>2. OnDisk' = OnDisk
    BY <2>1 DEF OnDisk
  <2>3. UpgradeIsClean'
    BY <1>1, <1>2, <2>1, <2>2 DEF Versions, UpgradeIsClean
  <2>4. NotYet'
    BY <1>1, <1>2, <2>1 DEF Versions, NotYet
  <2>. QED
    BY <2>3, <2>4
<1>. QED
  BY <1>3, <1>4, <1>5 DEF Clearing

LEMMA LifeVersions ==
    ASSUME CacheTypeOK, Versions, NEW p \in Processes, Life(p), ~Upgrade(p)
    PROVE  Versions'
<1> SUFFICES ASSUME ~current' PROVE UpgradeIsClean' /\ NotYet'
  BY DEF Versions, UpgradeIsClean, NotYet
<1>1. ProcessTypes /\ ~current /\ ~SetVersion(p)
  BY DEF CacheTypeOK, Life, CacheStart, SetVersion, Started, StartFails, Shutdown,
         End, disk
<1>2. Idle.at = "idle" /\ Upgrading.at = "upgrade" /\ Idle # Version
  BY Jobs
<1>3. ~Started(p) /\ ~Shutdown(p)
  BY <1>1, <1>2 DEF Started, Shutdown, Versions, NotYet
<1>4. /\ OthersStay(p)
      /\ \/ job'[p] = Upgrading /\ proc' = [proc EXCEPT ![p] = "starting"]
         \/ job'[p] = Idle /\ \E s \in {"down", "failed"} :
                                 proc' = [proc EXCEPT ![p] = s]
  <2>1. CASE CacheStart(p)
    BY <1>1, <2>1, BecomeEffect DEF CacheStart, OthersStay
  <2>2. CASE StartFails(p) \/ End(p)
    BY <1>1, <2>2, BecomeEffect DEF StartFails, End, OthersStay
  <2>. QED
    BY <1>1, <1>3, <2>1, <2>2 DEF Life
<1>5. UNCHANGED files /\ leaked \subseteq leaked'
  <2>1. leaked' = leaked \/ leaked' = leaked \cup job[p].todo
    BY <1>1, <1>3 DEF Life, CacheStart, StartFails, End, disk, histories
  <2>. QED
    BY <1>1, <1>3, <2>1 DEF Life, CacheStart, StartFails, End, disk
<1>6. OnDisk' = OnDisk /\ \A q \in Processes : q # p => job'[q] = job[q]
  BY <1>4, <1>5 DEF OnDisk, OthersStay
<1>7. UpgradeIsClean'
  BY <1>1, <1>2, <1>4, <1>5, <1>6 DEF Versions, UpgradeIsClean
<1>8. NotYet'
  <2>1. proc'[p] \in {"starting", "down", "failed"}
        /\ (job'[p] = Upgrading => proc'[p] = "starting")
        /\ (job'[p] # Upgrading => job'[p] = Idle /\ proc'[p] \in {"down", "failed"})
        /\ \A q \in Processes : q # p => proc'[q] = proc[q]
    BY <1>1, <1>2, <1>4 DEF ProcessTypes
  <2>. QED
    BY <1>1, <1>2, <1>6, <2>1 DEF Versions, NotYet
<1>. QED
  BY <1>7, <1>8

LEMMA VersionsKept ==
    ASSUME CacheTypeOK, Versions, [CacheNext]_cacheVars
    PROVE  Versions'
<1>1. CASE SetClock \/ UNCHANGED cacheVars
  BY <1>1
  DEF SetClock, cacheVars, disk, histories, Versions, UpgradeIsClean, NotYet, OnDisk
<1>2. ASSUME NEW p \in Processes,
             Put(p) \/ Evict(p) \/ Delete(p) \/ Get(p) \/ Promotion(p)
      PROVE  Versions'
  BY <1>2, Working DEF Versions, UpgradeIsClean, NotYet
<1>. QED
  BY <1>1, <1>2, WalksKept, LifeVersions DEF CacheNext, Life

LEMMA CacheInitInv == CacheInit => CacheInv
<1> SUFFICES ASSUME CacheInit PROVE CacheInv
  OBVIOUS
<1>1. /\ \A p \in Processes : job[p].at = "idle" /\ job[p] = Idle /\ proc[p] = "down"
      /\ ~current /\ Differing = {}
  BY Jobs DEF CacheInit, Differing, Stored
<1>. QED
  BY <1>1, InitTypes
  DEF CacheInv, Bodies, DifferForReason, StoresAgree, LookupsAgree, LookupAgrees,
      Places, StoresHaveRows, DropsHaveNoFile, FilesHaveRows, Versions,
      UpgradeIsClean, NotYet

LEMMA CacheNextInv == CacheInv /\ [CacheNext]_cacheVars => CacheInv'
BY NextTypes, EntriesKept, VersionsKept DEF CacheInv

(* What ns_cache_get returns is one response, headers and body of the same  *)
(* ns_cache_put, however many renderer processes use the cache and wherever *)
(* they end: but for a lookup that met a store or a deletion of its key,    *)
(* and for a key that two stores, an end or a file that stayed have torn    *)
(* (cache.c).                                                              *)
THEOREM OneResponse == CacheSpec => []EntryIsOneResponse
<1>1. CacheInv => EntryIsOneResponse
  BY DEF CacheInv, Bodies, LookupsAgree, LookupAgrees, EntryIsOneResponse
<1>. QED
  BY <1>1, CacheInitInv, CacheNextInv, PTL DEF CacheSpec

(* No eviction misses a file, whatever several processes do: once the cache *)
(* is of this version every file has a row, or is being removed, or has     *)
(* leaked: its row was deleted while another process stored it, it could    *)
(* not be removed, or an end came in the middle of a walk (cache.c).        *)
THEOREM FilesAreFound == CacheSpec => []EveryFileHasRow
<1>1. CacheInv => EveryFileHasRow
  BY DEF CacheInv, Places, FilesHaveRows, Walking, EveryFileHasRow
<1>. QED
  BY <1>1, CacheInitInv, CacheNextInv, PTL DEF CacheSpec

-----------------------------------------------------------------------------
(* The limit on the files.  From the end of an eviction to the next store   *)
(* the entries with a row and a file, but for those that leaked and those   *)
(* somebody is about to delete or to store, are within the limit by the     *)
(* sizes in their rows.                                                    *)
SizesOf(r) == [k \in Keys |-> IF r[k] = NoRow THEN 0 ELSE r[k].body]

(* The keys whose entry a job is going to complete or to delete.            *)
Doomed(j) ==
    IF j.at = "file" THEN {j.key}
    ELSE IF j.at = "unlink" THEN j.todo
    ELSE IF j.at = "drop" /\ j.next.at = "unlink" THEN j.next.todo
    ELSE {}

(* The jobs that lead to no other eviction, but for the end of a store.     *)
Settled(j) ==
    /\ j.at \notin {"age", "cap"}
    /\ j.at = "unlink" => j.next = Idle
    /\ j.at = "drop" =>
          j.next = Idle \/ (j.next.at = "unlink" /\ j.next.next = Idle)

AllSettled == \A p \in Processes : Settled(job[p])

Spared ==
    {k \in Stored \cap OnDisk :
        k \notin leaked /\ \A p \in Processes : k \notin Doomed(job[p])}

InBudget == AllSettled /\ ~lapsed => Total(SizesOf(rows), Spared) <= Cap

(* A step that puts no entry under the limit that was not there before.     *)
AddsNothing ==
    AllSettled' /\ ~lapsed' =>
        /\ AllSettled /\ ~lapsed
        /\ \A k \in Spared' : k \in Spared /\ rows'[k].body = rows[k].body

LEMMA SizesOfNat ==
    ASSUME NEW r \in [Keys -> Rows \cup {NoRow}]
    PROVE  \A k \in Keys : SizesOf(r)[k] \in Nat
<1>1. \A b \in Responses : b \in Nat
  BY CacheAssumption
<1>2. ASSUME NEW k \in Keys PROVE SizesOf(r)[k] \in Nat
  <2>1. CASE r[k] = NoRow
    BY <2>1 DEF SizesOf
  <2>2. CASE r[k] # NoRow
    <3>1. r[k].body \in Responses
      BY <2>2 DEF Rows
    <3>. QED
      BY <1>1, <2>2, <3>1 DEF SizesOf
  <2>. QED
    BY <2>1, <2>2
<1>. QED
  BY <1>2

LEMMA Settling ==
    /\ \A S \in SUBSET Keys :
          /\ Settled(Deleting(S, Idle)) /\ ~Settled(Deleting(S, Capping))
          /\ Doomed(Deleting(S, Idle)) = S /\ Doomed(Deleting(S, Capping)) = S
    /\ ~Settled(Aging) /\ ~Settled(Capping)
    /\ \A j : j.at \in {"idle", "read", "touch", "promote", "rmrf", "upgrade",
                        "version"} =>
          Settled(j) /\ Doomed(j) = {}
<1>1. ~Settled(Aging) /\ ~Settled(Capping) /\ Settled(Idle) /\ Capping # Idle
  BY Jobs DEF Settled
<1>2. ASSUME NEW S \in SUBSET Keys
      PROVE  /\ Settled(Deleting(S, Idle)) /\ ~Settled(Deleting(S, Capping))
             /\ Doomed(Deleting(S, Idle)) = S /\ Doomed(Deleting(S, Capping)) = S
  <2>1. CASE S = {}
    BY <1>1, <2>1, Jobs DEF Doomed
  <2>2. CASE S # {}
    BY <1>1, <2>2, Jobs DEF Settled, Doomed
  <2>. QED
    BY <2>1, <2>2
<1>. QED
  BY <1>1, <1>2 DEF Settled, Doomed

(* The limit as the step that adds nothing leaves it.                       *)
LEMMA StaysInBudget ==
    ASSUME IsFiniteSet(Keys), CacheTypeOK, CacheTypeOK', InBudget, AddsNothing
    PROVE  InBudget'
<1> SUFFICES ASSUME AllSettled', ~lapsed'
             PROVE  Total(SizesOf(rows'), Spared') <= Cap
  BY DEF InBudget
<1> DEFINE F == SizesOf(rows)
           G == SizesOf(rows')
           S == Spared
           T == Spared'
<1>1. /\ AllSettled /\ ~lapsed
      /\ \A k \in T : k \in S /\ rows'[k].body = rows[k].body
  BY DEF AddsNothing
<1>2. Total(F, S) <= Cap
  BY <1>1 DEF InBudget
<1>3. /\ T \in SUBSET S
      /\ S \subseteq Keys
      /\ \A k \in T : F[k] = G[k]
  <2>1. S \subseteq Keys
    BY DEF Spared, Stored
  <2>2. \A k \in S : rows[k] # NoRow
    BY DEF Spared, Stored
  <2>3. \A k \in T : rows'[k] # NoRow
    BY DEF Spared, Stored
  <2>. QED
    BY <1>1, <2>1, <2>2, <2>3 DEF SizesOf
<1>4. \A k \in S : F[k] \in Nat
  BY <1>3, SizesOfNat DEF CacheTypeOK, DiskTypes
<1>5. IsFiniteSet(S) /\ IsFiniteSet(T)
  BY <1>3, FS_Subset
<1> HIDE DEF F, G, S, T
<1>6. Total(F, T) <= Total(F, S)
  BY <1>3, <1>4, <1>5, TotalOfPart
<1>7. Total(F, T) = Total(G, T)
  BY <1>3, <1>5, TotalSame
<1>8. Total(F, T) \in Nat /\ Total(F, S) \in Nat
  BY <1>3, <1>4, <1>5, TotalNumber
<1>9. Total(G, T) <= Cap
  BY <1>2, <1>6, <1>7, <1>8, CacheAssumption
<1>. QED
  BY <1>9 DEF G, T

-----------------------------------------------------------------------------
(* What the eviction spares.                                               *)
LEMMA SumOfBodies ==
    ASSUME NEW S \in SUBSET Stored, IsFiniteSet(S)
    PROVE  MapThenSumSet(LAMBDA j : rows[j].body, S) = Total(SizesOf(rows), S)
<1> DEFINE Solves(g) ==
        g = [s \in SUBSET S |->
                IF s = {} THEN 0
                ELSE rows[Chosen(s)].body + g[s \ {Chosen(s)}]]
<1>1. \A g : Solves(g) <=> Sums(g, SizesOf(rows), S)
  <2> TAKE g
  <2>1. \A s \in SUBSET S : s # {} =>
            SizesOf(rows)[Chosen(s)] = rows[Chosen(s)].body
    BY ChosenIn DEF SizesOf, Stored
  <2>2. \A s \in SUBSET S :
            FoldStep(g, SizesOf(rows), s) =
                IF s = {} THEN 0
                ELSE rows[Chosen(s)].body + g[s \ {Chosen(s)}]
    BY <2>1 DEF FoldStep
  <2>. QED
    BY <2>2 DEF Sums
<1>2. \E g : Solves(g)
  <2> HIDE DEF Solves
  <2>. QED
    BY <1>1, SumsExist
<1>3. \E g : Solves(g) /\ MapThenSumSet(LAMBDA j : rows[j].body, S) = g[S]
  BY <1>2 DEF MapThenSumSet, MapThenFoldSet, Chosen
<1>4. PICK h : /\ Sums(h, SizesOf(rows), S)
               /\ MapThenSumSet(LAMBDA j : rows[j].body, S) = h[S]
  <2> HIDE DEF Solves
  <2>. QED
    BY <1>1, <1>3
<1>5. PICK g : Sums(g, SizesOf(rows), S) /\ Total(SizesOf(rows), S) = g[S]
  BY TotalIs
<1>6. h[S] = g[S]
  BY <1>4, <1>5, SumsAgree
<1>. QED
  BY <1>4, <1>5, <1>6

(* Of some entries one comes last in the order of the eviction.             *)
LEMMA LastInOrder ==
    ASSUME CacheTypeOK, NEW S \in SUBSET Stored, S # {}
    PROVE  \E m \in S : \A k \in S : NotAfter(k, m)
<1>1. \A k \in Stored : k \in Keys /\ k \in Nat /\ rows[k].used \in Nat
  BY CacheAssumption DEF Stored, CacheTypeOK, DiskTypes, Rows
<1> DEFINE U == {rows[k].used : k \in S}
<1>2. U \in SUBSET Nat /\ U # {}
  BY <1>1
<1>3. PICK u \in U : \A v \in U : u <= v
  <2> HIDE DEF U
  <2>. QED
    BY <1>2, Least
<1> DEFINE K == {k \in S : rows[k].used = u}
<1>4. K \in SUBSET Nat /\ K # {}
  BY <1>1, <1>3
<1>5. PICK m \in K : \A k \in K : m <= k
  <2> HIDE DEF K
  <2>. QED
    BY <1>4, Least
<1>6. ASSUME NEW k \in S PROVE NotAfter(k, m)
  <2>1. u <= rows[k].used /\ rows[m].used = u
    BY <1>3, <1>5
  <2>2. rows[k].used \in Nat /\ u \in Nat /\ k \in Nat /\ m \in Nat
    BY <1>1, <1>2, <1>3, <1>5
  <2>3. CASE rows[k].used = u
    BY <1>5, <2>1, <2>2, <2>3 DEF NotAfter
  <2>4. CASE rows[k].used # u
    BY <2>1, <2>2, <2>4 DEF NotAfter
  <2>. QED
    BY <2>3, <2>4
<1>. QED
  BY <1>5, <1>6

LEMMA EvictionSpares ==
    ASSUME IsFiniteSet(Keys), CacheTypeOK,
           NEW S \in SUBSET {k \in Stored : ~(RunningSum(k) > Cap)}
    PROVE  Total(SizesOf(rows), S) <= Cap
<1> DEFINE F == SizesOf(rows)
           Upto(m) == {j \in Stored : NotAfter(j, m)}
<1>1. Stored \subseteq Keys /\ IsFiniteSet(Stored)
  <2>1. Stored \subseteq Keys
    BY DEF Stored
  <2>. QED
    BY <2>1, FS_Subset
<1>2. \A k \in Stored : F[k] \in Nat
  BY <1>1, SizesOfNat DEF CacheTypeOK, DiskTypes
<1>3. CASE S = {}
  BY <1>3, TotalEmpty, CacheAssumption
<1>4. CASE S # {}
  <2>1. PICK m \in S : \A k \in S : NotAfter(k, m)
    BY <1>4, LastInOrder
  <2>2. Upto(m) \in SUBSET Stored /\ S \in SUBSET Upto(m)
    BY <2>1
  <2>3. IsFiniteSet(Upto(m)) /\ IsFiniteSet(S)
    BY <1>1, <2>2, FS_Subset
  <2>4. RunningSum(m) = Total(F, Upto(m))
    BY <2>2, <2>3, SumOfBodies DEF RunningSum
  <2>5. ~(RunningSum(m) > Cap)
    BY <2>1
  <2> DEFINE T == Upto(m)
  <2>6. /\ IsFiniteSet(T) /\ S \in SUBSET T /\ IsFiniteSet(S)
        /\ (\A k \in T : F[k] \in Nat) /\ (\A k \in S : F[k] \in Nat)
        /\ ~(Total(F, T) > Cap)
    BY <1>2, <2>2, <2>3, <2>4, <2>5
  <2> HIDE DEF F, T
  <2>7. Total(F, S) <= Total(F, T)
    BY <2>6, TotalOfPart
  <2>8. Total(F, S) \in Nat /\ Total(F, T) \in Nat
    BY <2>6, TotalNumber
  <2>9. Total(F, S) <= Cap
    BY <2>6, <2>7, <2>8, CacheAssumption
  <2>. QED
    BY <2>9 DEF F
<1>. QED
  BY <1>3, <1>4

-----------------------------------------------------------------------------
(* Every step but an eviction adds nothing.                                 *)
LEMMA SparedIn ==
    /\ \A k : k \in Spared <=> /\ k \in Stored /\ k \in OnDisk /\ k \notin leaked
                               /\ \A q \in Processes : k \notin Doomed(job[q])
    /\ \A k : k \in Spared' <=> /\ k \in Stored' /\ k \in OnDisk' /\ k \notin leaked'
                                /\ \A q \in Processes : k \notin Doomed(job'[q])
    /\ AllSettled <=> \A q \in Processes : Settled(job[q])
    /\ AllSettled' <=> \A q \in Processes : Settled(job'[q])
BY DEF Spared, Doomed, AllSettled, Settled

(* What a step of one process has to keep to for that.                      *)
LEMMA OneAddsNothing ==
    ASSUME NEW p \in Processes, OthersStay(p),
           Settled(job'[p]) /\ ~lapsed' =>
              /\ Settled(job[p]) /\ ~lapsed
              /\ \A k : (/\ k \in Stored' /\ k \in OnDisk' /\ k \notin leaked'
                         /\ k \notin Doomed(job'[p]))
                        => /\ k \in Stored /\ k \in OnDisk /\ k \notin leaked
                           /\ k \notin Doomed(job[p])
                           /\ rows'[k].body = rows[k].body
    PROVE  AddsNothing
<1> SUFFICES ASSUME AllSettled', ~lapsed'
             PROVE  /\ AllSettled /\ ~lapsed
                    /\ \A k \in Spared' : k \in Spared /\ rows'[k].body = rows[k].body
  BY DEF AddsNothing
<1>1. /\ Settled(job[p]) /\ ~lapsed
      /\ \A k : (/\ k \in Stored' /\ k \in OnDisk' /\ k \notin leaked'
                 /\ k \notin Doomed(job'[p]))
                => /\ k \in Stored /\ k \in OnDisk /\ k \notin leaked
                   /\ k \notin Doomed(job[p])
                   /\ rows'[k].body = rows[k].body
  BY SparedIn
<1>2. \A q \in Processes : q # p => job'[q] = job[q]
  BY DEF OthersStay
<1>3. AllSettled
  BY <1>1, <1>2, SparedIn
<1>4. ASSUME NEW k \in Spared' PROVE k \in Spared /\ rows'[k].body = rows[k].body
  BY <1>1, <1>2, SparedIn
<1>. QED
  BY <1>1, <1>3, <1>4

LEMMA PutAddsNothing ==
    ASSUME CacheTypeOK, NEW p \in Processes, Put(p)
    PROVE  AddsNothing
<1>1. CASE PutRow(p)
  <2>1. PICK k \in Keys, r \in Responses :
           /\ job[p].at = "idle"
           /\ job'[p] = [at |-> "file", key |-> k, body |-> r]
           /\ OthersStay(p)
           /\ \A x \in Keys : x # k => rows'[x] = rows[x]
           /\ UNCHANGED <<files, lapsed>>
           /\ leaked' \in {leaked, leaked \ {k}}
    <3>1. PICK k \in Keys, r \in Responses :
             /\ job[p].at = "idle" /\ proc[p] = "open"
             /\ job'[p] = [at |-> "file", key |-> k, body |-> r]
             /\ OthersStay(p)
             /\ rows'[k] # NoRow /\ rows'[k].body = r
             /\ \A x \in Keys : x # k => rows'[x] = rows[x]
             /\ UNCHANGED <<files, current, proc, lapsed>>
             /\ torn' = IF Storing(k) = {} THEN torn \ {k} ELSE torn \cup {k}
             /\ leaked' = IF Storing(k) \cup Dropping(k) = {}
                          THEN leaked \ {k} ELSE leaked
             /\ crossed' = crossed \cup Looking(k)
      BY <1>1, PutRowEffect
    <3>2. leaked' \in {leaked, leaked \ {k}}
      BY <3>1
    <3>. QED
      BY <3>1, <3>2
  <2>2. Doomed(job'[p]) = {k} /\ Settled(job[p]) /\ Doomed(job[p]) = {}
    <3>1. job'[p].at = "file" /\ job'[p].key = k
      BY <2>1
    <3>. QED
      BY <2>1, <3>1, Settling DEF Doomed
  <2>3. /\ OnDisk' = OnDisk
        /\ \A x : x # k => (x \in Stored' <=> x \in Stored)
        /\ \A x \in Stored : x \in Keys
    BY <2>1, OnTheDisk, OnTheDiskNext
  <2>. QED
    BY <2>1, <2>2, <2>3, OneAddsNothing
<1>2. CASE PutFile(p) \/ PutAstray(p)
  <2>1. job'[p] = Aging
    BY <1>2, BecomeEffect DEF PutFile, PutAstray, CacheTypeOK
  <2>. QED
    BY <2>1, Settling, SparedIn DEF AddsNothing
<1>3. CASE PutFails(p)
  <2> DEFINE k == job[p].key
  <2>1. /\ job[p].at = "file" /\ k \in Keys
        /\ job'[p] = Deleting({k}, Idle) /\ OthersStay(p)
        /\ UNCHANGED <<rows, files, leaked, lapsed>>
    BY <1>3, BecomeEffect, JobParts
    DEF PutFails, CacheTypeOK, OthersStay, histories
  <2>2. Settled(job[p]) /\ Doomed(job[p]) = {k} /\ Doomed(job'[p]) = {k}
    BY <2>1, Settling DEF Settled, Doomed
  <2>3. Stored' = Stored /\ OnDisk' = OnDisk
    BY <2>1 DEF Stored, OnDisk
  <2>. QED
    BY <2>1, <2>2, <2>3, OneAddsNothing
<1>. QED
  BY <1>1, <1>2, <1>3 DEF Put

LEMMA DeleteAddsNothing ==
    ASSUME CacheTypeOK, NEW p \in Processes, Delete(p)
    PROVE  AddsNothing
<1>1. Idle.at = "idle" /\ Capping.at = "cap" /\ Capping # Idle
  BY Jobs
<1>2. CASE Unlink(p)
  <2>1. PICK k \in Keys :
           /\ job[p].at = "unlink" /\ k \in job[p].todo
           /\ job[p].todo \subseteq Keys /\ job[p].next \in {Idle, Capping}
           /\ job'[p].at = "drop"
           /\ job'[p].next = Deleting(job[p].todo \ {k}, job[p].next)
           /\ OthersStay(p)
           /\ \A x \in Keys : x # k => files'[x] = files[x]
           /\ \/ files'[k] = NoBody /\ UNCHANGED <<torn, leaked>>
              \/ /\ files'[k] = files[k]
                 /\ torn' = torn \cup {k} /\ leaked' = leaked \cup {k}
           /\ UNCHANGED <<rows, lapsed>>
    BY <1>2, UnlinkEffect
  <2> DEFINE S == job[p].todo \ {k}
             n == job[p].next
  <2>2. Doomed(job[p]) = S \cup {k}
    BY <2>1 DEF Doomed
  <2>3. Doomed(job'[p]) = S
    <3>1. Doomed(Deleting(S, n)) = S /\ Deleting(S, n).at \in {"idle", "cap", "unlink"}
      BY <1>1, <2>1, Settling, Jobs
    <3>. QED
      BY <2>1, <3>1 DEF Doomed
  <2>4. Settled(job'[p]) => Settled(job[p])
    <3>1. ASSUME n = Capping PROVE ~Settled(job'[p])
      <4>1. CASE S = {}
        <5>1. job'[p].next = Deleting(S, n)
          BY <2>1
        <5>2. Deleting(S, n) = Capping
          BY <3>1, <4>1 DEF Deleting
        <5>3. job'[p].next = Capping
          BY <5>1, <5>2
        <5>. QED
          BY <1>1, <2>1, <5>3 DEF Settled
      <4>2. CASE S # {}
        <5>1. Deleting(S, n).next = Capping /\ Deleting(S, n).at = "unlink"
          BY <3>1, <4>2, Jobs
        <5>. QED
          BY <1>1, <2>1, <5>1 DEF Settled
      <4>. QED
        BY <4>1, <4>2
    <3>2. n = Idle => Settled(job[p])
      BY <2>1 DEF Settled
    <3>. QED
      BY <2>1, <3>1, <3>2
  <2>5. /\ Stored' = Stored
        /\ \A x : x \in OnDisk' => x \in OnDisk
        /\ k \in OnDisk' => k \in leaked'
        /\ leaked \subseteq leaked'
    BY <2>1, OnTheDisk, OnTheDiskNext
  <2>. QED
    BY <2>1, <2>2, <2>3, <2>4, <2>5, OneAddsNothing
<1>3. CASE DropRow(p)
  <2> DEFINE k == job[p].key
  <2>1. /\ job[p].at = "drop" /\ k \in Keys
        /\ job'[p] = job[p].next /\ OthersStay(p)
        /\ \A x \in Keys : x # k => rows'[x] = rows[x]
        /\ \/ UNCHANGED <<rows, leaked>>
           \/ rows'[k] = NoRow /\ leaked' = leaked \cup Stranded({k})
        /\ UNCHANGED <<files, lapsed>>
    BY <1>3, DropRowEffect
  <2>2. PICK S \in SUBSET Keys, n \in {Idle, Capping} :
           job[p].next = Deleting(S, n)
    BY <1>3, DropRowEffect
  <2>3. Doomed(job[p]) = S /\ Doomed(job'[p]) = S
    <3>1. Doomed(job[p].next) = S /\ job[p].next.at \in {"idle", "cap", "unlink"}
      BY <1>1, <2>2, Settling, Jobs
    <3>. QED
      BY <2>1, <3>1 DEF Doomed
  <2>4. Settled(job'[p]) => Settled(job[p])
    <3>1. n = Capping => ~Settled(job'[p])
      BY <2>1, <2>2, Settling
    <3>2. n = Idle => Settled(job[p])
      <4>1. CASE S = {}
        BY <2>1, <2>2, <4>1, Jobs DEF Settled
      <4>2. CASE S # {}
        BY <2>1, <2>2, <4>2, Jobs DEF Settled
      <4>. QED
        BY <4>1, <4>2
    <3>. QED
      BY <3>1, <3>2
  <2>5. /\ OnDisk' = OnDisk
        /\ \A x : x \in Stored' => x \in Stored /\ rows'[x] = rows[x]
        /\ leaked \subseteq leaked'
    BY <2>1, OnTheDisk, OnTheDiskNext
  <2>. QED
    BY <2>1, <2>3, <2>4, <2>5, OneAddsNothing
<1>. QED
  BY <1>2, <1>3 DEF Delete

(* The steps that leave entries and leaks alone, from a settled job.        *)
LEMMA LookAddsNothing ==
    ASSUME CacheTypeOK, NEW p \in Processes,
           \/ Get(p) \/ Promotion(p) \/ Removed(p) \/ StartFails(p)
           \/ CacheStart(p) \/ SetVersion(p)
    PROVE  AddsNothing
<1>1. ProcessTypes
  BY DEF CacheTypeOK
<1>2. Settled(job[p]) /\ Doomed(job[p]) = {}
  BY <1>1, Settling, Jobs
  DEF ProcessTypes, Get, GetRow, GetFile, Touch, Promotion, Promote, Promoted, Free,
      Removed, CacheStart, StartFails, SetVersion
<1>3. UNCHANGED <<files, leaked, lapsed>>
  BY DEF Get, GetRow, GetFile, Touch, Promotion, Promote, Promoted, Removed,
         CacheStart, StartFails, SetVersion, disk, histories
<1>4. \A x \in Keys : \/ rows'[x] = rows[x]
                      \/ /\ x \in Stored /\ rows'[x] \in Rows
                         /\ rows'[x].body = rows[x].body
  <2>1. CASE Touch(p) \/ Promoted(p)
    BY <2>1, Refreshed
  <2>2. CASE ~(Touch(p) \/ Promoted(p))
    BY <2>2
    DEF Get, GetRow, GetFile, Promotion, Promote, Removed, CacheStart, StartFails,
        SetVersion, disk
  <2>. QED
    BY <2>1, <2>2
<1>5. /\ Stored' = Stored /\ OnDisk' = OnDisk
      /\ \A x \in Stored : rows'[x].body = rows[x].body
  BY <1>3, <1>4, SameRows
<1>6. \E j : Become(p, j)
  BY DEF Get, GetRow, GetFile, Touch, Promotion, Promote, Promoted, Removed,
         CacheStart, StartFails, SetVersion
<1>7. OthersStay(p)
  BY <1>1, <1>6, BecomeEffect DEF OthersStay
<1>. QED
  BY <1>2, <1>3, <1>5, <1>7, OneAddsNothing

LEMMA WalkAddsNothing ==
    ASSUME CacheTypeOK, NEW p \in Processes, Clear(p) \/ Upgrade(p) \/ Remove(p)
    PROVE  AddsNothing
<1>1. CASE Clear(p) \/ Upgrade(p)
  <2>1. /\ OthersStay(p) /\ UNCHANGED <<files, lapsed>>
        /\ job[p] = Idle \/ job[p].at = "upgrade"
        /\ \/ UNCHANGED <<rows, leaked>>
           \/ /\ \A x \in Keys : rows'[x] = NoRow
              /\ leaked' = leaked \cup Stranded(Keys)
    BY <1>1, DropAllEffect
  <2>2. Settled(job[p]) /\ Doomed(job[p]) = {}
    BY <2>1, Settling, Jobs
  <2>3. /\ OnDisk' = OnDisk
        /\ \A x : x \in Stored' => x \in Stored /\ rows'[x] = rows[x]
        /\ leaked \subseteq leaked'
    BY <2>1, OnTheDisk, OnTheDiskNext
  <2>. QED
    BY <2>1, <2>2, <2>3, OneAddsNothing
<1>2. CASE Remove(p)
  <2>1. PICK k \in Keys :
           /\ job[p].at = "rmrf" /\ OthersStay(p)
           /\ \A x \in Keys : x # k => files'[x] = files[x]
           /\ \/ files'[k] = NoBody /\ UNCHANGED leaked
              \/ files'[k] = files[k] /\ leaked' = leaked \cup {k}
           /\ UNCHANGED <<rows, lapsed>>
    BY <1>2, RemoveEffect
  <2>2. Settled(job[p]) /\ Doomed(job[p]) = {}
    BY <2>1, Settling
  <2>3. /\ Stored' = Stored
        /\ \A x : x \in OnDisk' => x \in OnDisk
        /\ leaked \subseteq leaked'
    BY <2>1, OnTheDisk, OnTheDiskNext
  <2>. QED
    BY <2>1, <2>2, <2>3, OneAddsNothing
<1>. QED
  BY <1>1, <1>2

(* A process that ends before its eviction is over leaves the limit lapsed. *)
LEMMA EndAddsNothing ==
    ASSUME CacheTypeOK, NEW p \in Processes, End(p)
    PROVE  AddsNothing
<1>1. /\ OthersStay(p) /\ UNCHANGED <<rows, files>>
      /\ lapsed' = (lapsed \/ job[p].at \in {"file", "age", "cap", "unlink", "drop"})
      /\ leaked' = IF job[p].at = "rmrf" /\ (current \/ job[p].next = Idle)
                   THEN leaked \cup job[p].todo ELSE leaked
  BY EndEffect
<1>2. leaked \subseteq leaked'
  BY <1>1
<1>3. ~lapsed' => ~lapsed /\ Settled(job[p]) /\ Doomed(job[p]) = {}
  BY <1>1 DEF Settled, Doomed
<1>4. Stored' = Stored /\ OnDisk' = OnDisk
  BY <1>1 DEF Stored, OnDisk
<1>. QED
  BY <1>1, <1>2, <1>3, <1>4, OneAddsNothing

LEMMA StillAddsNothing ==
    ASSUME UNCHANGED <<disk, job, histories>>
    PROVE  AddsNothing
<1>1. Stored' = Stored /\ OnDisk' = OnDisk
  BY DEF disk, Stored, OnDisk
<1>. QED
  BY <1>1, SparedIn DEF disk, histories, AddsNothing

(* An eviction ends within the limit, or is cut short.                      *)
LEMMA EvictionInBudget ==
    ASSUME IsFiniteSet(Keys), CacheTypeOK, NEW p \in Processes, Evict(p)
    PROVE  InBudget'
<1>1. ProcessTypes
  BY DEF CacheTypeOK
<1>2. CASE EvictNothing(p)
  BY <1>2 DEF EvictNothing, InBudget
<1>3. CASE EvictAged(p) /\ \E S \in SUBSET Stored : job'[p] = Deleting(S, Capping)
  <2>1. Stored \subseteq Keys
    BY DEF Stored
  <2>. QED
    BY <1>3, <2>1, Settling, SparedIn DEF InBudget
<1>4. CASE EvictOver(p) /\ \E S \in SUBSET {k \in Stored : RunningSum(k) > Cap} :
              /\ job'[p] = Deleting(S, Idle)
              /\ lapsed' = (S # {k \in Stored : RunningSum(k) > Cap})
  <2> DEFINE Over == {k \in Stored : RunningSum(k) > Cap}
  <2> SUFFICES ASSUME ~lapsed' PROVE Total(SizesOf(rows'), Spared') <= Cap
    BY DEF InBudget
  <2>1. job'[p] = Deleting(Over, Idle) /\ Over \in SUBSET Keys
    BY <1>4 DEF Stored
  <2>2. UNCHANGED <<rows, files>>
    BY <1>4 DEF EvictOver
  <2>3. Doomed(job'[p]) = Over
    BY <2>1, Settling
  <2>4. Spared' \in SUBSET {k \in Stored : ~(RunningSum(k) > Cap)}
    <3>1. Stored' = Stored
      BY <2>2 DEF Stored
    <3>. QED
      BY <2>3, <3>1, SparedIn
  <2>5. Total(SizesOf(rows), Spared') <= Cap
    BY <2>4, EvictionSpares
  <2>. QED
    BY <2>2, <2>5
<1>. QED
  BY <1>1, <1>2, <1>3, <1>4, EvictSteps

LEMMA NextInBudget ==
    ASSUME IsFiniteSet(Keys)
    PROVE  CacheInv /\ InBudget /\ [CacheNext]_cacheVars => InBudget'
<1> SUFFICES ASSUME CacheInv, InBudget, [CacheNext]_cacheVars
             PROVE  InBudget'
  OBVIOUS
<1>1. CacheTypeOK /\ CacheTypeOK'
  BY NextTypes DEF CacheInv
<1>2. CASE AddsNothing
  BY <1>1, <1>2, StaysInBudget
<1>3. ASSUME NEW p \in Processes, Evict(p) PROVE InBudget'
  BY <1>1, <1>3, EvictionInBudget
<1>4. ASSUME NEW p \in Processes,
             \/ Put(p) \/ Delete(p) \/ Get(p) \/ Promotion(p) \/ Clearing(p)
             \/ Life(p)
      PROVE  AddsNothing
  <2>1. CASE Started(p) \/ Shutdown(p)
    BY <2>1, StillAddsNothing DEF Started, Shutdown
  <2>. QED
    BY <1>1, <1>4, <2>1, PutAddsNothing, DeleteAddsNothing, LookAddsNothing,
       WalkAddsNothing, EndAddsNothing DEF Clearing, Life
<1>5. SetClock \/ UNCHANGED cacheVars => AddsNothing
  BY StillAddsNothing DEF SetClock, cacheVars
<1>. QED
  BY <1>2, <1>3, <1>4, <1>5 DEF CacheNext

(* When no process is in the middle of anything the entries spared are all  *)
(* there is.                                                               *)
LEMMA BudgetFollows ==
    ASSUME IsFiniteSet(Keys), CacheInv, InBudget
    PROVE  WithinBudget
<1> SUFFICES ASSUME current, \A p \in Processes : job[p] = Idle, ~lapsed,
                    OnDisk \cap (torn \cup leaked) = {}
             PROVE  MapThenSumSet(LAMBDA k : files[k], OnDisk) <= Cap
  BY DEF WithinBudget
<1>1. \A p \in Processes : /\ job[p].at = "idle"
                           /\ Settled(job[p]) /\ Doomed(job[p]) = {}
  BY Jobs, Settling
<1>2. OnDisk \subseteq Stored
  BY <1>1 DEF CacheInv, Places, FilesHaveRows, Walking
<1>3. Differing = {}
  BY <1>1 DEF CacheInv, Bodies, DifferForReason, Mending, Differing
<1>4. \A k \in OnDisk : SizesOf(rows)[k] = files[k]
  BY <1>2, <1>3 DEF SizesOf, Differing, Stored
<1>5. Spared = OnDisk
  BY <1>1, <1>2 DEF Spared
<1>6. Total(SizesOf(rows), OnDisk) <= Cap
  BY <1>1, <1>5 DEF InBudget, AllSettled
<1>7. IsFiniteSet(OnDisk)
  <2>1. OnDisk \subseteq Keys
    BY DEF OnDisk
  <2>. QED
    BY <2>1, FS_Subset
<1>8. Total(SizesOf(rows), OnDisk) = Total(files, OnDisk)
  BY <1>4, <1>7, TotalSame
<1>. QED
  BY <1>6, <1>8 DEF Total

LEMMA InitInBudget == CacheInit => InBudget
<1> SUFFICES ASSUME CacheInit PROVE Total(SizesOf(rows), Spared) <= Cap
  BY DEF InBudget
<1>1. Spared = {}
  BY DEF CacheInit, Spared, Stored
<1>. QED
  BY <1>1, TotalEmpty, CacheAssumption

(* Whenever all processes are between two operations the bodies on the disk *)
(* are within the limit of the configuration, however entries came and      *)
(* went, unless the last eviction was cut short or a file on the disk is    *)
(* torn or leaked (evict_to_cap).                                          *)
THEOREM StaysWithinCap ==
    ASSUME IsFiniteSet(Keys)
    PROVE  CacheSpec => []WithinBudget
<1>1. CacheInv /\ InBudget => WithinBudget
  BY BudgetFollows
<1>2. CacheInv /\ InBudget /\ [CacheNext]_cacheVars => InBudget'
  BY NextInBudget
<1>. QED
  BY <1>1, <1>2, CacheInitInv, InitInBudget, CacheNextInv, PTL DEF CacheSpec

=============================================================================
