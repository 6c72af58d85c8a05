------------------------- MODULE FetchTransport_proofs -------------------------
(***************************************************************************)
(* Proofs about FetchHops, for every set of fetches and URLs, every number  *)
(* of slots per origin and every redirect limit.  SlotsExact is what keeps  *)
(* the slot counts within their type: a release lowers a count that its own *)
(* fetch makes positive.  SecretsStayHome speaks of the hops that contact   *)
(* an origin; what is inductive is that the secrets stay home at every      *)
(* point of the chain.  A transfer without an origin holds no slot: what    *)
(* keeps the counts exact is that only http and https hops ask for one.     *)
(*                                                                         *)
(* The second part is about NetMulti, the I/O thread that carries the       *)
(* transfers of the hops, whatever the hops are.                            *)
(***************************************************************************)
EXTENDS FetchHops, NetMulti, FiniteSetTheorems, TLAPS

(* A fetch that still holds the secrets is at the URL it began with, or at  *)
(* that one upgraded.                                                       *)
SecretsInv ==
    \A f \in Fetches : secrets[f] => url[f] \in Upgrades(first[f])

(* Only a hop that has an origin asks for a slot.                          *)
AskersHaveOrigin == \A f \in Fetches : pc[f] = "slot" => Web(url[f])

IInv ==
    /\ TypeOK
    /\ AskersHaveOrigin
    /\ SlotsExact
    /\ SecretsInv

-----------------------------------------------------------------------------
(* Every URL is a target, an upgrade leads from a target to a target on the *)
(* same host, and to an origin exactly from an origin.                      *)
LEMMA OriginFacts ==
    /\ Urls \subseteq Targets
    /\ \A o \in Targets :
          /\ o.host \in Hosts /\ Upgrades(o) \subseteq Targets
          /\ \A u \in Upgrades(o) : Web(u) <=> Web(o)
          /\ Web(o) <=> o \in Origins
    /\ Origins \subseteq Targets
<1>1. Urls \subseteq Targets
  BY DEF Targets, Upgrades
<1>2. ASSUME NEW o \in Targets
      PROVE  /\ o.host \in Hosts /\ Upgrades(o) \subseteq Targets
             /\ \A u \in Upgrades(o) : Web(u) <=> Web(o)
  <2>1. PICK u \in Urls : o \in Upgrades(u)
    BY DEF Targets
  <2>2. \A v \in Upgrades(o) : Web(v) <=> Web(o)
    <3>1. ASSUME NEW v \in Upgrades(o), v # o PROVE Web(v) /\ Web(o)
      <4>1. o.scheme = "http" /\ v.scheme = "https"
        BY <3>1 DEF Upgrades
      <4>. QED
        BY <4>1 DEF Web
    <3>. QED
      BY <3>1
  <2>3. CASE o = u
    BY <2>1, <2>2, <2>3 DEF Hosts, Targets
  <2>4. CASE o = [scheme |-> "https", host |-> u.host]
    <3>1. o.scheme = "https" /\ o.host = u.host
      BY <2>4
    <3>2. Upgrades(o) = {o}
      BY <3>1 DEF Upgrades
    <3> QED
      BY <2>1, <2>2, <3>1, <3>2 DEF Hosts, Targets
  <2> QED
    BY <2>1, <2>3, <2>4 DEF Upgrades
<1> QED
  BY <1>1, <1>2 DEF Origins

(* Upgrading once more leads nowhere new.                                  *)
LEMMA UpgradesTwice ==
    ASSUME NEW x, NEW u \in Upgrades(x), NEW v \in Upgrades(u)
    PROVE  v \in Upgrades(x)
<1>1. CASE u = x
  BY <1>1
<1>2. CASE u = [scheme |-> "https", host |-> x.host]
  <2>1. u.scheme = "https"
    BY <1>2
  <2>2. v = u
    BY <2>1 DEF Upgrades
  <2> QED
    BY <2>2
<1> QED
  BY <1>1, <1>2 DEF Upgrades

LEMMA HoldersFinite ==
    /\ \A o \in Origins : IsFiniteSet(Holders(o))
    /\ \A o \in Origins : Cardinality(Holders(o)) \in Nat
BY HopsAssumption, FS_Subset, FS_CardinalityType DEF Holders

(* A step that moves nobody into or out of the holders of a slot.          *)
LEMMA SlotsKept ==
    ASSUME SlotsExact, inUse' = inUse,
           \A f \in Fetches :
              \/ pc'[f] = pc[f] /\ url'[f] = url[f]
              \/ /\ pc[f] \in {"transfer", "back"}
                 /\ pc'[f] \in {"transfer", "back"}
                 /\ url'[f] = url[f]
              \/ /\ pc[f] \notin {"transfer", "back"}
                 /\ pc'[f] \notin {"transfer", "back"}
    PROVE  SlotsExact'
<1>1. \A o \in Origins : Holders(o)' = Holders(o)
  BY DEF Holders
<1> QED
  BY <1>1 DEF SlotsExact

-----------------------------------------------------------------------------
LEMMA InitIInv == Init => IInv
<1> SUFFICES ASSUME Init PROVE IInv
  OBVIOUS
<1> USE HopsAssumption DEF Init
<1>1. TypeOK
  <2>1. \A f \in Fetches : first[f] \in Targets
    BY OriginFacts
  <2>2. url = [f \in Fetches |-> first[f]]
    OBVIOUS
  <2>3. pc \in [Fetches -> Phases] /\ outcome \in [Fetches -> Outcomes]
    BY DEF Phases, Outcomes
  <2>4. url \in [Fetches -> Targets]
    BY <2>1, <2>2
  <2>5. /\ hops \in [Fetches -> 0..MaxRedirects]
        /\ inUse \in [Origins -> 0..MaxPerOrigin]
    OBVIOUS
  <2> QED
    BY <2>3, <2>4, <2>5 DEF TypeOK
<1>2. \A o \in Origins : Holders(o) = {}
  BY DEF Holders
<1>3. SlotsExact
  BY <1>2, FS_EmptySet DEF SlotsExact
<1>4. SecretsInv
  BY DEF SecretsInv, Upgrades
<1>5. AskersHaveOrigin
  BY DEF AskersHaveOrigin
<1> QED
  BY <1>1, <1>3, <1>4, <1>5 DEF IInv

(* The steps before a slot is held or after it was released.               *)
LEMMA OutsideIInv ==
    ASSUME IInv, NEW f \in Fetches,
           \/ Start(f) \/ EndWithoutNetwork(f) \/ GiveUpSlot(f)
           \/ StopAtRedirect(f)
    PROVE  IInv'
<1>4. AskersHaveOrigin'
  BY DEF IInv, AskersHaveOrigin, TypeOK, Start, EndWithoutNetwork, GiveUpSlot,
         StopAtRedirect, GoTo
<1> USE DEF IInv, Start, EndWithoutNetwork, GiveUpSlot, StopAtRedirect, GoTo
<1>1. TypeOK'
  BY DEF TypeOK, Phases
<1>2. SlotsExact'
  BY SlotsKept DEF TypeOK
<1>3. SecretsInv'
  BY DEF SecretsInv
<1> QED
  BY <1>1, <1>2, <1>3, <1>4

(* AskForSlot: the URL may be upgraded, to an origin of the same family.   *)
LEMMA AskForSlotIInv ==
    ASSUME IInv, NEW f \in Fetches, AskForSlot(f)
    PROVE  IInv'
<1> USE DEF IInv, AskForSlot, GoTo
<1>1. PICK u \in Upgrades(url[f]) : url' = [url EXCEPT ![f] = u]
  OBVIOUS
<1>2. u \in Targets /\ Web(u)
  BY OriginFacts DEF TypeOK
<1>3. TypeOK'
  BY <1>1, <1>2 DEF TypeOK, Phases
<1>4. SlotsExact'
  BY <1>1, SlotsKept DEF TypeOK
<1>5. SecretsInv'
  BY <1>1, UpgradesTwice DEF SecretsInv, TypeOK
<1>6. AskersHaveOrigin'
  BY <1>1, <1>2 DEF AskersHaveOrigin, TypeOK
<1> QED
  BY <1>3, <1>4, <1>5, <1>6

(* GoWithoutSlot: the fetch holds a slot of no origin.                     *)
LEMMA GoWithoutSlotIInv ==
    ASSUME IInv, NEW f \in Fetches, GoWithoutSlot(f)
    PROVE  IInv'
<1> USE DEF IInv, GoWithoutSlot, GoTo
<1>1. TypeOK'
  BY DEF TypeOK, Phases
<1>2. SlotsExact'
  <2>1. ~Web(url[f])
    BY DEF Web
  <2>2. \A o \in Origins : o # url[f]
    BY <2>1 DEF Origins
  <2>3. \A o \in Origins : Holders(o)' = Holders(o)
    BY <2>2 DEF Holders, TypeOK
  <2> QED
    BY <2>3 DEF SlotsExact
<1>3. SecretsInv'
  BY DEF SecretsInv
<1>4. AskersHaveOrigin'
  BY DEF AskersHaveOrigin, TypeOK
<1> QED
  BY <1>1, <1>2, <1>3, <1>4

(* AcquireSlot: one holder more, one slot more in use.                     *)
LEMMA AcquireSlotIInv ==
    ASSUME IInv, NEW f \in Fetches, AcquireSlot(f)
    PROVE  IInv'
<1> USE DEF IInv, AcquireSlot, GoTo
<1>1. TypeOK'
  <2>1. url[f] \in Origins /\ inUse[url[f]] + 1 \in 0..MaxPerOrigin
    BY HopsAssumption, OriginFacts DEF TypeOK, AskersHaveOrigin
  <2> QED
    BY <2>1 DEF TypeOK, Phases
<1>2. SlotsExact'
  <2>1. ASSUME NEW o \in Origins, o = url[f]
        PROVE  inUse'[o] = Cardinality(Holders(o)')
    <3>1. Holders(o)' = Holders(o) \cup {f} /\ f \notin Holders(o)
      BY <2>1 DEF Holders, TypeOK
    <3>2. Cardinality(Holders(o)') = Cardinality(Holders(o)) + 1
      BY <3>1, HoldersFinite, FS_AddElement
    <3> QED
      BY <2>1, <3>2 DEF SlotsExact, TypeOK
  <2>2. ASSUME NEW o \in Origins, o # url[f]
        PROVE  inUse'[o] = Cardinality(Holders(o)')
    <3>1. Holders(o)' = Holders(o)
      BY <2>2 DEF Holders, TypeOK
    <3> QED
      BY <2>2, <3>1 DEF SlotsExact, TypeOK
  <2> QED
    BY <2>1, <2>2 DEF SlotsExact
<1>3. SecretsInv'
  BY DEF SecretsInv
<1>4. AskersHaveOrigin'
  BY DEF AskersHaveOrigin, TypeOK
<1> QED
  BY <1>1, <1>2, <1>3, <1>4

(* The transport returns; a slot is still held.                            *)
LEMMA ComesIInv ==
    ASSUME IInv, NEW f \in Fetches, NEW o \in Outcomes, Comes(f, o)
    PROVE  IInv'
<1> USE DEF IInv, Comes, GoTo
<1>1. TypeOK'
  BY DEF TypeOK, Phases
<1>2. SlotsExact'
  BY SlotsKept DEF TypeOK
<1>3. SecretsInv'
  BY DEF SecretsInv
<1>4. AskersHaveOrigin'
  BY DEF AskersHaveOrigin, TypeOK
<1> QED
  BY <1>1, <1>2, <1>3, <1>4

(* EndHop: a fetch with an origin holds a slot of it, so the count is       *)
(* positive; one without leaves the counts alone.                           *)
LEMMA EndHopIInv ==
    ASSUME IInv, NEW f \in Fetches, EndHop(f)
    PROVE  IInv'
<1> USE DEF IInv, EndHop, GoTo
<1>1. PICK a \in Targets : a = url[f]
  BY DEF TypeOK
<1>2. PICK u \in Upgrades(url[f]) : url' = [url EXCEPT ![f] = u]
  OBVIOUS
<1>3. /\ u \in Targets
      /\ a.host \in Hosts
  BY <1>1, OriginFacts
<1>4. dead' \subseteq Hosts
  BY <1>1, <1>3 DEF Reached, TypeOK
<1>5. \A o \in Origins : o # a => Holders(o)' = Holders(o)
  BY <1>1, <1>2 DEF Holders, TypeOK
<1>6. inUse' \in [Origins -> 0..MaxPerOrigin] /\ SlotsExact'
  <2>1. CASE ~Web(a)
    <3>1. a \notin Origins /\ inUse' = inUse
      BY <1>1, <2>1 DEF Origins, Released
    <3> QED
      BY <1>5, <3>1 DEF SlotsExact, TypeOK
  <2>2. CASE Web(a)
    <3>1. a \in Origins /\ inUse' = [inUse EXCEPT ![a] = @ - 1]
      BY <1>1, <2>2 DEF Origins, Released
    <3>2. f \in Holders(a) /\ Holders(a)' = Holders(a) \ {f}
      BY <1>1, <1>2, <3>1 DEF Holders, TypeOK
    <3>3. /\ Cardinality(Holders(a)') = Cardinality(Holders(a)) - 1
          /\ Cardinality(Holders(a)') \in Nat
      BY <3>1, <3>2, HoldersFinite, FS_RemoveElement, FS_CardinalityType
    <3>4. inUse[a] - 1 \in 0..MaxPerOrigin
      BY <3>1, <3>3, HopsAssumption DEF SlotsExact, TypeOK
    <3>5. inUse'[a] = Cardinality(Holders(a)')
      BY <3>1, <3>3 DEF SlotsExact, TypeOK
    <3>6. \A o \in Origins : o # a => inUse'[o] = Cardinality(Holders(o)')
      BY <1>5, <3>1 DEF SlotsExact, TypeOK
    <3> QED
      BY <3>1, <3>4, <3>5, <3>6 DEF SlotsExact, TypeOK
  <2> QED
    BY <2>1, <2>2
<1>7. TypeOK'
  <2>1. url' \in [Fetches -> Targets]
    BY <1>2, <1>3 DEF TypeOK
  <2> QED
    BY <1>4, <1>6, <2>1 DEF TypeOK, Phases, Outcomes
<1>8. SecretsInv'
  BY <1>2, UpgradesTwice DEF SecretsInv, TypeOK
<1>9. AskersHaveOrigin'
  BY <1>2 DEF AskersHaveOrigin, TypeOK
<1> QED
  BY <1>6, <1>7, <1>8, <1>9

(* Follow: the secrets go on only to the URL that the hop contacted.       *)
LEMMA FollowIInv ==
    ASSUME IInv, NEW f \in Fetches, NEW n \in Urls, Follow(f, n)
    PROVE  IInv'
<1> USE DEF IInv, Follow, GoTo
<1>1. n \in Targets
  BY OriginFacts
<1>2. TypeOK'
  <2>1. hops[f] + 1 \in 0..MaxRedirects
    BY HopsAssumption DEF TypeOK
  <2>2. /\ hops' \in [Fetches -> 0..MaxRedirects]
        /\ secrets' \in [Fetches -> BOOLEAN]
        /\ url' \in [Fetches -> Targets]
    BY <1>1, <2>1 DEF TypeOK, KeepsSecrets
  <2> QED
    BY <2>2 DEF TypeOK, Phases
<1>3. SlotsExact'
  BY SlotsKept DEF TypeOK
<1>4. SecretsInv'
  BY DEF SecretsInv, TypeOK, KeepsSecrets
<1>5. AskersHaveOrigin'
  BY DEF AskersHaveOrigin, TypeOK
<1> QED
  BY <1>2, <1>3, <1>4, <1>5

(* The world around the fetches moves no fetch.                            *)
LEMMA WorldIInv ==
    ASSUME IInv,
           \/ \E f \in Fetches : Cancel(f)
           \/ \E h \in Hosts : Forget(h)
           \/ Abort
           \/ UNCHANGED vars
    PROVE  IInv'
<1> USE DEF IInv, Cancel, Forget, Abort, vars
<1>1. TypeOK'
  BY DEF TypeOK
<1>2. SlotsExact'
  BY SlotsKept
<1>3. SecretsInv'
  BY DEF SecretsInv
<1>4. AskersHaveOrigin'
  BY DEF AskersHaveOrigin
<1> QED
  BY <1>1, <1>2, <1>3, <1>4

LEMMA NextIInv == IInv /\ [Next]_vars => IInv'
<1> SUFFICES ASSUME IInv, [Next]_vars PROVE IInv'
  OBVIOUS
<1>1. ASSUME NEW f \in Fetches, LocalStep(f) \/ TransferEnds(f)
      PROVE  IInv'
  <2>1. CASE EndWithoutNetwork(f) \/ GiveUpSlot(f) \/ StopAtRedirect(f)
    BY <2>1, OutsideIInv
  <2>2. CASE AskForSlot(f) \/ GoWithoutSlot(f)
    BY <2>2, AskForSlotIInv, GoWithoutSlotIInv
  <2>3. CASE AcquireSlot(f)
    BY <2>3, AcquireSlotIInv
  <2>4. CASE CurlAborts(f) \/ TransferEnds(f)
    <3>1. \E o \in Outcomes : Comes(f, o)
      BY <2>4 DEF CurlAborts, TransferEnds, Outcomes
    <3> QED
      BY <3>1, ComesIInv
  <2>5. CASE EndHop(f)
    BY <2>5, EndHopIInv
  <2>6. CASE \E n \in Urls : Follow(f, n)
    BY <2>6, FollowIInv
  <2> QED
    BY <1>1, <2>1, <2>2, <2>3, <2>4, <2>5, <2>6 DEF LocalStep
<1>2. ASSUME NEW f \in Fetches, Start(f)
      PROVE  IInv'
  BY <1>2, OutsideIInv
<1> QED
  BY <1>1, <1>2, WorldIInv DEF Next

-----------------------------------------------------------------------------
(* The variables keep their types: no slot count passes the limit or falls  *)
(* below zero, and no chain is longer than max_redirs allows.               *)
THEOREM TypeCorrect == Spec => []TypeOK
<1>1. IInv => TypeOK
  BY DEF IInv
<1> QED
  BY <1>1, InitIInv, NextIInv, PTL DEF Spec

(* However a hop ends, its slot goes back to the origin it was taken from.  *)
THEOREM SlotsAreExact == Spec => []SlotsExact
<1>1. IInv => SlotsExact
  BY DEF IInv
<1> QED
  BY <1>1, InitIInv, NextIInv, PTL DEF Spec

(* However long the chain of redirects, a hop that carries Authorization or *)
(* Cookie headers of the caller contacts the origin the caller named.       *)
THEOREM SecretsAtHome == Spec => []SecretsStayHome
<1>1. IInv => SecretsStayHome
  BY DEF IInv, SecretsInv, SecretsStayHome
<1> QED
  BY <1>1, InitIInv, NextIInv, PTL DEF Spec

(* An origin's slots are counted exactly and never oversubscribed.          *)
THEOREM SlotsAreSound == Spec => []SlotsSound
<1>1. TypeOK /\ SlotsExact => SlotsSound
  BY HopsAssumption DEF TypeOK, SlotsSound
<1> QED
  BY <1>1, TypeCorrect, SlotsAreExact, PTL

-----------------------------------------------------------------------------
(* The network I/O thread, which carries the transfers of the hops: one     *)
(* loop at a time, no dangling transfer, and no fetch that is blocked while *)
(* nobody drives it, before a shutdown or because of its quit flag; for     *)
(* every set of fetches and any number of I/O threads.                     *)

(* Only the thread that g_multi_thread names can be running.                *)
RunningIsThread == \A l \in Loops : Running(l) => thread = l

NobodyWaits == \A f \in Callers : fetch[f] # "waiting"

WaitersKnown ==
    \A f \in Callers : fetch[f] = "waiting" => f \in incoming \cup table

(* Before a shutdown the thread that was started runs, with its table, and  *)
(* a fetch is past the test of g_multi only if there is one.                *)
BeforeShutdown ==
    main = "idle" =>
        /\ ~quit
        /\ thread = 0 => ~multi
        /\ thread # 0 => Running(thread) /\ hasTable
        /\ \A f \in Callers : fetch[f] \in {"checked", "waiting"} => thread # 0
        /\ WaitersKnown

(* While the thread is being joined it can only leave, and when it has left *)
(* nobody waits.  Nobody waits from then on until the flag is taken back.   *)
DuringShutdown ==
    /\ quit => main \in {"joining", "joined", "unthreaded", "nomulti", "notable"}
    /\ main = "joining" =>
          /\ quit
          /\ WaitersKnown
          /\ loop[joining] = "exited" => NobodyWaits
    /\ main \in {"joining", "joined"} => joining = thread /\ thread # 0
    /\ main = "joined" => loop[joining] = "exited"
    /\ quit /\ main # "joining" => NobodyWaits

MInv ==
    /\ MultiTypeOK
    /\ RunningIsThread
    /\ TransfersOnLiveStacks
    /\ BeforeShutdown
    /\ DuringShutdown

-----------------------------------------------------------------------------
LEMMA InitMInv == MultiInit => MInv
BY DEF MultiInit, MInv, MultiTypeOK, RunningIsThread, Running,
       TransfersOnLiveStacks, BeforeShutdown, DuringShutdown, WaitersKnown,
       NobodyWaits, FetchPhases, LoopPhases, MainPhases, Loops

-----------------------------------------------------------------------------
(* A fetch moves between two transfers, or past the test of g_multi.        *)
LEMMA MoveMInv ==
    ASSUME MInv, NEW f \in Callers,
           Begin(f) \/ Finish(f) \/ Check(f) \/ EasyEnds(f)
    PROVE  MInv'
<1> USE DEF MInv, MultiTypeOK, RunningIsThread, Running,
            TransfersOnLiveStacks, BeforeShutdown, DuringShutdown,
            WaitersKnown, NobodyWaits, FetchPhases, LoopPhases,
            MainPhases, Loops
<1>1. CASE Begin(f)
  BY <1>1 DEF Begin
<1>2. CASE Finish(f)
  BY <1>2 DEF Finish
<1>3. CASE Check(f)
  BY <1>3 DEF Check
<1>4. CASE EasyEnds(f)
  BY <1>4 DEF EasyEnds
<1> QED
  BY <1>1, <1>2, <1>3, <1>4

(* The new thread is the only one that runs.  It starts with an empty table: *)
(* before a shutdown, and under the quit flag, nobody waits at that time.   *)
LEMMA StartMInv ==
    ASSUME MInv, NEW f \in Callers, MultiStart(f)
    PROVE  MInv'
<1> USE DEF MInv, MultiTypeOK, RunningIsThread, Running,
            TransfersOnLiveStacks, BeforeShutdown, DuringShutdown,
            WaitersKnown, NobodyWaits, FetchPhases, LoopPhases,
            MainPhases, Loops
<1>1. CASE UNCHANGED <<table, hasTable, multi, thread, loop>>
  BY <1>1 DEF MultiStart
<1>2. CASE thread = 0 /\ multi' = FALSE /\ UNCHANGED <<table, hasTable, thread, loop>>
  BY <1>2 DEF MultiStart
<1>3. ASSUME NEW l \in Loops, thread = 0, loop[l] = "unborn", NewThread(l)
      PROVE  MInv'
  BY <1>3 DEF MultiStart, NewThread
<1> QED
  BY <1>1, <1>2, <1>3 DEF MultiStart

LEMMA EnqueueMInv ==
    ASSUME MInv, NEW f \in Callers, Enqueue(f)
    PROVE  MInv'
BY DEF MInv, MultiTypeOK, RunningIsThread, Running, TransfersOnLiveStacks,
       BeforeShutdown, DuringShutdown, WaitersKnown, NobodyWaits,
       FetchPhases, LoopPhases, MainPhases, Loops, Enqueue

-----------------------------------------------------------------------------
(* The loop that quits completes every transfer it knows, which while it is *)
(* being joined are all there are.                                          *)
LEMMA QuitMInv ==
    ASSUME MInv, NEW l \in Loops, Quit(l)
    PROVE  MInv'
BY DEF MInv, MultiTypeOK, RunningIsThread, Running, TransfersOnLiveStacks,
       BeforeShutdown, DuringShutdown, WaitersKnown, NobodyWaits,
       FetchPhases, LoopPhases, MainPhases, Loops, Quit, Completed,
       Aborted

LEMMA AdmitMInv ==
    ASSUME MInv, NEW l \in Loops, Admit(l)
    PROVE  MInv'
BY DEF MInv, MultiTypeOK, RunningIsThread, Running, TransfersOnLiveStacks,
       BeforeShutdown, DuringShutdown, WaitersKnown, NobodyWaits,
       FetchPhases, LoopPhases, MainPhases, Loops, Admit,
       Completed, TableWith, StillIncoming

LEMMA WorkMInv ==
    ASSUME MInv, NEW l \in Loops,
           Poll(l) \/ \E f \in Callers : Complete(l, f)
    PROVE  MInv'
<1> USE DEF MInv, MultiTypeOK, RunningIsThread, Running,
            TransfersOnLiveStacks, BeforeShutdown, DuringShutdown,
            WaitersKnown, NobodyWaits, FetchPhases, LoopPhases,
            MainPhases, Loops
<1>1. CASE Poll(l)
  BY <1>1 DEF Poll
<1>2. ASSUME NEW f \in Callers, Complete(l, f)
      PROVE  MInv'
  BY <1>2 DEF Complete, Completed
<1> QED
  BY <1>1, <1>2

-----------------------------------------------------------------------------
LEMMA ShutdownQuitMInv == MInv /\ ShutdownQuit => MInv'
BY DEF MInv, MultiTypeOK, RunningIsThread, Running, TransfersOnLiveStacks,
       BeforeShutdown, DuringShutdown, WaitersKnown, NobodyWaits,
       FetchPhases, LoopPhases, MainPhases, Loops, ShutdownQuit

LEMMA ShutdownMInv ==
    ASSUME MInv, ShutdownStep
    PROVE  MInv'
<1> USE DEF MInv, MultiTypeOK, RunningIsThread, Running,
            TransfersOnLiveStacks, BeforeShutdown, DuringShutdown,
            WaitersKnown, NobodyWaits, FetchPhases, LoopPhases,
            MainPhases, Loops
<1>1. CASE Join
  BY <1>1 DEF Join
<1>2. CASE ForgetThread
  BY <1>2 DEF ForgetThread
<1>3. CASE CleanMulti
  BY <1>3 DEF CleanMulti
<1>4. CASE DestroyTable
  BY <1>4 DEF DestroyTable
<1>5. CASE ResetQuit
  BY <1>5 DEF ResetQuit
<1>6. CASE DrainStart
  BY <1>6 DEF DrainStart
<1>7. CASE DrainDone
  BY <1>7 DEF DrainDone
<1>8. CASE DrainTimeout
  BY <1>8 DEF DrainTimeout
<1> QED
  BY <1>1, <1>2, <1>3, <1>4, <1>5, <1>6, <1>7, <1>8 DEF ShutdownStep

LEMMA StutterMInv == MInv /\ UNCHANGED multiVars => MInv'
BY DEF MInv, MultiTypeOK, RunningIsThread, Running, TransfersOnLiveStacks,
       BeforeShutdown, DuringShutdown, WaitersKnown, NobodyWaits,
       FetchPhases, LoopPhases, MainPhases, Loops, multiVars

LEMMA NextMInv == MInv /\ [MultiNext]_multiVars => MInv'
<1> SUFFICES ASSUME MInv, [MultiNext]_multiVars
             PROVE  MInv'
  OBVIOUS
<1>1. ASSUME NEW f \in Callers, Begin(f) \/ Finish(f) \/ FetchStep(f)
      PROVE  MInv'
  BY <1>1, MoveMInv, StartMInv, EnqueueMInv DEF FetchStep
<1>2. ASSUME NEW l \in Loops, LoopStep(l) \/ \E f \in Callers : Complete(l, f)
      PROVE  MInv'
  BY <1>2, QuitMInv, AdmitMInv, WorkMInv DEF LoopStep
<1> QED
  BY <1>1, <1>2, ShutdownQuitMInv, ShutdownMInv, StutterMInv DEF MultiNext

-----------------------------------------------------------------------------
(* The inductive invariant holds of every behaviour of the I/O thread.      *)
THEOREM MultiInvariance == MultiSpec => []MInv
BY InitMInv, NextMInv, PTL DEF MultiSpec

(* The variables keep their types: g_multi_thread names a thread that was   *)
(* started.                                                                 *)
THEOREM MultiTypeCorrect == MultiSpec => []MultiTypeOK
<1>1. MInv => MultiTypeOK
  BY DEF MInv
<1> QED
  BY <1>1, MultiInvariance, PTL

(* Two I/O threads never drive a multi handle together, even when a fetch   *)
(* starts one in the middle of ns_net_shutdown.                             *)
THEOREM OneLoopAtATime == MultiSpec => []OneLoop
<1>1. MInv => OneLoop
  BY DEF MInv, RunningIsThread, OneLoop
<1> QED
  BY <1>1, MultiInvariance, PTL

(* The pointers in g_multi_incoming and g_multi_active lead to stacks of    *)
(* pool threads that are still blocked.                                     *)
THEOREM PointersAreLive == MultiSpec => []TransfersOnLiveStacks
<1>1. MInv => TransfersOnLiveStacks
  BY DEF MInv
<1> QED
  BY <1>1, MultiInvariance, PTL

(* Whatever a shutdown does meanwhile, one I/O thread has the queue and the  *)
(* table, and all the pointers in them are live.                            *)
THEOREM LoopIsAlone == MultiSpec => []LoopOwnsTransfers
  BY OneLoopAtATime, PointersAreLive, PTL DEF LoopOwnsTransfers

(* Before a shutdown every blocked fetch is known to a thread that runs.    *)
THEOREM WaitersAreDriven == MultiSpec => []WaiterIsDriven
<1>1. MInv => WaiterIsDriven
  BY DEF MInv, MultiTypeOK, BeforeShutdown, WaitersKnown, WaiterIsDriven
<1> QED
  BY <1>1, MultiInvariance, PTL

(* Once the I/O thread has quit, and until g_multi_quit is taken back,      *)
(* nobody is blocked on a transfer.                                         *)
THEOREM QuittingStrandsNobody == MultiSpec => []QuitLeavesNobody
<1>1. MInv => QuitLeavesNobody
  BY DEF MInv, MultiTypeOK, DuringShutdown, NobodyWaits, QuitLeavesNobody,
         Running, LoopPhases
<1> QED
  BY <1>1, MultiInvariance, PTL

(* No fetch is blocked on a transfer that nobody drives, until a shutdown   *)
(* takes the quit flag back.                                                *)
THEOREM BlockedFetchesDriven == MultiSpec => []BlockedAreDriven
BY WaitersAreDriven, QuittingStrandsNobody, PTL DEF BlockedAreDriven
=============================================================================
