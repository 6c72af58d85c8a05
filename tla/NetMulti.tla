------------------------------- MODULE NetMulti -------------------------------
(***************************************************************************)
(* The network I/O thread of src/src/net.c: one curl multi handle driven by *)
(* one thread, to which the pool threads hand their transfers, and the      *)
(* order in which ns_net_shutdown takes it down.                           *)
(*                                                                         *)
(* A pool thread makes one transfer after another (a hop per redirect) and  *)
(* blocks in ns_net_multi_perform during each.  The critical sections of    *)
(* g_multi_lock are one action each; so is every assignment that            *)
(* ns_net_multi_shutdown makes without the lock.                           *)
(*                                                                         *)
(* The specification's names carry Multi, so that one module can extend     *)
(* this one beside FetchHops.                                              *)
(***************************************************************************)
EXTENDS Integers, FiniteSets

CONSTANTS
    Callers,   \* tasks that run ns_fetch_sync on a pool thread
    MaxLoops   \* bound on the I/O threads ever started

ASSUME MultiAssumption == IsFiniteSet(Callers) /\ MaxLoops \in Nat

VARIABLES
    fetch,     \* where each fetch is
    incoming,  \* g_multi_incoming (the loop always takes all of it)
    table,     \* g_multi_active: the transfers in it
    hasTable,  \* g_multi_active is not NULL
    multi,     \* g_multi is not NULL
    quit,      \* g_multi_quit
    thread,    \* g_multi_thread: 0, or the number of the thread
    loop,      \* where each I/O thread is
    main,      \* where ns_net_shutdown is
    joining    \* t in ns_net_multi_shutdown

multiVars == <<fetch, incoming, table, hasTable, multi, quit, thread, loop,
               main, joining>>

Loops == 1..MaxLoops

(* "hop": between two transfers; "started": ns_net_multi_start is done;     *)
(* "checked": g_multi was seen non-NULL; "waiting": blocked on the          *)
(* transfer's condition; "easy": in curl_easy_perform.                     *)
FetchPhases == {"queued", "hop", "started", "checked", "waiting", "easy",
                "finished"}

(* "top": about to lock; "work": in the unlocked half of an iteration.     *)
LoopPhases == {"unborn", "top", "work", "exited"}

MainPhases == {"idle", "joining", "joined", "unthreaded", "nomulti",
               "notable", "reset", "draining", "cleaned", "timedout"}

MultiTypeOK ==
    /\ fetch \in [Callers -> FetchPhases]
    /\ incoming \subseteq Callers
    /\ table \subseteq Callers
    /\ hasTable \in BOOLEAN
    /\ multi \in BOOLEAN
    /\ quit \in BOOLEAN
    /\ thread \in {0} \cup {l \in Loops : loop[l] # "unborn"}
    /\ loop \in [Loops -> LoopPhases]
    /\ main \in MainPhases
    /\ joining \in Loops \cup {0}

MultiInit ==
    /\ fetch = [f \in Callers |-> "queued"]
    /\ incoming = {}
    /\ table = {}
    /\ hasTable = FALSE
    /\ multi = FALSE
    /\ quit = FALSE
    /\ thread = 0
    /\ loop = [l \in Loops |-> "unborn"]
    /\ main = "idle"
    /\ joining = 0

Running(l) == loop[l] \in {"top", "work"}

InFlight(f) == fetch[f] \notin {"queued", "finished"}

-----------------------------------------------------------------------------
(* Pool threads.                                                           *)

(* A queued fetch gets a pool thread: while the browser runs, from any      *)
(* submission; during shutdown, from another fetch that ends, until the     *)
(* drain has emptied the queue.                                            *)
Begin(f) ==
    /\ main = "idle"
    /\ fetch[f] = "queued"
    /\ fetch' = [fetch EXCEPT ![f] = "hop"]
    /\ UNCHANGED <<incoming, table, hasTable, multi, quit, thread, loop,
                   main, joining>>

Finish(f) ==
    /\ fetch[f] = "hop"
    /\ \/ fetch' = [fetch EXCEPT ![f] = "finished"]
       \/ /\ main \notin {"draining", "cleaned", "timedout"}
          /\ \E g \in Callers :
                /\ fetch[g] = "queued"
                /\ fetch' = [fetch EXCEPT ![f] = "finished", ![g] = "hop"]
    /\ UNCHANGED <<incoming, table, hasTable, multi, quit, thread, loop,
                   main, joining>>

(* A new handle, a new table and a thread for them.                        *)
NewThread(l) ==
    /\ loop' = [loop EXCEPT ![l] = "top"]
    /\ thread' = l
    /\ multi' = TRUE
    /\ hasTable' = TRUE
    /\ table' = {}

(* ns_net_multi_start: nothing to do, a new thread, or curl_multi_init      *)
(* failed.                                                                 *)
MultiStart(f) ==
    /\ fetch[f] = "hop"
    /\ fetch' = [fetch EXCEPT ![f] = "started"]
    /\ \/ /\ thread # 0
          /\ UNCHANGED <<table, hasTable, multi, thread, loop>>
       \/ /\ thread = 0
          /\ \E l \in Loops :
                /\ loop[l] = "unborn"
                /\ \A k \in 1..(l - 1) : loop[k] # "unborn"
                /\ NewThread(l)
       \/ /\ thread = 0
          /\ multi' = FALSE
          /\ UNCHANGED <<table, hasTable, thread, loop>>
    /\ UNCHANGED <<incoming, quit, main, joining>>

(* The test of g_multi, without the lock.                                  *)
Check(f) ==
    /\ fetch[f] = "started"
    /\ fetch' = [fetch EXCEPT ![f] = IF multi THEN "checked" ELSE "easy"]
    /\ UNCHANGED <<incoming, table, hasTable, multi, quit, thread, loop,
                   main, joining>>

(* The lock of ns_net_multi_perform: queue the transfer and wait for it, or *)
(* fall back to a transfer of one's own when the I/O thread is quitting.    *)
Enqueue(f) ==
    /\ fetch[f] = "checked"
    /\ IF quit
       THEN /\ fetch' = [fetch EXCEPT ![f] = "easy"]
            /\ UNCHANGED incoming
       ELSE /\ fetch' = [fetch EXCEPT ![f] = "waiting"]
            /\ incoming' = incoming \cup {f}
    /\ UNCHANGED <<table, hasTable, multi, quit, thread, loop, main, joining>>

EasyEnds(f) ==
    /\ fetch[f] = "easy"
    /\ fetch' = [fetch EXCEPT ![f] = "hop"]
    /\ UNCHANGED <<incoming, table, hasTable, multi, quit, thread, loop,
                   main, joining>>

-----------------------------------------------------------------------------
(* ns_net_multi_loop.                                                      *)

(* ns_net_multi_finish_locked for a set of transfers; each wakes its fetch. *)
Completed(S) == [f \in Callers |-> IF f \in S THEN "hop" ELSE fetch[f]]

(* Mutant: quitting forgets the transfers that were not added yet.         *)
AbortedActiveOnly == table

(* What the quit branch aborts: everything that is active or incoming.     *)
Aborted == table \cup incoming

Quit(l) ==
    /\ loop[l] = "top"
    /\ quit
    /\ fetch' = Completed(Aborted)
    /\ table' = {}
    /\ incoming' = {}
    /\ loop' = [loop EXCEPT ![l] = "exited"]
    /\ UNCHANGED <<hasTable, multi, quit, thread, main, joining>>

(* Mutant: a transfer that was added is not entered.                       *)
TableWithout(added) == table

(* Insertion into a table that is gone is a no-op.                         *)
TableWith(added) == IF hasTable THEN table \cup added ELSE table

(* Mutant: a transfer curl does not take fails and stays in the queue.     *)
LeftIncoming(added) == incoming \ added

(* The queue is popped until it is empty.                                  *)
StillIncoming(added) == {}

(* Otherwise the incoming transfers are added; one that curl does not take  *)
(* fails at once.                                                          *)
Admit(l) ==
    /\ loop[l] = "top"
    /\ ~quit
    /\ \E added \in SUBSET incoming :
          /\ added # {} => multi
          /\ table' = TableWith(added)
          /\ fetch' = Completed(incoming \ added)
          /\ incoming' = StillIncoming(added)
    /\ loop' = [loop EXCEPT ![l] = "work"]
    /\ UNCHANGED <<hasTable, multi, quit, thread, main, joining>>

(* Mutant: the transfer leaves the table, its fetch is not woken.          *)
CompleteSilently(l, f) ==
    /\ loop[l] = "work"
    /\ f \in table
    /\ table' = table \ {f}
    /\ UNCHANGED <<fetch, incoming, hasTable, multi, quit, thread, loop,
                   main, joining>>

(* CURLMSG_DONE for one transfer.                                          *)
Complete(l, f) ==
    /\ loop[l] = "work"
    /\ f \in table
    /\ table' = table \ {f}
    /\ fetch' = Completed({f})
    /\ UNCHANGED <<incoming, hasTable, multi, quit, thread, loop, main, joining>>

(* curl_multi_poll returns: its timeout or curl_multi_wakeup.              *)
Poll(l) ==
    /\ loop[l] = "work"
    /\ loop' = [loop EXCEPT ![l] = "top"]
    /\ UNCHANGED <<fetch, incoming, table, hasTable, multi, quit, thread,
                   main, joining>>

-----------------------------------------------------------------------------
(* ns_net_shutdown: ns_net_multi_shutdown, then ns_net_drain, then          *)
(* curl_global_cleanup.                                                    *)

(* Mutant: the thread is told to quit only if it has transfers.            *)
ShutdownQuittingIfBusy ==
    /\ main = "idle"
    /\ joining' = thread
    /\ quit' = (table # {})
    /\ main' = IF thread # 0 THEN "joining" ELSE "unthreaded"
    /\ UNCHANGED <<fetch, incoming, table, hasTable, multi, thread, loop>>

ShutdownQuit ==
    /\ main = "idle"
    /\ joining' = thread
    /\ quit' = (thread # 0)
    /\ main' = IF thread # 0 THEN "joining" ELSE "unthreaded"
    /\ UNCHANGED <<fetch, incoming, table, hasTable, multi, thread, loop>>

(* Mutant: the handle is forgotten before its thread has ended.            *)
JoinNot ==
    /\ main = "joining"
    /\ main' = "joined"
    /\ UNCHANGED <<fetch, incoming, table, hasTable, multi, quit, thread,
                   loop, joining>>

Join ==
    /\ main = "joining"
    /\ loop[joining] = "exited"
    /\ main' = "joined"
    /\ UNCHANGED <<fetch, incoming, table, hasTable, multi, quit, thread,
                   loop, joining>>

(* The rest runs without g_multi_lock.                                     *)
ForgetThread ==
    /\ main = "joined"
    /\ main' = "unthreaded"
    /\ thread' = 0
    /\ UNCHANGED <<fetch, incoming, table, hasTable, multi, quit, loop, joining>>

CleanMulti ==
    /\ main = "unthreaded"
    /\ main' = "nomulti"
    /\ multi' = FALSE
    /\ UNCHANGED <<fetch, incoming, table, hasTable, quit, thread, loop, joining>>

DestroyTable ==
    /\ main = "nomulti"
    /\ main' = "notable"
    /\ hasTable' = FALSE
    /\ table' = {}
    /\ UNCHANGED <<fetch, incoming, multi, quit, thread, loop, joining>>

ResetQuit ==
    /\ main = "notable"
    /\ main' = "reset"
    /\ quit' = FALSE
    /\ UNCHANGED <<fetch, incoming, table, hasTable, multi, thread, loop, joining>>

(* ns_net_drain: no task is dispatched any more.                           *)
DrainStart ==
    /\ main = "reset"
    /\ main' = "draining"
    /\ UNCHANGED <<fetch, incoming, table, hasTable, multi, quit, thread,
                   loop, joining>>

(* It returns TRUE when no fetch is active; curl_global_cleanup follows.   *)
DrainDone ==
    /\ main = "draining"
    /\ \A f \in Callers : ~InFlight(f)
    /\ main' = "cleaned"
    /\ UNCHANGED <<fetch, incoming, table, hasTable, multi, quit, thread,
                   loop, joining>>

(* Three seconds pass: ns_net_shutdown leaves everything as it is.         *)
DrainTimeout ==
    /\ main = "draining"
    /\ \E f \in Callers : InFlight(f)
    /\ main' = "timedout"
    /\ UNCHANGED <<fetch, incoming, table, hasTable, multi, quit, thread,
                   loop, joining>>

-----------------------------------------------------------------------------
FetchStep(f) == MultiStart(f) \/ Check(f) \/ Enqueue(f) \/ EasyEnds(f)

LoopStep(l) == Quit(l) \/ Admit(l) \/ Poll(l)

ShutdownStep ==
    \/ Join \/ ForgetThread \/ CleanMulti \/ DestroyTable \/ ResetQuit
    \/ DrainStart \/ DrainDone \/ DrainTimeout

MultiNext ==
    \/ \E f \in Callers : Begin(f) \/ Finish(f) \/ FetchStep(f)
    \/ \E l \in Loops :
          LoopStep(l) \/ \E f \in Callers : Complete(l, f)
    \/ ShutdownQuit
    \/ ShutdownStep

MultiSpec == MultiInit /\ [][MultiNext]_multiVars

(* Threads keep running.  A transfer that the I/O thread keeps driving ends *)
(* (curl's timeouts bound it), although the thread is in the half of its    *)
(* loop that can see it end only now and then.                             *)
MultiFairness ==
    /\ \A f \in Callers : WF_multiVars(FetchStep(f))
    /\ \A l \in Loops : WF_multiVars(LoopStep(l))
    /\ \A l \in Loops, f \in Callers : SF_multiVars(Complete(l, f))
    /\ WF_multiVars(ShutdownStep)

MultiFairSpec == MultiSpec /\ MultiFairness

-----------------------------------------------------------------------------
(* Properties.                                                             *)

(* curl allows one thread at a time to drive a multi handle: two I/O        *)
(* threads never run together, even if a fetch starts one in the middle of  *)
(* a shutdown.                                                             *)
OneLoop == \A k, l \in Loops : Running(k) /\ Running(l) => k = l

(* The queue and the table hold pointers to transfers on the stacks of pool *)
(* threads: each of them points to a thread that is still blocked, and no   *)
(* transfer is in both.                                                    *)
TransfersOnLiveStacks ==
    /\ incoming \cap table = {}
    /\ \A f \in incoming \cup table : fetch[f] = "waiting"

(* The I/O thread is alone with g_multi_incoming and g_multi_active, and     *)
(* what it finds there is alive, whatever a shutdown does meanwhile         *)
(* (net.c, ns_net_multi_start and ns_net_multi_loop).                       *)
LoopOwnsTransfers == OneLoop /\ TransfersOnLiveStacks

(* Before a shutdown, a blocked fetch is always known to a running thread.  *)
WaiterIsDriven ==
    main = "idle" =>
        \A f \in Callers : fetch[f] = "waiting" =>
            /\ f \in incoming \cup table
            /\ \E l \in Loops : Running(l) /\ thread = l

(* Telling the I/O thread to quit strands nobody: once it has ended, and    *)
(* until the flag is taken back, no fetch is blocked on a transfer.        *)
QuitLeavesNobody ==
    quit /\ (\A l \in Loops : ~Running(l)) =>
        \A f \in Callers : fetch[f] # "waiting"

(* A blocked fetch is never alone with its transfer: before a shutdown a    *)
(* running thread knows it, and a thread that was told to quit has woken it *)
(* (net.c, ns_net_multi_perform hands a pointer into its stack over).      *)
BlockedAreDriven == WaiterIsDriven /\ QuitLeavesNobody

(* While the browser runs, every transfer ends.                            *)
TransfersEnd ==
    \A f \in Callers :
        fetch[f] = "waiting" ~> fetch[f] # "waiting" \/ main # "idle"

(* ns_net_shutdown returns: the I/O thread can be joined whatever it is     *)
(* doing, and the drain does not wait for a fetch that never ends.         *)
ShutdownReturns == main = "joining" ~> main \in {"cleaned", "timedout"}
=============================================================================
