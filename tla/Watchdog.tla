------------------------------ MODULE Watchdog ------------------------------
(***************************************************************************)
(* The supervisor of src/src/watchdog.c and the shell it keeps alive: the   *)
(* spawn, the exit status that decides between an end and a restart, the    *)
(* burst limit, the two signals, the hang monitor inside the child, the     *)
(* death of the supervisor itself, and the session file by which a crashed  *)
(* shell hands its pages to the next one (src/src/gtk/procwindow.c).        *)
(*                                                                         *)
(* Processes: the supervisor, one main loop whose callbacks are one action  *)
(* each; the child; the user and the system, who may kill either.  A loop   *)
(* that was asked to quit still runs the callbacks of its current           *)
(* iteration: the state "quitting", in which no time passes.                *)
(* Time is a clock of seconds without an end: the model keeps the ages of   *)
(* what it compares, each up to the value at which it stops to matter.      *)
(***************************************************************************)
EXTENDS Integers, FiniteSetsExt

CONSTANTS
    Pages,      \* the http(s) and file URLs the user opens
    NoFile,     \* the session file does not exist
    BurstMax,   \* NS_WATCHDOG_BURST_MAX
    BurstSecs,  \* NS_WATCHDOG_BURST_SECS
    Backoff,    \* NS_WATCHDOG_BACKOFF_MS
    Grace,      \* NS_WATCHDOG_STOP_GRACE_SECS
    HangSecs,   \* g_hang_secs
    InitAdopts  \* orphans are adopted by process 1, not by a subreaper

ASSUME WatchdogAssumption ==
    /\ \A S \in SUBSET Pages : S # NoFile
    /\ BurstMax \in Nat \ {0}
    /\ BurstSecs \in Nat \ {0}
    /\ Backoff \in Nat
    /\ Grace \in Nat
    /\ HangSecs \in Nat
    /\ InitAdopts \in BOOLEAN

VARIABLES
    sup,         \* where ns_watchdog_run_supervisor is
    havePid,     \* wd.have_pid: a child is spawned and not reaped
    stopping,    \* wd.stopping
    exitStatus,  \* wd.exit_status
    burstAge,    \* the time since wd.burst_start_us
    burstCount,  \* wd.burst_count
    respawnIn,   \* what is left of the respawn timer, or Off
    killIn,      \* what is left of the force-kill timer, or Off
    child,       \* where the child process is
    status,      \* how it exited, while it is not reaped
    recover,     \* NS_WATCHDOG_RECOVER in its environment
    termed,      \* a SIGTERM is on its way to it
    killed,      \* a SIGKILL is on its way to it
    quietFor,    \* how long its heartbeat has stood still
    loaded,      \* tabs with a current_url
    pending,     \* tabs that are still deferred or loading
    file,        \* the session file
    recent       \* history: how many failures of each age, up to BurstSecs

supVars == <<sup, havePid, stopping, exitStatus>>
burstVars == <<burstAge, burstCount, recent>>
timers == <<respawnIn, killIn>>
childVars == <<child, status, recover, termed, killed, quietFor>>
tabs == <<loaded, pending>>
vars == <<supVars, burstVars, timers, childVars, tabs, file>>

Off == -1
Statuses == {"clean", "crash", "stop"}
Alive == {"starting", "armed", "up", "hung"}
LoopRuns == sup \in {"running", "quitting"}

SupervisorTypes ==
    /\ sup \in {"starting", "running", "quitting", "ended", "dead"}
    /\ havePid \in BOOLEAN
    /\ stopping \in BOOLEAN
    /\ exitStatus \in {0, 1}

TimeTypes ==
    /\ burstAge \in 0 .. BurstSecs + 1
    /\ burstCount \in 0 .. BurstMax + 1
    /\ respawnIn \in {Off} \cup 0 .. Backoff
    /\ killIn \in {Off} \cup 0 .. Grace
    /\ quietFor \in 0 .. HangSecs + 1
    /\ recent \in [0 .. BurstSecs -> Nat]

ChildTypes ==
    /\ child \in Alive \cup {"none", "exited"}
    /\ status \in Statuses
    /\ recover \in BOOLEAN
    /\ termed \in BOOLEAN
    /\ killed \in BOOLEAN

TabTypes ==
    /\ loaded \subseteq Pages
    /\ pending \subseteq Pages
    /\ file = NoFile \/ file \subseteq Pages

TypeOK == SupervisorTypes /\ TimeTypes /\ ChildTypes /\ TabTypes

Init ==
    /\ sup = "starting"
    /\ havePid = FALSE
    /\ stopping = FALSE
    /\ exitStatus = 0
    /\ burstAge = 0
    /\ burstCount = 0
    /\ respawnIn = Off
    /\ killIn = Off
    /\ child = "none"
    /\ status = "clean"
    /\ recover = FALSE
    /\ termed = FALSE
    /\ killed = FALSE
    /\ quietFor = 0
    /\ loaded = {}
    /\ pending = {}
    /\ file = NoFile
    /\ recent = [age \in 0 .. BurstSecs |-> 0]

-----------------------------------------------------------------------------
(* The supervisor.                                                         *)

(* Mutant: a spawn that fails is reported, but the loop goes on.           *)
SpawnKeepsLooping(rec) ==
    \/ /\ child' = "starting"
       /\ recover' = rec
       /\ havePid' = TRUE
       /\ termed' = FALSE
       /\ killed' = FALSE
       /\ quietFor' = 0
       /\ sup' = IF sup = "starting" THEN "running" ELSE sup
       /\ UNCHANGED <<exitStatus, status>>
    \/ /\ sup' = IF sup = "starting" THEN "quitting" ELSE sup
       /\ exitStatus' = 1
       /\ UNCHANGED <<havePid, childVars>>

(* ns_watchdog_spawn: the child starts, or exit_status is set and the loop  *)
(* is asked to quit.                                                        *)
Spawn(rec) ==
    \/ /\ child' = "starting"
       /\ recover' = rec
       /\ havePid' = TRUE
       /\ termed' = FALSE
       /\ killed' = FALSE
       /\ quietFor' = 0
       /\ sup' = IF sup = "starting" THEN "running" ELSE sup
       /\ UNCHANGED <<exitStatus, status>>
    \/ /\ sup' = "quitting"
       /\ exitStatus' = 1
       /\ UNCHANGED <<havePid, childVars>>

(* ns_watchdog_run_supervisor up to g_main_loop_run.                        *)
Start ==
    /\ sup = "starting"
    /\ Spawn(FALSE)
    /\ UNCHANGED <<stopping, burstVars, timers, tabs, file>>

(* Mutant: the timer restarts whatever the user asked meanwhile.           *)
RespawnAnyway ==
    /\ LoopRuns
    /\ respawnIn = 0
    /\ respawnIn' = Off
    /\ Spawn(TRUE)
    /\ UNCHANGED <<stopping, burstVars, killIn, tabs, file>>

(* ns_watchdog_respawn_cb.                                                 *)
Respawn ==
    /\ LoopRuns
    /\ respawnIn = 0
    /\ respawnIn' = Off
    /\ IF stopping
       THEN UNCHANGED <<sup, havePid, exitStatus, childVars>>
       ELSE Spawn(TRUE)
    /\ UNCHANGED <<stopping, burstVars, killIn, tabs, file>>

(* The burst the next failure is counted in: a new one when the last one    *)
(* began more than BurstSecs ago.                                           *)
NextCount == IF burstAge > BurstSecs THEN 1 ELSE burstCount + 1

(* Mutant: the count is not begun anew with the window.                    *)
ScheduleRestartNoReset ==
    /\ burstAge' = IF burstAge > BurstSecs THEN 0 ELSE burstAge
    /\ burstCount' = burstCount + 1
    /\ recent' = [recent EXCEPT ![0] = @ + 1]
    /\ IF burstCount + 1 > BurstMax
       THEN /\ sup' = "quitting"
            /\ exitStatus' = 1
            /\ UNCHANGED respawnIn
       ELSE /\ respawnIn' = Backoff
            /\ UNCHANGED <<sup, exitStatus>>

(* ns_watchdog_schedule_restart.                                           *)
ScheduleRestart ==
    /\ burstAge' = IF burstAge > BurstSecs THEN 0 ELSE burstAge
    /\ burstCount' = NextCount
    /\ recent' = [recent EXCEPT ![0] = @ + 1]
    /\ IF NextCount > BurstMax
       THEN /\ sup' = "quitting"
            /\ exitStatus' = 1
            /\ UNCHANGED respawnIn
       ELSE /\ respawnIn' = Backoff
            /\ UNCHANGED <<sup, exitStatus>>

(* ns_watchdog_child_exited: the child is reaped; a stop request, a clean   *)
(* status or a stop signal ends the loop, anything else is a failure.       *)
ChildExited ==
    /\ LoopRuns
    /\ havePid
    /\ child = "exited"
    /\ havePid' = FALSE
    /\ child' = "none"
    /\ IF stopping
       THEN /\ sup' = "quitting"
            /\ UNCHANGED <<exitStatus, burstVars, respawnIn>>
       ELSE IF status \in {"clean", "stop"}
       THEN /\ sup' = "quitting"
            /\ exitStatus' = 0
            /\ UNCHANGED <<burstVars, respawnIn>>
       ELSE ScheduleRestart
    /\ UNCHANGED <<stopping, killIn, status, recover, termed, killed,
                   quietFor, tabs, file>>

(* ns_watchdog_signal_cb: SIGINT or SIGTERM; only the first one acts.      *)
Signal ==
    /\ LoopRuns
    /\ ~stopping
    /\ stopping' = TRUE
    /\ exitStatus' = 0
    /\ IF havePid
       THEN /\ termed' = TRUE
            /\ killIn' = Grace
            /\ UNCHANGED sup
       ELSE /\ sup' = "quitting"
            /\ UNCHANGED <<termed, killIn>>
    /\ UNCHANGED <<havePid, burstVars, respawnIn, child, status, recover,
                   killed, quietFor, tabs, file>>

(* Mutant: the timer is armed, its callback does not kill.                 *)
ForceKillTermsAgain ==
    /\ LoopRuns
    /\ killIn = 0
    /\ killIn' = Off
    /\ termed' = (havePid \/ termed)
    /\ UNCHANGED <<supVars, burstVars, respawnIn, child, status, recover,
                   killed, quietFor, tabs, file>>

(* Mutant: the loop is left with the kill, the child is not waited for.     *)
ForceKillAndQuit ==
    /\ LoopRuns
    /\ killIn = 0
    /\ killIn' = Off
    /\ killed' = (havePid \/ killed)
    /\ sup' = "quitting"
    /\ UNCHANGED <<havePid, stopping, exitStatus, burstVars, respawnIn, child,
                   status, recover, termed, quietFor, tabs, file>>

(* ns_watchdog_force_kill_cb.                                              *)
ForceKill ==
    /\ LoopRuns
    /\ killIn = 0
    /\ killIn' = Off
    /\ killed' = (havePid \/ killed)
    /\ UNCHANGED <<supVars, burstVars, respawnIn, child, status, recover,
                   termed, quietFor, tabs, file>>

(* ns_watchdog_run_supervisor after g_main_loop_run: the watch is removed,  *)
(* a child that is left is killed, the session file is unlinked.            *)
Finish ==
    /\ sup = "quitting"
    /\ sup' = "ended"
    /\ killed' = (havePid \/ killed)
    /\ file' = NoFile
    /\ UNCHANGED <<havePid, stopping, exitStatus, burstVars, timers, child,
                   status, recover, termed, quietFor, tabs>>

(* Somebody kills the supervisor.  The kernel sends the child the signal it *)
(* asked for with PR_SET_PDEATHSIG, if it has asked.                        *)
SupervisorDies ==
    /\ LoopRuns
    /\ sup' = "dead"
    /\ termed' = (termed \/ child \in {"armed", "up", "hung"})
    /\ UNCHANGED <<havePid, stopping, exitStatus, burstVars, timers, child,
                   status, recover, killed, quietFor, tabs, file>>

-----------------------------------------------------------------------------
(* The child.                                                              *)

(* A process that ends takes its tabs with it; when the user closed the     *)
(* window, there is nothing left to restore.                                *)
EndsAs(how) ==
    /\ child' = "exited"
    /\ status' = how
    /\ loaded' = {}
    /\ pending' = {}
    /\ UNCHANGED <<supVars, burstVars, timers, recover, termed, killed,
                   quietFor, file>>

(* ns_watchdog_child_guard_parent_death: prctl(PR_SET_PDEATHSIG, SIGTERM).  *)
ArmParentDeath ==
    /\ child = "starting"
    /\ child' = "armed"
    /\ UNCHANGED <<supVars, burstVars, timers, status, recover, termed,
                   killed, quietFor, tabs, file>>

(* ... then getppid() == 1: the supervisor died before the prctl, and the   *)
(* child was adopted by process 1.  Adopted by another it goes on.          *)
FindsParentDead ==
    /\ child = "armed"
    /\ sup = "dead" /\ InitAdopts
    /\ EndsAs("clean")

(* on_proc_activate: a recovering shell opens the recorded pages, which are *)
(* then deferred or loading.                                                *)
OpenWindow ==
    /\ child' = "up"
    /\ quietFor' = 0
    /\ loaded' = {}
    /\ pending' = IF recover /\ file # NoFile THEN file ELSE {}
    /\ UNCHANGED <<supVars, burstVars, timers, status, recover, termed,
                   killed, file>>

(* Mutant: the parent is not looked at.                                    *)
ActivateUnchecked ==
    /\ child = "armed"
    /\ OpenWindow

Activate ==
    /\ child = "armed"
    /\ sup = "dead" => ~InitAdopts
    /\ OpenWindow

(* The user opens a page: do_load leaves current_url alone.                *)
OpenTab(p) ==
    /\ child = "up"
    /\ p \notin loaded \cup pending
    /\ pending' = pending \cup {p}
    /\ UNCHANGED <<supVars, burstVars, timers, childVars, loaded, file>>

(* on_result sets current_url once the page has been opened.               *)
PageLoads(p) ==
    /\ child = "up"
    /\ p \in pending
    /\ pending' = pending \ {p}
    /\ loaded' = loaded \cup {p}
    /\ UNCHANGED <<supVars, burstVars, timers, childVars, file>>

CloseTab(p) ==
    /\ child = "up"
    /\ p \in loaded \cup pending
    /\ pending' = pending \ {p}
    /\ loaded' = loaded \ {p}
    /\ UNCHANGED <<supVars, burstVars, timers, childVars, file>>

(* write_session_cb, every four seconds: the tabs with a current_url.       *)
WriteSession ==
    /\ child = "up"
    /\ file' = loaded
    /\ UNCHANGED <<supVars, burstVars, timers, childVars, tabs>>

CloseWindow == child = "up" /\ EndsAs("clean")

Crash == child \in {"starting", "armed", "up"} /\ EndsAs("crash")

(* Somebody else sends the child a stop signal.                            *)
KilledFromOutside == child \in Alive /\ EndsAs("stop")

(* The main loop of the shell stands still, and may come round again.      *)
Hang ==
    /\ child = "up"
    /\ child' = "hung"
    /\ UNCHANGED <<supVars, burstVars, timers, status, recover, termed,
                   killed, quietFor, tabs, file>>

Unhang ==
    /\ child = "hung"
    /\ child' = "up"
    /\ quietFor' = 0
    /\ UNCHANGED <<supVars, burstVars, timers, status, recover, termed,
                   killed, tabs, file>>

(* ns_watchdog_hang_thread: _Exit(NS_WATCHDOG_HANG_EXIT).                  *)
HangExit ==
    /\ child = "hung"
    /\ quietFor > HangSecs
    /\ EndsAs("crash")

(* SIGTERM has its default effect, unless the process is stopped or stuck   *)
(* in the kernel; SIGKILL always works.                                     *)
DiesOfTerm == termed /\ child \in Alive /\ EndsAs("stop")
DiesOfKill == killed /\ child \in Alive /\ EndsAs("stop")

-----------------------------------------------------------------------------
(* A second passes.                                                        *)

Older(age, limit) == IF age < limit THEN age + 1 ELSE age
Left(timer) == IF timer > 0 THEN timer - 1 ELSE timer

Tick ==
    /\ sup \in {"running", "dead"}
    /\ burstAge' = Older(burstAge, BurstSecs + 1)
    /\ respawnIn' = Left(respawnIn)
    /\ killIn' = Left(killIn)
    /\ quietFor' = IF child = "hung" THEN Older(quietFor, HangSecs + 1) ELSE 0
    /\ recent' = [age \in 0 .. BurstSecs |->
                    IF age = 0 THEN 0 ELSE recent[age - 1]]
    /\ UNCHANGED <<supVars, burstCount, child, status, recover, termed,
                   killed, tabs, file>>

SupervisorStep ==
    \/ Start \/ Respawn \/ ChildExited \/ Signal
    \/ ForceKill \/ Finish \/ SupervisorDies

ChildStep ==
    \/ ArmParentDeath \/ FindsParentDead \/ Activate
    \/ \E p \in Pages : OpenTab(p) \/ PageLoads(p) \/ CloseTab(p)
    \/ WriteSession \/ CloseWindow \/ Crash \/ KilledFromOutside
    \/ Hang \/ Unhang \/ HangExit \/ DiesOfTerm \/ DiesOfKill

Next == SupervisorStep \/ ChildStep \/ Tick

Spec == Init /\ [][Next]_vars

(* The supervisor's main loop dispatches what is due, the clock runs, and   *)
(* the kernel delivers SIGKILL.  The child owes nothing, but its start and  *)
(* its monitor thread are not stopped for ever.                             *)
Fairness ==
    /\ WF_vars(Tick)
    /\ WF_vars(Start)
    /\ WF_vars(Respawn)
    /\ WF_vars(ChildExited)
    /\ WF_vars(ForceKill)
    /\ WF_vars(Finish)
    /\ WF_vars(HangExit)
    /\ WF_vars(DiesOfKill)

FairSpec == Spec /\ Fairness

-----------------------------------------------------------------------------
(* No browser runs unsupervised and unasked to stop.  When the supervisor   *)
(* has ended, it has reaped every child it spawned and the session file is  *)
(* gone, so that the next launch has nothing to recover; a child whose      *)
(* supervisor died is told so, also when it was so young that it had not    *)
(* yet asked for the signal - where orphans are adopted by process 1.       *)
LeavesNothing ==
    sup = "ended" => child = "none" /\ ~havePid /\ file = NoFile

OrphanIsTold ==
    sup = "dead" /\ child \in {"up", "hung"} => termed \/ ~InitAdopts

NoStrayBrowser == LeavesNothing /\ OrphanIsTold

(* The failures of the last BurstSecs.                                     *)
Recent == MapThenSumSet(LAMBDA age : recent[age], 0 .. BurstSecs)

(* The crash-loop guard as the code computes it: within BurstSecs there are *)
(* never more than twice BurstMax failures that were answered by a restart, *)
(* because a window that begins anew forgets the one before it; and the     *)
(* supervisor gives up only if more than BurstMax failures really fell into *)
(* the last BurstSecs.                                                      *)
CrashLoopGuard ==
    /\ respawnIn # Off => Recent <= 2 * BurstMax
    /\ sup = "quitting" /\ burstCount > BurstMax => Recent > BurstMax

(* After a stop request no browser is started any more, and SIGKILL goes    *)
(* only to a child that was asked to stop before: a timer that outlives its *)
(* child never hits another one.                                            *)
StopIsFinal ==
    [][/\ stopping /\ child = "none" => child' = "none"
       /\ killed' /\ ~killed => stopping /\ termed]_vars

(* A stop request ends the supervisor, however stuck the child is.         *)
StopEnds == stopping ~> sup \in {"ended", "dead"}

(* A browser that crashes, or whose main loop hangs for good, is running    *)
(* again some time later, or the supervisor ends: no failure is just left.  *)
FailureIsAnswered ==
    (child \in {"exited", "hung"} /\ LoopRuns)
        ~> (child \in {"starting", "up"} \/ sup \in {"ended", "dead"})

=============================================================================
