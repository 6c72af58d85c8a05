-------------------------- MODULE PageEvents_proofs --------------------------
(***************************************************************************)
(* Proofs that a freed page is left alone and that no event of a stream is  *)
(* given to it twice, for any queue limits and any amount of traffic.       *)
(* What carries the first is what each join leaves behind: a thread that    *)
(* has ended, and a flag that keeps the events it posted before from the    *)
(* page.  What carries the second is where an event can be: not read yet,   *)
(* in one place of one queue, or with the page.                             *)
(***************************************************************************)
EXTENDS PageEvents, Sequences, SequenceTheorems, TLAPS

Kinds == Socket!Kinds

(* The events of the socket are of the four kinds the page has handlers for. *)
EventTypes == wsIdles \in Seq(Kinds) /\ wsHeld \in Seq(Kinds)

Flags ==
    /\ wsDetached \in BOOLEAN
    /\ wsGone \in BOOLEAN
    /\ wkOwnerAlive \in BOOLEAN
    /\ wkGone \in BOOLEAN

(* ns_ws_free detaches before it joins; what it has joined has ended.       *)
SocketCutOff ==
    /\ main = "ws join" => wsDetached
    /\ wsGone => wsDetached /\ wsPc = "ended"
    /\ "freed" \notin wsCalled

(* ns_js_free takes the owner out of the host before it joins; a worker that *)
(* was never made has sent nothing.                                         *)
WorkerCutOff ==
    /\ main = "wk join" => ~wkOwnerAlive
    /\ wkGone => ~wkOwnerAlive /\ wkPc = "ended"
    /\ wkPc = "none" => wkOutbox = << >>
    /\ "freed" \notin wkTouched

(* The page is freed after socket and worker, and opens no others then.     *)
FreedLast ==
    page = "freed" => /\ wsPc = "none" \/ wsGone
                      /\ wkPc = "none" \/ wkGone

CutOff == Flags /\ SocketCutOff /\ WorkerCutOff /\ FreedLast

IInv == EventTypes /\ CutOff

-----------------------------------------------------------------------------
(* RemoveAt, as both clients use it for a timer that fires.                *)
Without(s, i) == SubSeq(s, 1, i - 1) \o SubSeq(s, i + 1, Len(s))

LEMMA WithoutFacts ==
    ASSUME NEW S, NEW s \in Seq(S), NEW i \in 1 .. Len(s)
    PROVE  /\ Without(s, i) \in Seq(S)
           /\ Len(Without(s, i)) = Len(s) - 1
           /\ \A j \in 1 .. Len(s) - 1 :
                 Without(s, i)[j] = s[IF j < i THEN j ELSE j + 1]
<1> DEFINE front == SubSeq(s, 1, i - 1)
           back == SubSeq(s, i + 1, Len(s))
<1>1. Len(s) \in Nat /\ i \in Nat /\ 1 <= i /\ i <= Len(s)
  OBVIOUS
<1>2. /\ front \in Seq(S) /\ Len(front) = i - 1
      /\ \A j \in 1 .. i - 1 : front[j] = s[j]
  BY <1>1
<1>3. /\ back \in Seq(S) /\ Len(back) = Len(s) - i
      /\ \A j \in 1 .. Len(s) - i : back[j] = s[j + i]
  BY <1>1
<1>4. Without(s, i) = front \o back
  BY DEF Without
<1> HIDE DEF front, back
<1>5. /\ front \o back \in Seq(S)
      /\ Len(front \o back) = Len(front) + Len(back)
      /\ \A j \in 1 .. Len(front) + Len(back) :
            (front \o back)[j] = IF j <= Len(front) THEN front[j]
                                 ELSE back[j - Len(front)]
  BY <1>2, <1>3, ConcatProperties
<1>6. ASSUME NEW j \in 1 .. Len(s) - 1
      PROVE  (front \o back)[j] = s[IF j < i THEN j ELSE j + 1]
  <2>1. CASE j < i
    <3>1. j \in 1 .. i - 1 /\ j <= Len(front) /\ j \in 1 .. Len(front) + Len(back)
      BY <1>1, <1>2, <1>3, <2>1
    <3>. QED
      BY <1>2, <1>5, <2>1, <3>1
  <2>2. CASE ~(j < i)
    <3>1. /\ ~(j <= Len(front)) /\ j \in 1 .. Len(front) + Len(back)
          /\ j - Len(front) \in 1 .. Len(s) - i
          /\ (j - Len(front)) + i = j + 1
      BY <1>1, <1>2, <1>3, <2>2
    <3>2. back[j - Len(front)] = s[j + 1]
      BY <1>3, <3>1
    <3>. QED
      BY <1>5, <2>2, <3>1, <3>2
  <2>. QED
    BY <2>1, <2>2
<1>. QED
  BY <1>1, <1>2, <1>3, <1>4, <1>5, <1>6

LEMMA InitIInv == Init => IInv
<1> SUFFICES ASSUME Init PROVE IInv
  OBVIOUS
<1> USE DEF Init, Socket!Init, Wk!Init
<1>1. EventTypes
  BY DEF EventTypes
<1>2. Flags
  BY DEF Flags
<1>3. SocketCutOff
  BY DEF SocketCutOff
<1>4. WorkerCutOff
  BY DEF WorkerCutOff
<1>5. FreedLast
  BY DEF FreedLast
<1>. QED
  BY <1>1, <1>2, <1>3, <1>4, <1>5 DEF IInv, CutOff

-----------------------------------------------------------------------------
(* The events under way keep their types.                                  *)
LEMMA SocketPost ==
    ASSUME EventTypes, NEW kind \in Kinds, Socket!Post(kind)
    PROVE  EventTypes'
BY DEF EventTypes, Socket!Post

(* A dispatch is put off, dropped, or calls one of the four handlers, which *)
(* it cannot when the socket is gone.                                       *)
LEMMA SocketRun ==
    ASSUME IInv, NEW kind \in Kinds, NEW waiting \in Seq(Kinds),
           Socket!Run(kind, waiting)
    PROVE  /\ wsHeld' \in Seq(Kinds)
           /\ wsGone' = wsGone
           /\ "freed" \notin wsCalled'
<1>1. CASE ~wsDetached /\ pumping
  <2>1. wsHeld' = Append(waiting, kind) /\ UNCHANGED Socket!script
    BY <1>1 DEF Socket!Run
  <2>2. Append(waiting, kind) \in Seq(Kinds)
    OBVIOUS
  <2>3. UNCHANGED <<wsGone, wsCalled>>
    BY <2>1 DEF Socket!script
  <2>. QED
    BY <2>1, <2>2, <2>3 DEF IInv, CutOff, SocketCutOff
<1>2. CASE wsDetached
  <2>1. wsHeld' = waiting /\ UNCHANGED <<wsGone, wsCalled>>
    BY <1>2 DEF Socket!Run, Socket!script
  <2>. QED
    BY <2>1 DEF IInv, CutOff, SocketCutOff
<1>3. CASE ~wsDetached /\ ~pumping
  <2>1. ~wsGone
    BY <1>3 DEF IInv, CutOff, SocketCutOff
  <2>2. Socket!Invoke(kind) /\ wsHeld' = waiting
    BY <1>3 DEF Socket!Run
  <2>3. wsCalled' \subseteq wsCalled \cup {kind} \cup {"late"}
    BY <2>1, <2>2 DEF Socket!Invoke
  <2>4. kind # "freed"
    BY DEF Kinds, Socket!Kinds
  <2>. QED
    BY <2>2, <2>3, <2>4 DEF Socket!Invoke, IInv, CutOff, SocketCutOff
<1>. QED
  BY <1>1, <1>2, <1>3

LEMMA SocketDispatches ==
    ASSUME IInv, Socket!RunIdle \/ Socket!RunTimer
    PROVE  /\ EventTypes'
           /\ "freed" \notin wsCalled'
           /\ UNCHANGED <<page, main, wsPc, wsDetached, wsGone>>
<1>1. CASE Socket!RunIdle
  <2>1. wsIdles \in Seq(Kinds) /\ wsIdles # << >> /\ wsHeld \in Seq(Kinds)
    BY <1>1 DEF Socket!RunIdle, IInv, EventTypes
  <2>2. Head(wsIdles) \in Kinds /\ Tail(wsIdles) \in Seq(Kinds)
    BY <2>1
  <2>3. Socket!Run(Head(wsIdles), wsHeld) /\ wsIdles' = Tail(wsIdles)
    BY <1>1 DEF Socket!RunIdle
  <2>4. wsHeld' \in Seq(Kinds) /\ wsGone' = wsGone /\ "freed" \notin wsCalled'
    BY <2>1, <2>2, <2>3, SocketRun
  <2>5. UNCHANGED <<page, main, wsPc, wsDetached>>
    BY <1>1 DEF Socket!RunIdle, Socket!thread, Socket!shared
  <2>. QED
    BY <2>2, <2>3, <2>4, <2>5 DEF EventTypes
<1>2. CASE Socket!RunTimer
  <2>1. wsHeld \in Seq(Kinds) /\ wsIdles \in Seq(Kinds) /\ wsIdles' = wsIdles
    BY <1>2 DEF Socket!RunTimer, IInv, EventTypes
  <2>2. PICK i \in 1 .. Len(wsHeld) :
             Socket!Run(wsHeld[i], Socket!RemoveAt(wsHeld, i))
    BY <1>2 DEF Socket!RunTimer
  <2>3. wsHeld[i] \in Kinds
    BY <2>1, <2>2
  <2>4. Socket!RemoveAt(wsHeld, i) \in Seq(Kinds)
    BY <2>1, <2>2, WithoutFacts DEF Socket!RemoveAt, Without
  <2>5. wsHeld' \in Seq(Kinds) /\ wsGone' = wsGone /\ "freed" \notin wsCalled'
    BY <2>2, <2>3, <2>4, SocketRun
  <2>6. UNCHANGED <<page, main, wsPc, wsDetached>>
    BY <1>2 DEF Socket!RunTimer, Socket!thread, Socket!shared
  <2>. QED
    BY <2>1, <2>5, <2>6 DEF EventTypes
<1>. QED
  BY <1>1, <1>2

LEMMA EventTypesKept == IInv /\ [Next]_vars => EventTypes'
<1> SUFFICES ASSUME IInv, [Next]_vars PROVE EventTypes'
  OBVIOUS
<1>1. EventTypes
  BY DEF IInv
<1>2. CASE SocketThread
  <2> USE <1>1 DEF Kinds, Socket!Kinds
  <2>1. CASE Socket!ConnectFails
    BY <2>1, SocketPost DEF Socket!ConnectFails
  <2>2. CASE Socket!PostOpen
    BY <2>2, SocketPost DEF Socket!PostOpen
  <2>3. CASE Socket!RecvMessage
    BY <2>3, SocketPost DEF Socket!RecvMessage
  <2>4. CASE Socket!RecvError
    BY <2>4, SocketPost DEF Socket!RecvError
  <2>5. CASE Socket!PostClose
    BY <2>5, SocketPost DEF Socket!PostClose
  <2>6. CASE UNCHANGED <<wsIdles, wsHeld>>
    BY <2>6 DEF EventTypes
  <2>. QED
    BY <1>2, <2>1, <2>2, <2>3, <2>4, <2>5, <2>6
    DEF SocketThread, Socket!ThreadStep, Socket!ConnectedTooLate,
        Socket!Connected, Socket!LoopTop, Socket!Drain, Socket!RecvNothing,
        Socket!RecvClose, Socket!MarkClosed, Socket!events
<1>3. CASE SocketMain
  <2>1. CASE Socket!RunIdle \/ Socket!RunTimer
    BY <2>1, SocketDispatches
  <2>2. CASE UNCHANGED <<wsIdles, wsHeld>>
    BY <1>1, <2>2 DEF EventTypes
  <2>. QED
    BY <1>3, <2>1, <2>2
    DEF SocketMain, Socket!MainStep, Socket!Construct, Socket!Send,
        Socket!CallClose, Socket!QueueClose, Socket!MarkClosing,
        Socket!Collect, Socket!Free, Socket!Joined, Socket!events
<1>4. CASE TeardownSocket
  <2>1. UNCHANGED <<wsIdles, wsHeld>>
    BY <1>4 DEF TeardownSocket, Socket!Teardown, Socket!Free, Socket!events
  <2>. QED
    BY <1>1, <2>1 DEF EventTypes
<1>5. CASE UNCHANGED socket
  <2>1. UNCHANGED <<wsIdles, wsHeld>>
    BY <1>5 DEF socket
  <2>. QED
    BY <1>1, <2>1 DEF EventTypes
<1>. QED
  BY <1>2, <1>3, <1>4, <1>5
  DEF Next, vars, StreamThread, WorkerThread, StreamMain, WorkerMain,
      StartPump, EndPump, StartTeardown, TeardownStep, TeardownWorker,
      TeardownStream, FinishTeardown

-----------------------------------------------------------------------------
(* What is joined stays cut off, one lemma for each group of actions.      *)
LEMMA SocketThreadKeeps == IInv /\ SocketThread => CutOff'
<1> SUFFICES ASSUME IInv, SocketThread PROVE CutOff'
  OBVIOUS
<1>1. /\ wsPc \notin {"none", "ended"} /\ wsPc' # "none"
      /\ UNCHANGED <<page, main, wsGone, wsDetached, wsCalled>>
  BY DEF SocketThread, Socket!ThreadStep, Socket!ConnectFails,
         Socket!ConnectedTooLate, Socket!Connected, Socket!PostOpen,
         Socket!LoopTop, Socket!Drain, Socket!RecvNothing,
         Socket!RecvMessage, Socket!RecvClose, Socket!RecvError,
         Socket!MarkClosed, Socket!PostClose, Socket!shared, Socket!script
<1>2. UNCHANGED <<wkPc, wkOwnerAlive, wkOutbox, wkGone, wkTouched>>
  BY DEF SocketThread, worker
<1>. QED
  BY <1>1, <1>2 DEF IInv, CutOff, Flags, SocketCutOff, WorkerCutOff, FreedLast

LEMMA SocketMainKeeps == IInv /\ SocketMain => CutOff'
<1> SUFFICES ASSUME IInv, SocketMain PROVE CutOff'
  OBVIOUS
<1>1. UNCHANGED <<wkPc, wkOwnerAlive, wkOutbox, wkGone, wkTouched>>
  BY DEF SocketMain, worker
<1> USE <1>1 DEF IInv, CutOff, Flags, SocketCutOff, WorkerCutOff, FreedLast,
        Socket!thread, Socket!shared, Socket!script
<1>2. CASE Socket!RunIdle \/ Socket!RunTimer
  <2>1. /\ "freed" \notin wsCalled'
        /\ UNCHANGED <<page, main, wsPc, wsDetached, wsGone>>
    BY <1>2, SocketDispatches
  <2>. QED
    BY <2>1
<1>3. CASE Socket!Construct
  BY <1>3 DEF Socket!Construct, Socket!Script
<1>4. CASE Socket!Send
  BY <1>4 DEF Socket!Send
<1>5. CASE Socket!CallClose
  BY <1>5 DEF Socket!CallClose
<1>6. CASE Socket!QueueClose
  BY <1>6 DEF Socket!QueueClose
<1>7. CASE Socket!MarkClosing
  BY <1>7 DEF Socket!MarkClosing
<1>8. CASE Socket!Collect
  BY <1>8 DEF Socket!Collect, Socket!Free
<1>9. CASE Socket!Joined
  BY <1>9 DEF Socket!Joined
<1>. QED
  BY <1>2, <1>3, <1>4, <1>5, <1>6, <1>7, <1>8, <1>9
  DEF SocketMain, Socket!MainStep

LEMMA WorkerThreadKeeps == IInv /\ WorkerThread => CutOff'
<1> SUFFICES ASSUME IInv, WorkerThread PROVE CutOff'
  OBVIOUS
<1>1. /\ wkPc \notin {"none", "ended"} /\ wkPc' # "none"
      /\ UNCHANGED <<page, main, wkOwnerAlive, wkGone, wkTouched>>
  BY DEF WorkerThread, Wk!ThreadStep, Wk!LoadFails, Wk!Loads, Wk!ScriptEnds,
         Wk!ScriptFails, Wk!MakeLoop, Wk!RunLoop, Wk!Serve, Wk!LeaveLoop,
         Wk!FreeRuntime, Wk!DrainContext, Wk!WorkerPosts, Wk!WorkerCloses,
         Wk!script, Wk!shared
<1>2. UNCHANGED <<wsPc, wsDetached, wsGone, wsCalled>>
  BY DEF WorkerThread, socket
<1>. QED
  BY <1>1, <1>2 DEF IInv, CutOff, Flags, SocketCutOff, WorkerCutOff, FreedLast

LEMMA WorkerMainKeeps == IInv /\ WorkerMain => CutOff'
<1> SUFFICES ASSUME IInv, WorkerMain PROVE CutOff'
  OBVIOUS
<1>1. UNCHANGED <<wsPc, wsDetached, wsGone, wsCalled>>
  BY DEF WorkerMain, socket
<1> USE <1>1 DEF IInv, CutOff, Flags, SocketCutOff, WorkerCutOff, FreedLast,
        Wk!script, Wk!shared
<1>2. CASE Wk!DeliverOwner
  <2>1. wkOutbox # << >>
    BY <1>2 DEF Wk!DeliverOwner
  <2>2. ~(wkOwnerAlive /\ page = "freed") /\ wkPc # "none"
    BY <2>1
  <2>3. UNCHANGED <<page, main, wkPc, wkOwnerAlive, wkGone>>
    BY <1>2 DEF Wk!DeliverOwner
  <2>4. wkTouched' \subseteq wkTouched \cup {"nested"}
    BY <1>2, <2>2 DEF Wk!DeliverOwner
  <2>. QED
    BY <2>2, <2>3, <2>4
<1>3. CASE Wk!Construct
  BY <1>3 DEF Wk!Construct, Wk!Script
<1>4. CASE Wk!PostMessage
  BY <1>4 DEF Wk!PostMessage
<1>5. CASE Wk!AttachMessage
  BY <1>5 DEF Wk!AttachMessage
<1>6. CASE Wk!Terminate
  BY <1>6 DEF Wk!Terminate
<1>7. CASE Wk!SendQuit
  BY <1>7 DEF Wk!SendQuit
<1>8. CASE Wk!Joined
  BY <1>8 DEF Wk!Joined
<1>. QED
  BY <1>2, <1>3, <1>4, <1>5, <1>6, <1>7, <1>8 DEF WorkerMain, Wk!MainStep

(* The stream shares only what the main thread is in with the other two.    *)
LEMMA StreamKeeps ==
    IInv /\ (StreamThread \/ StreamMain \/ TeardownStream) => CutOff'
<1> SUFFICES ASSUME IInv, StreamThread \/ StreamMain \/ TeardownStream
             PROVE  CutOff'
  OBVIOUS
<1>1. page' = page /\ main' \in {main, "es join", "idle"}
  BY DEF StreamThread, StreamMain, TeardownStream, Stream!ThreadStep,
         Stream!Opens, Stream!ReadId, Stream!EndEvent, Stream!Loses,
         Stream!Refuses, Stream!AfterConnect, Stream!Reconnect,
         Stream!MainStep, Stream!RunIdle, Stream!RunTimer, Stream!Construct,
         Stream!Close, Stream!Collect, Stream!Joined, Stream!Teardown,
         Stream!Free, Stream!shared
<1>2. /\ UNCHANGED <<wsPc, wsDetached, wsGone, wsCalled>>
      /\ UNCHANGED <<wkPc, wkOwnerAlive, wkOutbox, wkGone, wkTouched>>
  BY DEF StreamThread, StreamMain, TeardownStream, socket, worker
<1>. QED
  BY <1>1, <1>2 DEF IInv, CutOff, Flags, SocketCutOff, WorkerCutOff, FreedLast

(* Pumps, and both ends of ns_js_free.                                     *)
LEMMA PageKeeps ==
    IInv /\ (StartPump \/ EndPump \/ StartTeardown \/ FinishTeardown) => CutOff'
<1> SUFFICES ASSUME IInv, StartPump \/ EndPump \/ StartTeardown \/ FinishTeardown
             PROVE  CutOff'
  OBVIOUS
<1>1. /\ UNCHANGED <<main, wsPc, wsDetached, wsGone, wsCalled>>
      /\ UNCHANGED <<wkPc, wkOwnerAlive, wkOutbox, wkGone, wkTouched>>
  BY DEF StartPump, EndPump, StartTeardown, FinishTeardown, socket, worker
<1>2. page' = "freed" => \/ page = "freed"
                         \/ ~WorkerLeft /\ ~SocketLeft
  BY DEF StartPump, EndPump, StartTeardown, FinishTeardown
<1>. QED
  BY <1>1, <1>2 DEF IInv, CutOff, Flags, SocketCutOff, WorkerCutOff, FreedLast,
                    WorkerLeft, SocketLeft

LEMMA TeardownKeeps == IInv /\ (TeardownWorker \/ TeardownSocket) => CutOff'
<1> SUFFICES ASSUME IInv, TeardownWorker \/ TeardownSocket PROVE CutOff'
  OBVIOUS
<1> USE DEF IInv, CutOff, Flags, SocketCutOff, WorkerCutOff, FreedLast
<1>1. CASE TeardownWorker
  <2>1. UNCHANGED <<wsPc, wsDetached, wsGone, wsCalled>>
    BY <1>1 DEF TeardownWorker, socket
  <2>2. /\ page = "closing" /\ main' = "wk join" /\ wkOwnerAlive' = FALSE
        /\ UNCHANGED <<page, wkPc, wkOutbox, wkGone, wkTouched>>
    BY <1>1 DEF TeardownWorker, Wk!Teardown, Wk!script
  <2>. QED
    BY <2>1, <2>2
<1>2. CASE TeardownSocket
  <2>1. UNCHANGED <<wkPc, wkOwnerAlive, wkOutbox, wkGone, wkTouched>>
    BY <1>2 DEF TeardownSocket, worker
  <2>2. /\ page = "closing" /\ main' = "ws join" /\ wsDetached' = TRUE
        /\ UNCHANGED <<page, wsPc, wsGone, wsCalled>>
    BY <1>2 DEF TeardownSocket, Socket!Teardown, Socket!Free, Socket!thread,
                Socket!script
  <2>. QED
    BY <2>1, <2>2
<1>. QED
  BY <1>1, <1>2

LEMMA NextIInv == IInv /\ [Next]_vars => IInv'
<1> SUFFICES ASSUME IInv, [Next]_vars PROVE IInv'
  OBVIOUS
<1>1. CASE UNCHANGED vars
  <2>1. /\ UNCHANGED <<page, main, wsPc, wsDetached, wsGone, wsCalled>>
        /\ UNCHANGED <<wkPc, wkOwnerAlive, wkOutbox, wkGone, wkTouched>>
    BY <1>1 DEF vars, socket, worker
  <2>2. CutOff'
    BY <2>1 DEF IInv, CutOff, Flags, SocketCutOff, WorkerCutOff, FreedLast
  <2>. QED
    BY <2>2, EventTypesKept DEF IInv
<1>2. CASE Next
  <2>1. CutOff'
    BY <1>2, SocketThreadKeeps, SocketMainKeeps, WorkerThreadKeeps,
       WorkerMainKeeps, StreamKeeps, PageKeeps, TeardownKeeps
    DEF Next, TeardownStep
  <2>. QED
    BY <2>1, EventTypesKept DEF IInv
<1>. QED
  BY <1>1, <1>2

LEMMA Invariance == Spec => []IInv
BY InitIInv, NextIInv, PTL DEF Spec

(* A page that was freed is left alone by its socket, its worker and every  *)
(* event of theirs that was still under way.                                *)
THEOREM FreedStaysQuiet == Spec => []FreedPageIsQuiet
<1>1. IInv => FreedPageIsQuiet
  BY DEF IInv, CutOff, SocketCutOff, WorkerCutOff, FreedLast, FreedPageIsQuiet
<1>. QED
  BY <1>1, Invariance, PTL

-----------------------------------------------------------------------------
(* The stream: where its events are.                                       *)

Dispatches == Stream!Dispatches
Ids == Stream!Ids
Event(id) == <<"event", id>>

(* An event waits in a queue, and it waits there once.                     *)
Waits(queue, id) == \E i \in 1 .. Len(queue) : queue[i] = Event(id)
Once(queue) ==
    \A i, j \in 1 .. Len(queue) : \A id \in Ids :
        queue[i] = Event(id) /\ queue[j] = Event(id) => i = j

QueuesOnce ==
    /\ esIdles \in Seq(Dispatches) /\ Once(esIdles)
    /\ esHeld \in Seq(Dispatches) /\ Once(esHeld)

(* A connection reads behind the last id; es->last_event_id is ahead of     *)
(* what was posted while an event is read, and never behind it.             *)
Reading ==
    /\ esLastId \in Nat /\ esNext \in Nat
    /\ esHanded \in [Ids -> Nat]
    /\ esPc \in {"none", "connecting", "streaming"} => esNext = esLastId + 1
    /\ esPc = "event" => esNext = esLastId /\ esNext \in Ids

Posted(id) == Waits(esIdles, id) \/ Waits(esHeld, id) \/ esHanded[id] # 0

ReadFirst ==
    \A id \in Ids : Posted(id) => /\ id <= esLastId
                                  /\ esPc = "event" => id < esLastId

InOnePlace ==
    \A id \in Ids :
        /\ ~(Waits(esIdles, id) /\ Waits(esHeld, id))
        /\ Waits(esIdles, id) \/ Waits(esHeld, id) => esHanded[id] = 0
        /\ esHanded[id] <= 1

EInv == QueuesOnce /\ Reading /\ ReadFirst /\ InOnePlace

LEMMA IdsAreNumbers == Ids \subseteq Nat
BY PageAssumption DEF PageAssumption, Ids, Stream!Ids

LEMMA DispatchCases ==
    ASSUME NEW d \in Dispatches
    PROVE  \/ \E id \in Ids : d = Event(id) /\ d[1] = "event" /\ d[2] = id
           \/ d[1] # "event" /\ \A id \in Ids : d # Event(id)
BY DEF Dispatches, Stream!Dispatches, Ids, Event

LEMMA AppendOnce ==
    ASSUME NEW s \in Seq(Dispatches), NEW d \in Dispatches, Once(s),
           \A id \in Ids : d = Event(id) => ~Waits(s, id)
    PROVE  /\ Append(s, d) \in Seq(Dispatches)
           /\ Once(Append(s, d))
           /\ \A id \in Ids : Waits(Append(s, d), id) <=> Waits(s, id) \/ d = Event(id)
<1> DEFINE t == Append(s, d)
<1>1. /\ t \in Seq(Dispatches) /\ Len(s) \in Nat /\ Len(t) = Len(s) + 1
      /\ t[Len(s) + 1] = d
      /\ \A i \in 1 .. Len(s) : t[i] = s[i]
  BY AppendProperties
<1>2. \A i \in 1 .. Len(t) : i \in 1 .. Len(s) \/ i = Len(s) + 1
  BY <1>1
<1>3. Len(s) + 1 \in 1 .. Len(t) /\ \A i \in 1 .. Len(s) : i \in 1 .. Len(t)
  BY <1>1
<1> HIDE DEF t
<1>4. Once(t)
  BY <1>1, <1>2 DEF Once, Waits
<1>5. \A id \in Ids : Waits(t, id) <=> Waits(s, id) \/ d = Event(id)
  BY <1>1, <1>2, <1>3 DEF Waits
<1>. QED
  BY <1>1, <1>4, <1>5 DEF t

(* What is left of a queue when its i-th dispatch is taken out.            *)
LEMMA TakenOut ==
    ASSUME NEW s \in Seq(Dispatches), NEW i \in 1 .. Len(s), Once(s),
           NEW t \in Seq(Dispatches), Len(t) = Len(s) - 1,
           \A j \in 1 .. Len(s) - 1 : t[j] = s[IF j < i THEN j ELSE j + 1]
    PROVE  /\ Once(t)
           /\ \A id \in Ids :
                 /\ Waits(t, id) => Waits(s, id)
                 /\ s[i] = Event(id) => Waits(s, id) /\ ~Waits(t, id)
<1> DEFINE old(j) == IF j < i THEN j ELSE j + 1
<1>1. \A j \in 1 .. Len(t) : /\ old(j) \in 1 .. Len(s) /\ old(j) # i
                             /\ t[j] = s[old(j)]
  OBVIOUS
<1>2. \A j, k \in 1 .. Len(t) : old(j) = old(k) => j = k
  OBVIOUS
<1> HIDE DEF old
<1>3. Once(t)
  <2> SUFFICES ASSUME NEW j \in 1 .. Len(t), NEW k \in 1 .. Len(t), NEW id \in Ids,
                      t[j] = Event(id), t[k] = Event(id)
               PROVE  j = k
    BY DEF Once
  <2>1. s[old(j)] = Event(id) /\ s[old(k)] = Event(id)
    BY <1>1
  <2>2. old(j) = old(k)
    BY <1>1, <2>1 DEF Once
  <2>. QED
    BY <1>2, <2>2
<1>4. \A id \in Ids : Waits(t, id) => Waits(s, id)
  BY <1>1 DEF Waits
<1>5. ASSUME NEW id \in Ids, s[i] = Event(id) PROVE Waits(s, id) /\ ~Waits(t, id)
  BY <1>1, <1>5 DEF Once, Waits
<1>. QED
  BY <1>3, <1>4, <1>5

LEMMA WithoutOnce ==
    ASSUME NEW s \in Seq(Dispatches), NEW i \in 1 .. Len(s), Once(s)
    PROVE  /\ Without(s, i) \in Seq(Dispatches)
           /\ Once(Without(s, i))
           /\ \A id \in Ids :
                 /\ Waits(Without(s, i), id) => Waits(s, id)
                 /\ s[i] = Event(id) => Waits(s, id) /\ ~Waits(Without(s, i), id)
BY WithoutFacts, TakenOut

LEMMA TailOnce ==
    ASSUME NEW s \in Seq(Dispatches), s # << >>, Once(s)
    PROVE  /\ Head(s) \in Dispatches /\ Tail(s) \in Seq(Dispatches)
           /\ Once(Tail(s))
           /\ \A id \in Ids :
                 /\ Waits(Tail(s), id) => Waits(s, id)
                 /\ Head(s) = Event(id) => Waits(s, id) /\ ~Waits(Tail(s), id)
<1>1. /\ 1 \in 1 .. Len(s) /\ Head(s) = s[1] /\ Head(s) \in Dispatches
      /\ Tail(s) \in Seq(Dispatches) /\ Len(Tail(s)) = Len(s) - 1
      /\ \A j \in 1 .. Len(s) - 1 : Tail(s)[j] = s[j + 1]
  BY HeadTailProperties
<1>2. \A j \in 1 .. Len(s) - 1 : Tail(s)[j] = s[IF j < 1 THEN j ELSE j + 1]
  BY <1>1
<1>. QED
  BY <1>1, <1>2, TakenOut

LEMMA InitEInv == Init => EInv
<1> SUFFICES ASSUME Init PROVE EInv
  OBVIOUS
<1>1. /\ esIdles = << >> /\ esHeld = << >> /\ esLastId = 0 /\ esNext = 1
      /\ esPc = "none" /\ esHanded = [id \in Ids |-> 0]
  BY DEF Init, Stream!Init, Ids
<1>2. QueuesOnce
  BY <1>1 DEF QueuesOnce, Once
<1>3. Reading
  BY <1>1 DEF Reading
<1>4. \A id \in Ids : ~Waits(esIdles, id) /\ ~Waits(esHeld, id) /\ esHanded[id] = 0
  BY <1>1 DEF Waits
<1>. QED
  BY <1>2, <1>3, <1>4 DEF EInv, ReadFirst, InOnePlace, Posted

(* ns_es_post of something that is not an event of the server, or of one    *)
(* that was not posted before.                                              *)
LEMMA StreamPost ==
    ASSUME EInv, NEW d \in Dispatches, Stream!Post(d[1], d[2]), d = <<d[1], d[2]>>,
           \A id \in Ids : d = Event(id) => ~Posted(id),
           esHanded' = esHanded
    PROVE  /\ QueuesOnce'
           /\ InOnePlace'
           /\ \A id \in Ids : Posted(id)' => Posted(id) \/ d = Event(id)
<1> USE DEF EInv
<1>1. esHeld' = esHeld
  BY DEF Stream!Post
<1>2. CASE esIdles' = esIdles
  BY <1>1, <1>2 DEF QueuesOnce, Posted, Once, Waits, InOnePlace
<1>3. CASE esIdles' = Append(esIdles, d)
  <2>1. /\ esIdles' \in Seq(Dispatches) /\ Once(esIdles')
        /\ \A id \in Ids : Waits(esIdles', id) <=> Waits(esIdles, id) \/ d = Event(id)
    BY <1>3, AppendOnce DEF QueuesOnce, Posted
  <2>2. QueuesOnce'
    BY <1>1, <2>1 DEF QueuesOnce, Once
  <2>3. \A id \in Ids : /\ Waits(esIdles, id)' <=> Waits(esIdles, id) \/ d = Event(id)
                        /\ Waits(esHeld, id)' <=> Waits(esHeld, id)
    BY <1>1, <2>1 DEF Waits
  <2>. QED
    BY <2>2, <2>3 DEF InOnePlace, Posted
<1>. QED
  BY <1>2, <1>3 DEF Stream!Post

(* A dispatch that was taken out of its queue is put off, dropped, or given *)
(* to the page.                                                             *)
LEMMA StreamRun ==
    ASSUME EInv, NEW d \in Dispatches,
           NEW rest \in Seq(Dispatches), Once(rest), esIdles' = rest,
           NEW waiting \in Seq(Dispatches), Once(waiting),
           \A id \in Ids :
               /\ Waits(rest, id) => Waits(esIdles, id)
               /\ Waits(waiting, id) => Waits(esHeld, id)
               /\ d = Event(id) => /\ Waits(esIdles, id) \/ Waits(esHeld, id)
                                   /\ ~Waits(rest, id) /\ ~Waits(waiting, id),
           Stream!Run(d, waiting),
           UNCHANGED <<esPc, esLastId, esNext>>
    PROVE  EInv'
<1> USE DEF EInv
<1>1. \A id \in Ids : Waits(esIdles, id)' <=> Waits(rest, id)
  BY DEF Waits
<1>2. CASE esHeld' = Append(waiting, d) /\ UNCHANGED esHanded
  <2>1. /\ esHeld' \in Seq(Dispatches) /\ Once(esHeld')
        /\ \A id \in Ids : Waits(esHeld', id) <=> Waits(waiting, id) \/ d = Event(id)
    BY <1>2, AppendOnce
  <2>2. \A id \in Ids : Waits(esHeld, id)' <=> Waits(waiting, id) \/ d = Event(id)
    BY <2>1 DEF Waits
  <2>3. QueuesOnce'
    BY <2>1 DEF QueuesOnce, Once
  <2>4. Reading'
    BY <1>2 DEF Reading
  <2>5. ReadFirst' /\ InOnePlace'
    BY <1>1, <1>2, <2>2 DEF ReadFirst, InOnePlace, Posted
  <2>. QED
    BY <2>3, <2>4, <2>5
<1>3. CASE esHeld' = waiting /\ UNCHANGED esHanded
  <2>1. \A id \in Ids : Waits(esHeld, id)' <=> Waits(waiting, id)
    BY <1>3 DEF Waits
  <2>2. QueuesOnce'
    BY <1>3 DEF QueuesOnce, Once
  <2>3. Reading'
    BY <1>3 DEF Reading
  <2>4. ReadFirst' /\ InOnePlace'
    BY <1>1, <1>3, <2>1 DEF ReadFirst, InOnePlace, Posted
  <2>. QED
    BY <2>2, <2>3, <2>4
<1>4. CASE /\ esHeld' = waiting
           /\ esHanded' = IF d[1] = "event"
                          THEN [esHanded EXCEPT ![d[2]] = @ + 1] ELSE esHanded
  <2>1. CASE esHanded' = esHanded
    BY <1>3, <1>4, <2>1
  <2>2. CASE \E id \in Ids : d = Event(id) /\ d[1] = "event" /\ d[2] = id
    <3>1. PICK e \in Ids : d = Event(e) /\ d[1] = "event" /\ d[2] = e
      BY <2>2
    <3>2. esHanded \in [Ids -> Nat]
      BY DEF Reading
    <3>3. esHanded' = [esHanded EXCEPT ![e] = @ + 1]
      BY <1>4, <3>1
    <3>4. /\ esHanded' \in [Ids -> Nat]
          /\ \A id \in Ids : esHanded'[id] = IF id = e THEN esHanded[id] + 1
                                             ELSE esHanded[id]
      BY <3>2, <3>3
    <3>5. \A id \in Ids : Waits(esHeld, id)' <=> Waits(waiting, id)
      BY <1>4 DEF Waits
    <3>6. /\ ~Waits(rest, e) /\ ~Waits(waiting, e)
          /\ Waits(esIdles, e) \/ Waits(esHeld, e)
          /\ esHanded[e] = 0 /\ Posted(e)
      BY <3>1 DEF InOnePlace, Posted
    <3>7. QueuesOnce'
      BY <1>4 DEF QueuesOnce, Once
    <3>8. Reading'
      BY <3>4 DEF Reading
    <3>9. \A id \in Ids : Posted(id)' => Posted(id)
      BY <1>1, <3>4, <3>5, <3>6 DEF Posted
    <3>10. ReadFirst'
      BY <3>9 DEF ReadFirst
    <3>11. InOnePlace'
      BY <1>1, <3>2, <3>4, <3>5, <3>6 DEF InOnePlace
    <3>. QED
      BY <3>7, <3>8, <3>10, <3>11
  <2>. QED
    BY <1>4, <2>1, <2>2, DispatchCases
<1>5. \/ esHeld' = Append(waiting, d) /\ UNCHANGED esHanded
      \/ esHeld' = waiting /\ UNCHANGED esHanded
      \/ /\ esHeld' = waiting
         /\ esHanded' = IF d[1] = "event"
                        THEN [esHanded EXCEPT ![d[2]] = @ + 1] ELSE esHanded
  BY DEF Stream!Run, Stream!script, Stream!Invoke
<1>. QED
  BY <1>2, <1>3, <1>4, <1>5

(* A step that posts nothing leaves events and queues where they are.       *)
LEMMA QueuesKept ==
    ASSUME EInv, UNCHANGED <<esIdles, esHeld, esHanded>>
    PROVE  /\ QueuesOnce' /\ InOnePlace'
           /\ \A id \in Ids : Posted(id)' <=> Posted(id)
BY DEF EInv, QueuesOnce, InOnePlace, Posted, Once, Waits

LEMMA StreamThreadKeeps == EInv /\ StreamThread => EInv'
<1> SUFFICES ASSUME EInv, StreamThread PROVE EInv'
  OBVIOUS
<1> USE DEF EInv
<1>1. esHanded' = esHanded
  BY DEF StreamThread, Stream!ThreadStep, Stream!Opens, Stream!ReadId,
         Stream!EndEvent, Stream!Loses, Stream!Refuses, Stream!AfterConnect,
         Stream!Reconnect, Stream!script
<1>2. ASSUME NEW kind \in {"open", "error", "fatal"}, Stream!Post(kind, 0),
             UNCHANGED <<esLastId, esNext>>,
             \/ esPc = "connecting" /\ esPc' = "streaming"
             \/ esPc' \notin {"none", "connecting", "streaming", "event"}
      PROVE  EInv'
  <2> DEFINE d == <<kind, 0>>
  <2>1. /\ d \in Dispatches /\ d[1] = kind /\ d[2] = 0
        /\ \A id \in Ids : d # Event(id)
    BY DEF Dispatches, Stream!Dispatches, Event
  <2> HIDE DEF d
  <2>2. Stream!Post(d[1], d[2]) /\ d = <<d[1], d[2]>>
    BY <1>2, <2>1 DEF d
  <2>3. /\ QueuesOnce' /\ InOnePlace'
        /\ \A id \in Ids : Posted(id)' => Posted(id)
    BY <1>1, <2>1, <2>2, StreamPost
  <2>4. Reading'
    BY <1>1, <1>2 DEF Reading
  <2>5. ReadFirst'
    BY <1>2, <2>3 DEF ReadFirst
  <2>. QED
    BY <2>3, <2>4, <2>5
<1>3. ASSUME UNCHANGED <<esIdles, esHeld>>, ReadFirst', Reading' PROVE EInv'
  BY <1>1, <1>3, QueuesKept
<1>4. ASSUME UNCHANGED <<esIdles, esHeld>>, esLastId' \in Nat,
             esLastId <= esLastId', esPc' = "event" => esLastId < esLastId'
      PROVE  ReadFirst'
  <2>1. \A id \in Ids : Posted(id)' <=> Posted(id)
    BY <1>1, <1>4, QueuesKept
  <2>. QED
    BY <1>4, <2>1, IdsAreNumbers DEF ReadFirst, Reading
<1>5. CASE Stream!Opens
  BY <1>2, <1>5 DEF Stream!Opens
<1>6. CASE Stream!ReadId
  <2>1. /\ UNCHANGED <<esIdles, esHeld, esNext>> /\ esPc = "streaming"
        /\ esPc' = "event" /\ esLastId' = esNext /\ esNext \in Ids
    BY <1>6 DEF Stream!ReadId, Stream!events, Ids
  <2>2. Reading'
    BY <1>1, <2>1 DEF Reading
  <2>3. ReadFirst'
    BY <1>4, <2>1 DEF Reading
  <2>. QED
    BY <1>3, <2>1, <2>2, <2>3
<1>7. CASE Stream!EndEvent
  <2>1. /\ Stream!Post("event", esNext) /\ esPc = "event" /\ esPc' = "streaming"
        /\ esNext' = esNext + 1 /\ esLastId' = esLastId
    BY <1>7 DEF Stream!EndEvent
  <2>2. esNext = esLastId /\ esNext \in Ids
    BY <2>1 DEF Reading
  <2> DEFINE d == Event(esNext)
  <2>3. d \in Dispatches /\ d[1] = "event" /\ d[2] = esNext
    BY <2>2 DEF Dispatches, Stream!Dispatches, Ids, Event
  <2>4. d = <<d[1], d[2]>> /\ Stream!Post(d[1], d[2])
    BY <2>1, <2>3 DEF Event
  <2>5. \A id \in Ids : d = Event(id) => id = esNext
    BY DEF Event
  <2>6. ~Posted(esNext)
    BY <2>1, <2>2, IdsAreNumbers DEF ReadFirst, Reading
  <2> HIDE DEF d
  <2>7. /\ QueuesOnce' /\ InOnePlace'
        /\ \A id \in Ids : Posted(id)' => Posted(id) \/ id = esNext
    BY <1>1, <2>3, <2>4, <2>5, <2>6, StreamPost
  <2>8. Reading'
    BY <1>1, <2>1, <2>2 DEF Reading
  <2>9. ReadFirst'
    BY <2>1, <2>2, <2>7, IdsAreNumbers DEF ReadFirst, Reading
  <2>. QED
    BY <2>7, <2>8, <2>9
<1>8. CASE Stream!Loses \/ Stream!Refuses
  <2>1. /\ UNCHANGED <<esIdles, esHeld, esNext, esLastId>>
        /\ esPc' \in {"lost", "refused"}
    BY <1>8 DEF Stream!Loses, Stream!Refuses, Stream!events
  <2>2. Reading'
    BY <1>1, <2>1 DEF Reading
  <2>3. ReadFirst'
    BY <1>4, <2>1 DEF Reading
  <2>. QED
    BY <1>3, <2>1, <2>2, <2>3
<1>9. CASE Stream!AfterConnect
  <2>1. CASE Stream!Post("fatal", 0) \/ Stream!Post("error", 0)
    BY <1>2, <1>9, <2>1 DEF Stream!AfterConnect
  <2>2. CASE UNCHANGED <<esIdles, esHeld>>
    <3>1. esPc' \in {"ended", "waiting"} /\ UNCHANGED <<esNext, esLastId>>
      BY <1>9 DEF Stream!AfterConnect
    <3>2. Reading'
      BY <1>1, <3>1 DEF Reading
    <3>3. ReadFirst'
      BY <1>4, <2>2, <3>1 DEF Reading
    <3>. QED
      BY <1>3, <2>2, <3>2, <3>3
  <2>. QED
    BY <1>9, <2>1, <2>2 DEF Stream!AfterConnect, Stream!events
<1>10. CASE Stream!Reconnect
  <2>1. /\ UNCHANGED <<esIdles, esHeld, esLastId>>
        /\ \/ esPc' = "ended" /\ esNext' = esNext
           \/ esPc' = "connecting" /\ esNext' = esLastId + 1
    BY <1>10 DEF Stream!Reconnect, Stream!events
  <2>2. Reading'
    BY <1>1, <2>1 DEF Reading
  <2>3. ReadFirst'
    BY <1>4, <2>1 DEF Reading
  <2>. QED
    BY <1>3, <2>1, <2>2, <2>3
<1>. QED
  BY <1>5, <1>6, <1>7, <1>8, <1>9, <1>10 DEF StreamThread, Stream!ThreadStep

LEMMA StreamMainKeeps == EInv /\ StreamMain => EInv'
<1> SUFFICES ASSUME EInv, StreamMain PROVE EInv'
  OBVIOUS
<1>1. /\ esIdles \in Seq(Dispatches) /\ Once(esIdles)
      /\ esHeld \in Seq(Dispatches) /\ Once(esHeld)
      /\ \A id \in Ids : ~(Waits(esIdles, id) /\ Waits(esHeld, id))
  BY DEF EInv, QueuesOnce, InOnePlace
<1>2. CASE Stream!RunIdle
  <2>1. /\ esIdles # << >> /\ esIdles' = Tail(esIdles)
        /\ Stream!Run(Head(esIdles), esHeld)
        /\ UNCHANGED <<esPc, esLastId, esNext>>
    BY <1>2 DEF Stream!RunIdle, Stream!thread
  <2>2. /\ Head(esIdles) \in Dispatches /\ Tail(esIdles) \in Seq(Dispatches)
        /\ Once(Tail(esIdles))
        /\ \A id \in Ids :
              /\ Waits(Tail(esIdles), id) => Waits(esIdles, id)
              /\ Head(esIdles) = Event(id) =>
                    Waits(esIdles, id) /\ ~Waits(Tail(esIdles), id)
    BY <1>1, <2>1, TailOnce
  <2>. QED
    BY <1>1, <2>1, <2>2, StreamRun
<1>3. CASE Stream!RunTimer
  <2>1. PICK i \in 1 .. Len(esHeld) :
             Stream!Run(esHeld[i], Stream!RemoveAt(esHeld, i))
    BY <1>3 DEF Stream!RunTimer
  <2>2. esIdles' = esIdles /\ UNCHANGED <<esPc, esLastId, esNext>>
    BY <1>3 DEF Stream!RunTimer, Stream!thread
  <2>3. Stream!Run(esHeld[i], Without(esHeld, i))
    BY <2>1 DEF Stream!RemoveAt, Without
  <2>4. esHeld[i] \in Dispatches
    BY <1>1, <2>1
  <2>5. /\ Without(esHeld, i) \in Seq(Dispatches)
        /\ Once(Without(esHeld, i))
        /\ \A id \in Ids :
              /\ Waits(Without(esHeld, i), id) => Waits(esHeld, id)
              /\ esHeld[i] = Event(id) =>
                    Waits(esHeld, id) /\ ~Waits(Without(esHeld, i), id)
    BY <1>1, <2>1, WithoutOnce
  <2>. QED
    BY <1>1, <2>2, <2>3, <2>4, <2>5, StreamRun
<1>4. CASE Stream!Construct
  <2>1. /\ UNCHANGED <<esIdles, esHeld, esHanded, esLastId, esNext>>
        /\ esPc = "none" /\ esPc' = "connecting"
    BY <1>4 DEF Stream!Construct, Stream!events
  <2>. QED
    BY <2>1, QueuesKept DEF EInv, Reading, ReadFirst
<1>5. CASE Stream!Close \/ Stream!Collect \/ Stream!Joined
  <2>1. UNCHANGED <<esIdles, esHeld, esHanded, esLastId, esNext, esPc>>
    BY <1>5 DEF Stream!Close, Stream!Collect, Stream!Free, Stream!Joined,
                Stream!events, Stream!thread, Stream!script
  <2>. QED
    BY <2>1, QueuesKept DEF EInv, Reading, ReadFirst
<1>. QED
  BY <1>2, <1>3, <1>4, <1>5 DEF StreamMain, Stream!MainStep

LEMMA NextEInv == EInv /\ [Next]_vars => EInv'
<1> SUFFICES ASSUME EInv, [Next]_vars PROVE EInv'
  OBVIOUS
<1>1. CASE UNCHANGED <<esIdles, esHeld, esHanded, esLastId, esNext, esPc>>
  BY <1>1, QueuesKept DEF EInv, Reading, ReadFirst
<1>2. CASE UNCHANGED stream
  BY <1>1, <1>2 DEF stream
<1>3. CASE TeardownStream
  BY <1>1, <1>3 DEF TeardownStream, Stream!Teardown, Stream!Free,
                    Stream!events, Stream!thread, Stream!script
<1>. QED
  BY <1>2, <1>3, StreamThreadKeeps, StreamMainKeeps
  DEF Next, vars, SocketThread, WorkerThread, SocketMain, WorkerMain,
      StartPump, EndPump, StartTeardown, TeardownStep, TeardownWorker,
      TeardownSocket, FinishTeardown

(* However often the stream breaks, however many events wait or are put off *)
(* by a pump, the page is given each event once at most.                    *)
THEOREM EventsComeOnce == Spec => []NoEventTwice
<1>1. EInv => NoEventTwice
  BY DEF EInv, InOnePlace, NoEventTwice, Ids
<1>. QED
  BY <1>1, InitEInv, NextEInv, PTL DEF Spec

-----------------------------------------------------------------------------
(* The close of the socket: posted last, and kept until the page has it.    *)

Holds(queue) == \E i \in 1 .. Len(queue) : queue[i] = "close"
ClosePosted == Holds(wsIdles) \/ Holds(wsHeld) \/ "close" \in wsCalled

(* ns_ws_dispatch_close is the thread's last act.                          *)
ClosedLast ==
    /\ wsPc # "ended" => ~ClosePosted
    /\ wsPc = "ended" /\ ~wsDetached => ClosePosted

(* Without a pump nothing is put off, so events keep their order.           *)
CloseAtEnd(queue) ==
    \A i \in 1 .. Len(queue) : queue[i] = "close" => i = Len(queue)

InOrder ==
    /\ pumps \in Nat
    /\ pumping => pumps > 0
    /\ "late" \in wsCalled => pumps > 0
    /\ pumps = 0 => /\ wsHeld = << >>
                    /\ CloseAtEnd(wsIdles)
                    /\ "close" \in wsCalled => wsIdles = << >>

CInv == ClosedLast /\ InOrder

LEMMA InitCInv == Init => CInv
<1> SUFFICES ASSUME Init PROVE CInv
  OBVIOUS
<1>1. /\ wsIdles = << >> /\ wsHeld = << >> /\ wsCalled = {} /\ wsPc = "none"
      /\ pumps = 0 /\ pumping = FALSE
  BY DEF Init, Socket!Init
<1>2. ~ClosePosted
  BY <1>1 DEF ClosePosted, Holds
<1>3. CloseAtEnd(wsIdles)
  BY <1>1 DEF CloseAtEnd
<1>. QED
  BY <1>1, <1>2, <1>3 DEF CInv, ClosedLast, InOrder

LEMMA AppendHolds ==
    ASSUME NEW s \in Seq(Kinds), NEW d \in Kinds
    PROVE  /\ Append(s, d) \in Seq(Kinds)
           /\ Holds(Append(s, d)) <=> Holds(s) \/ d = "close"
           /\ ~Holds(s) => CloseAtEnd(Append(s, d))
<1> DEFINE t == Append(s, d)
<1>1. /\ t \in Seq(Kinds) /\ Len(s) \in Nat /\ Len(t) = Len(s) + 1
      /\ t[Len(s) + 1] = d
      /\ \A i \in 1 .. Len(s) : t[i] = s[i]
  BY AppendProperties
<1>2. \A i \in 1 .. Len(t) : i \in 1 .. Len(s) \/ i = Len(s) + 1
  BY <1>1
<1>3. Len(s) + 1 \in 1 .. Len(t) /\ \A i \in 1 .. Len(s) : i \in 1 .. Len(t)
  BY <1>1
<1> HIDE DEF t
<1>4. Holds(t) <=> Holds(s) \/ d = "close"
  BY <1>1, <1>2, <1>3 DEF Holds
<1>5. ~Holds(s) => CloseAtEnd(t)
  BY <1>1, <1>2 DEF Holds, CloseAtEnd
<1>. QED
  BY <1>1, <1>4, <1>5 DEF t

(* What is left of a queue when its i-th dispatch is taken out.            *)
LEMMA TakenOutHolds ==
    ASSUME NEW s \in Seq(Kinds), NEW i \in 1 .. Len(s),
           NEW t \in Seq(Kinds), Len(t) = Len(s) - 1,
           \A j \in 1 .. Len(s) - 1 : t[j] = s[IF j < i THEN j ELSE j + 1]
    PROVE  Holds(s) <=> Holds(t) \/ s[i] = "close"
<1> DEFINE old(j) == IF j < i THEN j ELSE j + 1
<1>1. \A j \in 1 .. Len(t) : old(j) \in 1 .. Len(s) /\ t[j] = s[old(j)]
  OBVIOUS
<1>2. \A k \in 1 .. Len(s) : k = i \/ \E j \in 1 .. Len(t) : old(j) = k
  <2> SUFFICES ASSUME NEW k \in 1 .. Len(s), k # i
               PROVE  \E j \in 1 .. Len(t) : old(j) = k
    OBVIOUS
  <2>1. CASE k < i
    BY <2>1
  <2>2. CASE k > i
    <3>1. k - 1 \in 1 .. Len(t) /\ old(k - 1) = k
      BY <2>2
    <3>. QED
      BY <3>1
  <2>. QED
    BY <2>1, <2>2
<1> HIDE DEF old
<1>. QED
  BY <1>1, <1>2 DEF Holds

LEMMA TailHolds ==
    ASSUME NEW s \in Seq(Kinds), s # << >>
    PROVE  /\ Head(s) \in Kinds /\ Tail(s) \in Seq(Kinds)
           /\ Holds(s) <=> Holds(Tail(s)) \/ Head(s) = "close"
           /\ CloseAtEnd(s) => /\ CloseAtEnd(Tail(s))
                               /\ Head(s) = "close" => Tail(s) = << >>
<1>1. /\ 1 \in 1 .. Len(s) /\ Head(s) = s[1] /\ Head(s) \in Kinds
      /\ Len(s) \in Nat
      /\ Tail(s) \in Seq(Kinds) /\ Len(Tail(s)) = Len(s) - 1
      /\ \A j \in 1 .. Len(s) - 1 : Tail(s)[j] = s[j + 1]
  BY HeadTailProperties
<1>2. \A j \in 1 .. Len(s) - 1 : Tail(s)[j] = s[IF j < 1 THEN j ELSE j + 1]
  BY <1>1
<1>3. Holds(s) <=> Holds(Tail(s)) \/ Head(s) = "close"
  BY <1>1, <1>2, TakenOutHolds
<1>4. ASSUME CloseAtEnd(s) PROVE CloseAtEnd(Tail(s))
  <2> SUFFICES ASSUME NEW j \in 1 .. Len(Tail(s)), Tail(s)[j] = "close"
               PROVE  j = Len(Tail(s))
    BY DEF CloseAtEnd
  <2>1. j + 1 \in 1 .. Len(s) /\ s[j + 1] = "close"
    BY <1>1
  <2>2. j + 1 = Len(s)
    BY <1>4, <2>1 DEF CloseAtEnd
  <2>3. j \in Nat /\ Len(s) \in Nat /\ Len(Tail(s)) = Len(s) - 1
    BY <1>1
  <2> DEFINE m == Len(s)
             n == Len(Tail(s))
  <2> HIDE DEF m, n
  <2>4. j + 1 = m /\ m \in Nat /\ n = m - 1
    BY <2>2, <2>3 DEF m, n
  <2>5. j = n
    BY <2>3, <2>4
  <2>. QED
    BY <2>5 DEF n
<1>5. ASSUME CloseAtEnd(s), Head(s) = "close" PROVE Tail(s) = << >>
  <2>0. s[1] = "close"
    BY <1>1, <1>5
  <2>1. Len(s) = 1
    BY <1>1, <1>5, <2>0 DEF CloseAtEnd
  <2>2. Len(Tail(s)) = 0
    BY <1>1, <2>1
  <2>. QED
    BY <1>1, <2>2, EmptySeq
<1>. QED
  BY <1>1, <1>3, <1>4, <1>5

(* A dispatch that was taken out of its queue is put off, dropped with a    *)
(* detached socket, or given to the page.                                   *)
LEMMA CloseRun ==
    ASSUME CInv, NEW d \in Kinds,
           NEW rest \in Seq(Kinds), wsIdles' = rest,
           NEW waiting \in Seq(Kinds),
           Holds(wsIdles) \/ Holds(wsHeld) <=>
               Holds(rest) \/ Holds(waiting) \/ d = "close",
           pumps = 0 => /\ waiting = << >> /\ CloseAtEnd(rest)
                        /\ d = "close" => rest = << >>
                        /\ "close" \notin wsCalled,
           Socket!Run(d, waiting),
           UNCHANGED <<wsPc, wsDetached, pumps, pumping>>
    PROVE  CInv'
<1>1. Holds(wsIdles)' <=> Holds(rest)
  BY DEF Holds
<1>2. CloseAtEnd(wsIdles)' <=> CloseAtEnd(rest)
  BY DEF CloseAtEnd
<1>3. CASE ~wsDetached /\ pumping
  <2>1. wsHeld' = Append(waiting, d) /\ wsCalled' = wsCalled
    BY <1>3 DEF Socket!Run, Socket!script
  <2>2. Holds(wsHeld)' <=> Holds(waiting) \/ d = "close"
    BY <2>1, AppendHolds DEF Holds
  <2>3. ClosePosted' <=> ClosePosted
    BY <1>1, <2>1, <2>2 DEF ClosePosted
  <2>4. pumps > 0 /\ pumps # 0
    BY <1>3 DEF CInv, InOrder
  <2>. QED
    BY <2>3, <2>4, <2>1 DEF CInv, ClosedLast, InOrder
<1>4. CASE wsDetached
  <2>1. wsHeld' = waiting /\ wsCalled' = wsCalled
    BY <1>4 DEF Socket!Run, Socket!script
  <2>2. Holds(wsHeld)' <=> Holds(waiting)
    BY <2>1 DEF Holds
  <2>3. ClosePosted' => ClosePosted
    BY <1>1, <2>1, <2>2 DEF ClosePosted
  <2>. QED
    BY <1>2, <1>4, <2>1, <2>3 DEF CInv, ClosedLast, InOrder
<1>5. CASE ~wsDetached /\ ~pumping
  <2>1. wsHeld' = waiting /\ Socket!Invoke(d)
    BY <1>5 DEF Socket!Run
  <2>2. /\ wsCalled \cup {d} \subseteq wsCalled'
        /\ wsCalled' \subseteq wsCalled \cup {d} \cup {"freed", "late"}
        /\ "late" \in wsCalled' => \/ "late" \in wsCalled \/ d = "late"
                                   \/ "close" \in wsCalled
    BY <2>1 DEF Socket!Invoke
  <2>3. d # "late"
    BY DEF Kinds, Socket!Kinds
  <2>4. Holds(wsHeld)' <=> Holds(waiting)
    BY <2>1 DEF Holds
  <2>5. "close" \in wsCalled' <=> "close" \in wsCalled \/ d = "close"
    BY <2>2
  <2>6. ClosePosted' <=> ClosePosted
    BY <1>1, <2>4, <2>5 DEF ClosePosted
  <2>7. ClosedLast'
    BY <2>6 DEF CInv, ClosedLast
  <2>8. "late" \in wsCalled' => pumps > 0
    BY <2>2, <2>3 DEF CInv, InOrder
  <2>. QED
    BY <1>2, <2>1, <2>5, <2>7, <2>8 DEF CInv, InOrder
<1>. QED
  BY <1>3, <1>4, <1>5

(* A step that posts, delivers and pumps nothing.                          *)
LEMMA CloseKept ==
    ASSUME CInv,
           wsIdles' = wsIdles, wsHeld' = wsHeld, wsCalled' = wsCalled,
           pumps' = pumps, pumping' = pumping,
           \/ wsPc' = wsPc /\ wsDetached' = wsDetached
           \/ wsPc # "ended" /\ wsPc' # "ended"
           \/ wsPc' = wsPc /\ wsDetached' = TRUE
    PROVE  CInv'
<1>1. ClosePosted' <=> ClosePosted
  BY DEF ClosePosted, Holds
<1>2. InOrder'
  BY DEF CInv, InOrder, CloseAtEnd
<1>. QED
  BY <1>1, <1>2 DEF CInv, ClosedLast

LEMMA CloseOfThread == IInv /\ CInv /\ SocketThread => CInv'
<1> SUFFICES ASSUME IInv, CInv, SocketThread PROVE CInv'
  OBVIOUS
<1>1. UNCHANGED <<wsCalled, wsDetached, pumps, pumping>> /\ wsPc # "ended"
  BY DEF SocketThread, Socket!ThreadStep, Socket!ConnectFails,
         Socket!ConnectedTooLate, Socket!Connected, Socket!PostOpen,
         Socket!LoopTop, Socket!Drain, Socket!RecvNothing,
         Socket!RecvMessage, Socket!RecvClose, Socket!RecvError,
         Socket!MarkClosed, Socket!PostClose, Socket!shared, Socket!script
<1>2. ~Holds(wsIdles) /\ ~Holds(wsHeld) /\ "close" \notin wsCalled
  BY <1>1 DEF CInv, ClosedLast, ClosePosted
<1>3. wsIdles \in Seq(Kinds)
  BY DEF IInv, EventTypes
<1>4. ASSUME NEW kind \in Kinds, Socket!Post(kind),
             kind = "close" <=> wsPc' = "ended"
      PROVE  CInv'
  <2>1. wsHeld' = wsHeld /\ (Holds(wsHeld)' <=> Holds(wsHeld))
    BY <1>4 DEF Socket!Post, Holds
  <2>2. CASE wsIdles' = Append(wsIdles, kind)
    <3>1. /\ Holds(wsIdles') <=> kind = "close"
          /\ CloseAtEnd(wsIdles')
      BY <1>2, <1>3, <2>2, AppendHolds
    <3>2. ClosePosted' <=> kind = "close"
      BY <1>1, <1>2, <2>1, <3>1 DEF ClosePosted, Holds
    <3>3. InOrder'
      BY <1>1, <1>2, <2>1, <3>1 DEF CInv, InOrder, CloseAtEnd
    <3>. QED
      BY <1>4, <3>2, <3>3 DEF CInv, ClosedLast
  <2>3. CASE wsIdles' = wsIdles /\ (wsDetached \/ kind # "close")
    <3>1. ~ClosePosted'
      BY <1>1, <1>2, <2>1, <2>3 DEF ClosePosted, Holds
    <3>2. InOrder'
      BY <1>1, <2>1, <2>3 DEF CInv, InOrder, CloseAtEnd
    <3>. QED
      BY <1>1, <1>4, <2>3, <3>1, <3>2 DEF CInv, ClosedLast
  <2>. QED
    BY <1>4, <2>2, <2>3 DEF Socket!Post
<1> USE DEF Kinds, Socket!Kinds
<1>5. CASE Socket!ConnectFails
  BY <1>4, <1>5 DEF Socket!ConnectFails
<1>6. CASE Socket!PostOpen
  BY <1>4, <1>6 DEF Socket!PostOpen
<1>7. CASE Socket!RecvMessage
  BY <1>4, <1>7 DEF Socket!RecvMessage
<1>8. CASE Socket!RecvError
  BY <1>4, <1>8 DEF Socket!RecvError
<1>9. CASE Socket!PostClose
  BY <1>4, <1>9 DEF Socket!PostClose
<1>10. CASE UNCHANGED <<wsIdles, wsHeld>> /\ wsPc' # "ended"
  BY <1>1, <1>10, CloseKept
<1>. QED
  BY <1>5, <1>6, <1>7, <1>8, <1>9, <1>10
  DEF SocketThread, Socket!ThreadStep, Socket!ConnectedTooLate,
      Socket!Connected, Socket!LoopTop, Socket!Drain, Socket!RecvNothing,
      Socket!RecvClose, Socket!MarkClosed, Socket!events

LEMMA CloseOfMain == IInv /\ CInv /\ SocketMain => CInv'
<1> SUFFICES ASSUME IInv, CInv, SocketMain PROVE CInv'
  OBVIOUS
<1>1. /\ wsIdles \in Seq(Kinds) /\ wsHeld \in Seq(Kinds)
      /\ pumps = 0 => /\ wsHeld = << >> /\ CloseAtEnd(wsIdles)
                      /\ "close" \in wsCalled => wsIdles = << >>
  BY DEF IInv, EventTypes, CInv, InOrder
<1>2. CASE Socket!RunIdle
  <2>1. /\ wsIdles # << >> /\ wsIdles' = Tail(wsIdles)
        /\ Socket!Run(Head(wsIdles), wsHeld)
        /\ UNCHANGED <<wsPc, wsDetached, pumps, pumping>>
    BY <1>2 DEF SocketMain, Socket!RunIdle, Socket!thread, Socket!shared
  <2>2. /\ Head(wsIdles) \in Kinds /\ Tail(wsIdles) \in Seq(Kinds)
        /\ Holds(wsIdles) <=> Holds(Tail(wsIdles)) \/ Head(wsIdles) = "close"
        /\ CloseAtEnd(wsIdles) =>
              /\ CloseAtEnd(Tail(wsIdles))
              /\ Head(wsIdles) = "close" => Tail(wsIdles) = << >>
    BY <1>1, <2>1, TailHolds
  <2>. QED
    BY <1>1, <2>1, <2>2, CloseRun
<1>3. CASE Socket!RunTimer
  <2>1. PICK i \in 1 .. Len(wsHeld) :
             Socket!Run(wsHeld[i], Socket!RemoveAt(wsHeld, i))
    BY <1>3 DEF Socket!RunTimer
  <2>2. wsIdles' = wsIdles /\ UNCHANGED <<wsPc, wsDetached, pumps, pumping>>
    BY <1>3 DEF SocketMain, Socket!RunTimer, Socket!thread, Socket!shared
  <2>3. /\ wsHeld[i] \in Kinds
        /\ Socket!Run(wsHeld[i], Without(wsHeld, i))
    BY <1>1, <2>1 DEF Socket!RemoveAt, Without
  <2>4. /\ Without(wsHeld, i) \in Seq(Kinds)
        /\ Holds(wsHeld) <=> Holds(Without(wsHeld, i)) \/ wsHeld[i] = "close"
    BY <1>1, <2>1, WithoutFacts, TakenOutHolds
  <2>5. pumps # 0
    BY <1>1, <2>1
  <2>. QED
    BY <1>1, <2>2, <2>3, <2>4, <2>5, CloseRun
<1>4. CASE Socket!Construct
  <2>1. /\ UNCHANGED <<wsIdles, wsHeld, wsCalled, pumps, pumping>>
        /\ wsPc = "none" /\ wsPc' = "connecting"
    BY <1>4 DEF SocketMain, Socket!Construct, Socket!events, Socket!shared
  <2>. QED
    BY <2>1, CloseKept
<1>5. CASE Socket!Send \/ Socket!CallClose \/ Socket!QueueClose
             \/ Socket!MarkClosing \/ Socket!Joined
  <2>1. UNCHANGED <<wsIdles, wsHeld, wsCalled, pumps, pumping, wsPc, wsDetached>>
    BY <1>5 DEF SocketMain, Socket!Send, Socket!CallClose, Socket!QueueClose,
                Socket!MarkClosing, Socket!Joined, Socket!events,
                Socket!thread, Socket!script, Socket!shared
  <2>. QED
    BY <2>1, CloseKept
<1>6. CASE Socket!Collect
  <2>1. /\ UNCHANGED <<wsIdles, wsHeld, wsCalled, pumps, pumping, wsPc>>
        /\ wsDetached' = TRUE
    BY <1>6 DEF SocketMain, Socket!Collect, Socket!Free, Socket!events,
                Socket!thread, Socket!script
  <2>. QED
    BY <2>1, CloseKept
<1>. QED
  BY <1>2, <1>3, <1>4, <1>5, <1>6 DEF SocketMain, Socket!MainStep

LEMMA NextCInv == IInv /\ CInv /\ [Next]_vars => CInv'
<1> SUFFICES ASSUME IInv, CInv, [Next]_vars PROVE CInv'
  OBVIOUS
<1>1. CASE UNCHANGED <<socket, pumps, pumping>>
  BY <1>1, CloseKept DEF socket
<1>2. CASE StartPump
  <2>1. /\ UNCHANGED <<wsIdles, wsHeld, wsCalled, wsPc, wsDetached>>
        /\ pumps' = pumps + 1
    BY <1>2 DEF StartPump, socket
  <2>2. ClosePosted' <=> ClosePosted
    BY <2>1 DEF ClosePosted, Holds
  <2>3. pumps' > 0 /\ pumps' \in Nat /\ pumps' # 0
    BY <2>1 DEF CInv, InOrder
  <2>. QED
    BY <2>1, <2>2, <2>3 DEF CInv, ClosedLast, InOrder
<1>3. CASE EndPump
  <2>1. /\ UNCHANGED <<wsIdles, wsHeld, wsCalled, wsPc, wsDetached, pumps>>
        /\ pumping' = FALSE
    BY <1>3 DEF EndPump, socket
  <2>2. ClosePosted' <=> ClosePosted
    BY <2>1 DEF ClosePosted, Holds
  <2>. QED
    BY <2>1, <2>2 DEF CInv, ClosedLast, InOrder, CloseAtEnd
<1>4. CASE TeardownSocket
  <2>1. /\ UNCHANGED <<wsIdles, wsHeld, wsCalled, pumps, pumping, wsPc>>
        /\ wsDetached' = TRUE
    BY <1>4 DEF TeardownSocket, Socket!Teardown, Socket!Free, Socket!events,
                Socket!thread, Socket!script
  <2>. QED
    BY <2>1, CloseKept
<1>5. CASE StreamThread \/ StreamMain \/ TeardownStream
  <2>1. UNCHANGED <<socket, pumps, pumping>>
    BY <1>5 DEF StreamThread, StreamMain, TeardownStream, Stream!ThreadStep,
                Stream!Opens, Stream!ReadId, Stream!EndEvent, Stream!Loses,
                Stream!Refuses, Stream!AfterConnect, Stream!Reconnect,
                Stream!MainStep, Stream!RunIdle, Stream!RunTimer,
                Stream!Construct, Stream!Close, Stream!Collect,
                Stream!Joined, Stream!Teardown, Stream!Free, Stream!shared
  <2>. QED
    BY <1>1, <2>1
<1>6. CASE WorkerThread \/ WorkerMain \/ TeardownWorker
  <2>1. UNCHANGED <<socket, pumps, pumping>>
    BY <1>6 DEF WorkerThread, WorkerMain, TeardownWorker, Wk!ThreadStep,
                Wk!LoadFails, Wk!Loads, Wk!ScriptEnds, Wk!ScriptFails,
                Wk!MakeLoop, Wk!RunLoop, Wk!Serve, Wk!LeaveLoop,
                Wk!FreeRuntime, Wk!DrainContext, Wk!WorkerPosts,
                Wk!WorkerCloses, Wk!MainStep, Wk!DeliverOwner, Wk!Construct,
                Wk!PostMessage, Wk!AttachMessage, Wk!Terminate, Wk!SendQuit,
                Wk!Joined, Wk!Teardown, Wk!shared
  <2>. QED
    BY <1>1, <2>1
<1>7. CASE StartTeardown \/ FinishTeardown \/ UNCHANGED vars
  BY <1>1, <1>7 DEF StartTeardown, FinishTeardown, vars
<1>. QED
  BY <1>2, <1>3, <1>4, <1>5, <1>6, <1>7, CloseOfThread, CloseOfMain
  DEF Next, TeardownStep

(* However many messages were dropped or put off, the close of a connection *)
(* that the page still listens to waits for it or has come to it, and       *)
(* without a pump it is the last that came.                                 *)
THEOREM CloseReachesPage == Spec => []CloseIsReported
<1>1. IInv /\ CInv => CloseIsReported
  <2> SUFFICES ASSUME IInv, CInv PROVE CloseIsReported
    OBVIOUS
  <2>1. DOMAIN wsIdles = 1 .. Len(wsIdles) /\ DOMAIN wsHeld = 1 .. Len(wsHeld)
    BY DEF IInv, EventTypes
  <2>. QED
    BY <2>1 DEF CInv, ClosedLast, InOrder, ClosePosted, Holds, CloseIsReported
<1>2. IInv /\ CInv /\ [Next]_vars => (IInv /\ CInv)'
  BY NextIInv, NextCInv
<1>. QED
  BY <1>1, <1>2, InitIInv, InitCInv, PTL DEF Spec
=============================================================================
