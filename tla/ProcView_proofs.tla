--------------------------- MODULE ProcView_proofs ---------------------------
(***************************************************************************)
(* Proofs that the flags of a tab are honest and that its picture is of its *)
(* page, for every limit of restarts and redirects and any number of loads, *)
(* repaints and deaths of the renderer.                                    *)
(*                                                                         *)
(* What carries them is how little can be under way at once.  A page that   *)
(* is open has at most one request under way, the render that inflight      *)
(* stands for; until a page is open all that is under way is stale but for  *)
(* the load at the very end.  So an answer that is stale comes before the   *)
(* page is open, when there is no flag it could clear by mistake.           *)
(***************************************************************************)
EXTENDS ProcView, SequenceTheorems, FiniteSetTheorems, TLAPS

Busy == pc # "idle"

(* An open page: one render under way, or none, and inflight says which.    *)
OneRender ==
    main = "run" /\ opened =>
        /\ \A i \in 1 .. Len(results) :
              results[i].type = "render" /\ results[i].fresh
        /\ \A i \in 1 .. Len(queue) : queue[i] = Request("render")
        /\ Busy => job = Request("render")
        /\ Len(results) + (IF Busy THEN 1 ELSE 0) + Len(queue)
              = IF inflight THEN 1 ELSE 0
        /\ hasUrl

(* No open page: nothing is fresh but a load, and that is the last of all.  *)
LoadIsLast ==
    main = "run" /\ ~opened =>
        /\ \A i \in 1 .. Len(results) : results[i].fresh =>
              /\ results[i].type = "load"
              /\ i = Len(results) /\ ~Busy /\ Len(queue) = 0
        /\ Busy /\ job.fresh => job.type = "load" /\ Len(queue) = 0
        /\ \A i \in 1 .. Len(queue) : queue[i].fresh =>
              queue[i].type = "load" /\ i = Len(queue)

LoadUnderWay ==
    \/ \E i \in 1 .. Len(results) : results[i].type = "load" /\ results[i].fresh
    \/ job = Request("load")
    \/ \E i \in 1 .. Len(queue) : queue[i] = Request("load")

(* What the flags claim of one another and of the load.                     *)
Claims ==
    main = "run" =>
        /\ pending => inflight
        /\ inflight => opened
        /\ loading => ~opened /\ (deferred \/ LoadUnderWay)

(* The worker has a job exactly while it is busy, a new renderer is tried    *)
(* only for a load, and nothing ends the worker of a tab that is open.      *)
WorkerServes ==
    /\ ~Busy => job = NoJob
    /\ Busy /\ pc # "ended" => job.type # "quit"
    /\ pc \in {"respawn", "retry"} => job.type = "load"
    /\ main = "run" =>
          /\ pc # "ended"
          /\ \A i \in 1 .. Len(queue) : queue[i].type # "quit"

(* The page of the renderer: of an open page the picture the renderer may   *)
(* call unchanged is on the screen, or in the answer under way; a load that  *)
(* succeeded has left a page nobody has painted.                            *)
PaintedIsSeen ==
    main = "run" /\ opened =>
        /\ page # "old"
        /\ painted =>
              \/ shown = "now"
              \/ \E i \in 1 .. Len(results) :
                    results[i].ok /\ results[i].pic = "now"

AnswersOfPage ==
    main = "run" =>
        \A i \in 1 .. Len(results) : results[i].fresh /\ results[i].ok =>
            /\ results[i].type = "load" => page # "old" /\ ~painted
            /\ results[i].type = "render" =>
                  \/ results[i].pic = "now"
                  \/ results[i].pic = "none" /\ shown = "now"

UnderWay == OneRender /\ LoadIsLast /\ Claims /\ WorkerServes
Pictures == PaintedIsSeen /\ AnswersOfPage /\ PictureIsOfPage

IInv == TypeOK /\ UnderWay /\ Pictures

-----------------------------------------------------------------------------
(* Numbering anew makes what carries an earlier number stale, and changes   *)
(* nothing else.                                                           *)
LEMMA StaleRequest ==
    ASSUME NEW r \in Requests, NEW types
    PROVE  /\ Stale(r, types) \in Requests
           /\ Stale(r, types).type = r.type
           /\ Stale(r, types).fresh <=> r.fresh /\ r.type \notin types
           /\ r.type \notin types => Stale(r, types) = r
BY DEF Stale, Requests

LEMMA StaleAnswer ==
    ASSUME NEW r \in Answers, NEW types
    PROVE  /\ Stale(r, types) \in Answers
           /\ Stale(r, types).type = r.type
           /\ Stale(r, types).fresh <=> r.fresh /\ r.type \notin types
           /\ r.type \notin types => Stale(r, types) = r
BY DEF Stale, Answers

LEMMA StaleRequests ==
    ASSUME NEW s \in Seq(Requests), NEW types
    PROVE  /\ AllStale(s, types) \in Seq(Requests)
           /\ Len(AllStale(s, types)) = Len(s)
           /\ \A i \in 1 .. Len(s) : AllStale(s, types)[i] = Stale(s[i], types)
<1>1. \A i \in 1 .. Len(s) : Stale(s[i], types) \in Requests
  BY StaleRequest, ElementOfSeq
<1>2. DOMAIN s = 1 .. Len(s) /\ Len(s) \in Nat
  BY LenProperties
<1>3. AllStale(s, types) = [i \in 1 .. Len(s) |-> Stale(s[i], types)]
  BY <1>2 DEF AllStale
<1> DEFINE t == AllStale(s, types)
<1>4. t \in [1 .. Len(s) -> Requests]
  BY <1>1, <1>3
<1>5. t \in Seq(Requests)
  BY <1>2, <1>4, SeqDef
<1>. QED
  BY <1>2, <1>3, <1>4, <1>5, LenProperties

LEMMA StaleAnswers ==
    ASSUME NEW s \in Seq(Answers), NEW types
    PROVE  /\ AllStale(s, types) \in Seq(Answers)
           /\ Len(AllStale(s, types)) = Len(s)
           /\ \A i \in 1 .. Len(s) : AllStale(s, types)[i] = Stale(s[i], types)
<1>1. \A i \in 1 .. Len(s) : Stale(s[i], types) \in Answers
  BY StaleAnswer, ElementOfSeq
<1>2. DOMAIN s = 1 .. Len(s) /\ Len(s) \in Nat
  BY LenProperties
<1>3. AllStale(s, types) = [i \in 1 .. Len(s) |-> Stale(s[i], types)]
  BY <1>2 DEF AllStale
<1> DEFINE t == AllStale(s, types)
<1>4. t \in [1 .. Len(s) -> Answers]
  BY <1>1, <1>3
<1>5. t \in Seq(Answers)
  BY <1>2, <1>4, SeqDef
<1>. QED
  BY <1>2, <1>3, <1>4, <1>5, LenProperties

(* The answers a load leaves due: stale, and of an older page.              *)
Outdated(s) ==
    [i \in DOMAIN s |->
        [Stale(s[i], {"load", "render"}) EXCEPT !.pic = Older(@)]]

LEMMA OutdatedAnswers ==
    ASSUME NEW s \in Seq(Answers)
    PROVE  /\ Outdated(s) \in Seq(Answers)
           /\ Len(Outdated(s)) = Len(s)
           /\ \A i \in 1 .. Len(s) : ~Outdated(s)[i].fresh
<1> DEFINE old(i) == [Stale(s[i], {"load", "render"}) EXCEPT !.pic = Older(@)]
           t == Outdated(s)
<1>1. ASSUME NEW i \in 1 .. Len(s)
      PROVE  old(i) \in Answers /\ ~old(i).fresh
  <2>1. s[i] \in Answers
    BY ElementOfSeq
  <2>2. s[i].type \in {"load", "render"}
    BY <2>1 DEF Answers
  <2> DEFINE r == Stale(s[i], {"load", "render"})
  <2>3. r \in Answers /\ ~r.fresh
    BY <2>1, <2>2, StaleAnswer
  <2> HIDE DEF r
  <2>4. Older(r.pic) \in Pages
    BY <2>3 DEF Older, Answers, Pages
  <2>5. /\ [r EXCEPT !.pic = Older(@)] \in Answers
        /\ ~[r EXCEPT !.pic = Older(@)].fresh
    BY <2>3, <2>4 DEF Answers
  <2>. QED
    BY <2>5 DEF r
<1>2. DOMAIN s = 1 .. Len(s) /\ Len(s) \in Nat
  BY LenProperties
<1>3. t = [i \in 1 .. Len(s) |-> old(i)]
  BY <1>2 DEF Outdated
<1> HIDE DEF old, t
<1>4. t \in [1 .. Len(s) -> Answers]
  BY <1>1, <1>3
<1>5. t \in Seq(Answers)
  BY <1>2, <1>4, SeqDef
<1>6. Len(t) = Len(s)
  BY <1>2, <1>4, <1>5, LenProperties
<1>7. \A i \in 1 .. Len(s) : t[i] = old(i)
  BY <1>3
<1>. QED
  BY <1>1, <1>5, <1>6, <1>7 DEF t

-----------------------------------------------------------------------------
(* What the calls that start a load or a render leave under way.            *)
LEMMA RequestFacts ==
    /\ \A t \in {"load", "render", "quit"} :
          /\ Request(t) \in Requests
          /\ Request(t).type = t /\ Request(t).fresh
    /\ \A r \in Requests : r.fresh => r = Request(r.type)
    /\ \A t, u : Request(t) = Request(u) => t = u
    /\ NoJob = Request("quit")
<1>1. \A t : Request(t).type = t /\ Request(t).fresh
  BY DEF Request
<1>2. \A t \in {"load", "render", "quit"} : Request(t) \in Requests
  BY DEF Request, Requests
<1>3. \A r \in Requests : r.fresh => r = Request(r.type)
  BY DEF Request, Requests
<1>. QED
  BY <1>1, <1>2, <1>3 DEF NoJob

LEMMA LoadTypes ==
    ASSUME TypeOK, NEW rest \in Seq(Answers), NEW allocated \in BOOLEAN,
           do_load(rest, allocated), sized' \in BOOLEAN,
           UNCHANGED <<main, hasUrl, pc, proc, painted>>
    PROVE  /\ ViewTypes' /\ QueueTypes' /\ WorkerTypes'
           /\ \A i \in 1 .. Len(results') : ~results'[i].fresh
<1>0. queue \in Seq(Requests) /\ job \in Requests /\ page \in Pages
  BY DEF TypeOK, QueueTypes, WorkerTypes
<1>1. results' = Outdated(rest)
  BY DEF do_load, Outdated
<1>2. /\ results' \in Seq(Answers)
      /\ \A i \in 1 .. Len(results') : ~results'[i].fresh
  BY <1>1, OutdatedAnswers
<1> DEFINE kept == AllStale(queue, {"load", "render"})
           new == IF allocated THEN <<Request("load")>> ELSE << >>
<1>3. kept \in Seq(Requests)
  BY <1>0, StaleRequests
<1>4. new \in Seq(Requests)
  BY RequestFacts
<1>5. queue' = kept \o new
  BY DEF do_load
<1> HIDE DEF kept, new
<1>6. queue' \in Seq(Requests)
  BY <1>3, <1>4, <1>5, ConcatProperties
<1>7. job' \in Requests
  BY <1>0, StaleRequest DEF do_load
<1>8. page' \in Pages
  BY <1>0 DEF do_load, Older, Pages
<1>9. ViewTypes'
  BY DEF do_load, TypeOK, ViewTypes, Pages
<1>10. WorkerTypes'
  BY <1>7, <1>8 DEF TypeOK, WorkerTypes
<1>. QED
  BY <1>2, <1>6, <1>9, <1>10 DEF QueueTypes

(* A load leaves nothing fresh under way but itself, at the end.            *)
LEMMA LoadEffect ==
    ASSUME TypeOK, WorkerServes, main = "run",
           NEW rest \in Seq(Answers), NEW allocated \in BOOLEAN,
           do_load(rest, allocated), sized' \in BOOLEAN,
           UNCHANGED <<main, hasUrl, pc, proc, painted>>
    PROVE  UnderWay' /\ Pictures'
<1>0. queue \in Seq(Requests) /\ job \in Requests
  BY DEF TypeOK, QueueTypes, WorkerTypes
<1> DEFINE kept == AllStale(queue, {"load", "render"})
           new == IF allocated THEN <<Request("load")>> ELSE << >>
<1>1. /\ kept \in Seq(Requests) /\ Len(kept) = Len(queue)
      /\ \A i \in 1 .. Len(queue) :
            kept[i] = Stale(queue[i], {"load", "render"})
  BY <1>0, StaleRequests
<1>2. \A i \in 1 .. Len(queue) :
          queue[i] \in Requests /\ queue[i].type \in {"load", "render"}
  <2>1. \A i \in 1 .. Len(queue) : queue[i] \in Requests
    BY <1>0, ElementOfSeq
  <2>. QED
    BY <2>1 DEF WorkerServes, Requests
<1>3. \A i \in 1 .. Len(kept) :
          ~kept[i].fresh /\ kept[i].type \in {"load", "render"}
  BY <1>1, <1>2, StaleRequest
<1>4. new \in Seq(Requests) /\ Len(new) = IF allocated THEN 1 ELSE 0
  BY RequestFacts
<1>4a. \A i \in 1 .. Len(new) : new[i] = Request("load")
  BY <1>4
<1>5. queue' = kept \o new
  BY DEF do_load
<1> HIDE DEF kept, new
<1>6. /\ queue' \in Seq(Requests)
      /\ Len(queue') = Len(kept) + Len(new)
      /\ \A i \in 1 .. Len(queue') :
            queue'[i] = IF i <= Len(kept) THEN kept[i] ELSE new[i - Len(kept)]
  <2>1. kept \in Seq(Requests) /\ new \in Seq(Requests)
    BY <1>1, <1>4
  <2>2. /\ kept \o new \in Seq(Requests)
        /\ Len(kept \o new) = Len(kept) + Len(new)
        /\ \A i \in 1 .. Len(kept) + Len(new) : (kept \o new)[i] =
              IF i <= Len(kept) THEN kept[i] ELSE new[i - Len(kept)]
    BY <2>1, ConcatProperties
  <2>. QED
    BY <1>5, <2>2
<1>7. Len(kept) \in Nat /\ Len(new) \in Nat
  BY <1>1, <1>4, LenProperties
<1>8. ASSUME NEW i \in 1 .. Len(queue')
      PROVE  /\ queue'[i].type \in {"load", "render"}
             /\ queue'[i].fresh =>
                   queue'[i] = Request("load") /\ i = Len(queue')
  <2>1. CASE i <= Len(kept)
    BY <1>3, <1>6, <1>7, <2>1
  <2>2. CASE ~(i <= Len(kept))
    <3>1. i - Len(kept) \in 1 .. Len(new)
      BY <1>6, <1>7, <2>2
    <3>2. queue'[i] = Request("load") /\ i = Len(queue')
      BY <1>4, <1>4a, <1>6, <1>7, <2>2, <3>1
    <3>. QED
      BY <3>2, RequestFacts
  <2>. QED
    BY <2>1, <2>2
<1>9. allocated => Len(queue') \in 1 .. Len(queue')
                   /\ queue'[Len(queue')] = Request("load")
  BY <1>4, <1>4a, <1>6, <1>7
<1>10. /\ \A i \in 1 .. Len(results') : ~results'[i].fresh
       /\ job' = Stale(job, {"load", "render"})
       /\ shown' = "none" /\ deferred' = ~allocated
       /\ ~opened' /\ ~inflight' /\ ~pending' /\ loading'
  BY LoadTypes DEF do_load
<1>11. job'.type = job.type /\ (job'.fresh => job.type = "quit")
       /\ (job.type = "quit" => job' = job)
  BY <1>0, <1>10, StaleRequest DEF Requests
<1>12. OneRender' /\ PaintedIsSeen' /\ AnswersOfPage' /\ PictureIsOfPage'
  BY <1>10 DEF OneRender, PaintedIsSeen, AnswersOfPage, PictureIsOfPage
<1>13. WorkerServes'
  BY <1>8, <1>11, RequestFacts DEF WorkerServes, Busy
<1>14. LoadIsLast'
  BY <1>8, <1>10, <1>11, RequestFacts DEF LoadIsLast, WorkerServes, Busy
<1>15. Claims'
  BY <1>9, <1>10 DEF Claims, LoadUnderWay
<1>. QED
  BY <1>12, <1>13, <1>14, <1>15 DEF UnderWay, Pictures

LEMMA RenderTypes ==
    ASSUME TypeOK, NEW rest \in Seq(Answers), start_render(rest)
    PROVE  /\ QueueTypes'
           /\ job' \in Requests
           /\ inflight' /\ inflight' \in BOOLEAN
<1>0. queue \in Seq(Requests) /\ job \in Requests
  BY DEF TypeOK, QueueTypes, WorkerTypes
<1>1. AllStale(queue, {"render"}) \in Seq(Requests)
  BY <1>0, StaleRequests
<1>2. Append(AllStale(queue, {"render"}), Request("render")) \in Seq(Requests)
  BY <1>1, RequestFacts, AppendProperties
<1>3. AllStale(rest, {"render"}) \in Seq(Answers)
  BY StaleAnswers
<1>4. Stale(job, {"render"}) \in Requests
  BY <1>0, StaleRequest
<1>. QED
  BY <1>2, <1>3, <1>4 DEF start_render, QueueTypes

(* A render that starts when nothing else is under way is all there is.     *)
LEMMA RenderEffect ==
    ASSUME TypeOK, WorkerServes, main = "run", Len(queue) = 0, ~Busy,
           NEW rest \in Seq(Answers), Len(rest) = 0,
           start_render(rest), main' = main, pc' = pc,
           opened', hasUrl', ~loading', shown' # "old"
    PROVE  /\ UnderWay' /\ AnswersOfPage' /\ PictureIsOfPage'
           /\ Len(results') = 0
<1>1. queue \in Seq(Requests)
  BY DEF TypeOK, QueueTypes
<1>2. /\ AllStale(queue, {"render"}) \in Seq(Requests)
      /\ Len(AllStale(queue, {"render"})) = 0
  BY <1>1, StaleRequests
<1>3. Len(queue') = 1 /\ queue'[1] = Request("render")
  <2>1. queue' = Append(AllStale(queue, {"render"}), Request("render"))
    BY DEF start_render
  <2>2. Request("render") \in Requests
    BY RequestFacts
  <2>. QED
    BY <1>2, <2>1, <2>2, AppendProperties
<1>4. Len(results') = 0
  BY StaleAnswers DEF start_render
<1>5. job' = NoJob
  <2>1. NoJob \in Requests /\ NoJob.type \notin {"render"}
    BY RequestFacts
  <2>. QED
    BY <2>1, StaleRequest DEF start_render, WorkerServes
<1>6. inflight' /\ ~Busy' /\ pc \notin {"respawn", "retry", "ended"}
  BY DEF start_render, Busy
<1>7. OneRender' /\ LoadIsLast' /\ Claims' /\ AnswersOfPage' /\ PictureIsOfPage'
  BY <1>3, <1>4, <1>6
  DEF OneRender, LoadIsLast, Claims, AnswersOfPage, PictureIsOfPage
<1>8. WorkerServes'
  BY <1>3, <1>5, <1>6, RequestFacts DEF WorkerServes
<1>. QED
  BY <1>4, <1>7, <1>8 DEF UnderWay

LEMMA RequestRenderTypes ==
    ASSUME TypeOK, NEW rest \in Seq(Answers), request_render(rest)
    PROVE  /\ QueueTypes'
           /\ job' \in Requests
           /\ inflight' \in BOOLEAN /\ pending' \in BOOLEAN
BY RenderTypes
DEF request_render, TypeOK, ViewTypes, QueueTypes, WorkerTypes

LEMMA NextRenderTypes ==
    ASSUME TypeOK, NEW rest \in Seq(Answers), next_render(rest)
    PROVE  /\ QueueTypes'
           /\ job' \in Requests
           /\ inflight' \in BOOLEAN /\ pending' \in BOOLEAN
BY RenderTypes
DEF next_render, TypeOK, ViewTypes, QueueTypes, WorkerTypes

(* The answer is posted behind the others and the worker is idle again.     *)
LEMMA PostEffect ==
    ASSUME TypeOK, job.type \in {"load", "render"},
           NEW ok \in BOOLEAN, NEW nav \in BOOLEAN, NEW pic \in Pages,
           Post(ok, nav, pic)
    PROVE  /\ results' \in Seq(Answers)
           /\ Len(results') = Len(results) + 1
           /\ \A i \in 1 .. Len(results) : results'[i] = results[i]
           /\ results'[Len(results) + 1].type = job.type
           /\ results'[Len(results) + 1].fresh = job.fresh
           /\ results'[Len(results) + 1].ok = ok
           /\ results'[Len(results) + 1].pic = pic
           /\ job' = NoJob /\ job' \in Requests /\ pc' = "idle"
<1>1. results \in Seq(Answers) /\ job \in Requests
  BY DEF TypeOK, QueueTypes, WorkerTypes
<1> DEFINE a == [type |-> job.type, fresh |-> job.fresh,
                 ok |-> ok, nav |-> nav, pic |-> pic]
<1>2. a \in Answers
  BY <1>1 DEF Answers, Requests
<1>3. results' = Append(results, a) /\ job' = NoJob /\ pc' = "idle"
  BY DEF Post
<1>4. a.type = job.type /\ a.fresh = job.fresh /\ a.ok = ok /\ a.pic = pic
  OBVIOUS
<1> HIDE DEF a
<1>5. /\ results' \in Seq(Answers)
      /\ Len(results') = Len(results) + 1
      /\ \A i \in 1 .. Len(results) : results'[i] = results[i]
      /\ results'[Len(results) + 1] = a
  BY <1>1, <1>2, <1>3, AppendProperties
<1>. QED
  BY <1>3, <1>4, <1>5, RequestFacts

LEMMA Numbers == MaxRestarts \in Nat /\ MaxRedirects \in Nat /\ MaxInputs \in Nat
BY ProcViewAssumption DEF ProcViewAssumption

-----------------------------------------------------------------------------
(* Types: the main thread first, but for the answers.                      *)
LEMMA MainTypes ==
    ASSUME TypeOK,
           Load \/ Stop \/ Repaint \/ Resize \/ Destroy \/ Interrupt \/ Joined
    PROVE  TypeOK'
<1> USE DEF area, flags, counters, worker, renderer
<1>0. /\ results \in Seq(Answers) /\ queue \in Seq(Requests) /\ job \in Requests
      /\ ViewTypes /\ CounterTypes /\ QueueTypes /\ WorkerTypes
  BY DEF TypeOK, QueueTypes, WorkerTypes
<1>1. CASE Load
  <2>1. ViewTypes' /\ QueueTypes' /\ WorkerTypes'
    BY <1>0, <1>1, LoadTypes DEF Load, ViewTypes
  <2>2. CounterTypes'
    BY <1>0, <1>1, Numbers DEF Load, CounterTypes
  <2>. QED
    BY <2>1, <2>2 DEF TypeOK
<1>2. CASE Stop
  <2>1. QueueTypes'
    BY <1>0, <1>2, StaleRequests, StaleAnswers DEF Stop, QueueTypes
  <2>2. WorkerTypes'
    BY <1>0, <1>2, StaleRequest DEF Stop, WorkerTypes
  <2>3. ViewTypes' /\ CounterTypes'
    BY <1>0, <1>2 DEF Stop, ViewTypes, CounterTypes
  <2>. QED
    BY <2>1, <2>2, <2>3 DEF TypeOK
<1>3. CASE Repaint
  <2>1. QueueTypes' /\ job' \in Requests
        /\ inflight' \in BOOLEAN /\ pending' \in BOOLEAN
    BY <1>0, <1>3, RequestRenderTypes DEF Repaint
  <2>2. ViewTypes'
    BY <1>0, <1>3, <2>1 DEF Repaint, ViewTypes
  <2>3. CounterTypes'
    BY <1>0, <1>3, Numbers DEF Repaint, CounterTypes
  <2>4. WorkerTypes'
    BY <1>0, <1>3, <2>1 DEF Repaint, WorkerTypes
  <2>. QED
    BY <2>1, <2>2, <2>3, <2>4 DEF TypeOK
<1>4. CASE Resize
  <2>1. CounterTypes'
    BY <1>0, <1>4 DEF Resize, CounterTypes
  <2>2. CASE deferred /\ do_load(results, TRUE)
    BY <1>0, <1>4, <2>1, <2>2, LoadTypes DEF Resize, TypeOK
  <2>3. CASE UNCHANGED <<deferred, flags, shown, queue, results, job, page>>
    BY <1>0, <1>4, <2>1, <2>3
    DEF Resize, TypeOK, ViewTypes, QueueTypes, WorkerTypes
  <2>. QED
    BY <1>4, <2>2, <2>3 DEF Resize
<1>5. CASE Destroy
  <2>1. Append(queue, Request("quit")) \in Seq(Requests)
    BY <1>0, RequestFacts, AppendProperties
  <2>2. QueueTypes'
    BY <1>0, <1>5, <2>1 DEF Destroy, QueueTypes
  <2>. QED
    BY <1>0, <1>5, <2>2 DEF Destroy, TypeOK, ViewTypes, CounterTypes, WorkerTypes
<1>6. CASE Interrupt
  BY <1>0, <1>6
  DEF Interrupt, TypeOK, ViewTypes, CounterTypes, QueueTypes, WorkerTypes
<1>7. CASE Joined
  BY <1>0, <1>7
  DEF Joined, TypeOK, ViewTypes, CounterTypes, QueueTypes, WorkerTypes
<1>. QED
  BY <1>1, <1>2, <1>3, <1>4, <1>5, <1>6, <1>7

LEMMA PageAnswerTypes ==
    ASSUME TypeOK, NEW r \in Answers, NEW rest \in Seq(Answers),
           on_page(r, rest), UNCHANGED <<pc, proc, painted, inputs>>
    PROVE  TypeOK'
<1> USE DEF area, flags, counters
<1>0. ViewTypes /\ CounterTypes /\ QueueTypes /\ WorkerTypes
  BY DEF TypeOK
<1>1. CASE /\ results' = rest
           /\ loading' \in BOOLEAN
           /\ UNCHANGED <<area, opened, inflight, pending, hasUrl, shown,
                          counters, queue, job, page>>
  BY <1>0, <1>1 DEF TypeOK, ViewTypes, CounterTypes, QueueTypes, WorkerTypes
<1>2. CASE /\ redirects < MaxRedirects /\ redirects' = redirects + 1
           /\ do_load(rest, sized)
           /\ UNCHANGED <<main, sized, hasUrl, restarts, reloads>>
  <2>1. ViewTypes' /\ QueueTypes' /\ WorkerTypes'
    BY <1>0, <1>2, LoadTypes DEF ViewTypes
  <2>2. CounterTypes'
    BY <1>0, <1>2, Numbers DEF CounterTypes
  <2>. QED
    BY <2>1, <2>2 DEF TypeOK
<1>3. CASE /\ redirects' = 0
           /\ hasUrl' = TRUE /\ opened' = TRUE /\ loading' = FALSE
           /\ request_render(rest)
           /\ UNCHANGED <<area, shown, restarts, reloads, page>>
  <2>1. QueueTypes' /\ job' \in Requests
        /\ inflight' \in BOOLEAN /\ pending' \in BOOLEAN
    BY <1>3, RequestRenderTypes
  <2>2. ViewTypes'
    BY <1>0, <1>3, <2>1 DEF ViewTypes
  <2>3. CounterTypes'
    BY <1>0, <1>3, Numbers DEF CounterTypes
  <2>4. WorkerTypes'
    BY <1>0, <1>3, <2>1 DEF WorkerTypes
  <2>. QED
    BY <2>1, <2>2, <2>3, <2>4 DEF TypeOK
<1>4. loading \in BOOLEAN
  BY <1>0 DEF ViewTypes
<1>. QED
  BY <1>1, <1>2, <1>3, <1>4 DEF on_page

LEMMA FrameAnswerTypes ==
    ASSUME TypeOK, NEW r \in Answers, NEW rest \in Seq(Answers),
           on_frame(r, rest), UNCHANGED <<pc, proc, painted, inputs>>
    PROVE  TypeOK'
<1>0. ViewTypes /\ CounterTypes /\ QueueTypes /\ WorkerTypes
  BY DEF TypeOK
<1>1. CounterTypes'
  <2>1. inputs' \in 0 .. MaxInputs
    BY <1>0 DEF CounterTypes
  <2>2. \/ restarts' \in {restarts, 0}
        \/ restarts < MaxRestarts /\ restarts' = restarts + 1
    BY DEF on_frame, counters
  <2>3. \/ redirects' = redirects
        \/ redirects < MaxRedirects /\ redirects' = redirects + 1
    BY DEF on_frame, counters
  <2>4. \/ reloads' = reloads
        \/ reloads' = IF reloads > MaxRestarts THEN reloads ELSE reloads + 1
    BY DEF on_frame, counters
  <2>. QED
    BY <1>0, <2>1, <2>2, <2>3, <2>4, Numbers DEF CounterTypes
<1>2. CASE /\ next_render(rest)
           /\ loading' \in BOOLEAN /\ shown' \in Pages
           /\ UNCHANGED <<main, sized, deferred, opened, hasUrl, page>>
  <2>1. QueueTypes' /\ job' \in Requests
        /\ inflight' \in BOOLEAN /\ pending' \in BOOLEAN
    BY <1>2, NextRenderTypes
  <2>2. ViewTypes'
    BY <1>0, <1>2, <2>1 DEF ViewTypes
  <2>3. WorkerTypes'
    BY <1>0, <1>2, <2>1 DEF WorkerTypes
  <2>. QED
    BY <1>1, <2>1, <2>2, <2>3 DEF TypeOK
<1>3. CASE do_load(rest, sized) /\ UNCHANGED <<main, sized, hasUrl>>
  <2>1. ViewTypes' /\ QueueTypes' /\ WorkerTypes'
    BY <1>0, <1>3, LoadTypes DEF ViewTypes
  <2>. QED
    BY <1>1, <2>1 DEF TypeOK
<1>4. loading \in BOOLEAN /\ hasUrl \in BOOLEAN /\ shown \in Pages /\ r.pic \in Pages
  BY <1>0 DEF ViewTypes, Answers
<1>. QED
  BY <1>2, <1>3, <1>4 DEF on_frame, area

LEMMA AnswerTypes == TypeOK /\ OnResult => TypeOK'
<1> SUFFICES ASSUME TypeOK, OnResult PROVE TypeOK'
  OBVIOUS
<1>1. results \in Seq(Answers) /\ results # << >>
  BY DEF OnResult, TypeOK, QueueTypes
<1>2. Head(results) \in Answers /\ Tail(results) \in Seq(Answers)
  BY <1>1, HeadTailProperties
<1>3. UNCHANGED <<pc, proc, painted, inputs>>
  BY DEF OnResult
<1>4. CASE on_page(Head(results), Tail(results))
  BY <1>2, <1>3, <1>4, PageAnswerTypes
<1>5. CASE on_frame(Head(results), Tail(results))
  BY <1>2, <1>3, <1>5, FrameAnswerTypes
<1>6. CASE /\ results' = Tail(results)
           /\ UNCHANGED <<area, flags, hasUrl, shown, counters, queue, job, page>>
  BY <1>2, <1>3, <1>6
  DEF TypeOK, ViewTypes, CounterTypes, QueueTypes, WorkerTypes,
      area, flags, counters
<1>. QED
  BY <1>4, <1>5, <1>6 DEF OnResult

LEMMA WorkerStepTypes == TypeOK /\ Worker => TypeOK'
<1> SUFFICES ASSUME TypeOK, Worker PROVE TypeOK'
  OBVIOUS
<1>0. ViewTypes /\ CounterTypes /\ QueueTypes /\ WorkerTypes
  BY DEF TypeOK
<1>1. ViewTypes'
  BY <1>0
  DEF Worker, Take, Spawn, ServeLoad, FailLoad, ServeRender, FailRender,
      view, area, flags, ViewTypes
<1>2. CounterTypes'
  <2>1. UNCHANGED counters
    BY DEF Worker, Take, Spawn, ServeLoad, FailLoad, ServeRender, FailRender, view
  <2>2. inputs' = inputs \/ (inputs < MaxInputs /\ inputs' = inputs + 1)
    BY DEF Worker, Take, Spawn, ServeLoad, FailLoad, ServeRender, FailRender
  <2>. QED
    BY <1>0, <2>1, <2>2, Numbers DEF counters, CounterTypes
<1> USE DEF renderer, Pages
<1>3. CASE Take
  <2>1. queue \in Seq(Requests) /\ queue # << >>
    BY <1>0, <1>3 DEF Take, QueueTypes
  <2>2. Head(queue) \in Requests /\ Tail(queue) \in Seq(Requests)
    BY <2>1, HeadTailProperties
  <2>3. QueueTypes'
    BY <1>0, <1>3, <2>2 DEF Take, QueueTypes
  <2>4. job' \in Requests
    BY <1>3, <2>2 DEF Take
  <2>5. WorkerTypes'
    BY <1>0, <1>3, <2>4 DEF Take, WorkerTypes
  <2>. QED
    BY <1>1, <1>2, <2>3, <2>5 DEF TypeOK
<1>4. CASE Spawn
  <2>1. WorkerTypes'
    BY <1>0, <1>4 DEF Spawn, WorkerTypes
  <2>2. QueueTypes'
    BY <1>0, <1>4 DEF Spawn, QueueTypes
  <2>. QED
    BY <1>1, <1>2, <2>1, <2>2 DEF TypeOK
<1>5. CASE /\ job.type \in {"load", "render"}
           /\ \E ok, nav \in BOOLEAN, pic \in Pages : Post(ok, nav, pic)
           /\ proc' \in {"none", "up", "dead"}
           /\ page' \in Pages /\ painted' \in BOOLEAN
           /\ queue' = queue
  <2>1. results' \in Seq(Answers) /\ job' \in Requests /\ pc' = "idle"
    BY <1>5, PostEffect
  <2>2. QueueTypes' /\ WorkerTypes'
    BY <1>0, <1>5, <2>1 DEF QueueTypes, WorkerTypes
  <2>. QED
    BY <1>1, <1>2, <2>2 DEF TypeOK
<1>6. CASE ServeLoad
  BY <1>0, <1>5, <1>6 DEF ServeLoad, WorkerTypes
<1>7. CASE FailLoad
  <2>1. CASE Post(FALSE, FALSE, "none") /\ UNCHANGED renderer
    BY <1>0, <1>5, <1>7, <2>1 DEF FailLoad, WorkerTypes
  <2>2. CASE /\ pc' = "respawn"
             /\ proc' = "none" /\ page' = "none" /\ painted' = FALSE
             /\ UNCHANGED <<results, job>>
    <3>1. QueueTypes' /\ WorkerTypes'
      BY <1>0, <1>7, <2>2 DEF FailLoad, QueueTypes, WorkerTypes
    <3>. QED
      BY <1>1, <1>2, <3>1 DEF TypeOK
  <2>. QED
    BY <1>7, <2>1, <2>2 DEF FailLoad
<1>8. CASE ServeRender
  BY <1>0, <1>5, <1>8 DEF ServeRender, WorkerTypes
<1>9. CASE FailRender
  BY <1>0, <1>5, <1>9 DEF FailRender, WorkerTypes
<1>. QED
  BY <1>3, <1>4, <1>6, <1>7, <1>8, <1>9 DEF Worker

LEMMA InitTypes == Init => TypeOK
<1> SUFFICES ASSUME Init PROVE TypeOK
  OBVIOUS
<1>1. ViewTypes
  BY DEF Init, ViewTypes, Pages
<1>2. CounterTypes
  BY Numbers DEF Init, CounterTypes
<1>3. QueueTypes
  BY DEF Init, QueueTypes
<1>4. WorkerTypes
  BY RequestFacts DEF Init, WorkerTypes, Pages
<1>. QED
  BY <1>1, <1>2, <1>3, <1>4 DEF TypeOK

LEMMA NextTypes == TypeOK /\ [Next]_vars => TypeOK'
<1> SUFFICES ASSUME TypeOK, [Next]_vars PROVE TypeOK'
  OBVIOUS
<1>1. CASE Load \/ Stop \/ Repaint \/ Resize \/ Destroy \/ Interrupt \/ Joined
  BY <1>1, MainTypes
<1>2. CASE OnResult
  BY <1>2, AnswerTypes
<1>3. CASE Take \/ Spawn \/ ServeLoad \/ FailLoad \/ ServeRender \/ FailRender
  BY <1>3, WorkerStepTypes DEF Worker
<1> USE DEF TypeOK, ViewTypes, CounterTypes, QueueTypes, WorkerTypes,
        view, area, flags, counters, worker, renderer
<1>4. CASE RendererDies
  BY <1>4 DEF RendererDies
<1>5. CASE UNCHANGED vars
  BY <1>5 DEF vars
<1>. QED
  BY <1>1, <1>2, <1>3, <1>4, <1>5 DEF Next

(* Every variable keeps its type; in particular the counts of restarts and  *)
(* redirects stay within their limits.                                     *)
THEOREM TypeCorrect == Spec => []TypeOK
BY InitTypes, NextTypes, PTL DEF Spec

-----------------------------------------------------------------------------
(* The invariant, one lemma for each group of actions.                     *)
LEMMA Parts ==
    IInv => /\ TypeOK /\ OneRender /\ LoadIsLast /\ Claims /\ WorkerServes
            /\ PaintedIsSeen /\ AnswersOfPage /\ PictureIsOfPage
            /\ queue \in Seq(Requests) /\ Len(queue) \in Nat
            /\ results \in Seq(Answers) /\ Len(results) \in Nat
            /\ job \in Requests
<1> SUFFICES ASSUME IInv
             PROVE  /\ queue \in Seq(Requests) /\ results \in Seq(Answers)
                    /\ job \in Requests
  BY LenProperties DEF IInv, UnderWay, Pictures
<1>. QED
  BY DEF IInv, TypeOK, QueueTypes, WorkerTypes

(* Of a tab that is not running only the worker still has something to keep. *)
LEMMA ClosedKeeps ==
    ASSUME IInv, main' # "run", shown' = shown, WorkerServes'
    PROVE  UnderWay' /\ Pictures'
BY Parts
DEF UnderWay, Pictures, OneRender, LoadIsLast, Claims, PaintedIsSeen,
    AnswersOfPage, PictureIsOfPage

(* What the invariant is about and the step leaves alone.                   *)
LEMMA SameKeeps ==
    ASSUME IInv,
           UNCHANGED <<main, loading, opened, inflight, pending, hasUrl, shown,
                       restarts, queue, results, pc, job, page, painted>>,
           deferred' = deferred
    PROVE  UnderWay' /\ Pictures'
<1>1. UnderWay'
  BY Parts
  DEF UnderWay, OneRender, LoadIsLast, Claims, LoadUnderWay, WorkerServes, Busy
<1>2. Pictures'
  BY Parts DEF Pictures, PaintedIsSeen, AnswersOfPage, PictureIsOfPage
<1>. QED
  BY <1>1, <1>2

LEMMA StopKeeps == IInv /\ Stop => UnderWay' /\ Pictures'
<1> SUFFICES ASSUME IInv, Stop PROVE UnderWay' /\ Pictures'
  OBVIOUS
<1> USE Parts
<1>1. ~opened /\ ~inflight /\ ~pending /\ main = "run"
  BY DEF Stop, Claims
<1>2. UNCHANGED <<main, deferred, opened, hasUrl, shown, restarts, pc, page, painted>>
      /\ ~loading' /\ ~inflight' /\ ~pending'
  BY DEF Stop, area, counters, renderer
<1>3. /\ Len(queue') = Len(queue)
      /\ \A i \in 1 .. Len(queue) : queue'[i] = Stale(queue[i], {"render"})
  BY StaleRequests DEF Stop
<1>4. /\ Len(results') = Len(results)
      /\ \A i \in 1 .. Len(results) : results'[i] = Stale(results[i], {"render"})
  BY StaleAnswers DEF Stop
<1>5. \A i \in 1 .. Len(queue) :
          queue'[i].type = queue[i].type /\ (queue'[i].fresh => queue[i].fresh)
  BY <1>3, ElementOfSeq, StaleRequest
<1>6. \A i \in 1 .. Len(results) :
          /\ results'[i].type = results[i].type
          /\ results'[i].fresh => results[i].fresh
          /\ results'[i].type = "load" => results'[i] = results[i]
  BY <1>4, ElementOfSeq, StaleAnswer
<1>7. job'.type = job.type /\ (job'.fresh => job.fresh)
      /\ (job.type # "render" => job' = job)
  BY StaleRequest DEF Stop
<1>8. OneRender' /\ PaintedIsSeen' /\ PictureIsOfPage' /\ Claims'
  BY <1>1, <1>2 DEF OneRender, PaintedIsSeen, PictureIsOfPage, Claims
<1>9. LoadIsLast'
  BY <1>1, <1>2, <1>3, <1>4, <1>5, <1>6, <1>7 DEF LoadIsLast, Busy
<1>10. WorkerServes'
  BY <1>2, <1>3, <1>5, <1>7, RequestFacts DEF WorkerServes, Busy
<1>11. AnswersOfPage'
  BY <1>1, <1>2, <1>4, <1>6 DEF AnswersOfPage, LoadIsLast
<1>. QED
  BY <1>8, <1>9, <1>10, <1>11 DEF UnderWay, Pictures

LEMMA RepaintKeeps == IInv /\ Repaint => UnderWay' /\ Pictures'
<1> SUFFICES ASSUME IInv, Repaint PROVE UnderWay' /\ Pictures'
  OBVIOUS
<1> USE Parts
<1>1. main = "run" /\ opened /\ hasUrl /\ ~loading
  BY DEF Repaint, OneRender, Claims
<1>2. UNCHANGED <<main, deferred, loading, opened, hasUrl, shown, restarts,
                  pc, page, painted>>
  BY DEF Repaint, area, counters, renderer
<1>3. CASE /\ inflight /\ pending' = TRUE /\ results' = results
           /\ UNCHANGED <<queue, job, inflight>>
  <2>1. UnderWay'
    BY <1>1, <1>2, <1>3
    DEF UnderWay, OneRender, LoadIsLast, Claims, WorkerServes, Busy
  <2>2. Pictures'
    BY <1>1, <1>2, <1>3
    DEF Pictures, PaintedIsSeen, AnswersOfPage, PictureIsOfPage
  <2>. QED
    BY <2>1, <2>2
<1>4. CASE ~inflight /\ start_render(results) /\ pending' = pending
  <2>1. Len(results) = 0 /\ Len(queue) = 0 /\ ~Busy
    BY <1>1, <1>4 DEF OneRender
  <2>2. shown' # "old"
    BY <1>2 DEF PictureIsOfPage
  <2>3. UnderWay' /\ AnswersOfPage' /\ PictureIsOfPage' /\ Len(results') = 0
    BY <1>1, <1>2, <1>4, <2>1, <2>2, RenderEffect
  <2>4. PaintedIsSeen'
    BY <1>1, <1>2, <2>1 DEF PaintedIsSeen
  <2>. QED
    BY <2>3, <2>4 DEF Pictures
<1>. QED
  BY <1>3, <1>4 DEF Repaint, request_render

(* The tab's own steps but for the answers.                                 *)
LEMMA TabKeeps ==
    ASSUME IInv,
           Load \/ Stop \/ Repaint \/ Resize \/ Destroy \/ Interrupt \/ Joined
    PROVE  UnderWay' /\ Pictures'
<1> USE Parts
<1>1. CASE Load
  <2>1. sized \in BOOLEAN
    BY DEF TypeOK, ViewTypes
  <2>. QED
    BY <1>1, <2>1, LoadEffect DEF Load
<1>2. CASE Stop
  BY <1>2, StopKeeps
<1>3. CASE Repaint
  BY <1>3, RepaintKeeps
<1>4. CASE Resize
  <2>1. CASE deferred /\ do_load(results, TRUE)
    BY <1>4, <2>1, LoadEffect DEF Resize
  <2>2. CASE UNCHANGED <<deferred, flags, shown, queue, results, job, page>>
    BY <1>4, <2>2, SameKeeps DEF Resize, flags, counters
  <2>. QED
    BY <1>4, <2>1, <2>2 DEF Resize
<1>5. CASE Destroy
  <2>1. main' # "run" /\ shown' = shown /\ UNCHANGED <<pc, job>>
    BY <1>5 DEF Destroy, worker
  <2>2. WorkerServes'
    BY <2>1 DEF WorkerServes, Busy
  <2>. QED
    BY <2>1, <2>2, ClosedKeeps
<1>6. CASE Interrupt \/ Joined
  <2>1. main' # "run" /\ shown' = shown /\ UNCHANGED <<pc, job>>
    BY <1>6 DEF Interrupt, Joined, worker
  <2>2. WorkerServes'
    BY <2>1 DEF WorkerServes, Busy
  <2>. QED
    BY <2>1, <2>2, ClosedKeeps
<1>. QED
  BY <1>1, <1>2, <1>3, <1>4, <1>5, <1>6

-----------------------------------------------------------------------------
(* The first of the answers that are due.                                  *)
LEMMA AnswerHead ==
    ASSUME IInv, results # << >>
    PROVE  /\ Head(results) \in Answers /\ 1 \in 1 .. Len(results)
           /\ Head(results) = results[1]
           /\ Tail(results) \in Seq(Answers)
           /\ Len(results) >= 1
           /\ Len(Tail(results)) = Len(results) - 1
           /\ \A i \in 1 .. Len(results) - 1 : Tail(results)[i] = results[i + 1]
BY Parts, HeadTailProperties

(* A stale answer is one of a tab whose page is not open, and there it      *)
(* tells nothing.                                                          *)
LEMMA DropKeeps ==
    ASSUME IInv, main = "run", results # << >>, ~Head(results).fresh,
           results' = Tail(results), ~inflight', ~pending',
           UNCHANGED <<main, deferred, loading, opened, hasUrl, shown, restarts,
                       queue, pc, job, page, painted>>
    PROVE  UnderWay' /\ Pictures'
<1> USE Parts, AnswerHead
<1>0. Len(results') = Len(results) - 1 /\ Len(results) \in Nat
  OBVIOUS
<1>1. ~opened
  BY DEF OneRender
<1>2. OneRender' /\ PaintedIsSeen' /\ PictureIsOfPage'
  BY <1>1 DEF OneRender, PaintedIsSeen, PictureIsOfPage
<1>3. LoadIsLast'
  <2>1. ASSUME NEW i \in 1 .. Len(results'), results'[i].fresh
        PROVE  /\ results'[i].type = "load"
               /\ i = Len(results') /\ ~Busy /\ Len(queue) = 0
    <3>1. i + 1 \in 1 .. Len(results) /\ results'[i] = results[i + 1]
      BY <2>1
    <3>2. /\ results[i + 1].type = "load" /\ i + 1 = Len(results)
          /\ ~Busy /\ Len(queue) = 0
      BY <1>1, <2>1, <3>1 DEF LoadIsLast
    <3>3. results'[i].type = "load"
      BY <3>1, <3>2
    <3>4. i \in Nat
      OBVIOUS
    <3>. QED
      BY ONLY <1>0, <3>2, <3>3, <3>4
  <2>. QED
    BY <1>1, <2>1 DEF LoadIsLast, Busy
<1>4. LoadUnderWay => LoadUnderWay'
  <2>1. ASSUME NEW i \in 1 .. Len(results), results[i].fresh,
               results[i].type = "load"
        PROVE  LoadUnderWay'
    <3>1. i # 1 /\ i - 1 \in 1 .. Len(results')
      BY <2>1
    <3>2. results'[i - 1] = results[i]
      BY <3>1
    <3>. QED
      BY <2>1, <3>1, <3>2 DEF LoadUnderWay
  <2>. QED
    BY <2>1 DEF LoadUnderWay
<1>5. Claims'
  BY <1>1, <1>4 DEF Claims
<1>6. WorkerServes' /\ AnswersOfPage'
  BY DEF WorkerServes, AnswersOfPage, Busy
<1>. QED
  BY <1>2, <1>3, <1>5, <1>6 DEF UnderWay, Pictures

(* The answer to a load.                                                   *)
LEMMA PageKeeps ==
    ASSUME IInv, main = "run", results # << >>, Head(results).type = "load",
           on_page(Head(results), Tail(results)),
           UNCHANGED <<pc, proc, painted>>
    PROVE  UnderWay' /\ Pictures'
<1> DEFINE r == Head(results)
<1> USE Parts, AnswerHead
<1>1. ~opened /\ ~inflight /\ ~pending
  BY DEF OneRender, Claims
<1>2. CASE ~r.fresh
  BY <1>1, <1>2, DropKeeps DEF on_page, area, flags, counters
<1>3. r.fresh => Len(results) = 1 /\ ~Busy /\ Len(queue) = 0
  <2>1. r = results[1] /\ 1 \in 1 .. Len(results)
    BY AnswerHead
  <2>. QED
    BY <1>1, <2>1 DEF LoadIsLast
<1>4. CASE r.fresh /\ ~r.ok
  <2>1. /\ results' = Tail(results) /\ ~loading'
        /\ UNCHANGED <<main, deferred, opened, inflight, pending, hasUrl, shown,
                       restarts, queue, job, page>>
    BY <1>4 DEF on_page, area, counters
  <2>2. Len(results') = 0
    BY <1>3, <1>4, <2>1
  <2>3. LoadIsLast'
    <3>1. Len(queue') = 0 /\ ~Busy'
      BY <1>3, <1>4, <2>1 DEF Busy
    <3>2. 1 .. Len(results') = {} /\ 1 .. Len(queue') = {}
      BY <2>2, <3>1
    <3>. QED
      BY <3>1, <3>2 DEF LoadIsLast
  <2>3a. OneRender' /\ Claims' /\ WorkerServes'
    BY <1>1, <2>1 DEF OneRender, Claims, WorkerServes, Busy
  <2>4. Pictures'
    BY <1>1, <2>1, <2>2
    DEF Pictures, PaintedIsSeen, AnswersOfPage, PictureIsOfPage
  <2>. QED
    BY <2>3, <2>3a, <2>4 DEF UnderWay
<1>5. CASE r.fresh /\ r.ok /\ r.nav /\ redirects < MaxRedirects
  <2>1. /\ do_load(Tail(results), sized)
        /\ UNCHANGED <<main, sized, hasUrl>>
    BY <1>5, Numbers DEF on_page, TypeOK, CounterTypes
  <2>2. sized \in BOOLEAN
    BY DEF TypeOK, ViewTypes
  <2>. QED
    BY <2>1, <2>2, LoadEffect
<1>6. CASE r.fresh /\ r.ok /\ (r.nav => redirects = MaxRedirects)
  <2>1. /\ hasUrl' /\ opened' /\ ~loading'
        /\ request_render(Tail(results))
        /\ UNCHANGED <<main, shown, page>>
    BY <1>6, Numbers DEF on_page, area
  <2>2. start_render(Tail(results))
    BY <1>1, <2>1 DEF request_render
  <2>3. shown' # "old"
    BY <2>1 DEF PictureIsOfPage
  <2>4. Len(Tail(results)) = 0
    BY <1>3, <1>6
  <2>5. UnderWay' /\ AnswersOfPage' /\ PictureIsOfPage'
    BY <1>3, <1>6, <2>1, <2>2, <2>3, <2>4, RenderEffect
  <2>6. PaintedIsSeen'
    BY <1>6, <2>1 DEF AnswersOfPage, PaintedIsSeen
  <2>. QED
    BY <2>5, <2>6 DEF Pictures
<1>. QED
  BY <1>2, <1>4, <1>5, <1>6 DEF on_page

(* The end of the callback of a frame the tab is waiting for.               *)
LEMMA NextRenderKeeps ==
    ASSUME IInv, main = "run", opened, results # << >>,
           next_render(Tail(results)), ~loading',
           UNCHANGED <<main, opened, hasUrl, pc, page, painted>>,
           shown' # "old", painted => shown' = "now",
           pending \/ shown' = "now" \/ restarts' = MaxRestarts
    PROVE  UnderWay' /\ Pictures'
<1> USE Parts, AnswerHead
<1>1. Len(results) = 1 /\ Len(queue) = 0 /\ ~Busy /\ hasUrl
  BY DEF OneRender
<1>2. Len(Tail(results)) = 0
  BY <1>1
<1>3. PaintedIsSeen'
  BY DEF PaintedIsSeen
<1>4. CASE pending
  <2>1. start_render(Tail(results))
    BY <1>4 DEF next_render
  <2>2. UnderWay' /\ AnswersOfPage' /\ PictureIsOfPage'
    BY <1>1, <1>2, <2>1, RenderEffect
  <2>. QED
    BY <1>3, <2>2 DEF Pictures
<1>5. CASE ~pending
  <2>1. ~inflight' /\ results' = Tail(results) /\ UNCHANGED <<pending, queue, job>>
    BY <1>5 DEF next_render
  <2>2. UnderWay'
    BY <1>1, <1>2, <1>5, <2>1
    DEF UnderWay, OneRender, LoadIsLast, Claims, WorkerServes, Busy
  <2>3. AnswersOfPage' /\ PictureIsOfPage'
    BY <1>2, <1>5, <2>1 DEF AnswersOfPage, PictureIsOfPage
  <2>. QED
    BY <1>3, <2>2, <2>3 DEF Pictures
<1>. QED
  BY <1>4, <1>5

LEMMA FrameKeeps ==
    ASSUME IInv, main = "run", results # << >>, Head(results).type = "render",
           on_frame(Head(results), Tail(results)),
           UNCHANGED <<pc, proc, painted>>
    PROVE  UnderWay' /\ Pictures'
<1> DEFINE r == Head(results)
<1> USE Parts, AnswerHead
<1>1. CASE ~r.fresh
  <2>1. ~pending
    BY <1>1 DEF OneRender, Claims
  <2>2. /\ results' = Tail(results) /\ ~inflight' /\ ~pending'
        /\ UNCHANGED <<main, deferred, loading, opened, hasUrl, shown, restarts,
                       queue, job, page>>
    <3>1. /\ next_render(Tail(results))
          /\ UNCHANGED <<area, loading, opened, hasUrl, shown, counters, page>>
      BY <1>1 DEF on_frame
    <3>. QED
      BY <2>1, <3>1 DEF next_render, area, counters
  <2>. QED
    BY <1>1, <2>2, DropKeeps
<1>2. r.fresh => opened
  <2>1. r = results[1] /\ 1 \in 1 .. Len(results)
    BY AnswerHead
  <2>. QED
    BY <2>1 DEF LoadIsLast
<1>3. opened => Len(results) = 1 /\ hasUrl /\ ~loading
  BY DEF OneRender, Claims
<1>4. CASE do_load(Tail(results), sized) /\ UNCHANGED <<main, sized, hasUrl>>
  <2>1. sized \in BOOLEAN
    BY DEF TypeOK, ViewTypes
  <2>. QED
    BY <1>4, <2>1, LoadEffect
<1>5. CASE r.fresh /\ r.ok /\ (r.nav => redirects = MaxRedirects)
  <2>1. /\ shown' = IF r.pic = "none" THEN shown ELSE r.pic
        /\ next_render(Tail(results))
        /\ UNCHANGED <<main, loading, opened, hasUrl, page>>
    <3>1. redirects = MaxRedirects => ~(redirects < MaxRedirects)
      BY Numbers
    <3>. QED
      BY <1>5, <3>1 DEF on_frame, area
  <2>2. shown' = "now"
    BY <1>5, <2>1 DEF AnswersOfPage
  <2>. QED
    BY <1>2, <1>3, <1>5, <2>1, <2>2, NextRenderKeeps
<1>6. CASE r.fresh /\ ~r.ok
  <2>1. shown # "old" /\ (painted => shown = "now")
    BY <1>2, <1>3, <1>6 DEF PictureIsOfPage, PaintedIsSeen
  <2>2. CASE pending \/ restarts = MaxRestarts
    <3>1. CASE /\ next_render(Tail(results)) /\ ~loading'
               /\ UNCHANGED <<main, opened, hasUrl, shown, restarts, page>>
      BY <1>2, <1>6, <2>1, <2>2, <3>1, NextRenderKeeps
    <3>. QED
      <4>1. restarts = MaxRestarts => ~(restarts < MaxRestarts)
        BY Numbers
      <4>2. next_render(Tail(results))
        BY <1>6, <2>2, <4>1 DEF on_frame
      <4>3. /\ loading' = loading \/ (hasUrl /\ loading' = FALSE)
            /\ UNCHANGED <<main, opened, hasUrl, shown, restarts, page>>
        BY <1>6, <2>2, <4>1 DEF on_frame, area, counters
      <4>. QED
        BY <1>2, <1>3, <1>6, <3>1, <4>2, <4>3
  <2>3. CASE ~pending /\ restarts # MaxRestarts
    BY <1>2, <1>3, <1>4, <1>6, <2>3, Numbers DEF on_frame, TypeOK, CounterTypes
  <2>. QED
    BY <2>2, <2>3
<1>. QED
  BY <1>1, <1>4, <1>5, <1>6 DEF on_frame

LEMMA AnswerKeeps == IInv /\ OnResult => UnderWay' /\ Pictures'
<1> SUFFICES ASSUME IInv, OnResult PROVE UnderWay' /\ Pictures'
  OBVIOUS
<1>1. results # << >> /\ UNCHANGED <<pc, proc, painted>>
  BY DEF OnResult
<1>2. CASE main = "run"
  BY <1>1, <1>2, PageKeeps, FrameKeeps DEF OnResult
<1>3. CASE main # "run"
  <2>1. main' # "run" /\ shown' = shown /\ job' = job /\ pc' = pc
    BY <1>3 DEF OnResult, area
  <2>2. WorkerServes'
    BY <2>1, Parts DEF WorkerServes, Busy
  <2>. QED
    BY <2>1, <2>2, ClosedKeeps
<1>. QED
  BY <1>2, <1>3

-----------------------------------------------------------------------------
(* The worker.                                                             *)
LEMMA WorkerLeavesView ==
    ASSUME Worker
    PROVE  UNCHANGED <<main, deferred, loading, opened, inflight, pending,
                       hasUrl, shown, restarts>>
BY DEF Worker, Take, Spawn, ServeLoad, FailLoad, ServeRender, FailRender,
       view, area, flags, counters

LEMMA TakeKeeps == IInv /\ Take => UnderWay' /\ Pictures'
<1> SUFFICES ASSUME IInv, Take PROVE UnderWay' /\ Pictures'
  OBVIOUS
<1>0. UNCHANGED <<main, deferred, loading, opened, inflight, pending, hasUrl,
                  shown, restarts>>
  BY WorkerLeavesView DEF Worker
<1>1. /\ queue \in Seq(Requests) /\ Len(queue) \in Nat /\ queue # << >>
      /\ results' = results /\ Len(results) \in Nat /\ ~Busy
      /\ job' = Head(queue) /\ queue' = Tail(queue)
  BY Parts DEF Take, Busy
<1>2. /\ Head(queue) \in Requests /\ Head(queue) = queue[1]
      /\ 1 \in 1 .. Len(queue)
      /\ Len(queue') = Len(queue) - 1
      /\ \A i \in 1 .. Len(queue) - 1 : queue'[i] = queue[i + 1]
  BY <1>1, HeadTailProperties
<1>3. \/ job'.type = "quit" /\ pc' = "ended"
      \/ job'.type # "quit" /\ pc' \in {"spawn", "call"} /\ UNCHANGED renderer
  BY DEF Take
<1>4. Busy' /\ pc' \notin {"respawn", "retry"}
  BY <1>3 DEF Busy
<1>5. main = "run" => /\ pc' \in {"spawn", "call"}
                      /\ UNCHANGED <<page, painted>>
  BY <1>1, <1>2, <1>3, Parts DEF WorkerServes, renderer
<1>6. \A i \in 1 .. Len(queue') : i + 1 \in 1 .. Len(queue) /\ queue'[i] = queue[i + 1]
  BY <1>1, <1>2
<1>7. WorkerServes'
  <2>1. main = "run" =>
            /\ pc' # "ended"
            /\ \A i \in 1 .. Len(queue') : queue'[i].type # "quit"
    BY <1>5, <1>6, Parts DEF WorkerServes
  <2>. QED
    BY <1>0, <1>3, <1>4, <2>1 DEF WorkerServes
<1>8. OneRender'
  <2>1. CASE main = "run" /\ opened
    <3>1. /\ Len(results) = 0 /\ Len(queue) = 1 /\ inflight
          /\ queue[1] = Request("render") /\ hasUrl
      BY <1>1, <1>2, <2>1, Parts DEF OneRender
    <3>2. Len(queue') = 0 /\ job' = Request("render")
      BY <1>1, <1>2, <3>1
    <3>. QED
      BY <1>0, <1>1, <1>4, <3>1, <3>2 DEF OneRender
  <2>. QED
    BY <1>0, <2>1 DEF OneRender
<1>9. LoadIsLast'
  <2>1. CASE main = "run" /\ ~opened
    <3>0. LoadIsLast /\ Len(queue) # 0
      BY <1>1, <1>2, Parts
    <3>1. ~inflight /\ \A i \in 1 .. Len(results) : ~results[i].fresh
      <4>1. ~inflight
        BY <2>1, Parts, Zenon DEF Claims
      <4>2. \A i \in 1 .. Len(results) : ~results[i].fresh
        BY <2>1, <3>0, Zenon DEF LoadIsLast
      <4>. QED
        BY <4>1, <4>2
    <3>2. job'.fresh => job'.type = "load" /\ Len(queue') = 0
      <4>1. queue[1].fresh => queue[1].type = "load" /\ 1 = Len(queue)
        BY <1>2, <2>1, <3>0 DEF LoadIsLast
      <4>. QED
        BY <1>1, <1>2, <4>1
    <3>3. ASSUME NEW i \in 1 .. Len(queue'), queue'[i].fresh
          PROVE  queue'[i].type = "load" /\ i = Len(queue')
      <4>1. queue[i + 1].type = "load" /\ i + 1 = Len(queue)
        BY <1>6, <2>1, <3>0, <3>3 DEF LoadIsLast
      <4>2. i \in Nat /\ Len(queue') = Len(queue) - 1 /\ Len(queue) \in Nat
        BY <1>1, <1>2
      <4>3. queue'[i].type = "load"
        BY <1>6, <4>1
      <4>. QED
        BY ONLY <4>1, <4>2, <4>3
    <3>. QED
      BY <1>0, <1>1, <1>4, <3>1, <3>2, <3>3 DEF LoadIsLast
  <2>. QED
    BY <1>0, <2>1 DEF LoadIsLast
<1>10. Claims'
  <2>1. ASSUME LoadUnderWay, main = "run" PROVE LoadUnderWay'
    <3>1. ASSUME NEW i \in 1 .. Len(queue), queue[i] = Request("load")
          PROVE  LoadUnderWay'
      <4>1. CASE i = 1
        BY <1>1, <1>2, <3>1, <4>1 DEF LoadUnderWay
      <4>2. CASE i # 1
        <5>1. i - 1 \in 1 .. Len(queue')
          BY <1>1, <1>2, <4>2
        <5>2. queue'[i - 1] = queue[i]
          BY <1>6, <5>1
        <5>. QED
          BY <3>1, <5>1, <5>2 DEF LoadUnderWay
      <4>. QED
        BY <4>1, <4>2
    <3>2. job # Request("load")
      BY <1>1, Parts, RequestFacts DEF WorkerServes
    <3>. QED
      BY <1>1, <2>1, <3>1, <3>2 DEF LoadUnderWay
  <2>. QED
    BY <1>0, <2>1, Parts DEF Claims
<1>11. PaintedIsSeen' /\ AnswersOfPage' /\ PictureIsOfPage'
  BY <1>0, <1>1, <1>5, Parts
  DEF PaintedIsSeen, AnswersOfPage, PictureIsOfPage
<1>. QED
  BY <1>7, <1>8, <1>9, <1>10, <1>11 DEF UnderWay, Pictures

(* While the worker is busy no answer that is due is fresh.                 *)
LEMMA BusyAnswers ==
    ASSUME IInv, main = "run", Busy
    PROVE  /\ opened => Len(results) = 0 /\ Len(queue) = 0 /\ inflight
           /\ ~opened => \A i \in 1 .. Len(results) : ~results[i].fresh
BY Parts DEF OneRender, LoadIsLast

(* A new renderer, or one given up: no page, and nothing painted.           *)
LEMMA NoPageKeeps ==
    ASSUME IInv, Worker, Busy, pc # "ended",
           pc' \in {"call", "respawn", "retry"},
           pc' \in {"respawn", "retry"} => job.type = "load",
           page' = "none", ~painted', UNCHANGED <<queue, results, job>>
    PROVE  UnderWay' /\ Pictures'
<1>0. UNCHANGED <<main, deferred, loading, opened, inflight, pending, hasUrl,
                  shown, restarts>>
  BY WorkerLeavesView
<1>1. Busy' /\ pc' # "ended"
  BY DEF Busy
<1>2. OneRender' /\ LoadIsLast'
  BY <1>0, <1>1, Parts DEF OneRender, LoadIsLast
<1>3. Claims' /\ WorkerServes'
  BY <1>0, <1>1, Parts DEF Claims, LoadUnderWay, WorkerServes
<1>4. PaintedIsSeen' /\ AnswersOfPage' /\ PictureIsOfPage'
  BY <1>0, Parts DEF PaintedIsSeen, AnswersOfPage, PictureIsOfPage
<1>. QED
  BY <1>2, <1>3, <1>4 DEF UnderWay, Pictures

(* The answer to a job, whatever it says.                                  *)
LEMMA PostKeeps ==
    ASSUME IInv, Worker, Busy, job.type \in {"load", "render"},
           NEW ok \in BOOLEAN, NEW nav \in BOOLEAN, NEW pic \in Pages,
           Post(ok, nav, pic), queue' = queue
    PROVE  UnderWay'
<1>0. UNCHANGED <<main, deferred, loading, opened, inflight, pending, hasUrl,
                  shown, restarts>>
  BY WorkerLeavesView
<1>1. /\ Len(results') = Len(results) + 1 /\ Len(results) \in Nat
      /\ \A i \in 1 .. Len(results) : results'[i] = results[i]
      /\ results'[Len(results) + 1].type = job.type
      /\ results'[Len(results) + 1].fresh = job.fresh
      /\ job' = NoJob /\ pc' = "idle"
  BY PostEffect, Parts
<1>2. ~Busy' /\ pc' \notin {"respawn", "retry", "ended"}
  BY <1>1 DEF Busy
<1>3. \A i \in 1 .. Len(results') : i \in 1 .. Len(results) \/ i = Len(results) + 1
  BY <1>1
<1>4. OneRender'
  <2>1. CASE main = "run" /\ opened
    <3>1. Len(results) = 0 /\ Len(queue) = 0 /\ inflight /\ hasUrl
          /\ job = Request("render")
      BY <2>1, BusyAnswers, Parts DEF OneRender
    <3>2. Len(results') = 1 /\ results'[1].type = "render" /\ results'[1].fresh
      BY <1>1, <3>1, RequestFacts
    <3>. QED
      BY <1>0, <1>2, <3>1, <3>2 DEF OneRender
  <2>. QED
    BY <1>0, <2>1 DEF OneRender
<1>5. LoadIsLast'
  <2>1. CASE main = "run" /\ ~opened
    <3>0. LoadIsLast /\ \A i \in 1 .. Len(results) : ~results[i].fresh
      BY <2>1, BusyAnswers, Parts
    <3>1. /\ ~inflight /\ \A i \in 1 .. Len(results) : ~results[i].fresh
          /\ job.fresh => job.type = "load" /\ Len(queue) = 0
      <4>1. ~inflight
        BY <2>1, Parts, Zenon DEF Claims
      <4>2. job.fresh => job.type = "load" /\ Len(queue) = 0
        BY <2>1, <3>0, Zenon DEF LoadIsLast
      <4>. QED
        BY <3>0, <4>1, <4>2
    <3>2. \A i \in 1 .. Len(results') : results'[i].fresh =>
              /\ results'[i].type = "load"
              /\ i = Len(results') /\ Len(queue) = 0
      BY <1>1, <1>3, <3>1
    <3>3. \A i \in 1 .. Len(queue) : queue[i].fresh =>
              queue[i].type = "load" /\ i = Len(queue)
      BY <2>1, Parts DEF LoadIsLast
    <3>. QED
      BY <1>0, <1>2, <3>1, <3>2, <3>3 DEF LoadIsLast
  <2>. QED
    BY <1>0, <2>1 DEF LoadIsLast
<1>6. LoadUnderWay => LoadUnderWay'
  <2>1. Len(results) + 1 \in 1 .. Len(results')
    BY <1>1
  <2>2. \A i \in 1 .. Len(results) : i \in 1 .. Len(results')
    BY <1>1
  <2>. QED
    BY <1>1, <2>1, <2>2, RequestFacts DEF LoadUnderWay
<1>7. Claims' /\ WorkerServes'
  BY <1>0, <1>1, <1>2, <1>6, Parts, RequestFacts DEF Claims, WorkerServes
<1>. QED
  BY <1>4, <1>5, <1>7 DEF UnderWay

LEMMA LoadJobKeeps == IInv /\ (ServeLoad \/ FailLoad) => UnderWay' /\ Pictures'
<1> SUFFICES ASSUME IInv, ServeLoad \/ FailLoad PROVE UnderWay' /\ Pictures'
  OBVIOUS
<1>0. Worker
  BY DEF Worker
<1>1. UNCHANGED <<main, opened, inflight, hasUrl, shown, restarts>>
  BY <1>0, WorkerLeavesView
<1>2. Busy /\ pc # "ended" /\ job.type = "load" /\ queue' = queue
  BY DEF ServeLoad, FailLoad, Busy
<1>3. main = "run" => ~opened
  BY <1>2, Parts, RequestFacts DEF OneRender
<1>4. CASE \E ok, nav \in BOOLEAN :
              /\ Post(ok, nav, "none")
              /\ ok /\ job.fresh => page' # "old" /\ ~painted'
  <2>1. PICK ok \in BOOLEAN, nav \in BOOLEAN :
            /\ Post(ok, nav, "none")
            /\ ok /\ job.fresh => page' # "old" /\ ~painted'
    BY <1>4
  <2>2. "none" \in Pages
    BY DEF Pages
  <2>3. UnderWay'
    BY <1>0, <1>2, <2>1, <2>2, PostKeeps
  <2>4. /\ Len(results') = Len(results) + 1 /\ Len(results) \in Nat
        /\ \A i \in 1 .. Len(results) : results'[i] = results[i]
        /\ results'[Len(results) + 1].type = "load"
        /\ results'[Len(results) + 1].fresh = job.fresh
        /\ results'[Len(results) + 1].ok = ok
    BY <1>2, <2>1, <2>2, PostEffect, Parts
  <2>5. main = "run" => \A i \in 1 .. Len(results) : ~results[i].fresh
    BY <1>2, <1>3, BusyAnswers
  <2>6. AnswersOfPage'
    BY <1>1, <2>1, <2>4, <2>5 DEF AnswersOfPage
  <2>7. PaintedIsSeen' /\ PictureIsOfPage'
    BY <1>1, <1>3, Parts DEF PaintedIsSeen, PictureIsOfPage
  <2>. QED
    BY <2>3, <2>6, <2>7 DEF Pictures
<1>5. CASE ServeLoad
  BY <1>4, <1>5 DEF ServeLoad
<1>6. CASE FailLoad
  <2>1. CASE Post(FALSE, FALSE, "none")
    BY <1>4, <2>1
  <2>2. CASE /\ pc' = "respawn"
             /\ proc' = "none" /\ page' = "none" /\ painted' = FALSE
             /\ UNCHANGED <<results, job>>
    BY <1>0, <1>2, <2>2, NoPageKeeps
  <2>. QED
    BY <1>6, <2>1, <2>2 DEF FailLoad
<1>. QED
  BY <1>5, <1>6

LEMMA RenderJobKeeps ==
    IInv /\ (ServeRender \/ FailRender) => UnderWay' /\ Pictures'
<1> SUFFICES ASSUME IInv, ServeRender \/ FailRender PROVE UnderWay' /\ Pictures'
  OBVIOUS
<1>0. Worker
  BY DEF Worker
<1>1. UNCHANGED <<main, opened, inflight, hasUrl, shown, restarts>>
  BY <1>0, WorkerLeavesView
<1>2. Busy /\ pc # "ended" /\ job.type = "render" /\ queue' = queue
  BY DEF ServeRender, FailRender, Busy
<1>3. PICK ok \in BOOLEAN, nav \in BOOLEAN, pic \in Pages :
          /\ Post(ok, nav, pic)
          /\ page' # "none" => page' = page
          /\ ok \/ ~painted'
          /\ ok => pic = page \/ (pic = "none" /\ painted)
          /\ ok => page # "none"
  <2>1. "none" \in Pages /\ page \in Pages
    BY Parts DEF TypeOK, WorkerTypes, Pages
  <2>2. CASE ServeRender
    BY <2>1, <2>2 DEF ServeRender
  <2>3. CASE FailRender
    BY <2>1, <2>3 DEF FailRender
  <2>. QED
    BY <2>2, <2>3
<1>4. UnderWay'
  BY <1>0, <1>2, <1>3, PostKeeps
<1>5. /\ Len(results') = Len(results) + 1 /\ Len(results) \in Nat
      /\ \A i \in 1 .. Len(results) : results'[i] = results[i]
      /\ results'[Len(results) + 1].type = "render"
      /\ results'[Len(results) + 1].fresh = job.fresh
      /\ results'[Len(results) + 1].ok = ok
      /\ results'[Len(results) + 1].pic = pic
  BY <1>2, <1>3, PostEffect, Parts
<1>6. CASE main = "run" /\ opened
  <2>1. Len(results) = 0 /\ inflight
    BY <1>2, <1>6, BusyAnswers
  <2>2. ok => pic = "now" \/ (pic = "none" /\ shown = "now")
    BY <1>3, <1>6, <2>1, Parts DEF PaintedIsSeen, TypeOK, WorkerTypes, Pages
  <2>3. Len(results') = 1 /\ results'[1].ok = ok /\ results'[1].pic = pic
        /\ results'[1].type = "render"
    BY <1>5, <2>1
  <2>4. AnswersOfPage'
    BY <1>1, <2>2, <2>3 DEF AnswersOfPage
  <2>5. PaintedIsSeen'
    BY <1>1, <1>3, <1>6, <2>2, <2>3, Parts DEF PaintedIsSeen
  <2>6. PictureIsOfPage'
    BY <1>1, <2>1, Parts DEF PictureIsOfPage
  <2>. QED
    BY <1>4, <2>4, <2>5, <2>6 DEF Pictures
<1>7. CASE main = "run" /\ ~opened
  <2>1. ~job.fresh
    BY <1>2, <1>7, Parts DEF LoadIsLast
  <2>2. \A i \in 1 .. Len(results) : ~results[i].fresh
    BY <1>2, <1>7, BusyAnswers
  <2>3. AnswersOfPage'
    BY <1>5, <2>1, <2>2 DEF AnswersOfPage
  <2>4. PaintedIsSeen' /\ PictureIsOfPage'
    BY <1>1, <1>7, Parts DEF PaintedIsSeen, PictureIsOfPage
  <2>. QED
    BY <1>4, <2>3, <2>4 DEF Pictures
<1>8. CASE main # "run"
  BY <1>1, <1>4, <1>8, ClosedKeeps DEF UnderWay
<1>. QED
  BY <1>6, <1>7, <1>8

LEMMA WorkerKeeps == IInv /\ Worker => UnderWay' /\ Pictures'
<1> SUFFICES ASSUME IInv, Worker PROVE UnderWay' /\ Pictures'
  OBVIOUS
<1>1. CASE Spawn
  <2>1. /\ Busy /\ pc # "ended" /\ pc' \in {"call", "retry"}
        /\ pc' = "retry" => pc = "respawn"
        /\ page' = "none" /\ ~painted' /\ UNCHANGED <<queue, results, job>>
    BY <1>1 DEF Spawn, Busy
  <2>2. pc' = "retry" => job.type = "load"
    BY <2>1, Parts DEF WorkerServes
  <2>. QED
    BY <2>1, <2>2, NoPageKeeps
<1>. QED
  BY <1>1, TakeKeeps, LoadJobKeeps, RenderJobKeeps DEF Worker

-----------------------------------------------------------------------------
LEMMA InitIInv == Init => IInv
<1> SUFFICES ASSUME Init PROVE IInv
  OBVIOUS
<1>1. UnderWay
  BY DEF Init, UnderWay, OneRender, LoadIsLast, Claims, WorkerServes, Busy
<1>2. Pictures
  BY DEF Init, Pictures, PaintedIsSeen, AnswersOfPage, PictureIsOfPage
<1>. QED
  BY <1>1, <1>2, InitTypes DEF IInv

LEMMA NextIInv == IInv /\ [Next]_vars => IInv'
<1> SUFFICES ASSUME IInv, [Next]_vars PROVE IInv'
  OBVIOUS
<1>1. TypeOK'
  BY NextTypes DEF IInv
<1>2. CASE Load \/ Stop \/ Repaint \/ Resize \/ Destroy \/ Interrupt \/ Joined
  BY <1>1, <1>2, TabKeeps DEF IInv
<1>3. CASE OnResult
  BY <1>1, <1>3, AnswerKeeps DEF IInv
<1>4. CASE Take \/ Spawn \/ ServeLoad \/ FailLoad \/ ServeRender \/ FailRender
  BY <1>1, <1>4, WorkerKeeps DEF IInv, Worker
<1>5. CASE RendererDies
  BY <1>1, <1>5, SameKeeps DEF IInv, RendererDies, view, area, flags, counters
<1>6. CASE UNCHANGED vars
  BY <1>1, <1>6, SameKeeps
  DEF IInv, vars, area, flags, counters, worker, renderer
<1>. QED
  BY <1>2, <1>3, <1>4, <1>5, <1>6 DEF Next

LEMMA Inductive == Spec => []IInv
BY InitIInv, NextIInv, PTL DEF Spec

-----------------------------------------------------------------------------
(* What the flags count: of an open tab there is one render under way or    *)
(* none, and of a tab whose page is not open yet there is none.            *)
LEMMA NoRenderOutstanding ==
    ASSUME IInv, main = "run", ~inflight
    PROVE  Outstanding("render") = {}
<1>1. /\ DOMAIN queue = 1 .. Len(queue) /\ Len(queue) \in Nat
      /\ DOMAIN results = 1 .. Len(results) /\ Len(results) \in Nat
  BY LenProperties DEF IInv, TypeOK, QueueTypes
<1>2. ~Busy => job.type = "quit"
  BY Parts DEF WorkerServes, NoJob, Request
<1>3. CASE opened
  <2>1. Len(results) = 0 /\ ~Busy /\ Len(queue) = 0
    BY <1>1, <1>3, Parts DEF OneRender
  <2>2. DOMAIN queue = {} /\ DOMAIN results = {}
    BY <1>1, <2>1
  <2>3. job # Request("render")
    BY <1>2, <2>1 DEF Request
  <2>. QED
    BY <2>2, <2>3 DEF Outstanding
<1>4. CASE ~opened
  <2>1. \A i \in DOMAIN queue : queue[i] # Request("render")
    <3>1. \A i \in DOMAIN queue : queue[i].fresh => queue[i].type = "load"
      BY <1>1, <1>4, Parts DEF LoadIsLast
    <3>. QED
      BY <3>1 DEF Request
  <2>2. ASSUME NEW i \in DOMAIN results
        PROVE  ~(results[i].type = "render" /\ results[i].fresh)
    BY <1>1, <1>4, <2>2, Parts DEF LoadIsLast
  <2>3. job # Request("render")
    BY <1>2, <1>4, Parts DEF LoadIsLast, Request
  <2>. QED
    BY <2>1, <2>2, <2>3 DEF Outstanding
<1>. QED
  BY <1>3, <1>4

LEMMA OneRenderOutstanding ==
    ASSUME IInv, main = "run", inflight
    PROVE  \E n : Outstanding("render") = {n}
<1>1. /\ DOMAIN queue = 1 .. Len(queue) /\ Len(queue) \in Nat
      /\ DOMAIN results = 1 .. Len(results) /\ Len(results) \in Nat
  BY LenProperties DEF IInv, TypeOK, QueueTypes
<1>2. opened
  BY Parts DEF Claims
<1>3. Len(results) + (IF Busy THEN 1 ELSE 0) + Len(queue) = 1
  BY <1>2, Parts DEF OneRender
<1>4. /\ \A i \in DOMAIN queue : queue[i] = Request("render")
      /\ \A i \in DOMAIN results :
            results[i].type = "render" /\ results[i].fresh
      /\ IF Busy THEN job = Request("render") ELSE job # Request("render")
  BY <1>1, <1>2, Parts DEF OneRender, WorkerServes, NoJob, Request
<1>5. pc # "ended"
  BY Parts DEF WorkerServes
<1>6. CASE Busy
  <2>1. DOMAIN queue = {} /\ DOMAIN results = {}
    BY <1>1, <1>3, <1>6
  <2>2. Outstanding("render") = {0}
    BY <1>4, <1>5, <1>6, <2>1 DEF Outstanding
  <2>. QED
    BY <2>2
<1>7. CASE ~Busy /\ Len(queue) = 1
  <2>1. DOMAIN queue = {1} /\ DOMAIN results = {}
    BY <1>1, <1>3, <1>7
  <2>2. Outstanding("render") = {1}
    BY <1>4, <1>7, <2>1 DEF Outstanding
  <2>. QED
    BY <2>2
<1>8. CASE ~Busy /\ Len(results) = 1
  <2>1. DOMAIN queue = {} /\ DOMAIN results = {1}
    BY <1>1, <1>3, <1>8
  <2>2. Outstanding("render") = {-1}
    BY <1>4, <1>8, <2>1 DEF Outstanding
  <2>. QED
    BY <2>2
<1>9. Busy \/ (~Busy /\ Len(queue) = 1) \/ (~Busy /\ Len(results) = 1)
  BY <1>1, <1>3
<1>. QED
  BY <1>6, <1>7, <1>8, <1>9

LEMMA LoadOutstanding ==
    ASSUME IInv, main = "run", LoadUnderWay
    PROVE  Outstanding("load") # {}
<1>1. DOMAIN queue = 1 .. Len(queue) /\ DOMAIN results = 1 .. Len(results)
  BY LenProperties DEF IInv, TypeOK, QueueTypes
<1>2. pc # "ended"
  BY Parts DEF WorkerServes
<1>3. ASSUME NEW i \in 1 .. Len(results),
             results[i].type = "load", results[i].fresh
      PROVE  -i \in Outstanding("load")
  BY <1>1, <1>3 DEF Outstanding
<1>4. job = Request("load") => 0 \in Outstanding("load")
  BY <1>2 DEF Outstanding
<1>5. ASSUME NEW i \in 1 .. Len(queue), queue[i] = Request("load")
      PROVE  i \in Outstanding("load")
  BY <1>1, <1>5 DEF Outstanding
<1>. QED
  BY <1>3, <1>4, <1>5 DEF LoadUnderWay

LEMMA FlagsFromInv == IInv => FlagsAreHonest
<1> SUFFICES ASSUME IInv, main = "run"
             PROVE  /\ Cardinality(Outstanding("render"))
                          = IF inflight THEN 1 ELSE 0
                    /\ pending => inflight
                    /\ inflight => opened
                    /\ loading => deferred \/ Outstanding("load") # {}
  BY DEF FlagsAreHonest
<1>1. inflight => Cardinality(Outstanding("render")) = 1
  BY OneRenderOutstanding, FS_Singleton
<1>2. ~inflight => Cardinality(Outstanding("render")) = 0
  BY NoRenderOutstanding, FS_EmptySet
<1>3. /\ pending => inflight
      /\ inflight => opened
      /\ loading => deferred \/ LoadUnderWay
  BY Parts DEF Claims
<1>. QED
  BY <1>1, <1>2, <1>3, LoadOutstanding

(* What the tab believes is under way is under way: exactly one render will *)
(* be answered as the latest while render_inflight is set and none while it *)
(* is not, and the spinner turns only for a load that will be answered or   *)
(* waits for the size of the area (on_result, request_render, do_load and   *)
(* stop of procview.c).                                                    *)
THEOREM FlagsHonest == Spec => []FlagsAreHonest
BY Inductive, FlagsFromInv, PTL

(* The tab never shows one page under the address of another, and an opened *)
(* page without a render under way is on the screen, unless the tab gave up *)
(* on its renderer (on_result of procview.c drops stale frames, one of      *)
(* which could have been the only one that carried the picture).           *)
THEOREM PictureOfPage == Spec => []PictureIsOfPage
<1>1. IInv => PictureIsOfPage
  BY DEF IInv, Pictures
<1>. QED
  BY <1>1, Inductive, PTL

=============================================================================
