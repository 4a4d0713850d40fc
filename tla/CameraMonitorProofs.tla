------------------------- MODULE CameraMonitorProofs -------------------------
(***************************************************************************)
(* Proofs about CameraMonitor, for any number of handlers and requests: who *)
(* may own the camera, what a change of settings leaves behind, and what    *)
(* becomes of a recording that three threads may end.                      *)
(***************************************************************************)
EXTENDS CameraMonitor, TLAPS

(***************************************************************************)
(* The type invariant in three parts: the threads; the cameras and who has  *)
(* read which of them; the recordings.  A recording that is on is one, and   *)
(* has room for a row; once main has returned there is no grabber.          *)
(***************************************************************************)
Threads ==
  /\ main \in {"warmup", "serving", "stopping", "take", "await", "bye", "done"}
  /\ stopping \in BOOLEAN
  /\ grabber \in {"clear", "read", "spawn", "store", "reading", "backoff", "done", "dead"}
  /\ chosen \in Settings /\ cam_state \in Settings
  /\ seen \in BOOLEAN /\ restart_requested \in BOOLEAN
  /\ changes \in 0..MaxChanges /\ crashes \in 0..MaxCrashes
  /\ ~Alive => grabber = "done"

Cameras ==
  /\ camera \in Camera /\ lingering \subseteq 1..camera.no
  /\ camera.is # "down" => camera.no >= 1
  /\ took \in 0..camera.no
  /\ proc \in 0..camera.no
  /\ proc = camera.no \/ (proc = camera.no - 1 /\ (grabber = "store" \/ ~Alive))
  /\ handler \in [Handlers -> [pc : {"idle", "request", "terminate"}, proc : 0..camera.no]]

Recordings ==
  /\ sampler \in {"off", "sample", "row", "done", "dead"} /\ sampled \in 0..rec.no
  /\ rec \in [active : BOOLEAN, no : 0..MaxStarts, rows : Seq(0..MaxStarts)]
  /\ Len(rec.rows) <= Duration
  /\ reports \in Seq(1..MaxStarts)
  /\ rec.active => rec.no >= 1 /\ Len(rec.rows) < Duration

Types == Threads /\ Cameras /\ Recordings

LEMMA ThreadsInit == Init => Threads
<1> SUFFICES ASSUME Init PROVE Threads
  OBVIOUS
<1>1. /\ stopping \in BOOLEAN /\ seen \in BOOLEAN /\ restart_requested \in BOOLEAN
  BY Zenon DEF Init
<1> QED BY <1>1, MonitorAssumption DEF Init, Threads, Alive

LEMMA ThreadsStep == Threads /\ [Next]_vars => Threads'
<1> SUFFICES ASSUME Threads, [Next]_vars PROVE Threads'
  OBVIOUS
<1> USE MonitorAssumption DEF Threads, Alive
<1>1. CASE Clear
  <2>1. restart_requested' \in BOOLEAN
    BY <1>1, Zenon DEF Clear
  <2> QED BY <1>1, <2>1 DEF Clear, rpicam, recording, ending
<1>2. CASE Read \/ Spawn \/ Store \/ FirstFrame
  BY <1>2 DEF Read, Spawn, Store, FirstFrame, rpicam, control, recording, ending
<1>3. CASE Reap \/ BackoffEnds
  BY <1>3 DEF Reap, NextRound, BackoffEnds, rpicam, control, recording, ending
<1>4. CASE TermObeyed \/ Crash \/ BrokenPipe
  BY <1>4 DEF TermObeyed, Crash, BrokenPipe, control, recording, ending
<1>5. ASSUME NEW h \in Handlers, Change(h) \/ Request(h) \/ Terminate(h) PROVE Threads'
  <2>1. restart_requested' \in BOOLEAN
    BY <1>5, Zenon DEF Threads, Change, Request, Terminate, Requested
  <2>2. cam_state' \in Settings /\ changes' \in 0..MaxChanges
    BY <1>5 DEF Change, Request, Terminate
  <2> QED BY <1>5, <2>1, <2>2 DEF Change, Request, Terminate, pipeline, rpicam,
             recording, ending
<1>6. CASE Start \/ Stop \/ Sample \/ Row
  BY <1>6 DEF Start, Stop, Sample, Row, pipeline, rpicam, control, ending
<1>7. CASE WarmedUp \/ QuitEarly \/ Interrupt \/ InterruptAgain
  BY <1>7 DEF WarmedUp, QuitEarly, InterruptAgain, Interrupt, ThreadsGone, pipeline, rpicam, control, recording
<1>8. CASE FinishLast
  BY <1>8 DEF FinishLast, ThreadsGone, rpicam
<1>9. CASE Take \/ Bye
  BY <1>9 DEF Take, Bye, ThreadsGone, recording, control
<1>10. CASE UNCHANGED vars
  BY <1>10 DEF vars, pipeline, rpicam, control, ending
<1> QED BY <1>1, <1>2, <1>3, <1>4, <1>5, <1>6, <1>7, <1>8, <1>9, <1>10 DEF Next

LEMMA CamerasInit == Init => Cameras
<1> SUFFICES ASSUME Init PROVE Cameras
  OBVIOUS
<1>1. camera \in Camera /\ camera.no = 0
  BY MonitorAssumption DEF Init, Camera
<1>2. handler \in [Handlers -> [pc : {"idle", "request", "terminate"}, proc : 0..0]]
  BY DEF Init, Idle
<1> QED BY <1>1, <1>2 DEF Init, Cameras

\* What SIGTERM does to a camera does not touch its number and settings.
LEMMA TerminatedType ==
  ASSUME camera \in Camera, NEW n
  PROVE  /\ Terminated(n) \in Camera
         /\ Terminated(n).no = camera.no /\ Terminated(n).settings = camera.settings
         /\ Terminated(n).is # "down" => camera.is # "down"
  BY DEF Terminated, Camera

LEMMA CamerasStep == Threads /\ Cameras /\ [Next]_vars => Cameras'
<1> SUFFICES ASSUME Threads, Cameras, [Next]_vars PROVE Cameras'
  OBVIOUS
<1> USE DEF Cameras
<1>1. CASE Clear \/ Read \/ FirstFrame \/ Reap \/ BackoffEnds
  BY <1>1 DEF Clear, Read, FirstFrame, Reap, NextRound, BackoffEnds, Threads, Alive, rpicam,
              control, ending
<1>2. CASE Spawn /\ UNCHANGED rpicam
  BY <1>2 DEF Spawn, Threads, Alive, rpicam, control, ending
<1>3. CASE Spawn /\ grabber' = "store"
  <2>1. /\ camera' \in Camera /\ camera'.no = camera.no + 1 /\ camera.no \in Nat
    BY <1>3 DEF Spawn, Camera, Threads
  <2>2. lingering' \subseteq 1..camera'.no
    <3>1. lingering' \subseteq lingering \cup (IF camera.is = "down" THEN {} ELSE {camera.no})
      BY <1>3 DEF Spawn, rpicam
    <3>2. lingering \subseteq 1..camera'.no
      BY <2>1
    <3>3. camera.is # "down" => camera.no \in 1..camera'.no
      BY <2>1
    <3> QED BY <3>1, <3>2, <3>3
  <2>3. proc = camera.no
    BY <1>3 DEF Spawn, Alive, Threads
  <2>4. handler' \in [Handlers -> [pc : {"idle", "request", "terminate"}, proc : 0..camera'.no]]
    <3>1. 0..camera.no \subseteq 0..camera'.no
      BY <2>1
    <3>2. [pc : {"idle", "request", "terminate"}, proc : 0..camera.no]
          \subseteq [pc : {"idle", "request", "terminate"}, proc : 0..camera'.no]
      BY <3>1
    <3> QED BY <1>3, <3>2 DEF Spawn, control
  <2>5. proc' = proc /\ took' = took
    BY <1>3 DEF Spawn, ending
  <2>6. took' \in 0..camera'.no /\ proc' \in 0..camera'.no /\ proc' = camera'.no - 1
    BY <2>1, <2>3, <2>5
  <2> QED BY <1>3, <2>1, <2>2, <2>4, <2>6
<1>4. CASE Store
  BY <1>4 DEF Store, Camera, Threads, Alive, rpicam, control, ending
<1>5. CASE TermObeyed \/ Crash \/ BrokenPipe
  <2>1. camera' \in Camera /\ camera'.no = camera.no
    BY <1>5 DEF TermObeyed, Crash, BrokenPipe, Camera
  <2>2. lingering' \subseteq lingering /\ (camera'.is # "down" => camera.is # "down")
    BY <1>5 DEF TermObeyed, Crash, BrokenPipe, Camera
  <2> QED BY <1>5, <2>1, <2>2 DEF TermObeyed, Crash, BrokenPipe, Alive, control, ending
<1>6. ASSUME NEW h \in Handlers, Change(h) \/ Request(h) PROVE Cameras'
  BY <1>6 DEF Change, Request, Alive, pipeline, rpicam, ending
<1>7. ASSUME NEW h \in Handlers, Terminate(h) PROVE Cameras'
  <2>1. /\ camera' \in Camera /\ camera'.no = camera.no
        /\ camera'.is # "down" => camera.is # "down"
    BY <1>7, TerminatedType DEF Terminate
  <2> QED BY <1>7, <2>1 DEF Terminate, Alive, ending, Camera
<1>8. CASE Start \/ Stop \/ Sample \/ Row
  BY <1>8 DEF Start, Stop, Sample, Row, Alive, pipeline, rpicam, control, ending
<1>9. CASE WarmedUp \/ Interrupt
  BY <1>9 DEF WarmedUp, Interrupt, Threads, Alive, pipeline, rpicam, control
<1>10. CASE QuitEarly \/ InterruptAgain \/ FinishLast
  <2>1. handler' \in [Handlers -> [pc : {"idle", "request", "terminate"}, proc : 0..camera.no]]
    <3>1. handler' \in {handler, Idle}
      BY <1>10 DEF QuitEarly, InterruptAgain, FinishLast, ThreadsGone
    <3>2. 0 \in 0..camera.no
      BY DEF Camera
    <3> QED BY <3>1, <3>2 DEF Idle
  <2>2. UNCHANGED <<camera, lingering, proc, took>>
    BY <1>10 DEF QuitEarly, InterruptAgain, FinishLast, rpicam
  <2>3. grabber = "store" => grabber' = "store" \/ ~Alive'
    BY <1>10 DEF QuitEarly, InterruptAgain, FinishLast, Alive
  <2>4. ~Alive => ~Alive'
    BY <1>10 DEF QuitEarly, InterruptAgain, FinishLast, Alive
  <2> QED BY <2>1, <2>2, <2>3, <2>4
<1>11. CASE Take
  <2>1. /\ camera' \in Camera /\ camera'.no = camera.no
        /\ camera'.is # "down" => camera.is # "down"
    BY <1>11, TerminatedType DEF Take
  <2> QED BY <1>11, <2>1 DEF Take, Threads, Alive, control
<1>12. CASE Bye
  <2>1. /\ camera' \in Camera /\ camera'.no = camera.no
        /\ camera'.is # "down" => camera.is # "down"
    BY <1>12 DEF Bye, Gone, Camera
  <2>2. handler' \in [Handlers -> [pc : {"idle", "request", "terminate"}, proc : 0..camera.no]]
    BY <1>12 DEF Bye, ThreadsGone, Idle, Camera
  <2> QED BY <1>12, <2>1, <2>2 DEF Bye, Alive
<1>13. CASE UNCHANGED vars
  BY <1>13 DEF vars, pipeline, rpicam, control, ending, Alive
<1>14. Spawn => UNCHANGED rpicam \/ grabber' = "store"
  BY DEF Spawn
<1> QED BY <1>1, <1>2, <1>3, <1>4, <1>5, <1>6, <1>7, <1>8, <1>9, <1>10, <1>11, <1>12,
           <1>13, <1>14 DEF Next

LEMMA RecordingsInit == Init => Recordings
  BY MonitorAssumption DEF Init, Recordings

LEMMA AppendType ==
  ASSUME NEW S, NEW s \in Seq(S), NEW e \in S
  PROVE  Append(s, e) \in Seq(S)
  OBVIOUS

\* Ending a recording that has had its rows keeps it a recording.
LEMMA FinishType ==
  ASSUME Recordings, NEW ok \in BOOLEAN, NEW r, Finish(r, ok), rec.active,
         r \in [active : BOOLEAN, no : 0..MaxStarts, rows : Seq(0..MaxStarts)],
         r.no = rec.no, Len(r.rows) <= Duration
  PROVE  /\ rec' \in [active : BOOLEAN, no : 0..MaxStarts, rows : Seq(0..MaxStarts)]
         /\ rec'.no = rec.no /\ ~rec'.active /\ rec'.rows = r.rows
         /\ reports' \in Seq(1..MaxStarts)
         /\ reports' = reports \/ reports' = Append(reports, rec.no)
<1>1. rec' = [r EXCEPT !.active = FALSE]
  BY DEF Finish, SetOff
<1>2. reports' = reports \/ reports' = Append(reports, rec.no)
  BY DEF Finish
<1>3. rec.no \in 1..MaxStarts /\ reports \in Seq(1..MaxStarts)
  BY MonitorAssumption DEF Recordings
<1>4. reports' \in Seq(1..MaxStarts)
  <2>1. Append(reports, rec.no) \in Seq(1..MaxStarts)
    BY <1>3, AppendType
  <2> QED BY <1>2, <1>3, <2>1
<1>5. /\ rec' \in [active : BOOLEAN, no : 0..MaxStarts, rows : Seq(0..MaxStarts)]
      /\ rec'.no = r.no /\ ~rec'.active /\ rec'.rows = r.rows
  <2>1. rec' = [active |-> FALSE, no |-> r.no, rows |-> r.rows]
    BY <1>1
  <2>2. FALSE \in BOOLEAN /\ r.no \in 0..MaxStarts /\ r.rows \in Seq(0..MaxStarts)
    OBVIOUS
  <2> QED BY <2>1, <2>2
<1> QED BY <1>2, <1>4, <1>5

LEMMA RecordingsStep == Recordings /\ [Next]_vars => Recordings'
<1> SUFFICES ASSUME Recordings, [Next]_vars PROVE Recordings'
  OBVIOUS
<1> USE MonitorAssumption
<1>1. CASE Start
  BY <1>1 DEF Start, FreshRows, Recordings
<1>2. CASE Stop
  <2>1. PICK ok \in BOOLEAN : Finish(rec, ok)
    BY <1>2 DEF Stop
  <2>2. rec.active /\ UNCHANGED <<sampler, sampled>>
    BY <1>2 DEF Stop
  <2> QED BY <2>1, <2>2, FinishType DEF Recordings
<1>3. CASE Sample
  BY <1>3 DEF Sample, Recordings
<1>4. CASE Row
  <2> DEFINE r == [rec EXCEPT !.rows = Append(@, sampled)]
  <2>1. /\ r \in [active : BOOLEAN, no : 0..MaxStarts, rows : Seq(0..MaxStarts)]
        /\ r.no = rec.no /\ r.active = rec.active /\ Len(r.rows) = Len(rec.rows) + 1
    <3>1. rec.rows \in Seq(0..MaxStarts) /\ sampled \in 0..MaxStarts
      BY DEF Recordings
    <3>2. /\ Append(rec.rows, sampled) \in Seq(0..MaxStarts)
          /\ Len(Append(rec.rows, sampled)) = Len(rec.rows) + 1
      BY <3>1
    <3> QED BY <3>2 DEF Recordings
  <2>2. sampled' = 0 /\ sampler' \in {"sample", "dead"}
    BY <1>4 DEF Row
  <2>3. CASE rec' = rec /\ reports' = reports
    BY <2>2, <2>3 DEF Recordings
  <2>4. CASE rec' = r /\ reports' = reports /\ Len(r.rows) < Duration /\ rec.active
    BY <2>1, <2>2, <2>4 DEF Recordings
  <2>5. CASE rec.active /\ \E ok \in BOOLEAN : Finish(r, ok)
    <3>1. PICK ok \in BOOLEAN : Finish(r, ok)
      BY <2>5
    <3>2. Len(r.rows) <= Duration
      BY <2>1, <2>5 DEF Recordings
    <3>3. /\ rec' \in [active : BOOLEAN, no : 0..MaxStarts, rows : Seq(0..MaxStarts)]
          /\ rec'.no = rec.no /\ ~rec'.active /\ rec'.rows = r.rows
          /\ reports' \in Seq(1..MaxStarts)
      BY <2>1, <2>5, <3>1, <3>2, FinishType
    <3> QED BY <2>2, <3>2, <3>3 DEF Recordings
  <2> QED BY <1>4, <2>3, <2>4, <2>5 DEF Row
<1>5. CASE FinishLast
  <2>1. sampler' \in {sampler, "done"} /\ sampled' = sampled
    BY <1>5 DEF FinishLast, ThreadsGone
  <2>2. CASE UNCHANGED <<rec, reports>>
    BY <2>1, <2>2 DEF Recordings
  <2>3. CASE rec.active /\ \E ok \in BOOLEAN : Finish(rec, ok)
    <3>1. PICK ok \in BOOLEAN : Finish(rec, ok)
      BY <2>3
    <3> QED BY <2>1, <2>3, <3>1, FinishType DEF Recordings
  <2> QED BY <1>5, <2>2, <2>3 DEF FinishLast
<1>6. CASE UNCHANGED <<rec, reports, sampled>> /\ sampler' \in {sampler, "sample", "done"}
  BY <1>6 DEF Recordings
<1> QED BY <1>1, <1>2, <1>3, <1>4, <1>5, <1>6 DEF Next, Clear, Read, Spawn, Store,
        FirstFrame, Reap, NextRound, BackoffEnds, TermObeyed, Crash, BrokenPipe, Change, Request,
        Terminate, WarmedUp, QuitEarly, InterruptAgain, Interrupt, Take, Bye, ThreadsGone, recording, vars

LEMMA TypesAlways == Spec => []Types
<1>1. Init => Types
  BY ThreadsInit, CamerasInit, RecordingsInit DEF Types
<1>2. Types /\ [Next]_vars => Types'
  BY ThreadsStep, CamerasStep, RecordingsStep DEF Types
<1> QED BY <1>1, <1>2, PTL DEF Spec

\* Threads, cameras and recordings have their types; the camera that is to be
\* ended, state["proc"], is the newest but for the moment before it is stored;
\* a recording never has more rows than its time.
THEOREM TypeCorrect == Spec => []TypeOK
<1>1. Types => TypeOK
  BY DEF Types, Threads, Cameras, Recordings, TypeOK
<1> QED BY <1>1, TypesAlways, PTL

-----------------------------------------------------------------------------
\* While the grabber has no camera the newest one has ended: wait() saw to it.
Owned ==
  /\ OneCamera
  /\ grabber \in {"clear", "read", "spawn", "backoff"} => camera.is = "down"

\* No camera comes back.
LEMMA DownStays ==
  ASSUME Cameras, camera.is = "down", [Next]_vars, ~Spawn
  PROVE  camera' = camera
<1> USE DEF Cameras, Camera
<1>1. CASE TermObeyed \/ Crash \/ BrokenPipe
  BY <1>1 DEF TermObeyed, Crash, BrokenPipe
<1>2. ASSUME NEW h \in Handlers, Terminate(h) PROVE camera' = camera
  BY <1>2 DEF Terminate, Terminated
<1>3. CASE Take \/ Bye
  BY <1>3 DEF Take, Bye, Terminated, Gone
<1>4. CASE UNCHANGED camera
  BY <1>4
<1> QED BY <1>1, <1>2, <1>3, <1>4 DEF Next, Clear, Read, Store, FirstFrame, Reap,
        BackoffEnds, Change, Request, Start, Stop, Sample, Row, WarmedUp, QuitEarly, InterruptAgain,
        Interrupt, FinishLast, pipeline, rpicam, vars

LEMMA OwnedStep == Types /\ Owned /\ [Next]_vars => Owned'
<1> SUFFICES ASSUME Types, Owned, [Next]_vars PROVE Owned'
  OBVIOUS
<1> USE DEF Owned, OneCamera
<1>1. CASE Spawn
  BY <1>1 DEF Spawn, rpicam
<1>2. CASE ~Spawn /\ grabber \in {"clear", "read", "spawn", "backoff"}
  <2>1. camera' = camera
    BY <1>2, DownStays DEF Types
  <2>2. lingering' = lingering
    BY <1>2 DEF Next, Clear, Read, Store, FirstFrame, Reap, NextRound, BackoffEnds, TermObeyed,
           Crash, BrokenPipe, Change, Request, Terminate, Start, Stop, Sample, Row,
           WarmedUp, QuitEarly, InterruptAgain, Interrupt, FinishLast, Take, Bye, pipeline, rpicam, vars
  <2> QED BY <1>2, <2>1, <2>2
<1>3. CASE Reap
  BY <1>3 DEF Reap, NextRound, Waited, rpicam
<1>4. CASE Store \/ FirstFrame
  BY <1>4 DEF Store, FirstFrame, rpicam
<1>5. CASE grabber' \in {grabber, "done"} /\ lingering' = lingering
           /\ grabber \notin {"clear", "read", "spawn", "backoff"}
  BY <1>5
<1> QED BY <1>1, <1>2, <1>3, <1>4, <1>5 DEF Next, Clear, Read, BackoffEnds, TermObeyed,
        Crash, BrokenPipe, Change, Request, Terminate, Start, Stop, Sample, Row,
        WarmedUp, QuitEarly, InterruptAgain, Interrupt, FinishLast, Take, Bye, ThreadsGone, pipeline,
        rpicam, vars

\* There is never a second rpicam-vid: a new one is started only when the one
\* before it is gone, whoever ended it.
THEOREM CameraIsOne == Spec => []OneCamera
<1>1. Init => Owned
  BY DEF Init, Owned, OneCamera
<1>2. Owned => OneCamera
  BY DEF Owned
<1> QED BY <1>1, <1>2, OwnedStep, TypesAlways, PTL DEF Spec

LEMMA OwnedAlways == Spec => []Owned
<1>1. Init => Owned
  BY DEF Init, Owned, OneCamera
<1> QED BY <1>1, OwnedStep, TypesAlways, PTL DEF Spec

-----------------------------------------------------------------------------
LEMMA ReleasedStep == Types /\ Owned /\ ReleasedWhatWasSeen /\ [Next]_vars => ReleasedWhatWasSeen'
<1> SUFFICES ASSUME Types, Owned, Owned', ReleasedWhatWasSeen, [Next]_vars, main' = "bye"
             PROVE  camera'.is # "down" => camera'.no > took'
  BY OwnedStep DEF ReleasedWhatWasSeen, Owned, OneCamera
<1> USE DEF ReleasedWhatWasSeen, Types, Cameras, Camera
<1>1. CASE Bye
  BY <1>1 DEF Bye, Gone
<1>2. CASE main = "bye"
  <2>1. grabber = "done" /\ took' = took
    BY <1>2 DEF Threads, Alive, Next, Clear, Read, Spawn, Store, FirstFrame, Reap,
           BackoffEnds, TermObeyed, Crash, BrokenPipe, Change, Request, Terminate, Start,
           Stop, Sample, Row, WarmedUp, QuitEarly, InterruptAgain, Interrupt, FinishLast, Take, Bye,
           ending, vars
  <2>2. CASE camera.is = "down"
    <3>1. ~Spawn
      BY <2>1 DEF Spawn
    <3> QED BY <2>2, <3>1, DownStays
  <2>3. camera'.no = camera.no
    <3>1. CASE TermObeyed \/ Crash \/ BrokenPipe
      BY <3>1 DEF TermObeyed, Crash, BrokenPipe
    <3>2. ASSUME NEW h \in Handlers, Terminate(h) PROVE camera'.no = camera.no
      BY <3>2, TerminatedType DEF Terminate
    <3>3. CASE UNCHANGED camera
      BY <3>3
    <3> QED BY <1>2, <2>1, <3>1, <3>2, <3>3 DEF Next, Clear, Read, Spawn, Store,
            FirstFrame, Reap, NextRound, BackoffEnds, Change, Request, Start, Stop, Sample, Row,
            WarmedUp, QuitEarly, InterruptAgain, Interrupt, FinishLast, Take, Bye, pipeline, rpicam, vars
  <2> QED BY <1>2, <2>1, <2>2, <2>3
<1> QED BY <1>1, <1>2 DEF Next, Clear, Read, Spawn, Store, FirstFrame, Reap,
        BackoffEnds, TermObeyed, Crash, BrokenPipe, Change, Request, Terminate, Start,
        Stop, Sample, Row, WarmedUp, QuitEarly, InterruptAgain, Interrupt, FinishLast, Take, ending, vars

\* When main has said that the camera is released, only one started after main
\* looked can be left.
THEOREM CameraIsReleased == Spec => []ReleasedWhatWasSeen
<1>1. Init => ReleasedWhatWasSeen
  BY DEF Init, ReleasedWhatWasSeen
<1> QED BY <1>1, ReleasedStep, OwnedAlways, TypesAlways, PTL DEF Spec

-----------------------------------------------------------------------------
(***************************************************************************)
(* From reading the settings to losing the camera the grabber works with    *)
(* what it has read, and what it has read is what is asked for or flagged:  *)
(* only the loop's head takes the flag away, and it reads anew after that.  *)
(***************************************************************************)
Flagged == restart_requested \/ \E h \in Handlers : handler[h].pc = "request"

Following ==
  /\ grabber \in {"store", "reading"} => camera.settings = chosen
  /\ grabber \in {"spawn", "store", "reading"} /\ chosen # cam_state => Flagged

LEMMA FollowingStep == Types /\ Following /\ [Next]_vars => Following'
<1> SUFFICES ASSUME Types, Following, [Next]_vars PROVE Following'
  OBVIOUS
<1> USE DEF Following, Flagged, Types, Cameras
<1>1. CASE Clear \/ Read \/ Spawn \/ Store
  BY <1>1 DEF Clear, Read, Spawn, Store, Camera, rpicam, control
<1>2. CASE FirstFrame \/ Reap \/ BackoffEnds
  BY <1>2 DEF FirstFrame, Reap, NextRound, BackoffEnds, rpicam, control
<1>3. CASE TermObeyed \/ Crash \/ BrokenPipe
  BY <1>3 DEF TermObeyed, Crash, BrokenPipe, Camera, control
<1>4. ASSUME NEW h \in Handlers, Change(h) PROVE Following'
  <2>1. handler'[h].pc = "request"
    BY <1>4 DEF Change
  <2> QED BY <1>4, <2>1 DEF Change, pipeline, rpicam
<1>5. ASSUME NEW h \in Handlers, Request(h) PROVE Following'
  BY <1>5 DEF Request, Requested, pipeline, rpicam
<1>6. ASSUME NEW h \in Handlers, Terminate(h) PROVE Following'
  <2>1. \A g \in Handlers : handler[g].pc = "request" => handler'[g].pc = "request"
    BY <1>6 DEF Terminate
  <2>2. camera'.settings = camera.settings
    BY <1>6, TerminatedType DEF Terminate
  <2> QED BY <1>6, <2>1, <2>2 DEF Terminate
<1>7. CASE Take
  <2>1. camera'.settings = camera.settings
    BY <1>7, TerminatedType DEF Take
  <2> QED BY <1>7, <2>1 DEF Take, control
<1>8. CASE grabber' = "done"
  BY <1>8
<1>9. CASE UNCHANGED <<grabber, chosen, camera, control>>
  BY <1>9 DEF control
<1> QED BY <1>1, <1>2, <1>3, <1>4, <1>5, <1>6, <1>7, <1>8, <1>9 DEF Next, Start, Stop,
        Sample, Row, WarmedUp, QuitEarly, InterruptAgain, Interrupt, FinishLast, Bye, ThreadsGone,
        pipeline, rpicam, control, vars

\* A camera with settings nobody asked for any more always leaves a trace:
\* the event is set, or a request is about to set it.
THEOREM StaleLeavesFlag == Spec => []StaleIsFlagged
<1>1. Init => Following
  BY DEF Init, Following
<1>2. Following => StaleIsFlagged
  BY DEF Following, Flagged, StaleIsFlagged
<1> QED BY <1>1, <1>2, FollowingStep, TypesAlways, PTL DEF Spec

-----------------------------------------------------------------------------
(***************************************************************************)
(* A camera was asked to end only by a request that had set the event, or   *)
(* at the end of the program; a request under way that holds the running    *)
(* camera's number has set the event, and only a dead camera takes it back. *)
(***************************************************************************)
Reasons ==
  /\ main \in {"stopping", "take"} => stopping
  /\ grabber \in {"store", "reading", "backoff"} => camera.no > 0
  /\ camera.is = "up" => camera.why = "none"
  /\ camera.is = "asked" => camera.why = "asked"
  /\ camera.is = "down" /\ camera.no > 0 /\ Alive => camera.why # "none"
  /\ main = "await" /\ camera.is = "up" => took # camera.no
  /\ grabber \in {"store", "reading"} /\ camera.why = "asked" => restart_requested \/ stopping
  /\ \A h \in Handlers :
       handler[h].pc = "terminate" /\ handler[h].proc = camera.no
       /\ grabber \in {"store", "reading"} /\ camera.is # "down" => restart_requested
  /\ BackoffOnlyForCrashes

LEMMA ReasonsStep == Types /\ Owned /\ Reasons /\ [Next]_vars => Reasons'
<1> SUFFICES ASSUME Types, Owned, Reasons, [Next]_vars PROVE Reasons'
  OBVIOUS
<1> USE DEF Reasons, BackoffOnlyForCrashes, Types, Cameras, Alive
<1>1. CASE Clear
  BY <1>1 DEF Clear, rpicam, ending
<1>2. CASE Read
  BY <1>2 DEF Read, rpicam, control, ending
<1>3. CASE Spawn
  <2>1. CASE grabber' = "dead" /\ UNCHANGED rpicam
    BY <1>3, <2>1 DEF Spawn, rpicam, control, ending
  <2>2. CASE grabber' = "store"
    <3>1. /\ camera'.no = camera.no + 1 /\ camera'.is = "up" /\ camera'.why = "none"
          /\ camera.no \in Nat
      BY <1>3, <2>2 DEF Spawn, Camera
    <3>2. \A h \in Handlers : handler'[h].proc # camera'.no
      BY <1>3, <3>1 DEF Spawn, control
    <3>3. took' # camera'.no
      BY <1>3, <3>1 DEF Spawn, ending
    <3> QED BY <1>3, <2>2, <3>1, <3>2, <3>3 DEF Spawn, control, ending
  <2> QED BY <1>3, <2>1, <2>2 DEF Spawn
<1>4. CASE Store \/ FirstFrame
  BY <1>4 DEF Store, FirstFrame, rpicam, control, ending
<1>5. CASE Reap
  <2>1. grabber' = "backoff" => camera.why = "other"
    BY <1>5 DEF Reap, NextRound, Waited, Threads, Camera
  <2> QED BY <1>5, <2>1 DEF Reap, rpicam, control, ending
<1>6. CASE BackoffEnds
  BY <1>6 DEF BackoffEnds, rpicam, control, ending
<1>7. CASE TermObeyed \/ Crash \/ BrokenPipe
  <2>1. grabber # "backoff" \/ camera' = camera
    BY <1>7, DownStays DEF Owned, TermObeyed, Crash, BrokenPipe, Spawn
  <2>2. UNCHANGED <<grabber, control, ending>>
    BY <1>7 DEF TermObeyed, Crash, BrokenPipe
  <2>3. \/ camera' = camera
        \/ camera.is = "asked" /\ camera' = [camera EXCEPT !.is = "down"]
        \/ camera.is = "up" /\ camera' = [camera EXCEPT !.is = "down", !.why = "other"]
    BY <1>7 DEF TermObeyed, Crash, BrokenPipe
  <2>4. camera' = camera \/ (/\ camera'.no = camera.no /\ camera'.is = "down"
                            /\ camera'.why \in {camera.why, "other"}
                            /\ camera'.why # "none")
    BY <2>3 DEF Camera
  <2>5. camera' = camera \/ camera'.why = "other" \/ (camera.why = "asked" /\ camera'.why = "asked")
    BY <2>3 DEF Camera
  <2> QED BY <2>1, <2>2, <2>4, <2>5 DEF control, ending
<1>8. ASSUME NEW h \in Handlers, Change(h) PROVE Reasons'
  BY <1>8 DEF Change, pipeline, rpicam, ending
<1>9. ASSUME NEW h \in Handlers, Request(h) PROVE Reasons'
  BY <1>9 DEF Request, Requested, pipeline, rpicam, ending
<1>10. ASSUME NEW h \in Handlers, Terminate(h) PROVE Reasons'
  <2>1. CASE handler[h].proc = camera.no /\ camera.is # "down"
    <3>1. /\ camera'.no = camera.no /\ camera'.is = "asked" /\ camera'.why = "asked"
      BY <1>10, <2>1 DEF Terminate, Terminated, Camera
    <3>2. grabber # "backoff"
      BY <2>1 DEF Owned
    <3>3. \A g \in Handlers : handler'[g].pc = "terminate" => handler'[g] = handler[g]
      BY <1>10 DEF Terminate
    <3> QED BY <1>10, <2>1, <3>1, <3>2, <3>3 DEF Terminate, ending
  <2>2. CASE ~(handler[h].proc = camera.no /\ camera.is # "down")
    <3>1. camera' = camera
      BY <1>10, <2>2 DEF Terminate, Terminated
    <3>2. \A g \in Handlers : handler'[g].pc = "terminate" => handler'[g] = handler[g]
      BY <1>10 DEF Terminate
    <3> QED BY <1>10, <3>1, <3>2 DEF Terminate, ending
  <2> QED BY <2>1, <2>2
<1>11. CASE Start \/ Stop \/ Sample \/ Row
  BY <1>11 DEF Start, Stop, Sample, Row, pipeline, rpicam, control, ending
<1>12. CASE WarmedUp \/ Interrupt
  BY <1>12 DEF WarmedUp, Interrupt, pipeline, rpicam, control
<1>13. CASE QuitEarly \/ InterruptAgain
  BY <1>13 DEF QuitEarly, InterruptAgain, ThreadsGone, Idle, rpicam
<1>14. CASE FinishLast
  BY <1>14 DEF FinishLast, ThreadsGone, Idle, rpicam
<1>15. CASE Take
  <2>1. CASE proc = camera.no /\ camera.is # "down"
    <3>1. /\ camera'.no = camera.no /\ camera'.is = "asked" /\ camera'.why = "asked"
      BY <1>15, <2>1 DEF Take, Terminated, Camera
    <3>2. grabber # "backoff"
      BY <2>1 DEF Owned
    <3> QED BY <1>15, <2>1, <3>1, <3>2 DEF Take, control
  <2>2. CASE ~(proc = camera.no /\ camera.is # "down")
    <3>1. camera' = camera
      BY <1>15, <2>2 DEF Take, Terminated
    <3> QED BY <1>15, <2>2, <3>1 DEF Take, control
  <2> QED BY <2>1, <2>2
<1>16. CASE Bye
  BY <1>16 DEF Bye, ThreadsGone, Idle, Gone, Camera
<1>17. CASE UNCHANGED vars
  BY <1>17 DEF vars, pipeline, rpicam, control, ending
<1> QED BY <1>1, <1>2, <1>3, <1>4, <1>5, <1>6, <1>7, <1>8, <1>9, <1>10, <1>11, <1>12,
           <1>13, <1>14, <1>15, <1>16, <1>17 DEF Next

\* The grabber pauses only when its camera ended by itself.
THEOREM CrashesBackOff == Spec => []BackoffOnlyForCrashes
<1>1. Init => Reasons
  BY DEF Init, Reasons, BackoffOnlyForCrashes, Idle
<1>2. Reasons => BackoffOnlyForCrashes
  BY DEF Reasons
<1> QED BY <1>1, <1>2, ReasonsStep, OwnedAlways, TypesAlways, PTL DEF Spec

-----------------------------------------------------------------------------
\* The recordings reported are over; the one that is on is a later one.
Reported ==
  /\ \A i \in 1..Len(reports) : /\ reports[i] <= rec.no
                                /\ rec.active => reports[i] < rec.no
  /\ ReportedOnce

LEMMA AppendElements ==
  ASSUME NEW s \in Seq(Nat), NEW e \in Nat
  PROVE  /\ Len(Append(s, e)) = Len(s) + 1 /\ Append(s, e)[Len(s) + 1] = e
         /\ \A i \in 1..Len(s) : Append(s, e)[i] = s[i]
  OBVIOUS

LEMMA ReportStep ==
  ASSUME Recordings, Reported, NEW ok \in BOOLEAN, NEW r, Finish(r, ok), rec.active,
         r \in [active : BOOLEAN, no : 0..MaxStarts, rows : Seq(0..MaxStarts)],
         r.no = rec.no, Len(r.rows) <= Duration
  PROVE  Reported'
<1> USE MonitorAssumption
<1>1. rec'.no = rec.no /\ ~rec'.active
  BY FinishType
<1>2. reports \in Seq(Nat) /\ rec.no \in Nat
  BY DEF Recordings
<1>3. CASE reports' = reports
  BY <1>1, <1>3 DEF Reported, ReportedOnce
<1>4. CASE reports' = Append(reports, rec.no)
  <2>1. /\ Len(reports') = Len(reports) + 1 /\ reports'[Len(reports) + 1] = rec.no
        /\ \A i \in 1..Len(reports) : reports'[i] = reports[i]
    BY <1>2, <1>4, AppendElements
  <2>2. \A i \in 1..Len(reports) : reports[i] < rec.no /\ reports[i] \in Nat
    BY <1>2 DEF Reported
  <2>3. \A i \in 1..Len(reports') : i \in 1..Len(reports) \/ i = Len(reports) + 1
    BY <1>2, <2>1
  <2>4. \A i \in 1..Len(reports') : reports'[i] <= rec.no
    BY <1>2, <2>1, <2>2, <2>3
  <2>5. ReportedOnce'
    <3>1. SUFFICES ASSUME NEW i \in 1..Len(reports'), NEW j \in 1..Len(reports'),
                          reports'[i] = reports'[j]
                   PROVE  i = j
      BY DEF ReportedOnce
    <3>2. CASE i \in 1..Len(reports) /\ j \in 1..Len(reports)
      BY <2>1, <3>1, <3>2 DEF Reported, ReportedOnce
    <3>3. CASE i = Len(reports) + 1 /\ j \in 1..Len(reports)
      BY <1>2, <2>1, <2>2, <3>1, <3>3
    <3>4. CASE j = Len(reports) + 1 /\ i \in 1..Len(reports)
      BY <1>2, <2>1, <2>2, <3>1, <3>4
    <3> QED BY <2>3, <3>2, <3>3, <3>4
  <2> QED BY <1>1, <2>4, <2>5 DEF Reported
<1> QED BY <1>3, <1>4, FinishType

LEMMA ReportedStep == Types /\ Reported /\ [Next]_vars => Reported'
<1> SUFFICES ASSUME Recordings, Reported, [Next]_vars PROVE Reported'
  BY DEF Types
<1> USE MonitorAssumption
<1>1. CASE Start
  <2>1. /\ rec'.no = rec.no + 1 /\ reports' = reports
        /\ rec.no \in Nat /\ reports \in Seq(Nat)
    BY <1>1 DEF Start, Recordings
  <2>2. \A i \in 1..Len(reports) : reports[i] \in Nat /\ reports[i] <= rec.no
    BY <2>1 DEF Reported
  <2> QED BY <2>1, <2>2 DEF Reported, ReportedOnce
<1>2. CASE rec.active /\ \E ok \in BOOLEAN : Finish(rec, ok)
  <2>1. PICK ok \in BOOLEAN : Finish(rec, ok)
    BY <1>2
  <2> QED BY <1>2, <2>1, ReportStep DEF Recordings
<1>3. CASE Row
  <2> DEFINE r == [rec EXCEPT !.rows = Append(@, sampled)]
  <2>1. CASE rec'.no = rec.no /\ rec'.active = rec.active /\ reports' = reports
    BY <2>1 DEF Reported, ReportedOnce
  <2>2. CASE rec.active /\ \E ok \in BOOLEAN : Finish(r, ok)
    <3>1. PICK ok \in BOOLEAN : Finish(r, ok)
      BY <2>2
    <3>2. rec.rows \in Seq(0..MaxStarts) /\ sampled \in 0..MaxStarts /\ Len(rec.rows) < Duration
      BY <2>2 DEF Recordings
    <3>3. /\ Append(rec.rows, sampled) \in Seq(0..MaxStarts)
          /\ Len(Append(rec.rows, sampled)) = Len(rec.rows) + 1
      BY <3>2
    <3>4. /\ r \in [active : BOOLEAN, no : 0..MaxStarts, rows : Seq(0..MaxStarts)]
          /\ r.no = rec.no /\ Len(r.rows) = Len(rec.rows) + 1
      BY <3>3 DEF Recordings
    <3>5. Len(r.rows) <= Duration
      <4> HIDE DEF r
      <4> QED BY <3>2, <3>4
    <3> QED BY <2>2, <3>1, <3>4, <3>5, ReportStep
  <2>3. rec' = r => rec'.no = rec.no /\ rec'.active = rec.active
    BY DEF Recordings
  <2> QED BY <1>3, <2>1, <2>2, <2>3 DEF Row
<1>4. CASE UNCHANGED <<rec, reports>>
  BY <1>4 DEF Reported, ReportedOnce
<1> QED BY <1>1, <1>2, <1>3, <1>4 DEF Next, Clear, Read, Spawn, Store, FirstFrame, Reap,
        BackoffEnds, TermObeyed, Crash, BrokenPipe, Change, Request, Terminate, Stop,
        Sample, WarmedUp, QuitEarly, InterruptAgain, Interrupt, FinishLast, Take, Bye, recording, vars

\* Sampler, /stop and the end of the program never report a recording twice.
THEOREM ReportsAreUnique == Spec => []ReportedOnce
<1>1. Init => Reported
  BY DEF Init, Reported, ReportedOnce
<1>2. Reported => ReportedOnce
  BY DEF Reported
<1> QED BY <1>1, <1>2, ReportedStep, TypesAlways, PTL DEF Spec

-----------------------------------------------------------------------------
\* A sample in hand when its recording has a row was taken during it.
Rows ==
  /\ sampler = "row" /\ rec.rows # <<>> => sampled = rec.no
  /\ OnlyFirstRowEarly

LEMMA RowsStep == Types /\ Rows /\ [Next]_vars => Rows'
<1> SUFFICES ASSUME Recordings, Rows, [Next]_vars PROVE Rows'
  BY DEF Types
<1> USE MonitorAssumption DEF Rows, OnlyFirstRowEarly
<1>1. CASE Start
  BY <1>1 DEF Start, FreshRows
<1>2. CASE Row
  <2> DEFINE r == [rec EXCEPT !.rows = Append(@, sampled)]
  <2>1. sampler' # "row"
    BY <1>2 DEF Row
  <2>2. rec.rows \in Seq(Nat) /\ sampled \in Nat
    BY DEF Recordings
  <2>3. /\ r.no = rec.no /\ r.rows = Append(rec.rows, sampled)
    BY DEF Recordings
  <2>4. \A i \in 2..Len(r.rows) : r.rows[i] = r.no
    <3> SUFFICES ASSUME NEW i \in 2..Len(r.rows) PROVE r.rows[i] = r.no
      OBVIOUS
    <3>1. CASE i \in 2..Len(rec.rows)
      <4>1. i \in 1..Len(rec.rows)
        BY <2>2, <3>1
      <4>2. Append(rec.rows, sampled)[i] = rec.rows[i]
        BY <2>2, <4>1, AppendElements
      <4> QED BY <2>3, <3>1, <4>2
    <3>2. CASE i = Len(rec.rows) + 1
      <4>1. rec.rows # <<>>
        BY <2>2, <3>2
      <4>2. sampler = "row"
        BY <1>2 DEF Row
      <4> QED BY <2>2, <2>3, <3>2, <4>1, <4>2, AppendElements
    <3> QED BY <2>2, <2>3, <3>1, <3>2, AppendElements
  <2>5. rec' = rec \/ (rec'.rows = r.rows /\ rec'.no = r.no)
    BY <1>2 DEF Row, Finish, SetOff, Recordings
  <2> QED BY <2>1, <2>4, <2>5
<1>3. CASE rec' = rec /\ sampled' = sampled /\ (sampler' = "row" => sampler = "row")
  BY <1>3
<1>4. CASE Stop \/ FinishLast
  <2>1. rec'.rows = rec.rows /\ rec'.no = rec.no
    BY <1>4 DEF Stop, FinishLast, Finish, SetOff, Recordings
  <2>2. sampled' = sampled /\ (sampler' = "row" => sampler = "row")
    BY <1>4 DEF Stop, FinishLast, ThreadsGone
  <2> QED BY <2>1, <2>2
<1>5. CASE Sample
  BY <1>5 DEF Sample
<1> QED BY <1>1, <1>2, <1>3, <1>4, <1>5 DEF Next, Clear, Read, Spawn, Store, FirstFrame,
        Reap, NextRound, BackoffEnds, TermObeyed, Crash, BrokenPipe, Change, Request, Terminate,
        WarmedUp, QuitEarly, InterruptAgain, Interrupt, Take, Bye, ThreadsGone, recording, vars

\* A recording may begin with one row measured before it, and has no other.
THEOREM RowsAreOwn == Spec => []OnlyFirstRowEarly
<1>1. Init => Rows
  BY DEF Init, Rows, OnlyFirstRowEarly
<1>2. Rows => OnlyFirstRowEarly
  BY DEF Rows
<1> QED BY <1>1, <1>2, RowsStep, TypesAlways, PTL DEF Spec
=============================================================================
