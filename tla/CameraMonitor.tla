---------------------------- MODULE CameraMonitor ----------------------------
(***************************************************************************)
(* The threads of camera/record/test_camera.py: the grabber, which runs     *)
(* rpicam-vid and starts it anew when it ends; the HTTP handlers, which     *)
(* change its settings and end it, and start and stop recordings; the       *)
(* sampler, which feeds and ends recordings; and main, which ends it all.   *)
(*                                                                         *)
(* A with-block is one step, and so is an assignment outside of one.  The   *)
(* settings (sensor mode and quality) are one value.                       *)
(***************************************************************************)
EXTENDS Integers, Sequences, FiniteSets

CONSTANTS
  Settings,    \* what cam_state can be
  Configured,  \* what cam_sets.yaml says
  Handlers,    \* concurrent requests for /mode and /quality
  Duration,    \* rows after which a recording's time is over
  MaxChanges,  \* bound: requests for /mode and /quality
  MaxCrashes,  \* bound: cameras that end by themselves
  MaxStarts,   \* bound: requests for /start
  MaxRequests  \* bound: all of these requests

ASSUME MonitorAssumption ==
  /\ Configured \in Settings
  /\ Duration \in Nat \ {0}
  /\ MaxChanges \in Nat /\ MaxCrashes \in Nat /\ MaxStarts \in Nat
  /\ MaxRequests \in Nat

VARIABLES
  main,       \* warmup, serving, stopping, take, await; bye, done: exited
  stopping,   \* the event
  grabber,    \* clear, read, spawn, store, reading, backoff; done or dead
  chosen,     \* the settings the grabber has read
  camera,     \* the newest rpicam-vid: its number, settings, state and why
  lingering,  \* the numbers of older ones that have not ended
  proc,       \* state["proc"]: the number of one, 0 before the first
  cam_state,
  restart_requested,
  handler,    \* for each handler where it is and the camera it has read
  seen,       \* state["count"] > 0
  sampler,    \* off, sample, row; done or dead
  sampled,    \* the recording that was on when the sampler took the sample in
              \* its hands; 0: none
  rec,        \* active, the number of the recording (history), its rows
  reports,    \* the recordings reported (history)
  took,       \* the camera main has read, at the end
  changes, crashes  \* environment steps so far

rpicam == <<camera, lingering>>
pipeline == <<grabber, chosen, rpicam, proc, seen>>
control == <<cam_state, restart_requested, handler, changes>>
recording == <<sampler, sampled, rec, reports>>
ending == <<main, stopping, took>>
vars == <<pipeline, control, recording, ending, crashes>>

Alive == main \notin {"bye", "done"}

\* A request accepted before ^C runs on beside the finally block.
Answering == main \in {"serving", "stopping", "take", "await"}

\* When main returns the other threads, daemons all, are gone.
Idle == [h \in Handlers |-> [pc |-> "idle", proc |-> 0]]
ThreadsGone == grabber' = "done" /\ sampler' = "done" /\ handler' = Idle

Init ==
  /\ main = "warmup" /\ stopping = FALSE /\ took = 0
  /\ grabber = "clear" /\ chosen = Configured
  /\ camera = [no |-> 0, settings |-> Configured, is |-> "down", why |-> "none"]
  /\ lingering = {} /\ proc = 0 /\ seen = FALSE
  /\ cam_state = Configured /\ restart_requested = FALSE
  /\ handler = Idle
  /\ sampler = "off" /\ sampled = 0
  /\ rec = [active |-> FALSE, no |-> 0, rows |-> <<>>]
  /\ reports = <<>>
  /\ changes = 0 /\ crashes = 0

-----------------------------------------------------------------------------
(* grabber.  Its camera is the newest one. *)

\* The loop's head: the end, or the event is cleared.
Clear ==
  /\ grabber = "clear"
  /\ IF stopping THEN grabber' = "done" /\ UNCHANGED restart_requested
                 ELSE grabber' = "read" /\ restart_requested' = FALSE
  /\ UNCHANGED <<chosen, rpicam, proc, seen, cam_state, handler, changes,
                 recording, ending, crashes>>

Read ==
  /\ grabber = "read"
  /\ grabber' = "spawn" /\ chosen' = cam_state
  /\ UNCHANGED <<rpicam, proc, seen, control, recording, ending, crashes>>

\* Popen, which may raise: the thread is over.
Spawn ==
  /\ grabber = "spawn"
  /\ \/ /\ grabber' = "store"
        /\ camera' = [no |-> camera.no + 1, settings |-> chosen,
                      is |-> "up", why |-> "none"]
        /\ lingering' = IF camera.is = "down" THEN lingering
                        ELSE lingering \cup {camera.no}
     \/ grabber' = "dead" /\ UNCHANGED rpicam
  /\ UNCHANGED <<chosen, proc, seen, control, recording, ending, crashes>>

Store ==
  /\ grabber = "store"
  /\ grabber' = "reading" /\ proc' = camera.no
  /\ UNCHANGED <<chosen, rpicam, seen, control, recording, ending, crashes>>

FirstFrame ==
  /\ grabber = "reading" /\ camera.is = "up" /\ ~seen
  /\ seen' = TRUE
  /\ UNCHANGED <<grabber, chosen, rpicam, proc, control, recording, ending, crashes>>

\* After a camera: the end, the next one at once, or a pause.  (Mutant: one
\* that ends by itself ends the loop.)
EndsOnEof == IF restart_requested /\ ~stopping THEN "clear" ELSE "done"
NextRound == IF stopping THEN "done" ELSE IF restart_requested THEN "clear" ELSE "backoff"

\* The read loop has ended and wait() has returned.  (Mutant: without the
\* wait.)
NoWait == TRUE
Waited == camera.is = "down"
Reap ==
  /\ grabber = "reading"
  /\ camera.is # "up" \/ stopping
  /\ Waited
  /\ grabber' = NextRound
  /\ UNCHANGED <<chosen, rpicam, proc, seen, control, recording, ending, crashes>>

BackoffEnds ==
  /\ grabber = "backoff"
  /\ grabber' = "clear"
  /\ UNCHANGED <<chosen, rpicam, proc, seen, control, recording, ending, crashes>>

-----------------------------------------------------------------------------
(* rpicam-vid *)

\* SIGTERM reaches a camera that has not ended; it takes its time to end.
Terminated(n) ==
  IF n = camera.no /\ camera.is # "down"
  THEN [camera EXCEPT !.is = "asked", !.why = "asked"] ELSE camera

TermObeyed ==
  /\ \/ camera.is = "asked" /\ camera' = [camera EXCEPT !.is = "down"] /\ UNCHANGED lingering
     \/ lingering # {} /\ lingering' = {} /\ UNCHANGED camera
  /\ UNCHANGED <<grabber, chosen, proc, seen, control, recording, ending, crashes>>

\* It ends by itself, or by the terminal's ^C.
Crash ==
  /\ crashes < MaxCrashes /\ crashes' = crashes + 1
  /\ camera.is = "up"
  /\ camera' = [camera EXCEPT !.is = "down", !.why = "other"]
  /\ UNCHANGED <<lingering, grabber, chosen, proc, seen, control, recording, ending>>

\* Nobody reads its frames any more: the next write ends it.
BrokenPipe ==
  /\ ~Alive
  /\ camera.is = "up"
  /\ camera' = [camera EXCEPT !.is = "down", !.why = "other"]
  /\ UNCHANGED <<lingering, grabber, chosen, proc, seen, control, recording, ending, crashes>>

-----------------------------------------------------------------------------
(* Handlers *)

\* /mode and /quality: new settings and the camera to end, under cam_lock.
Change(h) ==
  /\ Answering /\ handler[h].pc = "idle"
  /\ changes < MaxChanges /\ changes + rec.no < MaxRequests
  /\ changes' = changes + 1
  /\ cam_state' \in Settings
  /\ handler' = [handler EXCEPT ![h] = [pc |-> "request", proc |-> proc]]
  /\ UNCHANGED <<restart_requested, pipeline, recording, ending, crashes>>

\* restart_requested.set().  (Mutants: forgotten; only if there is a camera to
\* end, as for terminate.)
NotRequested(h) == restart_requested
RequestIfRunning(h) ==
  restart_requested \/ (handler[h].proc = camera.no /\ camera.is = "up")
Requested(h) == TRUE
Request(h) ==
  /\ handler[h].pc = "request"
  /\ restart_requested' = Requested(h)
  /\ handler' = [handler EXCEPT ![h].pc = "terminate"]
  /\ UNCHANGED <<cam_state, changes, pipeline, recording, ending, crashes>>

Terminate(h) ==
  /\ handler[h].pc = "terminate"
  /\ camera' = Terminated(handler[h].proc)
  /\ handler' = [handler EXCEPT ![h] = [pc |-> "idle", proc |-> 0]]
  /\ UNCHANGED <<lingering, grabber, chosen, proc, seen, cam_state,
                 restart_requested, changes, recording, ending, crashes>>

\* finish_locked: the recording is off before its report is written, which
\* may fail.  (Mutant: it is not set off.)
StillOn(r) == r
SetOff(r) == [r EXCEPT !.active = FALSE]
Finish(r, ok) ==
  /\ ok \/ r.rows # <<>>
  /\ rec' = SetOff(r)
  /\ reports' = IF ok /\ r.rows # <<>> THEN Append(reports, r.no) ELSE reports

\* /start, whether or not a recording is on.  (Mutant: rows are kept.)
KeptRows == rec.rows
FreshRows == <<>>
Start ==
  /\ Answering
  /\ rec.no < MaxStarts /\ changes + rec.no < MaxRequests
  /\ rec' = [active |-> TRUE, no |-> rec.no + 1, rows |-> FreshRows]
  /\ UNCHANGED <<sampler, sampled, reports, pipeline, control, ending, crashes>>

\* /stop.  A failing report ends this request only.
Stop ==
  /\ Answering /\ rec.active
  /\ \E ok \in BOOLEAN : Finish(rec, ok)
  /\ UNCHANGED <<sampler, sampled, pipeline, control, ending, crashes>>

-----------------------------------------------------------------------------
(* sampler *)

Sample ==
  /\ sampler = "sample"
  /\ IF stopping THEN sampler' = "done" /\ UNCHANGED sampled
                 ELSE sampler' = "row" /\ sampled' = rec.no
  /\ UNCHANGED <<rec, reports, pipeline, control, ending, crashes>>

\* The sample becomes a row of the recording that is on by now, and may be
\* its last.  A failing report raises, and the thread is over.
Row ==
  /\ sampler = "row"
  /\ LET r == [rec EXCEPT !.rows = Append(@, sampled)]
     IN  \/ /\ ~rec.active
            /\ sampler' = "sample" /\ UNCHANGED <<rec, reports>>
         \/ /\ rec.active /\ Len(r.rows) < Duration
            /\ sampler' = "sample" /\ rec' = r /\ UNCHANGED reports
         \/ /\ rec.active /\ Len(r.rows) >= Duration
            /\ \E ok \in BOOLEAN :
                 Finish(r, ok) /\ sampler' = IF ok THEN "sample" ELSE "dead"
  /\ sampled' = 0
  /\ UNCHANGED <<pipeline, control, ending, crashes>>

-----------------------------------------------------------------------------
(* main *)

WarmedUp ==
  /\ main = "warmup" /\ seen
  /\ main' = "serving" /\ sampler' = "sample"
  /\ UNCHANGED <<stopping, took, sampled, rec, reports, pipeline, control, crashes>>

\* No frames in 12 seconds, or ^C before the server runs: main returns.
QuitEarly ==
  /\ main = "warmup"
  /\ main' = "done"
  /\ (stopping' = TRUE /\ ~seen) \/ UNCHANGED stopping
  /\ ThreadsGone
  /\ UNCHANGED <<took, sampled, rec, reports, chosen, rpicam, proc, seen,
                 cam_state, restart_requested, changes, crashes>>

\* ^C, and the finally block.
Interrupt ==
  /\ main = "serving"
  /\ main' = "stopping" /\ stopping' = TRUE
  /\ UNCHANGED <<took, recording, pipeline, control, crashes>>

\* A failing report leaves the finally block.
FinishLast ==
  /\ main = "stopping"
  /\ \/ ~rec.active /\ main' = "take" /\ UNCHANGED <<rec, reports>>
     \/ rec.active /\ Finish(rec, TRUE) /\ main' = "take"
     \/ rec.active /\ Finish(rec, FALSE) /\ main' = "done"
  /\ IF main' = "done" THEN ThreadsGone ELSE UNCHANGED <<grabber, sampler, handler>>
  /\ UNCHANGED <<stopping, took, sampled, chosen, rpicam, proc, seen,
                 cam_state, restart_requested, changes, crashes>>

Take ==
  /\ main = "take"
  /\ took' = proc
  /\ camera' = Terminated(proc)
  /\ main' = "await"
  /\ UNCHANGED <<stopping, lingering, grabber, chosen, proc, seen, recording, control, crashes>>

\* wait(timeout=3), then kill.  (Mutant: the timeout is the end of it.)
GivenUp == camera
Gone == IF took = camera.no THEN [camera EXCEPT !.is = "down"] ELSE camera
Bye ==
  /\ main = "await"
  /\ main' = "bye"
  /\ camera' = Gone
  /\ ThreadsGone
  /\ UNCHANGED <<stopping, took, lingering, chosen, proc, seen, sampled, rec, reports,
                 cam_state, restart_requested, changes, crashes>>

\* Another ^C leaves the finally block, wherever it is.
InterruptAgain ==
  /\ main \in {"stopping", "take", "await"}
  /\ main' = "done"
  /\ ThreadsGone
  /\ UNCHANGED <<stopping, took, chosen, rpicam, proc, seen, sampled, rec, reports,
                 cam_state, restart_requested, changes, crashes>>

-----------------------------------------------------------------------------
Grabber == Clear \/ Read \/ Spawn \/ Store \/ FirstFrame \/ Reap \/ BackoffEnds

Next ==
  \/ Clear \/ Read \/ Spawn \/ Store \/ FirstFrame \/ Reap \/ BackoffEnds
  \/ TermObeyed \/ Crash \/ BrokenPipe
  \/ \E h \in Handlers : Change(h) \/ Request(h) \/ Terminate(h)
  \/ Start \/ Stop \/ Sample \/ Row
  \/ WarmedUp \/ QuitEarly \/ Interrupt \/ FinishLast \/ Take \/ Bye
  \/ InterruptAgain

Spec == Init /\ [][Next]_vars

(***************************************************************************)
(* Fairness.  The threads of grabber, handlers and main run, SIGTERM is     *)
(* obeyed, and a camera whose frames nobody reads writes its next one.      *)
(* Nobody has to send a request or press ^C.                                *)
(***************************************************************************)
Fairness ==
  /\ WF_vars(Grabber) /\ WF_vars(TermObeyed) /\ WF_vars(BrokenPipe)
  /\ \A h \in Handlers : WF_vars(Request(h) \/ Terminate(h))
  /\ WF_vars(WarmedUp \/ FinishLast \/ Take \/ Bye)

FairSpec == Spec /\ Fairness

-----------------------------------------------------------------------------
Camera == [no : Nat, settings : Settings, is : {"up", "asked", "down"},
           why : {"none", "asked", "other"}]

TypeOK ==
  /\ main \in {"warmup", "serving", "stopping", "take", "await", "bye", "done"}
  /\ stopping \in BOOLEAN /\ took \in 0..camera.no
  /\ grabber \in {"clear", "read", "spawn", "store", "reading", "backoff", "done", "dead"}
  /\ chosen \in Settings /\ cam_state \in Settings
  /\ camera \in Camera /\ lingering \subseteq 1..camera.no
  /\ proc = camera.no \/ (proc = camera.no - 1 /\ (grabber = "store" \/ ~Alive))
  /\ seen \in BOOLEAN /\ restart_requested \in BOOLEAN
  /\ handler \in [Handlers -> [pc : {"idle", "request", "terminate"}, proc : 0..camera.no]]
  /\ sampler \in {"off", "sample", "row", "done", "dead"} /\ sampled \in 0..rec.no
  /\ rec \in [active : BOOLEAN, no : 0..MaxStarts, rows : Seq(0..MaxStarts)]
  /\ Len(rec.rows) <= Duration
  /\ reports \in Seq(1..MaxStarts)
  /\ changes \in 0..MaxChanges /\ crashes \in 0..MaxCrashes

\* rpicam-vid owns the camera: a new one is started only when the one before
\* it, asked to end or not, is gone.
OneCamera == lingering = {}

\* A camera that runs with other settings than the ones asked for last either
\* will be told so by a request under way, or restart_requested is left set.
StaleIsFlagged ==
  (grabber = "reading" /\ camera.is = "up" /\ camera.settings # cam_state)
  => restart_requested \/ \E h \in Handlers : handler[h].pc = "request"

\* "crash/EOF backoff - skipped on a deliberate mode/quality change".
BackoffOnlyForCrashes == grabber = "backoff" => camera.why = "other"

\* "camera released": after main has said so only a camera can be left that
\* was started after main looked.
ReleasedWhatWasSeen ==
  main = "bye" => (camera.is # "down" => camera.no > took) /\ lingering = {}

\* A row is measured during its recording; only the first one may have been
\* measured just before it.
OnlyFirstRowEarly == \A i \in 2..Len(rec.rows) : rec.rows[i] = rec.no

\* The sampler, /stop and main may all end a recording, and one of them does.
ReportedOnce == \A i, j \in 1..Len(reports) : reports[i] = reports[j] => i = j

\* The grabber's loop ends with the program and, unless rpicam-vid cannot be
\* started, not before: while the page is served a camera that has ended,
\* asked to or not, is replaced, however requests overlap with its end; and after
\* ^C the program ends and its last camera with it, even one started after main
\* looked.
CameraComesAndGoes ==
  /\ (main = "serving" /\ camera.is = "down") ~> (camera.is = "up" \/ main # "serving" \/ grabber = "dead")
  /\ stopping ~> (main \in {"bye", "done"} /\ camera.is = "down")

\* "Changing either kills state["proc"], which makes grabber()'s read loop
\* exit and rebuild the pipeline from these values": a camera with other
\* settings than the ones asked for does not go on.  This does not hold: a change
\* between Read and Store ends a camera that is gone, and nobody looks at the
\* flag (StaleIsFlagged) before the new one ends.
Stale == grabber = "reading" /\ camera.settings # cam_state
Applied == (main = "serving" /\ Stale) ~> (main # "serving" \/ ~Stale)
=============================================================================
