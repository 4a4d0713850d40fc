------------------------------- MODULE Mission -------------------------------
(***************************************************************************)
(* How a recording is started and stopped: scripts/cubesat.sh starts        *)
(* scripts/record.sh in a session of its own, which starts the gimbal and   *)
(* then camera/record/record_video.c, which forks rpicam-vid, moves it to a *)
(* process group of its own and turns whatever stops the recording into the *)
(* SIGINT that lets the camera finish its file.                            *)
(*                                                                         *)
(* The five processes run at their own speed; a signal takes effect when it *)
(* is sent, by the disposition its receiver has at that moment; a shell     *)
(* looks for a trapped one between two commands.  Durations (the recording's,*)
(* the launcher's 15 s of grace) are not compared.                          *)
(***************************************************************************)
EXTENDS Naturals

VARIABLES
  launcher,   \* cubesat.sh
  known,      \* has RECORD_PID been assigned
  record,     \* record.sh
  trapped,    \* a stop is pending in record.sh's shell
  gimbal_pid, \* does GIMBAL_PID hold gimbal_full's process
  gimbal,     \* gimbal_full
  video,      \* record_video
  camera,     \* rpicam-vid
  missed,     \* who did not hear the stop, or never sent it (history)
  loose       \* one found record.sh unable to stop its gimbal (history)

shell == <<record, trapped, gimbal_pid, loose>>
vars == <<launcher, known, shell, gimbal, video, camera, missed>>

\* cubesat.sh: about to start the recording, just forked it, sleep 3, gcs.sh,
\* in the EXIT trap (before TERM, in the grace period, before KILL, in wait),
\* ended after it or within it.
LauncherStates == {"start", "forked", "probe", "screen", "cleanup", "grace",
                   "kill", "wait", "done", "cut"}
\* record.sh: before its traps are set, before the gimbal is forked, between
\* that and GIMBAL_PID=$!, sleep 2, past it and about to fork record_video.sh,
\* record_video.sh, EXIT trap.
RecordStates == {"none", "boot", "ready", "forked", "probe", "begin", "video",
                 "cleanup", "dead"}
\* record_video: before sigaction, before fork, between fork and the
\* assignment to child_pid, in waitpid, after it.
VideoStates == {"none", "boot", "armed", "forked", "waiting", "reaped", "dead"}
\* rpicam-vid: forked but not yet exec'd (so with record_video's handlers),
\* exec'd but without a handler, recording, writing the end of the file; the
\* file is whole, has no moov, or was never begun.
CameraStates == {"none", "child", "exec", "recording", "finishing",
                 "whole", "broken", "gone"}
Ended == {"whole", "broken", "gone"}

Init ==
  /\ launcher = "start" /\ known = FALSE
  /\ record = "none" /\ trapped = FALSE /\ gimbal_pid = FALSE /\ loose = "no"
  /\ gimbal = "none"
  /\ video = "none"
  /\ camera = "none" /\ missed = "no"

-----------------------------------------------------------------------------
(* Signals *)

\* SIGINT at the camera: the inherited handler does nothing in the child.
Interrupted == CASE camera = "exec" -> "gone"
                 [] camera = "recording" -> "finishing"
                 [] OTHER -> camera

\* A signal nobody handles.
Killed == CASE camera \in {"child", "exec"} -> "gone"
            [] camera \in {"recording", "finishing"} -> "broken"
            [] OTHER -> camera

\* stop_child passes the stop on as SIGINT.  (Mutant: not at all.)
Swallowed == camera
Converted == Interrupted

\* Is the camera still in record.sh's process group: neither it nor its
\* parent has called setpgid.  (Mutant: setpgid is never called.)
NeverSeparated == camera \notin {"none"} \cup Ended
InGroup == camera = "child" /\ video = "forked"

\* SIGTERM at record_video: stop_child, once it is installed.
Stopped == video = "waiting"
TermVideo == video' = IF video = "boot" THEN "dead" ELSE video

\* SIGTERM at record.sh's shell: its trap waits for the foreground command,
\* and within the EXIT trap it exits before what is left of cleanup.
TermRecord(how) ==
  /\ record' \in CASE record = "boot" -> {"dead"}
                   [] record = "cleanup" -> {"cleanup", "dead"}
                   [] OTHER -> {record}
  /\ trapped' = (trapped \/ record # "boot")
  /\ loose' = IF \/ record \in {"ready", "forked"}
                 \/ record = "cleanup" /\ record' = "dead"
              THEN how ELSE loose
  /\ UNCHANGED gimbal_pid

\* SIGTERM at the group: the gimbal has no handler, the child before exec has
\* its parent's.
TermGroup ==
  /\ TermRecord("group")
  /\ TermVideo
  /\ camera' = IF InGroup /\ camera # "child" THEN Killed
               ELSE IF Stopped THEN Converted ELSE camera
  /\ gimbal' = IF gimbal = "running" THEN "dead" ELSE gimbal
  /\ missed' = IF record = "begin" THEN "record.sh"
               ELSE IF video \in {"armed", "forked"} \/ (Stopped /\ camera = "child")
               THEN "record_video" ELSE missed

\* SIGKILL at the group.
KillGroup ==
  /\ record' = "dead" /\ trapped' = FALSE
  /\ video' = IF video = "none" THEN "none" ELSE "dead"
  /\ camera' = IF InGroup THEN Killed ELSE camera
  /\ gimbal' = IF gimbal = "running" THEN "dead" ELSE gimbal
  /\ UNCHANGED <<gimbal_pid, loose, missed>>

-----------------------------------------------------------------------------
(* cubesat.sh *)

rest == <<shell, gimbal, video, camera, missed>>

Launch ==
  /\ launcher = "start"
  /\ launcher' = "forked" /\ record' = "boot"
  /\ UNCHANGED <<known, trapped, gimbal_pid, loose, gimbal, video, camera, missed>>

Assign ==
  /\ launcher = "forked"
  /\ launcher' = "probe" /\ known' = TRUE
  /\ UNCHANGED rest

\* After sleep 3: a recording that is over is forgotten, and ends the mission
\* when it failed.
Probe ==
  /\ launcher = "probe"
  /\ IF record = "dead" THEN known' = FALSE /\ launcher' \in {"screen", "cleanup"}
                        ELSE known' = known /\ launcher' = "screen"
  /\ UNCHANGED rest

\* gcs.sh returns: the screen was closed.
CloseScreen ==
  /\ launcher = "screen"
  /\ launcher' = "cleanup"
  /\ UNCHANGED <<known, rest>>

\* SIGINT or SIGTERM at the launcher, between any two commands.
Interrupt ==
  /\ launcher \in {"start", "forked", "probe", "screen"}
  /\ launcher' = "cleanup"
  /\ UNCHANGED <<known, rest>>

\* cleanup: nothing to do, or SIGTERM.
Cleanup ==
  /\ launcher = "cleanup"
  /\ UNCHANGED known
  /\ IF ~known \/ record = "dead"
     THEN launcher' = "done" /\ UNCHANGED rest
     ELSE launcher' = "grace" /\ TermGroup

\* The grace period ends with record.sh, or after 15 seconds.
GraceEnds ==
  /\ launcher = "grace"
  /\ launcher' = "kill"
  /\ UNCHANGED <<known, rest>>

Kill ==
  /\ launcher = "kill"
  /\ launcher' = "wait"
  /\ KillGroup
  /\ UNCHANGED known

Wait ==
  /\ launcher = "wait" /\ record = "dead"
  /\ launcher' = "done"
  /\ UNCHANGED <<known, rest>>

\* A second SIGINT or SIGTERM: its trap exits from within the EXIT trap, and
\* what is left of cleanup is not done.
InterruptAgain ==
  /\ launcher \in {"cleanup", "grace", "kill", "wait"}
  /\ launcher' = "cut"
  /\ missed' = IF launcher = "cleanup" THEN "cubesat.sh" ELSE missed
  /\ UNCHANGED <<known, shell, gimbal, video, camera>>

-----------------------------------------------------------------------------
(* record.sh *)

others == <<launcher, known, video, camera, missed>>

\* Its arguments are wrong, or the gimbal's port is missing.
RecordRefuses ==
  /\ record = "boot"
  /\ record' = "dead"
  /\ UNCHANGED <<trapped, gimbal_pid, loose, gimbal, others>>

SetTraps ==
  /\ record = "boot"
  /\ record' = "ready"
  /\ UNCHANGED <<trapped, gimbal_pid, loose, gimbal, others>>

StartGimbal ==
  /\ record = "ready"
  /\ record' = "forked" /\ gimbal' = "running"
  /\ UNCHANGED <<trapped, gimbal_pid, loose, others>>

AssignGimbal ==
  /\ record = "forked"
  /\ record' = "probe" /\ gimbal_pid' = TRUE
  /\ UNCHANGED <<trapped, loose, gimbal, others>>

\* After sleep 2: a gimbal that is gone is forgotten, and ends record.sh.
ProbeGimbal ==
  /\ record = "probe" /\ ~trapped
  /\ IF gimbal = "running" THEN record' = "begin" /\ UNCHANGED gimbal_pid
                           ELSE record' = "cleanup" /\ gimbal_pid' = FALSE
  /\ UNCHANGED <<trapped, loose, gimbal, others>>

\* A stop that comes after the shell's last look for one waits for the end of
\* the recording.
StartVideo ==
  /\ record = "begin"
  /\ record' = "video" /\ video' = "boot"
  /\ UNCHANGED <<launcher, known, trapped, gimbal_pid, loose, gimbal, camera, missed>>

\* The trap, when no foreground command is left, or the end of the recording.
RecordExits ==
  /\ \/ record \in {"ready", "forked", "probe"} /\ trapped
     \/ record = "video" /\ video = "dead"
  /\ record' = "cleanup"
  /\ UNCHANGED <<trapped, gimbal_pid, loose, gimbal, others>>

\* cleanup: stop the gimbal GIMBAL_PID names and wait for it.  (Mutant: leave
\* it.)
GimbalLeft == gimbal
GimbalStopped == IF gimbal = "running" /\ gimbal_pid THEN "dead" ELSE gimbal
RecordCleanup ==
  /\ record = "cleanup"
  /\ record' = "dead" /\ gimbal' = GimbalStopped
  /\ UNCHANGED <<trapped, gimbal_pid, loose, others>>

\* Somebody stops record.sh, and it alone, with a SIGTERM.
StopRecord ==
  /\ record \notin {"none", "dead"}
  /\ TermRecord("alone")
  /\ UNCHANGED <<gimbal, others>>

GimbalDies ==
  /\ gimbal = "running"
  /\ gimbal' = "dead"
  /\ UNCHANGED <<shell, others>>

-----------------------------------------------------------------------------
(* record_video and rpicam-vid *)

outer == <<launcher, known, shell, gimbal, missed>>

\* record_video.sh or record_video gives up: no build, no directory, no fork.
VideoFails ==
  /\ video \in {"boot", "armed"}
  /\ video' = "dead"
  /\ UNCHANGED <<camera, outer>>

Arm ==
  /\ video = "boot"
  /\ video' = "armed"
  /\ UNCHANGED <<camera, outer>>

Fork ==
  /\ video = "armed"
  /\ video' = "forked" /\ camera' = "child"
  /\ UNCHANGED outer

\* The parent has child_pid, and has moved the child to its own group.
Adopt ==
  /\ video = "forked"
  /\ video' = "waiting"
  /\ UNCHANGED <<camera, outer>>

\* waitpid returns, interrupted ones again.  (Mutant: an interrupted one too.)
ReapAnyway == video = "waiting"
CanReap == video = "waiting" /\ camera \in Ended
Reap ==
  /\ CanReap
  /\ video' = "reaped"
  /\ UNCHANGED <<camera, outer>>

VideoExits ==
  /\ video = "reaped"
  /\ video' = "dead"
  /\ UNCHANGED <<camera, outer>>

\* setpgid and execvp in the child.
Exec ==
  /\ camera = "child"
  /\ camera' \in {"exec", "gone"}
  /\ UNCHANGED <<video, outer>>

\* rpicam-vid installs its handler and begins the file, or finds no camera.
Begin ==
  /\ camera = "exec"
  /\ camera' \in {"recording", "gone"}
  /\ UNCHANGED <<video, outer>>

\* --timeout, never 0 here.  (Mutant: 0, which means no timeout.)
NoTimeout == FALSE
Timeout == camera = "recording"
TimeUp ==
  /\ Timeout
  /\ camera' = "finishing"
  /\ UNCHANGED <<video, outer>>

Finish ==
  /\ camera = "finishing"
  /\ camera' = "whole"
  /\ UNCHANGED <<video, outer>>

-----------------------------------------------------------------------------
Next ==
  \/ Launch \/ Assign \/ Probe \/ CloseScreen \/ Interrupt
  \/ Cleanup \/ GraceEnds \/ Kill \/ Wait \/ InterruptAgain
  \/ RecordRefuses \/ SetTraps \/ StartGimbal \/ AssignGimbal \/ ProbeGimbal
  \/ StartVideo \/ RecordExits \/ RecordCleanup
  \/ StopRecord \/ GimbalDies
  \/ VideoFails \/ Arm \/ Fork \/ Adopt \/ Reap \/ VideoExits
  \/ Exec \/ Begin \/ TimeUp \/ Finish

(***************************************************************************)
(* Fairness: each process is scheduled, and the camera's --timeout passes.  *)
(* Nobody has to close the screen, stop anything or let a step fail.        *)
(***************************************************************************)
Fairness ==
  /\ WF_vars(Launch \/ Assign \/ Probe)
  /\ WF_vars(Cleanup \/ GraceEnds \/ Kill \/ Wait)
  /\ WF_vars(RecordRefuses \/ SetTraps \/ StartGimbal \/ AssignGimbal \/ ProbeGimbal
            \/ StartVideo \/ RecordExits \/ RecordCleanup)
  /\ WF_vars(VideoFails \/ Arm \/ Fork \/ Adopt \/ Reap \/ VideoExits)
  /\ WF_vars(Exec \/ Begin \/ TimeUp \/ Finish)

Spec == Init /\ [][Next]_vars /\ Fairness

-----------------------------------------------------------------------------
TypeOK ==
  /\ launcher \in LauncherStates /\ known \in BOOLEAN
  /\ record \in RecordStates /\ trapped \in BOOLEAN /\ gimbal_pid \in BOOLEAN
  /\ loose \in {"no", "alone", "group"}
  /\ gimbal \in {"none", "running", "dead"}
  /\ video \in VideoStates /\ camera \in CameraStates
  /\ missed \in {"no", "cubesat.sh", "record.sh", "record_video"}
  \* a script ends after what it runs, unless both are killed
  /\ video \notin {"none", "dead"} => record = "video"
  /\ video = "reaped" => camera \in Ended

\* "SIGTERM leaves an unplayable file without a moov [...] so whatever says
\* stop, the camera is told SIGINT": however and whenever the mission is ended,
\* the grace period expired or not, no file the camera began is left broken.
NeverBroken == camera # "broken"

\* "gimbal_full [...] runs in a while(1) and handles no signal, so that ending
\* it is this script's job": however record.sh ends, it leaves no gimbal
\* running, unless it was stopped before GIMBAL_PID held one that was forked,
\* or a second time before its cleanup had stopped it.  Where the stop was the
\* launcher's own, the gimbal is gone with the KILL that follows, if no second
\* ^C keeps that from being sent.
GimbalAttended ==
  (gimbal = "running" /\ record = "dead") =>
    \/ loose = "alone"
    \/ loose = "group" /\ launcher \in {"grace", "kill", "cut"}

\* "Ending it is this script's job" (record.sh), without an exception.  This does
\* not hold: GimbalAttended has the exceptions.
GimbalEndsWithRecord == record = "dead" => gimbal # "running"

\* The recording survives the mission only when the stop fell into the moment
\* before record.sh forks record_video.sh or the one between record_video's
\* sigaction and rpicam-vid's exec, where the shell no longer looks for a
\* signal and stop_child has no process to signal or signals one that ignores
\* it, or when a second stop cut the cleanup short before its TERM.
Surviving ==
  launcher \in {"done", "cut"} /\ known /\ camera \in {"child", "exec", "recording"}
OrphanedOnlyUnheard == Surviving => missed # "no"

\* Once the mission is being ended it ends, and so does every recording.
Ends ==
  /\ launcher = "cleanup" ~> launcher \in {"done", "cut"}
  /\ camera = "child" ~> camera \in Ended

\* "signal the whole process group, or rpicam is left alone", "the stop is to
\* be passed on by this program only": after cubesat.sh has ended a recording
\* it knew of, and record_video was there to be told, no camera goes on.
NoCameraLeft ==
  (launcher = "done" /\ missed # "record.sh") => ~(Surviving /\ camera = "recording")
=============================================================================
