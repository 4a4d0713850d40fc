---------------------------- MODULE MissionProofs ----------------------------
(***************************************************************************)
(* Proofs about Mission: types, that no recording file is left broken, that *)
(* the gimbal outlives record.sh only where that is stopped in a window, and *)
(* that a recording survives its mission only when the stop was not heard.  *)
(***************************************************************************)
EXTENDS Mission, TLAPS

(***************************************************************************)
(* TypeOK is inductive with the fact that record.sh does not exist before   *)
(* the launcher starts it, and does where the launcher knows it.            *)
(***************************************************************************)
Fresh ==
  /\ launcher = "start" => record = "none"
  /\ launcher = "forked" \/ known => record # "none"

LEMMA TypeInit == Init => TypeOK /\ Fresh
  BY DEF Init, TypeOK, Fresh, LauncherStates, RecordStates, VideoStates, CameraStates, Ended

\* What a stop leaves of record.sh is typed.
LEMMA TermTyped ==
  ASSUME TypeOK, NEW how \in {"alone", "group"}, TermRecord(how), record # "none"
  PROVE  /\ record' \in RecordStates /\ gimbal_pid' \in BOOLEAN /\ record' # "none"
         /\ loose' \in {"no", "alone", "group"} /\ trapped' \in BOOLEAN
<1>1. trapped' \in BOOLEAN
  BY Zenon DEF TermRecord
<1>2. /\ record' \in RecordStates /\ record' # "none" /\ gimbal_pid' \in BOOLEAN
      /\ loose' \in {"no", "alone", "group"}
  BY DEF TermRecord, TypeOK, RecordStates
<1> QED BY <1>1, <1>2

LEMMA TypeStep == TypeOK /\ Fresh /\ [Next]_vars => TypeOK' /\ Fresh'
<1> SUFFICES ASSUME TypeOK, Fresh, [Next]_vars PROVE TypeOK' /\ Fresh'
  OBVIOUS
<1> USE DEF TypeOK, Fresh, LauncherStates, RecordStates, VideoStates, CameraStates, Ended
<1>1. CASE Launch \/ Assign \/ Probe \/ CloseScreen \/ Interrupt \/ GraceEnds \/ Wait
  <2>1. CASE Launch
    BY <2>1 DEF Launch
  <2>2. CASE Assign
    BY <2>2 DEF Assign, rest, shell
  <2>3. CASE Probe
    <3>1. /\ record' = record /\ trapped' = trapped /\ gimbal' = gimbal
          /\ gimbal_pid' = gimbal_pid /\ loose' = loose
          /\ video' = video /\ camera' = camera /\ missed' = missed
      BY <2>3 DEF Probe, rest, shell
    <3>2. launcher' \in {"screen", "cleanup"} /\ known' \in BOOLEAN
      BY <2>3 DEF Probe
    <3>3. known' => known
      BY <2>3, Zenon DEF Probe
    <3>4. Fresh'
      BY <3>1, <3>2, <3>3
    <3>5. TypeOK'
      BY <3>1, <3>2
    <3> QED BY <3>4, <3>5
  <2>4. CASE CloseScreen
    BY <2>4 DEF CloseScreen, rest, shell
  <2>5. CASE Interrupt
    BY <2>5 DEF Interrupt, rest, shell
  <2>6. CASE GraceEnds
    BY <2>6 DEF GraceEnds, rest, shell
  <2>7. CASE Wait
    BY <2>7 DEF Wait, rest, shell
  <2> QED BY <1>1, <2>1, <2>2, <2>3, <2>4, <2>5, <2>6, <2>7
<1>2. CASE InterruptAgain
  BY <1>2 DEF InterruptAgain, shell
<1>3. CASE Cleanup
  <2>1. CASE UNCHANGED rest
    BY <1>3, <2>1 DEF Cleanup, rest, shell
  <2>2. CASE launcher' = "grace" /\ TermGroup
    <3>1. missed' \in {"no", "cubesat.sh", "record.sh", "record_video"}
      BY <2>2 DEF TermGroup
    <3>0. record # "none" /\ TermRecord("group")
      <4>1. CASE known
        BY <2>2, <4>1 DEF TermGroup
      <4>2. CASE ~known
        BY <1>3, <2>2, <4>2 DEF Cleanup
      <4> QED BY <4>1, <4>2
    <3>2. /\ record' \in RecordStates /\ gimbal_pid' \in BOOLEAN /\ record' # "none"
          /\ loose' \in {"no", "alone", "group"} /\ trapped' \in BOOLEAN
      BY <3>0, TermTyped
    <3>3. /\ video' \in VideoStates
          /\ video' \notin {"none", "dead"} => record' = "video"
      BY <2>2 DEF TermGroup, TermRecord, TermVideo
    <3>4. /\ camera' \in CameraStates
          /\ video' = "reaped" => camera' \in Ended
      BY <2>2 DEF TermGroup, TermVideo, InGroup, Stopped, Converted, Interrupted
    <3>5. gimbal' \in {"none", "running", "dead"}
      BY <2>2 DEF TermGroup
    <3> QED BY <1>3, <2>2, <3>1, <3>2, <3>3, <3>4, <3>5 DEF Cleanup
  <2> QED BY <1>3, <2>1, <2>2 DEF Cleanup
<1>4. CASE Kill
  BY <1>4 DEF Kill, KillGroup, InGroup, Killed
<1>5. CASE RecordRefuses \/ SetTraps \/ StartGimbal \/ AssignGimbal \/ ProbeGimbal
           \/ StartVideo \/ RecordExits \/ RecordCleanup \/ GimbalDies
  <2>1. CASE RecordRefuses \/ SetTraps \/ StartGimbal \/ AssignGimbal
    BY <2>1 DEF RecordRefuses, SetTraps, StartGimbal, AssignGimbal, others
  <2>2. CASE ProbeGimbal \/ StartVideo \/ RecordExits
    BY <2>2 DEF ProbeGimbal, StartVideo, RecordExits, others
  <2>3. CASE RecordCleanup \/ GimbalDies
    BY <2>3 DEF RecordCleanup, GimbalDies, GimbalStopped, shell, others
  <2> QED BY <1>5, <2>1, <2>2, <2>3
<1>6. CASE StopRecord
  <2>1. UNCHANGED <<launcher, known, gimbal, video, camera, missed>>
        /\ record # "none" /\ TermRecord("alone")
    BY <1>6 DEF StopRecord, others
  <2>2. /\ record' \in RecordStates /\ gimbal_pid' \in BOOLEAN /\ record' # "none"
        /\ loose' \in {"no", "alone", "group"} /\ trapped' \in BOOLEAN
    BY <2>1, TermTyped
  <2>3. video' \notin {"none", "dead"} => record' = "video"
    BY <2>1 DEF TermRecord
  <2> QED BY <2>1, <2>2, <2>3
<1>7. CASE VideoFails \/ Arm \/ Fork \/ Adopt \/ Reap \/ VideoExits
  BY <1>7 DEF VideoFails, Arm, Fork, Adopt, Reap, VideoExits, CanReap, outer, shell
<1>8. CASE Exec \/ Begin \/ TimeUp \/ Finish
  BY <1>8 DEF Exec, Begin, TimeUp, Finish, Timeout, outer, shell
<1>9. CASE UNCHANGED vars
  BY <1>9 DEF vars, shell
<1> QED BY <1>1, <1>2, <1>3, <1>4, <1>5, <1>6, <1>7, <1>8, <1>9 DEF Next

\* Every state of a mission has its type, and record_video is never left by a
\* record.sh that ended on its own: script and camera are stopped together.
THEOREM TypeCorrect == Spec => []TypeOK
<1> QED BY TypeInit, TypeStep, PTL DEF Spec

\* The launcher starts one record.sh.
LEMMA FreshAlways == Spec => []Fresh
<1> QED BY TypeInit, TypeStep, PTL DEF Spec

-----------------------------------------------------------------------------
LEMMA BrokenStep == NeverBroken /\ [Next]_vars => NeverBroken'
<1> SUFFICES ASSUME NeverBroken, [Next]_vars PROVE NeverBroken'
  OBVIOUS
<1> USE DEF NeverBroken
<1>1. CASE Cleanup
  BY <1>1 DEF Cleanup, rest, TermGroup, InGroup, Converted, Interrupted
<1>2. CASE Kill
  BY <1>2 DEF Kill, KillGroup, InGroup, Killed
<1>3. CASE Exec \/ Begin \/ TimeUp \/ Finish \/ Fork
  BY <1>3 DEF Exec, Begin, TimeUp, Finish, Fork
<1>4. CASE UNCHANGED camera
  BY <1>4
<1> QED BY <1>1, <1>2, <1>3, <1>4 DEF Next, Launch, Assign, Probe, CloseScreen,
        Interrupt, GraceEnds, Wait, InterruptAgain, RecordRefuses, SetTraps, StartGimbal,
        AssignGimbal, ProbeGimbal, StartVideo, RecordExits, RecordCleanup, StopRecord,
        GimbalDies, VideoFails, Arm, Adopt, Reap, VideoExits, rest, others, outer, vars

\* However a mission is ended, the camera is never killed while it writes: it
\* has left the group that is signalled before it begins its file.
THEOREM FileWhole == Spec => []NeverBroken
<1>1. Init => NeverBroken
  BY DEF Init, NeverBroken
<1> QED BY <1>1, BrokenStep, PTL DEF Spec

(***************************************************************************)
(* GimbalAttended is strengthened by where GIMBAL_PID is held, by why it may *)
(* not be although a gimbal runs, and by the launcher's one TERM having come *)
(* from its cleanup.                                                        *)
(***************************************************************************)
Unheld == \/ loose = "alone"
          \/ loose = "group" /\ launcher \in {"grace", "kill", "cut"}

GimbalInv ==
  /\ GimbalAttended
  /\ record \in {"none", "boot"} => ~trapped
  /\ record \in {"none", "boot", "ready"} => gimbal # "running"
  /\ record \in {"probe", "begin", "video"} => gimbal_pid
  /\ (record \in {"ready", "forked"} /\ trapped) => Unheld
  /\ (record = "cleanup" /\ gimbal = "running" /\ ~gimbal_pid) => Unheld
  /\ launcher \in {"start", "forked", "probe", "screen", "cleanup"} => loose # "group"

LEMMA GimbalStep == TypeOK /\ Fresh /\ GimbalInv /\ [Next]_vars => GimbalInv'
<1> SUFFICES ASSUME TypeOK, Fresh, GimbalInv, [Next]_vars PROVE GimbalInv'
  OBVIOUS
<1> USE DEF GimbalInv, GimbalAttended, Unheld
<1>1. CASE Launch
  BY <1>1 DEF Launch, Fresh
<1>2. CASE Assign \/ Probe \/ CloseScreen \/ Interrupt \/ GraceEnds \/ Wait
  BY <1>2 DEF Assign, Probe, CloseScreen, Interrupt, GraceEnds, Wait, rest, shell
<1>3. CASE InterruptAgain
  BY <1>3 DEF InterruptAgain, shell
<1>4. CASE Cleanup
  <2>1. CASE UNCHANGED rest
    BY <1>4, <2>1 DEF Cleanup, rest, shell, TermGroup
  <2>2. CASE known /\ launcher' = "grace" /\ TermGroup
    <3>1. TermRecord("group") /\ gimbal' # "running"
      BY <2>2 DEF TermGroup
    <3>2. record' \notin {"none", "boot"}
      BY <1>4, <2>2, <3>1 DEF TermRecord, Cleanup, TermGroup, Fresh
    <3>3. record' \in {"probe", "begin", "video"} => gimbal_pid'
      BY <3>1 DEF TermRecord
    <3>4. record' \in {"ready", "forked"} /\ trapped' => loose' = "group"
      BY <3>1 DEF TermRecord
    <3> QED BY <2>2, <3>1, <3>2, <3>3, <3>4
  <2> QED BY <1>4, <2>1, <2>2 DEF Cleanup
<1>5. CASE Kill
  BY <1>5 DEF Kill, KillGroup
<1>6. CASE RecordRefuses \/ SetTraps \/ StartGimbal \/ AssignGimbal
  BY <1>6 DEF RecordRefuses, SetTraps, StartGimbal, AssignGimbal, others
<1>7. CASE ProbeGimbal \/ StartVideo \/ RecordExits
  BY <1>7 DEF ProbeGimbal, StartVideo, RecordExits, others
<1>8. CASE RecordCleanup \/ GimbalDies
  BY <1>8 DEF RecordCleanup, GimbalDies, GimbalStopped, shell, others, TypeOK
<1>9. CASE StopRecord
  <2>1. /\ TermRecord("alone") /\ record \notin {"none", "dead"}
        /\ UNCHANGED <<launcher, gimbal>>
    BY <1>9 DEF StopRecord, others
  <2>2. loose' = "alone" \/ loose' = loose
    BY <2>1 DEF TermRecord
  <2>3. /\ record' = record \/ record = "boot" \/ (record' = "dead" /\ loose' = "alone")
        /\ record' \in {"none", "boot"} => ~trapped'
        /\ record = "boot" => record' = "dead"
        /\ gimbal_pid' = gimbal_pid
        /\ record \in {"ready", "forked"} => loose' = "alone"
    BY <2>1 DEF TermRecord
  <2> QED BY <2>1, <2>2, <2>3
<1>10. CASE UNCHANGED <<launcher, shell, gimbal>>
  BY <1>10 DEF shell
<1> QED BY <1>1, <1>2, <1>3, <1>4, <1>5, <1>6, <1>7, <1>8, <1>9, <1>10
    DEF Next, VideoFails, Arm, Fork, Adopt, Reap, VideoExits, Exec, Begin, TimeUp,
        Finish, outer, vars

\* A gimbal outlives record.sh only where that was stopped between the fork and
\* GIMBAL_PID=$!, or again within its cleanup; and then only until the
\* launcher's KILL, unless record.sh was stopped on its own or a second stop
\* kept the launcher from it.
THEOREM GimbalStops == Spec => []GimbalAttended
<1>1. Init => GimbalInv
  BY DEF Init, GimbalInv, GimbalAttended, Unheld
<1>2. GimbalInv => GimbalAttended
  BY DEF GimbalInv
<1> QED BY <1>1, <1>2, GimbalStep, TypeCorrect, FreshAlways, PTL DEF Spec

-----------------------------------------------------------------------------
(***************************************************************************)
(* Before the launcher signals, the four processes below it follow each     *)
(* other in order.  After its TERM, unless that was missed, none of them    *)
(* will begin a recording any more, and none is under way.                  *)
(***************************************************************************)
Before == launcher \in {"start", "forked", "probe", "screen", "cleanup"}

Orderly ==
  /\ launcher = "start" => record = "none"
  /\ launcher \in {"start", "forked"} => ~known
  /\ record \in {"none", "boot", "ready", "forked", "probe", "begin"} => video = "none"
  /\ record = "dead" => video \in {"none", "dead"}
  /\ video \in {"none", "boot", "armed"} => camera = "none"
  /\ video \in {"reaped", "dead"} => camera \in Ended \cup {"none"}

Quiet ==
  /\ record \notin {"boot", "begin"} /\ (record \in {"ready", "forked", "probe"} => trapped)
  /\ video \notin {"boot", "armed", "forked"}
  /\ camera \notin {"child", "exec", "recording"}

EndInv ==
  /\ Before => Orderly
  /\ (~Before /\ known /\ missed = "no") => Quiet

LEMMA EndInit == Init => EndInv
  BY DEF Init, EndInv, Before, Orderly, Ended

LEMMA EndStep == TypeOK /\ EndInv /\ [Next]_vars => EndInv'
<1> SUFFICES ASSUME TypeOK, EndInv, [Next]_vars PROVE EndInv'
  OBVIOUS
<1> USE DEF EndInv, Before, Orderly, Quiet, TypeOK, Ended
<1>1. CASE Launch \/ Assign \/ Probe \/ CloseScreen \/ Interrupt
  BY <1>1 DEF Launch, Assign, Probe, CloseScreen, Interrupt, rest, shell
<1>2. CASE Cleanup
  <2>1. CASE ~known \/ record = "dead"
    BY <1>2, <2>1 DEF Cleanup, rest, shell
  <2>2. CASE known /\ record # "dead"
    <3>1. /\ TermGroup /\ Orderly /\ known' = known
          /\ launcher' = "grace"
      BY <1>2, <2>2 DEF Cleanup
    <3>2. missed' = "no" =>
            /\ record' \notin {"boot", "begin"}
            /\ record' \in {"ready", "forked", "probe"} => trapped'
      BY <3>1 DEF TermGroup, TermRecord
    <3>3. missed' = "no" => video \notin {"armed", "forked"} /\ ~(video = "waiting" /\ camera = "child")
      BY <3>1 DEF TermGroup, Stopped
    <3>4. missed' = "no" => video' \notin {"boot", "armed", "forked"}
      BY <3>1, <3>3 DEF TermGroup, TermVideo
    <3>5. missed' = "no" => camera' \notin {"child", "exec", "recording"}
      <4>1. CASE video = "waiting"
        BY <3>1, <3>3, <4>1 DEF TermGroup, InGroup, Stopped, Converted, Interrupted
      <4>2. CASE video # "waiting"
        BY <3>1, <3>3, <4>2 DEF TermGroup, InGroup, Stopped, VideoStates
      <4> QED BY <4>1, <4>2
    <3> QED BY <3>1, <3>2, <3>4, <3>5
  <2> QED BY <2>1, <2>2
<1>3. CASE Kill
  BY <1>3 DEF Kill, KillGroup, InGroup
<1>4. CASE GraceEnds \/ Wait \/ InterruptAgain
  BY <1>4 DEF GraceEnds, Wait, InterruptAgain, rest, shell
<1>5. CASE RecordRefuses \/ SetTraps \/ StartGimbal \/ AssignGimbal \/ ProbeGimbal
           \/ StartVideo \/ RecordExits \/ RecordCleanup \/ GimbalDies
  BY <1>5 DEF RecordRefuses, SetTraps, StartGimbal, AssignGimbal, ProbeGimbal, StartVideo,
              RecordExits, RecordCleanup, GimbalDies, shell, others
<1>6. CASE VideoFails \/ Arm \/ Fork \/ Adopt \/ Reap \/ VideoExits
  BY <1>6 DEF VideoFails, Arm, Fork, Adopt, Reap, VideoExits, CanReap, outer, shell
<1>7. CASE Exec \/ Begin \/ TimeUp \/ Finish
  BY <1>7 DEF Exec, Begin, TimeUp, Finish, Timeout, outer, shell
<1>8. CASE UNCHANGED vars
  BY <1>8 DEF vars, shell
<1>9. CASE StopRecord
  <2>1. /\ TermRecord("alone") /\ record \notin {"none", "dead"}
        /\ UNCHANGED <<launcher, known, video, camera, missed>>
    BY <1>9 DEF StopRecord, others
  <2>2. /\ record' = record \/ (record \in {"boot", "cleanup"} /\ record' = "dead")
        /\ trapped => trapped'
    BY <2>1 DEF TermRecord
  <2> QED BY <2>1, <2>2
<1> QED BY <1>1, <1>2, <1>3, <1>4, <1>5, <1>6, <1>7, <1>8, <1>9 DEF Next

\* A recording that outlives the mission that started it was not reached by
\* the stop: none is left by the order in which processes end.
THEOREM HeardStopsEnd == Spec => []OrphanedOnlyUnheard
<1>1. TypeOK /\ EndInv => OrphanedOnlyUnheard
  BY DEF EndInv, Before, Quiet, OrphanedOnlyUnheard, Surviving
<1> QED BY <1>1, EndInit, EndStep, TypeCorrect, PTL DEF Spec
=============================================================================
