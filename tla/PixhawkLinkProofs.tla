-------------------------- MODULE PixhawkLinkProofs --------------------------
(***************************************************************************)
(* Proofs about PixhawkLink: types, that an autopilot within reach is asked *)
(* in time, and that what is reported is neither stale nor, as long as no   *)
(* frame is trimmed, a fix that is gone.                                    *)
(***************************************************************************)
EXTENDS PixhawkLink, TLAPS

(***************************************************************************)
(* The boots are bounded by the disturbances: an autopilot that is away     *)
(* will come back once without a further one.                              *)
(***************************************************************************)
Boots == boot <= events + 2 /\ (~usb => boot <= events + 1)

Telemetry == [peer : {0, Autopilot} \cup Foreign, attitude : 0..boot,
              gps_valid : BOOLEAN, zero : BOOLEAN]

\* What decode_frame makes of a frame the autopilot sends is a telemetry.
LEMMA DecodedType ==
  ASSUME TypeOK, NEW f \in Sent
  PROVE  Decoded(telemetry, f) \in Telemetry
<1> USE DEF TypeOK, Telemetry, Decoded
<1>1. CASE f \in Heartbeats
  BY <1>1 DEF Heartbeats
<1>2. CASE f \in Attitudes
  <2>1. f.msg = "ATTITUDE" /\ boot \in 0..boot
    BY <1>2 DEF Attitudes
  <2> QED BY <2>1
<1>3. CASE f \in GpsRaw
  <2>1. f.msg = "GPS_RAW_INT" /\ f.fix \in BOOLEAN /\ f.zero \in BOOLEAN
    BY <1>3 DEF GpsRaw
  <2>2. (f.fix /\ ~f.zero) \in BOOLEAN
    BY Zenon
  <2> QED BY <2>1, <2>2 DEF WithGps
<1>4. CASE f \in Positions
  <2>1. f.msg = "GLOBAL_POSITION_INT" /\ f.zero \in BOOLEAN
    BY <1>4 DEF Positions
  <2> QED BY <2>1
<1> QED BY <1>1, <1>2, <1>3, <1>4 DEF Sent

\* TypeOK without the telemetry, whose type the boots so far are part of.
Control ==
  /\ pc \in {"top", "poll", "announce"} /\ usb \in BOOLEAN
  /\ fd \in {"closed", "live", "hung"}
  /\ fd = "live" => usb
  /\ pc # "top" => fd # "closed"
  /\ heartbeat_age \in 0..HeartbeatEvery /\ request_age \in 0..RequestEvery
  /\ streams \subseteq Streams
  /\ boot \in 1..(MaxEvents + 2) /\ opened \in 0..boot
  /\ fix \in BOOLEAN /\ waiting \in Nat /\ events \in 0..MaxEvents

LEMMA TypeParts == TypeOK <=> Control /\ telemetry \in Telemetry
  BY DEF TypeOK, Control, Telemetry

LEMMA NoTelemetryType == boot \in Nat => NoTelemetry \in Telemetry
  BY DEF NoTelemetry, Telemetry

LEMMA TypeInit == Init => TypeOK /\ Boots
<1> SUFFICES ASSUME Init PROVE TypeOK /\ Boots
  OBVIOUS
<1>1. telemetry \in Telemetry
  BY NoTelemetryType DEF Init
<1>2. fix \in BOOLEAN
  BY Zenon DEF Init
<1>3. Control /\ Boots
  BY <1>2, LinkAssumption DEF Init, Control, Boots
<1> QED BY <1>1, <1>3, TypeParts

LEMMA ControlStep == Control /\ Boots /\ [Next]_vars => Control' /\ Boots'
<1> SUFFICES ASSUME Control, Boots, [Next]_vars PROVE Control' /\ Boots'
  OBVIOUS
<1> USE LinkAssumption DEF Control, Boots
<1>1. CASE Reconnect \/ ReconnectFails
  <2>1. fix' \in BOOLEAN
    BY <1>1, Zenon DEF Reconnect, ReconnectFails
  <2> QED BY <1>1, <2>1 DEF Reconnect, ReconnectFails, Elapse, Min2
<1>2. ASSUME NEW d \in 0..MaxPass, PollNothing(d) PROVE Control' /\ Boots'
  BY <1>2 DEF PollNothing, CanPoll, Elapse, Min2, WaitOn
<1>3. ASSUME NEW f \in Sent, Receive(f) PROVE Control' /\ Boots'
  <2>1. f.msg = "GPS_RAW_INT" => f.fix \in BOOLEAN
    BY DEF Sent, Heartbeats, Attitudes, GpsRaw, Positions
  <2>2. fix' \in BOOLEAN
    BY <1>3, <2>1 DEF Receive
  <2> QED BY <1>3, <2>2 DEF Receive, CanPoll, WaitOn
<1>4. CASE PollForeign
  BY <1>4 DEF PollForeign, CanPoll, WaitOn
<1>5. CASE PollFails \/ Skip
  BY <1>5 DEF PollFails, Skip, CanPoll, AfterReadError, Elapse, Min2
<1>6. ASSUME NEW ok \in BOOLEAN, NEW asked \in SUBSET Streams, Announce(ok, asked)
      PROVE  Control' /\ Boots'
  BY <1>6 DEF Announce
<1>7. CASE Unplug
  <2>1. usb' \in BOOLEAN
    BY <1>7, Zenon DEF Unplug
  <2> QED BY <1>7, <2>1 DEF Unplug, Event
<1>8. CASE Replug
  BY <1>8 DEF Replug
<1>9. CASE Reboot
  BY <1>9 DEF Reboot, Event
<1>10. CASE UNCHANGED vars
  BY <1>10 DEF vars
<1> QED BY <1>1, <1>2, <1>3, <1>4, <1>5, <1>6, <1>7, <1>8, <1>9, <1>10
        DEF Next, PollFrame

LEMMA TelemetryStep == TypeOK /\ [Next]_vars => telemetry' \in Telemetry'
<1> SUFFICES ASSUME TypeOK, [Next]_vars PROVE telemetry' \in Telemetry'
  OBVIOUS
<1>1. /\ boot \in Nat /\ (boot' = boot \/ boot' = boot + 1)
      /\ telemetry \in Telemetry
  BY LinkAssumption DEF TypeOK, Telemetry, Next, Reconnect, ReconnectFails, PollNothing, PollFrame,
         Receive, PollForeign, PollFails, Skip, Announce, Unplug, Replug, Reboot, vars
<1>2. Telemetry \subseteq Telemetry'
  BY <1>1 DEF Telemetry
<1>3. CASE Reconnect \/ ReconnectFails
  BY <1>1, <1>2, <1>3, NoTelemetryType DEF Reconnect, ReconnectFails, FreshTelemetry
<1>4. ASSUME NEW f \in Sent, Receive(f) PROVE telemetry' \in Telemetry'
  BY <1>2, <1>4, DecodedType DEF Receive
<1>5. CASE PollForeign
  <2>1. PICK s \in Foreign : telemetry' = [telemetry EXCEPT !.peer = s]
    BY <1>5 DEF PollForeign, Decoded
  <2>2. telemetry' \in Telemetry
    BY <1>1, <2>1 DEF Telemetry
  <2> QED BY <1>2, <2>2
<1>6. CASE telemetry' = telemetry
  BY <1>1, <1>2, <1>6
<1> QED BY <1>3, <1>4, <1>5, <1>6 DEF Next, PollFrame, PollNothing, PollFails, Skip,
        Announce, Unplug, Replug, Reboot, vars

LEMMA TypeStep == TypeOK /\ Boots /\ [Next]_vars => TypeOK' /\ Boots'
<1> SUFFICES ASSUME TypeOK, Boots, [Next]_vars PROVE TypeOK' /\ Boots'
  OBVIOUS
<1>1. Control' /\ Boots'
  BY TypeParts, ControlStep
<1>2. telemetry' \in Telemetry'
  BY TelemetryStep
<1>3. TypeOK' <=> Control' /\ telemetry' \in Telemetry'
  BY DEF TypeOK, Control, Telemetry
<1> QED BY <1>1, <1>2, <1>3

\* The connection, its timers and the telemetry have their types; no port is
\* live without a device, and the loop polls and announces only with a port.
THEOREM TypeCorrect == Spec => []TypeOK
<1> QED BY TypeInit, TypeStep, PTL DEF Spec

-----------------------------------------------------------------------------
(***************************************************************************)
(* The wait of an autopilot that could be asked.  While no request is due   *)
(* it is as old as the request timer at most.  From then on the heartbeat's *)
(* age is added, as the next heartbeat carries the request; a pass that     *)
(* makes either due may overshoot by its own length.                       *)
(***************************************************************************)
Waits ==
  /\ fd # "live" \/ pc = "poll" => waiting = 0
  /\ pc = "top" /\ fd = "live" => heartbeat_age < HeartbeatEvery
  /\ request_age < RequestEvery => waiting <= request_age
  /\ heartbeat_age < HeartbeatEvery => waiting <= RequestEvery + MaxPass + heartbeat_age
  /\ waiting <= RequestEvery + HeartbeatEvery + 2 * MaxPass

LEMMA WaitsInit == Init => Waits
  BY LinkAssumption DEF Init, Waits

LEMMA WaitsStep == TypeOK /\ Waits /\ [Next]_vars => Waits'
<1> SUFFICES ASSUME TypeOK, Waits, [Next]_vars PROVE Waits'
  OBVIOUS
<1> USE LinkAssumption DEF TypeOK, Waits
<1>1. CASE Reconnect \/ ReconnectFails
  BY <1>1 DEF Reconnect, ReconnectFails, Elapse, Min2
<1>2. ASSUME NEW d \in 0..MaxPass, PollNothing(d) PROVE Waits'
  <2>1. CASE fd = "live"
    <3>1. pc = "top" => heartbeat_age < HeartbeatEvery
      BY <2>1
    <3>2. waiting' = 0 \/ waiting' = waiting + d
      BY <1>2 DEF PollNothing, WaitOn
    <3> QED BY <1>2, <2>1, <3>1, <3>2 DEF PollNothing, CanPoll, Elapse, Min2
  <2>2. CASE fd # "live"
    <3>1. waiting' = 0
      BY <1>2, <2>2 DEF PollNothing, WaitOn, Unasked
    <3> QED BY <1>2, <2>2, <3>1 DEF PollNothing, Elapse, Min2
  <2> QED BY <2>1, <2>2
<1>3. ASSUME NEW f \in Sent, Receive(f) PROVE Waits'
  BY <1>3 DEF Receive, CanPoll, WaitOn
<1>4. CASE PollForeign
  BY <1>4 DEF PollForeign, CanPoll, WaitOn
<1>5. CASE PollFails \/ Skip
  BY <1>5 DEF PollFails, Skip, AfterReadError, Elapse, Min2
<1>6. ASSUME NEW ok \in BOOLEAN, NEW asked \in SUBSET Streams, Announce(ok, asked)
      PROVE  Waits'
  <2>1. CASE ok /\ RequestDue
    <3>1. asked = Streams
      BY <1>6, <2>1 DEF Announce
    <3>2. ~Unasked'
      BY <1>6, <3>1 DEF Announce, Unasked, Target
    <3> QED BY <1>6, <2>1, <3>2 DEF Announce
  <2>2. CASE ok /\ ~RequestDue
    BY <1>6, <2>2 DEF Announce, RequestDue
  <2>3. CASE ~ok
    BY <1>6, <2>3 DEF Announce
  <2> QED BY <2>1, <2>2, <2>3
<1>7. CASE Unplug \/ Replug \/ Reboot
  BY <1>7 DEF Unplug, Replug, Reboot, Event
<1>8. CASE UNCHANGED vars
  BY <1>8 DEF vars
<1> QED BY <1>1, <1>2, <1>3, <1>4, <1>5, <1>6, <1>7, <1>8 DEF Next, PollFrame

\* An autopilot within reach is asked for its streams within a request period,
\* a heartbeat period and two passes of the loop, whatever was unplugged,
\* rebooted or taken for a peer before.
THEOREM Asked == Spec => []AskedInTime
<1>1. Waits => AskedInTime
  BY DEF Waits, AskedInTime
<1> QED BY <1>1, WaitsInit, WaitsStep, TypeCorrect, PTL DEF Spec

-----------------------------------------------------------------------------
LEMMA StaleStep == TypeOK /\ NothingStale /\ [Next]_vars => NothingStale'
<1> SUFFICES ASSUME TypeOK, NothingStale, [Next]_vars PROVE NothingStale'
  OBVIOUS
<1> USE LinkAssumption DEF TypeOK, NothingStale
<1>1. CASE Reconnect
  BY <1>1 DEF Reconnect, FreshTelemetry, NoTelemetry
<1>2. CASE ReconnectFails \/ PollFails
  BY <1>2 DEF ReconnectFails, PollFails
<1>3. ASSUME NEW f \in Sent, Receive(f) PROVE NothingStale'
  <2>1. telemetry'.attitude \in {telemetry.attitude, boot}
    BY <1>3 DEF Receive, Decoded, WithGps
  <2> QED BY <1>3, <2>1 DEF Receive
<1>4. CASE PollForeign
  BY <1>4 DEF PollForeign, Decoded
<1>5. CASE UNCHANGED <<telemetry, opened>> /\ (fd' = "live" => fd = "live")
  BY <1>5
<1> QED BY <1>1, <1>2, <1>3, <1>4, <1>5 DEF Next, PollFrame, PollNothing, Skip,
        Announce, Unplug, Replug, Reboot, vars

\* A reopened connection reports no attitude from before it was opened.
THEOREM Fresh == Spec => []NothingStale
<1>1. Init => NothingStale
  BY DEF Init, NothingStale
<1> QED BY <1>1, StaleStep, TypeCorrect, PTL DEF Spec

LEMMA GpsStep == ~Trimmed /\ TypeOK /\ GpsHonest /\ [Next]_vars => GpsHonest'
<1> SUFFICES ASSUME ~Trimmed, TypeOK, GpsHonest, [Next]_vars PROVE GpsHonest'
  OBVIOUS
<1> USE DEF TypeOK, GpsHonest
<1>1. CASE Reconnect \/ ReconnectFails
  BY <1>1 DEF Reconnect, ReconnectFails, FreshTelemetry, NoTelemetry
<1>2. ASSUME NEW f \in Sent, Receive(f) PROVE GpsHonest'
  <2>1. CASE f.msg = "GPS_RAW_INT"
    BY <1>2, <2>1 DEF Receive, Decoded, LongEnough, WithGps
  <2>2. CASE f.msg # "GPS_RAW_INT"
    BY <1>2, <2>2 DEF Receive, Decoded
  <2> QED BY <2>1, <2>2
<1>3. CASE PollForeign
  BY <1>3 DEF PollForeign, Decoded
<1>4. CASE UNCHANGED <<telemetry, fix>>
  BY <1>4
<1> QED BY <1>1, <1>2, <1>3, <1>4 DEF Next, PollFrame, PollNothing, PollFails, Skip,
        Announce, Unplug, Replug, Reboot, vars

\* An autopilot that sends its frames in full never has a position reported
\* for it that its last GPS_RAW_INT does not bear out.
THEOREM GpsIsHonest == ~Trimmed => (Spec => []GpsHonest)
<1> SUFFICES ASSUME ~Trimmed PROVE Spec => []GpsHonest
  OBVIOUS
<1>1. Init => GpsHonest
  BY DEF Init, GpsHonest, NoTelemetry
<1>2. TypeOK /\ GpsHonest /\ [Next]_vars => GpsHonest'
  BY GpsStep
<1> QED BY <1>1, <1>2, TypeCorrect, PTL DEF Spec
=============================================================================
