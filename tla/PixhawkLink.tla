----------------------------- MODULE PixhawkLink -----------------------------
(***************************************************************************)
(* The sender's side of the serial link to the Pixhawk: the connection that *)
(* gcs/gcs.c opens, reads, announces itself on and reopens, the telemetry   *)
(* that gcs/data.c and gcs/MAVLink.c keep of what was read, and the         *)
(* autopilot at the other end, which sends only HEARTBEAT until it is asked *)
(* for its streams and forgets the request when it reboots.                 *)
(*                                                                         *)
(* Time is kept as the ages of the two announce timers, in ticks; an age    *)
(* stops at its limit.  A frame is its message and what decode_frame tells  *)
(* apart in it; bytes and checksums are in MavlinkParser, the send timers   *)
(* in GcsLoop.                                                             *)
(***************************************************************************)
EXTENDS Integers, FiniteSets

CONSTANTS
  HeartbeatEvery,  \* 1000 ms, in ticks
  RequestEvery,    \* 5000 ms
  MaxPass,         \* bound: ticks one poll() or one announce may take
  Autopilot,       \* the autopilot's system id
  Foreign,         \* other systems whose HEARTBEATs the autopilot forwards
  HangupReads,     \* what read() does on a hung-up port: "eof", "error"
  Trimmed,         \* does the autopilot send MAVLink 2 (trailing zeros cut off)
  MaxEvents        \* bound: cables pulled, reboots, foreign heartbeats

ASSUME LinkAssumption ==
  /\ HeartbeatEvery \in Nat \ {0} /\ RequestEvery \in Nat \ {0}
  /\ MaxPass \in Nat \ {0} /\ MaxEvents \in Nat
  /\ Autopilot \in 1..255 /\ Foreign \subseteq 1..255 /\ Autopilot \notin Foreign
  /\ HangupReads \subseteq {"eof", "error"} /\ HangupReads # {}
  /\ Trimmed \in BOOLEAN

VARIABLES
  pc,             \* "top", "poll" or "announce"
  usb,            \* is the Pixhawk there
  fd,             \* reader.connection.fd: closed, live or hung up
  heartbeat_age,  \* now - last_heartbeat, at most HeartbeatEvery
  request_age,    \* now - last_stream_request, at most RequestEvery
  telemetry,      \* reader.telemetry
  streams,        \* the streams the autopilot has been asked for
  boot,           \* how often the autopilot started or came back (history)
  opened,         \* boot when the port was opened (history)
  fix,            \* does the last GPS_RAW_INT received report a fix (history)
  waiting,        \* ticks a reachable autopilot has not been asked (history)
  events          \* environment steps so far

vars == <<pc, usb, fd, heartbeat_age, request_age, telemetry, streams, boot,
          opened, fix, waiting, events>>

\* STREAM_EXTRA1, STREAM_POSITION, STREAM_EXTENDED_STATUS
Streams == {"ATTITUDE", "GLOBAL_POSITION_INT", "GPS_RAW_INT"}

\* Telemetry: the sysid learned (0: none), the boot the attitude is from
\* (0: not valid), gps_valid, and whether latitude or longitude is zero.
NoTelemetry == [peer |-> 0, attitude |-> 0, gps_valid |-> FALSE, zero |-> TRUE]

Min2(a, b) == IF a <= b THEN a ELSE b

-----------------------------------------------------------------------------
(* Frames *)

Heartbeats == [msg : {"HEARTBEAT"}, sys : {Autopilot}]
Attitudes == [msg : {"ATTITUDE"}]
\* A GPS_RAW_INT that reports a fix has a position and satellites; without a
\* fix both may be missing, or left from before.
GpsRaw == {g \in [msg : {"GPS_RAW_INT"}, fix : BOOLEAN, zero : BOOLEAN, sats : BOOLEAN] :
             g.fix => ~g.zero /\ g.sats}
\* A GLOBAL_POSITION_INT whose heading is below 2.56 degrees ends in a zero.
Positions == [msg : {"GLOBAL_POSITION_INT"}, zero : BOOLEAN, north : BOOLEAN]

\* What the autopilot may send now.
Sent == Heartbeats \cup
        {f \in Attitudes \cup GpsRaw \cup Positions : f.msg \in streams}

\* decode_frame's payload_len checks.  MAVLink 2 cuts off what follows the
\* last nonzero byte; the last byte required is satellites_visible in one
\* message (with only unused extension fields behind it) and the high byte of
\* hdg in the other.
LongEnough(f) ==
  Trimmed => CASE f.msg = "GPS_RAW_INT" -> f.sats
               [] f.msg = "GLOBAL_POSITION_INT" -> ~f.north
               [] OTHER -> TRUE

\* decode_frame.  GLOBAL_POSITION_INT moves the position, not gps_valid.
\* (Mutant: a GPS_RAW_INT can only set gps_valid.)
LatchedFix(t, f) == [t EXCEPT !.gps_valid = @ \/ (f.fix /\ ~f.zero), !.zero = f.zero]
WithGps(t, f) == [t EXCEPT !.gps_valid = f.fix /\ ~f.zero, !.zero = f.zero]
Decoded(t, f) ==
  CASE f.msg = "HEARTBEAT" -> [t EXCEPT !.peer = f.sys]
    [] f.msg = "ATTITUDE" -> [t EXCEPT !.attitude = boot]
    [] f.msg = "GPS_RAW_INT" /\ LongEnough(f) -> WithGps(t, f)
    [] f.msg = "GLOBAL_POSITION_INT" /\ LongEnough(f) -> [t EXCEPT !.zero = f.zero]
    [] OTHER -> t

\* mavlink_request_streams: the system a request goes to.  (Mutant: the
\* default one, whatever was learned.)
DefaultTarget == 1
Target == IF telemetry.peer # 0 THEN telemetry.peer ELSE 1

-----------------------------------------------------------------------------
\* The autopilot is there, listens to the target and lacks a stream.
Unasked ==
  fd = "live" /\ usb /\ Target = Autopilot /\ streams # Streams

\* d ticks pass.
Elapse(d) ==
  /\ heartbeat_age' = Min2(heartbeat_age + d, HeartbeatEvery)
  /\ request_age' = Min2(request_age + d, RequestEvery)

WaitOn(d) == waiting' = IF Unasked' /\ Unasked THEN waiting + d ELSE 0

Init ==
  /\ pc = "top"
  /\ usb \in BOOLEAN
  /\ fd = "closed"
  /\ heartbeat_age = HeartbeatEvery /\ request_age = RequestEvery
  /\ telemetry = NoTelemetry
  /\ streams = {}
  /\ boot = 1 /\ opened = 0
  /\ fix = FALSE
  /\ waiting = 0
  /\ events = 0

\* The telemetry after data_reader_open: memset.  (Mutant: kept.)
KeptTelemetry == telemetry
FreshTelemetry == NoTelemetry

\* data_reader_open succeeds; heartbeat and request are due at once.
Reconnect ==
  /\ pc = "top" /\ fd = "closed" /\ usb
  /\ fd' = "live"
  /\ telemetry' = FreshTelemetry
  /\ opened' = boot
  /\ fix' = FALSE
  /\ heartbeat_age' = HeartbeatEvery /\ request_age' = RequestEvery
  /\ waiting' = 0
  /\ pc' = "poll"
  /\ UNCHANGED <<usb, streams, boot, events>>

\* data_reader_open fails, of a missing device or otherwise: sleep, again.
\* open() or tcgetattr() left the reader's telemetry cleared.
ReconnectFails ==
  /\ pc = "top" /\ fd = "closed"
  /\ telemetry' = FreshTelemetry
  /\ fix' = FALSE
  /\ Elapse(2 * HeartbeatEvery)
  /\ waiting' = 0
  /\ UNCHANGED <<pc, usb, fd, streams, boot, opened, events>>

CanPoll == pc = "poll" \/ (pc = "top" /\ fd # "closed")

\* data_reader_poll: the port is silent, or hung up and read() returns 0.
PollNothing(d) ==
  /\ CanPoll
  /\ fd = "hung" => "eof" \in HangupReads
  /\ Elapse(d)
  /\ pc' = "announce"
  /\ UNCHANGED <<usb, fd, telemetry, streams, boot, opened, fix, events>>
  /\ WaitOn(d)

\* data_reader_poll decodes a frame.
Receive(f) ==
  /\ CanPoll /\ fd = "live"
  /\ telemetry' = Decoded(telemetry, f)
  /\ fix' = IF f.msg = "GPS_RAW_INT" THEN f.fix ELSE fix
  /\ pc' = "announce"
  /\ UNCHANGED <<usb, fd, heartbeat_age, request_age, streams, boot, opened, events>>
  /\ WaitOn(0)

PollFrame == \E f \in Sent : Receive(f)

\* A HEARTBEAT of another system: it, too, becomes the peer.
PollForeign ==
  /\ events < MaxEvents /\ events' = events + 1
  /\ CanPoll /\ fd = "live"
  /\ \E s \in Foreign :
       telemetry' = Decoded(telemetry, [msg |-> "HEARTBEAT", sys |-> s])
  /\ pc' = "announce"
  /\ UNCHANGED <<usb, fd, heartbeat_age, request_age, streams, boot, opened, fix>>
  /\ WaitOn(0)

\* read() fails on the hung-up port: close it, sleep, start the loop again.
\* (Mutant: fall through, as without the continue.)
FallThrough == "announce"
AfterReadError == "top"
PollFails ==
  /\ CanPoll
  /\ fd = "hung" /\ "error" \in HangupReads
  /\ fd' = "closed"
  /\ Elapse(HeartbeatEvery)
  /\ waiting' = 0
  /\ pc' = AfterReadError
  /\ UNCHANGED <<usb, telemetry, streams, boot, opened, fix, events>>

\* No heartbeat is due.
Skip ==
  /\ pc = "announce" /\ heartbeat_age < HeartbeatEvery
  /\ pc' = "top"
  /\ UNCHANGED <<usb, fd, heartbeat_age, request_age, telemetry, streams, boot,
                 opened, fix, waiting, events>>

\* Is the request renewed with this heartbeat?  (Mutant: only ever once.)
OnlyOnce == telemetry.attitude = 0
RequestDue == request_age >= RequestEvery

\* The announce block with a heartbeat due.  Each of the four writes may
\* fail, all do on a hung-up port; the request timer moves on only if none
\* did, the heartbeat timer in any case.  The autopilot obeys the requests
\* that reach it and name it.
Announce(ok, asked) ==
  /\ pc = "announce" /\ heartbeat_age >= HeartbeatEvery
  /\ ok => asked = (IF RequestDue THEN Streams ELSE {})
  /\ asked # {} => RequestDue
  /\ (ok \/ asked # {}) => fd = "live"
  /\ heartbeat_age' = 0
  /\ request_age' = IF ok /\ RequestDue THEN 0 ELSE request_age
  /\ streams' = IF Target = Autopilot THEN streams \cup asked ELSE streams
  /\ pc' = "top"
  /\ UNCHANGED <<usb, fd, telemetry, boot, opened, fix, events>>
  /\ waiting' = IF ok /\ Unasked' THEN waiting ELSE 0

-----------------------------------------------------------------------------
Event == events < MaxEvents /\ events' = events + 1

\* The cable is pulled, or the autopilot reboots behind its own USB port: an
\* open port hangs up.  The streams may survive.
Unplug ==
  /\ Event
  /\ usb
  /\ usb' = FALSE
  /\ fd' = IF fd = "live" THEN "hung" ELSE fd
  /\ streams' \in {streams, {}}
  /\ waiting' = 0
  /\ UNCHANGED <<pc, heartbeat_age, request_age, telemetry, boot, opened, fix>>

\* The device is back.  A port opened before stays hung up.
Replug ==
  /\ ~usb
  /\ usb' = TRUE
  /\ boot' = boot + 1
  /\ UNCHANGED <<pc, fd, heartbeat_age, request_age, telemetry, streams, opened,
                 fix, waiting, events>>

\* The autopilot reboots behind a UART: the port does not notice.
Reboot ==
  /\ Event
  /\ usb
  /\ streams' = {}
  /\ boot' = boot + 1
  /\ waiting' = 0
  /\ UNCHANGED <<pc, usb, fd, heartbeat_age, request_age, telemetry, opened, fix>>

Next ==
  \/ Reconnect \/ ReconnectFails
  \/ \E d \in 0..MaxPass : PollNothing(d)
  \/ PollFrame \/ PollForeign \/ PollFails
  \/ Skip
  \/ \E ok \in BOOLEAN, asked \in SUBSET Streams : Announce(ok, asked)
  \/ Unplug \/ Replug \/ Reboot

(***************************************************************************)
(* Fairness.  The loop never stops by itself and every step of it ends:     *)
(* poll() has a timeout, the writes give up.  Time passes.  A port that is  *)
(* there can be opened, written to sooner or later, and each kind of frame  *)
(* the autopilot keeps sending gets through now and then.                   *)
(***************************************************************************)
Fairness ==
  /\ WF_vars(Reconnect) /\ WF_vars(PollFails) /\ WF_vars(Skip)
  /\ WF_vars(\E d \in 0..MaxPass : PollNothing(d))
  /\ WF_vars(\E ok \in BOOLEAN, asked \in SUBSET Streams : Announce(ok, asked))
  /\ SF_vars(PollNothing(1))
  /\ SF_vars(\E asked \in SUBSET Streams : Announce(TRUE, asked))
  /\ \A f \in Heartbeats \cup Attitudes : SF_vars(f \in Sent /\ Receive(f))

Spec == Init /\ [][Next]_vars /\ Fairness

-----------------------------------------------------------------------------
TypeOK ==
  /\ pc \in {"top", "poll", "announce"} /\ usb \in BOOLEAN
  /\ fd \in {"closed", "live", "hung"}
  /\ fd = "live" => usb
  /\ pc # "top" => fd # "closed"
  /\ heartbeat_age \in 0..HeartbeatEvery /\ request_age \in 0..RequestEvery
  /\ telemetry \in [peer : {0, Autopilot} \cup Foreign, attitude : 0..boot,
                    gps_valid : BOOLEAN, zero : BOOLEAN]
  /\ streams \subseteq Streams
  /\ boot \in 1..(MaxEvents + 2) /\ opened \in 0..boot
  /\ fix \in BOOLEAN /\ waiting \in Nat /\ events \in 0..MaxEvents

\* "so an autopilot reboot or a re-plugged USB recovers without anyone
\* touching the aircraft": once the cable stays in and the disturbances end,
\* the attitude in hand is one the running autopilot sent, for good.
Recovers == <>[]usb => <>[](telemetry.attitude = boot)

\* "Announce ourselves every second and renew the stream request every five":
\* an autopilot that can be reached, and whose writes succeed, never goes
\* unasked for longer than a request period and the heartbeat it rides on.
AskedInTime ==
  waiting <= RequestEvery + HeartbeatEvery + 2 * MaxPass

\* data_reader_open starts from nothing: once the port is reopened, no value
\* read before the cable was pulled is taken for a current one, whether the
\* open succeeded at once or after any number of failures.
NothingStale ==
  fd = "live" => (telemetry.attitude # 0 => telemetry.attitude >= opened)

\* "GPS may be unavailable; this is reported as GPS status=NO_FIX": a position
\* is reported only while the last GPS_RAW_INT from the autopilot has a fix.
GpsHonest == telemetry.gps_valid => fix
=============================================================================
