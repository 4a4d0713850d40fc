----------------------------- MODULE GroundView -----------------------------
(***************************************************************************)
(* What the ground station's screen (gcs/GUI.c) shows of the aircraft: the  *)
(* sender's frames cross UDP, directly or copied by gcs/tee.py, wait in the *)
(* socket's buffer and are read by the main loop of the GUI, which draws    *)
(* the last good one.                                                      *)
(*                                                                         *)
(* The network loses, delays, duplicates, reorders and damages datagrams,   *)
(* and anybody may send others to the port.  tee.py copies a datagram       *)
(* unchanged to every target and goes on when one fails: it is part of the  *)
(* network here.  Both clocks run at the same rate.                         *)
(***************************************************************************)
EXTENDS LoraFrame

CONSTANTS
  Readings,    \* what the aircraft's telemetry may hold when it is sent
  Fresh,       \* 2500
  PollTime,    \* 100
  LookTime,    \* bound: how long interface_info may take, twice
  DrawTime,    \* bound: from draw_screen's clock to the end of its refresh()
  MaxDelay,    \* bound: how long a datagram may be on its way
  Capacity,    \* datagrams the socket's buffer holds
  DamageAt,    \* bytes of a frame the network may damage
  MaxNoise,    \* bound: damaged and foreign datagrams
  MaxSent,     \* bound: packets sent
  StartTime,   \* monotonic_ms() when the GUI starts, not 0
  MaxTime      \* bound: the clock of the model stops here

ASSUME ViewAssumption ==
  /\ Fresh \in Nat \ {0} /\ PollTime \in Nat \ {0}
  /\ LookTime \in Nat /\ DrawTime \in Nat
  /\ MaxDelay \in Nat /\ Capacity \in Nat \ {0}
  /\ DamageAt \subseteq 1..FRAME_SIZE
  /\ MaxNoise \in Nat /\ MaxSent \in Nat
  /\ StartTime \in Nat \ {0} /\ MaxTime \in Nat /\ StartTime <= MaxTime

\* v wire units stand for x: less than a unit off, and never to the other
\* side of 0.  An altitude the wire cannot hold is not spoken of.
Near(v, x, unit) == x - v * unit < unit /\ v * unit - x < unit /\ v * x >= 0
Fits(x, unit) == Near(0, x, unit * (Word \div 2))

\* The types of MavlinkTelemetry, and angles of a turn at most, which an
\* ATTITUDE gives and the wire can hold.
Reading ==
  [attitude_valid : BOOLEAN, gps_valid : BOOLEAN,
   roll : Int, pitch : Int, yaw : Int,
   gps_fix_type : Byte, gps_satellites : Byte,
   latitude_e7 : Int32, longitude_e7 : Int32,
   altitude_mm : Int32, relative_altitude_mm : Int32,
   velocity_x_cms : Int16, velocity_y_cms : Int16, velocity_z_cms : Int16,
   ground_course_cdeg : 0..(Word - 1)]

ASSUME ReadingsAssumption ==
  /\ Readings \subseteq Reading
  /\ \A t \in Readings : /\ Fits(t.roll, AngleUnit) /\ Fits(t.pitch, AngleUnit)
                        /\ Fits(t.yaw, AngleUnit)
  /\ MaxTime < Word * Word * Word * Word

VARIABLES
  clock,
  sent,        \* the telemetry and the time of every packet sent (history)
  net,         \* datagrams on their way, each with its latest arrival
  noise,       \* damaged and foreign datagrams so far
  buffer,      \* the GUI's socket buffer
  pc,          \* where the GUI's main loop is
  telemetry,   \* the GUI's Telemetry; received_ms = 0: nothing yet
  window,      \* curses' window: what the next refresh() will show
  screen       \* what is on the terminal

gui == <<pc, telemetry, window, screen>>
vars == <<clock, sent, net, noise, buffer, gui>>

Elapse(d) ==
  /\ clock + d <= MaxTime
  /\ \A m \in net : clock + d <= m.due
  /\ clock' = clock + d

\* memset(&telemetry, 0, ...)
Cleared ==
  [attitude_valid |-> FALSE, gps_valid |-> FALSE, timestamp_ms |-> 0,
   roll |-> 0, pitch |-> 0, yaw |-> 0, gps_fix |-> 0, gps_sats |-> 0,
   latitude |-> 0, longitude |-> 0, altitude |-> 0, relative_altitude |-> 0,
   velocity_x |-> 0, velocity_y |-> 0, velocity_z |-> 0, heading |-> 0,
   received_ms |-> 0]

Init ==
  /\ clock = StartTime
  /\ sent = <<>> /\ net = {} /\ noise = 0 /\ buffer = <<>>
  /\ pc = "poll"
  /\ telemetry = Cleared
  /\ window = [view |-> "blank"] /\ screen = [view |-> "blank"]

-----------------------------------------------------------------------------
\* One report of the sender: the next number, the clock's time.
Send ==
  /\ Len(sent) < MaxSent
  /\ \E t \in Readings :
       /\ sent' = Append(sent, [telemetry |-> t, at |-> clock])
       /\ net' = net \cup {[frame |-> make_lora_packet(t, Len(sent), clock),
                            due |-> clock + MaxDelay]}
  /\ UNCHANGED <<clock, noise, buffer, gui>>

Lose ==
  /\ \E m \in net : net' = net \ {m}
  /\ UNCHANGED <<clock, sent, noise, buffer, gui>>

\* A datagram reaches the socket, the network keeping a copy or not.
Deliver ==
  /\ Len(buffer) < Capacity
  /\ \E m \in net :
       /\ buffer' = Append(buffer, m.frame)
       /\ net' \in {net, net \ {m}}
  /\ UNCHANGED <<clock, sent, noise, gui>>

\* A datagram arrives damaged, cut short or empty, or one arrives that is
\* nobody's frame: all that matters is how parse_telemetry and recv see it.
OneByteOff(f, k) == [f EXCEPT ![k] = (@ + 1) % Base]
Damaged(f) ==
  {<<>>, SubSeq(f, 1, FRAME_SIZE - 1)} \cup {OneByteOff(f, k) : k \in DamageAt}
Noise ==
  /\ noise < MaxNoise /\ Len(buffer) < Capacity
  /\ \E m \in net : \E f \in Damaged(m.frame) :
       /\ buffer' = Append(buffer, f)
       /\ net' = net \ {m}
  /\ noise' = noise + 1
  /\ UNCHANGED <<clock, sent, gui>>

-----------------------------------------------------------------------------
\* poll(): up to its timeout, less when a datagram comes, not at all when one
\* is there.
Poll ==
  /\ pc = "poll"
  /\ \E d \in 0..(IF buffer = <<>> THEN PollTime ELSE 0) : Elapse(d)
  /\ pc' = "polled"
  /\ UNCHANGED <<sent, net, noise, buffer, telemetry, window, screen>>

PollReturns ==
  /\ pc = "polled"
  /\ pc' = IF buffer = <<>> THEN "draw" ELSE "drain"
  /\ UNCHANGED <<clock, sent, net, noise, buffer, telemetry, window, screen>>

\* The Telemetry after parse_telemetry.
AfterFrame(f) ==
  IF Valid(f) THEN Parsed(f, clock) ELSE telemetry

\* One recv().  Nothing there, or an empty datagram, ends the drain.
Drain ==
  /\ pc = "drain"
  /\ IF buffer = <<>>
     THEN pc' = "draw" /\ UNCHANGED <<buffer, telemetry>>
     ELSE /\ buffer' = Tail(buffer)
          /\ IF Head(buffer) = <<>>
             THEN pc' = "draw" /\ UNCHANGED telemetry
             ELSE telemetry' = AfterFrame(Head(buffer)) /\ UNCHANGED pc
  /\ UNCHANGED <<clock, sent, net, noise, window, screen>>

\* Is the link said to be ONLINE?  (Mutant: a reading once received stays.)
StaysOnline == telemetry.received_ms # 0
link_online ==
  telemetry.received_ms # 0 /\ clock - telemetry.received_ms < Fresh

\* draw_screen on a terminal that is large enough.
Drawn ==
  [view |-> "data",
   online |-> link_online,
   last |-> IF telemetry.received_ms = 0 THEN "never"
            ELSE IF clock - telemetry.received_ms < Fresh THEN "just now" ELSE "STALE",
   attitude |-> IF telemetry.attitude_valid
                THEN <<telemetry.roll, telemetry.pitch, telemetry.yaw>> ELSE <<>>,
   gps |-> IF telemetry.gps_valid
           THEN <<telemetry.gps_fix, telemetry.gps_sats, telemetry.latitude,
                  telemetry.longitude, telemetry.altitude>> ELSE <<>>,
   velocity |-> <<telemetry.velocity_x, telemetry.velocity_y, telemetry.velocity_z>>,
   heading |-> telemetry.heading]

\* getch(), and draw_screen's look at the two network interfaces.
Look ==
  /\ pc = "draw"
  /\ \E d \in 0..LookTime : Elapse(d)
  /\ pc' = "compose"
  /\ UNCHANGED <<sent, net, noise, buffer, telemetry, window, screen>>

\* draw_screen reads the clock and fills the window; what was on the terminal
\* stays there meanwhile.
Compose ==
  /\ pc = "compose"
  /\ window' \in {Drawn, [view |-> "small"]}
  /\ \E d \in 0..DrawTime : Elapse(d)
  /\ pc' = "refresh"
  /\ UNCHANGED <<sent, net, noise, buffer, telemetry, screen>>

\* refresh(), and endwin() when the key was q.
Refresh ==
  /\ pc = "refresh"
  /\ \/ pc' = "poll" /\ screen' = window
     \/ pc' = "ended" /\ screen' = [view |-> "closed"]
  /\ UNCHANGED <<clock, sent, net, noise, buffer, telemetry, window>>

Next ==
  \/ Send \/ Lose \/ Deliver \/ Noise
  \/ Poll \/ PollReturns \/ Drain
  \/ Look \/ Compose \/ Refresh

Spec == Init /\ [][Next]_vars

-----------------------------------------------------------------------------
TypeOK ==
  /\ clock \in Nat /\ noise \in 0..MaxNoise
  /\ sent \in Seq([telemetry : Readings, at : Nat])
  /\ \A m \in net : Len(m.frame) = FRAME_SIZE /\ m.due \in Nat
  /\ Len(buffer) <= Capacity
  /\ \A i \in 1..Len(buffer) : \A k \in 1..Len(buffer[i]) : buffer[i][k] \in Byte
  /\ pc \in {"poll", "polled", "drain", "draw", "compose", "refresh", "ended"}
  /\ DOMAIN telemetry = DOMAIN Cleared
  /\ telemetry.received_ms \in 0..clock
  /\ window.view \in {"blank", "small", "data"}
  /\ screen.view \in {"blank", "small", "data", "closed"}

\* What is read agrees with what was sent, to the resolution of the wire.
NearAngles(a, t) ==
  /\ Near(a[1], t.roll, AngleUnit)
  /\ Near(a[2], t.pitch, AngleUnit)
  /\ Near(a[3], t.yaw, AngleUnit)
NearAltitude(v, x) == Fits(x, MmPerDm) => Near(v, x, MmPerDm)
VelocityOf(t) == <<t.velocity_x_cms, t.velocity_y_cms, t.velocity_z_cms>>

\* What the proofs ask of the CRC: two bytes hold it, and it is not the one of
\* a frame the aircraft may send when a byte of that is damaged.
CrcWorks ==
  \A t \in Readings, n \in 0..(MaxSent - 1), at \in StartTime..MaxTime :
    /\ crc16_ccitt(Fields(t, n, at), FRAME_SIZE - 2) \in 0..(Word - 1)
    /\ \A k \in DamageAt :
         LET f == OneByteOff(make_lora_packet(t, n, at), k)
         IN  get_u16_le(f, FRAME_SIZE - 2) # crc16_ccitt(f, FRAME_SIZE - 2)

\* The GUI's record g holds packet p.
Holds(g, p) ==
  /\ g.timestamp_ms = p.at
  /\ g.attitude_valid = p.telemetry.attitude_valid
  /\ g.gps_valid = p.telemetry.gps_valid
  /\ NearAngles(<<g.roll, g.pitch, g.yaw>>, p.telemetry)
  /\ <<g.gps_fix, g.gps_sats, g.latitude, g.longitude>> =
       <<p.telemetry.gps_fix_type, p.telemetry.gps_satellites,
         p.telemetry.latitude_e7, p.telemetry.longitude_e7>>
  /\ NearAltitude(g.altitude, p.telemetry.altitude_mm)
  /\ NearAltitude(g.relative_altitude, p.telemetry.relative_altitude_mm)
  /\ <<g.velocity_x, g.velocity_y, g.velocity_z>> = VelocityOf(p.telemetry)
  /\ g.heading = p.telemetry.ground_course_cdeg

\* The drawn screen s shows telemetry t: an attitude and a position exactly
\* when the aircraft had one.
Shows(s, t) ==
  /\ IF t.attitude_valid THEN s.attitude # <<>> /\ NearAngles(s.attitude, t)
     ELSE s.attitude = <<>>
  /\ IF t.gps_valid
     THEN /\ s.gps # <<>>
          /\ SubSeq(s.gps, 1, 4) = <<t.gps_fix_type, t.gps_satellites,
                                     t.latitude_e7, t.longitude_e7>>
          /\ NearAltitude(s.gps[5], t.altitude_mm)
     ELSE s.gps = <<>>
  /\ s.velocity = VelocityOf(t)
  /\ s.heading = t.ground_course_cdeg

\* "A corrupt frame must leave the last good reading on screen rather than
\* painting garbage over it": whatever arrives, all fields in the GUI's
\* record are those of one and the same packet the aircraft sent, to the
\* resolution of the wire, and so are all fields on the screen; a screen
\* that says "never" shows no reading.
ShowsWhatWasSent ==
  /\ telemetry = Cleared \/ \E i \in 1..Len(sent) : Holds(telemetry, sent[i])
  /\ screen.view = "data" =>
       IF screen.last = "never"
       THEN ~screen.online /\ screen.attitude = <<>> /\ screen.gps = <<>>
       ELSE \E i \in 1..Len(sent) : Shows(screen, sent[i].telemetry)

\* ONLINE, age < 2500: the age is counted from the arrival of the last frame,
\* a reading waits for one pass of the loop and for one more for every empty
\* datagram that ends a drain early, and the terminal keeps an ONLINE until
\* the refresh() of the next pass.  So what an ONLINE on the terminal stands
\* over left the aircraft no longer ago than the sum of these and the time on
\* the way, at every moment the user may look at it.
Redraw == LookTime + DrawTime
Horizon == Fresh + MaxDelay + PollTime + (2 + MaxNoise) * Redraw + DrawTime
OnlineIsCurrent ==
  (screen.view = "data" /\ screen.online) =>
    \E i \in 1..Len(sent) :
      Shows(screen, sent[i].telemetry) /\ clock - sent[i].at < Horizon
=============================================================================
