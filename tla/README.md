# CubeSat: a TLA+ model of the flight and ground software

This directory specifies the programs that run on the aircraft's Raspberry Pi
(telemetry sender, onboard log, video recording, gimbal) and their ground side.
Modules are checked with TLC on small instances; every invariant of these runs,
and the refinement of the log, is also proved with TLAPS for all values of the
constants, so TLC alone stands for nothing but liveness. Paths are relative to the repository; `gcs.c:785` is a line of
`gcs/gcs.c`.

## 1. The system

```
 Pixhawk --serial--> [receiver: MAVLink.c] -> telemetry snapshot (data.c)
    ^                                             |
    +---- HEARTBEAT 1 Hz, stream requests 0.2 Hz -+
                                                  v
                      [sender loop: gcs.c main] -> onboard log (JSON on SD)
                                                -> UDP  (46-byte frame) [-> tee.py] -> GUI.c
                                                -> LoRa (the same, rate limited)
 cubesat.sh -> record.sh -> gimbal_full <- zero_point.yaml <- zero_calib
                         -> record_video.sh/record_video -> rpicam-vid -> .mp4
            -> gcs.sh (the screen with the link check)
```

### Inventory

**MAVLink receiver** (`gcs/MAVLink.c`). State: the partial frame
(`frame`, `frame_len`, `expected_len`, `header_len`), the telemetry counters.
Operation: `parser_push`, one byte. Called by `mavlink_poll` for each byte of a
`read`. Hard: the stream may start in the middle of a frame, noise and payload
bytes look like markers. Correct when: exactly the frames of the stream are
decoded; no byte is lost, doubled or stored past the buffer.

**Pixhawk link** (`data.c`, `MAVLink.c`, the reconnection in `gcs.c`).
State: the descriptor, the telemetry, `peer_system`, the two announce timers; at
the other end the streams the autopilot has been asked for, which it forgets
when it reboots. Operations: open, poll, decode, announce, close. Hard: cable
pulled and put back, reboot behind a port that stays open, half of the writes
failing, other systems on the same bus, read() that cannot tell "nothing yet"
from "hung up". Correct when: telemetry comes back by itself, is never from
before a reconnection, and a fix is reported only while there is one.

**Sender loop** (`gcs.c` main). State: five timers, the sequence number, three
outputs. Hard: lateness of poll(), blocking writes, the first pass after a
reconnection, stop in the middle of a pass, power loss. Correct when: the rates
are kept without drift and without bursts, LoRa is never overfed, the heartbeat
is prompt, and the log, the UDP stream and the LoRa stream agree on (seq, time).

**Onboard log** (`log_open`, `log_write`, `log_sync`, `log_close`).
State: `log_file`, `log_off`, `log_path`; below it libc's buffer, the page cache
and the card. Hard: systemd restarts the sender for ever (`Restart=always`),
disk full, power loss between two steps. Correct when: what was synced survives
everything, a file belongs to one run, a log that is on and whose `log_sync` never
failed has no hole.

**Mission launcher and recorder** (`scripts/cubesat.sh`, `scripts/record.sh`,
`camera/record_video.sh`, `camera/record/record_video.c`). State: five processes, the
signal dispositions each has at the moment, process groups. Hard: a stop at any
moment, traps that run only when the foreground command has ended, the time
between fork and exec. Correct when: no recording file is left broken, no
process is left behind, everything ends.

**Camera monitor** (`camera/record/test_camera.py`). State: `state` (the newest
frame and process), `cam_state`, `restart_requested`, `rec`, `stopping`. Threads:
grabber (runs rpicam-vid, starts it anew when it ends), sampler (measures, feeds
and ends recordings), one per HTTP request, main. Hard: `state["proc"]` is
stored and read under different rules, an event is cleared and set by different
threads, three threads can end a recording, each may fail in the middle of it. Correct when: one camera
process at a time, a change of settings takes effect, each recording is
reported once, the camera is released at the end.

**Telemetry frame** (`make_lora_packet`, `put_*`, `crc16_ccitt` in `gcs.c`;
`parse_telemetry`, `get_*` in `GUI.c`). No state: a writer that appends fields and
a reader with an offset for each, two programs that must agree. Hard: signs,
rounding, the order of the bytes, fields narrower than what they are filled with.

**Ground view** (`gcs/GUI.c`; `gcs/tee.py` on the way). State: the socket's
buffer, the last good reading with the time of its arrival, the screen. One
loop: poll, drain, key, draw. Hard: datagrams late, twice, out of order,
damaged or from somebody else; a screen that is drawn later than the clock was
read, and stays until the next one is. Correct when: what is on the screen is one packet the aircraft sent, and
ONLINE says that it is recent.

**Gimbal** (`camera/gimbal`: `gimbal_full.c`, `zero_calib.c`, `zero_point.h`).
State: the centre gimbal_full read at its start, the pulse widths of the two
servos, what zero_calib holds and whether it is saved, `zero_point.yaml`. Two
programs share the pins and the file, and nothing keeps them apart. Hard: a
start in the middle of a save, a file edited by hand, a save that fails. Correct
when: the servos leave the range they were tested for at most at a zero point that
was out of it when it was read, and the gimbal never turns around one made of two.

**Not modelled yet**: service launchers (`gcs.sh`, `elrs.sh`, `lora.sh`: who
owns which serial port), ELRS sender (`ELRS/mav.py`), the link agent and its
alarm (`link.sh`), the rewriting of the settings file by the camera monitor, LoRa
tools. See the plan in section 7.

**Not to be modelled**: the JSON text of `make_packet`, which only the onboard
log keeps; the split gimbal programs `pitch.c` and `roll.c`, each the half of
gimbal_full and started by hand; the LTE and VPN queries (no state between two
calls, and nothing calls them), the settings readers (text handling),
diagnostic tools that print what they receive, kept earlier versions.

### How the components interact

The receiver is called by the link, which is called by the sender loop: one
thread, so their interleaving is that of the loop with the environment
(autopilot, cable, signals, time). The loop hands a packet to the log, to UDP and to
LoRa in this order within one pass. The log meets the outside only through
crashes, restarts and the kernel's write-back. The recorder shares nothing with
the sender but the launcher, which starts one and waits for the other. The
gimbal is a child of record.sh and shares the autopilot with the sender, each on
a port of its own. Aircraft and ground share the frame's layout and nothing else.

The state is cut along these lines. Bytes are seen only by MavlinkParser, whose
accepted frames are the frames of PixhawkLink. PixhawkLink keeps the two
announce timers and abstracts the send timers away; GcsLoop keeps all timers and
abstracts frames away: the two describe the same loop, step for step. GcsLoop's
log is a sequence of records with a count of the synced ones, which is what
OnboardLog offers it and makes out of buffer, cache and card. GroundView takes
over where GcsLoop hands a packet to UDP: its `Send` is a packet of GcsLoop with
its contents, and its frames are LoraFrame's. Flight is the conjunction of
Mission and Gimbal, which share the variable `gimbal`: Mission starts and ends the
process, Gimbal says what it does while it runs.

## 2. Modules

| module | models | lines of |
|---|---|---|
| `MavlinkParser` | `parser_push` | MAVLink.c 313-370 |
| `MCMavlinkParser` | a scaled-down protocol | |
| `MavlinkParserProofs` | seven theorems | |
| `GcsLoop`, `MCGcsLoop` | `main`'s loop, `stop_handler` | gcs.c 640-829 |
| `GcsLoopProofs` | seven theorems | |
| `PixhawkLink`, `MCPixhawkLink` | open, poll, decode, announce, request, close; the autopilot | MAVLink.c, data.c, gcs.c |
| `Journal` | what a log promises (abstract) | |
| `OnboardLog`, `MCOnboardLog` | the log over buffer, page cache and card | gcs.c 466-560 |
| `OnboardLogProofs` | six theorems | |
| `CameraMonitor`, `MCCameraMonitor` | the threads of the camera monitor and rpicam-vid | test_camera.py |
| `Mission`, `MCMission` | five processes and their signals | scripts, record_video.c |
| `Gimbal` | gimbal_full, zero_calib and their file | camera/gimbal |
| `Flight`, `MCFlight` | Mission and Gimbal together | record.sh 108-134 |
| `LoraFrame` | writing and reading a frame | gcs.c 205-458, GUI.c 45-147 |
| `GroundView`, `MCGroundView` | the network and the GUI | GUI.c 178-323 |
| `GroundViewProofs` | five theorems about both | |
| `PixhawkLinkProofs`, `CameraMonitorProofs`, `MissionProofs`, `FlightProofs` | four, seven, four and four theorems | |

`PROJECT.json` maps each definition to its lines.

### MavlinkParser

`PushByte(b)` is one call of `parser_push`. Its three cases are the function's
exits: `DropByte` (not a marker, or no room), `StoreByte`, `CompleteFrame` (check the
CRC, decode or count, reset). `frame` is the used part of the buffer;
`header_len` is kept over frames as in the code, `accepted` records where in the
stream the decoded frames lie. The protocol's sizes are constants. The checksum
is an operator of the header and the payload: its polynomial, and the
`CRC_EXTRA` of each message, are not told apart.

`MatchesReference` compares the parser with a definition that has no state: a
marker starts a frame unless a frame that starts before it still reaches it
(`Cut`). Of the frames of this cut, those that the stream holds to their end are
`Complete`, and those of them whose checksum matches are `Good`.

### GcsLoop

A pass is `ReconnectFails`, or `Reconnect`/`Poll`, then `Announce`, then
`NotYet` or `Sample` and `Transmit`, or `PollFails`. The cut between `Sample`
and `Transmit` is the one between the log and the wire, where a power loss
tells them apart. `now` is the pass's one reading of the clock; `clock` runs on in
poll and, by `Blocks`, in the writes of Announce, Sample and Transmit. A packet is
stamped with `now`, but the histories `udp_at` and `lora_at` keep when it was handed
over, which is what `NoBurst` and `LoraPaced` are about. With `LogFails` any
write to the log may fail and switch it off, and `Synced` is `log_sync` with a failing fflush or
fsync, whose results the code drops: some of the buffer is gone, the log stays
on, and `log.failed` remembers it. `Environment` is a signal, a cable pulled or
put back, a power loss. The clock only moves forward.

### PixhawkLink

`telemetry` is what of `MavlinkTelemetry` the properties tell apart: the peer's
system id, which boot of the autopilot the attitude comes from, `gps_valid`,
whether a coordinate is zero. `Decoded` is `decode_frame`, with its
`payload_len` checks in `LongEnough`: MAVLink 2 cuts trailing zero bytes off,
which `Trimmed` says the autopilot does. `Announce(ok, asked)` is
`data_reader_announce` with any of its four writes failing: `ok` is its result,
`asked` the requests that arrived. `HangupReads` is what read() does on a port
that hung up: with `VMIN=0, VTIME=0` 0 bytes is what an empty port returns,
too, and Linux returns 0 on a hung-up serial port; other drivers fail.

### OnboardLog

A record goes `buffer` -> `cache` -> `card`. `Write` may push some of the buffer
down, `WriteBack` any part of the cache, in order. `Open` picks the first number
free in the minute and truncates; `WriteFails` closes and switches off, `SyncErrs` is
`log_sync` with a failing `fflush`, which nobody looks at. `Die`, `PowerLoss`,
`Restart` and `Clock` are the world around: after a power loss the Pi's clock may
give an earlier minute.

### Mission

Each process is a program counter. A signal takes effect at the moment it is
sent, by the disposition its receiver has then: `TermGroup` is `kill -TERM
-$RECORD_PID`. record.sh's shell defers its trap until the foreground command
has ended (`trapped`). The camera is in record.sh's group until one of child
and parent has called `setpgid`; until `execvp` it has the parent's handler,
which does nothing there. `missed` remembers who did not hear a stop: the camera's parent, record.sh about
to start it, or nobody heard, as cubesat.sh never sent it.
record.sh forks the gimbal and assigns `GIMBAL_PID` in two commands
(`StartGimbal`, `AssignGimbal`), and its trap may run between them; its `cleanup` stops only what
`gimbal_pid` holds. `StopRecord` is a SIGTERM at record.sh alone, `TermGroup` the launcher's
at the group, which ends the gimbal too; `loose` remembers which of them came
when record.sh could not stop its gimbal.
`Interrupt` ends the launcher between any two of its commands, so also between
the fork of record.sh and `RECORD_PID=$!`; `InterruptAgain` is a second signal
whose trap exits from within the EXIT trap (state "cut": the rest of `cleanup`
is not done). Durations are not compared: the
grace period may end before or after anything else.

### CameraMonitor

A with-block is one action, and so is an assignment outside of one. The
grabber's actions follow its loop: `Clear` (the event), `Read` (`cam_state`), `Spawn`
(Popen), `Store` (`state["proc"]`), `FirstFrame`, `Reap` (EOF and wait), `BackoffEnds`. A
request for /mode or /quality is `Change` (both locked assignments), `Request` (the
event) and `Terminate`. `Row` and `Stop` may end a recording, and so may
`FinishLast`, in main's finally block; a failing report ends the sampler, the
request, or the finally block, and so does a second ^C (`InterruptAgain`). Requests are
answered on beside that block (`Answering`), and any Popen may raise. When main
returns the daemon threads are gone. Mode and quality are one value, frames only whether there was one, and
SIGTERM takes its time to be obeyed.

### Gimbal and Flight

Pulse widths are in the code's steps of 0.1 ms. `LoadZero`, `Heartbeat` and
`Follow` are gimbal_full's three phases; `FallSilent` is the loop that reads on for ever
when nothing comes any more, since ATTITUDE is asked for once. zero_calib is
`StartCalib`, `Key`, the save cut in two where fopen has emptied the file and
fclose has not filled it (`SaveOpens`, `SaveCloses`), and `QuitCalib`, which may
fall in between. A file is what its two keys say, 0 for a key that is not there.
`asked` remembers what the file held at first and what each save was to write,
not what the file then got (`Text`, or nothing on a full disk); `followed` and
`touched` remember whether the gimbal has followed an attitude and which axes
were moved by hand.

A step of Flight is one of Mission, with `Life` resetting gimbal_full's
own variables when Mission starts it, or one of Gimbal that leaves Mission
alone.

### LoraFrame and GroundView

A byte has `Bits` bits, and all widths follow from it; the CRC is the shift
register of the code, as the set of its cells that are 1. `Fields` appends as
the writer does, `Parsed` reads at the reader's own offsets. Angles, doubles in
the code, are integers of a finer unit than the wire's, cut toward 0 as a cast does.
`put_u16_le` and its sisters keep the low bytes of what they are given, so a
number beyond the field wraps around. `Reading` is what `MavlinkTelemetry` can
hold, with angles that the wire can hold, below 327 degrees either way
(`ReadingsAssumption`); those of an ATTITUDE are within half a turn.

A pass of the GUI is `Poll`, `PollReturns`, a `Drain` for each recv, `Look` (getch and
the two interfaces), `Compose` and `Refresh`. An
empty datagram ends the drain, as `recv` returns 0. `Drawn` is what `draw_screen` puts into curses'
window, with the clock read after `Look`: with `received_ms` 0 "never", otherwise "just now" or
"STALE". The terminal keeps the screen before until `refresh()`, so an old ONLINE is seen while
time passes in all of these.
The network (`Deliver`, `Lose`, `Noise`) may keep a copy of what it delivers, so it
duplicates and reorders; a datagram is at most `MaxDelay` on its way. tee.py
sends on what it receives, unchanged, and is part of the network.

## 3. Runs

| run | cfg | shows |
|---|---|---|
| `parser` | MCMavlinkParser.cfg | all byte streams up to 8 bytes: `TypeOK`, `OverflowBranchDead`, `AcceptedAreFrames`, `AcceptedAreDisjoint`, `MatchesReference` |
| `gcs_loop` | MCGcsLoop.cfg | with a failing log: `TypeOK`, `LoraPaced`, `NoBurst`, `NoDrift`, `LogMatchesWire`, `SyncWindow`, `HeartbeatPrompt` |
| `pixhawk_link` | MCPixhawkLink.cfg | `TypeOK`, `AskedInTime`, `NothingStale`, `GpsHonest`, and `Recovers` under fairness |
| `onboard_log` | MCOnboardLog.cfg | `TypeOK`, `OneRunOneFile`, `NeverClobbers`, and the refinement `JournalSpec` |
| `mission` | MCFlight.cfg | Mission with its gimbal: `TypeOK`, `NeverBroken`, `GimbalAttended`, `OrphanedOnlyUnheard`, `GimbalTypeOK`, `ServoTested`, `ZeroPointHonest`, and `Ends` under fairness |
| `ground_view` | MCGroundView.cfg | `TypeOK`, `ShowsWhatWasSent`, `OnlineIsCurrent` |
| `camera_monitor` | MCCameraMonitor.cfg | `TypeOK`, `OneCamera`, `StaleIsFlagged`, `BackoffOnlyForCrashes`, `ReleasedWhatWasSeen`, `OnlyFirstRowEarly`, `ReportedOnce`, and `CameraComesAndGoes` under fairness |

Five further runs end in a counterexample, each to a statement of the
repository's own documents, comments or messages (section 6).

### Bounds, and why they are enough

- **parser**: four byte values of which two are markers, so lengths, payloads
  and checksums can all look like a marker; headers of 2 and 3 bytes, 8 bytes in
  the stream: two frames of the shorter kind with payload, or noise, a frame cut short
  and a frame. The longest announced frame, 3 + 3 + 1, just fits the buffer of 7. All
  of it is proved for the real sizes too.
- **gcs_loop**: one tick is a quarter of a send interval. 12 ticks after the start
  hold four reports, three LoRa packets, four heartbeats and three syncs. Lateness
  and stalls of one tick add up over passes to an interval, so the
  resynchronisation is reached. The LoRa interval is no multiple of the send
  interval, as with the defaults of the code, and the send interval is longer than
  the heartbeat's. What multiplies the states is not followed to the end
  (`Followed`): a run is cut 6 ticks after the start once the log has failed, which
  leaves two packets and two syncs, and 9 ticks after it once a packet was late
  on the wire, which leaves three packets in a row. For all times: GcsLoopProofs.
  2 770 126 states.
- **pixhawk_link**: a tick is half a second; two disturbances among cable pulls,
  reboots and foreign heartbeats, in any order: a second disturbance can hit
  the recovery from the first. The autopilot's id is 7 and a foreign
  system's is 1, the id the code falls back to, so that a request to the wrong system exists.
- **onboard_log**: two names per minute and two runs, so that names never run
  out: with three runs `NeverClobbers` and `JournalSpec` fail, as `log_open` then truncates the
  last name it tried (99 names in the code, so more than 99 starts in one
  minute by the Pi's clock); two minutes, three
  packets per run: a record may be in the buffer, the cache and on the card at
  the same time.
- **mission**: one mission, one recording, each step of it in every order, two
  stops of the launcher and any number of record.sh. One bank beyond what the
  servos follow; a zero point outside the tested range; one key, so that what zero_calib shows is dirty,
  saved, or saved by half. That more keys, attitudes and contents, those with a
  line missing too, show nothing new is proved (FlightProofs). 534 574 states.
- **ground_view**: two packets, one damaged, cut or empty datagram, a buffer of
  two: a packet can overtake the other or arrive after its copy was drawn, and noise can
  fall in between. Bytes of two bits, so that every number of two bytes takes both
  signs and wraps; one reading has negative numbers in every signed field, the
  other a height beyond the wire. With the clock at 13 a reading goes stale
  (`Fresh` is 2), the last packet can still arrive, and an ONLINE can be seen
  at its greatest age, 10. Age does not depend on what is in a packet: a run with
  the second reading is followed to 8 only (`Followed`). 1 986 798 states.
- **camera_monitor**: two changes of settings that overlap, one crash, two recordings of
  two rows, three requests for any of these in all: a request can fall into the start of the camera that another
  request or a crash has caused, and a recording can be started over another.
  336 434 states.

### Fairness

`Recovers`: the loop never blocks for ever (poll has a timeout, writes give up
after a timeout, sleeps end), so its steps are weakly fair. The strong conditions are
about the world, not the code: time passes while polling, a write to a live port
succeeds now and then, and a HEARTBEAT or ATTITUDE that the autopilot keeps
sending gets through now and then. The property itself asks that the cable stays
in from some time on. The run covers a reboot behind a port that
stays open, and a hang-up that read() reports.

`Ends`: each process is scheduled, and the camera's `--timeout` passes. Nobody
has to press ^C or to close the screen, and no step has to fail.

`CameraComesAndGoes`: grabber, handlers and main run,
SIGTERM is obeyed, and a camera writes its next frame, to nobody if the program
is gone. No request, crash or ^C has to come, and a camera that cannot be started
ends the grabber's thread.

The other properties need none. `OnlineIsCurrent` counts on time standing still
while the GUI is neither in poll nor drawing: its loop has no other wait, and
`LookTime` and `DrawTime` bound what the rest of a pass takes.

## 4. What is proved

Assumptions: the named `ASSUME`s of the modules, which TLC evaluates in the runs,
and three hypotheses, each stated in the theorems that need it:

- `BufferFits`, for `BufferSafe` and `ScanIsParser`: the buffer holds the longest
  announced frame; 10 + 255 + 2 <= 300 in the code.
- `[][Open => NameLeft]_vars`, for `NothingClobbered` and `LogKeepsItsPromise`: the
  minute has a name left whenever `log_open` looks for one. `NamesSuffice` shows
  that it holds as long as the runs are fewer than the names of one minute; past
  them the code does overwrite the last one (section 3, bounds).
- `CrcWorks`, for the theorems about GroundView: the CRC of a frame fits two bytes,
  and is another one after one byte of the frame has changed. The CRC of the code
  finds every burst of at most 16 bits, so it has this property; what a CRC computes
  for all inputs is an induction over its bits, which the provers here cannot do. TLC
  evaluates `CrcWorks` for the bytes of the run (`CrcAssumption`).

**MavlinkParserProofs.** `TypeCorrect`: `TypeOK`, which is `Types /\ FrameState`,
is inductive: the expected length is known exactly from the second byte on,
equals what the first two bytes announce, and the frame is shorter than it.
From it, without further induction, `BufferSafe`: a frame in progress is
shorter than its announced length, so one more byte fits. `StreamTail` is the
strengthening that makes the rest inductive: the buffer is the tail of the stream.
`Disjoint` and `Frames` then follow for each accepted frame, as accepting one adds to
the list exactly the tail of the stream. `ScanIsParser` compares the parser with the
cut of the whole stream, which is one definite set (`CutIsUnique`, by the least
marker on which two cuts would differ). A byte adds to the cut at most the
marker at its end (`CutGrows`), as no earlier frame changes where it ends but the
one whose length byte this is. The only frame of the cut that is not complete is
the one in the buffer (the last conjunct of `Matches`), and its end is the one that
`expected_len` announces (`AssembledEnds`): so one byte completes at most that frame,
and just when the parser takes it for complete.

**GcsLoopProofs.** `TypeCorrect` needs that `Transmit` is reached only with a
packet numbered and due (`InTransmit`), as `Current` is numbered
`telemetry_seq - 1`. What is said of the moment a packet is handed over rests on two facts:
the pass's reading of the clock is behind it by what the pass has blocked so far
(`ClockAhead`), so a packet leaves at its stamp or up to two stalls later by UDP, three by
LoRa (`HandedSoon`). `LoraRate`: with `LoraTimer` (the timer is the time stamp of the last LoRa packet, whether its
write succeeded or not) the stamps are whole intervals apart, n of them for n packets (`LoraSpaced`), so that blocking
writes shift a hand-over but do not add up. `BurstFree`: `Deadline` bounds
`next_report` from below: it is later than each packet by the intervals of the packets
that followed. The
branch that keeps the cadence may put the deadline right behind the packet just sent, but the
deadline it advances had this property of the packets before. Hence the spacing of the stamps (`UdpSpaced`) and,
with the stalls of one pass, that of the calls of sendto: three of them can come close
together, when a pass that blocked meets one whose slot it still
reached, but a backlog is never sent. `CadenceKept` needs no
more: if all packets were on time, the deadline was on the grid before this packet
and is advanced by one interval. `LogIsWire`: the number of the next packet is the
number of packets sent, one more between the log and the wire (`Numbered`); a
record is the packet with its number, whatever failed, and none is missing as long as no
`log_sync` has failed (`NoneMissing`). `LossIsBounded`, under the same condition:
while the log is on, what is not synced is no older than the last sync
(`SyncKnown`); the pass that makes it older than a period ends in a sync, hence the
exception for the middle of `Transmit`. `HeartbeatInTime`: how old the last
heartbeat may be at each place of a pass (`HeartbeatAge`). It rests on the cap of
the poll time (`PollIsCapped`) and on `Stall < HeartbeatEvery`: a pass that blocked
for longer than a heartbeat period would make the bound about that pass alone.

**PixhawkLinkProofs.** Nothing is assumed of the periods and the number of
disturbances. `TypeCorrect`: the boots counted are bounded by the disturbances
because an autopilot that is away comes back once without a further one (`Boots`).
`Asked`: `AskedInTime` becomes inductive as `Waits`. While no request is due the
wait is at most as old as the request timer; from then on the age of the heartbeat,
which carries the request, is added; the pass that makes either due may overshoot
by its own length, hence `2 * MaxPass`. A write that fails starts the wait anew, so
this says nothing of a port whose writes keep failing. `Fresh`: reading an
attitude can only raise its boot, and `opened` is the boot at the time of opening.
`GpsIsHonest` has the hypothesis `~Trimmed`; the run `gps_lost` shows what
happens without it.

**OnboardLogProofs.** Any number of names, minutes, runs and records.
`TypeCorrect`: the card holds a prefix of what the cache holds of each file, and a
file that does not exist is empty (`Absent`). `FilesAreOwn` needs that records were
written by runs that have started, and those of the current run into its own file
with a number below the next packet's (`OwnRun`), and that the open file holds the
current run only (`OpenIsOwn`): the latter because `fopen` truncates, so it holds even when
`log_open` falls back on a name that is taken. What a crash takes is always the end of files,
which disturbs none of this (`DropShrinks`). For the refinement the hypothesis
about names says that `Open` creates and never truncates; then what `log_sync` has
covered is on the card (`ClaimedOnCard`) and stays there, and each step is one of
Journal or a stutter. `NamesSuffice` counts: every file there is was opened by one of
the runs so far, so with fewer runs than names one name is free (the pigeonhole
principle of the library).

**GroundViewProofs.** `RoundTrip` is about the two programs' arithmetic: writer and reader agree
on every offset, on the sign of every number and on the rounding, for any width of a
byte from two bits on. With it a valid frame is as good as the packet it was made
from. `ViewInv` follows the packets: what is on the network is a frame of the
aircraft, not yet `MaxDelay` old (`OnWay`); a valid datagram in the socket's buffer is
one such, and has waited there for at most one redraw and one more for each empty
datagram that was before it and ended a drain (`Waiting`, `Waited`); the record and the
window hold one packet, with the age this leaves (`Held`), and what is on the terminal is the
window before, older by a whole pass (`Screened`). `Waited` is why
`Horizon` counts `MaxNoise`, and `Screened` why it counts one redraw more. `ShowsOnlySent` and `OnlineMeansCurrent` are read off it.

**MissionProofs.** `TypeCorrect` needs that there is no record.sh
before the launcher starts it, and one where it knows of it (`Fresh`). `FileWhole` is inductive as it stands.
`GimbalStops` has the invariant `GimbalInv`: no gimbal runs before record.sh forks it,
`GIMBAL_PID` holds it from the assignment to the cleanup, and a stop that is
pending before the assignment, or a cleanup that cannot name a gimbal that runs, is one of the exceptions
(`Unheld`).
`HeardStopsEnd` has the invariant `EndInv`: before the launcher's TERM the
processes below it follow each other in order (`Orderly`: no camera without a
record_video that is waiting for it, no record_video without record.sh); after it,
unless it was missed, no process is left that will begin a recording, and none is
under way (`Quiet`). One case of TERM per place where record_video can be shows
that either `missed` is set or `Quiet` holds.

**CameraMonitorProofs.** Any number of handlers, requests, crashes and rows.
`CameraIsOne`: while the grabber has no camera, the newest one has ended (`Owned`),
and no step but `Spawn` brings one back (`DownStays`). `StaleLeavesFlag`: from
`Read` on, what the grabber works with is what is asked for, or flagged
(`Following`); only `Clear` takes the flag back, and the settings are read anew after
it. `CrashesBackOff`: a camera that was asked to end was so by a request which
had set the event before, and the event outlives the camera (`Reasons`), since
`Clear` comes only when the camera is gone and the numbers of cameras rise.
`ReportsAreUnique`: what has been reported is older than the recording that is on
(`Reported`). `RowsAreOwn`: a sample in hand of a recording that has a row
was taken during it (`Rows`).

**FlightProofs.** `ImplementsMission`: a step of Flight is one of Mission or leaves
its variables alone, so MissionProofs and `Ends` hold with the gimbal at work.
`GimbalTypes`, `ServoStaysTested` and `ZeroPointIsHonest` share the invariant
`Inv`. What it adds is `CalibKnown`: the zero point zero_calib holds has no 0, and
is within its range on an axis it had a key for; what it is about to write is in
`asked`; and until it is started the file is the one that was given. Without the first a save could put
into the file what a later load would read as the default on one axis
(`LoadedFromFile`), and without the second a key for one axis could leave the other where nobody
tested it (`KeyStep`). `DutyTested` is angleToDuty's promise for every angle and centre.
Assumed is only that a file's numbers are not negative (`GimbalAssumption`).

**Only model-checked.** Liveness: `Recovers`, `Ends` and `CameraComesAndGoes`. The
provers here reason about neither fairness nor ENABLED. What of it is safety is
proved: `AskedInTime` is the step of `Recovers` that takes a bound, and
`ImplementsMission` carries the fairness of Mission over to Flight.

## 5. What the properties are for

The hazards of `PROJECT.json` name the lines. The ones behind the deepest
properties: a deadline that is advanced by one interval must not become a burst
after a stall (gcs.c:785; `NoBurst`, `NoDrift`), and the LoRa timer is compared with a clock read
before writes that block, which must not add up (gcs.c:766; `LoraPaced`): both are
about the moments of the hand-over, not the stamps; the same
packet goes to three places in different branches (gcs.c:737; `LogMatchesWire`);
the request to the autopilot rides on a heartbeat whose writes must all succeed
(gcs.c:705; `AskedInTime`, `Recovers`); the handler that passes a stop on has no
one to pass it to yet (record_video.c:135; `OrphanedOnlyUnheard`); an old
datagram that arrives last makes a silent aircraft look ONLINE (GUI.c:145;
`OnlineIsCurrent` says for how long); two programs, one pair of pins and one file that is
emptied before it is written (gimbal_full.c:63, zero_point.h:43; `ServoTested`,
`ZeroPointHonest`).

## 6. Where the code and its words disagree

Each is a run with a counterexample.

1. `replug_eof`: gcs.c:699-702 says a re-plugged USB recovers by itself. On a
   port that hung up read() returns 0, which `mavlink_poll` takes for an empty
   port; the failing announcements are printed and nothing else. The dead port
   is kept for ever.
2. `gps_lost`: "GPS may be unavailable; this is reported as GPS status=NO_FIX"
   (data.c:101). A MAVLink 2 GPS_RAW_INT without satellites is shorter than
   the 30 bytes `decode_frame` asks for, and dropped: the old fix stays.
3. `log_holes`: "Any failure disables it for the rest of the run"
   (gcs.c:472-473). A failing fflush in `log_sync` goes unseen.
4. `camera_orphan`: cubesat.sh:73-74 signals the whole group so that rpicam is not
   left alone. A stop before `child_pid` is set, or before the child's exec,
   is lost, and the final KILL does not reach the camera's own group.
5. `servo_range`: "wherever the zero point is, this range is not left", says
   camera/gimbal/README.md:87-89 of the limits 5 to 25, and gimbal_full.c:28 of its
   clamp. Only `angleToDuty` clamps. The zero point goes to the servos as it was
   read (gimbal_full.c:63-64, zero_calib.c:61-62) and stays there until the first
   attitude, or the first key for that axis. `ServoTested` says that this is the only way out.

Four more statements, definitions beside the properties that hold, are refuted by
TLC in the same models, by adding them to the run's cfg:

- `Applied` (camera_monitor): "Changing either kills state["proc"], which makes grabber()'s
  read loop exit and rebuild the pipeline from these values" (test_camera.py:105-107). A change
  between the grabber's reading of `cam_state` and its storing of the new process
  kills the process before that, and is not noticed. `restart_requested` is left set
  (`StaleIsFlagged`), so a look at it after storing the process would do.
- `GimbalEndsWithRecord` (mission): "ending it is this script's job" (record.sh:13-14). A SIGTERM at
  record.sh alone between the fork of the gimbal and `GIMBAL_PID=$!`, or a
  second one in its cleanup, leaves the gimbal running (`GimbalAttended`).
- `CenterWasGiven` (`G!CenterWasGiven` of Flight): gimbal_full starts at the zero point of the file
  (camera/gimbal/README.md:93-94). One that starts within a save, which has emptied the
  file, or after one that was cut short, runs around the default for the whole recording; `ZeroPointHonest` says that
  nothing worse happens, a zero point of one axis new and one old.
- `SavedIsSaved` (the same): zero_calib prints that it saved (zero_calib.c:86-88) whatever
  fprintf and fclose returned; on a full disk the file is empty.

## 7. Plan

Order: what loses data or the link in flight first; then the recording; then the
ground.

| step | module | state |
|---|---|---|
| 1 | `MavlinkParser`, proofs | done |
| 2 | `GcsLoop`, proofs | done |
| 3 | `PixhawkLink`, proofs | done |
| 4 | `Journal`, `OnboardLog` refining it | done, with proofs |
| 5 | `Mission`, proofs | done, without settings, status and build commands |
| 6 | `CameraMonitor`, proofs | done, without stream, preview and settings file |
| 7 | `LoraFrame`, `GroundView` | done, with proofs |
| 8 | `Gimbal`, `Flight`, proofs | done |
| 9 | `Services`: launchers that stop and restore services around the serial ports | open; abstract specification: a lock per port |
| 10 | `MavLoop`: the ELRS sender, ages of its values, reopening of LoRa | open |
| 11 | GcsLoop's log as an implementation of `Journal`; a clock that is set back; the alarm of link.sh; the settings file | open |

What reading the launchers has shown so far, for `Services`: elrs.sh starts
`mav.py` without taking LoRa from it and looks for other users only by the name
`gcs/lora[.]sh`; each launcher looks with pgrep and then starts, so two started
together both pass; gcs.sh stops services (229-239) before its trap is set (246).

## 8. Limits of the model

- In GcsLoop a packet is its number and its time stamp; its contents are in
  LoraFrame and GroundView. The JSON text of the log is not modelled.
- A height beyond 16 bits of decimetres wraps on the wire (gcs.c:408 names the
  range); `ShowsWhatWasSent` speaks of heights within it.
- GroundView's two clocks run at the same rate, and the GUI starts with its
  clock not at 0 (`received_ms` 0 means "nothing yet").
- A pulse width below 0, which sscanf would accept in zero_point.yaml, is left out.
- A frame whose bytes and checksum are damaged so that they match again is a frame. In
  GroundView damage is one byte changed, a frame cut short, or an empty datagram.
- GcsLoop's clock does not go back; the code uses CLOCK_REALTIME (gcs.c:682).
- Blocking writes, those to LoRa too, stall for a bounded time. The port is opened blocking, so with
  flow control a stall need not end; the bound is `Stall` for the writes of one step.
- GroundView's datagrams are frames of the aircraft or damaged ones; valid frames from somebody
  else are left out.
- CameraMonitor's bytecode-level interleavings inside one statement are not
  told apart; the deque and dict operations it uses are atomic in CPython.
- Mission has `setsid`; the fallback without it, the status and build
  commands, and the naming of files are left out. Signals from outside hit
  the launcher and record.sh; a ^C at a record.sh that was started by hand, which reaches its
  foreground processes too, and one at the other processes are left out. A duration that is
  rounded to `--timeout 0`, below half a millisecond, is assumed away.
- In `pixhawk_link` a hang-up is seen by read(); with a read() that returns 0
  the property fails, which is run `replug_eof`.
