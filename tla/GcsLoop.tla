------------------------------- MODULE GcsLoop -------------------------------
(***************************************************************************)
(* The telemetry sender on the aircraft: the main loop of gcs/gcs.c, with   *)
(* the parts of gcs/data.c and gcs/MAVLink.c it calls.                      *)
(*                                                                         *)
(* One pass of the loop is Reconnect, or Poll, Announce, Sample, Transmit.  *)
(* Between them the USB cable may be pulled or put back, a stop signal or a *)
(* power loss may arrive, and time passes: poll() may return late and the   *)
(* blocking writes to the Pixhawk, the log and the radios take time that   *)
(* the pass's own reading of the clock, now, does not see.                  *)
(*                                                                         *)
(* A telemetry packet is its sequence number and its time stamp.  The       *)
(* contents, one and the same snapshot on all three outputs, are not told   *)
(* apart here.                                                              *)
(***************************************************************************)
EXTENDS Integers, Sequences

CONSTANTS
  SendInterval,    \* send_interval_ms
  LoraInterval,    \* lora_interval_ms, at least send_interval_ms
  HeartbeatEvery,  \* 1000
  RequestEvery,    \* 5000
  SyncEvery,       \* 2000
  MaxPoll,         \* max_poll_ms
  OpenRetry,       \* sleep(2) after a failed open
  ReadRetry,       \* sleep(1) after a failed read
  Late,            \* bound: how late poll() may return
  Stall,           \* bound: how long the writes of one step may block,
                   \*   where a pass has three: Announce, Sample, Transmit
  LogFails,        \* can writing and syncing the log fail
  HangupReads,     \* what read() does on a hung-up port: "eof", "error"
  StartTime,       \* unix_time_ms() when the process starts
  MaxTime          \* bound: the clock of the model stops here

ASSUME TimingAssumption ==
  /\ SendInterval \in Nat \ {0}
  /\ LoraInterval \in Nat /\ LoraInterval >= SendInterval
  /\ HeartbeatEvery \in Nat \ {0} /\ RequestEvery \in Nat \ {0}
  /\ SyncEvery \in Nat \ {0} /\ MaxPoll \in Nat \ {0}
  /\ OpenRetry \in Nat \ {0} /\ ReadRetry \in Nat \ {0}
  /\ Late \in Nat /\ Stall \in Nat /\ Stall < HeartbeatEvery
  /\ LogFails \in BOOLEAN
  /\ HangupReads \subseteq {"eof", "error"} /\ HangupReads # {}
  /\ StartTime \in Nat /\ MaxTime \in Nat
  \* the epoch is far enough away that a timer set to 0 is due
  /\ StartTime >= LoraInterval /\ StartTime >= HeartbeatEvery
  /\ StartTime >= RequestEvery /\ StartTime >= SyncEvery /\ StartTime >= 1

VARIABLES
  pc,                   \* where the pass is
  keep_running,         \* cleared by SIGINT and SIGTERM
  usb,                  \* is the Pixhawk plugged in
  fd,                   \* reader.connection.fd: closed, live or hung up
  clock,                \* CLOCK_REALTIME
  now,                  \* the pass's reading of the clock
  telemetry_seq,
  next_report, last_lora_report, last_heartbeat, last_stream_request, last_sync,
  log,                  \* the onboard log: its state, its records, how many of
                        \*   them are surely on the card, has a log_sync failed
  lora_fd,              \* was the LoRa port opened at start
  udp, udp_at,          \* packets given to sendto, and when (history)
  lora, lora_at         \* packets given to the LoRa port, and when the last
                        \*   byte of each was (history)

timers == <<next_report, last_lora_report, last_heartbeat,
            last_stream_request, last_sync>>
sent == <<udp, udp_at, lora, lora_at>>
vars == <<pc, keep_running, usb, fd, clock, now, telemetry_seq, timers, log,
          lora_fd, sent>>

Packet == [seq : Nat, ts : Nat]

Running == pc \notin {"stopped", "down"}

\* The clock moves on by d.
Elapse(d) == clock + d <= MaxTime /\ clock' = clock + d

\* The blocking calls of a step take their time.
Blocks == \E d \in 0..Stall : Elapse(d)

-----------------------------------------------------------------------------
Init ==
  /\ pc = "top"
  /\ keep_running = TRUE
  /\ usb \in BOOLEAN
  /\ fd = "closed"
  /\ clock = StartTime
  /\ now = 0
  /\ telemetry_seq = 0
  /\ next_report = 0 /\ last_lora_report = 0 /\ last_heartbeat = 0
  /\ last_stream_request = 0 /\ last_sync = 0
  /\ log = [state |-> "unopened", recs |-> <<>>, synced |-> 0,
            failed |-> FALSE]
  /\ lora_fd \in BOOLEAN
  /\ udp = <<>> /\ udp_at = <<>>
  /\ lora = <<>> /\ lora_at = <<>>

\* data_reader_open fails: wait and try again.  A signal ends the sleep.
ReconnectFails ==
  /\ pc = "top" /\ keep_running
  /\ fd = "closed" /\ ~usb
  /\ \E d \in 0..OpenRetry : Elapse(d)
  /\ UNCHANGED <<pc, keep_running, usb, fd, now, telemetry_seq, timers, log,
                 lora_fd, sent>>

\* data_reader_open succeeds; both announce timers are due at once.  The
\* pass goes on to its poll.
Reconnect ==
  /\ pc = "top" /\ keep_running
  /\ fd = "closed" /\ usb
  /\ fd' = "live"
  /\ last_heartbeat' = 0
  /\ last_stream_request' = 0
  /\ pc' = "poll"
  /\ UNCHANGED <<keep_running, usb, clock, now, telemetry_seq, next_report,
                 last_lora_report, last_sync, log, lora_fd, sent>>

\* How long poll() may wait.  (Mutant: without the cap.)
UncappedPollTime ==
  IF next_report > clock THEN next_report - clock ELSE 0
PollTime ==
  IF next_report <= clock THEN 0
  ELSE IF next_report - clock > MaxPoll THEN MaxPoll ELSE next_report - clock

\* How long poll() does wait: until bytes arrive, or the timeout; at once on
\* a port that hung up.
PollWaits == IF fd = "hung" THEN 0..Late ELSE 0..(PollTime + Late)

CanPoll == pc = "poll" \/ (pc = "top" /\ keep_running /\ fd # "closed")

\* data_reader_poll returns 0 or more frames.
Poll ==
  /\ CanPoll
  /\ fd = "hung" => "eof" \in HangupReads
  /\ \E d \in PollWaits : Elapse(d)
  /\ now' = clock'
  /\ pc' = "announce"
  /\ UNCHANGED <<keep_running, usb, fd, telemetry_seq, timers, log, lora_fd,
                 sent>>

\* data_reader_poll fails: close the port, pause, start the loop again.
PollFails ==
  /\ CanPoll
  /\ fd = "hung" /\ "error" \in HangupReads
  /\ fd' = "closed"
  /\ \E d \in 0..(Late + ReadRetry) : Elapse(d)
  /\ pc' = "top"
  /\ UNCHANGED <<keep_running, usb, now, telemetry_seq, timers, log, lora_fd,
                 sent>>

HeartbeatDue == now - last_heartbeat >= HeartbeatEvery
RequestDue == now - last_stream_request >= RequestEvery

\* The announce block: the heartbeat timer moves on whatever happens, the
\* request timer only when everything was written.  Writes fail on a hung-up
\* port, and may fail on a live one that stays unwritable.
Announce ==
  /\ pc = "announce"
  /\ pc' = "report"
  /\ IF HeartbeatDue
     THEN \E written \in {FALSE} \cup (IF fd = "live" THEN {TRUE} ELSE {}) :
            /\ last_heartbeat' = now
            /\ last_stream_request' =
                 IF written /\ RequestDue THEN now ELSE last_stream_request
            /\ Blocks
     ELSE UNCHANGED <<last_heartbeat, last_stream_request, clock>>
  /\ UNCHANGED <<keep_running, usb, fd, now, telemetry_seq, next_report,
                 last_lora_report, last_sync, log, lora_fd, sent>>

ReportDue == now >= next_report

\* Nothing to send in this pass.
NotYet ==
  /\ pc = "report" /\ ~ReportDue
  /\ pc' = "top"
  /\ UNCHANGED <<keep_running, usb, fd, clock, now, telemetry_seq, timers, log,
                 lora_fd, sent>>

\* Buffered records can get lost from the end, down to the synced ones.
Cut(l) == {SubSeq(l.recs, 1, n) : n \in l.synced..Len(l.recs)}

\* log_write(p): open lazily, append; any failure turns the log off, and its
\* fclose may lose what was buffered.  The record is in libc's buffer, not on
\* the card.
LogWrite(p) ==
  \/ log.state # "off" /\ log' = [log EXCEPT !.state = "open",
                                             !.recs = Append(@, p)]
  \/ /\ LogFails /\ log.state # "off"
     /\ \E recs \in Cut(log) : log' = [log EXCEPT !.state = "off", !.recs = recs]
  \/ log.state = "off" /\ log' = log

\* A packet is numbered, stamped with the pass's reading of the clock and
\* written to the log.
Sample ==
  /\ pc = "report" /\ ReportDue
  /\ LogWrite([seq |-> telemetry_seq, ts |-> now])
  /\ telemetry_seq' = telemetry_seq + 1
  /\ Blocks
  /\ pc' = "transmit"
  /\ UNCHANGED <<keep_running, usb, fd, now, timers, lora_fd, sent>>

\* The packet of this pass.  (Mutant: numbered again for the wire.)
Renumbered == [seq |-> telemetry_seq, ts |-> now]
Current == [seq |-> telemetry_seq - 1, ts |-> now]

\* Does it go out over LoRa too?  (Mutant: a limit one tick short.)
LoraDueEarly == lora_fd /\ now - last_lora_report >= LoraInterval - 1
LoraDue == lora_fd /\ now - last_lora_report >= LoraInterval

\* The next deadline: keep the cadence, or resynchronise a whole interval
\* behind.  (Mutants: always from now; never resynchronise.)
DriftingReport == now + SendInterval
CatchUpReport ==
  IF next_report = 0 THEN now + SendInterval ELSE next_report + SendInterval
NextReport ==
  IF next_report = 0 \/ now - next_report >= SendInterval
  THEN now + SendInterval
  ELSE next_report + SendInterval

\* Is the log pushed to the card?  (Mutant: the timer is never due.)
NeverSync == FALSE
SyncDue == now - last_sync >= SyncEvery

\* log_sync(), whose calls nobody looks at: everything written so far is
\* durable; or fflush or fsync fails, and libc drops what it could not write.
\* After a failure it is not known what a later success covers.  (Mutant:
\* counted in packets sent, which go on when the log is off.)
SyncedByCount(l) == {[l EXCEPT !.synced = telemetry_seq]}
Synced(l) ==
  IF l.state # "open" THEN {l}
  ELSE {[l EXCEPT !.synced = IF l.failed THEN @ ELSE Len(l.recs)]}
       \cup {[l EXCEPT !.recs = recs, !.failed = TRUE] :
               recs \in IF LogFails THEN Cut(l) ELSE {}}

\* The packet goes to UDP and, when it is due, to LoRa, whose timer moves on
\* even if the write fails; then the deadline and the sync timer.
Transmit ==
  /\ pc = "transmit"
  /\ udp' = Append(udp, Current) /\ udp_at' = Append(udp_at, clock)
  /\ Blocks
  /\ IF LoraDue
     THEN /\ lora' = Append(lora, Current) /\ lora_at' = Append(lora_at, clock')
          /\ last_lora_report' = now
     ELSE UNCHANGED <<lora, lora_at, last_lora_report>>
  /\ next_report' = NextReport
  /\ log' \in IF SyncDue THEN Synced(log) ELSE {log}
  /\ last_sync' = IF SyncDue THEN now ELSE last_sync
  /\ pc' = "top"
  /\ UNCHANGED <<keep_running, usb, fd, now, telemetry_seq, last_heartbeat,
                 last_stream_request, lora_fd>>

\* The loop sees keep_running = 0 at its top and leaves: close, log_close.
Stop ==
  /\ pc = "top" /\ ~keep_running
  /\ fd' = "closed"
  /\ log' \in Synced(log)
  /\ pc' = "stopped"
  /\ UNCHANGED <<keep_running, usb, clock, now, telemetry_seq, timers, lora_fd,
                 sent>>

-----------------------------------------------------------------------------
\* stop_handler
Signal ==
  /\ Running /\ keep_running
  /\ keep_running' = FALSE
  /\ UNCHANGED <<pc, usb, fd, clock, now, telemetry_seq, timers, log, lora_fd,
                 sent>>

\* The cable is pulled, or the autopilot reboots: an open port hangs up.
Unplug ==
  /\ Running /\ usb
  /\ usb' = FALSE
  /\ fd' = IF fd = "live" THEN "hung" ELSE fd
  /\ UNCHANGED <<pc, keep_running, clock, now, telemetry_seq, timers, log,
                 lora_fd, sent>>

\* The device comes back; a port opened before stays hung up.
Replug ==
  /\ Running /\ ~usb
  /\ usb' = TRUE
  /\ UNCHANGED <<pc, keep_running, fd, clock, now, telemetry_seq, timers, log,
                 lora_fd, sent>>

\* Power is lost: what was not synced may be gone, in any prefix.
PowerLoss ==
  /\ Running
  /\ pc' = "down"
  /\ \E recs \in Cut(log) : log' = [log EXCEPT !.recs = recs]
  /\ UNCHANGED <<keep_running, usb, fd, clock, now, telemetry_seq, timers,
                 lora_fd, sent>>

Environment == Signal \/ Unplug \/ Replug \/ PowerLoss

Next ==
  \/ ReconnectFails \/ Reconnect \/ Poll \/ PollFails \/ Announce
  \/ NotYet \/ Sample \/ Transmit \/ Stop
  \/ Environment

Spec == Init /\ [][Next]_vars

-----------------------------------------------------------------------------
Logs == [state : {"unopened", "open", "off"}, recs : Seq(Packet), synced : Nat,
         failed : BOOLEAN]

TypeOK ==
  /\ pc \in {"top", "poll", "announce", "report", "transmit", "stopped", "down"}
  /\ keep_running \in BOOLEAN /\ usb \in BOOLEAN /\ lora_fd \in BOOLEAN
  /\ fd \in {"closed", "live", "hung"}
  /\ clock \in Nat /\ now \in Nat /\ telemetry_seq \in Nat
  /\ next_report \in Nat /\ last_lora_report \in Nat /\ last_heartbeat \in Nat
  /\ last_stream_request \in Nat /\ last_sync \in Nat
  /\ log \in Logs
  /\ log.synced <= Len(log.recs)
  /\ udp \in Seq(Packet) /\ udp_at \in Seq(Nat) /\ Len(udp_at) = Len(udp)
  /\ lora \in Seq(Packet) /\ lora_at \in Seq(Nat) /\ Len(lora_at) = Len(lora)

\* "LoRa is intentionally rate-limited because the E220 air link is much
\* slower": n packets after another, the LoRa port is given a packet n LoRa
\* intervals later, but for the time the writes of one pass may block.  Writes
\* that block again and again never add up to a faster rate.
LoraPaced ==
  \A j \in 1..Len(lora) : \A i \in 1..(j - 1) :
    lora_at[j] - lora_at[i] >= (j - i) * LoraInterval - 3 * Stall

\* "resynchronise instead of trying to catch up": after any delay, between
\* two calls of sendto there is an interval for every packet in between, but
\* for the time that the writes before sendto may block in one pass.  (So
\* three calls can come close, when a pass that blocked meets one whose slot
\* it still reached; a backlog is never sent.)
NoBurst ==
  \A j \in 1..Len(udp) : \A i \in 1..(j - 1) :
    udp_at[j] - udp_at[i] > (j - i - 1) * SendInterval - 2 * Stall

\* "advancing it by exactly one interval keeps the long-run rate honest
\* instead of letting each pass's overshoot accumulate": as long as every
\* packet went out less than one interval after its slot, the slots are
\* still those of the first packet's grid.
OnTime ==
  \A i \in 1..Len(udp) :
    udp[i].ts < udp[1].ts + (i - 1) * SendInterval + SendInterval
NoDrift ==
  (udp # <<>> /\ OnTime) => next_report = udp[1].ts + Len(udp) * SendInterval

\* "packets received on either link can still be matched on seq", and "after
\* recovery the two files merge by timestamp": a packet number means one packet
\* everywhere.  Every LoRa packet is a UDP packet; a record of the log is the
\* packet with its number, and the numbers go up; and as long as no log_sync
\* failed, none is missing while the log is on and the power is.
Sampled == IF telemetry_seq > Len(udp) THEN Append(udp, Current) ELSE udp
LogMatchesWire ==
  /\ \A i \in 1..Len(lora) : \E j \in 1..Len(udp) : lora[i] = udp[j]
  /\ \A i \in 1..Len(log.recs) : \E k \in i..Len(Sampled) :
       log.recs[i] = Sampled[k] /\ Sampled[k].seq = k - 1
  /\ \A j \in 1..Len(log.recs) : \A i \in 1..(j - 1) :
       log.recs[i].seq < log.recs[j].seq
  /\ (pc # "down" /\ log.state = "open" /\ ~log.failed) =>
       Len(log.recs) = Len(Sampled)

\* "The file has to be durable on disk": as long as no log_sync failed, what
\* a power loss can take spans less than one sync period of records, except
\* between the writing of a record and the sync that its pass goes on to do,
\* and a clean stop loses nothing that was written while the log was on.
SyncWindow ==
  /\ (Running /\ pc # "transmit" /\ ~log.failed) =>
       \A i, j \in (log.synced + 1)..Len(log.recs) :
         log.recs[j].ts - log.recs[i].ts < SyncEvery
  /\ (pc = "stopped" /\ log.state = "open" /\ ~log.failed) =>
       log.synced = Len(log.recs)

\* "The cap keeps us waking often enough to service the 1 Hz heartbeat": on
\* an open port, a pass never finds the heartbeat overdue by more than the
\* length of one pass, even with a long send interval.
HeartbeatPrompt ==
  (pc = "announce" /\ last_heartbeat # 0) =>
    now - last_heartbeat < HeartbeatEvery + MaxPoll + Late + 2 * Stall
=============================================================================
