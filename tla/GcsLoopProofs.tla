---------------------------- MODULE GcsLoopProofs ----------------------------
(***************************************************************************)
(* Proofs about GcsLoop for all intervals, retry times, lateness and stalls *)
(* and an unbounded number of passes: the types, the two rates, the cadence, *)
(* the numbering of log and radios, what a power loss can take and how late  *)
(* a heartbeat can be.  Each has its own strengthening, next to it.          *)
(***************************************************************************)
EXTENDS GcsLoop, SequenceTheorems, TLAPS

LEMMA ElapseType ==
  ASSUME clock \in Nat, NEW d \in Nat, Elapse(d)
  PROVE  clock' \in Nat /\ clock' >= clock
  BY DEF Elapse

LEMMA BlocksType ==
  ASSUME clock \in Nat, Blocks
  PROVE  clock' \in Nat /\ clock' >= clock /\ clock' <= clock + Stall
<1>1. PICK d \in 0..Stall : Elapse(d)
  BY DEF Blocks
<1> QED BY <1>1, TimingAssumption DEF Elapse

LEMMA PollWaitsType ==
  ASSUME TypeOK, NEW d \in PollWaits PROVE d \in Nat
<1>1. PollTime \in Nat
  BY TimingAssumption DEF TypeOK, PollTime
<1> QED BY <1>1, TimingAssumption DEF PollWaits

LEMMA TypeInit == Init => TypeOK
  BY TimingAssumption DEF Init, TypeOK, Packet, Logs

-----------------------------------------------------------------------------
\* What the operations on the log do to its records.
LEMMA CutType ==
  ASSUME TypeOK, NEW recs \in Cut(log)
  PROVE  /\ recs \in Seq(Packet) /\ Len(recs) \in Nat
         /\ log.synced <= Len(recs) /\ Len(recs) <= Len(log.recs)
         /\ \A i \in 1..Len(recs) : recs[i] = log.recs[i]
<1>1. PICK n \in log.synced..Len(log.recs) : recs = SubSeq(log.recs, 1, n)
  BY DEF Cut
<1>2. /\ log.recs \in Seq(Packet) /\ Len(log.recs) \in Nat
      /\ log.synced \in Nat /\ n \in Nat /\ n <= Len(log.recs) /\ log.synced <= n
  BY DEF TypeOK, Logs
<1>3. \A i \in 1..n : log.recs[i] \in Packet
  BY <1>2, ElementOfSeq
<1>4. recs \in Seq(Packet) /\ Len(recs) = n /\ \A i \in 1..n : recs[i] = log.recs[i]
  BY <1>1, <1>2, <1>3, SubSeqProperties
<1> QED BY <1>2, <1>4

LEMMA LogTyped ==
  ASSUME TypeOK
  PROVE  /\ log.recs \in Seq(Packet) /\ Len(log.recs) \in Nat /\ log.synced \in Nat
         /\ log.synced <= Len(log.recs) /\ log.failed \in BOOLEAN
         /\ log.state \in {"unopened", "open", "off"}
  BY DEF TypeOK, Logs

\* A log off stays as it is; one that goes off may lose its last records.
LEMMA LogWriteCases ==
  ASSUME TypeOK, NEW p \in Packet, LogWrite(p)
  PROVE  /\ log'.synced = log.synced /\ log'.failed = log.failed
         /\ \/ log'.state = "off" /\ log.state # "off" /\ log'.recs \in Cut(log)
            \/ log'.state = "off" /\ log.state = "off" /\ log'.recs = log.recs
            \/ /\ log.state # "off" /\ log'.state = "open"
               /\ log'.recs = Append(log.recs, p)
<1>1. CASE log.state # "off" /\ log' = [log EXCEPT !.state = "open",
                                                   !.recs = Append(@, p)]
  BY <1>1 DEF TypeOK, Logs
<1>2. ASSUME NEW recs \in Cut(log), log.state # "off",
             log' = [log EXCEPT !.state = "off", !.recs = recs]
      PROVE  /\ log'.synced = log.synced /\ log'.failed = log.failed
             /\ log'.state = "off" /\ log'.recs = recs
  BY <1>2 DEF TypeOK, Logs
<1>3. CASE log.state = "off" /\ log' = log
  BY <1>3
<1> QED BY <1>1, <1>2, <1>3 DEF LogWrite

LEMMA LogWriteType ==
  ASSUME TypeOK, NEW p \in Packet, LogWrite(p)
  PROVE  log' \in Logs /\ log'.synced <= Len(log'.recs)
<1>0. /\ log.recs \in Seq(Packet) /\ Len(log.recs) \in Nat
      /\ log.synced \in Nat /\ log.synced <= Len(log.recs)
  BY LogTyped
<1>1. CASE log.state # "off" /\ log' = [log EXCEPT !.state = "open",
                                                   !.recs = Append(@, p)]
  <2>1. Append(log.recs, p) \in Seq(Packet) /\ Len(Append(log.recs, p)) = Len(log.recs) + 1
    BY <1>0, AppendProperties
  <2>2. log'.recs = Append(log.recs, p) /\ log'.synced = log.synced
    BY <1>1 DEF TypeOK, Logs
  <2>3. log'.synced <= Len(log'.recs)
    BY <2>1, <2>2, <1>0
  <2>4. log' \in Logs
    BY <1>1, <2>1 DEF TypeOK, Logs
  <2> QED BY <2>3, <2>4
<1>2. ASSUME NEW recs \in Cut(log), log.state # "off",
             log' = [log EXCEPT !.state = "off", !.recs = recs]
      PROVE  log' \in Logs /\ log'.synced <= Len(log'.recs)
  <2>1. recs \in Seq(Packet) /\ log.synced <= Len(recs)
    BY CutType
  <2> QED BY <1>2, <2>1 DEF TypeOK, Logs
<1>3. CASE log.state = "off" /\ log' = log
  BY <1>3 DEF TypeOK
<1> QED BY <1>1, <1>2, <1>3 DEF LogWrite

\* A log_sync covers all records, or fails and may lose the last ones.
LEMMA SyncedCases ==
  ASSUME TypeOK, NEW l \in Synced(log)
  PROVE  /\ l.state = log.state
         /\ \/ log.state # "open" /\ l = log
            \/ /\ log.state = "open" /\ l.recs = log.recs /\ l.failed = log.failed
               /\ l.synced = IF log.failed THEN log.synced ELSE Len(log.recs)
            \/ /\ log.state = "open" /\ l.failed = TRUE /\ l.synced = log.synced
               /\ l.recs \in Cut(log)
<1>1. CASE log.state # "open"
  BY <1>1 DEF Synced
<1>2. CASE log.state = "open" /\ l = [log EXCEPT !.synced = IF log.failed THEN @
                                                           ELSE Len(log.recs)]
  BY <1>2 DEF TypeOK, Logs
<1>3. ASSUME log.state = "open", NEW recs \in Cut(log),
             l = [log EXCEPT !.recs = recs, !.failed = TRUE]
      PROVE  l.state = log.state /\ l.failed = TRUE /\ l.synced = log.synced
             /\ l.recs = recs
  BY <1>3 DEF TypeOK, Logs
<1> QED BY <1>1, <1>2, <1>3 DEF Synced

LEMMA SyncedType ==
  ASSUME TypeOK, NEW l \in Synced(log)
  PROVE  l \in Logs /\ l.synced <= Len(l.recs)
<1>0. /\ log.recs \in Seq(Packet) /\ Len(log.recs) \in Nat
      /\ log.synced \in Nat /\ log.synced <= Len(log.recs)
  BY LogTyped
<1>1. CASE log.state # "open"
  BY <1>1 DEF Synced, TypeOK
<1>2. CASE log.state = "open" /\ l = [log EXCEPT !.synced = IF log.failed THEN @
                                                           ELSE Len(log.recs)]
  <2>1. l.recs = log.recs /\ l.synced \in {log.synced, Len(log.recs)}
    BY <1>2 DEF TypeOK, Logs
  <2>2. l \in Logs
    BY <1>2, <1>0 DEF TypeOK, Logs
  <2>3. l.synced <= Len(l.recs)
    BY <2>1, <1>0
  <2> QED BY <2>2, <2>3
<1>3. ASSUME log.state = "open", NEW recs \in Cut(log),
             l = [log EXCEPT !.recs = recs, !.failed = TRUE]
      PROVE  l \in Logs /\ l.synced <= Len(l.recs)
  <2>1. recs \in Seq(Packet) /\ log.synced <= Len(recs)
    BY CutType
  <2> QED BY <1>3, <2>1 DEF TypeOK, Logs
<1> QED BY <1>1, <1>2, <1>3 DEF Synced

LEMMA PowerLossCuts ==
  ASSUME TypeOK, PowerLoss
  PROVE  /\ log' \in Logs /\ log'.synced <= Len(log'.recs)
         /\ log'.state = log.state /\ log'.synced = log.synced
         /\ log'.failed = log.failed /\ log'.recs \in Cut(log)
<1>1. PICK recs \in Cut(log) : log' = [log EXCEPT !.recs = recs]
  BY DEF PowerLoss
<1>2. recs \in Seq(Packet) /\ log.synced <= Len(recs)
  BY CutType
<1>3. /\ log'.recs = recs /\ log'.synced = log.synced
      /\ log'.state = log.state /\ log'.failed = log.failed
  BY <1>1 DEF TypeOK, Logs
<1>4. log' \in Logs
  BY <1>1, <1>2 DEF TypeOK, Logs
<1> QED BY <1>2, <1>3, <1>4

-----------------------------------------------------------------------------
InTransmit == pc = "transmit" => telemetry_seq >= 1 /\ now >= next_report

LEMMA InTransmitStep == TypeOK /\ InTransmit /\ [Next]_vars => InTransmit'
<1> SUFFICES ASSUME TypeOK, InTransmit, [Next]_vars PROVE InTransmit'
  OBVIOUS
<1>1. CASE Sample
  BY <1>1 DEF Sample, ReportDue, TypeOK, InTransmit, timers
<1>2. CASE ReconnectFails \/ Reconnect \/ Poll \/ PollFails \/ Announce \/ NotYet
             \/ Transmit \/ Stop \/ PowerLoss
  BY <1>2 DEF ReconnectFails, Reconnect, Poll, PollFails, Announce, NotYet,
              Transmit, Stop, PowerLoss, CanPoll, TypeOK, InTransmit
<1>3. CASE Signal \/ Unplug \/ Replug \/ UNCHANGED vars
  BY <1>3 DEF Signal, Unplug, Replug, vars, timers, InTransmit
<1> QED BY <1>1, <1>2, <1>3 DEF Next, Environment

LEMMA AppendAt ==
  ASSUME NEW s \in Seq(Nat), NEW t \in Nat
  PROVE  /\ Append(s, t) \in Seq(Nat) /\ Len(Append(s, t)) = Len(s) + 1
         /\ \A i \in 1..Len(s) : Append(s, t)[i] = s[i]
         /\ Append(s, t)[Len(s) + 1] = t
  BY AppendProperties

\* What a transmission appends to the two histories of UDP.
LEMMA UdpAppend ==
  ASSUME TypeOK, InTransmit, Transmit
  PROVE  /\ udp' \in Seq(Packet) /\ udp_at' \in Seq(Nat)
         /\ Len(udp') = Len(udp) + 1 /\ Len(udp_at') = Len(udp) + 1
         /\ \A i \in 1..Len(udp) : udp'[i] = udp[i] /\ udp_at'[i] = udp_at[i]
         /\ udp'[Len(udp) + 1] = Current /\ udp'[Len(udp) + 1].ts = now
         /\ udp_at'[Len(udp) + 1] = clock
<1>1. /\ udp' = Append(udp, Current) /\ udp \in Seq(Packet) /\ Current.ts = now
      /\ udp_at' = Append(udp_at, clock) /\ udp_at \in Seq(Nat)
      /\ clock \in Nat /\ Len(udp_at) = Len(udp)
  BY DEF Transmit, TypeOK, Current
<1>2. Current \in Packet
  BY DEF TypeOK, InTransmit, Transmit, Current, Packet
<1>3. /\ udp' \in Seq(Packet) /\ Len(udp') = Len(udp) + 1
      /\ \A i \in 1..Len(udp) : udp'[i] = udp[i]
      /\ udp'[Len(udp) + 1] = Current
  BY <1>1, <1>2, AppendProperties
<1>4. /\ udp_at' \in Seq(Nat) /\ Len(udp_at') = Len(udp) + 1
      /\ \A i \in 1..Len(udp) : udp_at'[i] = udp_at[i]
      /\ udp_at'[Len(udp) + 1] = clock
  BY <1>1, AppendAt
<1> QED BY <1>1, <1>3, <1>4

\* And to those of LoRa, when it is due.
LEMMA LoraAppend ==
  ASSUME TypeOK, InTransmit, Transmit, LoraDue
  PROVE  /\ lora' \in Seq(Packet) /\ lora_at' \in Seq(Nat)
         /\ Len(lora') = Len(lora) + 1 /\ Len(lora_at') = Len(lora) + 1
         /\ \A i \in 1..Len(lora) : lora'[i] = lora[i] /\ lora_at'[i] = lora_at[i]
         /\ lora'[Len(lora) + 1] = Current /\ lora'[Len(lora) + 1].ts = now
         /\ lora_at'[Len(lora) + 1] = clock'
<1>1. /\ lora' = Append(lora, Current) /\ lora \in Seq(Packet) /\ Current.ts = now
      /\ lora_at' = Append(lora_at, clock') /\ lora_at \in Seq(Nat)
      /\ Len(lora_at) = Len(lora)
  BY DEF Transmit, TypeOK, Current
<1>2. Current \in Packet /\ clock' \in Nat
  BY BlocksType DEF TypeOK, InTransmit, Transmit, Current, Packet
<1>3. /\ lora' \in Seq(Packet) /\ Len(lora') = Len(lora) + 1
      /\ \A i \in 1..Len(lora) : lora'[i] = lora[i]
      /\ lora'[Len(lora) + 1] = Current
  BY <1>1, <1>2, AppendProperties
<1>4. /\ lora_at' \in Seq(Nat) /\ Len(lora_at') = Len(lora) + 1
      /\ \A i \in 1..Len(lora) : lora_at'[i] = lora_at[i]
      /\ lora_at'[Len(lora) + 1] = clock'
  BY <1>1, <1>2, AppendAt
<1> QED BY <1>1, <1>3, <1>4

LEMMA TypeStep == TypeOK /\ InTransmit /\ [Next]_vars => TypeOK'
<1> SUFFICES ASSUME TypeOK, InTransmit, [Next]_vars PROVE TypeOK'
  OBVIOUS
<1>1. CASE ReconnectFails
  <2>1. clock' \in Nat
    <3>1. PICK d \in 0..OpenRetry : Elapse(d)
      BY <1>1 DEF ReconnectFails
    <3> QED BY <3>1, ElapseType, TimingAssumption DEF TypeOK
  <2> QED BY <1>1, <2>1 DEF ReconnectFails, TypeOK, timers, sent
<1>2. CASE Reconnect
  BY <1>2 DEF Reconnect, TypeOK, sent
<1>3. CASE Poll
  <2>1. clock' \in Nat
    <3>1. PICK d \in PollWaits : Elapse(d)
      BY <1>3 DEF Poll
    <3> QED BY <3>1, ElapseType, PollWaitsType DEF TypeOK
  <2> QED BY <1>3, <2>1 DEF Poll, TypeOK, timers, sent
<1>4. CASE PollFails
  <2>1. clock' \in Nat
    <3>1. PICK d \in 0..(Late + ReadRetry) : Elapse(d)
      BY <1>4 DEF PollFails
    <3> QED BY <3>1, ElapseType, TimingAssumption DEF TypeOK
  <2> QED BY <1>4, <2>1 DEF PollFails, TypeOK, timers, sent
<1>5. CASE Announce
  <2>1. CASE HeartbeatDue
    <3>1. clock' \in Nat
      BY <1>5, <2>1, BlocksType DEF Announce, TypeOK
    <3>2. last_heartbeat' = now /\ last_stream_request' \in {now, last_stream_request}
      BY <1>5, <2>1 DEF Announce
    <3> QED BY <1>5, <3>1, <3>2 DEF Announce, TypeOK, sent
  <2>2. CASE ~HeartbeatDue
    BY <1>5, <2>2 DEF Announce, TypeOK, sent
  <2> QED BY <2>1, <2>2
<1>6. CASE NotYet
  BY <1>6 DEF NotYet, TypeOK, timers, sent
<1>7. CASE Sample
  <2>1. [seq |-> telemetry_seq, ts |-> now] \in Packet
    BY DEF TypeOK, Packet
  <2>2. log' \in Logs /\ log'.synced <= Len(log'.recs)
    BY <1>7, <2>1, LogWriteType DEF Sample
  <2>3. telemetry_seq' \in Nat /\ clock' \in Nat
    BY <1>7, BlocksType DEF Sample, TypeOK
  <2> QED BY <1>7, <2>2, <2>3 DEF Sample, TypeOK, timers, sent
<1>8. CASE Transmit
  <2>1. udp' \in Seq(Packet) /\ udp_at' \in Seq(Nat) /\ Len(udp_at') = Len(udp')
    BY <1>8, UdpAppend
  <2>2. /\ lora' \in Seq(Packet) /\ lora_at' \in Seq(Nat) /\ Len(lora_at') = Len(lora')
        /\ last_lora_report' \in Nat
    <3>1. CASE LoraDue
      <4>1. last_lora_report' \in Nat
        BY <1>8, <3>1 DEF Transmit, TypeOK
      <4> QED BY <1>8, <3>1, <4>1, LoraAppend
    <3>2. CASE ~LoraDue
      BY <1>8, <3>2 DEF Transmit, TypeOK
    <3> QED BY <3>1, <3>2
  <2>3. clock' \in Nat
    BY <1>8, BlocksType DEF Transmit, TypeOK
  <2>4. next_report' \in Nat
    BY <1>8, TimingAssumption DEF Transmit, NextReport, TypeOK
  <2>5. /\ log' \in Logs /\ log'.synced <= Len(log'.recs)
        /\ last_sync' \in Nat
    <3>1. log' = log \/ log' \in Synced(log)
      BY <1>8 DEF Transmit
    <3>2. last_sync' = now \/ last_sync' = last_sync
      BY <1>8 DEF Transmit
    <3> QED BY <3>1, <3>2, SyncedType DEF TypeOK
  <2> QED BY <1>8, <2>1, <2>2, <2>3, <2>4, <2>5 DEF Transmit, TypeOK
<1>9. CASE Stop
  <2>1. log' \in Logs /\ log'.synced <= Len(log'.recs)
    BY <1>9, SyncedType DEF Stop
  <2> QED BY <1>9, <2>1 DEF Stop, TypeOK, timers, sent
<1>10. CASE Signal
  BY <1>10 DEF Signal, TypeOK, timers, sent
<1>11. CASE Unplug
  BY <1>11 DEF Unplug, TypeOK, timers, sent
<1>12. CASE Replug
  BY <1>12 DEF Replug, TypeOK, timers, sent
<1>13. CASE PowerLoss
  <2>1. log' \in Logs /\ log'.synced <= Len(log'.recs)
    BY <1>13, PowerLossCuts
  <2> QED BY <1>13, <2>1 DEF PowerLoss, TypeOK, timers, sent
<1>14. CASE UNCHANGED vars
  BY <1>14 DEF vars, TypeOK, timers, sent
<1> QED BY <1>1, <1>2, <1>3, <1>4, <1>5, <1>6, <1>7, <1>8, <1>9, <1>10, <1>11,
           <1>12, <1>13, <1>14 DEF Next, Environment

\* Every state of the sender has its type, whatever the bounds.
THEOREM TypeCorrect == Spec => [](TypeOK /\ InTransmit)
<1>1. Init => InTransmit
  BY DEF Init, InTransmit
<1> QED BY <1>1, TypeInit, TypeStep, InTransmitStep, PTL DEF Spec

-----------------------------------------------------------------------------
\* A pass's reading of the clock is never ahead of it, and behind it by what
\* the writes of the pass have taken so far.
ClockAhead ==
  /\ now <= clock
  /\ pc = "announce" => clock = now
  /\ pc = "report" => clock <= now + Stall
  /\ pc = "transmit" => clock <= now + 2 * Stall

LEMMA ClockStep ==
  ASSUME TypeOK, [Next]_vars
  PROVE  /\ clock' \in Nat /\ clock' >= clock
         /\ now' = now \/ (Poll /\ now' = clock')
<1>0. clock \in Nat /\ now \in Nat
  BY DEF TypeOK
<1>1. CASE ReconnectFails
  <2>1. PICK d \in 0..OpenRetry : Elapse(d)
    BY <1>1 DEF ReconnectFails
  <2> QED BY <1>1, <2>1, ElapseType, TimingAssumption, <1>0 DEF ReconnectFails
<1>2. CASE Poll
  <2>1. PICK d \in PollWaits : Elapse(d)
    BY <1>2 DEF Poll
  <2> QED BY <1>2, <2>1, ElapseType, PollWaitsType, <1>0 DEF Poll
<1>3. CASE PollFails
  <2>1. PICK d \in 0..(Late + ReadRetry) : Elapse(d)
    BY <1>3 DEF PollFails
  <2> QED BY <1>3, <2>1, ElapseType, TimingAssumption, <1>0 DEF PollFails
<1>4. CASE Announce \/ Sample \/ Transmit
  <2>1. now' = now /\ (clock' = clock \/ Blocks)
    BY <1>4 DEF Announce, Sample, Transmit
  <2> QED BY <2>1, BlocksType, <1>0
<1>5. CASE Reconnect \/ NotYet \/ Stop \/ Environment \/ UNCHANGED vars
  BY <1>0, <1>5 DEF Reconnect, NotYet, Stop, Environment, Signal, Unplug, Replug,
                    PowerLoss, vars
<1> QED BY <1>1, <1>2, <1>3, <1>4, <1>5 DEF Next

LEMMA ClockAheadStep == TypeOK /\ ClockAhead /\ [Next]_vars => ClockAhead'
<1> SUFFICES ASSUME TypeOK, ClockAhead, [Next]_vars PROVE ClockAhead'
  OBVIOUS
<1>0. clock \in Nat /\ now \in Nat /\ Stall \in Nat
  BY TimingAssumption DEF TypeOK
<1>1. now' <= clock'
  BY <1>0, ClockStep DEF ClockAhead
<1>2. CASE Poll
  BY <1>1, <1>2 DEF ClockAhead, Poll
<1>3. CASE Announce
  <2>1. pc = "announce" /\ pc' = "report" /\ now' = now /\ clock = now
    BY <1>3 DEF Announce, ClockAhead
  <2>2. clock' = clock \/ Blocks
    BY <1>3 DEF Announce
  <2>3. clock' <= clock + Stall
    BY <2>2, BlocksType, <1>0
  <2> QED BY <1>1, <2>1, <2>3 DEF ClockAhead
<1>4. CASE Sample
  <2>1. pc = "report" /\ pc' = "transmit" /\ now' = now /\ clock <= now + Stall
    BY <1>4 DEF Sample, ClockAhead
  <2>2. clock' \in Nat /\ clock' <= clock + Stall
    BY <1>4, BlocksType, <1>0 DEF Sample
  <2>3. clock' <= now' + 2 * Stall
    BY <2>1, <2>2, <1>0
  <2> QED BY <1>1, <2>1, <2>3 DEF ClockAhead
<1>5. CASE ~Poll /\ ~Announce /\ ~Sample
  <2>1. /\ pc' = "announce" => pc = "announce" /\ clock' = clock /\ now' = now
        /\ pc' = "report" => pc = "report" /\ clock' = clock /\ now' = now
        /\ pc' = "transmit" => pc = "transmit" /\ clock' = clock /\ now' = now
    BY <1>5 DEF Next, Environment, ReconnectFails, Reconnect, PollFails,
                NotYet, Transmit, Stop, Signal, Unplug, Replug, PowerLoss, vars
  <2> QED BY <1>1, <2>1 DEF ClockAhead
<1> QED BY <1>2, <1>3, <1>4, <1>5

LEMMA QuietStep ==
  ASSUME [Next]_vars, ~Transmit
  PROVE  UNCHANGED <<next_report, last_lora_report, udp, lora, udp_at, lora_at>>
  BY DEF Next, Environment, ReconnectFails, Reconnect, Poll, PollFails, Announce,
         NotYet, Sample, Stop, Signal, Unplug, Replug, PowerLoss, vars, timers, sent

\* A packet is handed over after its time stamp was read, and within the
\* writes of one pass.
HandedSoon ==
  /\ \A i \in 1..Len(udp) :
       udp[i].ts <= udp_at[i] /\ udp_at[i] <= udp[i].ts + 2 * Stall
  /\ \A i \in 1..Len(lora) :
       lora[i].ts <= lora_at[i] /\ lora_at[i] <= lora[i].ts + 3 * Stall

LEMMA HandedStep ==
  TypeOK /\ InTransmit /\ ClockAhead /\ HandedSoon /\ [Next]_vars => HandedSoon'
<1> SUFFICES ASSUME TypeOK, InTransmit, ClockAhead, HandedSoon, [Next]_vars
             PROVE  HandedSoon'
  OBVIOUS
<1>0. /\ clock \in Nat /\ now \in Nat /\ Stall \in Nat
      /\ Len(udp) \in Nat /\ Len(lora) \in Nat
  BY TimingAssumption DEF TypeOK
<1>1. CASE Transmit
  <2>1. now <= clock /\ clock <= now + 2 * Stall
    BY <1>1 DEF Transmit, ClockAhead
  <2>2. clock' \in Nat /\ clock <= clock' /\ clock' <= clock + Stall
    BY <1>1, <1>0, BlocksType DEF Transmit
  <2>3. now <= clock' /\ clock' <= now + 3 * Stall
    BY <2>1, <2>2, <1>0
  <2>4. ASSUME NEW i \in 1..Len(udp')
        PROVE  udp'[i].ts <= udp_at'[i] /\ udp_at'[i] <= udp'[i].ts + 2 * Stall
    <3>1. i \in 1..Len(udp) \/ i = Len(udp) + 1
      BY <1>1, <1>0, UdpAppend
    <3>2. CASE i \in 1..Len(udp)
      <4>1. udp'[i] = udp[i] /\ udp_at'[i] = udp_at[i]
        BY <3>2, <1>1, UdpAppend
      <4> QED BY <3>2, <4>1 DEF HandedSoon
    <3>3. CASE i = Len(udp) + 1
      <4>1. udp'[i].ts = now /\ udp_at'[i] = clock
        BY <3>3, <1>1, UdpAppend
      <4> QED BY <4>1, <2>1
    <3> QED BY <3>1, <3>2, <3>3
  <2>5. ASSUME NEW i \in 1..Len(lora')
        PROVE  lora'[i].ts <= lora_at'[i] /\ lora_at'[i] <= lora'[i].ts + 3 * Stall
    <3>1. CASE ~LoraDue
      <4>1. lora' = lora /\ lora_at' = lora_at
        BY <1>1, <3>1 DEF Transmit
      <4> QED BY <4>1 DEF HandedSoon
    <3>2. CASE LoraDue /\ i \in 1..Len(lora)
      <4>1. lora'[i] = lora[i] /\ lora_at'[i] = lora_at[i]
        BY <3>2, <1>1, LoraAppend
      <4> QED BY <3>2, <4>1 DEF HandedSoon
    <3>3. CASE LoraDue /\ i = Len(lora) + 1
      <4>1. lora'[i].ts = now /\ lora_at'[i] = clock'
        BY <3>3, <1>1, LoraAppend
      <4> QED BY <4>1, <2>3
    <3>4. LoraDue => Len(lora') = Len(lora) + 1
      BY <1>1, LoraAppend
    <3> QED BY <3>1, <3>2, <3>3, <3>4, <1>0
  <2> QED BY <2>4, <2>5 DEF HandedSoon
<1>2. CASE ~Transmit
  BY <1>2, QuietStep DEF HandedSoon
<1> QED BY <1>1, <1>2

LEMMA ClockAndHanded == Spec => [](TypeOK /\ InTransmit /\ ClockAhead /\ HandedSoon)
<1>1. Init => ClockAhead /\ HandedSoon
  BY TimingAssumption DEF Init, ClockAhead, HandedSoon
<1> QED BY <1>1, TypeCorrect, ClockAheadStep, HandedStep, PTL DEF Spec

\* The types the arithmetic on the histories needs.
LEMMA SentTyped ==
  ASSUME TypeOK
  PROVE  /\ udp \in Seq(Packet) /\ Len(udp) \in Nat
         /\ \A i \in 1..Len(udp) : udp[i].ts \in Nat /\ udp_at[i] \in Nat
         /\ lora \in Seq(Packet) /\ Len(lora) \in Nat
         /\ \A i \in 1..Len(lora) : lora[i].ts \in Nat /\ lora_at[i] \in Nat
<1>1. /\ udp \in Seq(Packet) /\ Len(udp) \in Nat
      /\ lora \in Seq(Packet) /\ Len(lora) \in Nat
      /\ udp_at \in Seq(Nat) /\ Len(udp_at) = Len(udp)
      /\ lora_at \in Seq(Nat) /\ Len(lora_at) = Len(lora)
  BY DEF TypeOK
<1>2. /\ \A i \in 1..Len(udp) : udp[i] \in Packet
      /\ \A i \in 1..Len(lora) : lora[i] \in Packet
  BY <1>1, ElementOfSeq
<1>3. /\ \A i \in 1..Len(udp) : udp_at[i] \in Nat
      /\ \A i \in 1..Len(lora) : lora_at[i] \in Nat
  BY <1>1, ElementOfSeq
<1>4. /\ \A i \in 1..Len(udp) : udp[i].ts \in Nat
      /\ \A i \in 1..Len(lora) : lora[i].ts \in Nat
  BY <1>2 DEF Packet
<1> QED BY <1>1, <1>3, <1>4

LEMMA OneMore ==
  ASSUME NEW n \in Int, NEW k \in Int PROVE (n + 1) * k = n * k + k /\ n * k \in Int
  OBVIOUS

-----------------------------------------------------------------------------
\* The inductive invariant of the LoRa rate: the timer is the time stamp of
\* the last packet, and the stamps are whole intervals apart.
LoraTimer == lora # <<>> => last_lora_report = lora[Len(lora)].ts
LoraSpaced ==
  \A j \in 1..Len(lora) : \A i \in 1..(j - 1) :
    lora[j].ts - lora[i].ts >= (j - i) * LoraInterval

LEMMA LoraStep ==
  /\ TypeOK /\ InTransmit /\ LoraTimer /\ LoraSpaced /\ [Next]_vars
  => LoraTimer' /\ LoraSpaced'
<1> SUFFICES ASSUME TypeOK, InTransmit, LoraTimer, LoraSpaced, [Next]_vars
             PROVE  LoraTimer' /\ LoraSpaced'
  OBVIOUS
<1>0. /\ lora \in Seq(Packet) /\ Len(lora) \in Nat /\ LoraInterval \in Nat
      /\ \A i \in 1..Len(lora) : lora[i].ts \in Nat
      /\ now \in Nat /\ last_lora_report \in Nat
  BY SentTyped, TimingAssumption DEF TypeOK
<1>1. CASE Transmit /\ LoraDue
  <2>1. /\ Len(lora') = Len(lora) + 1
        /\ \A i \in 1..Len(lora) : lora'[i] = lora[i]
        /\ lora'[Len(lora) + 1].ts = now
    BY <1>1, LoraAppend
  <2>2. last_lora_report' = now /\ now - last_lora_report >= LoraInterval
    BY <1>1 DEF Transmit, LoraDue
  <2>3. LoraTimer'
    BY <2>1, <2>2 DEF LoraTimer
  <2>4. ASSUME NEW j \in 1..Len(lora'), NEW i \in 1..(j - 1)
        PROVE  lora'[j].ts - lora'[i].ts >= (j - i) * LoraInterval
    <3>1. j \in 1..Len(lora) \/ j = Len(lora) + 1
      BY <2>1, <1>0
    <3>2. i \in 1..Len(lora)
      BY <2>1, <1>0
    <3>3. CASE j \in 1..Len(lora)
      BY <2>1, <3>2, <3>3 DEF LoraSpaced
    <3>4. CASE j = Len(lora) + 1
      <4>1. lora # <<>> /\ Len(lora) \in 1..Len(lora)
        BY <3>2, <1>0
      <4>2. lora[Len(lora)].ts = last_lora_report
        BY <4>1 DEF LoraTimer
      <4> DEFINE gap == (Len(lora) - i) * LoraInterval
      <4>3. (j - i) * LoraInterval = gap + LoraInterval /\ gap \in Int
        <5>1. j - i = (Len(lora) - i) + 1 /\ Len(lora) - i \in Int
          BY <3>4, <3>2, <1>0
        <5> QED BY <5>1, OneMore, <1>0
      <4>4. lora[Len(lora)].ts - lora[i].ts >= gap
        <5>1. CASE i = Len(lora)
          <6>1. gap = 0
            BY <5>1, <1>0
          <6> QED BY <5>1, <6>1, <4>1, <1>0
        <5>2. CASE i # Len(lora)
          <6>1. i \in 1..(Len(lora) - 1)
            BY <5>2, <3>2, <1>0
          <6> QED BY <6>1, <4>1 DEF LoraSpaced
        <5> QED BY <5>1, <5>2
      <4>5. lora'[j].ts = now /\ lora'[i].ts = lora[i].ts /\ lora[i].ts \in Nat
        BY <3>4, <3>2, <2>1, <1>0
      <4>6. last_lora_report - lora[i].ts >= gap
        BY <4>2, <4>4
      <4> HIDE DEF gap
      <4>7. now - lora[i].ts >= gap + LoraInterval
        BY <4>3, <4>5, <4>6, <2>2, <1>0
      <4> QED BY <4>3, <4>5, <4>7
    <3> QED BY <3>1, <3>3, <3>4
  <2> QED BY <2>3, <2>4 DEF LoraSpaced
<1>2. CASE Transmit /\ ~LoraDue
  <2>1. lora' = lora /\ last_lora_report' = last_lora_report
    BY <1>2 DEF Transmit
  <2> QED BY <2>1 DEF LoraTimer, LoraSpaced
<1>3. CASE ~Transmit
  BY <1>3, QuietStep DEF LoraTimer, LoraSpaced
<1> QED BY <1>1, <1>2, <1>3

LEMMA LoraPacedFollows == TypeOK /\ HandedSoon /\ LoraSpaced => LoraPaced
<1> SUFFICES ASSUME TypeOK, HandedSoon, LoraSpaced,
                    NEW j \in 1..Len(lora), NEW i \in 1..(j - 1)
             PROVE  lora_at[j] - lora_at[i] >= (j - i) * LoraInterval - 3 * Stall
  BY DEF LoraPaced
<1>0. i \in 1..Len(lora) /\ Stall \in Nat /\ i \in Int /\ j \in Int
  BY SentTyped, TimingAssumption
<1> DEFINE gap == (j - i) * LoraInterval
<1>1. gap \in Int
  BY <1>0, TimingAssumption
<1>2. lora[j].ts - lora[i].ts >= gap
  BY DEF LoraSpaced
<1>3. lora[j].ts <= lora_at[j] /\ lora_at[i] <= lora[i].ts + 3 * Stall
  BY <1>0 DEF HandedSoon
<1>4. /\ lora[j].ts \in Nat /\ lora_at[j] \in Nat
      /\ lora[i].ts \in Nat /\ lora_at[i] \in Nat
  BY <1>0, SentTyped
<1> HIDE DEF gap
<1>5. lora_at[j] - lora_at[i] >= gap - 3 * Stall
  BY <1>0, <1>1, <1>2, <1>3, <1>4
<1> QED BY <1>5 DEF gap

\* Packets are given to the LoRa port at the LoRa rate, but for the time the
\* writes of a single pass may block, over any number of packets and for every
\* combination of intervals, delays, blocking writes and reconnections.
THEOREM LoraRate == Spec => []LoraPaced
<1>1. Init => LoraTimer /\ LoraSpaced
  BY DEF Init, LoraTimer, LoraSpaced
<1> QED BY <1>1, LoraStep, LoraPacedFollows, ClockAndHanded, PTL DEF Spec

-----------------------------------------------------------------------------
\* The inductive invariant of the send rate: the deadline is past every packet
\* by the intervals of the packets that followed it.
Deadline ==
  /\ udp = <<>> => next_report = 0
  /\ \A i \in 1..Len(udp) :
       next_report > udp[i].ts + (Len(udp) - i) * SendInterval
UdpSpaced ==
  \A j \in 1..Len(udp) : \A i \in 1..(j - 1) :
    udp[j].ts - udp[i].ts > (j - i - 1) * SendInterval

LEMMA DeadlineStep ==
  /\ TypeOK /\ InTransmit /\ Deadline /\ UdpSpaced /\ [Next]_vars
  => Deadline' /\ UdpSpaced'
<1> SUFFICES ASSUME TypeOK, InTransmit, Deadline, UdpSpaced, [Next]_vars
             PROVE  Deadline' /\ UdpSpaced'
  OBVIOUS
<1>0. /\ udp \in Seq(Packet) /\ Len(udp) \in Nat /\ now \in Nat
      /\ next_report \in Nat /\ SendInterval \in Nat /\ SendInterval >= 1
      /\ \A i \in 1..Len(udp) : udp[i].ts \in Nat
  BY SentTyped, TimingAssumption DEF TypeOK
<1>1. CASE Transmit
  <2>1. /\ Len(udp') = Len(udp) + 1
        /\ \A i \in 1..Len(udp) : udp'[i] = udp[i]
        /\ udp'[Len(udp) + 1].ts = now
    BY <1>1, UdpAppend
  <2>2. now >= next_report /\ next_report' = NextReport
    BY <1>1 DEF InTransmit, Transmit
  <2>3. next_report' > now /\ next_report' >= next_report + SendInterval
        /\ next_report' \in Nat
    BY <2>2, <1>0 DEF NextReport
  <2>4. ASSUME NEW i \in 1..Len(udp')
        PROVE  next_report' > udp'[i].ts + (Len(udp') - i) * SendInterval
    <3>1. i \in 1..Len(udp) \/ i = Len(udp) + 1
      BY <2>1, <1>0
    <3>2. CASE i = Len(udp) + 1
      <4>1. (Len(udp') - i) * SendInterval = 0 /\ udp'[i].ts = now
        BY <3>2, <2>1, <1>0
      <4> QED BY <4>1, <2>3, <1>0
    <3>3. CASE i \in 1..Len(udp)
      <4> DEFINE gap == (Len(udp) - i) * SendInterval
      <4>1. (Len(udp') - i) * SendInterval = gap + SendInterval /\ gap \in Int
        <5> DEFINE n == Len(udp) - i
        <5>1. Len(udp') - i = n + 1 /\ n \in Int /\ SendInterval \in Int
          BY <3>3, <2>1, <1>0
        <5> HIDE DEF n
        <5>2. (n + 1) * SendInterval = n * SendInterval + SendInterval
              /\ n * SendInterval \in Int
          BY <5>1, OneMore
        <5> QED BY <5>1, <5>2 DEF n
      <4>2. next_report > udp[i].ts + gap
        BY <3>3 DEF Deadline
      <4>3. udp'[i].ts = udp[i].ts /\ udp[i].ts \in Nat
        BY <3>3, <2>1, <1>0
      <4> HIDE DEF gap
      <4>4. next_report' > udp[i].ts + (gap + SendInterval)
        BY <4>1, <4>2, <4>3, <2>3, <1>0
      <4> QED BY <4>1, <4>3, <4>4
    <3> QED BY <3>1, <3>2, <3>3
  <2>5. udp' # <<>>
    BY <2>1, <1>0
  <2>6. ASSUME NEW j \in 1..Len(udp'), NEW i \in 1..(j - 1)
        PROVE  udp'[j].ts - udp'[i].ts > (j - i - 1) * SendInterval
    <3>1. j \in 1..Len(udp) \/ j = Len(udp) + 1
      BY <2>1, <1>0
    <3>2. i \in 1..Len(udp)
      BY <2>1, <1>0
    <3>3. CASE j \in 1..Len(udp)
      BY <2>1, <3>2, <3>3 DEF UdpSpaced
    <3>4. CASE j = Len(udp) + 1
      <4> DEFINE gap == (Len(udp) - i) * SendInterval
      <4>1. (j - i - 1) * SendInterval = gap /\ gap \in Int
        <5>1. j - i - 1 = Len(udp) - i /\ Len(udp) - i \in Int
          BY <3>4, <3>2, <1>0
        <5> QED BY <5>1, <1>0
      <4>2. next_report > udp[i].ts + gap
        BY <3>2 DEF Deadline
      <4>3. /\ udp'[j].ts = now /\ udp'[i].ts = udp[i].ts /\ udp[i].ts \in Nat
        BY <3>4, <3>2, <2>1, <1>0
      <4> HIDE DEF gap
      <4>4. now - udp[i].ts > gap
        BY <4>1, <4>2, <4>3, <2>2, <1>0
      <4> QED BY <4>1, <4>3, <4>4
    <3> QED BY <3>1, <3>3, <3>4
  <2> QED BY <2>4, <2>5, <2>6 DEF Deadline, UdpSpaced
<1>2. CASE ~Transmit
  BY <1>2, QuietStep DEF Deadline, UdpSpaced
<1> QED BY <1>1, <1>2

LEMMA NoBurstFollows == TypeOK /\ HandedSoon /\ UdpSpaced => NoBurst
<1> SUFFICES ASSUME TypeOK, HandedSoon, UdpSpaced,
                    NEW j \in 1..Len(udp), NEW i \in 1..(j - 1)
             PROVE  udp_at[j] - udp_at[i] > (j - i - 1) * SendInterval - 2 * Stall
  BY DEF NoBurst
<1>0. i \in 1..Len(udp) /\ Stall \in Nat /\ i \in Int /\ j \in Int
  BY SentTyped, TimingAssumption
<1> DEFINE gap == (j - i - 1) * SendInterval
<1>1. gap \in Int
  BY <1>0, TimingAssumption
<1>2. udp[j].ts - udp[i].ts > gap
  BY DEF UdpSpaced
<1>3. udp[j].ts <= udp_at[j] /\ udp_at[i] <= udp[i].ts + 2 * Stall
  BY <1>0 DEF HandedSoon
<1>4. udp[j].ts \in Nat /\ udp_at[j] \in Nat /\ udp[i].ts \in Nat /\ udp_at[i] \in Nat
  BY <1>0, SentTyped
<1> HIDE DEF gap
<1>5. udp_at[j] - udp_at[i] > gap - 2 * Stall
  BY <1>0, <1>1, <1>2, <1>3, <1>4
<1> QED BY <1>5 DEF gap

\* A backlog is never sent: however long a pass or a reconnection took, sendto
\* is called once per interval, but for what the writes of one pass block.
THEOREM BurstFree == Spec => []NoBurst
<1>1. Init => Deadline /\ UdpSpaced
  BY DEF Init, Deadline, UdpSpaced
<1> QED BY <1>1, DeadlineStep, NoBurstFollows, ClockAndHanded, PTL DEF Spec

-----------------------------------------------------------------------------
\* The grid of NoDrift goes on by one slot per packet: the deadline the last
\* packet met is on it, and the branch that keeps the cadence adds one slot.
LEMMA DriftStep ==
  /\ TypeOK /\ InTransmit /\ Deadline /\ NoDrift /\ [Next]_vars
  => NoDrift'
<1> SUFFICES ASSUME TypeOK, InTransmit, Deadline, NoDrift, [Next]_vars
             PROVE  NoDrift'
  OBVIOUS
<1>0. /\ udp \in Seq(Packet) /\ Len(udp) \in Nat /\ now \in Nat
      /\ next_report \in Nat /\ SendInterval \in Nat /\ SendInterval >= 1
  BY TimingAssumption DEF TypeOK
<1>1. CASE Transmit
  <2>1. /\ Len(udp') = Len(udp) + 1
        /\ \A i \in 1..Len(udp) : udp'[i] = udp[i]
        /\ udp'[Len(udp) + 1].ts = now
    BY <1>1, UdpAppend
  <2>2. now >= next_report /\ next_report' = NextReport
    BY <1>1 DEF InTransmit, Transmit
  <2>3. CASE udp = <<>>
    <3>1. Len(udp) = 0 /\ next_report = 0
      BY <2>3, EmptySeq DEF Deadline
    <3>2. next_report' = now + SendInterval
      BY <2>2, <3>1 DEF NextReport
    <3>3. Len(udp') = 1 /\ udp'[1].ts = now
      BY <2>1, <3>1
    <3>4. udp'[1].ts + Len(udp') * SendInterval = now + SendInterval
      BY <3>3, <1>0
    <3> QED BY <3>2, <3>4 DEF NoDrift
  <2>4. CASE udp # <<>> /\ OnTime'
    <3>1. Len(udp) >= 1 /\ 1 \in 1..Len(udp)
      BY <2>4, <1>0, EmptySeq
    <3>2. udp'[1] = udp[1]
      BY <2>1, <3>1
    <3>3. OnTime
      <4> SUFFICES ASSUME NEW i \in 1..Len(udp)
                   PROVE  udp[i].ts < udp[1].ts + (i - 1) * SendInterval + SendInterval
        BY DEF OnTime
      <4>1. i \in 1..Len(udp') /\ udp'[i] = udp[i]
        BY <2>1, <1>0
      <4> QED BY <4>1, <3>2, <2>4 DEF OnTime
    <3>4. next_report = udp[1].ts + Len(udp) * SendInterval
      BY <2>4, <3>3 DEF NoDrift
    <3>5. now < udp[1].ts + Len(udp) * SendInterval + SendInterval
      <4>1. Len(udp') \in 1..Len(udp') /\ Len(udp') - 1 = Len(udp)
        BY <2>1, <1>0
      <4>2. udp'[Len(udp')].ts < udp'[1].ts + (Len(udp') - 1) * SendInterval + SendInterval
        BY <4>1, <2>4 DEF OnTime
      <4> QED BY <4>1, <4>2, <3>2, <2>1
    <3>6. now - next_report < SendInterval
      BY <3>4, <3>5, <1>0
    <3>7. next_report # 0
      <4>1. udp[Len(udp)] \in Packet
        BY <3>1, <1>0, ElementOfSeq
      <4>2. /\ udp[Len(udp)].ts \in Nat /\ Len(udp) \in 1..Len(udp)
            /\ (Len(udp) - Len(udp)) * SendInterval = 0
        BY <4>1, <3>1, <1>0 DEF Packet
      <4>3. next_report > udp[Len(udp)].ts + (Len(udp) - Len(udp)) * SendInterval
        BY <4>2 DEF Deadline
      <4> QED BY <4>2, <4>3, <1>0
    <3>8. next_report' = next_report + SendInterval
      BY <3>6, <3>7, <2>2, <1>0 DEF NextReport
    <3>9. Len(udp') * SendInterval = Len(udp) * SendInterval + SendInterval
      BY <2>1, <1>0
    <3>10. udp[1] \in Packet
      BY <3>1, <1>0, ElementOfSeq
    <3>11. udp[1].ts \in Nat
      BY <3>10 DEF Packet
    <3>12. Len(udp) * SendInterval \in Nat
      BY <1>0
    <3>13. next_report' = udp'[1].ts + Len(udp') * SendInterval
      BY <3>2, <3>4, <3>8, <3>9, <3>11, <3>12, <1>0
    <3> QED BY <3>13 DEF NoDrift
  <2> QED BY <2>3, <2>4 DEF NoDrift
<1>2. CASE ~Transmit
  BY <1>2, QuietStep DEF NoDrift, OnTime
<1> QED BY <1>1, <1>2

\* The cadence does not drift: as long as no packet was a whole interval
\* late, every deadline is on the grid of the first packet, after any number
\* of packets.
THEOREM CadenceKept == Spec => []NoDrift
<1>1. Init => Deadline /\ UdpSpaced /\ NoDrift
  BY DEF Init, Deadline, UdpSpaced, NoDrift
<1> QED BY <1>1, DeadlineStep, DriftStep, TypeCorrect, PTL DEF Spec

-----------------------------------------------------------------------------
\* The strengthening that makes LogMatchesWire inductive: the number of the
\* next packet is the number of packets sent, one more between the log and
\* the wire; the packets are numbered in order; and a log not opened yet has
\* missed nothing.
Numbered ==
  /\ pc = "transmit" => telemetry_seq = Len(udp) + 1
  /\ pc = "down" => telemetry_seq \in {Len(udp), Len(udp) + 1}
  /\ pc \notin {"transmit", "down"} => telemetry_seq = Len(udp)

InOrder == \A k \in 1..Len(Sampled) : Sampled[k].seq = k - 1

Unopened == log.state = "unopened" => telemetry_seq = 0 /\ log.recs = <<>>

LEMMA NumberedStep ==
  TypeOK /\ InTransmit /\ Numbered /\ [Next]_vars => Numbered'
<1> SUFFICES ASSUME TypeOK, InTransmit, Numbered, [Next]_vars PROVE Numbered'
  OBVIOUS
<1>0. Len(udp) \in Nat /\ telemetry_seq \in Nat
  BY DEF TypeOK
<1>1. CASE Sample
  BY <1>0, <1>1 DEF Sample, Numbered, sent
<1>2. CASE Transmit
  <2>1. Len(udp') = Len(udp) + 1
    BY <1>2, UdpAppend
  <2> QED BY <1>2, <2>1 DEF Transmit, Numbered
<1>3. CASE ReconnectFails \/ Reconnect \/ Poll \/ PollFails \/ Announce \/ NotYet
             \/ Stop \/ PowerLoss
  BY <1>3, <1>0 DEF ReconnectFails, Reconnect, Poll, PollFails, Announce, NotYet,
                    Stop, PowerLoss, CanPoll, Numbered, Running, sent
<1>4. CASE Signal \/ Unplug \/ Replug \/ UNCHANGED vars
  BY <1>4 DEF Signal, Unplug, Replug, vars, timers, Numbered, sent
<1> QED BY <1>1, <1>2, <1>3, <1>4 DEF Next, Environment

\* What is sampled grows by the packet that is given to the log, and by
\* nothing else: sending it changes nothing.
LEMMA SampledStep ==
  ASSUME TypeOK, InTransmit, Numbered, [Next]_vars
  PROVE  /\ Sample => /\ Sampled = udp /\ telemetry_seq = Len(udp)
                      /\ Sampled' = Append(Sampled, [seq |-> telemetry_seq, ts |-> now])
         /\ ~Sample => Sampled' = Sampled
<1>0. Len(udp) \in Nat /\ telemetry_seq \in Nat
  BY DEF TypeOK
<1>1. ASSUME Sample
      PROVE  /\ Sampled = udp /\ telemetry_seq = Len(udp)
             /\ Sampled' = Append(Sampled, [seq |-> telemetry_seq, ts |-> now])
  <2>1. telemetry_seq = Len(udp) /\ udp' = udp /\ now' = now
        /\ telemetry_seq' = telemetry_seq + 1
    BY <1>1 DEF Sample, Numbered, sent
  <2>2. telemetry_seq' > Len(udp') /\ ~(telemetry_seq > Len(udp))
    BY <2>1, <1>0
  <2>3. telemetry_seq' - 1 = telemetry_seq
    BY <2>1, <1>0
  <2> QED BY <2>1, <2>2, <2>3 DEF Sampled, Current
<1>2. ASSUME Transmit PROVE Sampled' = Sampled
  <2>1. Len(udp') = Len(udp) + 1 /\ telemetry_seq' = telemetry_seq
        /\ udp' = Append(udp, Current)
    BY <1>2, UdpAppend DEF Transmit
  <2>2. telemetry_seq > Len(udp) /\ ~(telemetry_seq' > Len(udp'))
    BY <1>2, <2>1, <1>0 DEF Transmit, Numbered
  <2> QED BY <2>1, <2>2 DEF Sampled
<1>3. ASSUME Poll PROVE Sampled' = Sampled
  <2>1. telemetry_seq' = telemetry_seq /\ udp' = udp /\ telemetry_seq = Len(udp)
    BY <1>3 DEF Poll, CanPoll, Numbered, sent
  <2> QED BY <2>1, <1>0 DEF Sampled
<1>4. ASSUME ~Sample, ~Transmit, ~Poll PROVE UNCHANGED <<telemetry_seq, udp, now>>
  BY <1>4 DEF Next, Environment, ReconnectFails, Reconnect, PollFails, Announce,
              NotYet, Stop, Signal, Unplug, Replug, PowerLoss, vars, timers, sent
<1>5. ASSUME ~Sample, ~Transmit, ~Poll PROVE Sampled' = Sampled
  BY <1>4, <1>5 DEF Sampled, Current
<1>6. Sample => ~Transmit /\ ~Poll
  BY DEF Sample, Transmit, Poll, CanPoll
<1> QED BY <1>1, <1>2, <1>3, <1>5, <1>6

LEMMA SampledType ==
  ASSUME TypeOK
  PROVE  Sampled \in Seq(Packet) /\ Len(Sampled) \in Nat
<1>1. CASE telemetry_seq > Len(udp)
  <2>1. Current \in Packet /\ udp \in Seq(Packet)
    BY <1>1 DEF TypeOK, Current, Packet
  <2> QED BY <1>1, <2>1, AppendProperties DEF Sampled
<1>2. CASE ~(telemetry_seq > Len(udp))
  BY <1>2 DEF Sampled, TypeOK
<1> QED BY <1>1, <1>2

LEMMA InOrderStep ==
  TypeOK /\ InTransmit /\ Numbered /\ InOrder /\ [Next]_vars => InOrder'
<1> SUFFICES ASSUME TypeOK, InTransmit, Numbered, InOrder, [Next]_vars PROVE InOrder'
  OBVIOUS
<1>0. Sampled \in Seq(Packet) /\ Len(Sampled) \in Nat /\ telemetry_seq \in Nat
  BY SampledType DEF TypeOK
<1>1. CASE Sample
  <2> DEFINE p == [seq |-> telemetry_seq, ts |-> now]
  <2>1. p \in Packet /\ p.seq = telemetry_seq
    BY DEF TypeOK, Packet
  <2>2. Sampled' = Append(Sampled, p) /\ telemetry_seq = Len(Sampled)
    BY <1>1, SampledStep
  <2> HIDE DEF p
  <2>3. /\ Len(Sampled') = Len(Sampled) + 1
        /\ \A k \in 1..Len(Sampled) : Sampled'[k] = Sampled[k]
        /\ Sampled'[Len(Sampled) + 1] = p
    BY <2>1, <2>2, <1>0, AppendProperties
  <2>4. ASSUME NEW k \in 1..Len(Sampled') PROVE Sampled'[k].seq = k - 1
    <3>1. k \in 1..Len(Sampled) \/ k = Len(Sampled) + 1
      BY <2>3, <1>0
    <3> QED BY <3>1, <2>1, <2>2, <2>3, <1>0 DEF InOrder
  <2> QED BY <2>4 DEF InOrder
<1>2. CASE ~Sample
  BY <1>2, SampledStep DEF InOrder
<1> QED BY <1>1, <1>2

\* Only four steps touch the log.
LEMMA QuietLog ==
  ASSUME [Next]_vars, ~Sample, ~Transmit, ~Stop, ~PowerLoss
  PROVE  /\ log' = log /\ telemetry_seq' = telemetry_seq
         /\ pc = "down" => pc' = "down"
  BY DEF Next, Environment, ReconnectFails, Reconnect, Poll, PollFails, Announce,
         NotYet, Signal, Unplug, Replug, vars, timers, CanPoll, Running

\* A step other than a successful log_write leaves a beginning of the records.
Beginning(recs) ==
  /\ Len(recs) \in Nat /\ Len(recs) <= Len(log.recs)
  /\ \A i \in 1..Len(recs) : recs[i] = log.recs[i]

LEMMA LogStep ==
  ASSUME TypeOK, [Next]_vars
  PROVE  \/ /\ Sample /\ log.state # "off" /\ log'.state = "open"
            /\ log'.recs = Append(log.recs, [seq |-> telemetry_seq, ts |-> now])
            /\ log'.synced = log.synced /\ log'.failed = log.failed
         \/ /\ log'.state \in {log.state, "off"} /\ Beginning(log'.recs)
            /\ \/ log'.recs = log.recs /\ log'.failed = log.failed
               \/ log'.failed = TRUE \/ log'.state = "off" \/ pc' = "down"
<1>0. log.recs \in Seq(Packet) /\ Len(log.recs) \in Nat
  BY LogTyped
<1>1. Beginning(log.recs)
  BY <1>0 DEF Beginning
<1>2. \A recs \in Cut(log) : Beginning(recs)
  BY CutType DEF Beginning
<1>3. CASE Sample
  <2>1. [seq |-> telemetry_seq, ts |-> now] \in Packet
    BY DEF TypeOK, Packet
  <2>2. LogWrite([seq |-> telemetry_seq, ts |-> now])
    BY <1>3 DEF Sample
  <2>3. /\ log'.synced = log.synced /\ log'.failed = log.failed
        /\ \/ log'.state = "off" /\ log.state # "off" /\ log'.recs \in Cut(log)
           \/ log'.state = "off" /\ log.state = "off" /\ log'.recs = log.recs
           \/ /\ log.state # "off" /\ log'.state = "open"
              /\ log'.recs = Append(log.recs, [seq |-> telemetry_seq, ts |-> now])
    BY <2>1, <2>2, LogWriteCases
  <2> QED BY <1>1, <1>2, <1>3, <2>3
<1>4. CASE Transmit \/ Stop
  <2>1. log' = log \/ log' \in Synced(log)
    BY <1>4 DEF Transmit, Stop
  <2>2. /\ log'.state = log.state
        /\ \/ log'.recs = log.recs /\ log'.failed = log.failed
           \/ log'.failed = TRUE /\ log'.recs \in Cut(log)
    <3>1. CASE log' = log
      BY <3>1
    <3>2. CASE log' \in Synced(log)
      BY <3>2, SyncedCases
    <3> QED BY <2>1, <3>1, <3>2
  <2> QED BY <1>1, <1>2, <2>2
<1>5. CASE PowerLoss
  <2>1. log'.state = log.state /\ log'.recs \in Cut(log) /\ pc' = "down"
    BY <1>5, PowerLossCuts DEF PowerLoss
  <2> QED BY <1>2, <2>1
<1>6. CASE ~Sample /\ ~Transmit /\ ~Stop /\ ~PowerLoss
  BY <1>1, <1>6, QuietLog
<1> QED BY <1>3, <1>4, <1>5, <1>6

\* A log_write that leaves the log on has appended a record; nothing comes
\* after a power loss.
LEMMA SampleAppends ==
  ASSUME TypeOK, Sample, log'.state = "open"
  PROVE  log'.recs # log.recs
<1>1. [seq |-> telemetry_seq, ts |-> now] \in Packet
  BY DEF TypeOK, Packet
<1>2. log'.recs = Append(log.recs, [seq |-> telemetry_seq, ts |-> now])
  BY <1>1, LogWriteCases DEF Sample
<1>3. Len(log'.recs) = Len(log.recs) + 1 /\ Len(log.recs) \in Nat
  BY <1>1, <1>2, LogTyped, AppendProperties
<1> QED BY <1>3

LEMMA DownStays ==
  ASSUME [Next]_vars, pc = "down" PROVE pc' = "down"
  BY DEF Next, Environment, ReconnectFails, Reconnect, Poll, PollFails, Announce,
         NotYet, Sample, Transmit, Stop, Signal, Unplug, Replug, PowerLoss, vars,
         CanPoll, Running

LEMMA UnopenedStep ==
  TypeOK /\ InTransmit /\ Unopened /\ [Next]_vars => Unopened'
<1> SUFFICES ASSUME TypeOK, InTransmit, Unopened, [Next]_vars,
                    log'.state = "unopened"
             PROVE  telemetry_seq' = 0 /\ log'.recs = <<>>
  BY DEF Unopened
<1>1. log'.state \in {log.state, "off"} /\ Beginning(log'.recs)
  BY LogStep
<1>2. ~Sample
  <2>1. [seq |-> telemetry_seq, ts |-> now] \in Packet
    BY DEF TypeOK, Packet
  <2> QED BY <2>1, LogWriteCases DEF Sample
<1>3. telemetry_seq' = telemetry_seq
  BY <1>2, QuietLog DEF Transmit, Stop, PowerLoss
<1>4. telemetry_seq = 0 /\ log.recs = <<>>
  BY <1>1 DEF Unopened
<1>5. Len(log'.recs) = 0
  BY <1>1, <1>4, EmptySeq DEF Beginning
<1>6. log'.recs \in Seq(Packet)
  BY TypeStep DEF TypeOK, Logs
<1> QED BY <1>3, <1>4, <1>5, <1>6, EmptySeq

\* A LoRa packet is a copy of the UDP packet of the same pass.
LoraIsUdp == \A i \in 1..Len(lora) : \E j \in 1..Len(udp) : lora[i] = udp[j]

LEMMA LoraIsUdpStep ==
  TypeOK /\ InTransmit /\ LoraIsUdp /\ [Next]_vars => LoraIsUdp'
<1> SUFFICES ASSUME TypeOK, InTransmit, LoraIsUdp, [Next]_vars PROVE LoraIsUdp'
  OBVIOUS
<1>0. Len(udp) \in Nat /\ Len(lora) \in Nat
  BY DEF TypeOK
<1>1. CASE Transmit
  <2>1. /\ Len(udp') = Len(udp) + 1
        /\ \A i \in 1..Len(udp) : udp'[i] = udp[i]
        /\ udp'[Len(udp) + 1] = Current
    BY <1>1, UdpAppend
  <2>2. ASSUME NEW i \in 1..Len(lora)
        PROVE  \E j \in 1..Len(udp') : lora[i] = udp'[j]
    <3>1. PICK j \in 1..Len(udp) : lora[i] = udp[j]
      BY DEF LoraIsUdp
    <3>2. j \in 1..Len(udp') /\ udp'[j] = udp[j]
      BY <2>1, <1>0
    <3> QED BY <3>1, <3>2
  <2>3. CASE LoraDue
    <3>1. /\ Len(lora') = Len(lora) + 1
          /\ \A i \in 1..Len(lora) : lora'[i] = lora[i]
          /\ lora'[Len(lora) + 1] = Current
      BY <1>1, <2>3, LoraAppend
    <3>2. ASSUME NEW i \in 1..Len(lora')
          PROVE  \E j \in 1..Len(udp') : lora'[i] = udp'[j]
      <4>1. CASE i = Len(lora) + 1
        <5>1. Len(udp) + 1 \in 1..Len(udp') /\ lora'[i] = udp'[Len(udp) + 1]
          BY <4>1, <3>1, <2>1, <1>0
        <5> QED BY <5>1
      <4>2. CASE i \in 1..Len(lora)
        BY <4>2, <3>1, <2>2
      <4> QED BY <4>1, <4>2, <3>1, <1>0
    <3> QED BY <3>2 DEF LoraIsUdp
  <2>4. CASE ~LoraDue
    <3>1. lora' = lora
      BY <1>1, <2>4 DEF Transmit
    <3> QED BY <3>1, <2>2 DEF LoraIsUdp
  <2> QED BY <2>3, <2>4
<1>2. CASE ~Transmit
  BY <1>2, QuietStep DEF LoraIsUdp
<1> QED BY <1>1, <1>2

\* A record of the log is a packet sampled, at its place or later when records
\* before it were lost; the numbers go up; none is missing until a log_sync
\* fails.
RecordsAreSampled ==
  \A i \in 1..Len(log.recs) : \E k \in i..Len(Sampled) : log.recs[i] = Sampled[k]
NumbersGoUp ==
  \A j \in 1..Len(log.recs) : \A i \in 1..(j - 1) :
    log.recs[i].seq < log.recs[j].seq
NoneMissing ==
  (pc # "down" /\ log.state = "open" /\ ~log.failed) => Len(log.recs) = Len(Sampled)
LogIsSampled ==
  /\ Len(log.recs) <= Len(Sampled)
  /\ RecordsAreSampled /\ NumbersGoUp /\ NoneMissing

LEMMA LogIsSampledStep ==
  /\ TypeOK /\ InTransmit /\ Numbered /\ InOrder /\ Unopened /\ LogIsSampled
  /\ [Next]_vars
  => LogIsSampled'
<1> SUFFICES ASSUME TypeOK, InTransmit, Numbered, InOrder, Unopened, LogIsSampled,
                    [Next]_vars
             PROVE  LogIsSampled'
  OBVIOUS
<1>0. /\ Sampled \in Seq(Packet) /\ Len(Sampled) \in Nat
      /\ log.recs \in Seq(Packet) /\ Len(log.recs) \in Nat /\ telemetry_seq \in Nat
  BY SampledType, LogTyped DEF TypeOK
<1>1. /\ Len(Sampled') \in Nat /\ Len(Sampled') >= Len(Sampled)
      /\ \A k \in 1..Len(Sampled) : Sampled'[k] = Sampled[k]
  <2>1. CASE Sample
    <3>1. Sampled' = Append(Sampled, [seq |-> telemetry_seq, ts |-> now])
      BY <2>1, SampledStep
    <3>2. [seq |-> telemetry_seq, ts |-> now] \in Packet
      BY DEF TypeOK, Packet
    <3>3. /\ Len(Sampled') = Len(Sampled) + 1
          /\ \A k \in 1..Len(Sampled) : Sampled'[k] = Sampled[k]
      BY <1>0, <3>1, <3>2, AppendProperties
    <3> QED BY <3>3, <1>0
  <2>2. CASE ~Sample
    BY <1>0, <2>2, SampledStep
  <2> QED BY <2>1, <2>2
<1>2. CASE /\ Sample /\ log.state # "off" /\ log'.state = "open"
           /\ log'.recs = Append(log.recs, [seq |-> telemetry_seq, ts |-> now])
           /\ log'.synced = log.synced /\ log'.failed = log.failed
  <2> DEFINE p == [seq |-> telemetry_seq, ts |-> now]
  <2>1. p \in Packet /\ p.seq = telemetry_seq
    BY DEF TypeOK, Packet
  <2>2. Sampled' = Append(Sampled, p) /\ telemetry_seq = Len(Sampled) /\ Sampled = udp
    BY <1>2, SampledStep
  <2>3. log'.recs = Append(log.recs, p)
    BY <1>2
  <2> HIDE DEF p
  <2>4. /\ Len(Sampled') = Len(Sampled) + 1
        /\ Sampled'[Len(Sampled) + 1] = p
    BY <2>1, <2>2, <1>0, AppendProperties
  <2>5. /\ Len(log'.recs) = Len(log.recs) + 1
        /\ \A i \in 1..Len(log.recs) : log'.recs[i] = log.recs[i]
        /\ log'.recs[Len(log.recs) + 1] = p
    BY <2>1, <2>3, <1>0, AppendProperties
  <2>6. Len(log'.recs) <= Len(Sampled')
    BY <2>4, <2>5, <1>0 DEF LogIsSampled
  <2>7. ASSUME NEW i \in 1..Len(log'.recs)
        PROVE  \E k \in i..Len(Sampled') : log'.recs[i] = Sampled'[k]
    <3>1. CASE i = Len(log.recs) + 1
      <4>1. Len(Sampled) + 1 \in i..Len(Sampled')
        BY <3>1, <2>4, <1>0 DEF LogIsSampled
      <4>2. log'.recs[i] = Sampled'[Len(Sampled) + 1]
        BY <3>1, <2>4, <2>5
      <4> QED BY <4>1, <4>2
    <3>2. CASE i \in 1..Len(log.recs)
      <4>1. PICK k \in i..Len(Sampled) : log.recs[i] = Sampled[k]
        BY <3>2 DEF LogIsSampled, RecordsAreSampled
      <4>2. k \in i..Len(Sampled') /\ k \in 1..Len(Sampled)
        BY <4>1, <3>2, <1>0, <1>1
      <4> QED BY <4>1, <4>2, <3>2, <2>5, <1>1
    <3> QED BY <3>1, <3>2, <2>5, <1>0
  <2>8. ASSUME NEW j \in 1..Len(log'.recs), NEW i \in 1..(j - 1)
        PROVE  log'.recs[i].seq < log'.recs[j].seq
    <3>1. i \in 1..Len(log.recs)
      BY <2>5, <1>0
    <3>2. CASE j \in 1..Len(log.recs)
      BY <3>1, <3>2, <2>5 DEF LogIsSampled, NumbersGoUp
    <3>3. CASE j = Len(log.recs) + 1
      <4>1. PICK k \in i..Len(Sampled) : log.recs[i] = Sampled[k]
        BY <3>1 DEF LogIsSampled, RecordsAreSampled
      <4>2. k \in 1..Len(Sampled)
        BY <3>1, <4>1, <1>0
      <4>3. log.recs[i].seq = k - 1
        BY <4>1, <4>2 DEF InOrder
      <4>4. log'.recs[j].seq = telemetry_seq /\ log'.recs[i].seq = k - 1
        BY <3>1, <3>3, <2>1, <2>5, <4>3
      <4> QED BY <4>2, <4>4, <2>2, <1>0
    <3> QED BY <3>2, <3>3, <2>5, <1>0
  <2>9. ~log'.failed => Len(log'.recs) = Len(Sampled')
    <3> SUFFICES ASSUME ~log'.failed PROVE Len(log'.recs) = Len(Sampled')
      OBVIOUS
    <3>1. CASE log.state = "open"
      <4>1. pc # "down" /\ ~log.failed
        BY <1>2 DEF Sample
      <4>2. Len(log.recs) = Len(Sampled)
        BY <3>1, <4>1 DEF LogIsSampled, NoneMissing
      <4> QED BY <4>2, <2>4, <2>5
    <3>2. CASE log.state = "unopened"
      <4>1. telemetry_seq = 0 /\ Len(log.recs) = 0
        BY <3>2, EmptySeq DEF Unopened
      <4>2. Len(Sampled) = 0
        BY <4>1, <2>2
      <4> QED BY <4>1, <4>2, <2>4, <2>5
    <3> QED BY <3>1, <3>2, <1>2, LogTyped
  <2> QED BY <2>6, <2>7, <2>8, <2>9 DEF LogIsSampled, RecordsAreSampled, NumbersGoUp,
                                        NoneMissing
<1>3. CASE /\ log'.state \in {log.state, "off"} /\ Beginning(log'.recs)
           /\ \/ log'.recs = log.recs /\ log'.failed = log.failed
              \/ log'.failed = TRUE \/ log'.state = "off" \/ pc' = "down"
  <2>1. /\ Len(log'.recs) \in Nat /\ Len(log'.recs) <= Len(log.recs)
        /\ \A i \in 1..Len(log'.recs) : log'.recs[i] = log.recs[i]
    BY <1>3 DEF Beginning
  <2>2. Len(log'.recs) <= Len(Sampled')
    BY <2>1, <1>0, <1>1 DEF LogIsSampled
  <2>3. ASSUME NEW i \in 1..Len(log'.recs)
        PROVE  \E k \in i..Len(Sampled') : log'.recs[i] = Sampled'[k]
    <3>1. i \in 1..Len(log.recs)
      BY <2>1, <1>0
    <3>2. PICK k \in i..Len(Sampled) : log.recs[i] = Sampled[k]
      BY <3>1 DEF LogIsSampled, RecordsAreSampled
    <3>3. k \in i..Len(Sampled') /\ k \in 1..Len(Sampled)
      BY <3>1, <3>2, <1>0, <1>1
    <3> QED BY <2>1, <3>2, <3>3, <1>1
  <2>4. ASSUME NEW j \in 1..Len(log'.recs), NEW i \in 1..(j - 1)
        PROVE  log'.recs[i].seq < log'.recs[j].seq
    <3>1. j \in 1..Len(log.recs) /\ i \in 1..Len(log'.recs)
      BY <2>1, <1>0
    <3> QED BY <3>1, <2>1 DEF LogIsSampled, NumbersGoUp
  <2>5. ASSUME pc' # "down", log'.state = "open", ~log'.failed
        PROVE  Len(log'.recs) = Len(Sampled')
    <3>1. log'.recs = log.recs /\ log'.failed = log.failed /\ log.state = "open"
      BY <1>3, <2>5
    <3>2. ~Sample
      BY <3>1, <2>5, SampleAppends
    <3>3. Sampled' = Sampled
      BY <3>2, SampledStep
    <3>4. pc # "down"
      BY <2>5, <3>2, DownStays
    <3> QED BY <3>1, <3>3, <3>4, <2>5 DEF LogIsSampled, NoneMissing
  <2> QED BY <2>2, <2>3, <2>4, <2>5 DEF LogIsSampled, RecordsAreSampled, NumbersGoUp,
                                        NoneMissing
<1> QED BY <1>2, <1>3, LogStep

LEMMA TypeAndNumbers ==
  Spec => [](TypeOK /\ InTransmit /\ Numbered /\ InOrder /\ Unopened)
<1>1. Init => InTransmit /\ Numbered /\ InOrder /\ Unopened
  <2> SUFFICES ASSUME Init PROVE InTransmit /\ Numbered /\ InOrder /\ Unopened
    OBVIOUS
  <2>1. Sampled = udp /\ Len(udp) = 0
    BY EmptySeq DEF Init, Sampled
  <2>2. InOrder
    BY <2>1 DEF InOrder
  <2> QED BY <2>1, <2>2 DEF Init, InTransmit, Numbered, Unopened
<1> QED BY <1>1, TypeInit, TypeStep, InTransmitStep, NumberedStep, InOrderStep,
           UnopenedStep, PTL DEF Spec

\* One packet number is one packet everywhere: a LoRa packet is a UDP packet,
\* a record of the log is the packet with its number, in order, and none is
\* missing while the log is on unless a log_sync has failed, for any delays,
\* failures of the log, hang-ups and a power loss.
THEOREM LogIsWire == Spec => []LogMatchesWire
<1>1. Init => LoraIsUdp /\ LogIsSampled
  <2> SUFFICES ASSUME Init PROVE LoraIsUdp /\ LogIsSampled
    OBVIOUS
  <2>1. /\ Sampled = udp /\ Len(udp) = 0 /\ Len(lora) = 0
        /\ Len(log.recs) = 0 /\ log.state = "unopened"
    BY EmptySeq DEF Init, Sampled
  <2> QED BY <2>1 DEF LoraIsUdp, LogIsSampled, RecordsAreSampled, NumbersGoUp,
                      NoneMissing
<1>2. TypeOK /\ InOrder /\ LoraIsUdp /\ LogIsSampled => LogMatchesWire
  <2> SUFFICES ASSUME TypeOK, InOrder, LoraIsUdp, LogIsSampled PROVE LogMatchesWire
    OBVIOUS
  <2>1. ASSUME NEW i \in 1..Len(log.recs)
        PROVE  \E k \in i..Len(Sampled) :
                 log.recs[i] = Sampled[k] /\ Sampled[k].seq = k - 1
    <3>1. PICK k \in i..Len(Sampled) : log.recs[i] = Sampled[k]
      BY DEF LogIsSampled, RecordsAreSampled
    <3>2. k \in 1..Len(Sampled)
      BY <3>1, SampledType, LogTyped
    <3> QED BY <3>1, <3>2 DEF InOrder
  <2> QED BY <2>1 DEF LoraIsUdp, LogIsSampled, NumbersGoUp, NoneMissing,
                      LogMatchesWire
<1> QED BY <1>1, <1>2, LoraIsUdpStep, LogIsSampledStep, TypeAndNumbers, PTL DEF Spec

-----------------------------------------------------------------------------
\* The strengthening of SyncWindow, as long as no log_sync has failed: while
\* the log is on, a record that was not synced is no older than the last sync;
\* once the log is off, no record follows, and what could get lost when it
\* went off is at most what it was.
Recent(l) ==
  \A i, j \in (l.synced + 1)..Len(l.recs) :
    l.recs[j].ts - l.recs[i].ts < SyncEvery
SyncKnown ==
  Running =>
    /\ last_sync <= now
    /\ \A i \in 1..Len(log.recs) : log.recs[i].ts <= now
    /\ (~log.failed /\ log.state # "off") =>
         \A i \in (log.synced + 1)..Len(log.recs) : log.recs[i].ts >= last_sync
    /\ (~log.failed /\ (log.state = "off" \/ pc # "transmit")) => Recent(log)

ClosedIsSynced ==
  (pc = "stopped" /\ log.state = "open" /\ ~log.failed) => log.synced = Len(log.recs)

LEMMA RecsTyped ==
  ASSUME TypeOK
  PROVE  /\ \A i \in 1..Len(log.recs) : log.recs[i].ts \in Nat
         /\ now \in Nat /\ clock \in Nat /\ last_sync \in Nat
         /\ SyncEvery \in Nat /\ SyncEvery >= 1
<1>1. log.recs \in Seq(Packet)
  BY LogTyped
<1>2. \A i \in 1..Len(log.recs) : log.recs[i] \in Packet
  BY <1>1, ElementOfSeq
<1>3. \A i \in 1..Len(log.recs) : log.recs[i].ts \in Nat
  BY <1>2 DEF Packet
<1> QED BY <1>3, TimingAssumption DEF TypeOK

\* What is true of all records is true of those that are left.
LEMMA CutIsRecent ==
  ASSUME TypeOK, Recent(log), Beginning(log'.recs), log'.synced = log.synced
  PROVE  Recent(log')
<1> SUFFICES ASSUME NEW i \in (log'.synced + 1)..Len(log'.recs),
                    NEW j \in (log'.synced + 1)..Len(log'.recs)
             PROVE  log'.recs[j].ts - log'.recs[i].ts < SyncEvery
  BY DEF Recent
<1>1. /\ i \in (log.synced + 1)..Len(log.recs) /\ i \in 1..Len(log'.recs)
      /\ j \in (log.synced + 1)..Len(log.recs) /\ j \in 1..Len(log'.recs)
  BY LogTyped DEF Beginning
<1>2. log'.recs[i] = log.recs[i] /\ log'.recs[j] = log.recs[j]
  BY <1>1 DEF Beginning
<1> QED BY <1>1, <1>2 DEF Recent

LEMMA SyncStep ==
  /\ TypeOK /\ InTransmit /\ Unopened /\ ClockAhead /\ SyncKnown /\ [Next]_vars
  => SyncKnown'
<1> SUFFICES ASSUME TypeOK, InTransmit, Unopened, ClockAhead, SyncKnown, [Next]_vars,
                    Running'
             PROVE  /\ last_sync' <= now'
                    /\ \A i \in 1..Len(log'.recs) : log'.recs[i].ts <= now'
                    /\ (~log'.failed /\ log'.state # "off") =>
                         \A i \in (log'.synced + 1)..Len(log'.recs) :
                           log'.recs[i].ts >= last_sync'
                    /\ (~log'.failed /\ (log'.state = "off" \/ pc' # "transmit")) =>
                         Recent(log')
  BY DEF SyncKnown, Recent
<1>0. /\ log.recs \in Seq(Packet) /\ Len(log.recs) \in Nat /\ log.synced \in Nat
      /\ log.synced <= Len(log.recs)
      /\ \A i \in 1..Len(log.recs) : log.recs[i].ts \in Nat
      /\ now \in Nat /\ clock \in Nat /\ last_sync \in Nat
      /\ SyncEvery \in Nat /\ SyncEvery >= 1
  BY RecsTyped, LogTyped
<1>1. Running
  BY DEF Running, Next, Environment, ReconnectFails, Reconnect, Poll, PollFails,
         Announce, NotYet, Sample, Transmit, Stop, Signal, Unplug, Replug, PowerLoss,
         CanPoll, vars
<1>2. /\ last_sync <= now
      /\ \A i \in 1..Len(log.recs) : log.recs[i].ts <= now
      /\ (~log.failed /\ log.state # "off") =>
           \A i \in (log.synced + 1)..Len(log.recs) : log.recs[i].ts >= last_sync
      /\ (~log.failed /\ (log.state = "off" \/ pc # "transmit")) => Recent(log)
  BY <1>1 DEF SyncKnown
<1>3. CASE Sample
  <2> DEFINE p == [seq |-> telemetry_seq, ts |-> now]
  <2>1. p \in Packet
    BY DEF TypeOK, Packet
  <2>2. /\ log'.synced = log.synced /\ log'.failed = log.failed
        /\ \/ log'.state = "off" /\ log.state # "off" /\ log'.recs \in Cut(log)
           \/ log'.state = "off" /\ log.state = "off" /\ log'.recs = log.recs
           \/ /\ log.state # "off" /\ log'.state = "open"
              /\ log'.recs = Append(log.recs, p)
    BY <1>3, <2>1, LogWriteCases DEF Sample
  <2>3. now' = now /\ last_sync' = last_sync /\ pc = "report" /\ pc' = "transmit"
    BY <1>3 DEF Sample, timers
  <2>4. CASE log'.state = "off" /\ (log'.recs \in Cut(log) \/ log'.recs = log.recs)
    <3>1. Beginning(log'.recs)
      BY <2>4, <1>0, CutType DEF Beginning
    <3>2. ~log'.failed => Recent(log')
      BY <1>2, <2>2, <2>3, <3>1, CutIsRecent
    <3>3. \A i \in 1..Len(log'.recs) : i \in 1..Len(log.recs) /\ log'.recs[i] = log.recs[i]
      BY <3>1, <1>0 DEF Beginning
    <3> QED BY <1>2, <2>3, <2>4, <3>2, <3>3
  <2>5. CASE /\ log.state # "off" /\ log'.state = "open"
             /\ log'.recs = Append(log.recs, p)
    <3>1. p.ts = now
      OBVIOUS
    <3> HIDE DEF p
    <3>2. /\ Len(log'.recs) = Len(log.recs) + 1
          /\ \A i \in 1..Len(log.recs) : log'.recs[i] = log.recs[i]
          /\ log'.recs[Len(log.recs) + 1].ts = now
      BY <2>1, <2>5, <3>1, <1>0, AppendProperties
    <3>3. ASSUME NEW i \in 1..Len(log'.recs)
          PROVE  log'.recs[i].ts <= now'
      <4>1. i \in 1..Len(log.recs) \/ i = Len(log.recs) + 1
        BY <3>2, <1>0
      <4> QED BY <4>1, <3>2, <2>3, <1>2, <1>0
    <3>4. ASSUME ~log'.failed, NEW i \in (log'.synced + 1)..Len(log'.recs)
          PROVE  log'.recs[i].ts >= last_sync'
      <4>1. \/ i \in (log.synced + 1)..Len(log.recs) /\ i \in 1..Len(log.recs)
            \/ i = Len(log.recs) + 1
        BY <3>2, <2>2, <1>0
      <4> QED BY <4>1, <3>2, <3>4, <2>2, <2>3, <2>5, <1>2, <1>0
    <3> QED BY <3>3, <3>4, <2>3, <2>5, <1>2
  <2> QED BY <2>2, <2>4, <2>5
<1>4. CASE Transmit
  <2>1. /\ now' = now /\ pc = "transmit"
        /\ log' \in IF SyncDue THEN Synced(log) ELSE {log}
        /\ last_sync' = IF SyncDue THEN now ELSE last_sync
    BY <1>4 DEF Transmit
  <2>2. last_sync' <= now'
    BY <2>1, <1>0, <1>2
  <2>3. /\ log'.state = log.state
        /\ \/ log' = log /\ (log.state # "open" \/ ~SyncDue)
           \/ /\ log.state = "open" /\ SyncDue /\ log'.recs = log.recs
              /\ log'.failed = log.failed
              /\ log'.synced = IF log.failed THEN log.synced ELSE Len(log.recs)
           \/ /\ log.state = "open" /\ SyncDue /\ log'.failed = TRUE
              /\ log'.recs \in Cut(log)
    <3>1. CASE SyncDue
      <4>1. log' \in Synced(log)
        BY <2>1, <3>1
      <4> QED BY <3>1, <4>1, SyncedCases
    <3>2. CASE ~SyncDue
      BY <2>1, <3>2
    <3> QED BY <3>1, <3>2
  <2>4. Beginning(log'.recs)
    BY <2>3, <1>0, CutType DEF Beginning
  <2>5. \A i \in 1..Len(log'.recs) : log'.recs[i].ts <= now'
    <3>1. \A i \in 1..Len(log'.recs) : i \in 1..Len(log.recs) /\ log'.recs[i] = log.recs[i]
      BY <2>4, <1>0 DEF Beginning
    <3> QED BY <3>1, <2>1, <1>2
  <2>6. CASE log.state = "off"
    BY <2>2, <2>3, <2>5, <2>6, <1>2
  <2>7. CASE log.state = "unopened"
    <3>1. Len(log.recs) = 0 /\ log' = log
      BY <2>3, <2>7, EmptySeq DEF Unopened
    <3>2. \A i : i \notin (log'.synced + 1)..Len(log'.recs)
      BY <3>1, <1>0
    <3> QED BY <2>2, <2>5, <3>2 DEF Recent
  <2>8. CASE log.state = "open" /\ SyncDue
    <3> SUFFICES ASSUME ~log'.failed
                 PROVE  \A i : i \notin (log'.synced + 1)..Len(log'.recs)
      BY <2>2, <2>5 DEF Recent
    <3>1. log'.recs = log.recs /\ log'.synced = Len(log.recs)
      BY <2>3, <2>8
    <3> QED BY <3>1, <1>0
  <2>9. CASE log.state = "open" /\ ~SyncDue
    <3>1. log' = log /\ last_sync' = last_sync /\ now - last_sync < SyncEvery
      BY <2>1, <2>9, <1>0 DEF SyncDue
    <3>2. ~log.failed => Recent(log)
      <4> SUFFICES ASSUME ~log.failed,
                          NEW i \in (log.synced + 1)..Len(log.recs),
                          NEW j \in (log.synced + 1)..Len(log.recs)
                   PROVE  log.recs[j].ts - log.recs[i].ts < SyncEvery
        BY DEF Recent
      <4>1. i \in 1..Len(log.recs) /\ j \in 1..Len(log.recs)
        BY <1>0
      <4>2. log.recs[j].ts <= now /\ log.recs[i].ts >= last_sync
        BY <4>1, <1>2, <2>9
      <4> DEFINE last == log.recs[j].ts
                 this == log.recs[i].ts
      <4>3. /\ last \in Nat /\ this \in Nat /\ last <= now /\ this >= last_sync
            /\ now - last_sync < SyncEvery
            /\ now \in Nat /\ last_sync \in Nat /\ SyncEvery \in Nat
        BY <4>1, <4>2, <3>1, <1>0
      <4> HIDE DEF last, this
      <4>4. last - this < SyncEvery
        BY <4>3
      <4> QED BY <4>4 DEF last, this
    <3> QED BY <2>1, <2>2, <3>1, <3>2, <1>2
  <2> QED BY <2>6, <2>7, <2>8, <2>9, LogTyped
<1>5. ~Stop /\ ~PowerLoss
  BY DEF Stop, PowerLoss, Running
<1>6. CASE ~Sample /\ ~Transmit
  <2>1. log' = log
    BY <1>5, <1>6, QuietLog
  <2>2. now' \in Nat /\ now' >= now
    BY <1>0, ClockStep DEF ClockAhead
  <2>3. last_sync' = last_sync /\ (pc = "transmit" => pc' = "transmit")
    BY <1>5, <1>6 DEF Next, Environment, ReconnectFails, Reconnect, Poll, PollFails,
         Announce, NotYet, Signal, Unplug, Replug, vars, timers, CanPoll
  <2>4. \A i \in 1..Len(log.recs) : log.recs[i].ts <= now'
    BY <1>0, <1>2, <2>2
  <2>5. last_sync' <= now'
    BY <1>0, <1>2, <2>2, <2>3
  <2> QED BY <1>2, <2>1, <2>3, <2>4, <2>5
<1> QED BY <1>3, <1>4, <1>6

LEMMA ClosedStep ==
  TypeOK /\ InTransmit /\ ClosedIsSynced /\ [Next]_vars => ClosedIsSynced'
<1> SUFFICES ASSUME TypeOK, InTransmit, ClosedIsSynced, [Next]_vars
             PROVE  ClosedIsSynced'
  OBVIOUS
<1>1. CASE Stop
  <2>1. log' \in Synced(log)
    BY <1>1 DEF Stop
  <2> QED BY <2>1, SyncedCases DEF ClosedIsSynced
<1>2. CASE ReconnectFails \/ Reconnect \/ Poll \/ PollFails \/ Announce \/ NotYet
             \/ Sample \/ Transmit \/ Environment
  BY <1>2 DEF Environment, ReconnectFails, Reconnect, Poll, PollFails, Announce,
              NotYet, Sample, Transmit, Signal, Unplug, Replug, PowerLoss, CanPoll,
              Running, ClosedIsSynced
<1>3. CASE UNCHANGED vars
  BY <1>3 DEF vars, ClosedIsSynced
<1> QED BY <1>1, <1>2, <1>3 DEF Next

\* As long as no log_sync fails, a power loss takes less than one sync period
\* of records, and a clean stop none that was written while the log was on,
\* whatever the lateness of the passes between two syncs.
THEOREM LossIsBounded == Spec => []SyncWindow
<1>1. Init => ClockAhead /\ SyncKnown /\ ClosedIsSynced
  <2> SUFFICES ASSUME Init PROVE ClockAhead /\ SyncKnown /\ ClosedIsSynced
    OBVIOUS
  <2>1. ClockAhead /\ ClosedIsSynced
    BY TimingAssumption DEF Init, ClockAhead, ClosedIsSynced
  <2>2. log.recs = <<>> /\ log.synced = 0 /\ Len(log.recs) = 0
    BY EmptySeq DEF Init
  <2>3. \A i : i \notin 1..Len(log.recs) /\ i \notin (log.synced + 1)..Len(log.recs)
    BY <2>2
  <2>4. last_sync <= now
    BY DEF Init
  <2> QED BY <2>1, <2>3, <2>4 DEF SyncKnown, Recent
<1>2. SyncKnown /\ ClosedIsSynced => SyncWindow
  BY DEF SyncKnown, ClosedIsSynced, SyncWindow, Recent
<1> QED BY <1>1, <1>2, ClockAheadStep, SyncStep, ClosedStep, TypeAndNumbers,
           PTL DEF Spec

-----------------------------------------------------------------------------
\* The strengthening of HeartbeatPrompt: how old the heartbeat may be at each
\* place of a pass.  A port that is closed makes it due at its reopening.
HeartbeatAge ==
  last_heartbeat # 0 =>
    /\ pc # "poll"
    /\ (pc = "top" /\ fd # "closed") =>
         clock - last_heartbeat < HeartbeatEvery + 2 * Stall
    /\ pc = "report" => clock - last_heartbeat < HeartbeatEvery
    /\ pc = "transmit" => clock - last_heartbeat < HeartbeatEvery + Stall

LEMMA PollIsCapped ==
  ASSUME TypeOK, NEW d \in PollWaits
  PROVE  d \in Nat /\ d <= MaxPoll + Late
<1>1. PollTime \in Nat /\ PollTime <= MaxPoll
  BY TimingAssumption DEF TypeOK, PollTime
<1>2. Late \in Nat /\ MaxPoll \in Nat
  BY TimingAssumption
<1>3. CASE fd = "hung"
  BY <1>2, <1>3 DEF PollWaits
<1>4. CASE fd # "hung"
  <2> HIDE DEF PollTime
  <2> QED BY <1>1, <1>2, <1>4 DEF PollWaits
<1> QED BY <1>3, <1>4

LEMMA HeartbeatStep ==
  /\ TypeOK /\ ClockAhead /\ HeartbeatAge /\ HeartbeatPrompt /\ [Next]_vars
  => HeartbeatAge' /\ HeartbeatPrompt'
<1> SUFFICES ASSUME TypeOK, ClockAhead, HeartbeatAge, HeartbeatPrompt, [Next]_vars
             PROVE  HeartbeatAge' /\ HeartbeatPrompt'
  OBVIOUS
<1>0. /\ clock \in Nat /\ now \in Nat /\ last_heartbeat \in Nat
      /\ HeartbeatEvery \in Nat /\ HeartbeatEvery >= 1 /\ MaxPoll \in Nat
      /\ Late \in Nat /\ Stall \in Nat /\ Stall < HeartbeatEvery
  BY TimingAssumption DEF TypeOK
<1>1. CASE ReconnectFails \/ PollFails
  BY <1>1 DEF ReconnectFails, PollFails, HeartbeatAge, HeartbeatPrompt, timers
<1>2. CASE Reconnect
  BY <1>2 DEF Reconnect, HeartbeatAge, HeartbeatPrompt
<1>3. CASE Poll
  <2>1. PICK d \in PollWaits : Elapse(d)
    BY <1>3 DEF Poll
  <2>2. d \in Nat /\ d <= MaxPoll + Late /\ clock' = clock + d
    BY <2>1, PollIsCapped DEF Elapse
  <2>3. /\ now' = clock' /\ last_heartbeat' = last_heartbeat /\ pc' = "announce"
        /\ pc = "poll" \/ (pc = "top" /\ fd # "closed")
    BY <1>3 DEF Poll, CanPoll, timers
  <2>4. last_heartbeat # 0 => clock - last_heartbeat < HeartbeatEvery + 2 * Stall
    BY <2>3 DEF HeartbeatAge
  <2>5. last_heartbeat # 0 =>
          now' - last_heartbeat' < HeartbeatEvery + MaxPoll + Late + 2 * Stall
    BY <2>2, <2>3, <2>4, <1>0
  <2> QED BY <2>3, <2>5 DEF HeartbeatAge, HeartbeatPrompt
<1>4. CASE Announce
  <2>1. pc = "announce" /\ pc' = "report" /\ now = clock
    BY <1>4 DEF Announce, ClockAhead
  <2>2. CASE HeartbeatDue
    <3>1. last_heartbeat' = now /\ Blocks
      BY <1>4, <2>2 DEF Announce
    <3>2. PICK d \in 0..Stall : clock' = clock + d
      BY <3>1 DEF Blocks, Elapse
    <3>3. clock' - last_heartbeat' < HeartbeatEvery
      BY <3>1, <3>2, <2>1, <1>0
    <3> QED BY <2>1, <3>3 DEF HeartbeatAge, HeartbeatPrompt
  <2>3. CASE ~HeartbeatDue
    <3>1. last_heartbeat' = last_heartbeat /\ clock' = clock
      BY <1>4, <2>3 DEF Announce
    <3>2. clock' - last_heartbeat' < HeartbeatEvery
      BY <3>1, <2>1, <2>3, <1>0 DEF HeartbeatDue
    <3> QED BY <2>1, <3>2 DEF HeartbeatAge, HeartbeatPrompt
  <2> QED BY <2>2, <2>3
<1>5. CASE NotYet
  <2>1. /\ pc = "report" /\ pc' = "top"
        /\ last_heartbeat' = last_heartbeat /\ clock' = clock
    BY <1>5 DEF NotYet, timers
  <2>2. last_heartbeat # 0 => clock - last_heartbeat < HeartbeatEvery
    BY <2>1 DEF HeartbeatAge
  <2>3. last_heartbeat' # 0 => clock' - last_heartbeat' < HeartbeatEvery + 2 * Stall
    BY <2>1, <2>2, <1>0
  <2> QED BY <2>1, <2>3 DEF HeartbeatAge, HeartbeatPrompt
<1>6. CASE Sample \/ Transmit
  <2>1. last_heartbeat' = last_heartbeat /\ \E d \in 0..Stall : clock' = clock + d
    BY <1>6 DEF Sample, Transmit, timers, Blocks, Elapse
  <2> PICK d \in 0..Stall : clock' = clock + d
    BY <2>1
  <2>2. CASE Sample
    <3>1. pc = "report" /\ pc' = "transmit"
      BY <2>2 DEF Sample
    <3>2. last_heartbeat # 0 => clock - last_heartbeat < HeartbeatEvery
      BY <3>1 DEF HeartbeatAge
    <3>3. last_heartbeat' # 0 => clock' - last_heartbeat' < HeartbeatEvery + Stall
      BY <2>1, <3>2, <1>0
    <3> QED BY <3>1, <3>3 DEF HeartbeatAge, HeartbeatPrompt
  <2>3. CASE Transmit
    <3>1. pc = "transmit" /\ pc' = "top"
      BY <2>3 DEF Transmit
    <3>2. last_heartbeat # 0 => clock - last_heartbeat < HeartbeatEvery + Stall
      BY <3>1 DEF HeartbeatAge
    <3>3. last_heartbeat' # 0 => clock' - last_heartbeat' < HeartbeatEvery + 2 * Stall
      BY <2>1, <3>2, <1>0
    <3> QED BY <3>1, <3>3 DEF HeartbeatAge, HeartbeatPrompt
  <2> QED BY <1>6, <2>2, <2>3
<1>7. CASE Stop \/ PowerLoss
  BY <1>7 DEF Stop, PowerLoss, HeartbeatAge, HeartbeatPrompt, timers
<1>8. CASE Signal \/ Unplug \/ Replug \/ UNCHANGED vars
  BY <1>8 DEF Signal, Unplug, Replug, vars, timers, HeartbeatAge, HeartbeatPrompt
<1> QED BY <1>1, <1>2, <1>3, <1>4, <1>5, <1>6, <1>7, <1>8 DEF Next, Environment

\* On an open port a pass never finds the heartbeat overdue by more than its
\* own length, however long the send interval is.
THEOREM HeartbeatInTime == Spec => []HeartbeatPrompt
<1>1. Init => ClockAhead /\ HeartbeatAge /\ HeartbeatPrompt
  BY TimingAssumption DEF Init, ClockAhead, HeartbeatAge, HeartbeatPrompt
<1> QED BY <1>1, ClockAheadStep, HeartbeatStep, TypeCorrect, PTL DEF Spec

=============================================================================
