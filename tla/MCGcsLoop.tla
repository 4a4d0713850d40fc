------------------------------ MODULE MCGcsLoop ------------------------------
\* GcsLoop on a coarse clock: one tick is a quarter of a send interval.
EXTENDS GcsLoop

CONSTANTS
  LogTime,    \* bound: how far a run is followed once the log has failed
  StallTime   \* bound: the same once a packet was late on the wire

\* What multiplies with time is not followed to MaxTime.
Followed ==
  /\ log.failed \/ log.state = "off" => clock <= LogTime
  /\ (\E i \in 1..Len(udp) : udp_at[i] # udp[i].ts) => clock <= StallTime
=============================================================================
