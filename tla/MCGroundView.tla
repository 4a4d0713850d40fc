---------------------------- MODULE MCGroundView ----------------------------
EXTENDS GroundView

CONSTANT HighTime   \* bound: how far a run is followed that has sent High

\* Bytes of two bits.  A descent below the start before the first fix; a
\* position, west, at an altitude beyond the wire, without an attitude.
Descent ==
  [attitude_valid |-> TRUE, gps_valid |-> FALSE, roll |-> -3, pitch |-> 2, yaw |-> 15,
   gps_fix_type |-> 0, gps_satellites |-> 2, latitude_e7 |-> 0, longitude_e7 |-> 0,
   altitude_mm |-> 12, relative_altitude_mm |-> -5, velocity_x_cms |-> -8,
   velocity_y_cms |-> 7, velocity_z_cms |-> 6, ground_course_cdeg |-> 1]
High ==
  [attitude_valid |-> FALSE, gps_valid |-> TRUE, roll |-> 0, pitch |-> 0, yaw |-> 0,
   gps_fix_type |-> 3, gps_satellites |-> 1, latitude_e7 |-> 101, longitude_e7 |-> -77,
   altitude_mm |-> 30, relative_altitude_mm |-> 13, velocity_x_cms |-> 0,
   velocity_y_cms |-> 3, velocity_z_cms |-> -1, ground_course_cdeg |-> 14]
MCReadings == {Descent, High}

\* The age of what is shown does not depend on the reading: one is enough to
\* follow it to MaxTime.
Followed == (\E i \in 1..Len(sent) : sent[i].telemetry = High) => clock <= HighTime

ASSUME CrcAssumption == CrcWorks
=============================================================================
