------------------------------- MODULE Flight -------------------------------
(***************************************************************************)
(* The mission with its gimbal at work: scripts/record.sh starts and stops  *)
(* gimbal_full (Mission, the variable gimbal), which follows the aircraft's *)
(* attitude meanwhile (Gimbal), while somebody may be adjusting the zero    *)
(* point.                                                                  *)
(***************************************************************************)
EXTENDS Mission

CONSTANTS Attitudes, Contents, Keys, MaxKeys

VARIABLES phase, center, servo, followed, calib, touched, keys, file, asked

G == INSTANCE Gimbal

ASSUME GimbalConstants == G!GimbalAssumption

FlightInit == Init /\ G!Init

FlightNext ==
  \/ Next /\ G!Life
  \/ G!GimbalNext /\ UNCHANGED vars

FlightSpec ==
  /\ FlightInit
  /\ [][FlightNext]_<<vars, G!gvars>>
  /\ Fairness

-----------------------------------------------------------------------------
\* The properties of Mission hold of the composition; those of Gimbal are
\* named here.

\* Types of the gimbal's and the calibration program's state.
GimbalTypeOK == G!GimbalTypeOK

\* The servos stay in the range they were tested for (gimbal_full.c,
\* angleToDuty), up to a zero point out of it before the first attitude or key.
ServoTested == G!ServoTested


\* The gimbal never runs around a zero point made of two.
ZeroPointHonest == G!ZeroPointHonest
=============================================================================
