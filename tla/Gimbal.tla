------------------------------- MODULE Gimbal -------------------------------
(***************************************************************************)
(* The camera's two servos: gimbal_full.c holds them against the attitude   *)
(* the Pixhawk reports, around a zero point it reads from zero_point.yaml   *)
(* when it starts; zero_calib.c moves them by hand and rewrites that file.  *)
(* Nothing keeps the two programs apart.                                   *)
(*                                                                         *)
(* Whether gimbal_full runs is decided elsewhere: the variable gimbal.  A   *)
(* servo's pulse width is the last one any program wrote, in steps of       *)
(* 0.1 ms; 0 is no pulse.  Angles are in degrees.                           *)
(***************************************************************************)
EXTENDS Integers

CONSTANTS
  Attitudes,   \* what the autopilot may report: degrees by axis
  Contents,    \* what zero_point.yaml may hold at first: pulse widths by axis
  Keys,        \* w, s, a, d: an axis and a direction
  MaxKeys      \* bound: keys pressed in zero_calib

Axis == {"pitch", "roll"}
DUTY_HALF_RANGE == 10
DUTY_MIN == 5
DUTY_MAX == 25
ZERO_POINT_DEFAULT == 15
CALIB_MIN == 10
CALIB_MAX == 20

\* What a module that instantiates this one assumes of the constants.
GimbalAssumption ==
  /\ Attitudes \subseteq [Axis -> -180..180] /\ Attitudes # {}
  /\ Contents \subseteq [Axis -> Nat] /\ Contents # {}
  /\ Keys \subseteq Axis \X {-1, 1} /\ MaxKeys \in Nat

VARIABLES
  gimbal,      \* gimbal_full: none yet, running, dead
  phase,       \* where it is
  center,      \* its pitch_center and roll_center
  servo,       \* the last pulse width written
  followed,    \* has it followed an ATTITUDE (history)
  calib,       \* zero_calib: where it is, what it holds, is it dirty
  touched,     \* axes a key was pressed for (history)
  keys,        \* keys pressed so far
  file,        \* zero_point.yaml
  asked        \* zero points the file held at first or was to hold (history)

own == <<phase, center, servo, followed>>
desk == <<calib, touched, keys, file, asked>>
gvars == <<own, desk>>

Missing == [a \in Axis |-> 0]     \* no such key in the file, or no file
Unset == [a \in Axis |-> -1]

\* What load_zero_point reads from contents z: the default for a key that is
\* not there.  (Mutants: set after the early return for no file; not set.)
WithDefaults(z) == [a \in Axis |-> IF z[a] = 0 THEN ZERO_POINT_DEFAULT ELSE z[a]]
ReturnsEarly == IF file = Missing THEN Unset ELSE WithDefaults(file)
Bare == file
Loaded == WithDefaults(file)

Init ==
  /\ gimbal = "none" /\ phase = "boot"
  /\ center = Unset
  /\ servo = Missing /\ followed = FALSE
  /\ calib = [at |-> "off", zero |-> Unset, dirty |-> FALSE]
  /\ touched = {} /\ keys = 0
  /\ file \in Contents /\ asked = {file}

-----------------------------------------------------------------------------
(* gimbal_full *)

\* The pulse width for an angle: ten steps for 90 degrees around the centre,
\* the fraction cut off, first within ten steps of it, then within what the
\* servo was tested for.  (Mutant: without the second.)
Toward0(n, d) == IF n < 0 THEN -((-n) \div d) ELSE n \div d
Clamp(v, lo, hi) == IF v < lo THEN lo ELSE IF v > hi THEN hi ELSE v
AroundCenter(angle, c) ==
  Clamp(c - Toward0(angle * DUTY_HALF_RANGE, 90), c - DUTY_HALF_RANGE, c + DUTY_HALF_RANGE)
angleToDuty(angle, c) == Clamp(AroundCenter(angle, c), DUTY_MIN, DUTY_MAX)

\* The zero point is read and the servos go there, unclamped.
LoadZero ==
  /\ gimbal = "running" /\ phase = "boot"
  /\ center' = Loaded
  /\ servo' = Loaded
  /\ phase' = "wait"
  /\ UNCHANGED <<gimbal, followed, desk>>

\* The first heartbeat: its sender is asked for ATTITUDE, once.
Heartbeat ==
  /\ gimbal = "running" /\ phase = "wait"
  /\ phase' = "follow"
  /\ UNCHANGED <<gimbal, center, servo, followed, desk>>

\* An ATTITUDE is decoded.
Follow ==
  /\ gimbal = "running" /\ phase = "follow"
  /\ \E attitude \in Attitudes :
       servo' = [a \in Axis |-> angleToDuty(attitude[a], center[a])]
  /\ followed' = TRUE
  /\ UNCHANGED <<gimbal, phase, center, desk>>

\* The port hangs up, or the autopilot restarts and no longer knows of the
\* request: no ATTITUDE comes any more, and the loop reads on for ever.
FallSilent ==
  /\ gimbal = "running" /\ phase \in {"wait", "follow"}
  /\ phase' = "deaf"
  /\ UNCHANGED <<gimbal, center, servo, followed, desk>>

-----------------------------------------------------------------------------
(* zero_calib *)

StartCalib ==
  /\ calib.at = "off"
  /\ calib' = [at |-> "keys", zero |-> Loaded, dirty |-> FALSE]
  /\ servo' = Loaded
  /\ UNCHANGED <<gimbal, phase, center, followed, touched, keys, file, asked>>

\* w, s, a, d.
Key ==
  /\ calib.at = "keys" /\ keys < MaxKeys
  /\ \E k \in Keys :
       /\ calib' = [calib EXCEPT !.zero[k[1]] = Clamp(@ + k[2], CALIB_MIN, CALIB_MAX),
                                 !.dirty = TRUE]
       /\ touched' = touched \cup {k[1]}
  /\ servo' = calib'.zero
  /\ keys' = keys + 1
  /\ UNCHANGED <<gimbal, phase, center, followed, file, asked>>

\* What a save writes.  (Mutant: without its last line.)
FirstLine == [calib.zero EXCEPT !["roll"] = 0]
Text == calib.zero

\* Space: fopen empties the file; unless it fails.
SaveOpens ==
  /\ calib.at = "keys"
  /\ calib' = [calib EXCEPT !.at = "saving"]
  /\ file' = Missing
  /\ asked' = asked \cup {calib.zero}
  /\ UNCHANGED <<gimbal, own, touched, keys>>

\* fclose hands the text over, both lines or, on a full disk, neither; the
\* screen says it is saved.
SaveCloses ==
  /\ calib.at = "saving"
  /\ calib' = [calib EXCEPT !.at = "keys", !.dirty = FALSE]
  /\ file' \in {Text, Missing}
  /\ UNCHANGED <<gimbal, own, touched, keys, asked>>

\* q, the end of the input or ^C, also in the middle of a save, whose text
\* exit() may or may not write.
QuitCalib ==
  /\ calib.at \in {"keys", "saving"}
  /\ calib' = [calib EXCEPT !.at = "ended"]
  /\ file' \in {file} \cup (IF calib.at = "saving" THEN {Text} ELSE {})
  /\ UNCHANGED <<gimbal, own, touched, keys, asked>>

-----------------------------------------------------------------------------
GimbalNext ==
  \/ LoadZero \/ Heartbeat \/ Follow \/ FallSilent
  \/ StartCalib \/ Key \/ SaveOpens \/ SaveCloses \/ QuitCalib

\* Somebody starts or ends the process: a new one begins at its beginning, and
\* softPwmCreate with no pulse.
Life ==
  /\ IF gimbal' = "running" /\ gimbal # "running"
     THEN phase' = "boot" /\ center' = Unset /\ servo' = Missing /\ followed' = FALSE
     ELSE UNCHANGED own
  /\ UNCHANGED desk

-----------------------------------------------------------------------------
GimbalTypeOK ==
  /\ gimbal \in {"none", "running", "dead"}
  /\ phase \in {"boot", "wait", "follow", "deaf"}
  /\ center \in [Axis -> Int] /\ servo \in [Axis -> Nat]
  /\ followed \in BOOLEAN /\ (followed => phase \in {"follow", "deaf"})
  /\ calib \in [at : {"off", "keys", "saving", "ended"},
                zero : [Axis -> Int], dirty : BOOLEAN]
  /\ touched \subseteq Axis /\ keys \in 0..MaxKeys
  /\ file \in asked \cup {Missing} /\ asked \subseteq [Axis -> Nat]
  /\ phase # "boot" => center # Unset

Tested(w) == w = 0 \/ w \in DUTY_MIN..DUTY_MAX

\* With gimbal_full and zero_calib writing to the same pins in any order, a
\* servo is out of its tested range only at a zero point that was read out of
\* it: the one gimbal_full started with, until its first attitude, or the one
\* zero_calib started with, until the first key for that axis.
ServoTested ==
  \A a \in Axis :
    \/ Tested(servo[a])
    \/ servo[a] = center[a] /\ ~followed
    \/ calib.at # "off" /\ servo[a] = calib.zero[a] /\ a \notin touched


\* Both axes of the zero point belong together.  However a start of
\* gimbal_full falls into the saves of zero_calib, of which any may be cut
\* short or meet a full disk, the gimbal runs around one that somebody gave as
\* a whole, or, only where zero_calib has been at work, around the default on
\* both axes: never around one axis of a save and what was there before on the
\* other.
GivenWhole == \E z \in asked : center = WithDefaults(z)
ZeroPointHonest ==
  (gimbal = "running" /\ phase # "boot") =>
    \/ GivenWhole
    \/ calib.at # "off" /\ center = WithDefaults(Missing)

\* "At the start gimbal_full moves there first, and turns around it": a zero
\* point it starts with is one that somebody gave.  This does not hold: one that
\* starts within a save, or after one that was cut short, takes the default.
CenterWasGiven == (gimbal = "running" /\ phase # "boot") => GivenWhole

\* "space: save to zero_point.yaml": what zero_calib shows without its star is
\* what a gimbal_full started now would load.  This does not hold either: on a
\* full disk it loads the default.
SavedIsSaved == (calib.at = "keys" /\ ~calib.dirty) => calib.zero = Loaded
=============================================================================
