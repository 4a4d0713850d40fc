---------------------------- MODULE FlightProofs ----------------------------
(***************************************************************************)
(* Proofs about Flight: it implements Mission, so whatever MissionProofs    *)
(* shows of a mission holds with the gimbal at work; and the gimbal's own   *)
(* properties hold for every attitude, every zero point and any number of   *)
(* keys.                                                                   *)
(***************************************************************************)
EXTENDS Flight, MissionProofs, Integers

\* The composition implements the mission it is composed of: no gimbal, and
\* no calibration of one, makes cubesat.sh, record.sh, record_video or
\* rpicam-vid do anything Mission does not let them do, or keeps them from
\* what it makes them do.
THEOREM ImplementsMission == FlightSpec => Spec
<1>1. FlightInit => Init
  BY DEF FlightInit
<1>2. [FlightNext]_<<vars, G!gvars>> => [Next]_vars
  BY DEF FlightNext
<1> QED BY <1>1, <1>2, PTL DEF FlightSpec, Spec

-----------------------------------------------------------------------------
(***************************************************************************)
(* What zero_calib holds has no 0, and is in range on an axis it had a key  *)
(* for; it saves nothing but that.  Until it is started the file is as it   *)
(* was.                                                                    *)
(***************************************************************************)
CalibKnown ==
  /\ calib.at = "off" => file \in asked /\ touched = {}
  /\ calib.at \in {"keys", "saving"} =>
       /\ calib.zero \in [G!Axis -> Nat \ {0}]
       /\ \A a \in touched : G!Tested(calib.zero[a])
  /\ calib.at = "saving" => calib.zero \in asked

Inv == GimbalTypeOK /\ ServoTested /\ ZeroPointHonest /\ CalibKnown

\* With its defaults a zero point has no 0.
LEMMA Defaults ==
  ASSUME NEW z \in [G!Axis -> Nat]
  PROVE  G!WithDefaults(z) \in [G!Axis -> Nat \ {0}]
BY DEF G!WithDefaults, G!Axis, G!ZERO_POINT_DEFAULT

\* angleToDuty stays in the tested range, whatever the angle and the centre.
LEMMA DutyTested ==
  ASSUME NEW angle \in Int, NEW c \in Int
  PROVE  /\ G!angleToDuty(angle, c) \in Nat
         /\ G!Tested(G!angleToDuty(angle, c))
<1> DEFINE w == G!AroundCenter(angle, c)
<1>1. w \in Int
  BY DEF G!AroundCenter, G!Clamp, G!Toward0, G!DUTY_HALF_RANGE
<1>2. G!angleToDuty(angle, c) \in 5..25
  <2> HIDE DEF w
  <2> QED BY <1>1 DEF G!angleToDuty, G!Clamp, G!DUTY_MIN, G!DUTY_MAX, w
<1> QED BY <1>2 DEF G!Tested, G!DUTY_MIN, G!DUTY_MAX

\* Attitudes are whole degrees.
LEMMA AttitudesTyped == \A attitude \in Attitudes : \A a \in G!Axis : attitude[a] \in Int
BY GimbalConstants DEF G!GimbalAssumption

LEMMA InvInit == FlightInit => Inv
<1> SUFFICES ASSUME FlightInit PROVE Inv
  OBVIOUS
<1> USE DEF FlightInit, G!Init
<1>1. file \in [G!Axis -> Nat]
  BY GimbalConstants DEF G!GimbalAssumption
<1>2. GimbalTypeOK
  <2>1. followed \in BOOLEAN /\ calib.dirty \in BOOLEAN
    BY Zenon
  <2>2. calib \in [at : {"off", "keys", "saving", "ended"},
                  zero : [G!Axis -> Int], dirty : BOOLEAN]
    BY DEF G!Unset
  <2>3. ~followed /\ phase = "boot" /\ gimbal = "none"
    OBVIOUS
  <2>4. center \in [G!Axis -> Int] /\ servo \in [G!Axis -> Nat]
    BY DEF G!Unset, G!Missing
  <2>5. /\ touched \subseteq G!Axis /\ keys \in 0..MaxKeys
        /\ file \in asked \cup {G!Missing} /\ asked \subseteq [G!Axis -> Nat]
    BY <1>1, GimbalConstants DEF G!GimbalAssumption
  <2> QED BY <2>1, <2>2, <2>3, <2>4, <2>5 DEF GimbalTypeOK, G!GimbalTypeOK
<1>3. ServoTested
  BY DEF ServoTested, G!ServoTested, G!Tested, G!Missing, G!Axis
<1>4. ZeroPointHonest /\ CalibKnown
  BY DEF ZeroPointHonest, G!ZeroPointHonest, CalibKnown
<1> QED BY <1>2, <1>3, <1>4 DEF Inv

\* What is loaded has no 0, and was given as a whole, unless zero_calib has
\* emptied the file.
LEMMA LoadedFromFile ==
  ASSUME GimbalTypeOK, CalibKnown
  PROVE  /\ G!Loaded \in [G!Axis -> Nat \ {0}]
         /\ \/ \E z \in asked : G!Loaded = G!WithDefaults(z)
            \/ calib.at # "off" /\ G!Loaded = G!WithDefaults(G!Missing)
<1>1. file \in [G!Axis -> Nat]
  <2>1. G!Missing \in [G!Axis -> Nat]
    BY DEF G!Missing
  <2> QED BY <2>1 DEF GimbalTypeOK, G!GimbalTypeOK
<1>2. G!Loaded \in [G!Axis -> Nat \ {0}]
  BY <1>1, Defaults DEF G!Loaded
<1>3. file \in asked \/ (calib.at # "off" /\ file = G!Missing)
  BY DEF GimbalTypeOK, G!GimbalTypeOK, CalibKnown
<1> QED BY <1>2, <1>3 DEF G!Loaded

\* gimbal_full's own steps.
LEMMA FollowStep ==
  ASSUME Inv, G!LoadZero \/ G!Heartbeat \/ G!Follow \/ G!FallSilent
  PROVE  Inv'
<1> USE DEF Inv
<1>0. /\ UNCHANGED <<gimbal, calib, touched, keys, file, asked>>
      /\ CalibKnown'
  BY DEF G!LoadZero, G!Heartbeat, G!Follow, G!FallSilent, G!desk, CalibKnown
<1>1. CASE G!LoadZero
  <2>1. /\ center' = G!Loaded /\ servo' = G!Loaded /\ phase = "boot" /\ phase' = "wait"
        /\ followed' = followed
    BY <1>1 DEF G!LoadZero
  <2>2. /\ G!Loaded \in [G!Axis -> Nat \ {0}]
        /\ \/ \E z \in asked : G!Loaded = G!WithDefaults(z)
           \/ calib.at # "off" /\ G!Loaded = G!WithDefaults(G!Missing)
    BY LoadedFromFile
  <2>3. G!Loaded # G!Unset
    BY <2>2 DEF G!Unset, G!Axis
  <2>4. ~followed /\ ~followed'
    BY <2>1 DEF GimbalTypeOK, G!GimbalTypeOK
  <2>5. GimbalTypeOK'
    BY <1>0, <2>1, <2>2, <2>3, <2>4 DEF GimbalTypeOK, G!GimbalTypeOK
  <2>6. ServoTested'
    BY <2>1, <2>4 DEF ServoTested, G!ServoTested
  <2>7. ZeroPointHonest'
    BY <1>0, <2>1, <2>2 DEF ZeroPointHonest, G!ZeroPointHonest, G!GivenWhole
  <2> QED BY <1>0, <2>5, <2>6, <2>7
<1>2. CASE G!Heartbeat \/ G!FallSilent
  <2>1. /\ UNCHANGED <<center, servo, followed>>
        /\ phase' \in {"follow", "deaf"} /\ phase # "boot"
    BY <1>2 DEF G!Heartbeat, G!FallSilent
  <2>2. GimbalTypeOK'
    BY <1>0, <2>1 DEF GimbalTypeOK, G!GimbalTypeOK
  <2>3. ServoTested'
    BY <1>0, <2>1 DEF ServoTested, G!ServoTested
  <2>4. ZeroPointHonest'
    BY <1>0, <2>1 DEF ZeroPointHonest, G!ZeroPointHonest, G!GivenWhole
  <2> QED BY <1>0, <2>2, <2>3, <2>4
<1>3. CASE G!Follow
  <2>1. PICK attitude \in Attitudes :
          servo' = [a \in G!Axis |-> G!angleToDuty(attitude[a], center[a])]
    BY <1>3 DEF G!Follow
  <2>2. \A a \in G!Axis : attitude[a] \in Int /\ center[a] \in Int
    BY AttitudesTyped DEF GimbalTypeOK, G!GimbalTypeOK
  <2>3. \A a \in G!Axis : servo'[a] \in Nat /\ G!Tested(servo'[a])
    BY <2>1, <2>2, DutyTested
  <2>4. /\ UNCHANGED <<phase, center>> /\ servo' \in [G!Axis -> Nat]
        /\ phase = "follow" /\ followed' = TRUE
    BY <1>3, <2>1, <2>3 DEF G!Follow
  <2>5. GimbalTypeOK'
    BY <1>0, <2>4 DEF GimbalTypeOK, G!GimbalTypeOK
  <2>6. ServoTested'
    BY <2>3 DEF ServoTested, G!ServoTested
  <2>7. ZeroPointHonest'
    BY <1>0, <2>4 DEF ZeroPointHonest, G!ZeroPointHonest, G!GivenWhole
  <2> QED BY <1>0, <2>5, <2>6, <2>7
<1> QED BY <1>1, <1>2, <1>3

\* A step of zero_calib leaves gimbal_full where it was, and forgets no zero
\* point: what was true of gimbal_full's centre remains.
LEMMA CalibKeeps ==
  ASSUME ZeroPointHonest, UNCHANGED <<gimbal, phase, center>>, asked \subseteq asked',
         calib'.at # "off"
  PROVE  ZeroPointHonest'
BY DEF ZeroPointHonest, G!ZeroPointHonest, G!GivenWhole

\* zero_calib starts with what the file holds.
LEMMA StartStep ==
  ASSUME Inv, G!StartCalib
  PROVE  Inv'
<1> USE DEF Inv
<1>1. /\ calib' = [at |-> "keys", zero |-> G!Loaded, dirty |-> FALSE]
      /\ servo' = G!Loaded /\ calib.at = "off"
      /\ UNCHANGED <<gimbal, phase, center, followed, touched, keys, file, asked>>
  BY DEF G!StartCalib
<1>2. G!Loaded \in [G!Axis -> Nat \ {0}] /\ touched = {}
  BY <1>1, LoadedFromFile DEF CalibKnown
<1>3. GimbalTypeOK'
  BY <1>1, <1>2 DEF GimbalTypeOK, G!GimbalTypeOK
<1>4. ServoTested' /\ CalibKnown'
  BY <1>1, <1>2 DEF ServoTested, G!ServoTested, CalibKnown
<1>5. ZeroPointHonest'
  BY <1>1, CalibKeeps
<1> QED BY <1>3, <1>4, <1>5

\* A key sets one axis to within its range, and both servos to what is held.
LEMMA KeyStep ==
  ASSUME Inv, G!Key
  PROVE  Inv'
<1> USE DEF Inv
<1>1. PICK k \in Keys :
        /\ calib' = [calib EXCEPT !.zero[k[1]] = G!Clamp(@ + k[2], G!CALIB_MIN, G!CALIB_MAX),
                                  !.dirty = TRUE]
        /\ touched' = touched \cup {k[1]}
  BY DEF G!Key
<1>2. /\ calib.at = "keys" /\ keys < MaxKeys /\ keys' = keys + 1 /\ servo' = calib'.zero
      /\ UNCHANGED <<gimbal, phase, center, followed, file, asked>>
  BY DEF G!Key
<1>3. /\ calib.zero \in [G!Axis -> Nat \ {0}]
      /\ \A a \in touched : G!Tested(calib.zero[a])
      /\ calib = [at |-> "keys", zero |-> calib.zero, dirty |-> calib.dirty]
  BY <1>2 DEF CalibKnown, GimbalTypeOK, G!GimbalTypeOK
<1>4. k[1] \in G!Axis /\ k[2] \in Int /\ keys' \in 0..MaxKeys
  BY <1>2, GimbalConstants DEF G!GimbalAssumption, GimbalTypeOK, G!GimbalTypeOK
<1> DEFINE v == G!Clamp(calib.zero[k[1]] + k[2], G!CALIB_MIN, G!CALIB_MAX)
           Z == [calib.zero EXCEPT ![k[1]] = v]
<1>5. v \in 10..20
  BY <1>3, <1>4 DEF G!Clamp, G!CALIB_MIN, G!CALIB_MAX
<1>6. calib' = [at |-> "keys", zero |-> Z, dirty |-> TRUE]
  <2>1. calib' = [calib EXCEPT !.zero = Z, !.dirty = TRUE]
    BY <1>1
  <2>2. calib.dirty \in BOOLEAN
    BY DEF GimbalTypeOK, G!GimbalTypeOK
  <2> HIDE DEF Z
  <2> QED BY <1>2, <2>1, <2>2 DEF GimbalTypeOK, G!GimbalTypeOK
<1>7. v \in Nat \ {0} /\ G!Tested(v)
  <2> HIDE DEF v
  <2> QED BY <1>5 DEF G!Tested, G!DUTY_MIN, G!DUTY_MAX
<1>8. /\ Z \in [G!Axis -> Nat \ {0}]
      /\ Z[k[1]] = v /\ \A a \in G!Axis : a # k[1] => Z[a] = calib.zero[a]
  <2> HIDE DEF v
  <2> QED BY <1>3, <1>4, <1>7
<1> HIDE DEF v, Z
<1>9. touched' \subseteq G!Axis /\ \A a \in touched' : G!Tested(Z[a])
  BY <1>1, <1>3, <1>4, <1>7, <1>8 DEF GimbalTypeOK, G!GimbalTypeOK
<1>10. GimbalTypeOK'
  BY <1>2, <1>4, <1>6, <1>8, <1>9 DEF GimbalTypeOK, G!GimbalTypeOK
<1>11. CalibKnown'
  BY <1>6, <1>8, <1>9 DEF CalibKnown
<1>12. ServoTested'
  BY <1>2, <1>6, <1>9 DEF ServoTested, G!ServoTested
<1>13. ZeroPointHonest'
  BY <1>2, <1>6, CalibKeeps
<1> QED BY <1>10, <1>11, <1>12, <1>13

\* A save moves no servo, and writes what was asked for or nothing.
LEMMA SaveStep ==
  ASSUME Inv, G!SaveOpens \/ G!SaveCloses \/ G!QuitCalib
  PROVE  Inv'
<1> USE DEF Inv
<1>1. /\ UNCHANGED <<gimbal, phase, center, servo, followed, touched, keys>>
      /\ calib.at \in {"keys", "saving"} /\ calib'.zero = calib.zero
      /\ calib' \in [at : {"keys", "saving", "ended"}, zero : [G!Axis -> Int], dirty : BOOLEAN]
  BY DEF G!SaveOpens, G!SaveCloses, G!QuitCalib, G!own, GimbalTypeOK, G!GimbalTypeOK
<1>2. calib.zero \in [G!Axis -> Nat \ {0}] /\ \A a \in touched : G!Tested(calib.zero[a])
  BY <1>1 DEF CalibKnown
<1>3. /\ asked \subseteq asked' /\ asked' \subseteq [G!Axis -> Nat]
      /\ file' \in asked' \cup {G!Missing}
      /\ calib'.at = "saving" => calib'.zero \in asked'
  <2>1. CASE G!SaveOpens
    BY <1>1, <1>2, <2>1 DEF G!SaveOpens, GimbalTypeOK, G!GimbalTypeOK
  <2>2. CASE G!SaveCloses \/ G!QuitCalib
    <3>1. /\ asked' = asked /\ calib'.at \in {"keys", "ended"}
          /\ \/ file' \in {file, G!Missing}
             \/ calib.at = "saving" /\ file' = calib.zero
      BY <2>2 DEF G!SaveCloses, G!QuitCalib, G!Text, GimbalTypeOK, G!GimbalTypeOK
    <3> QED BY <3>1 DEF CalibKnown, GimbalTypeOK, G!GimbalTypeOK
  <2> QED BY <2>1, <2>2
<1>4. GimbalTypeOK'
  BY <1>1, <1>3 DEF GimbalTypeOK, G!GimbalTypeOK
<1>5. CalibKnown'
  BY <1>1, <1>2, <1>3 DEF CalibKnown
<1>6. ServoTested'
  BY <1>1 DEF ServoTested, G!ServoTested
<1>7. ZeroPointHonest'
  BY <1>1, <1>3, CalibKeeps
<1> QED BY <1>4, <1>5, <1>6, <1>7

\* A step of the mission, which may begin or end gimbal_full, and one that
\* changes nothing.
LEMMA LifeStep ==
  ASSUME Inv, TypeOK', G!Life \/ UNCHANGED <<vars, G!gvars>>
  PROVE  Inv'
<1> USE DEF Inv
<1>1. UNCHANGED <<calib, touched, keys, file, asked>>
  BY DEF G!Life, G!gvars, G!desk
<1>2. /\ \/ phase' = "boot" /\ center' = G!Unset /\ servo' = G!Missing
            /\ followed' = FALSE
         \/ UNCHANGED <<phase, center, servo, followed>> /\ (gimbal' = "running" => gimbal = "running")
      /\ gimbal' \in {"none", "running", "dead"}
  BY DEF G!Life, G!gvars, G!own, vars, TypeOK
<1>3. GimbalTypeOK'
  <2>1. G!Unset \in [G!Axis -> Int] /\ G!Missing \in [G!Axis -> Nat]
    BY DEF G!Unset, G!Missing
  <2>2. CASE phase' = "boot" /\ center' = G!Unset /\ servo' = G!Missing /\ followed' = FALSE
    <3>1. followed' \in BOOLEAN
      BY <2>2, Zenon
    <3>2. ~followed'
      BY <2>2
    <3> QED BY <1>1, <1>2, <2>1, <2>2, <3>1, <3>2 DEF GimbalTypeOK, G!GimbalTypeOK
  <2>3. CASE UNCHANGED <<phase, center, servo, followed>>
    BY <1>1, <1>2, <2>3 DEF GimbalTypeOK, G!GimbalTypeOK
  <2> QED BY <1>2, <2>2, <2>3
<1>4. ServoTested'
  BY <1>1, <1>2 DEF ServoTested, G!ServoTested, G!Tested, G!Missing
<1>5. ZeroPointHonest' /\ CalibKnown'
  BY <1>1, <1>2 DEF ZeroPointHonest, G!ZeroPointHonest, G!GivenWhole, CalibKnown
<1> QED BY <1>3, <1>4, <1>5

LEMMA InvStep == Inv /\ TypeOK' /\ [FlightNext]_<<vars, G!gvars>> => Inv'
BY FollowStep, StartStep, KeyStep, SaveStep, LifeStep DEF FlightNext, G!GimbalNext

LEMMA InvAlways == FlightSpec => []Inv
<1>1. FlightSpec => []TypeOK
  BY ImplementsMission, TypeCorrect, PTL
<1> QED BY <1>1, InvInit, InvStep, PTL DEF FlightSpec

\* What the gimbal and the calibration hold is always of its type.
THEOREM GimbalTypes == FlightSpec => []GimbalTypeOK
<1>1. Inv => GimbalTypeOK
  BY DEF Inv
<1> QED BY <1>1, InvAlways, PTL

\* For any attitudes, any zero points and any keys: a servo is out of its
\* tested range only at the zero point one of the two programs started with,
\* before gimbal_full's first attitude or zero_calib's first key for the axis.
THEOREM ServoStaysTested == FlightSpec => []ServoTested
<1>1. Inv => ServoTested
  BY DEF Inv
<1> QED BY <1>1, InvAlways, PTL

\* For any zero points, any keys and any way a save ends: gimbal_full runs
\* around a zero point given as a whole or, after zero_calib was started,
\* around the default; a start never takes the axes from two saves.
THEOREM ZeroPointIsHonest == FlightSpec => []ZeroPointHonest
<1>1. Inv => ZeroPointHonest
  BY DEF Inv
<1> QED BY <1>1, InvAlways, PTL
=============================================================================
