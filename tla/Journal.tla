------------------------------- MODULE Journal -------------------------------
(***************************************************************************)
(* What the onboard log promises: a record can be written, what has been    *)
(* written can be made safe, and a crash or a power loss takes any of the   *)
(* records that were not safe, and no other.                               *)
(***************************************************************************)
CONSTANT Records

VARIABLES
  kept,  \* the records that could be read back now
  safe   \* the records that a power loss cannot take

vars == <<kept, safe>>

Init == kept = {} /\ safe = {}

Write ==
  /\ \E r \in Records \ kept : kept' = kept \cup {r}
  /\ UNCHANGED safe

MakeSafe ==
  /\ \E S \in SUBSET kept : safe' = safe \cup S
  /\ UNCHANGED kept

Lose ==
  /\ \E S \in SUBSET (kept \ safe) : kept' = kept \ S
  /\ UNCHANGED safe

Next == Write \/ MakeSafe \/ Lose

Spec == Init /\ [][Next]_vars
=============================================================================
