------------------------------ MODULE MCMission ------------------------------
\* Mission has no parameters: one mission with one recording.
EXTENDS Mission
=============================================================================
