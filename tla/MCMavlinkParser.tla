--------------------------- MODULE MCMavlinkParser ---------------------------
(***************************************************************************)
(* A scaled-down protocol for MavlinkParser: four byte values, two of them  *)
(* markers, so that a length or a payload byte can look like a marker, and  *)
(* a checksum of one byte.                                                  *)
(***************************************************************************)
EXTENDS MavlinkParser

\* Sum of the bytes after the marker, as the code leaves the magic byte out.
MCCrc(f) ==
  LET sum[i \in 1..Len(f)] == IF i = 1 THEN 0 ELSE sum[i-1] + f[i]
  IN  <<sum[Len(f)] % 4>>
=============================================================================
