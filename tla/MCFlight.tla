------------------------------ MODULE MCFlight ------------------------------
EXTENDS Flight, Integers

\* A bank past what the servo can follow; a zero point edited to where no
\* servo should go; the key s.
MCAttitudes == {[pitch |-> -31, roll |-> 170]}
MCContents == {[pitch |-> 40, roll |-> 12]}
MCKeys == {<<"pitch", 1>>}
=============================================================================
