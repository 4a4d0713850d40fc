---------------------------- MODULE MCOnboardLog -----------------------------
\* OnboardLog with a few runs of a few packets.
EXTENDS OnboardLog
=============================================================================
