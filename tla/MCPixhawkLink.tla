---------------------------- MODULE MCPixhawkLink ----------------------------
\* PixhawkLink in half seconds, with an autopilot that does not have the
\* default system id.
EXTENDS PixhawkLink
=============================================================================
