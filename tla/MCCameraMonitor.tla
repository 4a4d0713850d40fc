--------------------------- MODULE MCCameraMonitor ---------------------------
\* CameraMonitor with two requests at a time and two settings.
EXTENDS CameraMonitor
=============================================================================
