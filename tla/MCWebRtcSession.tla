-------------------------- MODULE MCWebRtcSession --------------------------
(* Two sessions, one loss of WiFi, two tries to configure a channel: a       *)
(* session meets what the one before it has left behind.                     *)
EXTENDS WebRtcSession
=============================================================================
