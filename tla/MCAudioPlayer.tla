--------------------------- MODULE MCAudioPlayer ---------------------------
(* Queues of one and two frames: full ones are met by packets, by frames and *)
(* by the dummy that wakes a thread.                                         *)
EXTENDS AudioPlayer
=============================================================================
