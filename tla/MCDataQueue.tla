---------------------------- MODULE MCDataQueue ----------------------------
(* A ring of seven bytes with headers of one, and requests of one, two and  *)
(* four: frames of every size, waits for room and starting again at 0 all   *)
(* happen, at every offset.                                                 *)
EXTENDS DataQueue
=============================================================================
