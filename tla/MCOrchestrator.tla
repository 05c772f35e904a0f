--------------------------- MODULE MCOrchestrator ---------------------------
(***************************************************************************)
(* Small instances of Orchestrator.  A queue of QueueDepth events stands   *)
(* for the eight of the firmware; a configuration chooses which optional   *)
(* behaviours of the surroundings are switched on.                         *)
(***************************************************************************)
EXTENDS Orchestrator
=============================================================================
