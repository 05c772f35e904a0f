---------------------------- MODULE MCBleCentral ----------------------------
(***************************************************************************)
(* Instances of BleCentral for TLC.  Its state is finite as it stands.     *)
(***************************************************************************)
EXTENDS BleCentral
=============================================================================
