---------------------------- MODULE MCHwManager ----------------------------
(* Instances of HwManager for TLC. *)
EXTENDS HwManager
=============================================================================
