------------------------------- MODULE MCIpc -------------------------------
(* Instances of Ipc for TLC. *)
EXTENDS Ipc

CONSTANTS p1, p2, p3
=============================================================================
