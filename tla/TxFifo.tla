------------------------------- MODULE TxFifo -------------------------------
(***************************************************************************)
(* What the transmit side of a peripheral promises to the process that     *)
(* owns it: accepted buffers go out one at a time, in the order in which   *)
(* they were accepted, and all of them do.                                 *)
(***************************************************************************)
EXTENDS Integers, Sequences

CONSTANTS
  Bufs,     (* buffers                                                      *)
  Idle,     (* no buffer                                                    *)
  Capacity  (* accepted buffers that have not gone out yet, at most         *)

VARIABLES
  pending,  (* accepted, oldest first; the oldest stays while it goes out   *)
  wire      (* the buffer that is going out, or Idle                        *)

vars == <<pending, wire>>

FirstOf(s) == IF s = << >> THEN Idle ELSE Head(s)

Init == pending = << >> /\ wire = Idle

Accept(b) ==
  /\ Len(pending) < Capacity
  /\ pending' = Append(pending, b)
  /\ UNCHANGED wire

Begin ==
  /\ wire = Idle
  /\ pending # << >>
  /\ wire' = Head(pending)
  /\ UNCHANGED pending

Complete ==
  /\ wire # Idle
  /\ pending' = Tail(pending)
  /\ wire' = FirstOf(Tail(pending))

Next == (\E b \in Bufs : Accept(b)) \/ Begin \/ Complete

Safety == Init /\ [][Next]_vars
Spec == Safety /\ WF_vars(Begin) /\ WF_vars(Complete)
=============================================================================
