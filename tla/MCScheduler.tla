---------------------------- MODULE MCScheduler ----------------------------
(* Instances of Scheduler for TLC. *)
EXTENDS Scheduler

OneWait == {{"event"}}
DeviceOfOne == {<<1, "event">>}
=============================================================================
