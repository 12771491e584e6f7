---------------------------- MODULE MCEventStream ----------------------------
(* A small instance of EventStream: with units of 1 s the clock stops after *)
(* two, and the keepalive and idle timers keep their order, 2 s < 10 s < 30 s. *)
EXTENDS EventStream
=============================================================================
