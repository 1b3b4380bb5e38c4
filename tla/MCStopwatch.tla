---------------------------- MODULE MCStopwatch ----------------------------
(***************************************************************************)
(* The stopwatch for TLC: two clients, with statements that fail and a     *)
(* server that stops half way, and one client, with neither.               *)
(***************************************************************************)
EXTENDS Stopwatch

Clients == [overlap |-> TRUE, fails |-> TRUE]
OneClient == [overlap |-> FALSE, fails |-> FALSE]
cModes == {Clients, OneClient}
cOverlapping == {[overlap |-> TRUE, fails |-> FALSE]}

\* Several clients get by with two clocks and two entries.
BoundedNext ==
  StopwatchNext /\ (mode.overlap => Cardinality(started') <= 2 /\ Cardinality(booked') <= 2)
=============================================================================
