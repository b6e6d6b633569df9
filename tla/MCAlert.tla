------------------------------ MODULE MCAlert -------------------------------
(***************************************************************************)
(* Alert lines for TLC: a healthy one with a recoverable alert, and one    *)
(* with a fatal alert and faults on the pairs the sender reads. Alerts,    *)
(* alert tests and pings come as close together as the hardware lets them. *)
(***************************************************************************)
EXTENDS AlertChannel

Recoverable == [is_fatal |-> FALSE, tests |-> BOOLEAN, faulty |-> {}]
FatalFaulty == [is_fatal |-> TRUE, tests |-> BOOLEAN, faulty |-> {"ack", "ping"}]
BothLines == {Recoverable, FatalFaulty}
=============================================================================
