----------------------------- MODULE MCDispatch -----------------------------
(* An instance of Dispatch for TLC. *)
EXTENDS Dispatch

CONSTANTS m1, d1

\* Messages share nothing but the service and the broker: one comes in, and none beside a
\* second reconnection, which only Listens depends on.
Apart ==
  /\ \E m \in Messages : message[m] = Sent
  /\ reconnections > 1 => \A m \in Messages : message[m] = Sent
=============================================================================
