--------------------------- MODULE MCNatsConsumer ---------------------------
(* Instances of NatsConsumer for TLC. *)
EXTENDS NatsConsumer

CONSTANTS c1, c2, m1, m2, orphan
=============================================================================
