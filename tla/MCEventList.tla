---------------------------- MODULE MCEventList ----------------------------
(* The instance of EventStore in which authors race, with a client that lists. *)
EXTENDS MCEventStore, EventList
=============================================================================
