---------------------------- MODULE MCEventStore ----------------------------
(* Instances of EventStore for TLC. *)
EXTENDS EventStore, TLC

CONSTANTS h1, h2, h3, alice, bob, l1, l2

Plain(a, l) == [account |-> a, names_set |-> TRUE, label |-> l, attribute |-> "none",
                removed |-> FALSE, is_persistent |-> TRUE]

\* Two authors race on one label; one of them also removes it, gives it an
\* attribute and writes to another label, the other sends a transient event.
RacingRequests ==
  {Plain(alice, l1), Plain(bob, l1), Plain(bob, l2),
   [Plain(bob, l1) EXCEPT !.removed = TRUE],
   [Plain(bob, l1) EXCEPT !.attribute = "deleted"],
   [Plain(alice, l1) EXCEPT !.names_set = FALSE, !.is_persistent = FALSE]}

\* One author rewrites, removes and deletes labels between vacuums, and sends a
\* transient event.
VacuumRequests ==
  {Plain(alice, l1), Plain(alice, NoLabel),
   [Plain(alice, l1) EXCEPT !.removed = TRUE],
   [Plain(alice, l1) EXCEPT !.attribute = "deleted"],
   [Plain(alice, NoLabel) EXCEPT !.is_persistent = FALSE]}

HandlerSymmetry == Permutations(Handlers)
=============================================================================
