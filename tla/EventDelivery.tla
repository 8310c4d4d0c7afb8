--------------------------- MODULE EventDelivery ---------------------------
(***************************************************************************)
(* What the consumer of conference events promises: every message becomes  *)
(* one row of the event table or is given up, and whichever happens is     *)
(* final.                                                                  *)
(***************************************************************************)
EXTENDS Naturals

CONSTANT Messages

VARIABLES
  rows,      \* the number of rows each message has in the event table
  dropped    \* the messages that were given up

vars == <<rows, dropped>>

Init ==
  /\ rows = [m \in Messages |-> 0]
  /\ dropped = {}

Pending(m) == rows[m] = 0 /\ m \notin dropped

Store(m) ==
  /\ Pending(m)
  /\ rows' = [rows EXCEPT ![m] = 1]
  /\ UNCHANGED dropped

Drop(m) ==
  /\ Pending(m)
  /\ dropped' = dropped \cup {m}
  /\ UNCHANGED rows

Settle(m) == Store(m) \/ Drop(m)

Next == \E m \in Messages : Settle(m)

Spec == Init /\ [][Next]_vars /\ \A m \in Messages : WF_vars(Settle(m))
=============================================================================
