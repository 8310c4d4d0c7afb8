----------------------------- MODULE MCEditions -----------------------------
(* Instances of Editions for TLC, with two nanoseconds in a millisecond. *)
EXTENDS Editions

CONSTANTS h1, c1

Event(id, kind, set, data, at, at_created) ==
  [id |-> id, kind |-> kind, set |-> set, data |-> data, at |-> at, created |-> at_created]

\* One cut, with an event before, in and after it; a second one starts where it
\* stops, and room.adjust has created the two commands at one time.
Room == {Event(1, "message", "message", "text", 1, 1),
         Event(2, "stream", "stream", "start", 3, 2),
         Event(3, "message", "chat", "text", 4, 3),
         Event(4, "stream", "stream", "stop", 5, 9),
         Event(5, "stream", "stream", "start", 5, 9),
         Event(6, "message", "message", "text", 8, 6)}

Row(type, event, kind, set, data, at) ==
  [type |-> type, event |-> event, kind |-> kind, set |-> set, data |-> data, at |-> at]

Addition(kind, data, at) == Row("addition", None, kind, None, data, at)

\* Cuts that nest in the room's, prolong it or never end; changes of every type;
\* one that turns a message into a cut event and says no more.
EveryType == {Addition("stream", "start", 4),
              Addition("stream", "stop", 7),
              Addition("message", "text", 8),
              Row("modification", 3, None, None, "other", None),
              Row("modification", 1, "stream", None, None, None),
              Row("removal", 6, None, None, None, None),
              Row("bulk_removal", None, None, "chat", None, None)}
=============================================================================
