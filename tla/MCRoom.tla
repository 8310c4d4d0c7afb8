------------------------------- MODULE MCRoom -------------------------------
(* Instances of Room for TLC. *)
EXTENDS Room, TLC

CONSTANTS u1, t1, t2, w1, a1, message, draw, alice

Range(s, e) == [start |-> s, end |-> e]

\* Requests that write the time, beside one for a map.
TimeAndTypes == u1 :> "update" @@ a1 :> "adjust" @@ t1 :> "locked_types"

\* Two requests for the same map beside one for the other map.
LockersAndGranter ==
  t1 :> "locked_types" @@ t2 :> "locked_types" @@ w1 :> "whiteboard_access"

\* Created before it opens or already open; closing or not.
RoomTimes == {Range(0, Unbounded), Range(1, 2)}

\* Closing earlier, at a later time, never; starting later; an empty range.
UpdateTimes == {Range(0, 1), Range(0, Unbounded), Range(2, 3), Range(2, 2)}

LockDiffs == {message :> TRUE, draw :> TRUE, message :> FALSE @@ draw :> TRUE}
FewLockDiffs == {message :> TRUE, message :> FALSE}

GrantDiffs == {alice :> TRUE, alice :> FALSE}
=============================================================================
