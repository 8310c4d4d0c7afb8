-------------------------------- MODULE Room --------------------------------
(***************************************************************************)
(* The row of one real-time room under concurrent room.update,             *)
(* room.locked_types, room.whiteboard_access and room.adjust requests.     *)
(*                                                                         *)
(* Every handler reads the row in find_room, waits for the tenant's        *)
(* authorization, and then writes a value computed from what it read; the  *)
(* row is not locked in between and the UPDATE does not check that the row *)
(* is still the same.  Rows are read from the replica if there is one.     *)
(* Of the columns, time, locked_types and whiteboard_access are modelled.  *)
(***************************************************************************)
EXTENDS Naturals

CONSTANTS
  Handlers,     \* slots for concurrent requests
  Method,       \* the method each slot serves
  Types,        \* event types that can be locked
  People,       \* accounts that can be given whiteboard access
  Unbounded,    \* the closing bound of a room without one
  NoTime,       \* the payload has no time
  InitTimes,    \* times the room may be created with
  AskedTimes,   \* times asked for in room.update
  Diffs,        \* maps asked for in room.locked_types
  AccessDiffs,  \* maps asked for in room.whiteboard_access
  Minigroup,    \* the room's kind is Minigroup
  ReadReplica,  \* READONLY_DATABASE_URL is set
  MaxClock      \* bound: the clock

Methods == {"update", "locked_types", "whiteboard_access", "adjust"}
Ends == Nat \cup {Unbounded}
Ranges == [start: Nat, end: Ends]

ASSUME RoomAssumption ==
  /\ Unbounded \notin Nat
  /\ NoTime \notin Ranges
  /\ Method \in [Handlers -> Methods]
  /\ InitTimes \subseteq Ranges
  /\ AskedTimes \subseteq Ranges
  /\ \A d \in Diffs : DOMAIN d \subseteq Types /\ \A t \in DOMAIN d : d[t] \in BOOLEAN
  /\ \A d \in AccessDiffs : DOMAIN d \subseteq People /\ \A p \in DOMAIN d : d[p] \in BOOLEAN
  /\ Minigroup \in BOOLEAN
  /\ ReadReplica \in BOOLEAN
  /\ MaxClock \in Nat

VARIABLES
  clock,     \* Utc::now()
  room,      \* the row on the primary
  replica,   \* the row on the read-only replica
  pc,        \* where each handler is
  req,       \* what each handler was asked, has read and has computed
  merged,    \* history: the maps, had each committed diff been merged in turn
  lastDiff,  \* history: the last committed locked_types diff
  silent,    \* history: methods that closed the room without a room.close
  overtaken, \* history: the slots whose request has read a map that is now outdated
  raced      \* history: the maps that such a request has written

vars == <<clock, room, replica, pc, req, merged, lastDiff, silent, overtaken, raced>>

\* locked_types and whiteboard_access hold true values only, so they are sets.
MapNames == {"locked_types", "whiteboard_access"}
Maps == [locked_types: SUBSET Types, whiteboard_access: SUBSET People]
Row == [time: Ranges, maps: Maps]

\* asked: the payload; room: the row find_room returned; late: history, the
\* room was already closed when find_room ran; time: the range to write;
\* room_was_open: as in the handler.
NoDiff == <<>>
Asked == [time: AskedTimes \cup {NoTime}, diff: Diffs \cup AccessDiffs \cup {NoDiff}]
HandlerState == [asked: Asked, room: Row, late: BOOLEAN,
                 time: Ranges \cup {NoTime}, room_was_open: BOOLEAN]
NoRequest == [late |-> FALSE]

-----------------------------------------------------------------------------
(* db/room_time.rs and db/room.rs *)

\* RoomTime::new
ValidTime(t) == t.end # Unbounded => t.start < t.end

\* Object::is_closed
Closed(t, now) == t.end # Unbounded /\ t.end <= now

\* RoomTime::update: the new range, in a set, or the empty set for None.
UpdateTime(t, asked, now) ==
  IF \/ ~ValidTime(asked)
     \/ t.start <= now /\ t.end # Unbounded /\ t.end < now
  THEN {}
  ELSE IF t.start > now
       THEN {asked}
       ELSE {[start |-> t.start,
              end |-> IF asked.end = Unbounded \/ asked.end > now THEN asked.end ELSE now]}

\* Faulty variant: false entries are dropped before the maps are chained.
MergeTrueOnly(map, diff) == map \cup {k \in DOMAIN diff : diff[k]}

\* chain().collect(), then retain(): later entries win, false ones are dropped.
Merge(map, diff) == (map \ DOMAIN diff) \cup {k \in DOMAIN diff : diff[k]}

\* What a request of each method may ask for.
Payloads(method) ==
  CASE method = "update"            -> [time: AskedTimes \cup {NoTime}, diff: {NoDiff}]
    [] method = "locked_types"      -> [time: {NoTime}, diff: Diffs]
    [] method = "whiteboard_access" -> [time: {NoTime}, diff: AccessDiffs]
    [] method = "adjust"            -> [time: {NoTime}, diff: {NoDiff}]

TypeOK ==
  /\ clock \in Nat
  /\ room \in Row
  /\ ValidTime(room.time)
  /\ replica \in Row
  /\ pc \in [Handlers -> {"idle", "found", "timed", "ready"}]
  /\ req \in [Handlers -> HandlerState \cup {NoRequest}]
  /\ \A h \in Handlers : (pc[h] = "idle") <=> (req[h] = NoRequest)
  /\ \A h \in Handlers : pc[h] # "idle" => req[h].asked \in Payloads(Method[h])
  /\ merged \in Maps
  /\ lastDiff \in Diffs \cup {NoDiff}
  /\ silent \subseteq Methods
  /\ overtaken \subseteq Handlers
  /\ raced \subseteq MapNames

-----------------------------------------------------------------------------
(* Requests *)

\* room.create
Init ==
  /\ clock = 0
  /\ \E t \in InitTimes :
        room = [time |-> t, maps |-> [locked_types |-> {}, whiteboard_access |-> {}]]
  /\ ValidTime(room.time)
  /\ replica = room
  /\ pc = [h \in Handlers |-> "idle"]
  /\ req = [h \in Handlers |-> NoRequest]
  /\ merged = room.maps
  /\ lastDiff = NoDiff
  /\ silent = {}
  /\ overtaken = {}
  /\ raced = {}

\* What get_ro_conn reads.
ReadOnlyRoom == IF ReadReplica THEN replica ELSE room

\* Faulty variant: room.update finds rooms whatever their time.
AnyTime(asked, r) == TRUE

\* RoomTimeRequirement::NotClosed when the payload has a time, else Any.
TimeRequirement(asked, r) == asked.time # NoTime => ~Closed(r.time, clock)

\* find_room, and the kind check of room.whiteboard_access.
Find(h, asked) ==
  /\ pc[h] = "idle"
  /\ TimeRequirement(asked, ReadOnlyRoom)
  /\ Method[h] = "whiteboard_access" => Minigroup
  /\ pc' = [pc EXCEPT ![h] = "found"]
  /\ req' = [req EXCEPT ![h] = [asked |-> asked, room |-> ReadOnlyRoom,
                                late |-> Closed(room.time, clock),
                                time |-> NoTime, room_was_open |-> FALSE]]
  /\ overtaken' = IF ReadOnlyRoom.maps = room.maps THEN overtaken \ {h} ELSE overtaken \cup {h}
  /\ UNCHANGED <<clock, room, replica, merged, lastDiff, silent, raced>>

Finish(h) ==
  /\ pc' = [pc EXCEPT ![h] = "idle"]
  /\ req' = [req EXCEPT ![h] = NoRequest]

\* Denied, no connection, or an invalid time.
Refuse(h) ==
  /\ pc[h] # "idle"
  /\ Finish(h)
  /\ UNCHANGED <<clock, room, replica, merged, lastDiff, silent, overtaken, raced>>

\* room.update, authorized: the range to write comes from the row that was read, and
\* from the clock.
PrepareUpdate(h) ==
  /\ Method[h] = "update"
  /\ pc[h] = "found"
  /\ \E t \in IF req[h].asked.time = NoTime THEN {NoTime}
              ELSE UpdateTime(req[h].room.time, req[h].asked.time, clock) :
        req' = [req EXCEPT ![h].time = t]
  /\ pc' = [pc EXCEPT ![h] = "timed"]
  /\ UNCHANGED <<clock, room, replica, merged, lastDiff, silent, overtaken, raced>>

\* let room_was_open = !room.is_closed(): the clock is read again.
CheckWasOpen(h) ==
  /\ Method[h] = "update"
  /\ pc[h] = "timed"
  /\ pc' = [pc EXCEPT ![h] = "ready"]
  /\ req' = [req EXCEPT ![h].room_was_open = ~Closed(req[h].room.time, clock)]
  /\ UNCHANGED <<clock, room, replica, merged, lastDiff, silent, overtaken, raced>>

\* room.adjust, authorized and accepted: the task closes an unbounded room.
PrepareAdjust(h) ==
  /\ Method[h] = "adjust"
  /\ pc[h] = "found"
  /\ req[h].room.time.end = Unbounded
  /\ \E t \in UpdateTime(req[h].room.time,
                         [start |-> req[h].room.time.start, end |-> clock], clock) :
        req' = [req EXCEPT ![h].time = t]
  /\ pc' = [pc EXCEPT ![h] = "ready"]
  /\ UNCHANGED <<clock, room, replica, merged, lastDiff, silent, overtaken, raced>>

\* A bounded room keeps its time.
AdjustBounded(h) ==
  /\ Method[h] = "adjust"
  /\ pc[h] = "found"
  /\ req[h].room.time.end # Unbounded
  /\ Finish(h)
  /\ UNCHANGED <<clock, room, replica, merged, lastDiff, silent, overtaken, raced>>

\* Faulty variant: the end itself is not past.
EndPassedStrictly(end, now) == end # Unbounded /\ end < now

\* Bound::Excluded(t) if Utc::now() >= t
EndPassed(end, now) == end # Unbounded /\ end <= now

\* room.close is sent if the room was open and the asked end is in the past.
Announces(r) ==
  r.room_was_open /\ r.asked.time # NoTime /\ EndPassed(r.asked.time.end, clock)

\* Faulty variant: the whole row that was read is written back.
SetTimeAndRow(h) ==
  room' = [req[h].room EXCEPT !.time = IF req[h].time = NoTime THEN @ ELSE req[h].time]

\* UPDATE room SET time = COALESCE($2, time), ...: the other columns stay.
SetTime(h) ==
  room' = [room EXCEPT !.time = IF req[h].time = NoTime THEN @ ELSE req[h].time]

\* Faulty variant: the table without its constraint.
NoConstraint(t) == TRUE

\* CONSTRAINT room_time_presence CHECK ("time" <> 'empty')
TimePresence(t) == t # NoTime => ValidTime(t)

\* The UPDATE of room.update or room.adjust commits, unless the new range is
\* empty; room.update then sends its notifications.
WriteTime(h) ==
  /\ Method[h] \in {"update", "adjust"}
  /\ pc[h] = "ready"
  /\ TimePresence(req[h].time)
  /\ SetTime(h)
  /\ silent' = IF /\ ~Closed(room.time, clock)
                  /\ Closed(room'.time, clock)
                  /\ ~(Method[h] = "update" /\ Announces(req[h]))
               THEN silent \cup {Method[h]}
               ELSE silent
  /\ Finish(h)
  /\ UNCHANGED <<clock, replica, merged, lastDiff, overtaken, raced>>

\* History: whoever is to write the same map has read it before this request wrote it.
Overlap(h) ==
  /\ overtaken' = (overtaken \ {h}) \cup {k \in Handlers \ {h} : pc[k] # "idle" /\ Method[k] = Method[h]}
  /\ raced' = IF h \in overtaken THEN raced \cup {Method[h]} ELSE raced

\* room.locked_types, authorized: the diff is merged into the map that was read.
WriteLockedTypes(h) ==
  /\ Method[h] = "locked_types"
  /\ pc[h] = "found"
  /\ room' = [room EXCEPT !.maps.locked_types =
                 Merge(req[h].room.maps.locked_types, req[h].asked.diff)]
  /\ merged' = [merged EXCEPT !.locked_types = Merge(@, req[h].asked.diff)]
  /\ lastDiff' = req[h].asked.diff
  /\ Finish(h)
  /\ Overlap(h)
  /\ UNCHANGED <<clock, replica, silent>>

\* Faulty variant: the whole row that was read is written back.
WriteAccessAndRow(h) ==
  /\ Method[h] = "whiteboard_access"
  /\ pc[h] = "found"
  /\ room' = [req[h].room EXCEPT !.maps.whiteboard_access = Merge(@, req[h].asked.diff)]
  /\ merged' = [merged EXCEPT !.whiteboard_access = Merge(@, req[h].asked.diff)]
  /\ Finish(h)
  /\ Overlap(h)
  /\ UNCHANGED <<clock, replica, lastDiff, silent>>

WriteWhiteboardAccess(h) ==
  /\ Method[h] = "whiteboard_access"
  /\ pc[h] = "found"
  /\ room' = [room EXCEPT !.maps.whiteboard_access =
                 Merge(req[h].room.maps.whiteboard_access, req[h].asked.diff)]
  /\ merged' = [merged EXCEPT !.whiteboard_access = Merge(@, req[h].asked.diff)]
  /\ Finish(h)
  /\ Overlap(h)
  /\ UNCHANGED <<clock, replica, lastDiff, silent>>

-----------------------------------------------------------------------------
(* The environment: replication catches up, time passes. *)

Replicate ==
  /\ ReadReplica
  /\ replica # room
  /\ replica' = room
  /\ UNCHANGED <<clock, room, pc, req, merged, lastDiff, silent, overtaken, raced>>

Tick ==
  /\ clock < MaxClock
  /\ clock' = clock + 1
  /\ UNCHANGED <<room, replica, pc, req, merged, lastDiff, silent, overtaken, raced>>

Serve(h) ==
  \/ \E asked \in Payloads(Method[h]) : Find(h, asked)
  \/ Refuse(h)
  \/ PrepareUpdate(h)
  \/ CheckWasOpen(h)
  \/ PrepareAdjust(h)
  \/ AdjustBounded(h)
  \/ WriteTime(h)
  \/ WriteLockedTypes(h)
  \/ WriteWhiteboardAccess(h)

Next ==
  \/ \E h \in Handlers : Serve(h)
  \/ Replicate
  \/ Tick

Spec == Init /\ [][Next]_vars

-----------------------------------------------------------------------------
(* What the room promises. *)

\* A diff is lost only to a request for the same map that had read it before the diff
\* was written, or from a replica that was behind: a map that no such request has
\* written is the merge of every diff, whatever the requests for the other columns,
\* which read and write the same row, do meanwhile.
MapsMerged == \A m \in MapNames \ raced : room.maps[m] = merged[m]

\* The last committed room.locked_types request is in force: what it locked is
\* locked and what it unlocked is not.
LastDiffInForce ==
  \A t \in DOMAIN lastDiff : (t \in room.maps.locked_types) <=> lastDiff[t]

\* A room.update that moves the closing time "from future into the past" sends
\* room.close, or clients stay in a closed room.
UpdateAnnouncesClose == "update" \notin silent

\* A closed room is reopened only by a request that read it before it closed:
\* a request that comes later never does ("Forbid changing time of a closed
\* room").
ClosedToLaterRequests ==
  [][(Closed(room.time, clock) /\ ~Closed(room.time, clock)')
        => \E h \in Handlers : pc[h] = "ready" /\ pc'[h] = "idle" /\ ~req[h].late]_vars

-----------------------------------------------------------------------------
(* Inductive invariants. *)

\* A request that is to be merged into a map has read the current map, unless it was
\* overtaken.
ReadIsCurrent ==
  \A h \in Handlers \ overtaken :
     (pc[h] = "found" /\ Method[h] \in MapNames)
       => req[h].room.maps[Method[h]] = room.maps[Method[h]]

MapsInv == TypeOK /\ MapsMerged /\ ReadIsCurrent

\* A request that found the room closed has no time to write.
LateHasNoTime ==
  \A h \in Handlers : (pc[h] # "idle" /\ req[h].late) =>
     /\ req[h].asked.time = NoTime
     /\ req[h].room.time.end # Unbounded
     /\ req[h].time = NoTime

LateInv == TypeOK /\ LateHasNoTime

\* The room still has the time that the only room.update in progress has read, or is
\* closed.
UpdateReadTime ==
  \A h \in Handlers : (pc[h] # "idle" /\ Method[h] = "update") =>
     room.time = req[h].room.time \/ Closed(room.time, clock)

\* A room.update that has a time to write asked for one that ends no later; when it is
\* about to write, it has found the room open, or the room is closed by now.
UpdatePrepared ==
  \A h \in Handlers :
     (pc[h] \in {"timed", "ready"} /\ Method[h] = "update" /\ req[h].time # NoTime) =>
        /\ req[h].asked.time # NoTime
        /\ req[h].time.end # Unbounded =>
             req[h].asked.time.end # Unbounded /\ req[h].asked.time.end <= req[h].time.end
        /\ pc[h] = "ready" => req[h].room_was_open \/ Closed(req[h].room.time, clock)

\* room.adjust writes the time of a closed room.
AdjustPrepared ==
  \A h \in Handlers : (pc[h] = "ready" /\ Method[h] = "adjust") =>
     req[h].time # NoTime /\ Closed(req[h].time, clock)

CloseInv == TypeOK /\ UpdateAnnouncesClose /\ UpdateReadTime /\ UpdatePrepared /\ AdjustPrepared
=============================================================================
