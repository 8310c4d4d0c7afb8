----------------------------- MODULE RoomProofs -----------------------------
(***************************************************************************)
(* Proofs about Room, for any number of concurrent requests: its types;    *)
(* that the last committed diff is in force; that a map is the merge of    *)
(* all diffs as long as no two requests for it overlap; that a             *)
(* request that comes after the room has closed never reopens it; and that *)
(* a room.update that closes the room says so.                             *)
(***************************************************************************)
EXTENDS Room, TLAPS

-----------------------------------------------------------------------------
(* Facts about the operators. *)

LEMMA MergeType ==
  ASSUME NEW S, NEW map \in SUBSET S, NEW diff, DOMAIN diff \subseteq S
  PROVE  Merge(map, diff) \in SUBSET S
  BY DEF Merge

\* After a merge, each key of the diff has the value the diff gives it.
LEMMA MergeAgrees ==
  ASSUME NEW map, NEW diff, NEW k \in DOMAIN diff
  PROVE  (k \in Merge(map, diff)) <=> diff[k]
  BY DEF Merge

LEMMA UpdateTimeType ==
  ASSUME NEW t \in Ranges, NEW asked \in Ranges, NEW now \in Nat
  PROVE  UpdateTime(t, asked, now) \subseteq Ranges
  BY DEF UpdateTime, Ranges, Ends

LEMMA PayloadType ==
  ASSUME NEW m \in Methods, NEW a \in Payloads(m)
  PROVE  /\ a \in Asked
         /\ m = "locked_types" => a.diff \in Diffs
         /\ m = "whiteboard_access" => a.diff \in AccessDiffs
  BY DEF Payloads, Asked, Methods

LEMMA NoRequestIsNoState == NoRequest \notin HandlerState
  BY DEF NoRequest, HandlerState

LEMMA BusyHasState ==
  ASSUME TypeOK, NEW h \in Handlers, pc[h] # "idle"
  PROVE  req[h] \in HandlerState /\ req[h].asked \in Payloads(Method[h])
  BY DEF TypeOK

\* The part of TypeOK about the handlers.
HandlersOK ==
  /\ pc \in [Handlers -> {"idle", "found", "timed", "ready"}]
  /\ req \in [Handlers -> HandlerState \cup {NoRequest}]
  /\ \A h \in Handlers : (pc[h] = "idle") <=> (req[h] = NoRequest)
  /\ \A h \in Handlers : pc[h] # "idle" => req[h].asked \in Payloads(Method[h])

LEMMA FinishType ==
  ASSUME TypeOK, NEW h \in Handlers, Finish(h)
  PROVE  HandlersOK'
  BY DEF TypeOK, Finish, HandlersOK

LEMMA AdvanceType ==
  ASSUME TypeOK, NEW h \in Handlers, NEW s \in HandlerState,
         s.asked \in Payloads(Method[h]),
         NEW at \in {"found", "timed", "ready"},
         pc' = [pc EXCEPT ![h] = at], req' = [req EXCEPT ![h] = s]
  PROVE  HandlersOK'
  BY NoRequestIsNoState DEF TypeOK, HandlersOK

LEMMA RoomIsReadable == TypeOK => ReadOnlyRoom \in Row
  BY DEF TypeOK, ReadOnlyRoom

-----------------------------------------------------------------------------
(* Type correctness. *)

LEMMA TypeStep == TypeOK /\ [Next]_vars => TypeOK'
<1>. SUFFICES ASSUME TypeOK, [Next]_vars PROVE TypeOK'
  OBVIOUS
<1>. USE RoomAssumption
<1>1. CASE UNCHANGED vars
  BY <1>1 DEF TypeOK, vars
<1>2. ASSUME NEW h \in Handlers, NEW asked \in Payloads(Method[h]), Find(h, asked)
      PROVE  TypeOK'
  <2>. DEFINE s == [asked |-> asked, room |-> ReadOnlyRoom,
                    late |-> Closed(room.time, clock),
                    time |-> NoTime, room_was_open |-> FALSE]
  <2>1. s \in HandlerState
    BY PayloadType, RoomIsReadable DEF HandlerState, Closed
  <2>2. s.asked \in Payloads(Method[h])
    OBVIOUS
  <2>3. pc' = [pc EXCEPT ![h] = "found"] /\ req' = [req EXCEPT ![h] = s]
    BY <1>2 DEF Find
  <2>. HIDE DEF s
  <2>4. HandlersOK'
    BY <2>1, <2>2, <2>3, AdvanceType
  <2>. QED  BY <1>2, <2>4 DEF Find, TypeOK, HandlersOK
<1>3. ASSUME NEW h \in Handlers, Refuse(h) PROVE TypeOK'
  BY <1>3, FinishType DEF Refuse, TypeOK, HandlersOK
<1>4. ASSUME NEW h \in Handlers, PrepareUpdate(h) PROVE TypeOK'
  <2>1. PICK t \in Ranges \cup {NoTime} : req' = [req EXCEPT ![h].time = t]
    <3>1. req[h].room.time \in Ranges /\ req[h].asked.time \in Ranges \cup {NoTime}
      BY <1>4, BusyHasState DEF PrepareUpdate, HandlerState, Row, Asked
    <3>. QED  BY <1>4, <3>1, UpdateTimeType DEF PrepareUpdate, TypeOK
  <2>. DEFINE s == [req[h] EXCEPT !.time = t]
  <2>2. s \in HandlerState /\ s.asked \in Payloads(Method[h])
    BY <1>4, BusyHasState DEF PrepareUpdate, HandlerState
  <2>3. pc' = [pc EXCEPT ![h] = "timed"] /\ req' = [req EXCEPT ![h] = s]
    BY <1>4, <2>1 DEF PrepareUpdate, TypeOK
  <2>. HIDE DEF s
  <2>4. HandlersOK'
    BY <2>2, <2>3, AdvanceType
  <2>. QED  BY <1>4, <2>4 DEF PrepareUpdate, TypeOK, HandlersOK
<1>12. ASSUME NEW h \in Handlers, CheckWasOpen(h) PROVE TypeOK'
  <2>. DEFINE s == [req[h] EXCEPT !.room_was_open = ~Closed(req[h].room.time, clock)]
  <2>2. s \in HandlerState /\ s.asked \in Payloads(Method[h])
    BY <1>12, BusyHasState DEF CheckWasOpen, HandlerState
  <2>3. pc' = [pc EXCEPT ![h] = "ready"] /\ req' = [req EXCEPT ![h] = s]
    BY <1>12 DEF CheckWasOpen, TypeOK
  <2>. HIDE DEF s
  <2>4. HandlersOK'
    BY <2>2, <2>3, AdvanceType
  <2>. QED  BY <1>12, <2>4 DEF CheckWasOpen, TypeOK, HandlersOK
<1>5. ASSUME NEW h \in Handlers, PrepareAdjust(h) PROVE TypeOK'
  <2>1. PICK t \in Ranges : req' = [req EXCEPT ![h].time = t]
    <3>1. req[h].room.time \in Ranges
      BY <1>5, BusyHasState DEF PrepareAdjust, HandlerState, Row
    <3>2. [start |-> req[h].room.time.start, end |-> clock] \in Ranges
      BY <3>1 DEF TypeOK, Ranges, Ends
    <3>. QED  BY <1>5, <3>1, <3>2, UpdateTimeType DEF PrepareAdjust, TypeOK
  <2>. DEFINE s == [req[h] EXCEPT !.time = t]
  <2>2. s \in HandlerState /\ s.asked \in Payloads(Method[h])
    BY <1>5, BusyHasState DEF PrepareAdjust, HandlerState
  <2>3. pc' = [pc EXCEPT ![h] = "ready"] /\ req' = [req EXCEPT ![h] = s]
    BY <1>5, <2>1 DEF PrepareAdjust, TypeOK
  <2>. HIDE DEF s
  <2>4. HandlersOK'
    BY <2>2, <2>3, AdvanceType
  <2>. QED  BY <1>5, <2>4 DEF PrepareAdjust, TypeOK, HandlersOK
<1>6. ASSUME NEW h \in Handlers, AdjustBounded(h) PROVE TypeOK'
  BY <1>6, FinishType DEF AdjustBounded, TypeOK, HandlersOK
<1>7. ASSUME NEW h \in Handlers, WriteTime(h) PROVE TypeOK'
  <2>1. req[h].time \in Ranges \cup {NoTime}
    BY <1>7, BusyHasState DEF WriteTime, HandlerState
  <2>2. room' \in Row /\ ValidTime(room'.time)
    BY <1>7, <2>1 DEF WriteTime, SetTime, TimePresence, TypeOK, Row
  <2>3. silent' \subseteq Methods
    BY <1>7 DEF WriteTime, TypeOK, Methods
  <2>4. HandlersOK'
    BY <1>7, FinishType DEF WriteTime
  <2>. QED  BY <1>7, <2>2, <2>3, <2>4 DEF WriteTime, TypeOK, HandlersOK
<1>8. ASSUME NEW h \in Handlers, WriteLockedTypes(h) PROVE TypeOK'
  <2>1. req[h].asked.diff \in Diffs /\ req[h].room.maps.locked_types \in SUBSET Types
    BY <1>8, BusyHasState, PayloadType DEF WriteLockedTypes, HandlerState, Row, Maps
  <2>2. room' \in Row /\ room'.time = room.time
    BY <1>8, <2>1, MergeType DEF WriteLockedTypes, TypeOK, Row, Maps
  <2>3. merged' \in Maps /\ lastDiff' \in Diffs
    BY <1>8, <2>1, MergeType DEF WriteLockedTypes, TypeOK, Maps
  <2>4. HandlersOK'
    BY <1>8, FinishType DEF WriteLockedTypes
  <2>5. overtaken' \subseteq Handlers /\ raced' \subseteq MapNames
    BY <1>8 DEF WriteLockedTypes, Overlap, TypeOK, MapNames
  <2>. QED  BY <1>8, <2>2, <2>3, <2>4, <2>5 DEF WriteLockedTypes, TypeOK, HandlersOK
<1>9. ASSUME NEW h \in Handlers, WriteWhiteboardAccess(h) PROVE TypeOK'
  <2>1. /\ req[h].asked.diff \in AccessDiffs
        /\ req[h].room.maps.whiteboard_access \in SUBSET People
    BY <1>9, BusyHasState, PayloadType DEF WriteWhiteboardAccess, HandlerState, Row, Maps
  <2>2. room' \in Row /\ room'.time = room.time
    BY <1>9, <2>1, MergeType DEF WriteWhiteboardAccess, TypeOK, Row, Maps
  <2>3. merged' \in Maps
    BY <1>9, <2>1, MergeType DEF WriteWhiteboardAccess, TypeOK, Maps
  <2>4. HandlersOK'
    BY <1>9, FinishType DEF WriteWhiteboardAccess
  <2>5. overtaken' \subseteq Handlers /\ raced' \subseteq MapNames
    BY <1>9 DEF WriteWhiteboardAccess, Overlap, TypeOK, MapNames
  <2>. QED  BY <1>9, <2>2, <2>3, <2>4, <2>5 DEF WriteWhiteboardAccess, TypeOK, HandlersOK
<1>10. CASE Replicate
  BY <1>10 DEF Replicate, TypeOK
<1>11. CASE Tick
  BY <1>11 DEF Tick, TypeOK
<1>. QED
  BY <1>1, <1>2, <1>3, <1>4, <1>5, <1>6, <1>7, <1>8, <1>9, <1>10, <1>11, <1>12 DEF Next, Serve

LEMMA InitType == Init => TypeOK
<1>. SUFFICES ASSUME Init PROVE TypeOK
  OBVIOUS
<1>1. room \in Row
  BY RoomAssumption DEF Init, Row, Maps
<1>2. HandlersOK
  BY DEF Init, HandlersOK
<1>. QED  BY <1>1, <1>2 DEF Init, TypeOK, Row, HandlersOK

\* The row, its replica and what the handlers hold are well-typed, and the row's
\* time is never an empty range, whatever requests race.
THEOREM TypeCorrect == Spec => []TypeOK
<1>1. Init => TypeOK
  BY InitType
<1>. QED  BY <1>1, TypeStep, PTL DEF Spec

-----------------------------------------------------------------------------
(* The maps. *)

\* The last committed room.locked_types diff is in force, for any number of
\* racing requests and however far the replica lags.
THEOREM LastDiffAlwaysInForce == Spec => []LastDiffInForce
<1>1. Init => LastDiffInForce
  BY DEF Init, NoDiff, LastDiffInForce
<1>2. TypeOK /\ LastDiffInForce /\ [Next]_vars => LastDiffInForce'
  <2>. SUFFICES ASSUME TypeOK, LastDiffInForce, [Next]_vars PROVE LastDiffInForce'
    OBVIOUS
  <2>1. ASSUME room'.maps.locked_types = room.maps.locked_types, lastDiff' = lastDiff
        PROVE  LastDiffInForce'
    BY <2>1 DEF LastDiffInForce
  <2>2. CASE UNCHANGED <<room, lastDiff>>
    BY <2>1, <2>2
  <2>3. ASSUME NEW h \in Handlers, WriteTime(h) PROVE LastDiffInForce'
    BY <2>1, <2>3 DEF WriteTime, SetTime, TypeOK, Row
  <2>4. ASSUME NEW h \in Handlers, WriteLockedTypes(h) PROVE LastDiffInForce'
    <3>1. /\ room'.maps.locked_types = Merge(req[h].room.maps.locked_types, lastDiff')
          /\ lastDiff' = req[h].asked.diff
      BY <2>4 DEF WriteLockedTypes, TypeOK, Row, Maps
    <3>. QED  BY <3>1, MergeAgrees DEF LastDiffInForce
  <2>5. ASSUME NEW h \in Handlers, WriteWhiteboardAccess(h) PROVE LastDiffInForce'
    BY <2>1, <2>5 DEF WriteWhiteboardAccess, TypeOK, Row, Maps
  <2>. QED
    BY <2>2, <2>3, <2>4, <2>5
    DEF Next, Serve, Find, Refuse, PrepareUpdate, CheckWasOpen, PrepareAdjust, AdjustBounded,
        Replicate, Tick, vars
<1>. QED  BY <1>1, <1>2, TypeCorrect, PTL DEF Spec

\* A diff is lost only to a request for the same map that had read it before the diff
\* was written, or from a replica that was behind: for any number of requests for
\* each map, with and without a replica, whatever the requests for the other columns
\* of the row do.
THEOREM NoDiffIsLost == Spec => []MapsMerged
<1>1. Init => MapsInv
  BY InitType DEF Init, MapsInv, MapsMerged, ReadIsCurrent
<1>2. MapsInv /\ [Next]_vars => MapsInv'
  <2>. SUFFICES ASSUME MapsInv, [Next]_vars PROVE MapsMerged' /\ ReadIsCurrent'
    BY TypeStep DEF MapsInv
  <2>. USE RoomAssumption DEF MapsInv
  <2>1. CASE UNCHANGED vars
    BY <2>1 DEF vars, MapsMerged, ReadIsCurrent
  <2>2. ASSUME NEW h \in Handlers, NEW asked \in Payloads(Method[h]), Find(h, asked)
        PROVE  MapsMerged' /\ ReadIsCurrent'
    <3>1. /\ UNCHANGED <<room, merged, raced>>
          /\ h \notin overtaken' => req'[h].room.maps = room.maps
      BY <2>2 DEF Find, TypeOK
    <3>2. \A k \in Handlers \ {h} :
             pc'[k] = pc[k] /\ req'[k] = req[k] /\ (k \in overtaken' <=> k \in overtaken)
      BY <2>2 DEF Find, TypeOK
    <3>. QED  BY <3>1, <3>2 DEF MapsMerged, ReadIsCurrent
  <2>3. ASSUME NEW h \in Handlers, Finish(h), UNCHANGED <<room, merged, overtaken, raced>>
        PROVE  MapsMerged' /\ ReadIsCurrent'
    BY <2>3 DEF Finish, MapsMerged, ReadIsCurrent, TypeOK
  <2>4. ASSUME NEW h \in Handlers, PrepareUpdate(h) \/ CheckWasOpen(h) \/ PrepareAdjust(h)
        PROVE  MapsMerged' /\ ReadIsCurrent'
    <3>1. UNCHANGED <<room, merged, overtaken, raced>> /\ pc'[h] \in {"timed", "ready"}
      BY <2>4 DEF PrepareUpdate, CheckWasOpen, PrepareAdjust, TypeOK
    <3>2. \A k \in Handlers \ {h} : pc'[k] = pc[k] /\ req'[k] = req[k]
      BY <2>4 DEF PrepareUpdate, CheckWasOpen, PrepareAdjust, TypeOK
    <3>. QED  BY <3>1, <3>2 DEF MapsMerged, ReadIsCurrent
  <2>5. ASSUME NEW h \in Handlers, WriteTime(h) PROVE MapsMerged' /\ ReadIsCurrent'
    <3>1. room'.maps = room.maps /\ UNCHANGED <<merged, overtaken, raced>>
      BY <2>5 DEF WriteTime, SetTime, TypeOK, Row
    <3>2. /\ pc'[h] = "idle"
          /\ \A k \in Handlers \ {h} : pc'[k] = pc[k] /\ req'[k] = req[k]
      BY <2>5 DEF WriteTime, Finish, TypeOK
    <3>. QED  BY <3>1, <3>2 DEF MapsMerged, ReadIsCurrent
  <2>6. ASSUME NEW h \in Handlers, NEW m \in MapNames, Method[h] = m, pc[h] = "found",
               room'.maps = [room.maps EXCEPT ![m] =
                               Merge(req[h].room.maps[m], req[h].asked.diff)],
               merged' = [merged EXCEPT ![m] = Merge(merged[m], req[h].asked.diff)],
               Finish(h), Overlap(h)
        PROVE  MapsMerged' /\ ReadIsCurrent'
    <3>1. DOMAIN room.maps = MapNames /\ DOMAIN merged = MapNames
      BY DEF TypeOK, Row, Maps, MapNames
    <3>2. /\ room'.maps[m] = Merge(req[h].room.maps[m], req[h].asked.diff)
          /\ merged'[m] = Merge(merged[m], req[h].asked.diff)
          /\ \A n \in MapNames \ {m} : room'.maps[n] = room.maps[n] /\ merged'[n] = merged[n]
      BY <2>6, <3>1
    <3>3. m \notin raced' => m \notin raced /\ h \notin overtaken
      BY <2>6 DEF Overlap
    <3>4. m \notin raced' => req[h].room.maps[m] = merged[m]
      BY <2>6, <3>3 DEF ReadIsCurrent, MapsMerged
    <3>5. raced \subseteq raced'
      BY <2>6 DEF Overlap
    <3>6. MapsMerged'
      BY <3>2, <3>4, <3>5 DEF MapsMerged
    <3>7. /\ pc'[h] = "idle"
          /\ \A k \in Handlers \ {h} : pc'[k] = pc[k] /\ req'[k] = req[k]
      BY <2>6 DEF Finish, TypeOK
    <3>8. \A k \in Handlers \ overtaken' :
             pc'[k] = "found" => k # h /\ k \notin overtaken /\ Method[k] # m
      BY <2>6, <3>7 DEF Overlap
    <3>9. ReadIsCurrent'
      BY <3>2, <3>7, <3>8 DEF ReadIsCurrent
    <3>. QED  BY <3>6, <3>9
  <2>7. ASSUME NEW h \in Handlers, WriteLockedTypes(h) PROVE MapsMerged' /\ ReadIsCurrent'
    <3>1. room'.maps = [room.maps EXCEPT !["locked_types"] =
                           Merge(req[h].room.maps["locked_types"], req[h].asked.diff)]
      BY <2>7 DEF WriteLockedTypes, TypeOK, Row, Maps
    <3>. QED  BY <2>6, <2>7, <3>1 DEF WriteLockedTypes, MapNames
  <2>8. ASSUME NEW h \in Handlers, WriteWhiteboardAccess(h)
        PROVE  MapsMerged' /\ ReadIsCurrent'
    <3>1. room'.maps = [room.maps EXCEPT !["whiteboard_access"] =
                           Merge(req[h].room.maps["whiteboard_access"], req[h].asked.diff)]
      BY <2>8 DEF WriteWhiteboardAccess, TypeOK, Row, Maps
    <3>. QED  BY <2>6, <2>8, <3>1 DEF WriteWhiteboardAccess, MapNames
  <2>9. CASE Replicate \/ Tick
    BY <2>9 DEF Replicate, Tick, MapsMerged, ReadIsCurrent
  <2>. QED
    BY <2>1, <2>2, <2>3, <2>4, <2>5, <2>7, <2>8, <2>9
    DEF Next, Serve, Refuse, AdjustBounded
<1>3. MapsInv => MapsMerged
  BY DEF MapsInv
<1>. QED  BY <1>1, <1>2, <1>3, PTL DEF Spec

-----------------------------------------------------------------------------
(* The closing time. *)

\* A room that is closed stays so as time passes.
LEMMA ClosedStays ==
  ASSUME NEW t \in Ranges, NEW now \in Nat, NEW later \in Nat,
         now <= later, Closed(t, now)
  PROVE  Closed(t, later)
  BY RoomAssumption DEF Closed, Ranges, Ends

\* A request that found the room closed never has a time to write: room.update
\* was refused if it asked for one, and room.adjust found the room bounded.
LEMMA LateStep ==
  ASSUME ReadReplica = FALSE
  PROVE  LateInv /\ [Next]_vars => LateInv'
<1>. SUFFICES ASSUME LateInv, [Next]_vars PROVE LateHasNoTime'
  BY TypeStep DEF LateInv
<1>. USE DEF LateInv
<1>1. CASE UNCHANGED <<pc, req>>
  BY <1>1 DEF LateHasNoTime
<1>2. ASSUME NEW h \in Handlers, NEW asked \in Payloads(Method[h]), Find(h, asked)
      PROVE  LateHasNoTime'
  <2>. DEFINE s == [asked |-> asked, room |-> room, late |-> Closed(room.time, clock),
                    time |-> NoTime, room_was_open |-> FALSE]
  <2>1. req'[h] = s
    BY <1>2 DEF Find, ReadOnlyRoom, TypeOK
  <2>2. s.late => s.asked.time = NoTime /\ s.room.time.end # Unbounded /\ s.time = NoTime
    BY <1>2 DEF Find, TimeRequirement, ReadOnlyRoom, Closed
  <2>3. \A k \in Handlers \ {h} : pc'[k] = pc[k] /\ req'[k] = req[k]
    BY <1>2 DEF Find, TypeOK
  <2>. HIDE DEF s
  <2>. QED  BY <2>1, <2>2, <2>3 DEF LateHasNoTime
<1>3. ASSUME NEW h \in Handlers, Finish(h) PROVE LateHasNoTime'
  BY <1>3 DEF Finish, LateHasNoTime, TypeOK
<1>4. ASSUME NEW h \in Handlers, PrepareUpdate(h) PROVE LateHasNoTime'
  <2>1. PICK t \in (IF req[h].asked.time = NoTime THEN {NoTime}
                    ELSE UpdateTime(req[h].room.time, req[h].asked.time, clock)) :
           req' = [req EXCEPT ![h].time = t]
    BY <1>4 DEF PrepareUpdate
  <2>2. /\ req'[h].late = req[h].late
        /\ req'[h].asked = req[h].asked
        /\ req'[h].room = req[h].room
        /\ req'[h].time = t
    BY <1>4, <2>1, BusyHasState DEF PrepareUpdate, HandlerState, TypeOK
  <2>3. req[h].late => t = NoTime
    BY <1>4, <2>1 DEF PrepareUpdate, LateHasNoTime
  <2>4. \A k \in Handlers \ {h} : pc'[k] = pc[k] /\ req'[k] = req[k]
    BY <1>4, <2>1 DEF PrepareUpdate, TypeOK
  <2>5. pc[h] # "idle"
    BY <1>4 DEF PrepareUpdate
  <2>. QED  BY <2>2, <2>3, <2>4, <2>5 DEF LateHasNoTime
<1>5. ASSUME NEW h \in Handlers, PrepareAdjust(h) PROVE LateHasNoTime'
  <2>1. ~req[h].late
    BY <1>5 DEF PrepareAdjust, LateHasNoTime
  <2>2. req'[h].late = req[h].late
    BY <1>5, BusyHasState DEF PrepareAdjust, HandlerState, TypeOK
  <2>3. \A k \in Handlers \ {h} : pc'[k] = pc[k] /\ req'[k] = req[k]
    BY <1>5 DEF PrepareAdjust, TypeOK
  <2>. QED  BY <2>1, <2>2, <2>3 DEF LateHasNoTime
<1>6. ASSUME NEW h \in Handlers, CheckWasOpen(h) PROVE LateHasNoTime'
  <2>1. /\ req'[h].late = req[h].late
        /\ req'[h].asked = req[h].asked
        /\ req'[h].room = req[h].room
        /\ req'[h].time = req[h].time
    BY <1>6, BusyHasState DEF CheckWasOpen, HandlerState, TypeOK
  <2>2. pc[h] # "idle" /\ \A k \in Handlers \ {h} : pc'[k] = pc[k] /\ req'[k] = req[k]
    BY <1>6 DEF CheckWasOpen, TypeOK
  <2>. QED  BY <2>1, <2>2 DEF LateHasNoTime
<1>. QED
  BY <1>1, <1>2, <1>3, <1>4, <1>5, <1>6
  DEF Next, Serve, Refuse, AdjustBounded, WriteTime, WriteLockedTypes,
      WriteWhiteboardAccess, Replicate, Tick, vars

\* Without a replica, a closed room is reopened only by a request that read it
\* before it closed, whatever other requests do.
THEOREM LaterRequestsNeverReopen ==
  ASSUME ReadReplica = FALSE
  PROVE  Spec => ClosedToLaterRequests
<1>. DEFINE ReopenedByEarlier ==
              (Closed(room.time, clock) /\ ~Closed(room.time, clock)')
                => \E h \in Handlers : pc[h] = "ready" /\ pc'[h] = "idle" /\ ~req[h].late
<1>1. Init => LateInv
  BY InitType DEF Init, LateInv, LateHasNoTime
<1>2. LateInv /\ [Next]_vars => [ReopenedByEarlier]_vars
  <2>. SUFFICES ASSUME LateInv, Next, Closed(room.time, clock), ~Closed(room'.time, clock')
                PROVE  \E h \in Handlers : pc[h] = "ready" /\ pc'[h] = "idle" /\ ~req[h].late
    OBVIOUS
  <2>1. room.time \in Ranges /\ clock \in Nat
    BY DEF LateInv, TypeOK, Row
  <2>2. CASE room'.time = room.time /\ clock' \in {clock, clock + 1}
    BY <2>1, <2>2, ClosedStays
  <2>3. ASSUME NEW h \in Handlers, WriteTime(h)
        PROVE  \E k \in Handlers : pc[k] = "ready" /\ pc'[k] = "idle" /\ ~req[k].late
    <3>1. pc[h] = "ready" /\ pc'[h] = "idle" /\ clock' = clock
      BY <2>3 DEF WriteTime, Finish, LateInv, TypeOK
    <3>2. req[h].time # NoTime
      BY <2>2, <2>3, <3>1 DEF WriteTime, SetTime, LateInv, TypeOK, Row
    <3>3. ~req[h].late
      BY <3>1, <3>2 DEF LateInv, LateHasNoTime
    <3>. QED  BY <3>1, <3>3
  <2>4. ASSUME NEW h \in Handlers, WriteLockedTypes(h) \/ WriteWhiteboardAccess(h)
        PROVE  FALSE
    BY <2>2, <2>4 DEF WriteLockedTypes, WriteWhiteboardAccess, LateInv, TypeOK, Row
  <2>. QED
    BY <2>2, <2>3, <2>4
    DEF Next, Serve, Find, Refuse, PrepareUpdate, CheckWasOpen, PrepareAdjust, AdjustBounded,
        Replicate, Tick
<1>3. LateInv /\ [Next]_vars => LateInv'
  BY LateStep
<1>. QED  BY <1>1, <1>2, <1>3, PTL DEF Spec, ClosedToLaterRequests

-----------------------------------------------------------------------------
(* room.close *)

\* The range that room.update writes ends when it was asked to or, if that is past, now.
LEMMA UpdateTimeEnd ==
  ASSUME NEW t \in Ranges, NEW asked \in Ranges, NEW now \in Nat,
         NEW u \in UpdateTime(t, asked, now)
  PROVE  u.end # Unbounded => asked.end # Unbounded /\ asked.end <= u.end
  BY RoomAssumption DEF UpdateTime, Ranges, Ends

\* The range that room.adjust writes has ended.
LEMMA AdjustTimeEnd ==
  ASSUME NEW t \in Ranges, NEW now \in Nat,
         NEW u \in UpdateTime(t, [start |-> t.start, end |-> now], now)
  PROVE  Closed(u, now)
  BY RoomAssumption DEF UpdateTime, Ranges, Ends, Closed, ValidTime

\* A step that changes no time and lets no request go on.
LEMMA QuietCloseStep ==
  ASSUME CloseInv, TypeOK', room'.time = room.time, clock <= clock', silent' = silent,
         \A h \in Handlers : pc'[h] # "idle" => pc'[h] = pc[h] /\ req'[h] = req[h]
  PROVE  UpdateAnnouncesClose' /\ UpdateReadTime' /\ UpdatePrepared' /\ AdjustPrepared'
<1>. USE DEF CloseInv
<1>0. clock \in Nat /\ clock' \in Nat
  BY DEF TypeOK
<1>1. UpdateAnnouncesClose'
  BY DEF UpdateAnnouncesClose
<1>2. UpdateReadTime'
  BY <1>0, ClosedStays DEF UpdateReadTime, TypeOK, Row
<1>3. UpdatePrepared'
  <2>1. \A h \in Handlers : pc[h] # "idle" => req[h].room.time \in Ranges
    BY BusyHasState DEF HandlerState, Row
  <2>. QED  BY <1>0, <2>1, ClosedStays DEF UpdatePrepared
<1>4. AdjustPrepared'
  <2>1. \A h \in Handlers : (pc[h] # "idle" /\ req[h].time # NoTime) => req[h].time \in Ranges
    BY BusyHasState DEF HandlerState
  <2>. QED  BY <1>0, <2>1, ClosedStays DEF AdjustPrepared
<1>. QED  BY <1>1, <1>2, <1>3, <1>4

\* At most one room.update at a time.
OneUpdater == \A h, k \in Handlers : (Method[h] = "update" /\ Method[k] = "update") => h = k

LEMMA WriteTimeCloses ==
  ASSUME OneUpdater, CloseInv, TypeOK', NEW h \in Handlers, WriteTime(h)
  PROVE  UpdateAnnouncesClose' /\ UpdateReadTime' /\ UpdatePrepared' /\ AdjustPrepared'
<1>. USE DEF CloseInv
<1>1. /\ pc[h] = "ready" /\ pc'[h] = "idle" /\ clock' = clock /\ clock \in Nat
      /\ room'.time = (IF req[h].time = NoTime THEN room.time ELSE req[h].time)
      /\ \A k \in Handlers \ {h} : pc'[k] = pc[k] /\ req'[k] = req[k]
      /\ Method[h] \in {"update", "adjust"}
  BY DEF WriteTime, SetTime, Finish, TypeOK, Row
<1>2. req[h] \in HandlerState /\ room.time \in Ranges
  BY <1>1, BusyHasState DEF TypeOK, Row
<1>3. UpdatePrepared' /\ AdjustPrepared'
  BY <1>1 DEF UpdatePrepared, AdjustPrepared
<1>4. UpdateReadTime'
  <2>1. CASE Method[h] = "update"
    BY <1>1, <2>1 DEF UpdateReadTime, OneUpdater
  <2>2. CASE Method[h] = "adjust"
    <3>1. Closed(room'.time, clock')
      BY <1>1, <2>2 DEF AdjustPrepared
    <3>. QED  BY <1>1, <3>1 DEF UpdateReadTime
  <2>. QED  BY <1>1, <2>1, <2>2
<1>5. UpdateAnnouncesClose'
  <2>1. SUFFICES ASSUME Method[h] = "update", ~Closed(room.time, clock), Closed(room'.time, clock)
                 PROVE  Announces(req[h])
    BY DEF UpdateAnnouncesClose, WriteTime
  <2>2. req[h].time # NoTime /\ req[h].time \in Ranges /\ req[h].asked.time \in Ranges
    BY <1>1, <1>2, <2>1, RoomAssumption DEF HandlerState, Asked, UpdatePrepared
  <2>3. req[h].room_was_open
    BY <1>1, <2>1, <2>2 DEF UpdatePrepared, UpdateReadTime
  <2>4. EndPassed(req[h].asked.time.end, clock)
    BY <1>1, <2>1, <2>2, RoomAssumption DEF UpdatePrepared, EndPassed, Closed, Ranges, Ends
  <2>. QED  BY <1>1, <2>1, <2>2, <2>3, <2>4 DEF Announces, UpdatePrepared
<1>. QED  BY <1>3, <1>4, <1>5

LEMMA PrepareUpdateCloses ==
  ASSUME CloseInv, TypeOK', NEW h \in Handlers, PrepareUpdate(h)
  PROVE  UpdateAnnouncesClose' /\ UpdateReadTime' /\ UpdatePrepared' /\ AdjustPrepared'
<1>. USE DEF CloseInv
<1>1. /\ pc[h] = "found" /\ Method[h] = "update" /\ pc'[h] = "timed"
      /\ UNCHANGED <<clock, room, silent>> /\ clock \in Nat
      /\ \A k \in Handlers \ {h} : pc'[k] = pc[k] /\ req'[k] = req[k]
  BY DEF PrepareUpdate, TypeOK
<1>2. /\ req[h] \in HandlerState /\ req[h].room.time \in Ranges
      /\ req[h].asked.time \in Ranges \cup {NoTime}
  BY <1>1, BusyHasState, RoomAssumption DEF HandlerState, Row, Asked
<1>3. PICK t \in IF req[h].asked.time = NoTime THEN {NoTime}
                 ELSE UpdateTime(req[h].room.time, req[h].asked.time, clock) :
        req' = [req EXCEPT ![h].time = t]
  BY DEF PrepareUpdate
<1>4. req'[h].room = req[h].room /\ req'[h].asked = req[h].asked /\ req'[h].time = t
  BY <1>2, <1>3 DEF HandlerState, TypeOK
<1>5. UpdateAnnouncesClose' /\ UpdateReadTime' /\ AdjustPrepared'
  BY <1>1, <1>4 DEF UpdateAnnouncesClose, UpdateReadTime, AdjustPrepared
<1>6. t # NoTime =>
        /\ req[h].asked.time # NoTime
        /\ t.end # Unbounded =>
             req[h].asked.time.end # Unbounded /\ req[h].asked.time.end <= t.end
  BY <1>1, <1>2, <1>3, UpdateTimeEnd
<1>7. UpdatePrepared'
  BY <1>1, <1>4, <1>6 DEF UpdatePrepared
<1>. QED  BY <1>5, <1>7

LEMMA CheckWasOpenCloses ==
  ASSUME CloseInv, TypeOK', NEW h \in Handlers, CheckWasOpen(h)
  PROVE  UpdateAnnouncesClose' /\ UpdateReadTime' /\ UpdatePrepared' /\ AdjustPrepared'
<1>. USE DEF CloseInv
<1>1. /\ pc[h] = "timed" /\ Method[h] = "update" /\ pc'[h] = "ready"
      /\ UNCHANGED <<clock, room, silent>>
      /\ \A k \in Handlers \ {h} : pc'[k] = pc[k] /\ req'[k] = req[k]
  BY DEF CheckWasOpen, TypeOK
<1>2. /\ req'[h].room = req[h].room /\ req'[h].asked = req[h].asked
      /\ req'[h].time = req[h].time
      /\ req'[h].room_was_open = ~Closed(req[h].room.time, clock)
  BY <1>1, BusyHasState DEF CheckWasOpen, HandlerState, TypeOK
<1>3. UpdateAnnouncesClose' /\ UpdateReadTime' /\ AdjustPrepared'
  BY <1>1, <1>2 DEF UpdateAnnouncesClose, UpdateReadTime, AdjustPrepared
<1>4. UpdatePrepared'
  BY <1>1, <1>2 DEF UpdatePrepared
<1>. QED  BY <1>3, <1>4

LEMMA PrepareAdjustCloses ==
  ASSUME CloseInv, TypeOK', NEW h \in Handlers, PrepareAdjust(h)
  PROVE  UpdateAnnouncesClose' /\ UpdateReadTime' /\ UpdatePrepared' /\ AdjustPrepared'
<1>. USE DEF CloseInv
<1>1. /\ pc[h] = "found" /\ Method[h] = "adjust"
      /\ UNCHANGED <<clock, room, silent>> /\ clock \in Nat
      /\ \A k \in Handlers \ {h} : pc'[k] = pc[k] /\ req'[k] = req[k]
  BY DEF PrepareAdjust, TypeOK
<1>2. req[h] \in HandlerState /\ req[h].room.time \in Ranges
  BY <1>1, BusyHasState DEF HandlerState, Row
<1>3. PICK t \in UpdateTime(req[h].room.time,
                            [start |-> req[h].room.time.start, end |-> clock], clock) :
        req' = [req EXCEPT ![h].time = t]
  BY DEF PrepareAdjust
<1>4. req'[h].time = t
  BY <1>2, <1>3 DEF HandlerState, TypeOK
<1>5. t \in Ranges /\ Closed(t, clock)
  <2>1. [start |-> req[h].room.time.start, end |-> clock] \in Ranges
    BY <1>1, <1>2 DEF Ranges, Ends
  <2>. QED  BY <1>1, <1>2, <1>3, <2>1, UpdateTimeType, AdjustTimeEnd
<1>6. UpdateAnnouncesClose' /\ UpdateReadTime' /\ UpdatePrepared'
  BY <1>1 DEF UpdateAnnouncesClose, UpdateReadTime, UpdatePrepared
<1>7. AdjustPrepared'
  BY <1>1, <1>4, <1>5, RoomAssumption DEF AdjustPrepared
<1>. QED  BY <1>6, <1>7

\* With one room.update at a time and no replica, a room.update that closes the room
\* sends room.close: whatever room.adjust, which closes it too, and the other requests
\* do between its read and its write, and however long it waits in between.
THEOREM CloseIsAlwaysAnnounced ==
  ASSUME OneUpdater, ReadReplica = FALSE
  PROVE  Spec => []UpdateAnnouncesClose
<1>1. Init => CloseInv
  BY InitType DEF Init, CloseInv, UpdateAnnouncesClose, UpdateReadTime, UpdatePrepared,
                  AdjustPrepared
<1>2. CloseInv /\ [Next]_vars => CloseInv'
  <2>. SUFFICES ASSUME CloseInv, [Next]_vars
                PROVE  UpdateAnnouncesClose' /\ UpdateReadTime' /\ UpdatePrepared' /\ AdjustPrepared'
    BY TypeStep DEF CloseInv
  <2>0. TypeOK /\ TypeOK' /\ clock \in Nat
    BY TypeStep DEF CloseInv, TypeOK
  <2>. USE <2>0
  <2>1. CASE UNCHANGED vars
    BY <2>1, QuietCloseStep DEF vars
  <2>2. ASSUME NEW h \in Handlers, NEW asked \in Payloads(Method[h]), Find(h, asked)
        PROVE  UpdateAnnouncesClose' /\ UpdateReadTime' /\ UpdatePrepared' /\ AdjustPrepared'
    <3>1. /\ UNCHANGED <<clock, room, silent>> /\ pc'[h] = "found" /\ req'[h].room = room
          /\ \A k \in Handlers \ {h} : pc'[k] = pc[k] /\ req'[k] = req[k]
      BY <2>2 DEF Find, ReadOnlyRoom, TypeOK
    <3>2. UpdateAnnouncesClose' /\ UpdateReadTime'
      BY <3>1 DEF CloseInv, UpdateAnnouncesClose, UpdateReadTime, TypeOK
    <3>3. UpdatePrepared' /\ AdjustPrepared'
      BY <3>1 DEF CloseInv, UpdatePrepared, AdjustPrepared
    <3>. QED  BY <3>2, <3>3
  <2>3. ASSUME NEW h \in Handlers, Finish(h), room'.time = room.time, UNCHANGED <<clock, silent>>
        PROVE  UpdateAnnouncesClose' /\ UpdateReadTime' /\ UpdatePrepared' /\ AdjustPrepared'
    <3>1. \A k \in Handlers : pc'[k] # "idle" => pc'[k] = pc[k] /\ req'[k] = req[k]
      BY <2>3 DEF Finish, TypeOK
    <3>. QED  BY <2>3, <3>1, QuietCloseStep
  <2>4. ASSUME NEW h \in Handlers, Refuse(h) \/ AdjustBounded(h)
        PROVE  UpdateAnnouncesClose' /\ UpdateReadTime' /\ UpdatePrepared' /\ AdjustPrepared'
    BY <2>3, <2>4 DEF Refuse, AdjustBounded
  <2>5. ASSUME NEW h \in Handlers, WriteLockedTypes(h) \/ WriteWhiteboardAccess(h)
        PROVE  UpdateAnnouncesClose' /\ UpdateReadTime' /\ UpdatePrepared' /\ AdjustPrepared'
    <3>1. room'.time = room.time
      BY <2>5 DEF WriteLockedTypes, WriteWhiteboardAccess, TypeOK, Row
    <3>. QED  BY <2>3, <2>5, <3>1 DEF WriteLockedTypes, WriteWhiteboardAccess
  <2>6. CASE Replicate \/ Tick
    BY <2>6, QuietCloseStep DEF Replicate, Tick
  <2>. QED
    BY <2>1, <2>2, <2>4, <2>5, <2>6, PrepareUpdateCloses, CheckWasOpenCloses,
       PrepareAdjustCloses, WriteTimeCloses
    DEF Next, Serve
<1>3. CloseInv => UpdateAnnouncesClose
  BY DEF CloseInv
<1>. QED  BY <1>1, <1>2, <1>3, PTL DEF Spec
=============================================================================
