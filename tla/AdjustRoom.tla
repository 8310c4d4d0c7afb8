----------------------------- MODULE AdjustRoom -----------------------------
(***************************************************************************)
(* room.adjust: tasks that derive an original and a modified room from a   *)
(* real-time room, in one database transaction per step.                   *)
(*                                                                         *)
(* Requests, events and the tasks of other requests go on meanwhile, every *)
(* step may fail, and the process may stop between two of them.  Times     *)
(* count from the room's opening, in nanoseconds unless said otherwise.    *)
(* Only cuts are created at one time, other events one after another, and  *)
(* no list of events is longer than EventListQuery's limit of 100000.      *)
(***************************************************************************)
EXTENDS Timeline

CONSTANTS
  Scenarios,           \* a room and what room.adjust is asked to do with it
  LateEvents,          \* what an event.create in flight may still insert
  Tasks,               \* slots for room.adjust
  streamed_at          \* now() of the transaction that inserts stream events

ASSUME AdjustAssumption ==
  /\ {min_segment_length, streamed_at} \subseteq Nat
  /\ NANOSECONDS_IN_MILLISECOND \in Nat \ {0}
  /\ None \notin Int \cup Tasks

VARIABLES
  room,        \* the scenario: events, duration, rtc_offset, offset, segments
  open,        \* the real-time room's end is unbounded
  source,      \* the events of the real-time room
  adjustment,  \* the adjustment row, by the task that inserted it
  late,        \* history: an event was inserted after a task had started
  task         \* the state of each task

adjustVars == <<room, open, source, adjustment, late, task>>

\* What a task keeps, and the rooms it has made, None before that.
IdleTask == [pc |-> "idle", unbounded |-> FALSE, streams |-> {}, original |-> None,
             cut_gaps |-> <<>>, cut_original_segments |-> <<>>, modified |-> None,
             modified_segments |-> <<>>]

Running == {"accepted", "closed", "inserted", "listed", "streamed", "created",
            "original", "gaps", "segments", "recreated", "modified", "stripped"}

Ended == {"success", "error", "panicked", "crashed"}

AdjustInit ==
  /\ room \in Scenarios
  /\ open = room.unbounded
  /\ source = room.events
  /\ adjustment = None
  /\ late = FALSE
  /\ task = [t \in Tasks |-> IdleTask]

-----------------------------------------------------------------------------
(* Pure parts. *)

\* break and video_group events stand for cuts; the others are skipped.
CutOf(e) ==
  CASE e.kind = "break" /\ e.data = "true" -> "start"
    [] e.kind = "break" /\ e.data = "false" -> "stop"
    [] e.kind = "video_group" /\ e.data = "created" -> "start"
    [] e.kind = "video_group" /\ e.data = "deleted" -> "stop"
    [] OTHER -> None

\* The stream events to insert, all of them created when the transaction began.
StreamEvents(events) ==
  {[id |-> 100 + e.id, kind |-> "stream", data |-> CutOf(e), at |-> e.at,
    created |-> streamed_at] : e \in {e \in events : CutOf(e) # None}}

\* The cuts as listed; the copies of an event keep its created_at.
CutEvents(events, p) == Sorted(EventCuts(events, p))

\* Faulty variant: a second start is ignored.
FollowCutNested(state, cut) ==
  IF state.result # "ok" THEN state
  ELSE CASE cut.data = "start" -> [state EXCEPT !.start = IF @ = None THEN cut.at ELSE @]
         [] cut.data = "stop" /\ state.start # None -> EndGap(state, cut.at)
         [] cut.data = "stop" /\ state.start = None -> state
         [] OTHER -> Unexpected(state)

\* One round of cut_events_to_gaps' loop: a later start replaces the earlier one,
\* a second stop does nothing.
FollowCut(state, cut) ==
  IF state.result # "ok" THEN state
  ELSE CASE cut.data = "start" -> [state EXCEPT !.start = cut.at]
         [] cut.data = "stop" /\ state.start # None -> EndGap(state, cut.at)
         [] cut.data = "stop" /\ state.start = None -> state
         [] OTHER -> Unexpected(state)

\* It begins as if a cut had started at 0.
cut_events_to_gaps(events, p) ==
  FoldLeft(FollowCut, [start |-> 0, gaps |-> <<>>, result |-> "ok"], CutEvents(events, p))

\* Each pair moved by a distance.
MovedBy(pairs, by) == [i \in DOMAIN pairs |-> <<pairs[i][1] + by, pairs[i][2] + by>>]

\* Faulty variant: up to the later end.
MeetWide(a, b) == <<Max({a[1], b[1]}), Max({a[2], b[2]})>>

Meet(a, b) == <<Max({a[1], b[1]}), Min({a[2], b[2]})>>

\* Both lists are walked in step; a pair that is over is left behind.
intersect(a, b) ==
  LET Advance(w, n) ==
        IF w.i > Len(a) \/ w.j > Len(b) THEN w
        ELSE LET m == Meet(a[w.i], b[w.j])
                 out == IF m[1] < m[2] THEN Append(w.out, m) ELSE w.out
             IN IF a[w.i][2] < b[w.j][2] THEN [i |-> w.i + 1, j |-> w.j, out |-> out]
                                         ELSE [i |-> w.i, j |-> w.j + 1, out |-> out]
  IN FoldLeft(Advance, [i |-> 1, j |-> 1, out |-> <<>>],
              [n \in 1..Len(a) + Len(b) |-> n]).out

\* occurred_at without the gaps before it; a gap at 0 swallows all of its events.
Collapsed(gaps, at) ==
  IF \E i \in DOMAIN gaps : gaps[i][1] = 0 /\ at <= gaps[i][2]
  THEN 0
  ELSE at - ShiftBy(gaps, {i \in DOMAIN gaps : gaps[i][1] >= 0}, at)

\* The subquery for the gap at 0 must not return two rows.
Clonable(gaps) == Cardinality({i \in DOMAIN gaps : gaps[i][1] = 0}) <= 1

\* Events that come to one place are a nanosecond apart, in the order of created_at;
\* cuts stay where they are.
Monotonized(e, events) ==
  IF e.kind = "stream" THEN e
  ELSE [e EXCEPT !.at = @ + Cardinality({f \in events :
          f.at = e.at /\ f.kind # "stream" /\ f.created < e.created})]

\* Faulty variant: events that come to one place stay there.
clone_events_ties(events, gaps, offset) ==
  {[e EXCEPT !.at = Collapsed(gaps, @) + offset] : e \in events}

clone_events(events, gaps, offset) ==
  LET shifted == {[e EXCEPT !.at = Collapsed(gaps, @) + offset] : e \in events}
  IN {Monotonized(e, shifted) : e \in shifted}

-----------------------------------------------------------------------------
(* The request. *)

RtcOffset == Milliseconds(room.rtc_offset)

\* parsed_segments, in nanoseconds from the room's opening
NanoSegments ==
  [i \in DOMAIN room.segments |->
     <<Milliseconds(room.segments[i][1] + room.rtc_offset),
       Milliseconds(room.segments[i][2] + room.rtc_offset)>>]

SegmentGaps ==
  InvertSegments(NanoSegments, Milliseconds(room.duration), Milliseconds(min_segment_length))

TotalDuration == MapThenSumSet(LAMBDA i : room.segments[i][2] - room.segments[i][1],
                               DOMAIN room.segments)

Finish == room.segments[Len(room.segments)][2]

-----------------------------------------------------------------------------
(* The task. *)

GoTo(t, from, to) == task[t].pc = from /\ task' = [task EXCEPT ![t].pc = to]

\* AdjustHandler: the room is found and the tenant agrees; 202, the task is spawned.
AcceptAdjust(t) ==
  /\ task[t].pc = "idle"
  /\ task' = [task EXCEPT ![t].pc = "accepted", ![t].unbounded = open]
  /\ UNCHANGED <<room, open, source, adjustment, late>>

\* Faulty variant: the error is only logged.
FailSilently(t) ==
  /\ task[t].pc \in Running
  /\ task' = [task EXCEPT ![t].pc = "panicked"]
  /\ UNCHANGED <<room, open, source, adjustment, late>>

\* A failed step: room.adjust is broadcast with the error.
FailAdjust(t) ==
  /\ task[t].pc \in Running
  /\ task' = [task EXCEPT ![t].pc = "error"]
  /\ UNCHANGED <<room, open, source, adjustment, late>>

\* The process stops, and the task with it.
Crash ==
  /\ \E t \in Tasks : task[t].pc \in Running
  /\ task' = [t \in Tasks |-> IF task[t].pc \in Running THEN [task[t] EXCEPT !.pc = "crashed"]
                                                        ELSE task[t]]
  /\ UNCHANGED <<room, open, source, adjustment, late>>

\* A segment without an end is refused; a room that was open is closed.
Close(t) ==
  /\ \A i \in DOMAIN room.segments : room.segments[i][2] # None
  /\ GoTo(t, "accepted", "closed")
  /\ open' = IF task[t].unbounded THEN FALSE ELSE open
  /\ UNCHANGED <<room, source, adjustment, late>>

\* Faulty variant: the row is replaced.
InsertAdjustmentAgain(t) ==
  /\ GoTo(t, "closed", "inserted")
  /\ adjustment' = t
  /\ UNCHANGED <<room, open, source, late>>

\* room_id is the primary key.
InsertAdjustment(t) ==
  /\ adjustment = None
  /\ GoTo(t, "closed", "inserted")
  /\ adjustment' = t
  /\ UNCHANGED <<room, open, source, late>>

ListBreaks(t) ==
  /\ task[t].pc = "inserted"
  /\ task' = [task EXCEPT ![t].pc = "listed", ![t].streams = StreamEvents(source)]
  /\ UNCHANGED <<room, open, source, adjustment, late>>

\* One transaction for all of them, none if there are none.
InsertStreams(t) ==
  /\ GoTo(t, "listed", "streamed")
  /\ source' = source \cup task[t].streams
  /\ UNCHANGED <<room, open, adjustment, late>>

\* last().unwrap() panics without a segment: the task ends and nothing is broadcast.
CreateOriginal(t) ==
  /\ task[t].pc = "streamed"
  /\ task' = IF room.segments = <<>>
             THEN [task EXCEPT ![t].pc = "panicked"]
             ELSE [task EXCEPT ![t].pc = "created", ![t].original = {}]
  /\ UNCHANGED <<room, open, source, adjustment, late>>

CloneOriginal(t) ==
  /\ task[t].pc = "created"
  /\ Clonable(SegmentGaps)
  /\ task' = [task EXCEPT ![t].pc = "original",
                          ![t].original = clone_events(source, SegmentGaps, 0)]
  /\ UNCHANGED <<room, open, source, adjustment, late>>

\* The cuts as they are in the original room.
FindCutGaps(t) ==
  /\ task[t].pc = "original"
  /\ \E p \in Orders(Streams(task[t].original)) :
     LET cuts == cut_events_to_gaps(task[t].original, p)
     IN /\ cuts.result = "ok"
        /\ task' = [task EXCEPT ![t].pc = "gaps", ![t].cut_gaps = cuts.gaps]
  /\ UNCHANGED <<room, open, source, adjustment, late>>

\* The cuts as they are in the real-time room, by now.
CutSegments(t) ==
  /\ task[t].pc = "gaps"
  /\ \E p \in Orders(Streams(source)) :
     LET cuts == cut_events_to_gaps(source, p)
         kept == InvertSegments(MovedBy(cuts.gaps, -RtcOffset), Milliseconds(Finish),
                                Milliseconds(min_segment_length))
     IN /\ cuts.result = "ok"
        /\ task' = [task EXCEPT ![t].pc = "segments", ![t].cut_original_segments =
                      Truncated(intersect(kept, MovedBy(NanoSegments, -RtcOffset)))]
  /\ UNCHANGED <<room, open, source, adjustment, late>>

CreateModified(t) ==
  /\ task[t].pc = "segments"
  /\ task' = [task EXCEPT ![t].pc = "recreated", ![t].modified = {}]
  /\ UNCHANGED <<room, open, source, adjustment, late>>

CloneModified(t) ==
  /\ task[t].pc = "recreated"
  /\ Clonable(task[t].cut_gaps)
  /\ task' = [task EXCEPT ![t].pc = "modified", ![t].modified =
                clone_events(task[t].original, task[t].cut_gaps, Milliseconds(room.offset))]
  /\ UNCHANGED <<room, open, source, adjustment, late>>

DeleteCuts(t) ==
  /\ task[t].pc = "modified"
  /\ task' = [task EXCEPT ![t].pc = "stripped",
                          ![t].modified = {e \in @ : e.kind # "stream"}]
  /\ UNCHANGED <<room, open, source, adjustment, late>>

\* room.adjust is broadcast with the segments.
Succeed(t) ==
  /\ task[t].pc = "stripped"
  /\ LET kept == Truncated(InvertSegments(task[t].cut_gaps, Milliseconds(TotalDuration),
                                          Milliseconds(min_segment_length)))
     IN task' = [task EXCEPT ![t].pc = "success", ![t].modified_segments =
                   [i \in DOMAIN kept |-> <<Max({kept[i][1], 0}), kept[i][2]>>]]
  /\ UNCHANGED <<room, open, source, adjustment, late>>

\* An event.create that found the room open inserts its event.
Insert ==
  /\ ~late
  /\ room.unbounded
  /\ \E t \in Tasks : task[t].pc # "idle"
  /\ \E e \in LateEvents : source' = source \cup {e}
  /\ late' = TRUE
  /\ UNCHANGED <<room, open, adjustment, task>>

Step(t) ==
  \/ FailAdjust(t) \/ Close(t) \/ InsertAdjustment(t) \/ ListBreaks(t)
  \/ InsertStreams(t) \/ CreateOriginal(t) \/ CloneOriginal(t) \/ FindCutGaps(t) \/ CutSegments(t)
  \/ CreateModified(t) \/ CloneModified(t) \/ DeleteCuts(t) \/ Succeed(t)

AdjustNext ==
  \/ \E t \in Tasks : AcceptAdjust(t) \/ Step(t)
  \/ Crash
  \/ Insert

\* A spawned task is polled until it ends.
AdjustSpec == AdjustInit /\ [][AdjustNext]_adjustVars /\ \A t \in Tasks : WF_adjustVars(Step(t))

-----------------------------------------------------------------------------
(* The reference: which moments are left out of the video. *)

\* A moment of the real-time room that no segment covers; what is left after the
\* last segment counts only if it is long enough.
Paused(n) ==
  LET last == Milliseconds(Finish) + RtcOffset
      rest == Milliseconds(room.duration) - last
  IN /\ ~\E i \in DOMAIN room.segments : NanoSegments[i][1] <= n /\ n < NanoSegments[i][2]
     /\ n < Milliseconds(room.duration)
     /\ n >= last => rest > Milliseconds(min_segment_length)

\* The commands next to a moment are a start before and a stop after it; a stop that
\* comes first cuts from the opening on.
CutAt(cuts, n) ==
  LET before == Cardinality({i \in DOMAIN cuts : cuts[i].at <= n})
  IN /\ before < Len(cuts)
     /\ cuts[before + 1].data = "stop"
     /\ IF before > 0 THEN cuts[before].data = "start" ELSE n >= 0

\* The moments after which what is left of a length is too short to be a segment.
ShortRest(cuts, length) ==
  LET stops == {cuts[i].at : i \in {i \in DOMAIN cuts :
                  cuts[i].data = "stop" /\ (i > 1 => cuts[i - 1].data = "start")}}
  IN IF stops # {} /\ length - Max(stops) <= Milliseconds(min_segment_length)
     THEN Max(stops)..length ELSE {}

\* Tasks that have succeeded, and worked on one set of events throughout.
Undisturbed == {t \in Tasks : task[t].pc = "success" /\ ~late}

\* No pause of the recording spans the opening of the room.
OpenedOnAir ==
  \A i \in DOMAIN SegmentGaps : SegmentGaps[i][1] >= 0 \/ SegmentGaps[i][2] <= 0

\* The events that are not cuts, and where one of them is.
Ids(events) == {e.id : e \in {e \in events : e.kind # "stream"}}

EventOf(events, id) == CHOOSE e \in events : e.id = id

Place(events, id) == EventOf(events, id).at

\* What is cut out of the events' time; a gap that begins before the opening is not.
LeftOut(gaps) ==
  UNION {gaps[i][1]..gaps[i][2] - 1 : i \in {i \in DOMAIN gaps : gaps[i][1] >= 0}}

\* Two events that happened and were created in one order keep it, if nothing is
\* left between them or as many nanoseconds are left as there are events.
InOrder(events, copies, gaps) ==
  \A i, j \in Ids(copies) :
    LET e == EventOf(events, i)
        f == EventOf(events, j)
        left == Cardinality((e.at..f.at - 1) \ LeftOut(gaps))
    IN e.created < f.created /\ e.at <= f.at /\ (left = 0 \/ left >= Cardinality(Ids(copies)))
       => Place(copies, i) < Place(copies, j)

-----------------------------------------------------------------------------
(* Properties. *)

\* "To keep events in sync with the video": in the original room an event is where
\* the recording, without its pauses, has the moment it happened at; in the
\* modified room, where the video without its pauses and its cuts has it, after
\* the pre-roll.  Up to the nanoseconds that keep events of one moment apart, and
\* the cuts of one moment in an order in which they may have been listed.
EventsInSync ==
  \A t \in Undisturbed :
    LET close(at, ref) == at - ref \in 0..Cardinality(source)
        o == task[t].original
        uncut(cuts, n) == Cardinality({i \in 0..n - 1 : ~CutAt(cuts, i)})
    IN /\ OpenedOnAir =>
            \A e \in source : close(Place(o, e.id), Cardinality({n \in 0..e.at - 1 : ~Paused(n)}))
       /\ \E p \in Orders(Streams(o)) : \A i \in Ids(source) :
            close(Place(task[t].modified, i),
                  uncut(CutEvents(o, p), Place(o, i)) + Milliseconds(room.offset))

\* The segments that room.adjust reports are what the cuts leave of the video: the
\* modified ones of the video without its pauses, the cut original ones of the
\* recording as it was.  A millisecond is in a segment if its last nanosecond is
\* not cut out.
SegmentsInSync ==
  \A t \in Undisturbed :
    /\ \E p \in Orders(Streams(task[t].original)) :
         LET cuts == CutEvents(task[t].original, p)
             tail == ShortRest(cuts, Milliseconds(TotalDuration))
         IN \A v \in 0..TotalDuration - 1 :
              Covered(task[t].modified_segments, v)
              <=> ~CutAt(cuts, LastOf(v)) /\ LastOf(v) \notin tail
    /\ \E p \in Orders(Streams(source)) :
         LET cuts == CutEvents(source, p)
             tail == ShortRest(cuts, Milliseconds(Finish) + RtcOffset)
         IN \A v \in 0..Finish - 1 :
              Covered(task[t].cut_original_segments, v)
              <=> Covered(room.segments, v) /\ ~CutAt(cuts, LastOf(v) + RtcOffset)
                  /\ LastOf(v) + RtcOffset \notin tail

\* The copies of events have distinct times in the order of the events, also of
\* those in one gap, whatever is inserted meanwhile: the first copying keeps the
\* order of the real-time room, the second that of the original room.  Not so for
\* events that are closer than one of them is moved to be told from the others.
OrderKept ==
  \A t \in Tasks :
    /\ task[t].original # None => InOrder(source, task[t].original, SegmentGaps)
    /\ task[t].modified # None =>
         InOrder(task[t].original, task[t].modified, task[t].cut_gaps)

\* A room is adjusted once: however requests overlap or are repeated after a
\* failure, one task at most derives rooms from it.
AdjustedOnce ==
  \A t \in Tasks : task[t].original # None => adjustment = t

\* An accepted room.adjust is answered by a notification, unless the process stops
\* or it had no segments.
AdjustAnswered ==
  \A t \in Tasks :
    task[t].pc = "accepted" ~>
      task[t].pc \in {"success", "error", "crashed"} \/ room.segments = <<>>

-----------------------------------------------------------------------------
(* The inductive invariant behind AdjustedOnce. *)

\* Where a task has inserted the adjustment row.
HoldsRow == (Running \ {"accepted", "closed"}) \cup {"success"}

\* The row belongs to the task that goes on after it, or went on far enough to
\* create a room before it ended.
OnceInv ==
  /\ DOMAIN task = Tasks
  /\ \A t \in Tasks :
       /\ DOMAIN task[t] = DOMAIN IdleTask
       /\ task[t].pc \in HoldsRow => adjustment = t
       /\ task[t].original # None => adjustment = t

-----------------------------------------------------------------------------
(* The inductive invariant behind EventsInSync. *)

\* Rows of the event table: the primary key tells them apart.
Stored(events) ==
  /\ IsFiniteSet(events)
  /\ \A e \in events : DOMAIN e = {"id", "kind", "data", "at", "created"}
                       /\ {e.id, e.at, e.created} \subseteq Nat
  /\ \A e, f \in events : e.id = f.id => e = f

\* What room.adjust takes for granted of a room and of the request: the events
\* happened between the opening and the closing, and the segments, if all of them
\* end, follow one another.
Recorded ==
  \A r \in Scenarios :
    /\ Stored(r.events \cup StreamEvents(r.events))
    /\ r.duration \in Nat /\ r.rtc_offset \in Int /\ r.offset \in Int
    /\ \A e \in r.events : e.at <= Milliseconds(r.duration)
    /\ (\A i \in DOMAIN r.segments : r.segments[i][2] # None)
       => r.segments \in Seq(Int \X Int) /\ GapsOK(r.segments)

HasOriginal == {"original", "gaps", "segments", "recreated", "modified", "stripped", "success"}

\* A task in state x has made of the events, if none came late, what its steps say.
InStep(x) ==
  /\ x.pc \in HoldsRow \cup {"closed"} => \A i \in DOMAIN room.segments : room.segments[i][2] # None
  /\ x.pc \in HasOriginal \cup {"created"} => room.segments # <<>>
  /\ ~late =>
       /\ x.streams \subseteq StreamEvents(room.events)
       /\ x.pc \in HasOriginal => x.original = clone_events(source, SegmentGaps, 0)
       /\ x.pc \in HasOriginal \ {"original"} =>
            \E p \in Orders(Streams(x.original)) :
              LET cuts == cut_events_to_gaps(x.original, p)
              IN cuts.result = "ok" /\ x.cut_gaps = cuts.gaps
       /\ x.pc = "modified" =>
            x.modified = clone_events(x.original, x.cut_gaps, Milliseconds(room.offset))
       /\ x.pc \in {"stripped", "success"} =>
            x.modified = {e \in clone_events(x.original, x.cut_gaps, Milliseconds(room.offset)) :
                            e.kind # "stream"}

\* The events of the room are those it had and the cuts that they stand for, so
\* that what the first copy was made from is still there when the task succeeds.
SyncInv ==
  /\ room \in Scenarios
  /\ ~late => source \subseteq room.events \cup StreamEvents(room.events)
  /\ \A t \in Tasks : InStep(task[t])
=============================================================================
