------------------------------ MODULE Timeline ------------------------------
(***************************************************************************)
(* Cutting pieces out of a room's time: from cut commands to gaps, from    *)
(* gaps to the segments that stay, and how far an event is shifted.        *)
(*                                                                         *)
(* A gap or a segment is a pair <<start, stop>>, lists of them are         *)
(* sequences.  Times are in nanoseconds unless said otherwise.             *)
(***************************************************************************)
EXTENDS Integers, FiniteSets, SequencesExt

CONSTANTS
  None,               \* Option::None
  min_segment_length, \* AdjustConfig, in milliseconds
  NANOSECONDS_IN_MILLISECOND

Milliseconds(n) == n * NANOSECONDS_IN_MILLISECOND

\* Gaps, or segments, follow one another.
GapsOK(gaps) ==
  \A i \in DOMAIN gaps :
    /\ gaps[i] \in Int \X Int
    /\ gaps[i][1] <= gaps[i][2]
    /\ \A j \in DOMAIN gaps : i < j => gaps[i][2] <= gaps[j][1]

Streams(events) == {e \in events : e.kind = "stream"}

\* ORDER BY created_at says nothing of rows created at one time: the places that
\* the rows may have.
Orders(rows) ==
  {p \in [{e.id : e \in rows} -> 1..Cardinality(rows)] :
     \A e, f \in rows :
       /\ e # f => p[e.id] # p[f.id]
       /\ e.created < f.created => p[e.id] < p[f.id]}

\* EventListQuery with kind stream: ORDER BY occurred_at, created_at
EventCuts(events, p) ==
  {[at |-> e.at, data |-> e.data, change |-> 0, order |-> p[e.id]] : e \in Streams(events)}

\* A cut command comes from an event of the room or from a change.  The sort is
\* stable: at equal times events in their order, then the latest change first.
Precedes(x, y) ==
  \/ x.at < y.at
  \/ x.at = y.at /\ x.change < y.change
  \/ x.at = y.at /\ x.change = y.change /\ x.order < y.order

Sorted(cuts) ==
  [i \in 1..Cardinality(cuts) |->
     CHOOSE x \in cuts : Cardinality({y \in cuts : Precedes(y, x)}) = i - 1]

\* Faulty variant: unwrap instead of bail!
UnexpectedPanics(state) == [state EXCEPT !.result = "panic"]

\* Any other command or order of commands: bail!
Unexpected(state) == [state EXCEPT !.result = "invalid"]

\* Faulty variant: the state stays Started.
EndGapOnly(state, at) == [state EXCEPT !.gaps = Append(@, <<state.start, at>>)]

\* The gap that has started ends.
EndGap(state, at) ==
  [state EXCEPT !.start = None, !.gaps = Append(@, <<state.start, at>>)]

\* Faulty variant: an inner stop ends the gap.
FollowFlat(state, cut) ==
  LET started == state.start # None
  IN  IF state.result # "ok" THEN state
      ELSE CASE cut.data = None -> [state EXCEPT !.result = "panic"]
           [] cut.data = "start" -> [state EXCEPT !.start = IF started THEN @ ELSE cut.at]
           [] cut.data = "stop" /\ started -> EndGap(state, cut.at)
           [] OTHER -> Unexpected(state)

\* One round of collect_gaps' loop: the gap that has started, if one has, and
\* how deep the commands nest in it.
Follow(state, cut) ==
  LET started == state.start # None
  IN  IF state.result # "ok" THEN state
      ELSE CASE cut.data = None -> [state EXCEPT !.result = "panic"]
           [] cut.data = "start" /\ ~started -> [state EXCEPT !.start = cut.at]
           [] cut.data = "start" /\ started -> [state EXCEPT !.nest = @ + 1]
           [] cut.data = "stop" /\ started /\ state.nest = 0 -> EndGap(state, cut.at)
           [] cut.data = "stop" /\ started /\ state.nest > 0 -> [state EXCEPT !.nest = @ - 1]
           [] OTHER -> Unexpected(state)

\* The times are unwrapped before the loop, the data inside it.
CollectGaps(cuts) ==
  LET stopped == [start |-> None, nest |-> 0, gaps |-> <<>>, result |-> "ok"]
  IN  IF \E x \in cuts : x.at = None
      THEN [stopped EXCEPT !.result = "panic"]
      ELSE FoldLeft(Follow, stopped, Sorted(cuts))

\* The segments between gaps, or the gaps between segments; the last one only
\* if it is long enough.
InvertSegments(gaps, duration, minLength) ==
  IF gaps = <<>>
  THEN << <<0, duration>> >>
  ELSE LET first == Head(gaps)[1]
           last == gaps[Len(gaps)][2]
       IN  (IF first > 0 THEN << <<0, first>> >> ELSE <<>>)
           \o [i \in 1..Len(gaps) - 1 |-> <<gaps[i][2], gaps[i + 1][1]>>]
           \o (IF last < duration /\ duration - last > minLength
               THEN << <<last, duration>> >> ELSE <<>>)

\* Whole milliseconds, toward zero.
Truncated(pairs) ==
  LET ms(n) == IF n < 0 THEN -((-n) \div NANOSECONDS_IN_MILLISECOND)
                        ELSE n \div NANOSECONDS_IN_MILLISECOND
  IN [i \in DOMAIN pairs |-> <<ms(pairs[i][1]), ms(pairs[i][2])>>]

\* How much some of the gaps, or all of them, cut out before a time.
ShiftBy(gaps, some, at) ==
  MapThenSumSet(LAMBDA i : Min({gaps[i][2], at}) - gaps[i][1],
                {i \in some : gaps[i][1] < at})

Shift(gaps, at) == ShiftBy(gaps, DOMAIN gaps, at)

\* For the properties: a millisecond is in one of the segments, and the moment at
\* which its being cut out decides that.
Covered(segments, v) == \E i \in DOMAIN segments : segments[i][1] <= v /\ v < segments[i][2]

LastOf(v) == Milliseconds(v + 1) - 1
=============================================================================
