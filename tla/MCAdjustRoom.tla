---------------------------- MODULE MCAdjustRoom ----------------------------
(* Instances of AdjustRoom for TLC, with ten nanoseconds in a millisecond. *)
EXTENDS AdjustRoom

CONSTANTS t1, t2

Event(id, kind, data, at) ==
  [id |-> id, kind |-> kind, data |-> data, at |-> at, created |-> id]

\* Two messages of one moment, one a nanosecond later, and others; the last is
\* stored out of order.
Talk == {Event(1, "message", None, 10), Event(2, "message", None, 30),
         Event(3, "message", None, 30), Event(4, "message", None, 31),
         Event(5, "message", None, 60), Event(6, "message", None, 52)}

\* Every way to put cut commands at three moments, two of them between milliseconds.
Moment == [n \in 0..2 |-> CASE n = 0 -> 0 [] n = 1 -> 23 [] n = 2 -> 47]

Cutting ==
  {{Event(10 + n, "stream", f[n], Moment[n]) : n \in {n \in 0..2 : f[n] # None}} :
     f \in [0..2 -> {"start", "stop", None}]}

\* A break, within a pause if the recording has one.
Break == {Event(10, "break", "true", 33), Event(11, "break", "false", 37)}

\* The commands as breaks and video groups, or as none.
Mixed ==
  {Break,
   {Event(10, "break", "true", 13), Event(11, "video_group", "created", 33),
    Event(12, "video_group", "deleted", 37), Event(13, "break", "false", 50)},
   {Event(10, "break", "other", 10), Event(11, "stream", "pause", 30)},
   {Event(10, "stream", "start", 0), Event(11, "stream", "stop", 0),
    Event(12, "stream", "start", 10), Event(13, "stream", "stop", 10)}}

Recordings ==
  {<< <<0, 7>> >>, << <<1, 3>>, <<4, 6>> >>, << <<2, 4>> >>, << <<0, 1>>, <<4, 6>> >>,
   << <<0, 2>>, <<2, 3>>, <<5, 9>> >>}

Scenario(events, segments, rtc, unbounded) ==
  [events |-> Talk \cup events, segments |-> segments, rtc_offset |-> rtc,
   unbounded |-> unbounded, duration |-> 7, offset |-> 1]

AllScenarios ==
  {Scenario(c, s, r, FALSE) : c \in Cutting \cup Mixed, s \in Recordings, r \in {-2, 0, 1}}

FewScenarios ==
  {Scenario(c, << <<1, 3>>, <<4, 6>> >>, 0, TRUE) : c \in Mixed}
  \cup {Scenario({}, s, 0, TRUE) : s \in {<<>>, << <<1, None>> >>}}

MCScenarios == AllScenarios \cup FewScenarios

Late == {Event(99, "stream", "stop", 50), Event(99, "break", "false", 35),
         Event(99, "message", None, 30)}

\* The scenarios are what EventsInSync is proved for.
ASSUME Recorded
=============================================================================
