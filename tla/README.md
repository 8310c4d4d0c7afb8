# A TLA+ model of the event service

The service keeps *rooms* and the *events* that happen in them (chat messages,
drawings, stream marks), serves requests over HTTP and MQTT, keeps its state in
PostgreSQL, and reads a few facts from a message broker and from NATS.  This
directory holds TLA+ modules that model its core, TLC configurations that check
them on small instances, and TLAPS proofs of the main results for all instances.

Source paths below are relative to the repository's root.

## 1. The system

| Component | State | Operations | Hard about it | Correct when |
|---|---|---|---|---|
| Event store: `src/app/endpoint/event.rs`, `src/db/event/mod.rs`, the trigger `on_event_insert` in `migrations/` | table `event` | event.create (find author, authorize, insert through the trigger), event.list | several processes insert under one label at once; two clocks (the process's, in nanoseconds, and the database's, in microseconds); authors are read from a replica | all versions of a label name one original; that original never changes |
| Set state: `src/db/event/set_state.rs`, `src/app/endpoint/state.rs` | none | state.read | three SQL queries must agree on what a label's current version is | a label is shown once; a removed label is not shown; pages lose nothing |
| Vacuum: `src/app/operations/vacuum.rs`, `VacuumQuery` | table `event` | system.vacuum | runs in the middle of inserts, takes no lock | history goes, content stays |
| Room: `src/app/endpoint/room.rs`, `src/db/room.rs`, `src/db/room_time.rs`, `src/app/endpoint/helpers.rs` | table `room` | room.create, read, update, locked_types, whiteboard_access, enter, adjust, dump_events | every handler reads the row, waits for the tenant's authorization and then writes without a lock | a closed room stays closed; no diff is lost; closing is announced |
| NATS consumer: `src/app/nats_consumer.rs` | a durable consumer of the conference stream | subscribe, handle, ack / nak / terminate, suspend, shut down | redelivery, lost answers, crashes, exhausted pools, a shutdown at any moment | one row per message, or the message is given up; an acknowledged message is stored; shutdown ends |
| Events dump: `src/app/endpoint/room/dump_events.rs`, `src/app/operations/dump_events_to_s3.rs`, `src/app/s3_client.rs` | an S3 object per room | room.dump_events | failing uploads, retries, two dumps at once | each dump is answered; success means uploaded |
| Presence: `src/app/endpoint/room.rs` (enter), `src/app/endpoint/subscription.rs`, `src/db/agent.rs` | table `agent` | room.enter, the broker's subscription.delete, agent.list | the broker's events race with the request, come late, or are lost to a failed query | an agent who entered is listed, a disconnected one is not |
| Bans: `src/app/endpoint/agent.rs`, `src/app/endpoint/ban.rs`, `src/db/room_ban.rs`; `src/app/endpoint/authz/mod.rs`, `src/authz.rs` | table `room_ban`, the authorization cache | agent.update, ban.list | the table is written per room in a transaction, the cache per classroom after it; a cache miss asks one room only | an update nobody raced with leaves table and cache in agreement; a ban is enforced |
| Room adjustment: `src/app/operations/adjust_room.rs`, `adjust_room/intersect.rs`, `src/db/adjustment.rs` | tables `adjustment`, `room`, `event` | room.adjust | a chain of separate transactions and time-segment arithmetic | events and segments stay in step with the video; a room is adjusted once; the request is answered |
| Editions and changes: `src/app/endpoint/edition/`, `src/app/endpoint/change/`, `src/app/operations/commit_edition.rs` | tables `edition`, `change` | create, list, delete, commit | a commit reads the changes twice in one READ COMMITTED transaction; cuts nest and overlap | the new room's segments and events follow the cuts; the commit is answered |
| Dispatch and lifecycle: `src/app/mod.rs`, `src/app/message_handler.rs`, `src/app/service_utils.rs`, `src/app/http.rs` | running requests, subscriptions | route, publish, run async tasks, reconnect, shut down | tasks outlive their request; publishing fails half-way; the broker's connection is lost while the process stops | a request is answered once, after its notifications; the process ends, and gracefully |
| Data formats: `src/db/event/schema.rs` | column `binary_data` | compact a drawing, expand it | integer widths, f32 arithmetic, drawings saved over and over | what comes back is what was sent, up to what the widths must lose |

Requests of different handlers meet in PostgreSQL only.  room.update and the
map requests write one row each with one `UPDATE`; event.create with one
`INSERT`, whose trigger takes an advisory lock on (room, set, label).  If
`READONLY_DATABASE_URL` is set, rows are *read* from a replica
(`src/app/context.rs`, `get_ro_conn`) that lags behind.  room.adjust and
room.dump_events answer 202 and continue in a spawned task whose result is
broadcast.  The NATS consumer inserts through the same trigger, without a label.

## 2. Modules

| Module | Models | Used by |
|---|---|---|
| `SetState` | the queries behind state.read, as operators on sets of rows | `EventStore` |
| `EventStore` | one (room, set) of the event table under event.create, the trigger and vacuum | `MCEventStore`, `EventStoreProofs` |
| `Room` | one row of the room table under update, locked_types, whiteboard_access and the closing step of adjust | `MCRoom`, `RoomProofs` |
| `EventDelivery` | abstract: each message becomes one row or is given up, for good | `NatsConsumer` |
| `NatsConsumer` | replicas of the consumer, NATS and the unique constraint | `MCNatsConsumer`, `NatsConsumerProofs` |
| `EventList` | a client that pages with event.list over `EventStore` | `MCEventList`, `EventStoreProofs` |
| `DumpEvents` | dump tasks with retries (no specification of its own) | `Dispatch` |
| `Dispatch` | messages, connection and end of the process, composed with the tasks of `DumpEvents` | `MCDispatch`, `DispatchProofs` |
| `Bans` | one account in the rooms of one classroom: agent.update, the cache, event.create | `MCBans`, `BansProofs` |
| `Presence` | one agent in one room: room.enter, the broker, the agent table | `MCPresence`, `PresenceProofs` |
| `Timeline` | cuts, gaps, segments and shifts, as operators on sequences | `Editions`, `AdjustRoom`, `TimelineProofs` |
| `AdjustRoom` | tasks of room.adjust on one room, transaction by transaction | `MCAdjustRoom`, `TimelineProofs` |
| `Drawing` | the compact form of a drawing, saved and read any number of times | `MCDrawing`, `DrawingProofs` |
| `Editions` | one edition: its changes, its deletion, its commits | `MCEditions`, `TimelineProofs` |

An operator whose comment starts with *Faulty variant* is a plausible mistake in
the definition after it; putting it in the definition's place must make a run
fail, which shows that the property depends on that piece of code.

### EventStore and SetState

One room and one set are enough, since no query joins rows of different ones;
the room is open throughout.  A handler goes through `FindAuthor` (find_room and
`OriginalEventQuery`, from the replica if there is one), `Authorize` (the
tenant's answer and `occurred_at`, which is nanoseconds since the room opened),
then `CreateTransient` or `BeginInsert` (the statement starts, which fixes
`now()`), `SelectOriginal` (the trigger takes its lock and selects the original)
and `CommitInsert`.  Without a set in the payload the handler does not look for an author
(`names_set`); the trigger takes the kind for the set, and finds the original all the same.  `Refuse` stands for every early return, `AbortInsert` for a
connection that dies.  Between any two of these steps anything else may happen.
`Micros` makes the database's clock coarser than the process's; `CreatedAt` is
the trigger's correction.  `Vacuum` is the one `DELETE` with its three
conditions.  No two events have the same `occurred_at`: the model gives out
every nanosecond once.  `Utc::now()` may repeat a value, and DISTINCT ON and the pages
of event.list then take two events for one; what is shown and proved about them is
about events at different nanoseconds.  Events that the NATS consumer inserts, whose
time is the message's and may be long past, are not part of this module.

Left out: payloads and their encodings, notifications, the authorization
decision (any request may be refused), and `deleted_at`, which no code in the
modelled handlers sets.

### EventList

`EventList` extends `EventStore` with one client that follows event.list in one
direction, as the documentation tells it to: `List` is a request with
`last_occurred_at` of the previous page, and between two pages every step of
`EventStore` may happen.  Filters are left out, since they only make the table
smaller.  `overtaken` is a history variable: the times of events that were being
created, stamped and not yet committed, when the client read past them.

### Room

The columns `time`, `locked_types` and `whiteboard_access`.  Each slot in
`Handlers` serves one `Method` over and over.  `Find` is find_room with its
`RoomTimeRequirement`; `PrepareUpdate` and `PrepareAdjust` compute the new time
after authorization, and `CheckWasOpen` reads the clock a second time for
`room_was_open`; `WriteTime`, `WriteLockedTypes` and `WriteWhiteboardAccess`
are the `UPDATE`s with what follows them.  `UpdateTime` is `RoomTime::update`
with its five cases, `TimePresence` the table's check constraint.  The maps hold
only true entries (`retain`), so they are sets.  `merged`, `lastDiff`, `silent`,
`overtaken`, `raced` and the field `late` are history variables, read by properties
only: `overtaken` are the requests whose map has been written since they read it, or
was outdated at the replica, and `raced` the maps that such a request has written.

### NatsConsumer and EventDelivery

`run` is `Subscribe`, `FailToSubscribe`, `CloseStream`, `Wake` and `Stop`;
`handle_stream` is `Receive`, `Ack`, `Nak` and `Terminate`; `handle_message` is
`FindRoom`, `FailToHandle`, `FailToAcquire`, `Insert` and `InsertButFail` (the
insert committed, its answer was lost).  `Answer` includes that the answer never
reaches NATS, which the code only logs.  NATS is external: it notes answers
(`Note`), delivers again what was not answered in time (`Redeliver`), perhaps
while a slow replica is still handling it.  `Crash` loses a process's state.
Durations and `retry_count`, which only sets a duration, are left out.
`FailToSubscribe` may happen any number of times, for the loop of `run` tries for ever
and looks at the shutdown signal only when it has subscribed.

The refinement maps `EventDelivery`'s `dropped` to the messages that are
terminated, have no row, and that no replica can still insert.  Termination alone
is not enough: a replica that received the message earlier may still store it.

### Dispatch and DumpEvents

A message is handed to the process by the broker (`Deliver`, then `Spawn` in
main_loop) or by the HTTP server (`AcceptHttp`).  `HandleRequest`, `HandleDump`,
`HandleError`, `HandleEvent`, `HandleResponse` and `Panic` are the ends of a
handler; what is then sent is a sequence, `left`, of notifications and one answer,
and `Publish` and `FailToPublish` take its head.  The two transports differ when
publishing fails (`AfterFailure`) and in when a task's result is sent
(`ResultIsNext`).

subscribe and unsubscribe hand two packets, one per topic, to the MQTT client
(`Both`), and nothing waits for the broker: `packets` are on their way or still with
the client, and `Handle` is the broker's taking one.  `Disconnect` loses the
subscriptions and some of the packets, `Reconnect` leaves a notice, `Resubscribe` and
`FailToResubscribe` are main_loop's handling of it, at any time, also while the process
stops.  The two packets of one call are put in line together; that those of two
concurrent calls may alternate is not modelled.

`Signal`, `Unsubscribe`, `FailToUnsubscribe`, `AwaitConsumer` (with the metrics server's
shutdown), `DrainHttp` and `Exit` are the end of run().  run() waits for the NATS
consumer, whose loop appears as `Consume`, `StreamClosed` and `ConsumerEnds`;
`NatsConsumer` has the rest of it.  `failed` and `deaf` are history, read by properties
only.

The tasks are those of `DumpEvents`: `Accept` is the request, `Load`, `FailToLoad`,
`Upload` and `FailToUpload` the task; a failed upload may have been stored all the
same.  What the S3 object holds is abstracted to whose events were stored.

### Bans

A slot in `Handlers` serves agent.update: `Find` (find_room and the authorization),
`Write` (the INSERT or DELETE, which waits for another transaction's row, `RowFree`),
`Commit` (with the account_ban event), `BanCache` or `FailToCache`, `Respond`;
`Abort` is an error before the commit, `CommitButFail` a commit that took effect but
was answered with an error, and `Crash` the end of the process after it.

event.create asks svc-authz, which looks into its cache first (`AuthorizeEvent`).
Without an entry it calls `db_ban_callback`: `AskCallback` is the query
(`ClassroomFind`), `AskBlindly` one that fails, and `AnswerCallback`, any time later,
what svc-authz makes of the answer: it decides, and may be kept in the cache.  Between
the two an update may commit and write the cache (`stale`).  `Expire` is an entry that
goes.  `SetTime` lets rooms be created, become bounded and end, since only unbounded
rooms are consulted.  svc-authz is external and modelled from how it is called; whether
it keeps an answer is left open.  `last`, `stale`, `faults` and `admitted` are history
variables.

### AdjustRoom

`AcceptAdjust` is the request, answered 202; then one action per transaction of
`call`, in its order: `Close`, `InsertAdjustment`,
`ListBreaks`, `InsertStreams`, `CreateOriginal`, `CloneOriginal`, `FindCutGaps`,
`CutSegments`, `CreateModified`, `CloneModified`, `DeleteCuts`, `Succeed`.
`FailAdjust` is any step that fails, and broadcasts; a task without segments panics; `Crash`
ends all tasks.  `Insert` is an event.create that found the room open and is late: a
cut, a break or a message.  The pure parts keep the source's names:
`cut_events_to_gaps`, `intersect`, `clone_events` (with `Collapsed` for the CASE on the
gaps and `Monotonized` for the ROW_NUMBER nanoseconds); `InvertSegments`, `Truncated`
and the order of cuts come from `Timeline`.

The stream events that stand for breaks are inserted by one transaction, so all have
one `created` (`streamed_at`), and a pause of the recording may put several at one
time.  EventListQuery orders by `occurred_at` and `created_at` only: `Orders` is the set
of orders in which such rows may come, and `FindCutGaps` and `CutSegments`, two queries,
pick one each.

The reference speaks of single moments: `Paused` and `CutAt` say whether a nanosecond is
left out, and counting the others says where an event belongs.  Segments are reported in
whole milliseconds, rounded down at both ends, so a millisecond is in one if its last
nanosecond (`LastOf`) is not cut out.

Left out: other events with equal `created_at` (labels in one microsecond, for
instance), whose ROW_NUMBER is arbitrary, and EventListQuery's limit of 100000, beyond
which cuts are ignored.

### Drawing

A number is its value in hundredths.  `f32tu`, `f32ti32` and `f32ti16` multiply by
100 in f32 arithmetic (`RoundEven`, `Exponent`), truncate and cast to the width;
`compress_path` and `decompress_path` put the points of a path on a grid of 1/10000
of its box.  Where a quotient is a whole number f64 may come out just below it, and
f32 may move a box's corner by a hundredth; both are nondeterministic (`Inexact`,
`Offs`).  The fields that the formats copy are one value.

Two limits of this.  Coordinates are whole hundredths; the code takes any f64, and
rounds a finer one to hundredths when it is first read, up if that is nearer (0.006
becomes 0.01), so that the properties are about it from the second trip on.  And `width as f32` is exact only below 2^19 hundredths, about
5000 pixels; beyond, f32 moves a box further than `Offs` lets it.

### Presence

The agent's row, its subscription at the broker, and the subscription.delete
events on their way.  `Enter` is room.enter step by step: `FindRoom` with the
authorization, `Register` (the upsert to in_progress), `RecordEnter`,
`Subscribe` or `FailToSubscribe` (the broker may have subscribed all the same),
`CheckRoom`, `MarkReady` and `Succeed`.  `HandleDelete` and `RecordLeft` are the
two transactions of the delete handler, `LoseDelete` its failure, after which the
event is gone.  The broker is external: it drops the subscription when the agent
leaves or disconnects, and publishes one event for it.  `entered` and `lost` are
history variables.  Rows of different agents and rooms never meet, so one of each
is enough.

### Editions and Timeline

The source room is a constant, since its events are not written while the edition
exists in the model; edition.create is the initial state.  A slot in `Handlers`
serves change.create, change.delete and edition.delete, each in two steps with the
tenant's authorization between: what was found may be gone.  A slot in `Commits`
is one edition.commit: `Accept` answers 202, `Collect` is the first query on the
changes with collect_gaps, `CloneEvents` the second one with the `INSERT ...
SELECT`, `CommitTxn` the end of the transaction and the broadcast.  `Fail` is every
error, which rolls back and is broadcast.  `Joined` is the FULL OUTER JOIN,
`Coalesced` the choice of a column, `ShiftOf` the subquery on the gaps.  `listed`
and `applied` remember what the two queries saw, for the properties.

`Timeline` holds the pure functions: `CollectGaps` is collect_gaps with its sort,
its nesting, its `bail!` and its two panics; `InvertSegments` is invert_segments of
`adjust_room.rs`; `Truncated` the division by which segments become milliseconds;
`Shift` the sum over the gaps; `Orders` the orders in which the database may list cuts
of one time and one `created_at`.  Times are in nanoseconds.  They are checked against a
reference in `Editions` that counts: `CutOut` says of each nanosecond whether it
is cut out, from how many cuts are open (`Depth`) and whether a `Closing` one still
comes; `Moved` counts the nanoseconds that stay; `ShortTail` is the rest of a room
after its last cut that is too short to be a segment.

Left out: the ROW_NUMBER nanoseconds that set cloned events of equal time apart, labels,
which of two equal rows is which, and EventListQuery's limit of 100000 cut events (the
limit of 25 on changes is there).

## 3. Runs

| Run | Checks | Instance | Shows |
|---|---|---|---|
| `event_races` | `OneOriginalPerLabel`, `StateShowsLabelOnce`, `PagingComplete`, `PagesComplete` | two handlers, two authors, two labels, three rows, the database's clock twice coarser, a client with pages of two in either direction | in a room with preserved history the lock and the `created_at` rule keep one original however requests race; the state follows; a client misses only events that were in flight when it read past them |
| `event_vacuum` | `RemovedLabelHidden`, `VacuumKeepsLatest` | one handler, a lagging replica, three rows, vacuum at any moment | vacuum never deletes content; a removed label is hidden while its versions name one original |
| `room_races` | `TypeOK`, `MapsMerged`, `UpdateAnnouncesClose`, `ClosedToLaterRequests` | one room.update, one room.adjust and one locked_types at a time | requests for different columns never undo each other; an empty range is never stored; a room.update that closes sends room.close; only a request that read the room before it closed can reopen it |
| `room_replica` | `MapsMerged`, `LastDiffInForce` | two locked_types requests, one whiteboard_access, a lagging replica | a diff is lost only to a request for the same map that had read it too early; the last committed diff is in force |
| `nats_delivery` | `AckedIsStored`, `ExactlyOnceOrDropped`, `ShutdownCompletes` | two replicas (one is shut down), three messages (one without a room), two failures besides any number of failed subscriptions, one early redelivery | the consumer implements `EventDelivery`, liveness included; a shutdown signal is missed only by a consumer that never subscribes again |
| `dispatch` | `AnswerIsLast`, `Listens`, `GracefulExit`, `ResultReported`, `RequestAnswered`, `DumpAnswered`, `StopCompletes` | a request with up to two notifications or a dump with three attempts, two reconnections, packets lost at any point | answers are sent once and after their notifications; tasks report what they did; requests and tasks end; a running service hears its clients again; a signal ends the process, unless the NATS consumer never subscribes again, and leaves no HTTP request and no consumer behind |
| `presence` | `ListedIsOnline` | one room.enter at a time, two delete events on their way | a listed agent is subscribed, or the event that removes it is still to come or was lost |
| `editions` | `TypeOK`, `CommitFollowsCuts`, `CommitAnswered` | a room with one cut, a second that starts where it stops, and three messages; three changes out of seven, one handler, one commit, a list limit of two, two nanoseconds in a millisecond | segments and event times follow the cuts that the commit read, whatever happens to the edition meanwhile; a commit is answered unless it panics |
| `adjust` | `EventsInSync`, `SegmentsInSync`, `OrderKept`, `AdjustedOnce`, `AdjustAnswered` | six messages, every way to put cut commands at three moments and four mixed lists, five recordings, three RTC offsets, two overlapping requests, one late event of three, ten nanoseconds in a millisecond | events and segments of the derived rooms follow the recording and the cuts as they were listed, in order; the room is adjusted once and answered |
| `bans` | `BansAgree`, `BanEnforced`, `UpdateAnswered` | two rooms of a classroom, two agent.update and one lookup at a time | an update that no other overlapped repairs whatever earlier ones left; a ban in the consulted room is enforced; waiting for a row ends |
| `drawings` | `NumbersKept`, `ShapeKept`, `DriftsOneWay` | numbers around every boundary, small and large paths, malformed ones | numbers and paths come back up to a bounded drift, and repeated saves come to rest |
| `presence_lost` | `EnteredIsListed`, expected to be violated | as `presence` | a late subscription.delete removes the row of a later entrance |

Why the bounds are enough.  A label can only split when two inserts race, so two
handlers and three rows (two first versions and one later) reach every case of the
trigger; with `NsPerMicro` = 2 and three clock steps two inserts fall in one
microsecond and in different ones.  Pages of two make a client with three rows read
a second page.  A vacuum that breaks a label needs a removed
or deleted version and one to outlive it, three rows.  A lost update on a room
row needs two requests; the third slot writes another column.  For NATS, two
failures allow a lost acknowledgement followed by a crash of the second handler;
the early redelivery lets two replicas hold one message.  For presence, two
events allow one about an earlier subscription to be handled after a later
entrance.  Three changes and the room's own cut reach cuts that nest, overlap,
touch and never end, a change between the two queries, and, with a limit of two
instead of 25, a list that is cut off; with two nanoseconds in a millisecond half of
the times are between milliseconds.  Messages share nothing but the service
and the broker, so `dispatch` takes one at a time (the constraint `Apart` of
`MCDispatch`), either of the two, and lets every step of it fall between any two of the
shutdown; two reconnections let the packets of one
resubscription be lost with the next connection, and a notice be handled after it.  Two
rooms and two updates are what it takes for a ban to be consulted in the wrong room and
for two commits and two cache writes to come in different orders; one lookup suffices to
be overtaken.  `Apart` of `MCBans` looks at lookups and at changes of the rooms beside
one update and at an overlap of two by itself, since nothing is claimed of the cache from
an overlap to the next undisturbed update.  Both constraints only drop steps that nothing
owes (arrivals, lookups, changes of rooms), so that what is left are behaviours of the
specification, fair ones included.
Three moments for cuts give every sequence of start and stop with messages before,
in and after them, a cut before the opening and one that never ends; two tasks let a
request overlap or repeat another.  A nanosecond is a tenth of a millisecond
(`NANOSECONDS_IN_MILLISECOND` = 10), more than the number of events that
`Monotonized` sets apart, and two of the moments are between milliseconds; two messages
of one moment and one a nanosecond later meet the limits of `OrderKept`.  The i32 and u32 limits of `Drawing` are small stand-ins,
since TLC's integers have 32 bits; u16, i16 and u8 are the real ones.

`CHECK_DEADLOCK FALSE` is set where the system really may stop: NATS (all messages
settled, everyone stopped), dispatch (the process has ended), editions (deleted, all
commits finished), adjust (all tasks ended), bans (all rooms over) and drawings
(refused).

### Disagreements

`presence_lost` is expected to find a violation of what the repository says: "Entered
agents appear in the active agents list" (`docs/src/api/room/enter.md`).  An agent that
leaves and enters again loses its new row to the late event about its old subscription.

Others are stated as the exact exception of a property that otherwise holds:

- `OneOriginalPerLabel`: `created_at` is chosen "so that 'original' event (the earliest
  one) never changes" (the trigger in
  `migrations/20230302093017_fix_on_event_insert_1.sql`).  It does in a room without
  preserved history: vacuum deletes it, and the next version has another.
- `MapsMerged`: a locked_types map "will be merged into current locked types"
  (`docs/src/api/room/locked_types.md`).  It is merged into those that were read before
  the authorization, and of two overlapping requests the first to write is undone.
- `EventsInSync`, `SegmentsInSync`: "We cut everything between these two events from the
  video" (`docs/src/impl/room_adjustment.md`).  The stream events for a break within a
  pause of the recording tie on both columns of ORDER BY; if the stop is listed first,
  everything before the pause is cut instead.
- `RemovedLabelHidden`: a label marked `removed` is to be excluded "like [it] never
  existed" (`docs/src/api/event/create.md`).  After vacuum has deleted the label's
  first version, the next version gets another original, DISTINCT ON no longer groups
  it with the older ones, and an old version is shown.
- `ResultReported`: after three failed uploads a dump is reported as a success, with
  "S3 uri of the object events were dumped to" (`docs/src/api/room/dump_events.md`).
- `CommitFollowsCuts`: edition.commit "performs events shifting"
  (`docs/src/api/edition/commit.md`), but events that the edition adds stay where they
  are: the subquery on the gaps reads `event.occurred_at`, NULL for them.
- `NumbersKept`: `src/db/event/schema.rs` refuses a drawing when "compaction would
  loose precision".  Negative sizes and angles become zero, skews beyond
  327.67 wrap, and stroke_dash_offset comes back a hundred times larger.
- `BanEnforced`: agent.update "Bans provided account in a room"
  (`docs/src/api/agent/update.md`).  The cache speaks of the classroom, and a miss
  consults its latest unbounded room only.
- `OrderKept`: messages that the first cloning has put right after a cut's end are
  put among the cut ones by the second.

Seen while modelling: room.adjust "doesn't modify anything in the original real-time
room" (`docs/src/impl/room_adjustment.md`), but inserts stream events into it and
closes it, unannounced, if it was unbounded; two of its gaps that start at zero make
a scalar subquery fail, and a pause that spans the room's opening is ignored; an
empty list of segments panics, and nobody is told.  event.list's limit is documented
as 100k and is at most 100.  event.create finds the author of a label by
`occurred_at`, the trigger by `created_at`, and the two differ when first versions
race; a room.update that was delayed in authorization can reopen
a room that closed meanwhile; a commit that reads a change to kind `stream` without a
time or data panics and is never answered; a commit sees the latest 25 such changes
only.  A reconnection after the service has unsubscribed subscribes it again; a process
that is told to stop while NATS is unreachable never does, for run() waits for a consumer
that tries to subscribe for ever; and a
notification that cannot be published takes the response of a committed request with
it.

## 4. Fairness

Safety properties need none.  `NatsConsumer` assumes weak fairness of a
consumer's own steps (a tokio task that can go on is polled), strong fairness of
`Stop` (`tokio::select!` polls its branches in random order, so a pending
shutdown cannot lose to arriving messages forever, though each message disables
it for a while), weak fairness of `Redeliver` (JetStream delivers again after
the acknowledgement timeout), and strong fairness of `Subscribe` for replicas that are
not told to stop: without a consumer that can reach NATS nothing is ever delivered.  For
one that is told to stop nothing of the kind is assumed, and `ShutdownCompletes` says
so.  Failures and crashes have no fairness; all but failed subscriptions are finitely
many.  `Editions` and `AdjustRoom` assume weak fairness of each task's
steps, success or failure: a spawned task is polled until it ends.  `Dispatch`
assumes the same of each message, of each dump's task and of run() once a signal has
come, and strong fairness of `ConsumerEnds`: handle_stream looks at the signal each time
it is entered and before each message, so that a consumer that subscribes again and
again ends.  The broker, NATS, the clients and the signal owe nothing.  `Bans` assumes weak
fairness of an agent.update and strong fairness of its `Write`: PostgreSQL grants a
row lock to those who wait in turn.

## 5. Proofs

`tlapm` checks every proof; all theorems hold for every number of handlers, rows,
messages, tasks, points and failures.  An assumption of a theorem beyond those of
its module is named below, with what goes wrong without it.

**EventStoreProofs**, about `EventStore` and `EventList`.  `TypeCorrect`.

`OriginalNeverChanges`: in a room with `PreserveHistory`, `OneOriginalPerLabel` always
holds.  The property is not inductive, because what a version names depends on what the
trigger selected some steps before.  `OriginalInv` adds: every version names the
*strictly first* version by `created_at` (`OriginalIsFirst`), at most one insert is past
the lock of a label (`LockExclusive`), and what it selected is still the first version
(`SelectedIsCurrent`).  A commit keeps the first version strictly first because the
trigger makes `created_at` greater than the original's.  The assumption on history is
needed: with vacuum the result is false.

What state.read computes needs a second invariant, `StampInv`, which holds in every
room: the table is finite, no two events, stored or in flight, have one `occurred_at`
(`StampsDistinct`), and no time is later than the clock (`StampsPast`).  From it alone:
`RemovedStaysHidden` (`RemovedLabelHidden`) and, for the action property
`VacuumKeepsLatest`, `LatestIsAlwaysKept`, which assumes that vacuum is configured to keep at least one version
(`MaxHistorySize # 0`; with 0 it deletes every version).  From both invariants, so for
rooms with preserved history only: `StateAlwaysShowsOnce` (`StateShowsLabelOnce`), because
`DISTINCT ON` groups by a time that is the same for all versions of a label; and
`PagingAlwaysComplete` (`PagingComplete`), because different labels have different
originals, so that cutting a page at the last original's time cuts between two labels.
The counts are compared through bijections between items and labels.

`PagesAlwaysComplete`: `PagesComplete` of event.list for any page size, assuming that
there is no replica (a replica that lacks a row makes the client read past it).  `ListInv`
adds to `StampInv` that every event in flight is accounted for already
(`FlightAccounted`): it is either ahead of the client or was noted as overtaken, so that
its commit cannot break the property.

**RoomProofs.** `TypeCorrect`, which includes that an empty time is never stored.
`LastDiffAlwaysInForce`: from the merge rule alone, for any lag.
`NoDiffIsLost`: `MapsMerged`, for any number of writers and any lag: a diff is lost only
to a request for the same map that had read it before.  The strengthening is
`ReadIsCurrent`, that a pending map request has read the current map unless it was
overtaken.
`LaterRequestsNeverReopen`: `ClosedToLaterRequests` without a replica, from
`LateHasNoTime`: a request that found the room closed has no time to write.
`CloseIsAlwaysAnnounced`: `UpdateAnnouncesClose`, assuming no replica and one room.update
at a time (`OneUpdater`): of two that overlap, one may reopen the room that the other
has found closed, which then closes it in silence.  `CloseInv` adds that the row has the
time the pending room.update has read unless the room is closed by now
(`UpdateReadTime`); that the request, when it is about to write a time, asked for one that
ends no later and found the room open, or the room it read is closed by now
(`UpdatePrepared`), which stays so while the clock runs on; and that room.adjust writes
the time of a closed room (`AdjustPrepared`).

**NatsConsumerProofs.** `TypeCorrect`; `AcknowledgedIsStored`, with
`AckFollowsInsert`: a message about to be acknowledged has its row, and no message
has two; `ImplementsDelivery`: each step is a step of `EventDelivery` or leaves
`rows` and `dropped` alone, the safety half of `ExactlyOnceOrDropped`.

**PresenceProofs.** `TypeCorrect`; `ListedIsAlwaysOnline`: `ListedIsOnline`, assuming
that there is one room.enter of the agent at a time (`OneEnter`), which is needed:
otherwise the first request marks the row that the second one has registered.
The property is not inductive, since `MarkReady` lists the agent long after the
broker answered.  `PresenceInv` adds `MarkableIsOnline`, that while a request is
past the broker a row exists only if the subscription stands or its end has not
been handled, and `RecordedFirst`, that the entrance is on record by then.

**BansProofs.** `TypeCorrect`, `BansAlwaysAgree` and `BanAlwaysEnforced` for any number
of rooms, lookups and racing updates.  The inductive invariant says of each handler what
it has done up to its pc if nobody overlapped it (`Holds`), that the row and the cache
follow the latest event while nothing has gone wrong (`Follows`), that a lookup that was
not overtaken has found what the row says (`LookupsRight`), so that it may fill the
cache, and that then the consulted room's ban keeps the account out (`KeptOut`).

**DispatchProofs.** `TypeCorrect`, `AlwaysListens`, `AlwaysGraceful` and
`ResultAlwaysReported`, for any number of messages, notifications, retries and
reconnections.  `Listens` needs `ListensInv`: while the service runs all packets on their
way subscribe, and a topic that the broker has not been told of is in one of them
(`Announced`), unless a notice is still to be handled.  `ResultReported` needs `DumpInv`,
what a task has done up to its pc.  `GracefulExit` needs `GracefulInv`: the last thing an
HTTP request has still to send is its answer (`HttpAnswered`), and a process that is
closing has no NATS consumer, one that is leaving no HTTP request left (`Drained`).

`AnswerAlwaysLast`: `AnswerIsLast`.  `AnswerInv` says of what a message has sent and what
it has still to send together (`StreamOK`) what the property says of the first: there is
one answer in both (`OneAnswer`), and if it is still to come then only notifications have
gone out and its place is known (`MqttInOrder`).  The task of a message adds its result
after that answer, and tasks are of requests only.

**TimelineProofs**, about `Timeline`, `Editions` and `AdjustRoom`.  The two users are
about loops over lists of any length.  What a loop computes is proved by induction on its
rounds, in the form that a set of naturals that is not empty has a least one
(`LeastNatural`): there is no first round after which the loop's invariant fails.  The
lists come from finite sets sorted by an order, so the proofs start from `Sorted` giving
every command once and in order (`SortedLists`).

`EditionTypeCorrect`: `TypeOK` of `Editions`, whose core is that the gaps of a commit
follow one another.  `CommitsFollowCuts`: `CommitFollowsCuts`, for any room, any changes
and any interleaving of requests and commits.  `CommitInv` says that what a commit has is
what it computed from the changes its two queries saw, which the edition may have lost
since.  The rest is about `CollectGaps`.  Its loop invariant, `StateOK`, says after k
commands: the nesting depth and the start of the open cut are those of the first k
(`Tracks`), the gaps are in order and end before the open cut starts (`Ordered`), and they
hold exactly the times when a cut was open that has been closed (`Covers`).  From it: a
time is in a gap if and only if it is `CutOut`, the segments are the other times but a
short tail, and `ShiftBy`'s sum is the number of nanoseconds cut out before an event,
compared by cardinalities.  `TruncatedCovers` takes the segments to milliseconds: after
the division a pair has a millisecond if and only if it had its last nanosecond.  Cuts
that tie are listed in an order the theorem does not know; the invariant keeps that
there is one (`SourceOrders`) from which the gaps were computed.  The theorem assumes `NonNegativeTimes`: event times come from
the clock, but change.create accepts a change to a negative time, and a cut before the
opening shifts later events by time that the room never had.

`AlwaysAdjustedOnce`: `AdjustedOnce` for any room, any segments and offsets and any number
of overlapping, failing or repeated tasks.  `OnceInv` adds that a task past the insert of
the adjustment row (`HoldsRow`) is the one the row names; the row is unique and nothing
deletes it.

`EventsAlwaysInSync`: `EventsInSync`, for any recording, cuts and number of tasks,
failures and crashes.  `SyncInv` says of each task what its copies are made of (`InStep`),
and that the source room's events are those it had and the stream events these stand for.
It needs `OnceInv`: only the task that holds the row inserts stream events, so what the
first copy was made from is what the room has when the task succeeds.  The invariant of
`cut_events_to_gaps`'s loop is `CutState`, and the gaps between segments are covered
likewise; both cloning steps then put an event where counting moments puts it.  The cuts
are those the task listed, in some order of those that tie; it may not
be the one in which they happened (section 3).  The theorem assumes `Recorded`: rows have distinct ids, events lie between the room's opening
and its closing, and segments that all end follow one another.  The last is the caller's
part: `int8range` only makes a segment's start no later than its stop, and room.adjust
checks no order; nothing is claimed for segments out of order.  TLC evaluates `Recorded` on the instance of `adjust`.

**DrawingProofs.** `ShapeAlwaysKept` (`ShapeKept`) and `AlwaysDriftsOneWay`
(`DriftsOneWay`) for every drawing, with strokes of any number of points of any size; the
drawings need only have the fields of the schema (`DrawingOK`).  As in the model, f32 is
taken to move a minimum by no more than a sixteenth of a hundredth, which is so for
coordinates below 2^19 hundredths.  The core is one lemma on
a coordinate (`SunkFacts`): put on the grid between the ends of its box, truncated,
one step lower where f64 arithmetic comes out short, and brought back from a minimum that
f32 may have moved, it is never above where it was and never below the minimum; the two ends come back exactly; and in a box smaller
than the grid every number does.  That a non-empty path has its two ends needs an
induction, made from the well-foundedness of the naturals (`LeastNatural`).  Then the box
survives a round trip, and `ShapeInv` follows: what is stored is always the compact form
of the drawing the client has.

Only model-checked:

- all liveness (`ExactlyOnceOrDropped`'s fairness, `ShutdownCompletes`, `CommitAnswered`,
  `AdjustAnswered`, `UpdateAnswered`, `RequestAnswered`, `DumpAnswered`, `StopCompletes`),
  which is out of the prover's reach;
- `SegmentsInSync`, about the walk of `intersect` over two lists at once, whose
  invariant is not written;
- `OrderKept`, which counts the nanoseconds left between two events and the events
  themselves;
- `NumbersKept`, about f32 rounding: the exponent of a number is a power of two found by
  `CHOOSE`, and the provers have no theory of powers.

## 6. Not modelled, and the plan

Every component of section 1 has its module, and every invariant of the passing runs but
the three listed above is proved.  Worth adding, in this order:

1. The columns tags and classroom_id of a room, which the same `UPDATE` writes.
2. Two rooms of one agent in `Presence`, and overlapping room.enter requests.
3. A proof of `SegmentsInSync`, with the invariant of `intersect`.
4. The NATS consumer's inserts, with times of the past, beside event.list.

Not planned: configuration, metrics, error texts and `src/serde.rs`, which no property
here is about; the bytes of the postcard encoding, a library's; the list endpoints
other than event.list, which read one table; room.create and room.read, which write
or read one row that nobody else has; the tenant's policy and svc-authz, which are
outside the repository and appear as a nondeterministic refusal.
