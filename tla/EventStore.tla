----------------------------- MODULE EventStore -----------------------------
(***************************************************************************)
(* The events of one (room, set): what concurrent event.create requests,   *)
(* the on_event_insert trigger and system.vacuum do to the event table,    *)
(* and what state.read computes from it.                                   *)
(*                                                                         *)
(* Rows of different rooms or sets never meet in any of these queries, so  *)
(* one room and one set are enough.  The room is open throughout, and the  *)
(* origin of the clock is its opening time.                                *)
(***************************************************************************)
EXTENDS Naturals, FiniteSets, SetState

CONSTANTS
  Handlers,         \* slots for concurrent event.create requests
  Accounts,         \* callers
  Labels,           \* values of the label column
  NoLabel,          \* label IS NULL
  Attributes,       \* values of the attribute column; "deleted" is special
  Requests,         \* the event.create requests that are made
  PreserveHistory,  \* room.preserve_history
  ReadReplica,      \* READONLY_DATABASE_URL is set
  NsPerMicro,       \* clock steps per unit of the database's now()
  MaxHistorySize,   \* vacuum.max_history_size
  HistoryLifetime,  \* vacuum.max_history_lifetime
  DeletedLifetime,  \* vacuum.max_deleted_lifetime
  MaxRows,          \* bound: rows ever inserted
  MaxClock          \* bound: the clock

\* names_set: the set is given, and not taken from the kind.
Request == [account: Accounts, names_set: BOOLEAN, label: Labels \cup {NoLabel},
            attribute: Attributes, removed: BOOLEAN, is_persistent: BOOLEAN]

ASSUME EventStoreAssumption ==
  /\ NoLabel \notin Labels
  /\ Requests \subseteq Request
  /\ PreserveHistory \in BOOLEAN
  /\ ReadReplica \in BOOLEAN
  /\ NsPerMicro \in Nat \ {0}
  /\ MaxHistorySize \in Nat
  /\ HistoryLifetime \in Nat
  /\ DeletedLifetime \in Nat
  /\ MaxRows \in Nat
  /\ MaxClock \in Nat

VARIABLES
  clock,     \* Utc::now(), in nanoseconds since the room opened
  event,     \* the event table on the primary: a set of rows
  replica,   \* the event table on the read-only replica
  nextId,    \* the next row's id
  pc,        \* where each handler is
  req        \* what each handler has read and computed so far

vars == <<clock, event, replica, nextId, pc, req>>

Row == [id: Nat \ {0},
        label: Labels \cup {NoLabel},
        attribute: Attributes,
        removed: BOOLEAN,
        occurred_at: Nat,
        created_by: Accounts,
        created_at: Nat,
        original_occurred_at: Nat,
        original_created_by: Accounts]

\* No row: the trigger's SELECT INTO found nothing.
NoRow == [id |-> 0]

\* author: whom the request is authorized against; occurred_at: computed in the
\* handler; now: the transaction's now(); original: the trigger's record.
HandlerState == [request: Request, author: Accounts, occurred_at: Nat, now: Nat,
                 original: Row \cup {NoRow}]

\* A free slot.
NoRequest == [id |-> 0]

TypeOK ==
  /\ clock \in Nat
  /\ event \in SUBSET Row
  /\ replica \in SUBSET Row
  /\ nextId \in Nat \ {0}
  /\ pc \in [Handlers -> {"idle", "found", "stamped", "inserting", "locked"}]
  /\ req \in [Handlers -> HandlerState \cup {NoRequest}]
  /\ \A h \in Handlers : (pc[h] = "idle") <=> (req[h] = NoRequest)

-----------------------------------------------------------------------------
(* Queries. *)

\* label = $3 in SQL: NULL equals nothing.
Versions(rows, l) == {r \in rows : r.label = l /\ l # NoLabel}

\* ORDER BY occurred_at LIMIT 1, and ORDER BY created_at LIMIT 1: any of the
\* first rows.
EarliestOccurred(rows) == {r \in rows : \A s \in rows : r.occurred_at <= s.occurred_at}
EarliestCreated(rows) == {r \in rows : \A s \in rows : r.created_at <= s.created_at}

\* What get_ro_conn reads.
ReadOnlyEvents == IF ReadReplica THEN replica ELSE event

\* now() of the database: microseconds.
Micros(t) == t \div NsPerMicro

-----------------------------------------------------------------------------
(* event.create *)

Init ==
  /\ clock = 0
  /\ event = {}
  /\ replica = {}
  /\ nextId = 1
  /\ pc = [h \in Handlers |-> "idle"]
  /\ req = [h \in Handlers |-> NoRequest]

\* The room is found; the author is that of the label's original event if set and
\* label are given and there is one, else the caller.
FindAuthor(h, q) ==
  /\ pc[h] = "idle"
  /\ LET versions == {r \in Versions(ReadOnlyEvents, q.label) : q.names_set}
         authors == IF versions = {} THEN {q.account}
                    ELSE {o.created_by : o \in EarliestOccurred(versions)}
     IN  \E author \in authors :
           req' = [req EXCEPT ![h] = [request |-> q, author |-> author,
                                      occurred_at |-> 0, now |-> 0,
                                      original |-> NoRow]]
  /\ pc' = [pc EXCEPT ![h] = "found"]
  /\ UNCHANGED <<clock, event, replica, nextId>>

\* The tenant allows it; occurred_at is read off the clock.  No two handlers
\* read the same nanosecond.
Authorize(h) ==
  /\ pc[h] = "found"
  /\ clock < MaxClock
  /\ pc' = [pc EXCEPT ![h] = "stamped"]
  /\ req' = [req EXCEPT ![h].occurred_at = clock]
  /\ clock' = clock + 1
  /\ UNCHANGED <<event, replica, nextId>>

Finish(h) ==
  /\ pc' = [pc EXCEPT ![h] = "idle"]
  /\ req' = [req EXCEPT ![h] = NoRequest]

\* Every early return: authorization denied, payload too large, a drawing that
\* does not parse, no database connection.
Refuse(h) ==
  /\ pc[h] \in {"found", "stamped"}
  /\ Finish(h)
  /\ UNCHANGED <<clock, event, replica, nextId>>

\* A transient event is built and sent, never stored.
CreateTransient(h) ==
  /\ pc[h] = "stamped"
  /\ ~req[h].request.is_persistent
  /\ Finish(h)
  /\ UNCHANGED <<clock, event, replica, nextId>>

\* The INSERT statement starts, and with it its transaction: now() is fixed.
BeginInsert(h) ==
  /\ pc[h] = "stamped"
  /\ req[h].request.is_persistent
  /\ pc' = [pc EXCEPT ![h] = "inserting"]
  /\ req' = [req EXCEPT ![h].now = Micros(clock)]
  /\ UNCHANGED <<clock, event, replica, nextId>>

\* Faulty variant: the trigger without its lock.
NoLock(l) == TRUE

\* pg_advisory_xact_lock: nobody else is inserting under the label.
LockFree(l) == \A h \in Handlers : pc[h] = "locked" => req[h].request.label # l

\* The trigger takes the lock and selects the original event.
SelectOriginal(h) ==
  /\ pc[h] = "inserting"
  /\ LockFree(req[h].request.label)
  /\ LET versions == Versions(event, req[h].request.label)
         originals == IF versions = {} THEN {NoRow} ELSE EarliestCreated(versions)
     IN  \E o \in originals : req' = [req EXCEPT ![h].original = o]
  /\ pc' = [pc EXCEPT ![h] = "locked"]
  /\ UNCHANGED <<clock, event, replica, nextId>>

\* GREATEST(now(), original.created_at + '1 microsecond')
CreatedAt(now, original) ==
  IF original # NoRow /\ original.created_at + 1 > now
  THEN original.created_at + 1
  ELSE now

\* NEW as the trigger leaves it.
NewRow(id, r) ==
  [id |-> id,
   label |-> r.request.label,
   attribute |-> r.request.attribute,
   removed |-> r.request.removed,
   occurred_at |-> r.occurred_at,
   created_by |-> r.request.account,
   created_at |-> CreatedAt(r.now, r.original),
   original_occurred_at |->
     IF r.original = NoRow THEN r.occurred_at ELSE r.original.occurred_at,
   original_created_by |->
     IF r.original = NoRow THEN r.request.account ELSE r.original.created_by]

\* The row is inserted and the transaction commits, releasing the lock; the
\* response and the notifications go out.
CommitInsert(h) ==
  /\ pc[h] = "locked"
  /\ nextId <= MaxRows
  /\ event' = event \cup {NewRow(nextId, req[h])}
  /\ nextId' = nextId + 1
  /\ Finish(h)
  /\ UNCHANGED <<clock, replica>>

\* The process or its connection dies: the transaction is rolled back.
AbortInsert(h) ==
  /\ pc[h] \in {"inserting", "locked"}
  /\ Finish(h)
  /\ UNCHANGED <<clock, event, replica, nextId>>

-----------------------------------------------------------------------------
(* system.vacuum: one DELETE statement, which takes no advisory lock. *)

Expired(r, lifetime) == r.created_at + lifetime < Micros(clock)

\* Faulty variant: age alone condemns a row.
TooOldWhateverOrdinal(r) == Expired(r, HistoryLifetime)

TooDeep(r) == ReverseOrdinal(event, r) > MaxHistorySize
TooOld(r) == ReverseOrdinal(event, r) > 1 /\ Expired(r, HistoryLifetime)

\* The label's latest version marks it as deleted, long enough ago.
OfDeletedLabel(r) ==
  \E s \in Versions(event, r.label) :
     /\ ReverseOrdinal(event, s) = 1
     /\ s.attribute = "deleted"
     /\ Expired(s, DeletedLifetime)

Vacuum ==
  /\ ~PreserveHistory
  /\ event' = {r \in event : ~(TooDeep(r) \/ TooOld(r) \/ OfDeletedLabel(r))}
  /\ event' # event
  /\ UNCHANGED <<clock, replica, nextId, pc, req>>

-----------------------------------------------------------------------------
(* The environment: replication catches up, time passes. *)

Replicate ==
  /\ ReadReplica
  /\ replica # event
  /\ replica' = event
  /\ UNCHANGED <<clock, event, nextId, pc, req>>

Tick ==
  /\ clock < MaxClock
  /\ clock' = clock + 1
  /\ UNCHANGED <<event, replica, nextId, pc, req>>

Create(h) ==
  \/ \E q \in Requests : FindAuthor(h, q)
  \/ Authorize(h)
  \/ Refuse(h)
  \/ CreateTransient(h)
  \/ BeginInsert(h)
  \/ SelectOriginal(h)
  \/ CommitInsert(h)
  \/ AbortInsert(h)

Next ==
  \/ \E h \in Handlers : Create(h)
  \/ Vacuum
  \/ Replicate
  \/ Tick

Spec == Init /\ [][Next]_vars

-----------------------------------------------------------------------------
(* What the store promises. *)

Labelled == {r \in event : r.label # NoLabel}

\* The latest version of r's label is r.
IsLatest(r) == \A s \in event : s.label = r.label => s.occurred_at <= r.occurred_at

\* All versions of a label name the same original event, however the requests
\* that created them raced: the trigger corrects created_at "so that 'original'
\* event (the earliest one) never changes" (its comment).  Without it a message
\* splits in two.  So it is in a room that preserves its history; elsewhere vacuum
\* deletes the original of a label that is still written to, and the label splits.
OneOriginalPerLabel ==
  \A r, s \in Labelled :
     r.label = s.label => /\ r.original_occurred_at = s.original_occurred_at
                          /\ r.original_created_by = s.original_created_by

\* state.read, asked for any moment, shows one version of a label.
StateShowsLabelOnce ==
  \A at \in 0..(MaxClock + 1) :
     \A r, s \in StateRows(event, MaxClock + 1, at) :
        (r.label = s.label /\ r.label # NoLabel) => r = s

\* "All previous events with the same label will be excluded from set queries
\* like they never existed" (removed in event.create): a label whose latest
\* version is a removal is not in the state, as long as its versions name one
\* original, which is so until vacuum deletes it.
RemovedLabelHidden ==
  \A r \in Labelled :
     /\ IsLatest(r)
     /\ r.removed
     /\ \A s \in Labelled :
          s.label = r.label => s.original_occurred_at = r.original_occurred_at
     => \A s \in StateRows(event, MaxClock + 1, MaxClock + 1) : s.label # r.label

\* Following has_next and paging by original_occurred_at visits every item of a
\* set of labelled events: a page and the pages after it are all there is, and
\* has_next says whether there is a page after it.  With an attribute filter the
\* count behind has_next is the number of items.
PagingComplete ==
  \A bound \in 1..(MaxClock + 1) :
     LET all == StateRows(Labelled, bound, MaxClock + 1)
     IN  /\ \A limit \in 1..Cardinality(all) :
               LET page == Page(Labelled, bound, MaxClock + 1, limit)
               IN  /\ HasNext(Labelled, bound, MaxClock + 1, limit) <=> page # all
                   /\ all = page \cup StateRows(Labelled, NextBound(page), MaxClock + 1)
         /\ \A a \in Attributes :
               TotalCountByAttribute(Labelled, bound, MaxClock + 1, a)
                 = Cardinality(StateRowsByAttribute(Labelled, bound, MaxClock + 1, a))

\* Vacuum drops history, not content: the latest version of a label goes only
\* when it marks the label as deleted.
VacuumKeepsLatest ==
  [][\A r \in Labelled : (IsLatest(r) /\ r \notin event') => r.attribute = "deleted"]_vars

-----------------------------------------------------------------------------
(* The inductive invariant behind OneOriginalPerLabel in preserved rooms. *)

\* o is strictly the first version of its label by created_at.
IsFirst(o) == \A s \in event : s.label = o.label => (s = o \/ o.created_at < s.created_at)

\* Every version names its label's first version as the original.
OriginalIsFirst ==
  \A r \in Labelled :
     \E o \in event : /\ o.label = r.label
                      /\ IsFirst(o)
                      /\ r.original_occurred_at = o.occurred_at
                      /\ r.original_created_by = o.created_by

\* At most one insert is past the lock of a label.
LockExclusive ==
  \A h, k \in Handlers :
     (/\ pc[h] = "locked" /\ pc[k] = "locked"
      /\ req[h].request.label = req[k].request.label) => h = k

\* What the trigger selected is still what it would select when it commits.
SelectedIsCurrent ==
  \A h \in Handlers :
     (pc[h] = "locked" /\ req[h].request.label # NoLabel) =>
       \/ /\ req[h].original = NoRow
          /\ \A s \in event : s.label # req[h].request.label
       \/ /\ req[h].original \in event
          /\ req[h].original.label = req[h].request.label
          /\ IsFirst(req[h].original)

OriginalInv == TypeOK /\ OriginalIsFirst /\ LockExclusive /\ SelectedIsCurrent

-----------------------------------------------------------------------------
(* The inductive invariant behind what state.read and vacuum promise: every *)
(* event has its own time, before the present.                              *)

\* The handler has read its occurred_at off the clock and has not yet committed.
Stamped(h) == pc[h] \in {"stamped", "inserting", "locked"}

\* No two events, stored or in flight, have the same time.
StampsDistinct ==
  /\ \A r, s \in event : r.occurred_at = s.occurred_at => r = s
  /\ \A h \in Handlers : Stamped(h) =>
       /\ \A r \in event : r.occurred_at # req[h].occurred_at
       /\ \A k \in Handlers : Stamped(k) /\ h # k => req[h].occurred_at # req[k].occurred_at

\* Nothing is later than the clock, the originals included.
StampsPast ==
  /\ clock <= MaxClock
  /\ \A r \in event : r.occurred_at < clock /\ r.original_occurred_at < clock
  /\ \A h \in Handlers :
       /\ Stamped(h) => req[h].occurred_at < clock
       /\ (pc[h] = "locked" /\ req[h].original # NoRow) => req[h].original.occurred_at < clock

StampInv == IsFiniteSet(event) /\ StampsDistinct /\ StampsPast

=============================================================================
