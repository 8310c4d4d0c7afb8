------------------------------ MODULE Editions ------------------------------
(***************************************************************************)
(* One edition of a room that is over: its changes are created and         *)
(* deleted, it is deleted, and it is committed by tasks that clone the     *)
(* room.                                                                   *)
(*                                                                         *)
(* commit_edition runs in one READ COMMITTED transaction, whose two        *)
(* queries on the change table may see different changes.  Of an event's   *)
(* columns the kind, the set, the data and the times are modelled; the     *)
(* nanoseconds that tell events of equal time apart, and the limit of      *)
(* EventListQuery, 100000 stream events, are left out.                     *)
(***************************************************************************)
EXTENDS Timeline

CONSTANTS
  Source,              \* the events of the source room
  Changesets,          \* what change.create is asked to store
  Handlers,            \* slots for requests on the edition and its changes
  Commits,             \* slots for edition.commit
  Duration,            \* of the room
  Offset,              \* of the commit requests, in milliseconds
  DEFAULT_LIST_LIMIT,  \* of db::change::ListQuery
  MaxChanges           \* bound: change.create requests that succeed

\* Ids are unique, and only removals and modifications name an event.
ASSUME EditionsAssumption ==
  /\ {Duration, Offset, min_segment_length, DEFAULT_LIST_LIMIT, MaxChanges} \subseteq Nat
  /\ NANOSECONDS_IN_MILLISECOND \in Nat \ {0}
  /\ None \notin Int \cup {"start", "stop"} \cup Source
  /\ IsFiniteSet(Source)
  /\ \A e \in Source : {e.id, e.created} \subseteq Nat /\ e.at \in Int
  /\ \A e, f \in Source : e.id = f.id => e = f
  /\ \A x \in Changesets :
       /\ x.type \in {"addition", "modification", "removal", "bulk_removal"}
       /\ x.at \in Int \cup {None}
       /\ x.type = "addition" => x.event = None

VARIABLES
  edition,  \* the edition exists
  changes,  \* its changes, numbered by created_at
  created,  \* how many changes were ever created
  request,  \* what each handler is about to do, None if it is idle
  commit    \* the state of each edition.commit

vars == <<edition, changes, created, request, commit>>

\* A changeset as stored; None stands for NULL.
Change == [n : 1..MaxChanges, row : Changesets]

Requests ==
  {[op |-> "create"], [op |-> "delete_edition"]}
  \cup {[op |-> "delete_change", n |-> i] : i \in 1..MaxChanges}

\* Besides what the code keeps: the changes the two queries saw.
Idle == [pc |-> "idle", gaps |-> <<>>, events |-> {}, segments |-> <<>>,
         listed |-> {}, applied |-> {}]

Locations == {"idle", "accepted", "collected", "cloned", "success", "error", "panicked"}

TypeOK ==
  /\ edition \in BOOLEAN
  /\ changes \subseteq Change
  /\ created \in 0..MaxChanges
  /\ \A x, y \in changes : x.n = y.n => x = y
  /\ \A x \in changes : x.n <= created
  /\ request \in [Handlers -> Requests \cup {None}]
  /\ \A c \in Commits :
       /\ commit[c].pc \in Locations
       /\ GapsOK(commit[c].gaps)
       /\ commit[c].listed \subseteq Change /\ commit[c].applied \subseteq Change

\* edition.create
Init ==
  /\ edition = TRUE
  /\ changes = {}
  /\ created = 0
  /\ request = [h \in Handlers |-> None]
  /\ commit = [c \in Commits |-> Idle]

-----------------------------------------------------------------------------
(* Requests on the edition and its changes. *)

\* The edition, or the change with its edition, is found and the tenant agrees.
Find(h) ==
  /\ request[h] = None
  /\ \E r \in Requests :
       /\ IF r.op = "delete_change" THEN \E x \in changes : x.n = r.n ELSE edition
       /\ request' = [request EXCEPT ![h] = r]
  /\ UNCHANGED <<edition, changes, created, commit>>

Respond(h) == request' = [request EXCEPT ![h] = None]

\* Every error after that.
Refuse(h) ==
  /\ request[h] # None
  /\ Respond(h)
  /\ UNCHANGED <<edition, changes, created, commit>>

\* change.create; the foreign key makes it fail, a Refuse, once the edition is
\* gone.  What is stored is not looked at before, so it is chosen here.
CreateChange(h) ==
  /\ request[h] # None
  /\ request[h].op = "create"
  /\ edition
  /\ created < MaxChanges
  /\ created' = created + 1
  /\ \E x \in Changesets : changes' = changes \cup {[n |-> created + 1, row |-> x]}
  /\ Respond(h)
  /\ UNCHANGED <<edition, commit>>

\* change.delete; the change may be gone by now.
DeleteChange(h) ==
  /\ request[h] # None
  /\ request[h].op = "delete_change"
  /\ changes' = {x \in changes : x.n # request[h].n}
  /\ Respond(h)
  /\ UNCHANGED <<edition, created, commit>>

\* edition.delete, ON DELETE CASCADE
DeleteEdition(h) ==
  /\ request[h] # None
  /\ request[h].op = "delete_edition"
  /\ edition' = FALSE
  /\ changes' = {}
  /\ Respond(h)
  /\ UNCHANGED <<created, commit>>

-----------------------------------------------------------------------------
(* edition.commit *)

\* ListQuery with a kind: the latest changes, at most the limit.
ListQuery(S, kind) ==
  LET found == {x \in S : x.row.kind = kind}
  IN  {x \in found : Cardinality({y \in found : y.n > x.n}) < DEFAULT_LIST_LIMIT}

SourceOrders == Orders(Streams(Source))

\* The stream events, in one of their orders, and the changes of kind stream.
Cuts(found, p) ==
  EventCuts(Source, p)
  \cup {[at |-> x.row.at, data |-> x.row.data, change |-> 1, order |-> -x.n] : x \in found}

\* The FULL OUTER JOIN of events and changes: bulk removals are no part of it
\* and hide the events of their set, a removal drops the row it is part of.
Joined(S) ==
  LET removedSets == {x.row.set : x \in {x \in S : x.row.type = "bulk_removal"}}
      events == {e \in Source : e.set \notin removedSets}
      others == {x \in S : x.row.type # "bulk_removal"}
      matched(e) == {x \in others : x.row.event = e.id}
      ids == {e.id : e \in events}
  IN  {[event |-> e, change |-> None] : e \in {e \in events : matched(e) = {}}}
      \cup {r \in [event : events, change : others] :
              r.change \in matched(r.event) /\ r.change.row.type # "removal"}
      \cup {[event |-> None, change |-> x] :
              x \in {x \in others : x.row.event \notin ids /\ x.row.type # "removal"}}

\* COALESCE(change.field, event.field)
Coalesced(r, field) ==
  IF r.change # None /\ r.change.row[field] # None
  THEN r.change.row[field] ELSE r.event[field]

\* occurred_at in the subquery on the gaps is the event's, NULL for an addition.
ShiftOf(r, gaps) == IF r.event = None THEN 0 ELSE Shift(gaps, r.event.at)

Clone(r, gaps) ==
  [of |-> r,
   kind |-> Coalesced(r, "kind"),
   data |-> Coalesced(r, "data"),
   at |-> Coalesced(r, "at") - ShiftOf(r, gaps) + Milliseconds(Offset)]

\* The cut events are deleted.
Cloned(S, gaps) == {e \in {Clone(r, gaps) : r \in Joined(S)} : e.kind # "stream"}

\* A modification without its event has no created_by, a NOT NULL column.
Insertable(r) == r.event = None => r.change.row.type = "addition"

\* FindWithRoomQuery; 202, and the task is spawned.
Accept(c) ==
  /\ commit[c].pc = "idle"
  /\ edition
  /\ commit' = [commit EXCEPT ![c].pc = "accepted"]
  /\ UNCHANGED <<edition, changes, created, request>>

\* The task fails, its transaction is rolled back, edition.commit is broadcast.
Fail(c) ==
  /\ commit[c].pc \in {"accepted", "collected", "cloned"}
  /\ commit' = [commit EXCEPT ![c] = [Idle EXCEPT !.pc = "error"]]
  /\ UNCHANGED <<edition, changes, created, request>>

\* The stream events, the first query on the changes, and collect_gaps.  If it panics, into_stream
\* drops the join error and nothing is broadcast; if it bails, the task fails.
Collect(c) ==
  /\ commit[c].pc = "accepted"
  /\ \E p \in SourceOrders :
     LET collected == CollectGaps(Cuts(ListQuery(changes, "stream"), p))
     IN  \/ /\ collected.result = "ok"
            /\ commit' = [commit EXCEPT ![c] = [@ EXCEPT !.pc = "collected",
                          !.gaps = collected.gaps, !.listed = changes]]
         \/ /\ collected.result = "invalid"
            /\ commit' = [commit EXCEPT ![c].pc = "error"]
         \/ /\ collected.result = "panic"
            /\ commit' = [commit EXCEPT ![c] = [@ EXCEPT !.pc = "panicked", !.listed = changes]]
  /\ UNCHANGED <<edition, changes, created, request>>

\* clone_room, clone_events with the second query on the changes, and the
\* deletion of the cut events.
CloneEvents(c) ==
  /\ commit[c].pc = "collected"
  /\ \A r \in Joined(changes) : Insertable(r)
  /\ commit' = [commit EXCEPT ![c] = [@ EXCEPT !.pc = "cloned", !.applied = changes,
                 !.events = Cloned(changes, commit[c].gaps)]]
  /\ UNCHANGED <<edition, changes, created, request>>

\* What the gaps leave of the room, in milliseconds.
Segments(gaps) ==
  Truncated(InvertSegments(gaps, Duration, Milliseconds(min_segment_length)))

\* The transaction commits, edition.commit is broadcast with the segments.
CommitTxn(c) ==
  /\ commit[c].pc = "cloned"
  /\ commit' = [commit EXCEPT ![c] = [@ EXCEPT !.pc = "success",
                !.segments = Segments(commit[c].gaps)]]
  /\ UNCHANGED <<edition, changes, created, request>>

-----------------------------------------------------------------------------

Task(c) == Fail(c) \/ Collect(c) \/ CloneEvents(c) \/ CommitTxn(c)

Next ==
  \/ \E h \in Handlers :
       Find(h) \/ Refuse(h) \/ CreateChange(h) \/ DeleteChange(h) \/ DeleteEdition(h)
  \/ \E c \in Commits : Accept(c) \/ Task(c)

\* A spawned task is polled until it ends.
Spec == Init /\ [][Next]_vars /\ \A c \in Commits : WF_vars(Task(c))

-----------------------------------------------------------------------------
(* The reference: which moments are cut out. *)

\* How many cuts are open at a time.
Depth(cuts, t) ==
  Cardinality({x \in cuts : x.data = "start" /\ x.at <= t})
  - Cardinality({x \in cuts : x.data = "stop" /\ x.at <= t})

\* The commands after which no cut is open.
Closing(cuts) ==
  LET upTo(x) == {y \in cuts : y = x \/ Precedes(y, x)}
  IN  {x \in cuts : Cardinality({y \in upTo(x) : y.data = "start"})
                     = Cardinality({y \in upTo(x) : y.data = "stop"})}

\* A moment is cut out if a cut is open, and all open ones are closed later.
CutOut(cuts, t) == Depth(cuts, t) > 0 /\ \E x \in Closing(cuts) : x.at > t

\* A time of the source room in the committed room.
Moved(cuts, t) == Cardinality({u \in 0..t - 1 : ~CutOut(cuts, u)}) + Milliseconds(Offset)

\* What is left after the last cut is too short to be a segment.
ShortTail(cuts, t) ==
  /\ \E x \in Closing(cuts) : Duration - x.at <= Milliseconds(min_segment_length)
  /\ \A x \in Closing(cuts) : x.at <= t

\* The edition adds cuts, not more than the list limit, and leaves the cuts of
\* the room alone.
OnlyAddsCuts(S) ==
  /\ Cardinality({x \in S : x.row.kind = "stream"}) <= DEFAULT_LIST_LIMIT
  /\ \A x \in S :
       /\ x.row.kind = "stream" => x.row.type = "addition"
       /\ x.row.set # "stream" \/ x.row.type # "bulk_removal"
       /\ \A e \in Source : e.kind = "stream" => x.row.event # e.id

\* Successful commits of editions whose cuts, as the task read them, only add.
Committed == {c \in Commits : commit[c].pc = "success" /\ OnlyAddsCuts(commit[c].listed)}

CutsOf(c, p) == Cuts({x \in commit[c].listed : x.row.kind = "stream"}, p)

-----------------------------------------------------------------------------
(* Properties. *)

\* Whatever happens to the edition while it is being committed, the segments
\* that edition.commit reports are what the cuts, in an order in which they may
\* have been listed, leave over: a millisecond is in one of them if its last
\* nanosecond is not cut out.  The room's events are where the cuts put them, to
\* the nanosecond: each event that is neither removed nor modified, and each
\* modified one that keeps its time.  A removed event that is not modified as
\* well is gone.
CommitFollowsCuts ==
  \A c \in Committed : \E p \in SourceOrders :
    LET cuts == CutsOf(c, p)
        S == commit[c].applied
        removed(e) == \E x \in S : \/ x.row.type = "removal" /\ x.row.event = e.id
                                   \/ x.row.type = "bulk_removal" /\ x.row.set = e.set
        modified(e) == \E x \in S : x.row.type = "modification" /\ x.row.event = e.id
        rows(e) == {r \in commit[c].events : r.of.event = e}
    IN  /\ \A v \in 0..(Duration \div NANOSECONDS_IN_MILLISECOND) - 1 :
             Covered(commit[c].segments, v)
             <=> ~CutOut(cuts, LastOf(v)) /\ ~ShortTail(cuts, LastOf(v))
        /\ \A e \in {e \in Source : e.kind # "stream"} :
             /\ ~modified(e) => (rows(e) = {} <=> removed(e))
             /\ \A r \in rows(e) :
                  (r.of.change = None \/ r.of.change.row.at = None)
                  => r.at = Moved(cuts, e.at)

\* An accepted commit is answered by edition.commit, unless it has read a change
\* to kind stream that has no time or no data.
CommitAnswered ==
  \A c \in Commits :
    commit[c].pc = "accepted" ~>
      \/ commit[c].pc \in {"success", "error"}
      \/ \E x \in commit[c].listed : /\ x.row.kind = "stream"
                                     /\ x.row.at = None \/ x.row.data = None

-----------------------------------------------------------------------------
(* The inductive invariant behind CommitFollowsCuts. *)

\* What a task has is what it computed from the changes its queries saw.
CommitInv ==
  /\ TypeOK
  /\ DOMAIN commit = Commits
  /\ \A c \in Commits :
       /\ DOMAIN commit[c] = DOMAIN Idle
       /\ \A x, y \in commit[c].listed : x.n = y.n => x = y
       /\ commit[c].pc \in {"collected", "cloned", "success"} =>
            \E p \in SourceOrders :
              LET collected == CollectGaps(Cuts(ListQuery(commit[c].listed, "stream"), p))
              IN  collected.result = "ok" /\ commit[c].gaps = collected.gaps
       /\ commit[c].pc \in {"cloned", "success"} =>
            commit[c].events = Cloned(commit[c].applied, commit[c].gaps)
       /\ commit[c].pc = "success" => commit[c].segments = Segments(commit[c].gaps)
=============================================================================
