----------------------------- MODULE EventList -----------------------------
(***************************************************************************)
(* event.list over the event table of EventStore: a client pages through   *)
(* the events of a room, from either end, while others go on creating      *)
(* them.  The filters only make the table smaller and are left out.        *)
(***************************************************************************)
EXTENDS EventStore

CONSTANTS
  Limit,      \* limit of a request, at most MAX_LIMIT
  Directions  \* the directions clients page in

ASSUME ListAssumption == Limit \in Nat \ {0} /\ Directions \subseteq {"forward", "backward"}

VARIABLES
  direction,  \* the client's direction
  last,       \* last_occurred_at of its next request, a set of at most one time
  seen,       \* the rows it has got
  overtaken   \* history: the times of events in flight when a page was read

listVars == <<direction, last, seen, overtaken>>

\* a comes before b in the order of the direction.
Before(a, b) == IF direction = "forward" THEN a < b ELSE a > b

\* WHERE occurred_at > last_occurred_at, or < for backward
Listed(rows) == {r \in rows : \A t \in last : Before(t, r.occurred_at)}

\* Faulty variant: ORDER BY id
FirstPageById(rows) ==
  {r \in rows : Cardinality({s \in rows : s.id < r.id}) < Limit}

\* ORDER BY occurred_at LIMIT: distinct rows have distinct occurred_at.
FirstPage(rows) ==
  {r \in rows : Cardinality({s \in rows : Before(s.occurred_at, r.occurred_at)}) < Limit}

InFlight == {req[h].occurred_at : h \in {h \in Handlers : Stamped(h)}}

\* The client asks for its next page and takes the time of the page's last event
\* along; an empty page changes nothing.
List ==
  LET page == FirstPage(Listed(ReadOnlyEvents))
      end == {r.occurred_at : r \in {r \in page : \A s \in page : ~Before(r.occurred_at, s.occurred_at)}}
  IN /\ page # {}
     /\ seen' = seen \cup page
     /\ last' = end
     /\ overtaken' = overtaken \cup {t \in InFlight : \A e \in end : Before(t, e)}
     /\ UNCHANGED <<direction, vars>>

ListInit ==
  /\ Init
  /\ direction \in Directions
  /\ last = {}
  /\ seen = {}
  /\ overtaken = {}

ListNext == List \/ (Next /\ UNCHANGED listVars)

ListSpec == ListInit /\ [][ListNext]_<<vars, listVars>>

-----------------------------------------------------------------------------
\* An event of this time is still to come, was being created when the client read past
\* it, or is later than the first page of a client that pages backward.
Accounted(time) ==
  \A t \in last :
     \/ Before(t, time)
     \/ time \in overtaken
     \/ direction = "backward" /\ \A s \in seen : s.occurred_at < time

\* last_occurred_at is the "`occurred_at` value of the last seen event on the previous
\* page": a client that pages through a room has every event up to where it is, except
\* those that were being created when it read past their time, which it never gets; and
\* paging backward, those that are later than its first page.
PagesComplete == \A r \in event : r \in seen \/ Accounted(r.occurred_at)

-----------------------------------------------------------------------------
(* The inductive invariant behind PagesComplete. *)

ListTypeOK ==
  /\ direction \in {"forward", "backward"}
  /\ last \subseteq Nat
  /\ \A t \in last : t < clock
  /\ seen \subseteq Row
  /\ \A r \in seen : r.occurred_at < clock

FlightAccounted == \A h \in Handlers : Stamped(h) => Accounted(req[h].occurred_at)

ListInv == TypeOK /\ StampInv /\ ListTypeOK /\ FlightAccounted /\ PagesComplete
=============================================================================
