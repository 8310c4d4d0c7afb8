------------------------------ MODULE SetState ------------------------------
(***************************************************************************)
(* state.read for one set: the queries of db/event/set_state.rs over a set *)
(* of event rows, and the has_next flag that endpoint/state.rs adds.  SQL  *)
(* groups NULL labels together in PARTITION BY and DISTINCT ON.  Distinct  *)
(* rows have distinct occurred_at.                                         *)
(***************************************************************************)
EXTENDS Naturals, FiniteSets

\* Faulty variant: removals are filtered out before the versions are compared.
VisibleUnremoved(rows, bound, at) ==
  {r \in rows : r.original_occurred_at < bound /\ r.occurred_at < at /\ ~r.removed}

\* WHERE original_occurred_at < bound AND occurred_at < at
Visible(rows, bound, at) ==
  {r \in rows : r.original_occurred_at < bound /\ r.occurred_at < at}

\* ROW_NUMBER() OVER (PARTITION BY label ORDER BY occurred_at DESC)
ReverseOrdinal(rows, r) ==
  1 + Cardinality({s \in rows : s.label = r.label /\ s.occurred_at > r.occurred_at})

\* Faulty variant: DISTINCT ON (occurred_at, label).
DistinctOnOccurredAt(rows) == rows

\* SELECT DISTINCT ON (original_occurred_at, label) ... ORDER BY occurred_at DESC
DistinctOn(rows) ==
  {r \in rows : \A s \in rows :
     (s.original_occurred_at = r.original_occurred_at /\ s.label = r.label)
       => s.occurred_at <= r.occurred_at}

\* bool_or(removed) OVER (PARTITION BY label ORDER BY occurred_at DESC)
RemovedWindowed(rows, r) ==
  \E s \in rows : /\ s.label = r.label
                  /\ s.occurred_at >= r.occurred_at
                  /\ s.removed

\* The rows of the query before LIMIT.
StateRows(rows, bound, at) ==
  {r \in DistinctOn(Visible(rows, bound, at)) : ~r.removed}

\* The same with an attribute filter.
StateRowsByAttribute(rows, bound, at, attribute) ==
  LET visible == Visible(rows, bound, at)
  IN  {r \in DistinctOn(visible) : /\ ReverseOrdinal(visible, r) = 1
                                   /\ r.attribute = attribute
                                   /\ ~r.removed}

\* ORDER BY original_occurred_at DESC LIMIT limit
FirstRows(rows, limit) ==
  {r \in rows :
     Cardinality({s \in rows : s.original_occurred_at > r.original_occurred_at}) < limit}

Page(rows, bound, at, limit) == FirstRows(StateRows(rows, bound, at), limit)

TotalCount(rows, bound, at) ==
  LET visible == Visible(rows, bound, at)
  IN  Cardinality({r \in DistinctOn(visible) : ~RemovedWindowed(visible, r)})

TotalCountByAttribute(rows, bound, at, attribute) ==
  LET visible == Visible(rows, bound, at)
  IN  Cardinality({r \in DistinctOn(visible) : /\ ~RemovedWindowed(visible, r)
                                               /\ r.attribute = attribute})

\* Faulty variant: a full page always has a next one.
HasNextWhenFull(rows, bound, at, limit) == TotalCount(rows, bound, at) >= limit

HasNext(rows, bound, at, limit) == TotalCount(rows, bound, at) > limit

\* Pagination as the client does it: the next bound is the original_occurred_at
\* of the last item seen.
NextBound(page) ==
  CHOOSE b \in {r.original_occurred_at : r \in page} :
     \A r \in page : b <= r.original_occurred_at
====
