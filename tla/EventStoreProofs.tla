-------------------------- MODULE EventStoreProofs --------------------------
(***************************************************************************)
(* Proofs about EventStore: for every room, type correctness, and what     *)
(* state.read and vacuum do with the latest version of a label; for the    *)
(* rooms whose history is preserved, that a label never changes its        *)
(* original event, is shown once and is found by paging; and about         *)
(* EventList, that a client of event.list misses nothing.                  *)
(***************************************************************************)
EXTENDS EventList, FiniteSetTheorems, WellFoundedInduction, TLAPS

-----------------------------------------------------------------------------
(* Facts about the operators. *)

LEMMA MicrosNat == ASSUME NEW t \in Nat PROVE Micros(t) \in Nat
  BY EventStoreAssumption DEF Micros

LEMMA NoRowIsNoRow == NoRow \notin Row
  BY DEF NoRow, Row

LEMMA NoRequestIsNoState == NoRequest \notin HandlerState
  BY DEF NoRequest, HandlerState

LEMMA NewRowType ==
  ASSUME NEW r \in HandlerState, NEW id \in Nat \ {0}
  PROVE  NewRow(id, r) \in Row
<1>1. CreatedAt(r.now, r.original) \in Nat
  BY DEF CreatedAt, HandlerState, Row, NoRow
<1>2. (IF r.original = NoRow THEN r.occurred_at ELSE r.original.occurred_at) \in Nat
  BY DEF HandlerState, Row
<1>3. (IF r.original = NoRow THEN r.request.account ELSE r.original.created_by) \in Accounts
  BY DEF HandlerState, Request, Row
<1>. QED  BY <1>1, <1>2, <1>3 DEF NewRow, Row, HandlerState, Request

LEMMA FinishType ==
  ASSUME TypeOK, NEW h \in Handlers, Finish(h)
  PROVE  /\ pc' \in [Handlers -> {"idle", "found", "stamped", "inserting", "locked"}]
         /\ req' \in [Handlers -> HandlerState \cup {NoRequest}]
         /\ \A k \in Handlers : (pc'[k] = "idle") <=> (req'[k] = NoRequest)
  BY DEF TypeOK, Finish

-----------------------------------------------------------------------------
(* Type correctness. *)

\* A busy handler has a request; the record keeps its type when a field is set.
LEMMA BusyHasState ==
  ASSUME TypeOK, NEW h \in Handlers, pc[h] # "idle"
  PROVE  req[h] \in HandlerState
  BY DEF TypeOK

LEMMA TypeStep == TypeOK /\ [Next]_vars => TypeOK'
<1>. SUFFICES ASSUME TypeOK, [Next]_vars PROVE TypeOK'
  OBVIOUS
<1>. USE EventStoreAssumption
<1>1. CASE UNCHANGED vars
  BY <1>1 DEF TypeOK, vars
<1>2. ASSUME NEW h \in Handlers, NEW q \in Requests, FindAuthor(h, q) PROVE TypeOK'
  <2>. DEFINE versions == {r \in Versions(ReadOnlyEvents, q.label) : q.names_set}
              authors == IF versions = {} THEN {q.account}
                         ELSE {o.created_by : o \in EarliestOccurred(versions)}
  <2>1. q \in Request
    OBVIOUS
  <2>2. versions \subseteq Row
    BY DEF TypeOK, ReadOnlyEvents, Versions
  <2>3. authors \subseteq Accounts
    BY <2>1, <2>2 DEF EarliestOccurred, Row, Request
  <2>4. PICK author \in authors :
           req' = [req EXCEPT ![h] = [request |-> q, author |-> author,
                                      occurred_at |-> 0, now |-> 0, original |-> NoRow]]
    BY <1>2 DEF FindAuthor
  <2>. HIDE DEF versions, authors
  <2>. DEFINE s == [request |-> q, author |-> author,
                    occurred_at |-> 0, now |-> 0, original |-> NoRow]
  <2>6. s \in HandlerState
    BY <2>1, <2>3, <2>4 DEF HandlerState
  <2>7. s # NoRequest
    BY <2>6, NoRequestIsNoState
  <2>8. req' = [req EXCEPT ![h] = s] /\ pc' = [pc EXCEPT ![h] = "found"]
    BY <1>2, <2>4 DEF FindAuthor
  <2>. HIDE DEF s
  <2>. QED  BY <1>2, <2>6, <2>7, <2>8 DEF TypeOK, FindAuthor
<1>3. ASSUME NEW h \in Handlers, Authorize(h) PROVE TypeOK'
  <2>1. [req[h] EXCEPT !.occurred_at = clock] \in HandlerState
    BY <1>3, BusyHasState DEF Authorize, HandlerState, TypeOK
  <2>. QED  BY <1>3, <2>1, NoRequestIsNoState, BusyHasState DEF TypeOK, Authorize
<1>4. ASSUME NEW h \in Handlers, Refuse(h) PROVE TypeOK'
  BY <1>4, FinishType DEF TypeOK, Refuse
<1>5. ASSUME NEW h \in Handlers, CreateTransient(h) PROVE TypeOK'
  BY <1>5, FinishType DEF TypeOK, CreateTransient
<1>6. ASSUME NEW h \in Handlers, BeginInsert(h) PROVE TypeOK'
  <2>1. [req[h] EXCEPT !.now = Micros(clock)] \in HandlerState
    BY <1>6, BusyHasState, MicrosNat DEF BeginInsert, HandlerState, TypeOK
  <2>. QED  BY <1>6, <2>1, NoRequestIsNoState, BusyHasState DEF TypeOK, BeginInsert
<1>7. ASSUME NEW h \in Handlers, SelectOriginal(h) PROVE TypeOK'
  <2>1. PICK o \in Row \cup {NoRow} : req' = [req EXCEPT ![h].original = o]
    BY <1>7 DEF SelectOriginal, Versions, EarliestCreated, TypeOK
  <2>2. [req[h] EXCEPT !.original = o] \in HandlerState
    BY <1>7, BusyHasState DEF SelectOriginal, HandlerState
  <2>. QED  BY <1>7, <2>1, <2>2, NoRequestIsNoState, BusyHasState DEF TypeOK, SelectOriginal
<1>8. ASSUME NEW h \in Handlers, CommitInsert(h) PROVE TypeOK'
  <2>1. NewRow(nextId, req[h]) \in Row
    BY <1>8, BusyHasState, NewRowType DEF CommitInsert, TypeOK
  <2>. QED  BY <1>8, <2>1, FinishType DEF TypeOK, CommitInsert
<1>9. ASSUME NEW h \in Handlers, AbortInsert(h) PROVE TypeOK'
  BY <1>9, FinishType DEF TypeOK, AbortInsert
<1>10. CASE Vacuum
  BY <1>10 DEF TypeOK, Vacuum
<1>11. CASE Replicate
  BY <1>11 DEF TypeOK, Replicate
<1>12. CASE Tick
  BY <1>12 DEF TypeOK, Tick
<1>. QED
  BY <1>1, <1>2, <1>3, <1>4, <1>5, <1>6, <1>7, <1>8, <1>9, <1>10, <1>11, <1>12
  DEF Next, Create

\* Every reachable state of the store, its replica and its handlers has the
\* type the code's structures give it, in every room.
THEOREM TypeCorrect == Spec => []TypeOK
<1>1. Init => TypeOK
  BY DEF Init, TypeOK
<1>. QED  BY <1>1, TypeStep, PTL DEF Spec

-----------------------------------------------------------------------------
(* One original per label. *)

\* A row committed under the lock names the label's first version, and comes
\* strictly after it.
LEMMA NewRowOriginal ==
  ASSUME NEW r \in HandlerState, NEW id \in Nat \ {0}
  PROVE  LET n == NewRow(id, r) IN
         /\ n.label = r.request.label
         /\ r.original = NoRow => /\ n.original_occurred_at = n.occurred_at
                                  /\ n.original_created_by = n.created_by
         /\ r.original # NoRow => /\ n.original_occurred_at = r.original.occurred_at
                                  /\ n.original_created_by = r.original.created_by
                                  /\ r.original.created_at < n.created_at
  BY NoRowIsNoRow DEF NewRow, CreatedAt, HandlerState, Row

\* Two versions that are both strictly first are one row.
LEMMA FirstIsUnique ==
  ASSUME event \subseteq Row, NEW o \in event, NEW p \in event,
         o.label = p.label, IsFirst(o), IsFirst(p)
  PROVE  o = p
  BY DEF IsFirst, Row

LEMMA OriginalImpliesOne == TypeOK /\ OriginalIsFirst => OneOriginalPerLabel
<1>. SUFFICES ASSUME TypeOK, OriginalIsFirst,
                     NEW r \in Labelled, NEW s \in Labelled, r.label = s.label
              PROVE  /\ r.original_occurred_at = s.original_occurred_at
                     /\ r.original_created_by = s.original_created_by
  BY DEF OneOriginalPerLabel
<1>1. PICK o \in event : /\ o.label = r.label /\ IsFirst(o)
                         /\ r.original_occurred_at = o.occurred_at
                         /\ r.original_created_by = o.created_by
  BY DEF OriginalIsFirst
<1>2. PICK p \in event : /\ p.label = s.label /\ IsFirst(p)
                         /\ s.original_occurred_at = p.occurred_at
                         /\ s.original_created_by = p.created_by
  BY DEF OriginalIsFirst
<1>3. o = p
  BY <1>1, <1>2, FirstIsUnique DEF TypeOK
<1>. QED  BY <1>1, <1>2, <1>3

\* Steps that leave the table alone and let no handler past a lock.
LEMMA QuietStep ==
  ASSUME OriginalInv, UNCHANGED event,
         \A h \in Handlers : pc'[h] = "locked" => pc[h] = "locked" /\ req'[h] = req[h]
  PROVE  OriginalIsFirst' /\ LockExclusive' /\ SelectedIsCurrent'
<1>1. OriginalIsFirst'
  BY DEF OriginalInv, OriginalIsFirst, Labelled, IsFirst
<1>2. LockExclusive'
  BY DEF OriginalInv, LockExclusive
<1>3. SelectedIsCurrent'
  BY DEF OriginalInv, SelectedIsCurrent, IsFirst
<1>. QED  BY <1>1, <1>2, <1>3

LEMMA OriginalStep ==
  ASSUME PreserveHistory PROVE OriginalInv /\ [Next]_vars => OriginalInv'
<1>. SUFFICES ASSUME OriginalInv, [Next]_vars PROVE OriginalInv'
  OBVIOUS
<1>0. TypeOK /\ TypeOK'
  BY TypeStep DEF OriginalInv
<1>1. SUFFICES OriginalIsFirst' /\ LockExclusive' /\ SelectedIsCurrent'
  BY <1>0 DEF OriginalInv
<1>2. CASE UNCHANGED vars
  BY <1>2, QuietStep DEF vars
<1>3. ASSUME NEW h \in Handlers, NEW q \in Requests, FindAuthor(h, q)
      PROVE  OriginalIsFirst' /\ LockExclusive' /\ SelectedIsCurrent'
  <2>1. UNCHANGED event /\ pc' = [pc EXCEPT ![h] = "found"]
    BY <1>3 DEF FindAuthor
  <2>2. \A k \in Handlers \ {h} : req'[k] = req[k]
    BY <1>3, <1>0 DEF FindAuthor, TypeOK
  <2>. QED  BY <2>1, <2>2, <1>0, QuietStep DEF TypeOK
<1>4. ASSUME NEW h \in Handlers, Authorize(h) \/ BeginInsert(h)
      PROVE  OriginalIsFirst' /\ LockExclusive' /\ SelectedIsCurrent'
  BY <1>4, <1>0, QuietStep DEF Authorize, BeginInsert, TypeOK
<1>5. ASSUME NEW h \in Handlers, Refuse(h) \/ CreateTransient(h) \/ AbortInsert(h)
      PROVE  OriginalIsFirst' /\ LockExclusive' /\ SelectedIsCurrent'
  BY <1>5, <1>0, QuietStep DEF Refuse, CreateTransient, AbortInsert, Finish, TypeOK
<1>6. ASSUME NEW h \in Handlers, SelectOriginal(h)
      PROVE  OriginalIsFirst' /\ LockExclusive' /\ SelectedIsCurrent'
  <2>. DEFINE l == req[h].request.label
              versions == Versions(event, l)
  <2>1. PICK o \in IF versions = {} THEN {NoRow} ELSE EarliestCreated(versions) :
           req' = [req EXCEPT ![h].original = o]
    BY <1>6 DEF SelectOriginal
  <2>2. /\ UNCHANGED event /\ LockFree(l)
        /\ pc' = [pc EXCEPT ![h] = "locked"] /\ pc[h] = "inserting"
    BY <1>6 DEF SelectOriginal
  <2>3. /\ \A k \in Handlers \ {h} : req'[k] = req[k] /\ pc'[k] = pc[k]
        /\ req'[h].request = req[h].request
        /\ req'[h].original = o
    BY <2>1, <2>2, <1>0, BusyHasState DEF TypeOK, HandlerState
  <2>4. OriginalIsFirst'
    BY <2>2 DEF OriginalInv, OriginalIsFirst, Labelled, IsFirst
  <2>5. LockExclusive'
    BY <2>2, <2>3, <1>0 DEF OriginalInv, LockExclusive, LockFree, TypeOK
  <2>6. ASSUME l # NoLabel
        PROVE  \/ o = NoRow /\ \A s \in event : s.label # l
               \/ o \in event /\ o.label = l /\ IsFirst(o)
    <3>1. CASE versions = {}
      BY <2>1, <2>6, <3>1 DEF Versions
    <3>2. CASE versions # {}
      <4>1. o \in EarliestCreated(versions) /\ o \in event /\ o.label = l
        BY <2>1, <3>2 DEF Versions, EarliestCreated
      <4>2. PICK f \in event : f.label = l /\ IsFirst(f)
        BY <4>1, <2>6 DEF OriginalInv, OriginalIsFirst, Labelled
      <4>3. f \in versions
        BY <4>2, <2>6 DEF Versions
      <4>4. o.created_at <= f.created_at
        BY <4>1, <4>3 DEF EarliestCreated
      <4>5. o = f
        BY <4>1, <4>2, <4>4, <1>0 DEF IsFirst, TypeOK, Row
      <4>. QED  BY <4>1, <4>2, <4>5
    <3>. QED  BY <3>1, <3>2
  <2>7. SelectedIsCurrent'
    BY <2>2, <2>3, <2>6, <1>0 DEF OriginalInv, SelectedIsCurrent, IsFirst, TypeOK
  <2>. QED  BY <2>4, <2>5, <2>7
<1>7. ASSUME NEW h \in Handlers, CommitInsert(h)
      PROVE  OriginalIsFirst' /\ LockExclusive' /\ SelectedIsCurrent'
  <2>. DEFINE r == req[h]
              l == req[h].request.label
              n == NewRow(nextId, req[h])
              FirstNext(o) == \A s \in event' :
                                s.label = o.label => (s = o \/ o.created_at < s.created_at)
  <2>1. /\ event' = event \cup {n} /\ pc[h] = "locked"
        /\ pc' = [pc EXCEPT ![h] = "idle"] /\ req' = [req EXCEPT ![h] = NoRequest]
    BY <1>7 DEF CommitInsert, Finish
  <2>2. /\ r \in HandlerState /\ nextId \in Nat \ {0} /\ n \in Row
        /\ event \subseteq Row /\ event' \subseteq Row
    BY <2>1, <1>0, BusyHasState, NewRowType DEF TypeOK
  <2>3. /\ n.label = l
        /\ r.original = NoRow => /\ n.original_occurred_at = n.occurred_at
                                 /\ n.original_created_by = n.created_by
        /\ r.original # NoRow => /\ n.original_occurred_at = r.original.occurred_at
                                 /\ n.original_created_by = r.original.created_by
                                 /\ r.original.created_at < n.created_at
    BY <2>2, NewRowOriginal
  <2>4. l # NoLabel => \/ r.original = NoRow /\ \A s \in event : s.label # l
                       \/ /\ r.original \in event /\ r.original.label = l
                          /\ IsFirst(r.original)
    BY <2>1 DEF OriginalInv, SelectedIsCurrent
  <2>. HIDE DEF n, r, l
  <2>5. ASSUME NEW o \in event, IsFirst(o), o.label # NoLabel PROVE FirstNext(o)
    <3>1. CASE o.label # l
      BY <2>1, <2>3, <2>5, <3>1 DEF IsFirst
    <3>2. CASE o.label = l
      <4>1. r.original \in event /\ r.original.label = l /\ IsFirst(r.original)
        BY <2>4, <2>5, <3>2
      <4>2. o = r.original
        BY <4>1, <2>2, <2>5, <3>2, FirstIsUnique
      <4>3. o.created_at < n.created_at
        BY <4>2, <2>2, <2>3, NoRowIsNoRow
      <4>. QED  BY <4>3, <2>1, <2>5 DEF IsFirst
    <3>. QED  BY <3>1, <3>2
  <2>6. OriginalIsFirst'
    <3>. SUFFICES ASSUME NEW x \in event', x.label # NoLabel
                  PROVE  \E o \in event' : /\ o.label = x.label
                                           /\ FirstNext(o)
                                           /\ x.original_occurred_at = o.occurred_at
                                           /\ x.original_created_by = o.created_by
      BY DEF OriginalIsFirst, Labelled, IsFirst
    <3>1. CASE x \in event
      <4>1. PICK o \in event : /\ o.label = x.label /\ IsFirst(o)
                               /\ x.original_occurred_at = o.occurred_at
                               /\ x.original_created_by = o.created_by
        BY <3>1 DEF OriginalInv, OriginalIsFirst, Labelled
      <4>. QED  BY <4>1, <2>1, <2>5
    <3>2. CASE x = n /\ r.original = NoRow
      <4>1. \A s \in event : s.label # l
        BY <3>2, <2>2, <2>3, <2>4, NoRowIsNoRow
      <4>2. FirstNext(n)
        BY <4>1, <2>1, <2>3 DEF IsFirst
      <4>. QED  BY <4>2, <3>2, <2>1, <2>3
    <3>3. CASE x = n /\ r.original # NoRow
      <4>1. r.original \in event /\ r.original.label = l /\ IsFirst(r.original)
        BY <3>3, <2>3, <2>4
      <4>2. FirstNext(r.original)
        BY <4>1, <2>3, <2>5, <3>3
      <4>. QED  BY <4>1, <4>2, <3>3, <2>1, <2>3
    <3>. QED  BY <3>1, <3>2, <3>3, <2>1
  <2>7. \A k \in Handlers : pc'[k] = "locked" =>
           k # h /\ pc[k] = "locked" /\ req'[k] = req[k] /\ req[k].request.label # l
    BY <2>1, <1>0 DEF OriginalInv, LockExclusive, TypeOK, l
  <2>8. LockExclusive'
    BY <2>7 DEF OriginalInv, LockExclusive
  <2>9. SelectedIsCurrent'
    <3>. SUFFICES ASSUME NEW k \in Handlers, pc'[k] = "locked",
                         req[k].request.label # NoLabel
                  PROVE  \/ /\ req[k].original = NoRow
                            /\ \A s \in event' : s.label # req[k].request.label
                         \/ /\ req[k].original \in event'
                            /\ req[k].original.label = req[k].request.label
                            /\ FirstNext(req[k].original)
      BY <2>7 DEF SelectedIsCurrent, IsFirst
    <3>1. pc[k] = "locked" /\ req[k].request.label # l
      BY <2>7
    <3>2. CASE req[k].original = NoRow /\ \A s \in event : s.label # req[k].request.label
      BY <3>1, <3>2, <2>1, <2>3
    <3>3. CASE /\ req[k].original \in event
               /\ req[k].original.label = req[k].request.label
               /\ IsFirst(req[k].original)
      BY <3>3, <2>1, <2>5
    <3>. QED  BY <3>1, <3>2, <3>3 DEF OriginalInv, SelectedIsCurrent
  <2>. QED  BY <2>6, <2>8, <2>9
<1>8. CASE Vacuum
  BY <1>8 DEF Vacuum
<1>9. CASE Replicate \/ Tick
  BY <1>9, QuietStep DEF Replicate, Tick
<1>. QED
  BY <1>2, <1>3, <1>4, <1>5, <1>6, <1>7, <1>8, <1>9 DEF Next, Create

LEMMA InitOriginal == Init => OriginalInv
  BY DEF Init, OriginalInv, TypeOK, OriginalIsFirst, LockExclusive, SelectedIsCurrent, Labelled

\* In a room whose history is preserved, all versions of a label name the same
\* original event, whatever the number of concurrent event.create requests: the
\* advisory lock and the GREATEST of the trigger are enough.
THEOREM OriginalNeverChanges ==
  ASSUME PreserveHistory PROVE Spec => []OneOriginalPerLabel
<1>1. OriginalInv => OneOriginalPerLabel
  BY OriginalImpliesOne DEF OriginalInv
<1>2. OriginalInv /\ [Next]_vars => OriginalInv'
  BY OriginalStep
<1>. QED  BY <1>1, <1>2, InitOriginal, PTL DEF Spec

-----------------------------------------------------------------------------
(* Every event has its own time, before the present. *)

LEMMA StampTypes ==
  ASSUME TypeOK
  PROVE  /\ \A r \in event : r.occurred_at \in Nat /\ r.original_occurred_at \in Nat
         /\ \A h \in Handlers : Stamped(h) => req[h].occurred_at \in Nat
         /\ \A h \in Handlers : (pc[h] = "locked" /\ req[h].original # NoRow) =>
               req[h].original.occurred_at \in Nat
<1>1. \A r \in event : r.occurred_at \in Nat /\ r.original_occurred_at \in Nat
  BY DEF TypeOK, Row
<1>2. \A h \in Handlers : Stamped(h) => req[h].occurred_at \in Nat
  BY BusyHasState DEF Stamped, HandlerState
<1>3. \A h \in Handlers : (pc[h] = "locked" /\ req[h].original # NoRow) =>
         req[h].original.occurred_at \in Nat
  BY BusyHasState DEF HandlerState, Row
<1>. QED  BY <1>1, <1>2, <1>3

\* A step that stores nothing, stamps nothing and selects no original.
LEMMA QuietStampStep ==
  ASSUME TypeOK, TypeOK', StampInv, event' \subseteq event,
         clock <= clock', clock' <= MaxClock,
         \A h \in Handlers : Stamped(h)' => Stamped(h) /\ req'[h].occurred_at = req[h].occurred_at,
         \A h \in Handlers : pc'[h] = "locked" => pc[h] = "locked" /\ req'[h].original = req[h].original
  PROVE  StampInv'
<1>. USE DEF StampInv
<1>1. IsFiniteSet(event')
  BY FS_Subset
<1>2. StampsDistinct'
  BY DEF StampsDistinct
<1>3. StampsPast'
  BY StampTypes DEF StampsPast, TypeOK
<1>. QED  BY <1>1, <1>2, <1>3

LEMMA AuthorizeStampStep ==
  ASSUME TypeOK, StampInv, NEW h \in Handlers, Authorize(h)
  PROVE  StampInv'
<1>. USE DEF StampInv
<1>1. /\ clock \in Nat /\ clock' = clock + 1 /\ clock < MaxClock /\ event' = event
      /\ req'[h].occurred_at = clock /\ ~Stamped(h) /\ pc'[h] = "stamped"
      /\ \A k \in Handlers \ {h} : req'[k] = req[k] /\ pc'[k] = pc[k] /\ (Stamped(k)' <=> Stamped(k))
  <2>1. req[h] \in HandlerState
    BY BusyHasState DEF Authorize
  <2>. QED  BY <2>1 DEF Authorize, Stamped, TypeOK, HandlerState
<1>2. StampsDistinct'
  BY <1>1, StampTypes DEF StampsDistinct, StampsPast
<1>3. StampsPast'
  BY <1>1, StampTypes, EventStoreAssumption DEF StampsPast
<1>. QED  BY <1>1, <1>2, <1>3

LEMMA SelectStampStep ==
  ASSUME TypeOK, StampInv, NEW h \in Handlers, SelectOriginal(h)
  PROVE  StampInv'
<1>. USE DEF StampInv
<1>1. PICK o \in event \cup {NoRow} : req' = [req EXCEPT ![h].original = o]
  BY DEF SelectOriginal, Versions, EarliestCreated
<1>2. req[h] \in HandlerState
  BY BusyHasState DEF SelectOriginal
<1>3. /\ UNCHANGED <<clock, event>> /\ req'[h].original = o
      /\ \A k \in Handlers : req'[k].occurred_at = req[k].occurred_at /\ (Stamped(k)' <=> Stamped(k))
      /\ \A k \in Handlers \ {h} : req'[k] = req[k] /\ pc'[k] = pc[k]
  BY <1>1, <1>2 DEF SelectOriginal, Stamped, TypeOK, HandlerState
<1>4. StampsDistinct'
  BY <1>3 DEF StampsDistinct
<1>5. StampsPast'
  BY <1>3 DEF StampsPast
<1>. QED  BY <1>3, <1>4, <1>5

LEMMA CommitStampStep ==
  ASSUME TypeOK, StampInv, NEW h \in Handlers, CommitInsert(h)
  PROVE  StampInv'
<1>. USE DEF StampInv
<1> DEFINE n == NewRow(nextId, req[h])
<1>1. /\ clock \in Nat /\ clock' = clock /\ event' = event \cup {n} /\ pc[h] = "locked"
      /\ Stamped(h) /\ ~Stamped(h)' /\ pc'[h] = "idle"
      /\ \A k \in Handlers \ {h} : req'[k] = req[k] /\ pc'[k] = pc[k] /\ (Stamped(k)' <=> Stamped(k))
  BY DEF CommitInsert, Finish, Stamped, TypeOK
<1>2. /\ n.occurred_at = req[h].occurred_at
      /\ \/ n.original_occurred_at = req[h].occurred_at
         \/ req[h].original # NoRow /\ n.original_occurred_at = req[h].original.occurred_at
  BY DEF NewRow
<1>. HIDE DEF n
<1>3. StampsDistinct'
  BY <1>1, <1>2 DEF StampsDistinct
<1>4. StampsPast'
  BY <1>1, <1>2 DEF StampsPast
<1>. QED  BY <1>1, <1>3, <1>4, FS_AddElement

LEMMA StampStep ==
  ASSUME TypeOK, StampInv, [Next]_vars PROVE StampInv'
<1>0. TypeOK /\ TypeOK' /\ clock \in Nat /\ clock <= MaxClock
  BY TypeStep DEF TypeOK, StampInv, StampsPast
<1>. USE <1>0
<1>1. CASE UNCHANGED vars
  BY <1>1, QuietStampStep DEF vars, Stamped
<1>2. ASSUME NEW h \in Handlers, Authorize(h) PROVE StampInv'
  BY <1>2, AuthorizeStampStep
<1>3. ASSUME NEW h \in Handlers, SelectOriginal(h) PROVE StampInv'
  BY <1>3, SelectStampStep
<1>4. ASSUME NEW h \in Handlers, CommitInsert(h) PROVE StampInv'
  BY <1>4, CommitStampStep
<1>5. ASSUME NEW h \in Handlers, NEW q \in Requests, FindAuthor(h, q) PROVE StampInv'
  <2>1. \A k \in Handlers : Stamped(k)' => Stamped(k) /\ pc'[k] = pc[k] /\ req'[k] = req[k]
    BY <1>5 DEF FindAuthor, Stamped, TypeOK
  <2>. QED  BY <1>5, <2>1, QuietStampStep DEF FindAuthor, Stamped
<1>6. ASSUME NEW h \in Handlers, Refuse(h) \/ CreateTransient(h) \/ AbortInsert(h) PROVE StampInv'
  <2>1. \A k \in Handlers : Stamped(k)' => Stamped(k) /\ pc'[k] = pc[k] /\ req'[k] = req[k]
    BY <1>6 DEF Refuse, CreateTransient, AbortInsert, Finish, Stamped, TypeOK
  <2>. QED  BY <1>6, <2>1, QuietStampStep DEF Refuse, CreateTransient, AbortInsert, Stamped
<1>7. ASSUME NEW h \in Handlers, BeginInsert(h) PROVE StampInv'
  <2>1. req[h] \in HandlerState
    BY <1>7, BusyHasState DEF BeginInsert
  <2>2. \A k \in Handlers :
           /\ Stamped(k)' => Stamped(k) /\ req'[k].occurred_at = req[k].occurred_at
           /\ pc'[k] = "locked" => pc[k] = "locked" /\ req'[k].original = req[k].original
    BY <1>7, <2>1 DEF BeginInsert, Stamped, TypeOK, HandlerState
  <2>. QED  BY <1>7, <2>2, QuietStampStep DEF BeginInsert
<1>8. CASE Vacuum \/ Replicate
  BY <1>8, QuietStampStep DEF Vacuum, Replicate, Stamped
<1>9. CASE Tick
  BY <1>9, QuietStampStep, EventStoreAssumption DEF Tick, Stamped
<1>. QED
  BY <1>1, <1>2, <1>3, <1>4, <1>5, <1>6, <1>7, <1>8, <1>9 DEF Next, Create

LEMMA InitStamps == Init => StampInv
  BY FS_EmptySet, EventStoreAssumption
  DEF Init, StampInv, StampsDistinct, StampsPast, Stamped

LEMMA StampCorrect == Spec => []StampInv
<1>1. Init => TypeOK
  BY DEF Init, TypeOK
<1>2. TypeOK /\ StampInv /\ [Next]_vars => TypeOK' /\ StampInv'
  BY TypeStep, StampStep
<1>. QED  BY <1>1, <1>2, InitStamps, PTL DEF Spec

-----------------------------------------------------------------------------
(* The latest version of a label, in every room. *)

\* The first row of a window that orders by occurred_at, latest first.
LEMMA OrdinalOne ==
  ASSUME NEW rows, IsFiniteSet(rows), NEW r
  PROVE  ReverseOrdinal(rows, r) = 1
           <=> \A s \in rows : s.label = r.label => ~(s.occurred_at > r.occurred_at)
<1> DEFINE Later == {s \in rows : s.label = r.label /\ s.occurred_at > r.occurred_at}
<1>1. IsFiniteSet(Later)
  BY FS_Subset
<1>2. Cardinality(Later) \in Nat /\ (Cardinality(Later) = 0 <=> Later = {})
  BY <1>1, FS_CardinalityType, FS_EmptySet
<1>3. ReverseOrdinal(rows, r) = 1 + Cardinality(Later)
  BY DEF ReverseOrdinal
<1>4. Later = {} <=> \A s \in rows : s.label = r.label => ~(s.occurred_at > r.occurred_at)
  OBVIOUS
<1>. HIDE DEF Later
<1>. QED  BY <1>2, <1>3, <1>4

\* Asked for the present, without a page bound, every row is visible.
LEMMA AllVisible ==
  ASSUME TypeOK, StampInv, NEW rows \in SUBSET event
  PROVE  Visible(rows, MaxClock + 1, MaxClock + 1) = rows
<1>1. \A r \in rows : r.original_occurred_at < MaxClock + 1 /\ r.occurred_at < MaxClock + 1
  BY StampTypes, EventStoreAssumption DEF StampInv, StampsPast, TypeOK
<1>. QED  BY <1>1 DEF Visible

LEMMA StampsHideRemoved == TypeOK /\ StampInv => RemovedLabelHidden
<1>. SUFFICES ASSUME TypeOK, StampInv, NEW r \in Labelled, IsLatest(r), r.removed,
                     \A s \in Labelled : s.label = r.label =>
                        s.original_occurred_at = r.original_occurred_at,
                     NEW s \in StateRows(event, MaxClock + 1, MaxClock + 1), s.label = r.label
              PROVE  FALSE
  BY DEF RemovedLabelHidden
<1>1. s \in DistinctOn(event) /\ ~s.removed
  BY AllVisible DEF StateRows
<1>2. s \in event /\ r \in event /\ s \in Labelled
  BY <1>1 DEF DistinctOn, Labelled
<1>3. r.occurred_at <= s.occurred_at /\ s.occurred_at <= r.occurred_at
  BY <1>1, <1>2 DEF DistinctOn, IsLatest
<1>4. r = s
  BY <1>2, <1>3, StampTypes DEF StampInv, StampsDistinct
<1>. QED  BY <1>1, <1>4

\* A label whose latest version is a removal is not in the state that state.read
\* shows, in every room, with or without vacuum, as long as its versions name one
\* original: for any number of racing requests, labels and versions.
THEOREM RemovedStaysHidden == Spec => []RemovedLabelHidden
  BY TypeCorrect, StampCorrect, StampsHideRemoved, PTL

\* The rows that system.vacuum deletes are not the latest version of a label, or
\* mark the label as deleted.
LEMMA VacuumStep ==
  ASSUME MaxHistorySize # 0, TypeOK, StampInv, Vacuum,
         NEW r \in Labelled, IsLatest(r), r \notin event'
  PROVE  r.attribute = "deleted"
<1>1. r \in event /\ r.label # NoLabel /\ IsFiniteSet(event)
  BY DEF Labelled, StampInv
<1>2. ReverseOrdinal(event, r) = 1
  <2>1. \A s \in event : s.label = r.label => ~(s.occurred_at > r.occurred_at)
    BY <1>1, StampTypes DEF IsLatest
  <2>. QED  BY <1>1, <2>1, OrdinalOne
<1>3. ~TooDeep(r) /\ ~TooOld(r)
  BY <1>2, EventStoreAssumption DEF TooDeep, TooOld
<1>4. OfDeletedLabel(r)
  BY <1>1, <1>3 DEF Vacuum
<1>5. PICK s \in event : /\ s.label = r.label /\ ReverseOrdinal(event, s) = 1
                         /\ s.attribute = "deleted"
  BY <1>4 DEF OfDeletedLabel, Versions
<1>6. ~(r.occurred_at > s.occurred_at)
  BY <1>1, <1>5, OrdinalOne
<1>7. s.occurred_at <= r.occurred_at
  BY <1>5 DEF IsLatest
<1>8. r = s
  BY <1>1, <1>5, <1>6, <1>7, StampTypes DEF StampInv, StampsDistinct
<1>. QED  BY <1>5, <1>8

\* Vacuum drops history, not content: as long as it is configured to keep at least
\* one version, no step takes the latest version of a label out of the table
\* unless that version marks the label as deleted.
THEOREM LatestIsAlwaysKept ==
  ASSUME MaxHistorySize # 0 PROVE Spec => VacuumKeepsLatest
<1>1. TypeOK /\ StampInv /\ [Next]_vars =>
        [\A r \in Labelled : (IsLatest(r) /\ r \notin event') => r.attribute = "deleted"]_vars
  <2>. SUFFICES ASSUME TypeOK, StampInv, Next, NEW r \in Labelled, IsLatest(r), r \notin event'
                PROVE  r.attribute = "deleted"
    OBVIOUS
  <2>1. CASE Vacuum
    BY <2>1, VacuumStep
  <2>2. CASE ~Vacuum
    <3>1. event \subseteq event'
      BY <2>2 DEF Next, Create, FindAuthor, Authorize, Refuse, CreateTransient, BeginInsert,
                  SelectOriginal, CommitInsert, AbortInsert, Replicate, Tick
    <3>. QED  BY <3>1 DEF Labelled
  <2>. QED  BY <2>1, <2>2
<1>. QED  BY <1>1, TypeCorrect, StampCorrect, PTL DEF Spec, VacuumKeepsLatest

-----------------------------------------------------------------------------
(* The state of a set in which every label is one item: the queries of      *)
(* SetState over any such set of rows.                                      *)

LEMMA LeastNatural ==
  ASSUME NEW T \in SUBSET Nat, T # {}
  PROVE  \E x \in T : \A y \in T : x <= y
<1>1. PICK x \in T : \A y \in T : ~(<<y, x>> \in OpToRel(<, Nat))
  BY NatLessThanWellFounded, WFMin, Zenon
<1>2. \A y \in T : <<y, x>> \in OpToRel(<, Nat) <=> y < x
  BY DEF OpToRel
<1>3. \A y \in T : ~(y < x)
  BY <1>1, <1>2, Zenon
<1>. QED  BY <1>3

\* Finitely many rows with times of their own, and an original for each label.
OneItemPerLabel(rows) ==
  /\ IsFiniteSet(rows)
  /\ \A r \in rows : r.occurred_at \in Nat /\ r.original_occurred_at \in Nat
  /\ \A r, s \in rows : r.occurred_at = s.occurred_at => r = s
  /\ \A r, s \in rows : r.label = s.label <=> r.original_occurred_at = s.original_occurred_at

\* DISTINCT ON leaves the latest visible version of a label.
LEMMA DistinctOnIsLatest ==
  ASSUME NEW rows, OneItemPerLabel(rows), NEW bound, NEW at,
         NEW r \in DistinctOn(Visible(rows, bound, at)),
         NEW s \in Visible(rows, bound, at), s.label = r.label
  PROVE  s.occurred_at <= r.occurred_at
  BY DEF OneItemPerLabel, DistinctOn, Visible

LEMMA ItemsDistinct ==
  ASSUME NEW rows, OneItemPerLabel(rows), NEW bound, NEW at,
         NEW r \in DistinctOn(Visible(rows, bound, at)),
         NEW s \in DistinctOn(Visible(rows, bound, at)), s.label = r.label
  PROVE  r = s
<1>1. r \in Visible(rows, bound, at) /\ s \in Visible(rows, bound, at)
  BY DEF DistinctOn
<1>2. r.occurred_at <= s.occurred_at /\ s.occurred_at <= r.occurred_at
  BY <1>1, DistinctOnIsLatest
<1>. QED  BY <1>1, <1>2 DEF OneItemPerLabel, Visible

\* bool_or(removed) over the versions from r on is r.removed.
LEMMA WindowIsRow ==
  ASSUME NEW rows, OneItemPerLabel(rows), NEW bound, NEW at,
         NEW r \in DistinctOn(Visible(rows, bound, at))
  PROVE  /\ RemovedWindowed(Visible(rows, bound, at), r) <=> r.removed
         /\ ReverseOrdinal(Visible(rows, bound, at), r) = 1
<1> DEFINE V == Visible(rows, bound, at)
<1>1. r \in V /\ V \in SUBSET rows /\ IsFiniteSet(V)
  BY FS_Subset DEF DistinctOn, Visible, OneItemPerLabel
<1>2. \A s \in V : s.label = r.label => s.occurred_at <= r.occurred_at
  BY DistinctOnIsLatest
<1>3. \A s \in V : s.occurred_at \in Nat
  BY <1>1 DEF OneItemPerLabel
<1>. HIDE DEF V
<1>4. \A s \in V : (s.label = r.label /\ s.occurred_at >= r.occurred_at) => s = r
  BY <1>1, <1>2, <1>3 DEF OneItemPerLabel
<1>5. RemovedWindowed(V, r) <=> r.removed
  BY <1>1, <1>3, <1>4 DEF RemovedWindowed
<1>6. ReverseOrdinal(V, r) = 1
  <2>1. \A s \in V : s.label = r.label => ~(s.occurred_at > r.occurred_at)
    BY <1>1, <1>2, <1>3
  <2>. QED  BY <1>1, <2>1, OrdinalOne
<1>. QED  BY <1>5, <1>6 DEF V

\* The counts are the numbers of items.
LEMMA CountIsItems ==
  ASSUME NEW rows, OneItemPerLabel(rows), NEW bound, NEW at
  PROVE  TotalCount(rows, bound, at) = Cardinality(StateRows(rows, bound, at))
<1> DEFINE V == Visible(rows, bound, at)
<1>1. {r \in DistinctOn(V) : ~RemovedWindowed(V, r)} = {r \in DistinctOn(V) : ~r.removed}
  BY WindowIsRow
<1>. QED  BY <1>1 DEF TotalCount, StateRows

LEMMA CountByAttributeIsItems ==
  ASSUME NEW rows, OneItemPerLabel(rows), NEW bound, NEW at, NEW a
  PROVE  TotalCountByAttribute(rows, bound, at, a)
           = Cardinality(StateRowsByAttribute(rows, bound, at, a))
<1> DEFINE V == Visible(rows, bound, at)
<1>1. {r \in DistinctOn(V) : ~RemovedWindowed(V, r) /\ r.attribute = a}
        = {r \in DistinctOn(V) : ReverseOrdinal(V, r) = 1 /\ r.attribute = a /\ ~r.removed}
  BY WindowIsRow
<1>. QED  BY <1>1 DEF TotalCountByAttribute, StateRowsByAttribute

\* A lower bound leaves out the items from it on, and no versions of the others.
LEMMA LowerBoundIsSuffix ==
  ASSUME NEW rows, OneItemPerLabel(rows), NEW bound \in Nat, NEW c \in Nat, c <= bound, NEW at
  PROVE  StateRows(rows, c, at) = {r \in StateRows(rows, bound, at) : r.original_occurred_at < c}
<1>1. Visible(rows, c, at) = {r \in Visible(rows, bound, at) : r.original_occurred_at < c}
  BY DEF Visible, OneItemPerLabel
<1>2. DistinctOn(Visible(rows, c, at))
        = {r \in DistinctOn(Visible(rows, bound, at)) : r.original_occurred_at < c}
  BY <1>1 DEF DistinctOn
<1>. QED  BY <1>2 DEF StateRows

-----------------------------------------------------------------------------
(* Pages of a finite set of items, each with an original time of its own. *)

Items(S) ==
  /\ IsFiniteSet(S)
  /\ \A r \in S : r.original_occurred_at \in Nat
  /\ \A r, s \in S : r.original_occurred_at = s.original_occurred_at => r = s

\* The items before r in the order of a page, and how many they are.
Above(S, r) == {s \in S : s.original_occurred_at > r.original_occurred_at}

LEMMA AboveFacts ==
  ASSUME NEW S, Items(S), NEW r \in S
  PROVE  /\ IsFiniteSet(Above(S, r)) /\ Cardinality(Above(S, r)) \in Nat
         /\ Cardinality(S) \in Nat
         /\ Cardinality(Above(S, r)) < Cardinality(S)
         /\ \A s \in S : s.original_occurred_at >= r.original_occurred_at =>
               Cardinality(Above(S, s)) <= Cardinality(Above(S, r))
<1>1. Above(S, r) \in SUBSET S /\ r \notin Above(S, r) /\ Above(S, r) # S
  BY DEF Above, Items
<1>2. /\ IsFiniteSet(S) /\ IsFiniteSet(Above(S, r)) /\ Cardinality(S) \in Nat
      /\ Cardinality(Above(S, r)) \in Nat
  BY <1>1, FS_Subset, FS_CardinalityType DEF Items
<1>3. Cardinality(Above(S, r)) <= Cardinality(S) /\ Cardinality(Above(S, r)) # Cardinality(S)
  BY <1>1, <1>2, FS_Subset
<1>4. ASSUME NEW s \in S, s.original_occurred_at >= r.original_occurred_at
      PROVE  Cardinality(Above(S, s)) <= Cardinality(Above(S, r))
  <2>1. Above(S, s) \in SUBSET Above(S, r)
    BY <1>4 DEF Above, Items
  <2>. QED  BY <1>2, <2>1, FS_Subset
<1>. QED  BY <1>2, <1>3, <1>4

\* LIMIT cuts nothing off exactly when there are at most that many items.
LEMMA PageIsAll ==
  ASSUME NEW S, Items(S), S # {}, NEW limit \in Nat
  PROVE  FirstRows(S, limit) = S <=> Cardinality(S) <= limit
<1>0. /\ FirstRows(S, limit) = {r \in S : Cardinality(Above(S, r)) < limit}
      /\ IsFiniteSet(S) /\ Cardinality(S) \in Nat
  BY FS_CardinalityType DEF FirstRows, Above, Items
<1>1. ASSUME Cardinality(S) <= limit PROVE FirstRows(S, limit) = S
  BY <1>0, <1>1, AboveFacts
<1>2. ASSUME FirstRows(S, limit) = S PROVE Cardinality(S) <= limit
  <2>1. PICK r \in S : \A s \in S : r.original_occurred_at <= s.original_occurred_at
    <3> DEFINE T == {s.original_occurred_at : s \in S}
    <3>1. T \in SUBSET Nat /\ T # {}
      BY DEF Items
    <3>2. PICK x \in T : \A y \in T : x <= y
      BY <3>1, LeastNatural
    <3>. QED  BY <3>2
  <2>2. S = Above(S, r) \cup {r} /\ r \notin Above(S, r)
    BY <2>1 DEF Above, Items
  <2>3. Cardinality(S) = Cardinality(Above(S, r)) + 1
    BY <2>2, AboveFacts, FS_AddElement
  <2>4. Cardinality(Above(S, r)) < limit /\ Cardinality(Above(S, r)) \in Nat
    BY <1>0, <1>2, AboveFacts
  <2>. QED  BY <2>3, <2>4
<1>. QED  BY <1>1, <1>2

LEMMA PageNotEmpty ==
  ASSUME NEW S, Items(S), S # {}, NEW limit \in Nat \ {0}
  PROVE  FirstRows(S, limit) # {}
<1> DEFINE T == {Cardinality(Above(S, r)) : r \in S}
<1>1. T \in SUBSET Nat /\ T # {}
  BY AboveFacts
<1>2. PICK x \in T : \A y \in T : x <= y
  BY <1>1, LeastNatural
<1>3. PICK r \in S : \A s \in S : Cardinality(Above(S, r)) <= Cardinality(Above(S, s))
  BY <1>2
<1>4. Above(S, r) = {}
  <2>. SUFFICES ASSUME NEW s \in Above(S, r) PROVE FALSE
    OBVIOUS
  <2>1. s \in S /\ s \notin Above(S, s) /\ Above(S, s) \in SUBSET Above(S, r)
    BY DEF Above, Items
  <2>2. Cardinality(Above(S, s)) # Cardinality(Above(S, r))
    BY <2>1, AboveFacts, FS_Subset
  <2>3. Cardinality(Above(S, s)) <= Cardinality(Above(S, r))
    BY <2>1, AboveFacts, FS_Subset
  <2>. QED  BY <1>3, <2>1, <2>2, <2>3, AboveFacts
<1>5. Cardinality(Above(S, r)) < limit
  BY <1>4, FS_EmptySet
<1>. QED  BY <1>5 DEF FirstRows, Above

\* The page has everything from its last item's time on.
LEMMA PageReachesBound ==
  ASSUME NEW S, Items(S), NEW limit \in Nat, FirstRows(S, limit) # {}
  PROVE  LET page == FirstRows(S, limit) IN
         /\ \E p \in page : NextBound(page) = p.original_occurred_at
         /\ \A r \in S : r.original_occurred_at >= NextBound(page) <=> r \in page
<1> DEFINE page == FirstRows(S, limit)
           T == {r.original_occurred_at : r \in page}
           b == NextBound(page)
<1>1. page = {r \in S : Cardinality(Above(S, r)) < limit}
  BY DEF FirstRows, Above
<1>2. T \in SUBSET Nat /\ T # {}
  BY <1>1 DEF Items
<1>3. PICK x \in T : \A y \in T : x <= y
  BY <1>2, LeastNatural
<1>4. b \in T /\ \A r \in page : b <= r.original_occurred_at
  BY <1>3 DEF NextBound
<1>5. PICK p \in page : b = p.original_occurred_at
  BY <1>4
<1>6. ASSUME NEW r \in S, r.original_occurred_at >= b PROVE r \in page
  <2>1. p \in S /\ Cardinality(Above(S, p)) < limit
    BY <1>1, <1>5
  <2>2. Cardinality(Above(S, r)) <= Cardinality(Above(S, p))
    BY <1>5, <1>6, <2>1, AboveFacts
  <2>3. Cardinality(Above(S, r)) < limit
    BY <2>1, <2>2, <1>6, AboveFacts
  <2>. QED  BY <1>1, <1>6, <2>3
<1>7. ASSUME NEW r \in S, r \in page PROVE r.original_occurred_at >= b
  BY <1>2, <1>4, <1>7
<1>. QED  BY <1>5, <1>6, <1>7

-----------------------------------------------------------------------------
(* The state of a room whose history is preserved. *)

LEMMA LabelledOneItem ==
  ASSUME OriginalInv, StampInv PROVE OneItemPerLabel(Labelled)
<1>. USE DEF OriginalInv
<1>1. IsFiniteSet(Labelled) /\ Labelled \subseteq event
  BY FS_Subset DEF Labelled, StampInv
<1>2. \A r \in Labelled : r.occurred_at \in Nat /\ r.original_occurred_at \in Nat
  BY <1>1, StampTypes
<1>3. \A r, s \in Labelled : r.occurred_at = s.occurred_at => r = s
  BY <1>1 DEF StampInv, StampsDistinct
<1>4. \A r, s \in Labelled : r.label = s.label => r.original_occurred_at = s.original_occurred_at
  BY OriginalImpliesOne DEF OneOriginalPerLabel
<1>5. ASSUME NEW r \in Labelled, NEW s \in Labelled,
             r.original_occurred_at = s.original_occurred_at
      PROVE  r.label = s.label
  <2>1. PICK o \in event : o.label = r.label /\ r.original_occurred_at = o.occurred_at
    BY DEF OriginalIsFirst
  <2>2. PICK p \in event : p.label = s.label /\ s.original_occurred_at = p.occurred_at
    BY DEF OriginalIsFirst
  <2>3. o = p
    BY <1>5, <2>1, <2>2 DEF StampInv, StampsDistinct
  <2>. QED  BY <2>1, <2>2, <2>3
<1>. QED  BY <1>1, <1>2, <1>3, <1>4, <1>5 DEF OneItemPerLabel

LEMMA PreservedShowsOnce == OriginalInv /\ StampInv => StateShowsLabelOnce
<1>. SUFFICES ASSUME OriginalInv, StampInv, NEW at \in 0..(MaxClock + 1),
                     NEW r \in StateRows(event, MaxClock + 1, at),
                     NEW s \in StateRows(event, MaxClock + 1, at),
                     r.label = s.label, r.label # NoLabel
              PROVE  r = s
  BY DEF StateShowsLabelOnce
<1>. USE DEF OriginalInv
<1>1. /\ r \in DistinctOn(Visible(event, MaxClock + 1, at))
      /\ s \in DistinctOn(Visible(event, MaxClock + 1, at))
  BY DEF StateRows
<1>2. /\ r \in Visible(event, MaxClock + 1, at) /\ s \in Visible(event, MaxClock + 1, at)
      /\ r \in event /\ s \in event
  BY <1>1 DEF DistinctOn, Visible
<1>3. r.original_occurred_at = s.original_occurred_at
  BY <1>2, OriginalImpliesOne DEF OneOriginalPerLabel, Labelled
<1>4. r.occurred_at <= s.occurred_at /\ s.occurred_at <= r.occurred_at
  BY <1>1, <1>2, <1>3 DEF DistinctOn
<1>. QED  BY <1>2, <1>4, StampTypes DEF StampInv, StampsDistinct

LEMMA PreservedCorrect ==
  ASSUME PreserveHistory PROVE Spec => [](OriginalInv /\ StampInv)
<1>1. OriginalInv /\ [Next]_vars => OriginalInv'
  BY OriginalStep
<1>. QED  BY <1>1, InitOriginal, StampCorrect, PTL DEF Spec

\* In a room whose history is preserved state.read, asked for any moment, shows one
\* version of a label, whatever requests race to write it.
THEOREM StateAlwaysShowsOnce ==
  ASSUME PreserveHistory PROVE Spec => []StateShowsLabelOnce
  BY PreservedCorrect, PreservedShowsOnce, PTL

LEMMA PreservedPaging == OriginalInv /\ StampInv => PagingComplete
<1>. SUFFICES ASSUME OriginalInv, StampInv, NEW bound \in 1..(MaxClock + 1)
              PROVE  LET all == StateRows(Labelled, bound, MaxClock + 1)
                     IN  /\ \A limit \in 1..Cardinality(all) :
                               LET page == Page(Labelled, bound, MaxClock + 1, limit)
                               IN  /\ HasNext(Labelled, bound, MaxClock + 1, limit) <=> page # all
                                   /\ all = page \cup StateRows(Labelled, NextBound(page), MaxClock + 1)
                         /\ \A a \in Attributes :
                               TotalCountByAttribute(Labelled, bound, MaxClock + 1, a)
                                 = Cardinality(StateRowsByAttribute(Labelled, bound, MaxClock + 1, a))
  BY DEF PagingComplete
<1> DEFINE at == MaxClock + 1
           all == StateRows(Labelled, bound, at)
<1>1. OneItemPerLabel(Labelled)
  BY LabelledOneItem
<1>2. all \in SUBSET Labelled /\ \A r \in all : r.original_occurred_at < bound
  BY DEF StateRows, DistinctOn, Visible
<1>3. Items(all)
  <2>1. IsFiniteSet(all)
    BY <1>1, <1>2, FS_Subset DEF OneItemPerLabel
  <2>2. ASSUME NEW r \in all, NEW s \in all, r.original_occurred_at = s.original_occurred_at
        PROVE  r = s
    <3>1. r.label = s.label
      BY <1>1, <1>2, <2>2 DEF OneItemPerLabel
    <3>. QED  BY <1>1, <3>1, ItemsDistinct DEF StateRows
  <2>. QED  BY <1>1, <1>2, <2>1, <2>2 DEF Items, OneItemPerLabel
<1>4. ASSUME NEW limit \in 1..Cardinality(all)
      PROVE  LET page == Page(Labelled, bound, at, limit)
             IN  /\ HasNext(Labelled, bound, at, limit) <=> page # all
                 /\ all = page \cup StateRows(Labelled, NextBound(page), at)
  <2> DEFINE page == FirstRows(all, limit)
             b == NextBound(page)
  <2>0. Page(Labelled, bound, at, limit) = page
    BY DEF Page
  <2>1. limit \in Nat \ {0} /\ Cardinality(all) \in Nat /\ all # {}
    BY <1>3, FS_CardinalityType, FS_EmptySet DEF Items
  <2>2. HasNext(Labelled, bound, at, limit) <=> Cardinality(all) > limit
    BY <1>1, CountIsItems DEF HasNext
  <2>3. page = all <=> Cardinality(all) <= limit
    BY <1>3, <2>1, PageIsAll
  <2>4. page # {} /\ page \subseteq all
    BY <1>3, <2>1, PageNotEmpty DEF FirstRows
  <2>5. /\ \E p \in page : b = p.original_occurred_at
        /\ \A r \in all : r.original_occurred_at >= b <=> r \in page
    BY <1>3, <2>1, <2>4, PageReachesBound
  <2>6. b \in Nat /\ b <= bound /\ bound \in Nat
    BY <1>2, <1>3, <2>4, <2>5, EventStoreAssumption DEF Items
  <2>7. StateRows(Labelled, b, at) = {r \in all : r.original_occurred_at < b}
    BY <1>1, <2>6, LowerBoundIsSuffix
  <2>. HIDE DEF page, b, all
  <2>8. all = page \cup {r \in all : r.original_occurred_at < b}
    BY <1>3, <2>4, <2>5, <2>6 DEF Items
  <2>9. HasNext(Labelled, bound, at, limit) <=> page # all
    BY <2>1, <2>2, <2>3
  <2>. QED  BY <2>0, <2>7, <2>8, <2>9 DEF b, all
<1>5. \A a \in Attributes : TotalCountByAttribute(Labelled, bound, at, a)
                              = Cardinality(StateRowsByAttribute(Labelled, bound, at, a))
  BY <1>1, CountByAttributeIsItems
<1>. QED  BY <1>4, <1>5

\* In a room whose history is preserved a client that follows has_next and pages by
\* original_occurred_at visits every item of a set of labelled events, for any
\* page size and any number of labels and versions, and the count behind has_next
\* is the number of items.
THEOREM PagingAlwaysComplete ==
  ASSUME PreserveHistory PROVE Spec => []PagingComplete
  BY PreservedCorrect, PreservedPaging, PTL

-----------------------------------------------------------------------------
(* A page of event.list, for any number of clients and any page size. *)

\* A page leaves out only rows that come after all it has.
LEMMA PageIsPrefix ==
  ASSUME NEW rows \in SUBSET Row, IsFiniteSet(rows), direction \in {"forward", "backward"},
         NEW r \in rows, NEW p \in FirstPage(rows), ~Before(p.occurred_at, r.occurred_at)
  PROVE  r \in FirstPage(rows)
<1> DEFINE Ahead(x) == {s \in rows : Before(s.occurred_at, x.occurred_at)}
<1>0. p \in rows /\ Cardinality(Ahead(p)) < Limit
  BY DEF FirstPage
<1>1. Ahead(r) \subseteq Ahead(p)
  BY <1>0 DEF Before, Row
<1>2. IsFiniteSet(Ahead(p)) /\ IsFiniteSet(Ahead(r))
  BY FS_Subset
<1>3. Cardinality(Ahead(r)) <= Cardinality(Ahead(p))
  BY <1>1, <1>2, FS_Subset
<1>4. Cardinality(Ahead(r)) \in Nat /\ Cardinality(Ahead(p)) \in Nat
  BY <1>2, FS_CardinalityType
<1>5. Cardinality(Ahead(r)) < Limit
  BY <1>0, <1>3, <1>4, ListAssumption
<1>. QED  BY <1>5 DEF FirstPage

-----------------------------------------------------------------------------
(* The steps. *)

\* A step that stores nothing and stamps nothing.
LEMMA QuietListStep ==
  ASSUME ListInv, TypeOK', StampInv', UNCHANGED listVars, event' \subseteq event, clock' >= clock,
         \A h \in Handlers : Stamped(h)' => Stamped(h) /\ req'[h].occurred_at = req[h].occurred_at
  PROVE  ListInv'
<1>. USE DEF ListInv
<1>1. ListTypeOK'
  <2>2. clock \in Nat /\ clock' \in Nat /\ last' = last /\ seen' = seen /\ direction' = direction
    BY DEF TypeOK, listVars
  <2>3. \A t \in last : t < clock'
    BY <2>2 DEF ListTypeOK
  <2>4. \A r \in seen : r.occurred_at < clock'
    BY <2>2 DEF ListTypeOK, Row
  <2>. QED  BY <2>2, <2>3, <2>4 DEF ListTypeOK
<1>3. \A time : Accounted(time) => Accounted(time)'
  BY DEF Accounted, Before, listVars
<1>4. FlightAccounted' /\ PagesComplete'
  BY <1>3 DEF FlightAccounted, PagesComplete, listVars
<1>. QED  BY <1>1, <1>4

LEMMA AuthorizeListStep ==
  ASSUME ListInv, TypeOK', StampInv', UNCHANGED listVars, NEW h \in Handlers, Authorize(h)
  PROVE  ListInv'
<1>. USE DEF ListInv
<1>0. /\ clock \in Nat /\ clock' = clock + 1 /\ event' = event
      /\ req'[h].occurred_at = clock /\ ~Stamped(h)
      /\ \A k \in Handlers \ {h} : req'[k] = req[k] /\ (Stamped(k)' <=> Stamped(k))
  <2>1. req[h] \in HandlerState
    BY BusyHasState DEF Authorize
  <2>. QED  BY <2>1 DEF Authorize, Stamped, TypeOK, HandlerState
<1>1. ListTypeOK'
  BY <1>0 DEF ListTypeOK, listVars, Row
<1>3. \A time : Accounted(time)' <=> Accounted(time)
  BY DEF Accounted, Before, listVars
<1>4. Accounted(clock)
  BY <1>0 DEF Accounted, Before, ListTypeOK
<1>5. FlightAccounted' /\ PagesComplete'
  BY <1>0, <1>3, <1>4 DEF FlightAccounted, PagesComplete, listVars
<1>. QED  BY <1>1, <1>5

LEMMA CommitListStep ==
  ASSUME ListInv, TypeOK', StampInv', UNCHANGED listVars, NEW h \in Handlers, CommitInsert(h)
  PROVE  ListInv'
<1>. USE DEF ListInv
<1> DEFINE n == NewRow(nextId, req[h])
<1>0. /\ clock \in Nat /\ clock' = clock /\ event' = event \cup {n}
      /\ n.occurred_at = req[h].occurred_at /\ Stamped(h) /\ ~Stamped(h)'
      /\ \A k \in Handlers \ {h} : req'[k] = req[k] /\ (Stamped(k)' <=> Stamped(k))
  BY DEF CommitInsert, Finish, Stamped, TypeOK, NewRow
<1>1. ListTypeOK'
  BY <1>0 DEF ListTypeOK, listVars
<1>3. \A time : Accounted(time)' <=> Accounted(time)
  BY DEF Accounted, Before, listVars
<1>4. FlightAccounted' /\ PagesComplete'
  BY <1>0, <1>3 DEF FlightAccounted, PagesComplete, listVars
<1>. QED  BY <1>1, <1>4

LEMMA ClientStep ==
  ASSUME ~ReadReplica, ListInv, List
  PROVE  ListInv'
<1>. USE DEF ListInv
<1> DEFINE page == FirstPage(Listed(event))
           end == {r.occurred_at : r \in {r \in page :
                     \A s \in page : ~Before(r.occurred_at, s.occurred_at)}}
<1>0. /\ seen' = seen \cup page /\ last' = end /\ direction' = direction
      /\ overtaken' = overtaken \cup {t \in InFlight : \A e \in end : Before(t, e)}
      /\ clock' = clock /\ event' = event /\ pc' = pc /\ req' = req /\ replica' = replica
      /\ nextId' = nextId
  BY DEF List, ReadOnlyEvents, vars
<1>1. page \subseteq Listed(event) /\ Listed(event) \subseteq event /\ event \subseteq Row
  BY DEF FirstPage, Listed, TypeOK
<1>2. IsFiniteSet(Listed(event))
  BY <1>1, FS_Subset DEF StampInv
<1>3. TypeOK'
  BY <1>0 DEF TypeOK
<1>4. StampInv'
  BY <1>0 DEF StampInv, StampsDistinct, StampsPast, Stamped
<1>5. ListTypeOK'
  <2>1. \A r \in page : r \in Row /\ r.occurred_at \in Nat /\ r.occurred_at < clock
    BY <1>1 DEF StampInv, StampsPast, TypeOK, Row
  <2>2. end \subseteq Nat /\ \A e \in end : e < clock
    BY <2>1
  <2>. QED  BY <1>0, <2>1, <2>2 DEF ListTypeOK
<1>6. ASSUME NEW h \in Handlers, Stamped(h) PROVE Accounted(req[h].occurred_at)'
  <2> DEFINE time == req[h].occurred_at
  <2>0. time \in Nat /\ time \in InFlight
    BY <1>6, BusyHasState DEF Stamped, HandlerState, InFlight
  <2>2. \A e \in end : e \in Nat /\ e # time
    BY <1>1, <1>6 DEF StampInv, StampsDistinct, Row
  <2>3. \A e, f \in end : e = f
    BY <1>1 DEF Before, Row
  <2>4. \A e \in end : Before(e, time) \/ Before(time, e)
    BY <2>0, <2>2 DEF Before
  <2>5. \A e \in end : Before(e, time) \/ time \in overtaken'
    BY <1>0, <2>0, <2>3, <2>4
  <2>. QED  BY <1>0, <2>5 DEF Accounted, Before
<1>7. ASSUME NEW r \in event PROVE r \in seen' \/ Accounted(r.occurred_at)'
  <2>0. r.occurred_at \in Nat
    BY <1>1 DEF Row
  <2>1. CASE r \in Listed(event)
    <3>1. SUFFICES ASSUME r \notin page PROVE Accounted(r.occurred_at)'
      BY <1>0
    <3>2. \A p \in page : Before(p.occurred_at, r.occurred_at)
      <4>1. Listed(event) \in SUBSET Row
        BY <1>1
      <4>. QED  BY <1>2, <2>1, <3>1, <4>1, PageIsPrefix DEF ListTypeOK
    <3>3. \A e \in end : Before(e, r.occurred_at)
      BY <3>2
    <3>. QED  BY <1>0, <3>3 DEF Accounted, Before
  <2>2. CASE r \notin Listed(event)
    <3>1. PICK t \in last : ~Before(t, r.occurred_at)
      BY <2>2 DEF Listed
    <3>2. SUFFICES ASSUME r \notin seen, r.occurred_at \notin overtaken
                   PROVE Accounted(r.occurred_at)'
      BY <1>0 DEF Accounted
    <3>3. direction = "backward" /\ \A s \in seen : s.occurred_at < r.occurred_at
      BY <3>1, <3>2 DEF PagesComplete, Accounted
    <3>4. \A s \in page : s.occurred_at < r.occurred_at
      <4>1. \A s \in page : Before(t, s.occurred_at)
        BY <1>1, <3>1 DEF Listed
      <4>2. t \in Nat /\ \A s \in page : s.occurred_at \in Nat
        BY <1>1, <3>1 DEF ListTypeOK, TypeOK, Row
      <4>. QED  BY <2>0, <3>1, <3>3, <4>1, <4>2 DEF Before
    <3>. QED  BY <1>0, <3>3, <3>4 DEF Accounted
  <2>. QED  BY <2>1, <2>2
<1>8. FlightAccounted' /\ PagesComplete'
  BY <1>0, <1>6, <1>7 DEF FlightAccounted, PagesComplete, Stamped
<1>. QED  BY <1>3, <1>4, <1>5, <1>8

-----------------------------------------------------------------------------
LEMMA StoreStep ==
  ASSUME ListInv, [Next]_vars, UNCHANGED listVars
  PROVE  ListInv'
<1>0. TypeOK /\ TypeOK' /\ StampInv' /\ clock \in Nat
  BY TypeStep, StampStep DEF ListInv, TypeOK
<1>. USE <1>0
<1>1. CASE UNCHANGED vars
  BY <1>1, QuietListStep DEF vars, Stamped
<1>2. ASSUME NEW h \in Handlers, Authorize(h) PROVE ListInv'
  BY <1>2, AuthorizeListStep
<1>3. ASSUME NEW h \in Handlers, CommitInsert(h) PROVE ListInv'
  BY <1>3, CommitListStep
<1>4. ASSUME NEW h \in Handlers, NEW q \in Requests, FindAuthor(h, q) PROVE ListInv'
  <2>1. \A k \in Handlers : Stamped(k)' => Stamped(k) /\ req'[k] = req[k]
    BY <1>4 DEF FindAuthor, Stamped, TypeOK
  <2>. QED  BY <1>4, <2>1, QuietListStep DEF FindAuthor
<1>5. ASSUME NEW h \in Handlers, Refuse(h) \/ CreateTransient(h) \/ AbortInsert(h) PROVE ListInv'
  <2>1. \A k \in Handlers : Stamped(k)' => Stamped(k) /\ req'[k] = req[k]
    BY <1>5 DEF Refuse, CreateTransient, AbortInsert, Finish, Stamped, TypeOK
  <2>. QED  BY <1>5, <2>1, QuietListStep DEF Refuse, CreateTransient, AbortInsert
<1>6. ASSUME NEW h \in Handlers, BeginInsert(h) \/ SelectOriginal(h) PROVE ListInv'
  <2>1. pc[h] # "idle" /\ Stamped(h)
    BY <1>6 DEF BeginInsert, SelectOriginal, Stamped
  <2>2. req[h] \in HandlerState
    BY <2>1, BusyHasState
  <2>3. \A k \in Handlers : Stamped(k)' => Stamped(k) /\ req'[k].occurred_at = req[k].occurred_at
    BY <1>6, <2>1, <2>2 DEF BeginInsert, SelectOriginal, Stamped, TypeOK, HandlerState
  <2>. QED  BY <1>6, <2>3, QuietListStep DEF BeginInsert, SelectOriginal
<1>7. CASE Vacuum \/ Replicate \/ Tick
  BY <1>7, QuietListStep DEF Vacuum, Replicate, Tick, Stamped
<1>. QED  BY <1>1, <1>2, <1>3, <1>4, <1>5, <1>6, <1>7 DEF Next, Create

LEMMA InitList == ListInit => ListInv
  BY InitStamps, ListAssumption
  DEF ListInit, Init, ListInv, TypeOK, ListTypeOK, FlightAccounted, PagesComplete, Stamped

\* A client that pages through a room, from either end and with any page size, has
\* every event up to where it is, except those in flight when it read past them, for
\* any number of concurrent event.create requests and whatever vacuum deletes; the
\* events are read from the primary.
THEOREM PagesAlwaysComplete ==
  ASSUME ~ReadReplica PROVE ListSpec => []PagesComplete
<1>1. ListInv /\ [ListNext]_<<vars, listVars>> => ListInv'
  <2>. SUFFICES ASSUME ListInv, [ListNext]_<<vars, listVars>> PROVE ListInv'
    OBVIOUS
  <2>1. CASE List
    BY <2>1, ClientStep
  <2>2. CASE [Next]_vars /\ UNCHANGED listVars
    BY <2>2, StoreStep
  <2>. QED  BY <2>1, <2>2 DEF ListNext
<1>2. ListInv => PagesComplete
  BY DEF ListInv
<1>. QED  BY <1>1, <1>2, InitList, PTL DEF ListSpec
=============================================================================
