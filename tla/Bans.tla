-------------------------------- MODULE Bans --------------------------------
(***************************************************************************)
(* agent.update: one account is banned from, or unbanned in, the rooms of  *)
(* one classroom, and event.create asks whether it is.                     *)
(*                                                                         *)
(* A ban is a row of room_ban, an account_ban event, and an entry of the   *)
(* authorization cache under the classroom; only the first two are written *)
(* in one transaction.  Rooms are numbered in the order of their           *)
(* created_at.                                                             *)
(***************************************************************************)
EXTENDS Integers, Sequences, FiniteSets, FiniteSetsExt

CONSTANTS
  NRooms,    \* rooms of the classroom, created so far or later
  Handlers,  \* slots for agent.update
  Events,    \* slots for the account's event.create requests
  None       \* Option::None

ASSUME BansAssumption == NRooms \in Nat \ {0} /\ None \notin BOOLEAN

Rooms == 1..NRooms

VARIABLES
  time,       \* of each room: to be created, unbounded, bounded or over
  room_ban,   \* the rooms the account has a committed row for
  cache,      \* the entry for the account and the classroom
  lookup,     \* what db_ban_callback has found for each event.create that waits for it
  handler,    \* the state of each agent.update
  last,       \* the latest account_ban event: its room and its value
  stale,      \* history: the lookups that were made before the latest commit
  faults,     \* history: what went wrong since an undisturbed update committed
  admitted    \* history: the account was let in since the latest answer

vars == <<time, room_ban, cache, lookup, handler, last, stale, faults, admitted>>

store == <<room_ban, cache, last>>
lookups == <<lookup, stale>>

Times == {"future", "unbounded", "bounded", "over"}

HandlerState ==
  [pc : {"idle", "found", "written", "committed", "cached"}, room : Rooms,
   value : BOOLEAN, locked : BOOLEAN, alone : BOOLEAN]

Idle == [pc |-> "idle", room |-> 1, value |-> FALSE, locked |-> FALSE, alone |-> TRUE]

Init ==
  /\ \E t \in {"unbounded", "bounded"} : time = [r \in Rooms |-> IF r = 1 THEN t ELSE "future"]
  /\ room_ban = {}
  /\ cache = None
  /\ lookup = [e \in Events |-> None]
  /\ handler = [h \in Handlers |-> Idle]
  /\ last = None
  /\ stale = {}
  /\ faults = {}
  /\ admitted = FALSE

-----------------------------------------------------------------------------
(* Authorization. *)

\* RoomTimeRequirement::Open
IsOpen(r) == time[r] \in {"unbounded", "bounded"}

Unbounded == {r \in Rooms : time[r] = "unbounded"}

\* Faulty variant: the room that was created first.
ClassroomFindOldest == Unbounded # {} /\ Min(Unbounded) \in room_ban

\* ClassroomFindQuery: only the unbounded room that was created last is looked at.
ClassroomFind == Unbounded # {} /\ Max(Unbounded) \in room_ban

\* AuthzObject::new: objects below a classroom's events have a ban key, others none.
to_ban_key(object) ==
  IF Len(object) >= 4 /\ object[1] = "classrooms" /\ object[3] = "events"
  THEN <<object[1], object[2], object[3]>> ELSE <<>>

\* What event.create is authorized for, and what agent.update bans from.
EventObject == <<"classrooms", "classroom_id", "events", "kind", "authors", "account_id">>

BanObject == <<"classrooms", "classroom_id", "events">>

\* db_ban_callback, when it reaches the database.
db_ban_callback(object) == to_ban_key(object) # <<>> /\ ClassroomFind

\* svc-authz: the cache's entry for an object, or None.
Cached(object) == IF to_ban_key(object) = BanObject THEN cache ELSE None

\* event.create of the account in a room, with an entry in the cache: it is let in if
\* the entry says that it is not banned.
AuthorizeEvent(e, r) ==
  /\ lookup[e] = None
  /\ IsOpen(r)
  /\ Cached(EventObject) = FALSE
  /\ admitted' = TRUE
  /\ UNCHANGED <<time, store, lookups, handler, faults>>

\* Without an entry the callback is asked, ...
Ask(e, r, answer) ==
  /\ lookup[e] = None
  /\ IsOpen(r)
  /\ Cached(EventObject) = None
  /\ lookup' = [lookup EXCEPT ![e] = answer]
  /\ UNCHANGED <<time, store, handler, stale, admitted>>

AskCallback(e, r) == Ask(e, r, db_ban_callback(EventObject)) /\ UNCHANGED faults

\* ... which answers false if it cannot reach the database.
AskBlindly(e, r) == Ask(e, r, FALSE) /\ faults' = faults \cup {"authz"}

\* Its answer decides, whatever has been written meanwhile; svc-authz may keep it in the
\* cache.
AnswerCallback(e) ==
  /\ lookup[e] # None
  /\ admitted' = (admitted \/ ~lookup[e])
  /\ cache' \in {cache, lookup[e]}
  /\ lookup' = [lookup EXCEPT ![e] = None]
  /\ faults' = IF e \in stale THEN faults \cup {"lookup"} ELSE faults
  /\ stale' = stale \ {e}
  /\ UNCHANGED <<time, room_ban, handler, last>>

\* The entry lives for ban_duration.
Expire ==
  /\ cache # None
  /\ cache' = None
  /\ UNCHANGED <<time, room_ban, lookups, handler, last, faults, admitted>>

-----------------------------------------------------------------------------
(* agent.update *)

Busy == {h \in Handlers : handler[h].pc # "idle"}

\* The room is found and the tenant agrees.
Find(h, r, value) ==
  /\ handler[h].pc = "idle"
  /\ IsOpen(r)
  /\ handler' = [g \in Handlers |->
       IF g = h THEN [pc |-> "found", room |-> r, value |-> value, locked |-> FALSE,
                      alone |-> Busy = {}]
                ELSE [handler[g] EXCEPT !.alone = @ /\ handler[g].pc = "idle"]]
  /\ faults' = IF Busy = {} THEN faults ELSE faults \cup {"update"}
  /\ UNCHANGED <<time, store, lookups, admitted>>

\* No other transaction has written the row.
RowFree(r) == \A h \in Handlers : ~(handler[h].locked /\ handler[h].room = r)

\* INSERT ... ON CONFLICT DO UPDATE locks the row, new or old; DELETE locks a row that
\* it sees, and does not wait for one that is not committed.
Write(h) ==
  LET r == handler[h].room
      locks == handler[h].value \/ r \in room_ban
  IN /\ handler[h].pc = "found"
     /\ locks => RowFree(r)
     /\ handler' = [handler EXCEPT ![h] = [@ EXCEPT !.pc = "written", !.locked = locks]]
     /\ UNCHANGED <<time, store, lookups, faults, admitted>>

\* insert_account_ban_event, and the transaction takes effect.
TakeEffect(h) ==
  LET r == handler[h].room
      value == handler[h].value
  IN /\ handler[h].pc = "written"
     /\ room_ban' = IF value THEN room_ban \cup {r}
                    ELSE IF handler[h].locked THEN room_ban \ {r} ELSE room_ban
     /\ last' = [room |-> r, value |-> value]
     /\ stale' = {e \in Events : lookup[e] # None}
     /\ UNCHANGED <<time, cache, lookup, admitted>>

Commit(h) ==
  /\ TakeEffect(h)
  /\ handler' = [handler EXCEPT ![h] = [@ EXCEPT !.pc = "committed", !.locked = FALSE]]
  /\ faults' = IF handler[h].alone THEN {} ELSE faults

\* The connection is lost before the commit is acknowledged: an error is answered, and
\* the cache is not written.
CommitButFail(h) ==
  /\ TakeEffect(h)
  /\ handler' = [handler EXCEPT ![h] = Idle]
  /\ faults' = faults \cup {"update"}

\* Faulty variant: the entry always says that the account is banned.
BanCacheTrue(h) ==
  /\ handler[h].pc = "committed"
  /\ cache' = TRUE
  /\ handler' = [handler EXCEPT ![h].pc = "cached"]
  /\ faults' = faults \ {"lookup"}
  /\ UNCHANGED <<time, room_ban, lookups, last, admitted>>

\* authz().ban: the entry is set for the whole classroom, whatever a late lookup left.
BanCache(h) ==
  /\ handler[h].pc = "committed"
  /\ cache' = handler[h].value
  /\ handler' = [handler EXCEPT ![h].pc = "cached"]
  /\ faults' = faults \ {"lookup"}
  /\ UNCHANGED <<time, room_ban, lookups, last, admitted>>

\* A failure is logged, and the request goes on.
FailToCache(h) ==
  /\ handler[h].pc = "committed"
  /\ handler' = [handler EXCEPT ![h].pc = "cached"]
  /\ faults' = faults \cup {"update"}
  /\ UNCHANGED <<time, store, lookups, admitted>>

\* The response, with the notifications to the room and to the tenant.
Respond(h) ==
  /\ handler[h].pc = "cached"
  /\ handler' = [handler EXCEPT ![h] = Idle]
  /\ admitted' = FALSE
  /\ UNCHANGED <<time, store, lookups, faults>>

\* Faulty variant: the row stays locked.
AbortKeepingRow(h) ==
  /\ handler[h].pc \in {"found", "written"}
  /\ handler' = [handler EXCEPT ![h].pc = "idle"]
  /\ UNCHANGED <<time, store, lookups, faults, admitted>>

\* A database error before the commit is answered, and the transaction rolled back.
Abort(h) ==
  /\ handler[h].pc \in {"found", "written"}
  /\ handler' = [handler EXCEPT ![h] = Idle]
  /\ UNCHANGED <<time, store, lookups, faults, admitted>>

\* The process stops.
Crash(h) ==
  /\ handler[h].pc \in {"committed", "cached"}
  /\ handler' = [handler EXCEPT ![h] = Idle]
  /\ faults' = faults \cup {"update"}
  /\ UNCHANGED <<time, store, lookups, admitted>>

Update(h) ==
  Write(h) \/ Commit(h) \/ CommitButFail(h) \/ BanCache(h) \/ FailToCache(h) \/ Respond(h)

-----------------------------------------------------------------------------
\* room.create, and the ways a room's time ends.
SetTime(r, t) ==
  /\ <<time[r], t>> \in {<<"future", "unbounded">>, <<"future", "bounded">>,
       <<"unbounded", "bounded">>, <<"unbounded", "over">>, <<"bounded", "over">>}
  /\ time' = [time EXCEPT ![r] = t]
  /\ faults' = faults \cup {"authz"}
  /\ UNCHANGED <<store, lookups, handler, admitted>>

Next ==
  \/ \E e \in Events, r \in Rooms : AuthorizeEvent(e, r) \/ AskCallback(e, r) \/ AskBlindly(e, r)
  \/ \E e \in Events : AnswerCallback(e)
  \/ Expire
  \/ \E h \in Handlers, r \in Rooms, value \in BOOLEAN : Find(h, r, value)
  \/ \E h \in Handlers : Update(h) \/ Abort(h) \/ Crash(h)
  \/ \E r \in Rooms, t \in Times : SetTime(r, t)

\* A handler is polled until it has answered, and PostgreSQL hands a row lock to those
\* who wait for it in turn.
Fairness == \A h \in Handlers : WF_vars(Update(h)) /\ SF_vars(Write(h))

Spec == Init /\ [][Next]_vars /\ Fairness

-----------------------------------------------------------------------------
TypeOK ==
  /\ time \in [Rooms -> Times]
  /\ room_ban \subseteq Rooms
  /\ cache \in BOOLEAN \cup {None}
  /\ lookup \in [Events -> BOOLEAN \cup {None}]
  /\ handler \in [Handlers -> HandlerState]
  /\ last \in {None} \cup [room : Rooms, value : BOOLEAN]
  /\ stale \subseteq Events
  /\ faults \subseteq {"update", "authz", "lookup"}
  /\ admitted \in BOOLEAN

\* The latest event is about the room that the callback looks at.
Consulted == Unbounded # {} /\ last.room = Max(Unbounded)

\* Whatever earlier updates left behind by overlapping, failing to write the cache or
\* dying: once an update that no other overlapped has been answered, the row and the
\* latest event say the same, and so does the cache, whether agent.update or a lookup
\* has filled it, if the room is the one that lookups look at.  (A lookup that was made
\* before the update's commit and answers after it has written the cache, and one that
\* does not reach the database, may leave the cache wrong.)
BansAgree ==
  (Busy = {} /\ last # None /\ "update" \notin faults) =>
    /\ last.room \in room_ban <=> last.value
    /\ faults = {} /\ Consulted => cache \in {None, last.value}

\* "Bans provided account in a room from creating messages": after the answer to such an
\* update the account is not let into the room before another update, even when the cache
\* entry has expired, if the room is the unbounded one that was created last.
BanEnforced ==
  (Busy = {} /\ last # None /\ faults = {}) => (last.value /\ Consulted => ~admitted)

\* Every agent.update is answered, or dies with its process: waiting for another's row
\* lock ends.
UpdateAnswered == \A h \in Handlers : handler[h].pc # "idle" ~> handler[h].pc = "idle"
=============================================================================
