----------------------------- MODULE BansProofs -----------------------------
(* Proofs about Bans, for any number of rooms and of agent.update requests. *)
EXTENDS Bans, TLAPS

\* What a handler holds: a row only while its transaction is open, everything to
\* itself while no other update has overlapped it.
Holds(h) ==
  /\ handler[h].locked => handler[h].pc = "written"
  /\ handler[h].pc # "idle" /\ handler[h].alone => Busy = {h}
  /\ handler[h].pc # "idle" /\ ~handler[h].alone => "update" \in faults
  /\ handler[h].pc = "written" /\ handler[h].value => handler[h].locked
  /\ handler[h].pc = "written" /\ handler[h].alone /\ ~handler[h].locked
       => handler[h].room \notin room_ban
  /\ handler[h].pc = "committed" /\ handler[h].alone
       => last = [room |-> handler[h].room, value |-> handler[h].value]

\* The row follows the latest event; the cache follows it, or is about to.
Follows ==
  last # None =>
    /\ "update" \notin faults => (last.room \in room_ban <=> last.value)
    /\ faults = {} /\ Consulted =>
         cache \in {None, last.value} \/ \E h \in Handlers : handler[h].pc = "committed"

\* A lookup that reached the database and that no commit has overtaken is right.
LookupsRight ==
  "authz" \notin faults =>
    \A e \in Events : lookup[e] # None /\ e \notin stale => lookup[e] = ClassroomFind

\* Nobody was let in, or the answer to the ban is still to come.
KeptOut ==
  (last # None /\ faults = {} /\ last.value /\ Consulted) =>
    ~admitted \/ \E h \in Handlers : handler[h].pc \in {"committed", "cached"}

IInv == TypeOK /\ (\A h \in Handlers : Holds(h)) /\ Follows /\ LookupsRight /\ KeptOut

\* event.create is refused by the entry that agent.update writes.
LEMMA EventKey == to_ban_key(EventObject) = BanObject /\ BanObject # <<>>
  BY DEF to_ban_key, EventObject, BanObject

\* svc-authz asks the cache about it, and the callback looks at the database.
LEMMA EventLookup ==
  /\ Cached(EventObject) = cache
  /\ db_ban_callback(EventObject) = ClassroomFind
<1>1. Cached(EventObject) = cache
  BY EventKey DEF Cached
<1>2. to_ban_key(EventObject) # <<>>
  BY EventKey, Zenon
<1>3. db_ban_callback(EventObject) <=> ClassroomFind
  BY <1>2, Zenon DEF db_ban_callback
<1>4. ClassroomFind \in BOOLEAN /\ db_ban_callback(EventObject) \in BOOLEAN
  BY Zenon DEF ClassroomFind, db_ban_callback
<1> QED
  BY <1>1, <1>3, <1>4

LEMMA IdleType == Idle \in HandlerState
  BY BansAssumption DEF Idle, HandlerState, Rooms

LEMMA MovedType ==
  ASSUME NEW x \in HandlerState, NEW l \in BOOLEAN,
         NEW p \in {"idle", "found", "written", "committed", "cached"}
  PROVE  [x EXCEPT !.pc = p, !.locked = l] \in HandlerState
  BY DEF HandlerState

\* The initial states satisfy the inductive invariant.
LEMMA InitIInv == Init => IInv
<1> SUFFICES ASSUME Init PROVE IInv
  OBVIOUS
<1>1. time \in [Rooms -> Times]
  BY DEF Init, Times
<1>2. \A h \in Handlers : handler[h] = Idle
  BY DEF Init
<1>3. TypeOK
  BY <1>1, <1>2, IdleType DEF Init, TypeOK
<1>4. ASSUME NEW h \in Handlers PROVE Holds(h)
  BY <1>2 DEF Holds, Idle
<1> QED
  BY <1>3, <1>4 DEF Init, IInv, Follows, KeptOut, LookupsRight

\* Types are preserved.
LEMMA NextTypeOK == TypeOK /\ [Next]_vars => TypeOK'
<1> SUFFICES ASSUME TypeOK, [Next]_vars PROVE TypeOK'
  OBVIOUS
<1> USE DEF TypeOK
<1>1. ASSUME NEW e \in Events, NEW r \in Rooms, AuthorizeEvent(e, r) PROVE TypeOK'
  BY <1>1 DEF AuthorizeEvent, store, lookups
<1>2. ASSUME NEW e \in Events, NEW r \in Rooms, AskCallback(e, r) \/ AskBlindly(e, r) PROVE TypeOK'
  <2>1. PICK answer \in BOOLEAN : Ask(e, r, answer)
    BY <1>2, EventLookup DEF AskCallback, AskBlindly, ClassroomFind
  <2>2. faults' \subseteq {"update", "authz", "lookup"}
    BY <1>2 DEF AskCallback, AskBlindly
  <2> QED
    BY <2>1, <2>2 DEF Ask, store
<1>3. ASSUME NEW e \in Events, AnswerCallback(e) PROVE TypeOK'
  <2>1. lookup[e] \in BOOLEAN /\ lookup' \in [Events -> BOOLEAN \cup {None}]
    BY <1>3 DEF AnswerCallback
  <2>2. admitted' \in BOOLEAN /\ cache' \in BOOLEAN \cup {None}
    BY <1>3, <2>1 DEF AnswerCallback
  <2> QED
    BY <1>3, <2>1, <2>2 DEF AnswerCallback
<1>4. CASE Expire
  BY <1>4 DEF Expire, lookups
<1>5. ASSUME NEW h \in Handlers, NEW r \in Rooms, NEW value \in BOOLEAN, Find(h, r, value)
      PROVE TypeOK'
  <2>1. \A g \in Handlers : handler[g] \in HandlerState
    OBVIOUS
  <2>2. (Busy = {}) \in BOOLEAN
    OBVIOUS
  <2>3. [pc |-> "found", room |-> r, value |-> value, locked |-> FALSE,
         alone |-> Busy = {}] \in HandlerState
    BY <2>2 DEF HandlerState
  <2>4. \A g \in Handlers : [handler[g] EXCEPT !.alone = @ /\ handler[g].pc = "idle"] \in HandlerState
    BY <2>1 DEF HandlerState
  <2>5. handler' \in [Handlers -> HandlerState]
    BY <1>5, <2>3, <2>4 DEF Find
  <2> QED
    BY <1>5, <2>5 DEF Find, store, lookups
<1>6. ASSUME NEW h \in Handlers, Write(h) PROVE TypeOK'
  <2>1. handler' \in [Handlers -> HandlerState]
    <3>1. handler[h] \in HandlerState
      OBVIOUS
    <3>2. (handler[h].value \/ handler[h].room \in room_ban) \in BOOLEAN
      OBVIOUS
    <3> QED
      BY <1>6, <3>1, <3>2, MovedType DEF Write
  <2> QED
    BY <1>6, <2>1 DEF Write, store, lookups
<1>7. ASSUME NEW h \in Handlers, Commit(h) \/ CommitButFail(h) PROVE TypeOK'
  <2>1. handler' \in [Handlers -> HandlerState]
    <3>1. handler[h] \in HandlerState
      OBVIOUS
    <3> QED
      BY <1>7, <3>1, MovedType, IdleType DEF Commit, CommitButFail
  <2>2. TakeEffect(h) /\ faults' \subseteq {"update", "authz", "lookup"}
    BY <1>7 DEF Commit, CommitButFail
  <2>3. room_ban' \subseteq Rooms /\ last' \in [room : Rooms, value : BOOLEAN]
    BY <2>2 DEF TakeEffect, HandlerState
  <2> QED
    BY <2>1, <2>2, <2>3 DEF TakeEffect
<1>8. ASSUME NEW h \in Handlers, BanCache(h) \/ FailToCache(h) PROVE TypeOK'
  <2>1. handler' \in [Handlers -> HandlerState]
    BY <1>8 DEF BanCache, FailToCache, HandlerState
  <2> QED
    BY <1>8, <2>1 DEF BanCache, FailToCache, store, lookups, HandlerState
<1>9. ASSUME NEW h \in Handlers, Respond(h) \/ Abort(h) \/ Crash(h) PROVE TypeOK'
  <2>1. handler' \in [Handlers -> HandlerState]
    BY <1>9, IdleType DEF Respond, Abort, Crash
  <2> QED
    BY <1>9, <2>1 DEF Respond, Abort, Crash, store, lookups
<1>10. ASSUME NEW r \in Rooms, NEW t \in Times, SetTime(r, t) PROVE TypeOK'
  BY <1>10 DEF SetTime, store, lookups
<1>11. CASE UNCHANGED vars
  BY <1>11 DEF vars
<1> QED
  BY <1>1, <1>2, <1>3, <1>4, <1>5, <1>6, <1>7, <1>8, <1>9, <1>10, <1>11 DEF Next, Update

\* While an update is alone, nobody else writes rows or events; one that is not has
\* been noted.
LEMMA NextHolds == IInv /\ [Next]_vars => \A g \in Handlers : Holds(g)'
<1> SUFFICES ASSUME IInv, [Next]_vars, NEW g \in Handlers PROVE Holds(g)'
  OBVIOUS
<1>t. \A h \in Handlers : handler[h] \in HandlerState
  BY DEF IInv, TypeOK
<1>h. \A h \in Handlers : Holds(h)
  BY DEF IInv
<1>d. handler \in [Handlers -> HandlerState]
  BY DEF IInv, TypeOK
<1>1. ASSUME UNCHANGED <<room_ban, handler, last>>, "update" \in faults => "update" \in faults'
      PROVE Holds(g)'
  BY <1>1, <1>h DEF Holds, Busy
<1>2. ASSUME NEW e \in Events, NEW r \in Rooms,
             AuthorizeEvent(e, r) \/ AskCallback(e, r) \/ AskBlindly(e, r)
      PROVE Holds(g)'
  BY <1>1, <1>2 DEF AuthorizeEvent, AskCallback, AskBlindly, Ask, store
<1>10. ASSUME NEW e \in Events, AnswerCallback(e) PROVE Holds(g)'
  BY <1>1, <1>10 DEF AnswerCallback
<1>11. CASE Expire
  BY <1>1, <1>11 DEF Expire
<1>3. ASSUME NEW h \in Handlers, NEW r \in Rooms, NEW value \in BOOLEAN, Find(h, r, value)
      PROVE Holds(g)'
  <2>1. CASE g = h
    <3>1. handler'[g] = [pc |-> "found", room |-> r, value |-> value, locked |-> FALSE,
                         alone |-> Busy = {}]
      BY <1>3, <2>1 DEF Find
    <3>2. Busy = {} => Busy' = {g}
      BY <1>3, <1>t, <2>1 DEF Find, Busy, HandlerState
    <3> QED
      BY <1>3, <3>1, <3>2 DEF Holds, Find
  <2>2. CASE g # h
    <3>1. handler'[g] = [handler[g] EXCEPT !.alone = @ /\ handler[g].pc = "idle"]
      BY <1>3, <2>2 DEF Find
    <3>2. /\ handler'[g].pc = handler[g].pc
          /\ handler'[g].locked = handler[g].locked
          /\ handler'[g].value = handler[g].value
          /\ handler'[g].room = handler[g].room
          /\ handler[g].pc # "idle" => ~handler'[g].alone
      BY <3>1, <1>t DEF HandlerState
    <3>3. handler[g].pc # "idle" => "update" \in faults'
      BY <1>3 DEF Find, Busy
    <3> QED
      BY <1>3, <1>h, <3>2, <3>3 DEF Holds, Find, store
  <2> QED
    BY <2>1, <2>2
<1>4. ASSUME NEW h \in Handlers, Write(h) PROVE Holds(g)'
  <2>1. Busy' = Busy
    BY <1>4, <1>t, <1>d DEF Write, Busy, HandlerState
  <2>f. room_ban' = room_ban /\ last' = last /\ faults' = faults
    BY <1>4 DEF Write, store
  <2>2. CASE g = h
    <3>1. handler'[g] = [handler[g] EXCEPT !.pc = "written",
                           !.locked = handler[g].value \/ handler[g].room \in room_ban]
      BY <1>4, <1>d, <2>2 DEF Write
    <3>2. /\ handler'[g].pc = "written"
          /\ handler'[g].locked = (handler[g].value \/ handler[g].room \in room_ban)
          /\ handler'[g].value = handler[g].value
          /\ handler'[g].room = handler[g].room
          /\ handler'[g].alone = handler[g].alone
      <4>1. (handler[g].value \/ handler[g].room \in room_ban) \in BOOLEAN
        OBVIOUS
      <4>2. handler[g] \in HandlerState
        BY <1>t
      <4>3. PICK l \in BOOLEAN : l = (handler[g].value \/ handler[g].room \in room_ban)
        BY <4>1
      <4>4. handler'[g] = [handler[g] EXCEPT !.pc = "written", !.locked = l]
        BY <3>1, <4>3, Zenon
      <4>5. /\ handler'[g].pc = "written"
            /\ handler'[g].locked = l
            /\ handler'[g].value = handler[g].value
            /\ handler'[g].room = handler[g].room
            /\ handler'[g].alone = handler[g].alone
        BY <4>2, <4>4 DEF HandlerState
      <4> QED
        BY <4>3, <4>5, Zenon
    <3>3. handler[g].pc = "found"
      BY <1>4, <2>2 DEF Write
    <3> QED
      BY <1>h, <2>1, <2>f, <3>2, <3>3 DEF Holds
  <2>3. CASE g # h
    <3>1. handler'[g] = handler[g]
      BY <1>4, <1>d, <2>3 DEF Write
    <3> QED
      BY <1>h, <2>1, <2>f, <3>1 DEF Holds
  <2> QED
    BY <2>2, <2>3
<1>5. ASSUME NEW h \in Handlers, Commit(h) PROVE Holds(g)'
  <2>1. Busy' = Busy /\ h \in Busy
    BY <1>5, <1>t, <1>d DEF Commit, TakeEffect, Busy, HandlerState
  <2>2. CASE g = h
    <3>1. handler'[g] = [handler[g] EXCEPT !.pc = "committed", !.locked = FALSE]
      BY <1>5, <1>d, <2>2 DEF Commit
    <3>2. /\ handler'[g].pc = "committed"
          /\ ~handler'[g].locked
          /\ handler'[g].value = handler[g].value
          /\ handler'[g].room = handler[g].room
          /\ handler'[g].alone = handler[g].alone
      BY <3>1, <1>t DEF HandlerState
    <3>3. last' = [room |-> handler[g].room, value |-> handler[g].value]
      BY <1>5, <2>2 DEF Commit, TakeEffect
    <3>4. ~handler[g].alone => "update" \in faults'
      BY <1>5, <1>h, <2>2 DEF Commit, TakeEffect, Holds
    <3>5. handler[g].alone => Busy = {g}
      BY <1>5, <1>h, <2>2 DEF Commit, TakeEffect, Holds
    <3> QED
      BY <2>1, <3>2, <3>3, <3>4, <3>5 DEF Holds
  <2>3. CASE g # h
    <3>1. handler'[g] = handler[g]
      BY <1>5, <1>d, <2>3 DEF Commit
    <3>2. handler[g].pc # "idle" => ~handler[g].alone /\ ~handler[h].alone
      BY <1>h, <2>1, <2>3 DEF Holds, Busy
    <3>3. handler[g].pc # "idle" => faults' = faults
      BY <1>5, <3>2 DEF Commit
    <3> QED
      BY <1>h, <2>1, <3>1, <3>2, <3>3 DEF Holds
  <2> QED
    BY <2>2, <2>3
<1>12. ASSUME NEW h \in Handlers, CommitButFail(h) PROVE Holds(g)'
  <2>1. Busy' = Busy \ {h} /\ h \in Busy
    BY <1>12, <1>d DEF CommitButFail, TakeEffect, Busy, Idle
  <2>2. handler'[g] = IF g = h THEN Idle ELSE handler[g]
    BY <1>12, <1>d DEF CommitButFail
  <2>3. "update" \in faults'
    BY <1>12 DEF CommitButFail
  <2>4. CASE g = h
    BY <2>2, <2>4 DEF Holds, Idle
  <2>5. CASE g # h
    <3>1. handler[g].pc # "idle" => ~handler[g].alone
      BY <1>h, <2>1, <2>5 DEF Holds, Busy
    <3> QED
      BY <1>h, <2>2, <2>3, <2>5, <3>1 DEF Holds
  <2> QED
    BY <2>4, <2>5
<1>6. ASSUME NEW h \in Handlers, BanCache(h) \/ FailToCache(h) PROVE Holds(g)'
  <2>1. Busy' = Busy
    BY <1>6, <1>t, <1>d DEF BanCache, FailToCache, Busy, HandlerState
  <2>2. /\ handler'[g].pc = handler[g].pc \/ (handler'[g].pc = "cached" /\ handler[g].pc = "committed")
        /\ handler'[g].locked = handler[g].locked
        /\ handler'[g].value = handler[g].value
        /\ handler'[g].room = handler[g].room
        /\ handler'[g].alone = handler[g].alone
    <3>1. handler' = [handler EXCEPT ![h].pc = "cached"] /\ handler[h].pc = "committed"
      BY <1>6 DEF BanCache, FailToCache
    <3>2. handler'[g] = IF g = h THEN [handler[g] EXCEPT !.pc = "cached"] ELSE handler[g]
      BY <3>1, <1>d
    <3>3. CASE g = h
      <4>1. handler[g] \in HandlerState /\ handler[g].pc = "committed"
        BY <1>t, <3>1, <3>3
      <4>2. handler'[g] = [handler[g] EXCEPT !.pc = "cached"]
        BY <3>2, <3>3
      <4> QED
        BY <4>1, <4>2 DEF HandlerState
    <3>4. CASE g # h
      <4>1. handler'[g] = handler[g]
        BY <1>d, <3>1, <3>4
      <4> QED
        BY <4>1
    <3> QED
      BY <3>3, <3>4
  <2>3. "update" \in faults => "update" \in faults'
    BY <1>6 DEF BanCache, FailToCache
  <2>4. room_ban' = room_ban /\ last' = last
    BY <1>6 DEF BanCache, FailToCache, store
  <2> QED
    BY <1>h, <2>1, <2>2, <2>3, <2>4 DEF Holds
<1>7. ASSUME NEW h \in Handlers, Respond(h) \/ Abort(h) \/ Crash(h) PROVE Holds(g)'
  <2>1. Busy' = Busy \ {h}
    BY <1>7, <1>d DEF Respond, Abort, Crash, Busy, Idle
  <2>2. handler'[g] = IF g = h THEN Idle ELSE handler[g]
    BY <1>7, <1>d DEF Respond, Abort, Crash
  <2>3. "update" \in faults => "update" \in faults'
    BY <1>7 DEF Respond, Abort, Crash
  <2>4. room_ban' = room_ban /\ last' = last
    BY <1>7 DEF Respond, Abort, Crash, store
  <2>5. CASE g = h
    BY <2>2, <2>5 DEF Holds, Idle
  <2>6. CASE g # h
    BY <1>h, <2>1, <2>2, <2>3, <2>4, <2>6 DEF Holds
  <2> QED
    BY <2>5, <2>6
<1>8. ASSUME NEW r \in Rooms, NEW t \in Times, SetTime(r, t) PROVE Holds(g)'
  BY <1>1, <1>8 DEF SetTime, store
<1>9. CASE UNCHANGED vars
  BY <1>1, <1>9 DEF vars
<1> QED
  BY <1>2, <1>3, <1>4, <1>5, <1>6, <1>7, <1>8, <1>9, <1>10, <1>11, <1>12 DEF Next, Update

\* Rows change only when a transaction takes effect, and that outdates every lookup.
LEMMA NextLookupsRight == IInv /\ [Next]_vars => LookupsRight'
<1> SUFFICES ASSUME IInv, [Next]_vars PROVE LookupsRight'
  OBVIOUS
<1>t. lookup \in [Events -> BOOLEAN \cup {None}]
  BY DEF IInv, TypeOK
<1>l. LookupsRight
  BY DEF IInv
<1>1. ASSUME UNCHANGED <<time, room_ban, lookup, stale>>,
             "authz" \in faults => "authz" \in faults'
      PROVE LookupsRight'
  BY <1>1, <1>l DEF LookupsRight, ClassroomFind, Unbounded
<1>2. ASSUME NEW e \in Events, NEW r \in Rooms, AuthorizeEvent(e, r) PROVE LookupsRight'
  BY <1>1, <1>2 DEF AuthorizeEvent, store, lookups
<1>3. ASSUME NEW e \in Events, NEW r \in Rooms, AskCallback(e, r) PROVE LookupsRight'
  <2>1. /\ UNCHANGED <<time, room_ban, stale, faults>>
        /\ \A f \in Events : lookup'[f] = IF f = e THEN ClassroomFind ELSE lookup[f]
    BY <1>3, <1>t, EventLookup DEF AskCallback, Ask, store
  <2>2. ClassroomFind' = ClassroomFind
    BY <2>1 DEF ClassroomFind, Unbounded
  <2> QED
    BY <1>l, <2>1, <2>2 DEF LookupsRight
<1>4. ASSUME NEW e \in Events, NEW r \in Rooms, AskBlindly(e, r) PROVE LookupsRight'
  BY <1>4 DEF AskBlindly, LookupsRight
<1>5. ASSUME NEW e \in Events, AnswerCallback(e) PROVE LookupsRight'
  <2>1. /\ UNCHANGED <<time, room_ban>>
        /\ "authz" \in faults => "authz" \in faults'
        /\ lookup'[e] = None
        /\ \A f \in Events \ {e} : lookup'[f] = lookup[f] /\ (f \in stale' <=> f \in stale)
    BY <1>5, <1>t DEF AnswerCallback
  <2>2. ClassroomFind' = ClassroomFind
    BY <2>1 DEF ClassroomFind, Unbounded
  <2> QED
    BY <1>l, <2>1, <2>2 DEF LookupsRight
<1>6. CASE Expire
  BY <1>1, <1>6 DEF Expire, lookups
<1>7. ASSUME NEW h \in Handlers, NEW r \in Rooms, NEW value \in BOOLEAN, Find(h, r, value)
      PROVE LookupsRight'
  BY <1>1, <1>7 DEF Find, store, lookups
<1>8. ASSUME NEW h \in Handlers, TakeEffect(h) PROVE LookupsRight'
  BY <1>8 DEF TakeEffect, LookupsRight
<1>9. ASSUME NEW h \in Handlers,
             Write(h) \/ BanCache(h) \/ FailToCache(h) \/ Respond(h) \/ Abort(h) \/ Crash(h)
      PROVE LookupsRight'
  BY <1>1, <1>9 DEF Write, BanCache, FailToCache, Respond, Abort, Crash, store, lookups
<1>10. ASSUME NEW r \in Rooms, NEW t \in Times, SetTime(r, t) PROVE LookupsRight'
  BY <1>10 DEF SetTime, LookupsRight
<1>11. CASE UNCHANGED vars
  BY <1>1, <1>11 DEF vars
<1> QED
  BY <1>2, <1>3, <1>4, <1>5, <1>6, <1>7, <1>8, <1>9, <1>10, <1>11
  DEF Next, Update, Commit, CommitButFail

\* The row and the cache follow the latest event of an undisturbed update.
LEMMA NextFollows == IInv /\ [Next]_vars => Follows'
<1> SUFFICES ASSUME IInv, [Next]_vars PROVE Follows'
  OBVIOUS
<1>t. handler \in [Handlers -> HandlerState] /\ room_ban \subseteq Rooms
  BY DEF IInv, TypeOK
<1>h. \A h \in Handlers : Holds(h)
  BY DEF IInv
<1>f. Follows
  BY DEF IInv
<1>1. ASSUME UNCHANGED <<time, room_ban, last>>, cache' \in {None, cache},
             faults \subseteq faults',
             faults' = {} => \A g \in Handlers : handler[g].pc = "committed" => handler'[g] = handler[g]
      PROVE Follows'
  <2>1. Consulted' <=> Consulted
    BY <1>1 DEF Consulted, Unbounded
  <2> QED
    BY <1>1, <1>f, <2>1 DEF Follows
<1>2. ASSUME NEW e \in Events, NEW r \in Rooms,
             AuthorizeEvent(e, r) \/ AskCallback(e, r) \/ AskBlindly(e, r)
      PROVE Follows'
  BY <1>1, <1>2 DEF AuthorizeEvent, AskCallback, AskBlindly, Ask, store
<1>3. CASE Expire
  BY <1>1, <1>3 DEF Expire
<1>4. ASSUME NEW e \in Events, AnswerCallback(e) PROVE Follows'
  <2>1. /\ UNCHANGED <<time, room_ban, last, handler>> /\ faults \subseteq faults'
        /\ cache' \in {cache, lookup[e]} /\ lookup[e] # None
        /\ faults' = {} => e \notin stale
    BY <1>4 DEF AnswerCallback
  <2>2. CASE cache' = cache
    BY <1>1, <2>1, <2>2
  <2>3. CASE cache' = lookup[e]
    <3>1. ASSUME last # None, faults' = {}, Consulted' PROVE cache' = last.value
      <4>1. Consulted
        BY <2>1, <3>1 DEF Consulted, Unbounded
      <4>2. lookup[e] = ClassroomFind /\ (last.room \in room_ban <=> last.value)
        BY <1>f, <2>1, <3>1 DEF IInv, LookupsRight, Follows
      <4>3. ClassroomFind = (last.room \in room_ban)
        BY <4>1 DEF ClassroomFind, Consulted
      <4>4. last.value \in BOOLEAN /\ (last.room \in room_ban) \in BOOLEAN
        BY <3>1 DEF IInv, TypeOK
      <4>5. (last.room \in room_ban) = last.value
        BY <4>2, <4>4
      <4> QED
        BY <2>3, <4>2, <4>3, <4>5, Zenon
    <3> QED
      BY <1>f, <2>1, <3>1 DEF Follows
  <2> QED
    BY <2>1, <2>2, <2>3
<1>5. ASSUME NEW h \in Handlers, NEW r \in Rooms, NEW value \in BOOLEAN, Find(h, r, value)
      PROVE Follows'
  <2>1. \A g \in Handlers : Busy = {} => handler[g].pc # "committed"
    BY DEF Busy
  <2>2. faults' = {} => Busy = {}
    BY <1>5 DEF Find
  <2>3. UNCHANGED <<time, room_ban, last, cache>> /\ faults \subseteq faults'
    BY <1>5 DEF Find, store
  <2> QED
    BY <1>1, <2>1, <2>2, <2>3
<1>6. ASSUME NEW h \in Handlers, Write(h) \/ Abort(h) \/ Respond(h) PROVE Follows'
  <2>1. \A g \in Handlers : handler[g].pc = "committed" => handler'[g] = handler[g]
    BY <1>6, <1>t DEF Write, Abort, Respond
  <2>2. UNCHANGED <<time, room_ban, cache, last, faults>>
    BY <1>6 DEF Write, Abort, Respond, store
  <2> QED
    BY <1>1, <2>1, <2>2
<1>7. ASSUME NEW h \in Handlers, Commit(h) PROVE Follows'
  <2>1. CASE handler[h].alone
    <3>1. handler[h] \in HandlerState /\ handler[h].pc = "written" /\ Holds(h)
      BY <1>7, <1>t, <1>h DEF Commit, TakeEffect
    <3>2. handler'[h].pc = "committed"
      BY <1>7, <1>t DEF Commit, HandlerState
    <3>3. last'.room = handler[h].room /\ last'.value = handler[h].value
      BY <1>7 DEF Commit, TakeEffect
    <3>4. CASE handler[h].value
      <4>1. room_ban' = room_ban \cup {handler[h].room}
        BY <1>7, <3>4 DEF Commit, TakeEffect
      <4> QED
        BY <3>2, <3>3, <3>4, <4>1 DEF Follows
    <3>5. CASE ~handler[h].value
      <4>1. room_ban' = IF handler[h].locked THEN room_ban \ {handler[h].room} ELSE room_ban
        BY <1>7, <3>5 DEF Commit, TakeEffect
      <4>2. handler[h].room \notin room_ban'
        BY <2>1, <3>1, <4>1 DEF Holds
      <4> QED
        BY <3>2, <3>3, <3>5, <4>2 DEF Follows
    <3> QED
      BY <3>4, <3>5
  <2>2. CASE ~handler[h].alone
    <3>1. "update" \in faults'
      BY <1>7, <1>h, <2>2 DEF Commit, TakeEffect, Holds
    <3> QED
      BY <3>1 DEF Follows
  <2> QED
    BY <2>1, <2>2
<1>8. ASSUME NEW h \in Handlers, BanCache(h) PROVE Follows'
  <2>1. last' = last /\ room_ban' = room_ban /\ cache' = handler[h].value
    BY <1>8 DEF BanCache
  <2>2. "update" \in faults <=> "update" \in faults'
    BY <1>8 DEF BanCache
  <2>3. "update" \notin faults => last = [room |-> handler[h].room, value |-> handler[h].value]
    BY <1>8, <1>h DEF BanCache, Holds
  <2>4. "update" \notin faults => cache' = last.value
    BY <2>1, <2>3
  <2> QED
    BY <1>f, <2>1, <2>2, <2>4 DEF Follows
<1>9. ASSUME NEW h \in Handlers, CommitButFail(h) \/ FailToCache(h) \/ Crash(h) PROVE Follows'
  BY <1>9 DEF Follows, CommitButFail, FailToCache, Crash
<1>10. ASSUME NEW r \in Rooms, NEW t \in Times, SetTime(r, t) PROVE Follows'
  BY <1>10, <1>f DEF Follows, SetTime, store
<1>11. CASE UNCHANGED vars
  BY <1>1, <1>11 DEF vars
<1> QED
  BY <1>2, <1>3, <1>4, <1>5, <1>6, <1>7, <1>8, <1>9, <1>10, <1>11 DEF Next, Update

\* A banned account is let in by no step, as long as rooms stay as they are.
LEMMA NextKeptOut == IInv /\ [Next]_vars => KeptOut'
<1> SUFFICES ASSUME IInv, [Next]_vars,
                    last' # None, faults' = {}, last'.value, Consulted',
                    \A h \in Handlers : handler'[h].pc \notin {"committed", "cached"}
             PROVE  ~admitted'
  BY DEF KeptOut
<1>t. handler \in [Handlers -> HandlerState] /\ admitted \in BOOLEAN
  BY DEF IInv, TypeOK
<1>k. KeptOut /\ Follows
  BY DEF IInv
<1>c. ASSUME UNCHANGED <<time, last, handler>>, faults = {}
      PROVE  /\ Consulted /\ ~admitted /\ last # None /\ last.value
             /\ last.room \in room_ban /\ cache \in {None, TRUE} /\ ClassroomFind
  <2>1. Consulted
    BY <1>c DEF Consulted, Unbounded
  <2>2. last.value = TRUE
    BY <1>c DEF IInv, TypeOK
  <2>3. last.room \in room_ban /\ cache \in {None, last.value} /\ ~admitted
    BY <1>c, <1>k, <2>1 DEF Follows, KeptOut
  <2> QED
    BY <1>c, <2>1, <2>2, <2>3 DEF ClassroomFind, Consulted
<1>1. ASSUME NEW e \in Events, NEW r \in Rooms, AuthorizeEvent(e, r) PROVE FALSE
  <2>1. cache = FALSE /\ UNCHANGED <<time, last, handler, faults>>
    BY <1>1, EventLookup DEF AuthorizeEvent, store
  <2>2. cache \in {None, TRUE}
    BY <1>c, <2>1
  <2> QED
    BY <2>1, <2>2, BansAssumption
<1>2. ASSUME NEW e \in Events, NEW r \in Rooms, AskCallback(e, r) PROVE ~admitted'
  BY <1>2, <1>c DEF AskCallback, Ask, store
<1>3. ASSUME NEW e \in Events, NEW r \in Rooms, AskBlindly(e, r) PROVE ~admitted'
  BY <1>3 DEF AskBlindly
<1>4. ASSUME NEW e \in Events, AnswerCallback(e) PROVE ~admitted'
  <2>1. /\ UNCHANGED <<time, last, handler>> /\ faults = {} /\ e \notin stale
        /\ lookup[e] # None /\ admitted' = (admitted \/ ~lookup[e])
    BY <1>4 DEF AnswerCallback
  <2>2. ClassroomFind /\ ~admitted
    BY <1>c, <2>1
  <2>3. lookup[e] = ClassroomFind
    BY <2>1 DEF IInv, LookupsRight
  <2> QED
    BY <2>1, <2>2, <2>3
<1>5. ASSUME NEW h \in Handlers, Commit(h) PROVE ~admitted'
  BY <1>5, <1>t DEF Commit, HandlerState
<1>6. ASSUME NEW h \in Handlers, CommitButFail(h) \/ FailToCache(h) \/ Crash(h) PROVE ~admitted'
  BY <1>6 DEF CommitButFail, FailToCache, Crash
<1>7. ASSUME NEW h \in Handlers, Respond(h) PROVE ~admitted'
  BY <1>7 DEF Respond
<1>8. ASSUME NEW h \in Handlers, BanCache(h) PROVE ~admitted'
  BY <1>8, <1>t DEF BanCache, HandlerState
<1>9. ASSUME NEW r \in Rooms, NEW t \in Times, SetTime(r, t) PROVE ~admitted'
  BY <1>9 DEF SetTime
<1>10. ASSUME UNCHANGED <<time, room_ban, last, admitted>>, faults = {},
              \A g \in Handlers : handler[g].pc \notin {"committed", "cached"}
       PROVE ~admitted'
  <2>1. Consulted
    BY <1>10 DEF Consulted, Unbounded
  <2> QED
    BY <1>10, <1>k, <2>1 DEF KeptOut
<1>11. ASSUME NEW h \in Handlers, NEW r \in Rooms, NEW value \in BOOLEAN, Find(h, r, value)
       PROVE ~admitted'
  <2>1. Busy = {} /\ faults = {}
    BY <1>11 DEF Find
  <2> QED
    BY <1>10, <1>11, <2>1 DEF Find, store, Busy
<1>12. ASSUME NEW h \in Handlers, Write(h) \/ Abort(h) PROVE ~admitted'
  <2>1. \A g \in Handlers : handler[g].pc \in {"committed", "cached"} => handler'[g] = handler[g]
    BY <1>12, <1>t DEF Write, Abort
  <2> QED
    BY <1>10, <1>12, <2>1 DEF Write, Abort, store
<1>13. CASE Expire
  BY <1>10, <1>13 DEF Expire
<1>14. CASE UNCHANGED vars
  BY <1>10, <1>14 DEF vars
<1> QED
  BY <1>1, <1>2, <1>3, <1>4, <1>5, <1>6, <1>7, <1>8, <1>9, <1>11, <1>12, <1>13, <1>14
  DEF Next, Update

LEMMA Inductive == Spec => []IInv
<1>1. IInv /\ [Next]_vars => IInv'
  BY NextTypeOK, NextHolds, NextFollows, NextLookupsRight, NextKeptOut DEF IInv
<1> QED
  BY <1>1, InitIInv, PTL DEF Spec

\* The rows, the cache, the lookups and the handlers keep their types, whatever updates
\* overlap.
THEOREM TypeCorrect == Spec => []TypeOK
<1>1. IInv => TypeOK
  BY DEF IInv
<1> QED
  BY <1>1, Inductive, PTL

\* Row and latest event agree after every update that was not overlapped and reached
\* the cache, whatever happened before it; so does the cache about the room that lookups
\* look at, though lookups fill it too, for any number of lookups and updates.
THEOREM BansAlwaysAgree == Spec => []BansAgree
<1>1. IInv => BansAgree
  <2> SUFFICES ASSUME IInv, Busy = {}, last # None, "update" \notin faults
               PROVE  /\ last.room \in room_ban <=> last.value
                      /\ faults = {} /\ Consulted => cache \in {None, last.value}
    BY DEF BansAgree
  <2>1. \A h \in Handlers : handler[h].pc # "committed"
    BY DEF Busy
  <2> QED
    BY <2>1 DEF IInv, Follows
<1> QED
  BY <1>1, Inductive, PTL

\* A ban in the classroom's latest unbounded room keeps the account out of it until
\* the next update, with or without a cache entry, whoever filled it.
THEOREM BanAlwaysEnforced == Spec => []BanEnforced
<1>1. IInv => BanEnforced
  <2> SUFFICES ASSUME IInv, Busy = {}, last # None, faults = {}, last.value, Consulted
               PROVE  ~admitted
    BY DEF BanEnforced
  <2>1. \A h \in Handlers : handler[h].pc = "idle"
    BY DEF Busy
  <2> QED
    BY <2>1 DEF IInv, KeptOut
<1> QED
  BY <1>1, Inductive, PTL
=============================================================================
