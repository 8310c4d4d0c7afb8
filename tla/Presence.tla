------------------------------ MODULE Presence ------------------------------
(***************************************************************************)
(* One agent's presence in one room: room.enter, the broker's              *)
(* subscriptions and its subscription.delete events, and the agent table.  *)
(*                                                                         *)
(* Rows of different agents or rooms never meet in these handlers, so one  *)
(* of each is enough.  The broker (external) keeps the subscription while  *)
(* the agent is connected and sends subscription.delete when it drops it;  *)
(* the event is handled some time later, if the database allows.           *)
(***************************************************************************)
EXTENDS Naturals

CONSTANTS
  Enters,      \* slots for concurrent room.enter requests of the agent
  MaxDeletes   \* bound: subscription.delete events on their way or in handling

ASSUME PresenceAssumption == MaxDeletes \in Nat \ {0}

VARIABLES
  open,        \* the room is open
  connected,   \* the agent is connected to the broker
  subscribed,  \* the broker's subscription of the agent to the room
  deletes,     \* subscription.delete events on their way
  leaving,     \* delete handlers that have yet to record that the agent left
  row,         \* the status in the agent table
  log,         \* the last agent action in the event table
  pc,          \* where each room.enter is
  entered,     \* history: room.enter succeeded, the subscription still stands
  lost         \* history: the handling of a delete event failed

vars == <<open, connected, subscribed, deletes, leaving, row, log, pc, entered, lost>>

Locations == {"idle", "found", "inserted", "registered", "subscribed", "checked", "marked"}

FlagsOK ==
  /\ open \in BOOLEAN
  /\ connected \in BOOLEAN
  /\ subscribed \in BOOLEAN
  /\ entered \in BOOLEAN
  /\ lost \in BOOLEAN
  /\ subscribed => connected

TypeOK ==
  /\ FlagsOK
  /\ deletes \in 0..MaxDeletes
  /\ leaving \in 0..MaxDeletes
  /\ row \in {"none", "in_progress", "ready"}
  /\ log \in {"none", "enter", "left"}
  /\ pc \in [Enters -> Locations]

Init ==
  /\ open = TRUE
  /\ connected = FALSE
  /\ subscribed = FALSE
  /\ deletes = 0
  /\ leaving = 0
  /\ row = "none"
  /\ log = "none"
  /\ pc = [e \in Enters |-> "idle"]
  /\ entered = FALSE
  /\ lost = FALSE

GoTo(e, from, to) == pc[e] = from /\ pc' = [pc EXCEPT ![e] = to]

-----------------------------------------------------------------------------
(* room.enter *)

\* find_room with RoomTimeRequirement::Open, and the tenant's authorization.
FindRoom(e) ==
  /\ GoTo(e, "idle", "found")
  /\ open
  /\ UNCHANGED <<open, connected, subscribed, deletes, leaving, row, log, entered, lost>>

\* Every early return that is not the broker's, and the end of the process.
Refuse(e) ==
  /\ pc[e] # "idle"
  /\ pc' = [pc EXCEPT ![e] = "idle"]
  /\ UNCHANGED <<open, connected, subscribed, deletes, leaving, row, log, entered, lost>>

\* The agent is registered in progress, whatever its status was.
Register(e) ==
  /\ GoTo(e, "found", "inserted")
  /\ row' = "in_progress"
  /\ entered' = FALSE
  /\ UNCHANGED <<open, connected, subscribed, deletes, leaving, log, lost>>

\* insert_agent_action with AgentAction::Enter
RecordEnter(e) ==
  /\ GoTo(e, "inserted", "registered")
  /\ log' = "enter"
  /\ UNCHANGED <<open, connected, subscribed, deletes, leaving, row, entered, lost>>

\* enter_room and enter_broadcast_room succeed.
Subscribe(e) ==
  /\ GoTo(e, "registered", "subscribed")
  /\ connected
  /\ subscribed' = TRUE
  /\ UNCHANGED <<open, connected, deletes, leaving, row, log, entered, lost>>

\* enter_room fails (enter_broadcast_room never does); when only its answer was
\* lost or late, the broker has subscribed the agent all the same.
FailToSubscribe(e) ==
  /\ GoTo(e, "registered", "idle")
  /\ (connected /\ subscribed' = TRUE) \/ UNCHANGED subscribed
  /\ UNCHANGED <<open, connected, deletes, leaving, row, log, entered, lost>>

\* The second find_room.
CheckRoom(e) ==
  /\ GoTo(e, "subscribed", "checked")
  /\ open
  /\ UNCHANGED <<open, connected, subscribed, deletes, leaving, row, log, entered, lost>>

\* Faulty variant: an upsert instead of an update.
Upserted == "ready"

\* UPDATE agent SET status = 'ready': nothing happens to a missing row.
Updated == IF row = "none" THEN "none" ELSE "ready"

MarkReady(e) ==
  /\ GoTo(e, "checked", "marked")
  /\ row' = Updated
  /\ UNCHANGED <<open, connected, subscribed, deletes, leaving, log, entered, lost>>

\* FindWithBanQuery finds the agent: the request succeeds and room.enter is
\* broadcast.  Without a row it fails with AgentNotEnteredTheRoom, a Refuse.
Succeed(e) ==
  /\ GoTo(e, "marked", "idle")
  /\ row # "none"
  /\ entered' = subscribed
  /\ UNCHANGED <<open, connected, subscribed, deletes, leaving, row, log, lost>>

-----------------------------------------------------------------------------
(* subscription.delete *)

\* DELETE FROM agent: whatever the status.
DeletesRow == row # "none"

\* The row is deleted; a missing one is ignored.
HandleDelete ==
  /\ deletes > 0
  /\ leaving < MaxDeletes
  /\ deletes' = deletes - 1
  /\ row' = IF DeletesRow THEN "none" ELSE row
  /\ leaving' = IF DeletesRow THEN leaving + 1 ELSE leaving
  /\ UNCHANGED <<open, connected, subscribed, log, pc, entered, lost>>

\* insert_agent_action with AgentAction::Left, and the room.leave broadcast; or
\* the insert fails, and there is neither.
RecordLeft ==
  /\ leaving > 0
  /\ leaving' = leaving - 1
  /\ log' \in {"left", log}
  /\ UNCHANGED <<open, connected, subscribed, deletes, row, pc, entered, lost>>

\* No connection or a failed query: the error is logged, the event is gone.
LoseDelete ==
  /\ deletes > 0
  /\ deletes' = deletes - 1
  /\ lost' = TRUE
  /\ UNCHANGED <<open, connected, subscribed, leaving, row, log, pc, entered>>

-----------------------------------------------------------------------------
(* The broker and the room. *)

Connect ==
  /\ ~connected
  /\ connected' = TRUE
  /\ UNCHANGED <<open, subscribed, deletes, leaving, row, log, pc, entered, lost>>

\* The subscription ends, and if there was one, the service is told.
DropSubscription ==
  /\ subscribed' = FALSE
  /\ entered' = FALSE
  /\ IF subscribed THEN deletes < MaxDeletes /\ deletes' = deletes + 1
                   ELSE UNCHANGED deletes

Disconnect ==
  /\ connected
  /\ connected' = FALSE
  /\ DropSubscription
  /\ UNCHANGED <<open, leaving, row, log, pc, lost>>

\* The agent unsubscribes and stays connected.
Leave ==
  /\ subscribed
  /\ DropSubscription
  /\ UNCHANGED <<open, connected, leaving, row, log, pc, lost>>

\* room.update, or time itself, closes the room.
Close ==
  /\ open
  /\ open' = FALSE
  /\ UNCHANGED <<connected, subscribed, deletes, leaving, row, log, pc, entered, lost>>

Enter(e) ==
  \/ FindRoom(e)
  \/ Refuse(e)
  \/ Register(e)
  \/ RecordEnter(e)
  \/ Subscribe(e)
  \/ FailToSubscribe(e)
  \/ CheckRoom(e)
  \/ MarkReady(e)
  \/ Succeed(e)

Next ==
  \/ \E e \in Enters : Enter(e)
  \/ HandleDelete
  \/ RecordLeft
  \/ LoseDelete
  \/ Connect
  \/ Disconnect
  \/ Leave
  \/ Close

Spec == Init /\ [][Next]_vars

-----------------------------------------------------------------------------
(* What agent.list shows. *)

\* ListWithBansQuery with Status::Ready
Listed == row = "ready"

\* An agent that "disconnected from the broker" is not listed: a listed agent is
\* subscribed, or the event that will delete its row is on its way, unless the
\* handling of such an event failed.  Its entrance is on record.  For one
\* room.enter at a time.
ListedIsOnline ==
  Listed => (subscribed \/ deletes > 0 \/ lost) /\ log # "none"

\* "Entered agents appear in the active agents list": an agent whose room.enter
\* succeeded, and who has not left since, is listed once nothing is going on.
EnteredIsListed ==
  (entered /\ deletes = 0 /\ \A e \in Enters : pc[e] = "idle") => Listed

-----------------------------------------------------------------------------
(* The inductive invariant behind ListedIsOnline. *)

\* room.enter is past the broker.
Past(e) == pc[e] \in {"subscribed", "checked", "marked"}

\* A row that room.enter may mark as ready is there only while the subscription
\* stands or its end has not been handled.
MarkableIsOnline ==
  (row # "none" /\ \E e \in Enters : Past(e)) => subscribed \/ deletes > 0 \/ lost

\* room.enter has recorded the entrance before it talks to the broker.
RecordedFirst ==
  \A e \in Enters : (Past(e) \/ pc[e] = "registered") => log # "none"

PresenceInv == TypeOK /\ ListedIsOnline /\ MarkableIsOnline /\ RecordedFirst
=============================================================================
