--------------------------- MODULE PresenceProofs ---------------------------
(***************************************************************************)
(* Presence: only a subscribed agent is listed, or one whose               *)
(* subscription.delete is still to be handled.                             *)
(***************************************************************************)
EXTENDS Presence, TLAPS

\* The agent has one room.enter at a time.
OneEnter == \A e, f \in Enters : e = f

-----------------------------------------------------------------------------

\* One case per action.
LEMMA StepCases ==
  ASSUME Next
  PROVE  \/ \E e \in Enters : FindRoom(e)
         \/ \E e \in Enters : Refuse(e)
         \/ \E e \in Enters : Register(e)
         \/ \E e \in Enters : RecordEnter(e)
         \/ \E e \in Enters : Subscribe(e)
         \/ \E e \in Enters : FailToSubscribe(e)
         \/ \E e \in Enters : CheckRoom(e)
         \/ \E e \in Enters : MarkReady(e)
         \/ \E e \in Enters : Succeed(e)
         \/ HandleDelete \/ RecordLeft \/ LoseDelete
         \/ Connect \/ Disconnect \/ Leave \/ Close
  BY DEF Next, Enter

\* Every step keeps the types.
LEMMA TypeStep == TypeOK /\ [Next]_vars => TypeOK'
<1>. SUFFICES ASSUME TypeOK, [Next]_vars PROVE TypeOK'
  OBVIOUS
<1>. USE PresenceAssumption
<1>1. CASE UNCHANGED vars
  <2>1. FlagsOK'
    BY <1>1, Zenon DEF vars, TypeOK, FlagsOK
  <2>. QED  BY <1>1, <2>1 DEF vars, TypeOK
<1>2. ASSUME NEW e \in Enters, FindRoom(e) \/ Refuse(e) \/ CheckRoom(e) \/ Succeed(e)
      PROVE TypeOK'
  <2>1. FlagsOK'
    <3>1. CASE FindRoom(e)
      BY <3>1, Zenon DEF FindRoom, TypeOK, FlagsOK
    <3>2. CASE Refuse(e)
      BY <3>2, Zenon DEF Refuse, TypeOK, FlagsOK
    <3>3. CASE CheckRoom(e)
      BY <3>3, Zenon DEF CheckRoom, TypeOK, FlagsOK
    <3>4. CASE Succeed(e)
      BY <3>4, Zenon DEF Succeed, TypeOK, FlagsOK
    <3>. QED  BY <1>2, <3>1, <3>2, <3>3, <3>4
  <2>. QED
    BY <1>2, <2>1 DEF FindRoom, Refuse, CheckRoom, Succeed, GoTo, TypeOK, Locations
<1>3. ASSUME NEW e \in Enters, Register(e) \/ RecordEnter(e) \/ MarkReady(e)
      PROVE TypeOK'
  <2>1. FlagsOK'
    <3>1. CASE Register(e)
      BY <3>1, Zenon DEF Register, TypeOK, FlagsOK
    <3>2. CASE RecordEnter(e)
      BY <3>2, Zenon DEF RecordEnter, TypeOK, FlagsOK
    <3>3. CASE MarkReady(e)
      BY <3>3, Zenon DEF MarkReady, TypeOK, FlagsOK
    <3>. QED  BY <1>3, <3>1, <3>2, <3>3
  <2>. QED
    BY <1>3, <2>1 DEF Register, RecordEnter, MarkReady, Updated, GoTo, TypeOK, Locations
<1>4. ASSUME NEW e \in Enters, Subscribe(e) \/ FailToSubscribe(e)
      PROVE TypeOK'
  <2>1. FlagsOK'
    <3>1. CASE Subscribe(e)
      BY <3>1, Zenon DEF Subscribe, TypeOK, FlagsOK
    <3>2. CASE FailToSubscribe(e)
      <4>1. CASE connected /\ subscribed' = TRUE
        BY <3>2, <4>1, Zenon DEF FailToSubscribe, TypeOK, FlagsOK
      <4>2. CASE UNCHANGED subscribed
        BY <3>2, <4>2, Zenon DEF FailToSubscribe, TypeOK, FlagsOK
      <4>. QED  BY <3>2, <4>1, <4>2 DEF FailToSubscribe
    <3>. QED  BY <1>4, <3>1, <3>2
  <2>. QED
    BY <1>4, <2>1 DEF Subscribe, FailToSubscribe, GoTo, TypeOK, Locations
<1>5. CASE HandleDelete \/ RecordLeft \/ LoseDelete
  <2>1. FlagsOK'
    <3>1. CASE HandleDelete
      BY <3>1, Zenon DEF HandleDelete, TypeOK, FlagsOK
    <3>2. CASE RecordLeft
      BY <3>2, Zenon DEF RecordLeft, TypeOK, FlagsOK
    <3>3. CASE LoseDelete
      BY <3>3, Zenon DEF LoseDelete, TypeOK, FlagsOK
    <3>. QED  BY <1>5, <3>1, <3>2, <3>3
  <2>2. deletes' \in 0..MaxDeletes /\ leaving' \in 0..MaxDeletes
    BY <1>5 DEF HandleDelete, RecordLeft, LoseDelete, TypeOK
  <2>. QED  BY <1>5, <2>1, <2>2 DEF HandleDelete, RecordLeft, LoseDelete, TypeOK
<1>6. CASE Connect \/ Disconnect \/ Leave \/ Close
  <2>1. FlagsOK'
    <3>1. CASE Connect
      BY <3>1, Zenon DEF Connect, TypeOK, FlagsOK
    <3>2. CASE Disconnect
      BY <3>2, Zenon DEF Disconnect, DropSubscription, TypeOK, FlagsOK
    <3>3. CASE Leave
      BY <3>3, Zenon DEF Leave, DropSubscription, TypeOK, FlagsOK
    <3>4. CASE Close
      BY <3>4, Zenon DEF Close, TypeOK, FlagsOK
    <3>. QED  BY <1>6, <3>1, <3>2, <3>3, <3>4
  <2>2. deletes' \in 0..MaxDeletes
    BY <1>6 DEF Connect, Disconnect, Leave, Close, DropSubscription, TypeOK
  <2>. QED  BY <1>6, <2>1, <2>2 DEF Connect, Disconnect, Leave, Close, TypeOK
<1>. QED  BY <1>1, <1>2, <1>3, <1>4, <1>5, <1>6, StepCases

\* The state of the agent table, the broker and the requests is well typed, and
\* only a connected agent is subscribed.
THEOREM TypeCorrect == Spec => []TypeOK
<1>1. Init => TypeOK
  <2>1. Init => FlagsOK
    BY Zenon DEF Init, FlagsOK
  <2>. QED  BY <2>1, PresenceAssumption DEF Init, TypeOK, Locations
<1>. QED  BY <1>1, TypeStep, PTL DEF Spec

-----------------------------------------------------------------------------

\* A step of room.enter keeps the invariant when there is no other room.enter.
LEMMA EnterStep ==
  ASSUME OneEnter, PresenceInv, NEW e \in Enters, Enter(e)
  PROVE  ListedIsOnline' /\ MarkableIsOnline' /\ RecordedFirst'
<1>. \A f \in Enters : f = e
  BY DEF OneEnter
<1>. pc \in [Enters -> Locations]
  BY DEF PresenceInv, TypeOK
<1>. USE DEF PresenceInv, ListedIsOnline, Listed, MarkableIsOnline, RecordedFirst, Past, GoTo
<1>1. CASE FindRoom(e) \/ Refuse(e) \/ CheckRoom(e)
  BY <1>1 DEF FindRoom, Refuse, CheckRoom
<1>2. CASE Register(e) \/ RecordEnter(e)
  BY <1>2 DEF Register, RecordEnter
<1>3. CASE Subscribe(e)
  BY <1>3 DEF Subscribe
<1>4. CASE FailToSubscribe(e)
  BY <1>4 DEF FailToSubscribe
<1>5. CASE MarkReady(e)
  BY <1>5 DEF MarkReady, Updated
<1>6. CASE Succeed(e)
  BY <1>6 DEF Succeed
<1>. QED  BY <1>1, <1>2, <1>3, <1>4, <1>5, <1>6 DEF Enter

\* So does every other step.
LEMMA OtherStep ==
  ASSUME PresenceInv,
         \/ HandleDelete \/ RecordLeft \/ LoseDelete
         \/ Connect \/ Disconnect \/ Leave \/ Close
  PROVE  ListedIsOnline' /\ MarkableIsOnline' /\ RecordedFirst'
<1>. USE DEF PresenceInv, ListedIsOnline, Listed, MarkableIsOnline, RecordedFirst, Past
<1>1. CASE HandleDelete
  BY <1>1 DEF HandleDelete, DeletesRow
<1>2. CASE RecordLeft
  BY <1>2 DEF RecordLeft
<1>3. CASE LoseDelete
  BY <1>3 DEF LoseDelete
<1>4. CASE Connect \/ Close
  BY <1>4 DEF Connect, Close
<1>5. CASE Disconnect \/ Leave
  <2>1. subscribed \/ deletes > 0 => deletes' > 0
    BY <1>5 DEF Disconnect, Leave, DropSubscription, TypeOK
  <2>2. UNCHANGED <<row, log, pc, lost>>
    BY <1>5 DEF Disconnect, Leave
  <2>. QED  BY <2>1, <2>2
<1>. QED  BY <1>1, <1>2, <1>3, <1>4, <1>5

\* Whatever the broker, the database and the agent's connection do, an agent
\* that makes one room.enter at a time is listed by agent.list only while it is
\* subscribed or the event of its leaving is still to be handled, unless the
\* handling of such an event failed.
THEOREM ListedIsAlwaysOnline == ASSUME OneEnter PROVE Spec => []ListedIsOnline
<1>1. Init => PresenceInv
  <2>1. Init => TypeOK
    <3>1. Init => FlagsOK
      BY Zenon DEF Init, FlagsOK
    <3>. QED  BY <3>1, PresenceAssumption DEF Init, TypeOK, Locations
  <2>. QED
    BY <2>1 DEF Init, PresenceInv, ListedIsOnline, Listed, MarkableIsOnline, RecordedFirst, Past
<1>2. PresenceInv /\ [Next]_vars => PresenceInv'
  <2>. SUFFICES ASSUME PresenceInv, [Next]_vars PROVE PresenceInv'
    OBVIOUS
  <2>1. TypeOK'
    BY TypeStep DEF PresenceInv
  <2>2. CASE UNCHANGED vars
    BY <2>1, <2>2
    DEF vars, PresenceInv, ListedIsOnline, Listed, MarkableIsOnline, RecordedFirst, Past
  <2>3. CASE Next
    BY <2>1, <2>3, EnterStep, OtherStep DEF Next, PresenceInv
  <2>. QED  BY <2>2, <2>3
<1>3. PresenceInv => ListedIsOnline
  BY DEF PresenceInv
<1>. QED  BY <1>1, <1>2, <1>3, PTL DEF Spec
=============================================================================
