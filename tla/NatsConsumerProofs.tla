------------------------- MODULE NatsConsumerProofs -------------------------
(***************************************************************************)
(* Proofs about NatsConsumer, for any number of replicas, messages and     *)
(* failures: its types, that only stored messages are acknowledged, and    *)
(* that its steps are steps of EventDelivery.                              *)
(***************************************************************************)
EXTENDS NatsConsumer, TLAPS

\* Everything a consumer may do next.
Act(c) == Step(c) \/ Fail(c) \/ Stop(c) \/ Shutdown(c)

\* The actions that leave the stream, the rows and all messages alone.
Quiet(c) ==
  \/ Subscribe(c) \/ FailToSubscribe(c) \/ CloseStream(c) \/ Wake(c) \/ Stop(c)
  \/ FindRoom(c) \/ FailToHandle(c) \/ FailToAcquire(c) \/ Shutdown(c)

\* The three answers.
Answers(c) ==
  \/ pc[c] = "acking" /\ Answer(c, "acked", "listening")
  \/ pc[c] = "naking" /\ Answer(c, "waiting", "suspended")
  \/ pc[c] = "terminating" /\ Answer(c, "terminated", "listening")

LEMMA ActCases ==
  ASSUME NEW c \in Consumers, Act(c)
  PROVE  \/ Quiet(c) \/ (\E m \in Messages : Receive(c, m))
         \/ Insert(c) \/ InsertButFail(c) \/ Answers(c) \/ Crash(c)
  BY DEF Act, Step, Fail, Quiet, Answers, Ack, Nak, Terminate

\* The bounded counters.
LEMMA FaultType ==
  ASSUME TypeOK, Fault \/ NoFault
  PROVE  faults' \in 0..MaxFaults
  BY NatsConsumerAssumption DEF TypeOK, Fault, NoFault

LEMMA QuietFacts ==
  ASSUME TypeOK, NEW c \in Consumers, Quiet(c)
  PROVE  /\ UNCHANGED <<stream, rows, message, resends>>
         /\ faults' \in 0..MaxFaults
         /\ shutdown' \subseteq Stopped
         /\ \E l \in Locations : /\ pc' = [pc EXCEPT ![c] = l]
                                 /\ (l \in Handling) <=> (pc[c] \in Handling)
                                 /\ (pc[c] \in Handling /\ l # pc[c])
                                       => /\ pc[c] \in {"handling", "found"}
                                          /\ l \in {"found", "naking", "terminating"}
<1>1. UNCHANGED <<stream, rows, message, resends>>
  BY DEF Quiet, Subscribe, FailToSubscribe, CloseStream, Wake, Stop, FindRoom,
         FailToHandle, FailToAcquire, Shutdown
<1>2. Fault \/ NoFault
  BY DEF Quiet, Subscribe, FailToSubscribe, CloseStream, Wake, Stop, FindRoom,
         FailToHandle, FailToAcquire, Shutdown, NoFault
<1>3. shutdown' \subseteq Stopped
  BY DEF Quiet, Subscribe, FailToSubscribe, CloseStream, Wake, Stop, FindRoom,
         FailToHandle, FailToAcquire, Shutdown, TypeOK
<1>4. \E l \in Locations : /\ pc' = [pc EXCEPT ![c] = l]
                           /\ (l \in Handling) <=> (pc[c] \in Handling)
                           /\ (pc[c] \in Handling /\ l # pc[c])
                                 => /\ pc[c] \in {"handling", "found"}
                                    /\ l \in {"found", "naking", "terminating"}
  <2>1. CASE Shutdown(c)
    <3>1. pc' = [pc EXCEPT ![c] = pc[c]] /\ pc[c] \in Locations
      BY <2>1 DEF Shutdown, TypeOK
    <3>. QED  BY <3>1
  <2>2. CASE Subscribe(c) \/ FailToSubscribe(c) \/ CloseStream(c) \/ Wake(c) \/ Stop(c)
    BY <2>2 DEF Subscribe, FailToSubscribe, CloseStream, Wake, Stop, GoTo, Locations, Handling
  <2>3. CASE FindRoom(c) \/ FailToHandle(c) \/ FailToAcquire(c)
    BY <2>3 DEF FindRoom, FailToHandle, FailToAcquire, GoTo, Locations, Handling
  <2>. QED  BY <2>1, <2>2, <2>3 DEF Quiet
<1>. QED  BY <1>1, <1>2, <1>3, <1>4, FaultType

-----------------------------------------------------------------------------
(* Type correctness. *)

LEMMA TypeStep == TypeOK /\ [Next]_vars => TypeOK'
<1>. SUFFICES ASSUME TypeOK, [Next]_vars PROVE TypeOK'
  OBVIOUS
<1>. USE NatsConsumerAssumption
<1>1. CASE UNCHANGED vars
  BY <1>1 DEF TypeOK, vars
<1>2. ASSUME NEW c \in Consumers, Quiet(c) PROVE TypeOK'
  <2>1. PICK l \in Locations : /\ pc' = [pc EXCEPT ![c] = l]
                               /\ (l \in Handling) <=> (pc[c] \in Handling)
    BY <1>2, QuietFacts
  <2>. QED  BY <1>2, <2>1, QuietFacts DEF TypeOK
<1>3. ASSUME NEW c \in Consumers, NEW m \in Messages, Receive(c, m) PROVE TypeOK'
  BY <1>3 DEF Receive, GoTo, NoFault, TypeOK, Locations, Handling
<1>4. ASSUME NEW c \in Consumers, Insert(c) \/ InsertButFail(c) PROVE TypeOK'
  <2>1. faults' \in 0..MaxFaults
    BY <1>4, FaultType DEF Insert, InsertButFail
  <2>2. rows' \in [Messages -> Nat]
    BY <1>4 DEF Insert, InsertButFail, RowsAfterInsert, TypeOK
  <2>. QED
    BY <1>4, <2>1, <2>2 DEF Insert, InsertButFail, GoTo, TypeOK, Locations, Handling
<1>5. ASSUME NEW c \in Consumers, Answers(c) PROVE TypeOK'
  <2>1. faults' \in 0..MaxFaults
    BY <1>5, FaultType DEF Answers, Answer
  <2>2. stream' \in [Messages -> {"waiting", "delivered", "acked", "terminated"}]
    BY <1>5 DEF Answers, Answer, Note, TypeOK
  <2>3. message' = [message EXCEPT ![c] = NoMessage] /\ UNCHANGED <<rows, shutdown, resends>>
    BY <1>5 DEF Answers, Answer
  <2>4. PICK l \in {"listening", "suspended"} : pc' = [pc EXCEPT ![c] = l]
    BY <1>5 DEF Answers, Answer, GoTo
  <2>. QED  BY <2>1, <2>2, <2>3, <2>4 DEF TypeOK, Locations, Handling
<1>6. ASSUME NEW c \in Consumers, Crash(c) PROVE TypeOK'
  <2>1. faults' \in 0..MaxFaults
    BY <1>6, FaultType DEF Crash
  <2>. QED  BY <1>6, <2>1 DEF Crash, GoTo, TypeOK, Locations, Handling
<1>7. ASSUME NEW m \in Messages, Redeliver(m) PROVE TypeOK'
  BY <1>7 DEF Redeliver, TypeOK
<1>. QED
  BY <1>1, <1>2, <1>3, <1>4, <1>5, <1>6, <1>7, ActCases DEF Next, Act

LEMMA InitType == Init => TypeOK
  BY NatsConsumerAssumption DEF Init, TypeOK, Locations, Handling

\* A consumer holds a message exactly while it handles it, and every variable
\* keeps its type, through crashes, lost answers and redeliveries.
THEOREM TypeCorrect == Spec => []TypeOK
  BY InitType, TypeStep, PTL DEF Spec

-----------------------------------------------------------------------------
(* Only stored messages are acknowledged. *)

LEMMA DeliveryStep == DeliveryInv /\ [Next]_vars => DeliveryInv'
<1>. SUFFICES ASSUME DeliveryInv, [Next]_vars PROVE AckedIsStored' /\ AckFollowsInsert'
  BY TypeStep DEF DeliveryInv
<1>. USE DEF DeliveryInv
<1>1. CASE UNCHANGED vars
  BY <1>1 DEF vars, AckedIsStored, AckFollowsInsert
<1>2. ASSUME NEW c \in Consumers, Quiet(c) PROVE AckedIsStored' /\ AckFollowsInsert'
  <2>1. PICK l \in Locations : /\ pc' = [pc EXCEPT ![c] = l]
                               /\ (l \in Handling) <=> (pc[c] \in Handling)
                               /\ (pc[c] \in Handling /\ l # pc[c])
                                     => l \in {"found", "naking", "terminating"}
    BY <1>2, QuietFacts
  <2>2. UNCHANGED <<stream, rows, message>>
    BY <1>2, QuietFacts
  <2>3. \A d \in Consumers : pc'[d] = "acking" => pc[d] = "acking"
    BY <2>1 DEF TypeOK, Handling
  <2>. QED  BY <2>2, <2>3 DEF AckedIsStored, AckFollowsInsert
<1>3. ASSUME NEW c \in Consumers, NEW m \in Messages, Receive(c, m)
      PROVE  AckedIsStored' /\ AckFollowsInsert'
  BY <1>3 DEF Receive, GoTo, TypeOK, AckedIsStored, AckFollowsInsert
<1>4. ASSUME NEW c \in Consumers, Insert(c) \/ InsertButFail(c)
      PROVE  AckedIsStored' /\ AckFollowsInsert'
  <2>1. message[c] \in Messages
    BY <1>4 DEF Insert, InsertButFail, TypeOK, Handling
  <2>2. rows' = [rows EXCEPT ![message[c]] = 1] /\ UNCHANGED <<stream, message>>
    BY <1>4 DEF Insert, InsertButFail, RowsAfterInsert
  <2>3. \A d \in Consumers \ {c} : pc'[d] = pc[d]
    BY <1>4 DEF Insert, InsertButFail, GoTo, TypeOK
  <2>4. \A d \in Consumers : pc[d] = "acking" => message[d] \in Messages
    BY DEF TypeOK, Handling
  <2>. QED  BY <2>1, <2>2, <2>3, <2>4 DEF TypeOK, AckedIsStored, AckFollowsInsert
<1>5. ASSUME NEW c \in Consumers, Answers(c) PROVE AckedIsStored' /\ AckFollowsInsert'
  <2>1. \A m \in Messages : stream'[m] = "acked" =>
           stream[m] = "acked" \/ (m = message[c] /\ pc[c] = "acking")
    BY <1>5 DEF Answers, Answer, Note, TypeOK
  <2>2. rows' = rows
    BY <1>5 DEF Answers, Answer
  <2>3. \A d \in Consumers : pc'[d] = "acking" => pc[d] = "acking" /\ message'[d] = message[d]
    BY <1>5 DEF Answers, Answer, GoTo, TypeOK
  <2>. QED  BY <2>1, <2>2, <2>3 DEF AckedIsStored, AckFollowsInsert
<1>6. ASSUME NEW c \in Consumers, Crash(c) PROVE AckedIsStored' /\ AckFollowsInsert'
  BY <1>6 DEF Crash, GoTo, TypeOK, AckedIsStored, AckFollowsInsert
<1>7. ASSUME NEW m \in Messages, Redeliver(m) PROVE AckedIsStored' /\ AckFollowsInsert'
  BY <1>7 DEF Redeliver, TypeOK, AckedIsStored, AckFollowsInsert
<1>. QED
  BY <1>1, <1>2, <1>3, <1>4, <1>5, <1>6, <1>7, ActCases DEF Next, Act

LEMMA InitDelivery == Init => DeliveryInv
  BY InitType DEF Init, DeliveryInv, AckedIsStored, AckFollowsInsert

\* No message is acknowledged before its row is in the event table.
THEOREM AcknowledgedIsStored == Spec => []AckedIsStored
<1>1. DeliveryInv => AckedIsStored
  BY DEF DeliveryInv
<1>. QED  BY <1>1, InitDelivery, DeliveryStep, PTL DEF Spec

-----------------------------------------------------------------------------
(* The consumer implements EventDelivery. *)

Dropped == {m \in Messages : GivenUp(m)}

\* A step that stores nothing, and gives up at most one message.
LEMMA DropOrStutter ==
  ASSUME NEW m, rows' = rows,
         \A n \in Messages \ {m} : GivenUp(n)' <=> GivenUp(n),
         m \in Messages => (GivenUp(m) => GivenUp(m)')
  PROVE  [Delivery!Next]_(Delivery!vars)
<1>. DEFINE DroppedNext == {n \in Messages : GivenUp(n)'}
<1>1. Dropped' = DroppedNext
  BY DEF Dropped
<1>2. CASE m \in Messages /\ GivenUp(m)' /\ ~GivenUp(m)
  <2>1. DroppedNext = Dropped \cup {m} /\ m \notin Dropped
    BY <1>2 DEF Dropped
  <2>2. rows[m] = 0
    BY <1>2 DEF GivenUp
  <2>3. Delivery!Drop(m)
    BY <1>1, <2>1, <2>2 DEF Delivery!Drop, Delivery!Pending, Dropped
  <2>. QED  BY <1>2, <2>3 DEF Delivery!Next, Delivery!Settle
<1>3. CASE ~(m \in Messages /\ GivenUp(m)' /\ ~GivenUp(m))
  <2>1. DroppedNext = Dropped
    BY <1>3 DEF Dropped
  <2>. QED  BY <1>1, <2>1 DEF Delivery!vars, Dropped
<1>. QED  BY <1>2, <1>3

\* An action of c that leaves the rows alone, settles at most the message m it
\* holds, and does not go back to handling it after it has failed.
LEMMA OwnMessageOnly ==
  ASSUME TypeOK, NEW c \in Consumers, NEW m, m = message[c], rows' = rows,
         \A n \in Messages \ {m} : stream'[n] = stream[n],
         m \in Messages => (stream[m] = "terminated" => stream'[m] = "terminated"),
         \A d \in Consumers \ {c} : pc'[d] = pc[d] /\ message'[d] = message[d],
         message'[c] \in {m, NoMessage},
         pc[c] = "terminating" => message'[c] = NoMessage \/ pc'[c] = "terminating"
  PROVE  [Delivery!Next]_(Delivery!vars)
<1>. USE NatsConsumerAssumption
<1>1. \A n \in Messages \ {m} : GivenUp(n)' <=> GivenUp(n)
  BY DEF GivenUp
<1>2. m \in Messages => (GivenUp(m) => GivenUp(m)')
  BY DEF GivenUp
<1>. QED  BY <1>1, <1>2, DropOrStutter

\* An insert of a message that has no row yet is a Store; nobody has given the
\* message up, because the inserting consumer holds it.
LEMMA InsertRefines ==
  ASSUME DeliveryInv, NEW c \in Consumers, Insert(c) \/ InsertButFail(c)
  PROVE  [Delivery!Next]_(Delivery!vars)
<1>. USE DEF DeliveryInv
<1>. DEFINE m == message[c]
<1>1. m \in Messages /\ pc[c] = "found"
  BY DEF Insert, InsertButFail, TypeOK, Handling
<1>2. rows' = [rows EXCEPT ![m] = 1] /\ UNCHANGED <<stream, message>>
  BY DEF Insert, InsertButFail, RowsAfterInsert
<1>3. /\ pc'[c] \in {"acking", "terminating"}
      /\ \A d \in Consumers \ {c} : pc'[d] = pc[d]
  BY DEF Insert, InsertButFail, GoTo, TypeOK
<1>4. m \notin Dropped
  BY <1>1 DEF Dropped, GivenUp
<1>5. \A n \in Messages : GivenUp(n)' <=> GivenUp(n)
  <2>. TAKE n \in Messages
  <2>1. CASE n = m
    BY <1>1, <1>2, <1>4, <2>1 DEF GivenUp, Dropped, TypeOK
  <2>2. CASE n # m
    BY <1>1, <1>2, <1>3, <2>2 DEF GivenUp, TypeOK
  <2>. QED  BY <2>1, <2>2
<1>6. Dropped' = Dropped
  BY <1>5 DEF Dropped
<1>. HIDE DEF m
<1>7. CASE rows[m] = 1
  <2>1. rows' = rows
    BY <1>2, <1>7 DEF TypeOK
  <2>. QED  BY <1>6, <2>1 DEF Delivery!vars, Dropped
<1>8. CASE rows[m] = 0
  <2>1. Delivery!Store(m)
    BY <1>2, <1>4, <1>6, <1>8 DEF Delivery!Store, Delivery!Pending, Dropped
  <2>. QED  BY <1>1, <2>1 DEF Delivery!Next, Delivery!Settle
<1>. QED  BY <1>1, <1>7, <1>8 DEF AckFollowsInsert

LEMMA StepRefines == DeliveryInv /\ [Next]_vars => [Delivery!Next]_(Delivery!vars)
<1>. SUFFICES ASSUME DeliveryInv, [Next]_vars PROVE [Delivery!Next]_(Delivery!vars)
  OBVIOUS
<1>. USE NatsConsumerAssumption DEF DeliveryInv
<1>1. CASE UNCHANGED vars
  <2>1. rows' = rows /\ \A n \in Messages : GivenUp(n)' <=> GivenUp(n)
    BY <1>1 DEF vars, GivenUp
  <2>. QED  BY <2>1, DropOrStutter
<1>2. ASSUME NEW c \in Consumers, Quiet(c) PROVE [Delivery!Next]_(Delivery!vars)
  <2>1. PICK l \in Locations : /\ pc' = [pc EXCEPT ![c] = l]
                               /\ (pc[c] \in Handling /\ l # pc[c])
                                     => pc[c] \in {"handling", "found"}
    BY <1>2, QuietFacts
  <2>2. UNCHANGED <<stream, rows, message>>
    BY <1>2, QuietFacts
  <2>3. pc[c] = "terminating" => pc'[c] = "terminating"
    BY <2>1 DEF TypeOK, Handling
  <2>4. \A d \in Consumers \ {c} : pc'[d] = pc[d] /\ message'[d] = message[d]
    BY <2>1, <2>2 DEF TypeOK
  <2>. QED  BY <2>2, <2>3, <2>4, OwnMessageOnly
<1>3. ASSUME NEW c \in Consumers, NEW m \in Messages, Receive(c, m)
      PROVE  [Delivery!Next]_(Delivery!vars)
  <2>1. message[c] = NoMessage
    BY <1>3 DEF Receive, TypeOK, Handling
  <2>2. \A n \in Messages : GivenUp(n)' <=> GivenUp(n)
    <3>. TAKE n \in Messages
    <3>1. CASE n = m
      BY <1>3, <3>1 DEF Receive, TypeOK, GivenUp
    <3>2. CASE n # m
      BY <1>3, <2>1, <3>2 DEF Receive, GoTo, TypeOK, GivenUp
    <3>. QED  BY <3>1, <3>2
  <2>3. rows' = rows
    BY <1>3 DEF Receive
  <2>. QED  BY <2>2, <2>3, DropOrStutter
<1>4. ASSUME NEW c \in Consumers, Insert(c) \/ InsertButFail(c)
      PROVE  [Delivery!Next]_(Delivery!vars)
  BY <1>4, InsertRefines
<1>5. ASSUME NEW c \in Consumers, Answers(c) PROVE [Delivery!Next]_(Delivery!vars)
  <2>1. \A n \in Messages \ {message[c]} : stream'[n] = stream[n]
    BY <1>5 DEF Answers, Answer, Note, TypeOK
  <2>2. message[c] \in Messages
          => (stream[message[c]] = "terminated" => stream'[message[c]] = "terminated")
    BY <1>5 DEF Answers, Answer, Note, TypeOK
  <2>3. /\ rows' = rows
        /\ message'[c] = NoMessage
        /\ \A d \in Consumers \ {c} : pc'[d] = pc[d] /\ message'[d] = message[d]
    BY <1>5 DEF Answers, Answer, GoTo, TypeOK
  <2>. QED  BY <2>1, <2>2, <2>3, OwnMessageOnly
<1>6. ASSUME NEW c \in Consumers, Crash(c) PROVE [Delivery!Next]_(Delivery!vars)
  <2>1. /\ UNCHANGED <<stream, rows>>
        /\ message'[c] = NoMessage
        /\ \A d \in Consumers \ {c} : pc'[d] = pc[d] /\ message'[d] = message[d]
    BY <1>6 DEF Crash, GoTo, TypeOK
  <2>. QED  BY <2>1, OwnMessageOnly
<1>7. ASSUME NEW m \in Messages, Redeliver(m) PROVE [Delivery!Next]_(Delivery!vars)
  <2>1. rows' = rows /\ \A n \in Messages : GivenUp(n)' <=> GivenUp(n)
    BY <1>7 DEF Redeliver, TypeOK, GivenUp
  <2>. QED  BY <2>1, DropOrStutter
<1>. QED
  BY <1>1, <1>2, <1>3, <1>4, <1>5, <1>6, <1>7, ActCases DEF Next, Act

\* Every step of the consumers, redeliveries, crashes and lost answers included,
\* stores one message that was pending, gives one up, or changes neither.
THEOREM ImplementsDelivery == Spec => Delivery!Init /\ [][Delivery!Next]_(Delivery!vars)
<1>1. Init => Delivery!Init
  BY DEF Init, Delivery!Init, GivenUp
<1>. QED  BY <1>1, InitDelivery, DeliveryStep, StepRefines, PTL DEF Spec
=============================================================================
