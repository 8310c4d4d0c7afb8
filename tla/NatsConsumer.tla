---------------------------- MODULE NatsConsumer ----------------------------
(***************************************************************************)
(* app/nats_consumer.rs: replicas of the service take conference events    *)
(* from one durable NATS consumer and insert them into the event table.    *)
(*                                                                         *)
(* NATS (external) delivers at least once: a message that is not           *)
(* acknowledged in time, or is negatively acknowledged, is delivered       *)
(* again, to any replica.  The unique constraint on                        *)
(* (entity_type, entity_event_id) makes the insert idempotent.             *)
(*                                                                         *)
(* Durations are left out: a sleep ends at some point.                     *)
(***************************************************************************)
EXTENDS Naturals

CONSTANTS
  Consumers,   \* replicas of the service
  Messages,    \* messages of the stream
  Roomless,    \* those whose classroom has no room
  NoMessage,
  Stopped,     \* replicas that are told to shut down at some point
  MaxFaults,   \* bound: failures of the network, the database or a process, but
               \* for the failures to subscribe, which are not counted
  MaxResends   \* bound: deliveries that are not due to a failure

ASSUME NatsConsumerAssumption ==
  /\ Roomless \subseteq Messages
  /\ NoMessage \notin Messages
  /\ Stopped \subseteq Consumers
  /\ MaxFaults \in Nat
  /\ MaxResends \in Nat

VARIABLES
  stream,    \* what NATS has noted of each message
  rows,      \* the number of rows of each message in the event table
  pc,        \* where each consumer is
  message,   \* the message it handles
  shutdown,  \* the replicas that were told to shut down
  faults,    \* how many failures there have been
  resends    \* how many deliveries came too soon

vars == <<stream, rows, pc, message, shutdown, faults, resends>>

Locations == {"subscribing", "sleeping", "listening", "handling", "found",
              "acking", "naking", "terminating", "suspended", "done"}
Handling == {"handling", "found", "acking", "naking", "terminating"}

TypeOK ==
  /\ stream \in [Messages -> {"waiting", "delivered", "acked", "terminated"}]
  /\ rows \in [Messages -> Nat]
  /\ pc \in [Consumers -> Locations]
  /\ message \in [Consumers -> Messages \cup {NoMessage}]
  /\ \A c \in Consumers : (pc[c] \in Handling) <=> (message[c] # NoMessage)
  /\ shutdown \subseteq Stopped
  /\ faults \in 0..MaxFaults
  /\ resends \in 0..MaxResends

Init ==
  /\ stream = [m \in Messages |-> "waiting"]
  /\ rows = [m \in Messages |-> 0]
  /\ pc = [c \in Consumers |-> "subscribing"]
  /\ message = [c \in Consumers |-> NoMessage]
  /\ shutdown = {}
  /\ faults = 0
  /\ resends = 0

\* A failure happens.
Fault ==
  /\ faults < MaxFaults
  /\ faults' = faults + 1

NoFault == UNCHANGED faults

GoTo(c, l) == pc' = [pc EXCEPT ![c] = l]

-----------------------------------------------------------------------------
(* run: the subscription. *)

Subscribe(c) ==
  /\ pc[c] = "subscribing"
  /\ GoTo(c, "listening")
  /\ NoFault
  /\ UNCHANGED <<stream, rows, message, shutdown, resends>>

\* The subscription fails: sleep for resubscribe_interval.  The loop does not look
\* at the shutdown signal, and nothing bounds how often this happens.
FailToSubscribe(c) ==
  /\ pc[c] = "subscribing"
  /\ NoFault
  /\ GoTo(c, "sleeping")
  /\ UNCHANGED <<stream, rows, message, shutdown, resends>>

\* CompletionReason::StreamClosed
CloseStream(c) ==
  /\ pc[c] = "listening"
  /\ Fault
  /\ GoTo(c, "sleeping")
  /\ UNCHANGED <<stream, rows, message, shutdown, resends>>

\* resubscribe_interval or suspend_interval is over.
Wake(c) ==
  /\ \/ pc[c] = "sleeping" /\ GoTo(c, "subscribing")
     \/ pc[c] = "suspended" /\ GoTo(c, "listening")
  /\ NoFault
  /\ UNCHANGED <<stream, rows, message, shutdown, resends>>

\* Faulty variant: the two completion reasons are mixed up.
StopAndResubscribe(c) ==
  /\ pc[c] = "listening"
  /\ c \in shutdown
  /\ GoTo(c, "sleeping")
  /\ NoFault
  /\ UNCHANGED <<stream, rows, message, shutdown, resends>>

\* The other branch of select!: CompletionReason::Shutdown.
Stop(c) ==
  /\ pc[c] = "listening"
  /\ c \in shutdown
  /\ GoTo(c, "done")
  /\ NoFault
  /\ UNCHANGED <<stream, rows, message, shutdown, resends>>

-----------------------------------------------------------------------------
(* handle_stream and handle_message *)

Receive(c, m) ==
  /\ pc[c] = "listening"
  /\ stream[m] = "waiting"
  /\ stream' = [stream EXCEPT ![m] = "delivered"]
  /\ message' = [message EXCEPT ![c] = m]
  /\ GoTo(c, "handling")
  /\ NoFault
  /\ UNCHANGED <<rows, shutdown, resends>>

\* The first connection is there and finds the room.
FindRoom(c) ==
  /\ pc[c] = "handling"
  /\ message[c] \notin Roomless
  /\ GoTo(c, "found")
  /\ NoFault
  /\ UNCHANGED <<stream, rows, message, shutdown, resends>>

\* HandleMessageError::Other before the insert: no room, a message that does not
\* parse, or a query that fails.
FailToHandle(c) ==
  /\ pc[c] \in {"handling", "found"}
  /\ IF message[c] \in Roomless THEN NoFault ELSE Fault
  /\ GoTo(c, "terminating")
  /\ UNCHANGED <<stream, rows, message, shutdown, resends>>

\* HandleMessageError::DbConnAcquisitionFailed, for either connection.
FailToAcquire(c) ==
  /\ pc[c] \in {"handling", "found"}
  /\ Fault
  /\ GoTo(c, "naking")
  /\ UNCHANGED <<stream, rows, message, shutdown, resends>>

\* Faulty variant: no unique constraint.
RowsWithoutConstraint(m) == rows[m] + 1

\* A second row would violate uniq_entity_type_entity_event_id.
RowsAfterInsert(m) == 1

\* The row is inserted, or the constraint says it is already there: Ok(()).
Insert(c) ==
  /\ pc[c] = "found"
  /\ rows' = [rows EXCEPT ![message[c]] = RowsAfterInsert(message[c])]
  /\ GoTo(c, "acking")
  /\ NoFault
  /\ UNCHANGED <<stream, message, shutdown, resends>>

\* The connection is lost after the insert committed: an error that is not the
\* constraint's.
InsertButFail(c) ==
  /\ pc[c] = "found"
  /\ Fault
  /\ rows' = [rows EXCEPT ![message[c]] = RowsAfterInsert(message[c])]
  /\ GoTo(c, "terminating")
  /\ UNCHANGED <<stream, message, shutdown, resends>>

\* What NATS notes when it receives an acknowledgement; a settled message stays
\* settled.
Note(m, what) ==
  stream' = [stream EXCEPT ![m] = IF @ \in {"acked", "terminated"} THEN @ ELSE what]

\* The answer is sent; it reaches NATS or not, and only a log line tells.
Answer(c, what, next) ==
  /\ \/ Note(message[c], what) /\ NoFault
     \/ UNCHANGED stream /\ Fault
  /\ message' = [message EXCEPT ![c] = NoMessage]
  /\ GoTo(c, next)
  /\ UNCHANGED <<rows, shutdown, resends>>

\* Faulty variant: a message that could not be handled is acknowledged.
AckAndSuspend(c) == pc[c] = "naking" /\ Answer(c, "acked", "suspended")

Ack(c) == pc[c] = "acking" /\ Answer(c, "acked", "listening")
Nak(c) == pc[c] = "naking" /\ Answer(c, "waiting", "suspended")
Terminate(c) == pc[c] = "terminating" /\ Answer(c, "terminated", "listening")

-----------------------------------------------------------------------------
(* The environment. *)

\* A signal for graceful shutdown.
Shutdown(c) ==
  /\ c \in Stopped \ shutdown
  /\ shutdown' = shutdown \cup {c}
  /\ UNCHANGED <<stream, rows, pc, message, faults, resends>>

\* A process dies; it is started again unless it was told to shut down.
Crash(c) ==
  /\ pc[c] # "done"
  /\ Fault
  /\ GoTo(c, IF c \in shutdown THEN "done" ELSE "subscribing")
  /\ message' = [message EXCEPT ![c] = NoMessage]
  /\ UNCHANGED <<stream, rows, shutdown, resends>>

\* The acknowledgement timeout: the message is delivered again, because nobody
\* will answer or because whoever handles it is slow.
Redeliver(m) ==
  /\ stream[m] = "delivered"
  /\ stream' = [stream EXCEPT ![m] = "waiting"]
  /\ IF \E c \in Consumers : message[c] = m
     THEN resends < MaxResends /\ resends' = resends + 1
     ELSE UNCHANGED resends
  /\ UNCHANGED <<rows, pc, message, shutdown, faults>>

-----------------------------------------------------------------------------

Fail(c) ==
  \/ FailToSubscribe(c)
  \/ CloseStream(c)
  \/ InsertButFail(c)
  \/ FailToAcquire(c)
  \/ Crash(c)

Step(c) ==
  \/ Subscribe(c)
  \/ Wake(c)
  \/ \E m \in Messages : Receive(c, m)
  \/ FindRoom(c)
  \/ FailToHandle(c)
  \/ Insert(c)
  \/ Ack(c)
  \/ Nak(c)
  \/ Terminate(c)

Next ==
  \/ \E c \in Consumers : Step(c) \/ Fail(c) \/ Stop(c) \/ Shutdown(c)
  \/ \E m \in Messages : Redeliver(m)

\* A consumer's task is polled until it waits; select! tries its branches in
\* random order, so a pending shutdown is not passed over forever; NATS delivers
\* again what was not acknowledged, and lets a replica that stays subscribe in the
\* end.  Nothing of the kind is assumed for a replica that is to stop.
Fairness ==
  /\ \A c \in Consumers : WF_vars(Step(c)) /\ SF_vars(Stop(c))
  /\ \A c \in Consumers \ Stopped : SF_vars(Subscribe(c))
  /\ \A m \in Messages : WF_vars(Redeliver(m))

Spec == Init /\ [][Next]_vars /\ Fairness

-----------------------------------------------------------------------------
(* What the consumer promises. *)

\* A message is acknowledged only when its row is there: an acknowledged message
\* is never delivered again.
AckedIsStored ==
  \A m \in Messages : stream[m] = "acked" => rows[m] > 0

\* Nobody will store the message any more.
GivenUp(m) ==
  /\ rows[m] = 0
  /\ stream[m] = "terminated"
  /\ \A c \in Consumers : message[c] = m => pc[c] = "terminating"

Delivery == INSTANCE EventDelivery WITH dropped <- {m \in Messages : GivenUp(m)}

\* However messages are redelivered, replicas crash and acknowledgements are
\* lost, every message ends up as one row or is given up.
ExactlyOnceOrDropped == Delivery!Spec

\* The loop of run, outside handle_stream.
Retrying(c) == pc[c] \in {"subscribing", "sleeping"}

\* A replica that is told to shut down does, and so the process can end, for main
\* waits for the consumer's task; unless from some time on it only fails to
\* subscribe, since the loop that tries again does not look at the signal.
ShutdownCompletes ==
  \A c \in Consumers : (c \in shutdown) ~> (pc[c] = "done" \/ []Retrying(c))

-----------------------------------------------------------------------------
(* The inductive invariant behind AckedIsStored and the refinement. *)

\* A message has at most one row, and has it when a consumer is about to
\* acknowledge it.
AckFollowsInsert ==
  /\ \A m \in Messages : rows[m] \in {0, 1}
  /\ \A c \in Consumers : pc[c] = "acking" => rows[message[c]] = 1

DeliveryInv == TypeOK /\ AckedIsStored /\ AckFollowsInsert
=============================================================================
