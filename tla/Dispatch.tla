------------------------------ MODULE Dispatch ------------------------------
(***************************************************************************)
(* The service around its handlers: a message comes from the MQTT broker   *)
(* or over HTTP, its handler's notifications and its response are sent     *)
(* one by one, a task it has spawned is awaited, and a signal ends the     *)
(* process in between.                                                     *)
(*                                                                         *)
(* room.dump_events stands for the requests that leave a task; the task is *)
(* that of DumpEvents.                                                     *)
(***************************************************************************)
EXTENDS DumpEvents, Sequences, FiniteSets

CONSTANTS
  Others,            \* messages that leave no task
  MaxNotifications,  \* bound: notifications of one request
  MaxReconnections   \* bound: reconnections to the broker

ASSUME DispatchAssumption == MaxNotifications \in Nat /\ MaxReconnections \in Nat

Messages == Others \cup Dumps

VARIABLES
  service,        \* where run() is
  consumer,       \* the task of the NATS consumer
  connection,     \* to the broker
  packets,        \* what the client has for the broker: a SUBSCRIBE or UNSUBSCRIBE each
  subscribed,     \* the topics the broker sends to this process
  notices,        \* AgentNotification::Reconnection, not yet handled
  deaf,           \* history: subscribing again has failed, and not succeeded since
  reconnections,  \* how often the connection was restored
  message         \* the state of each message

runVars == <<service, consumer>>

brokerVars == <<connection, packets, subscribed, notices, deaf, reconnections>>

dispatchVars == <<runVars, brokerVars, message>>

vars == <<dumpVars, dispatchVars>>

Topics == {"multicast", "unicast"}

Packets == {"subscribe", "unsubscribe"} \X Topics

\* subscribe and unsubscribe hand two packets to the client; nothing waits for the
\* broker's Suback or Unsuback.
Both(what) == <<<<what, "multicast">>, <<what, "unicast">>>>

Alive == service \in {"running", "stopping", "draining", "closing", "leaving"}

\* What is sent for a message: notifications, one answer, the result of its task.
Answers == {"response", "error"}

Outgoing == Answers \cup {"note", "result"}

MessageState ==
  [pc : {"sent", "queued", "handling", "publishing", "ended"},
   via : {"none", "mqtt", "http"}, kind : {"request", "event", "response"},
   notes : 0..MaxNotifications,   \* notifications of the handler
   left : Seq(Outgoing), out : Seq(Outgoing),   \* still to send; sent
   awaits : BOOLEAN,   \* the task's handle is in the stream of messages
   failed : BOOLEAN]   \* history: something could not be sent, or a panic

Sent == [pc |-> "sent", via |-> "none", kind |-> "request", notes |-> 0, left |-> <<>>,
         out |-> <<>>, awaits |-> FALSE, failed |-> FALSE]

\* run() has subscribed, and has started the NATS consumer if one is configured.
Init ==
  /\ DumpInit
  /\ service = "running"
  /\ consumer \in {"subscribing", "ended"}
  /\ connection = "up"
  /\ packets = Both("subscribe")
  /\ subscribed = {}
  /\ notices = 0
  /\ deaf = FALSE
  /\ reconnections = 0
  /\ message = [m \in Messages |-> Sent]

Set(m, state) == message' = [message EXCEPT ![m] = state]

-----------------------------------------------------------------------------
(* Messages come in. *)

\* The broker sends a message to this process: it is in main_loop's channel.
Deliver(m, kind) ==
  /\ Alive
  /\ connection = "up"
  /\ subscribed # {}
  /\ message[m].pc = "sent"
  /\ m \in Dumps => kind = "request"
  /\ Set(m, [message[m] EXCEPT !.pc = "queued", !.via = "mqtt", !.kind = kind])
  /\ UNCHANGED <<dumpVars, runVars, brokerVars>>

\* main_loop spawns a task for each message, whatever run() does.
Spawn(m) ==
  /\ Alive
  /\ message[m].pc = "queued"
  /\ Set(m, [message[m] EXCEPT !.pc = "handling"])
  /\ UNCHANGED <<dumpVars, runVars, brokerVars>>

\* The HTTP server accepts a request until it is told to stop.
AcceptHttp(m) ==
  /\ service \in {"running", "stopping"}
  /\ message[m].pc = "sent"
  /\ Set(m, [message[m] EXCEPT !.pc = "handling", !.via = "http"])
  /\ UNCHANGED <<dumpVars, runVars, brokerVars>>

-----------------------------------------------------------------------------
(* Messages are handled. *)

Notes(n) == [i \in 1..n |-> "note"]

\* The handler returns a Response: into_mqtt_messages and NotificationsMiddleware
\* put its notifications before the response.  No handler returns 204.
HandleRequest(m, n) ==
  /\ Alive
  /\ message[m].pc = "handling"
  /\ message[m].kind = "request"
  /\ m \notin Dumps
  /\ Set(m, [message[m] EXCEPT !.pc = "publishing", !.notes = n,
                               !.left = Append(Notes(n), "response")])
  /\ UNCHANGED <<dumpVars, runVars, brokerVars>>

\* EventsDumpHandler has spawned its task.
HandleDump(d) ==
  /\ Alive
  /\ message[d].pc = "handling"
  /\ Accept(d)
  /\ Set(d, [message[d] EXCEPT !.pc = "publishing", !.left = <<"response">>, !.awaits = TRUE])
  /\ UNCHANGED <<runVars, brokerVars>>

\* Faulty variant: over MQTT an error leads to nothing, as it does for events.
HandleErrorSilently(m) ==
  /\ Alive
  /\ message[m].pc = "handling"
  /\ message[m].kind = "request"
  /\ Set(m, IF message[m].via = "mqtt" THEN [message[m] EXCEPT !.pc = "ended"]
            ELSE [message[m] EXCEPT !.pc = "publishing", !.left = <<"error">>])
  /\ UNCHANGED <<dumpVars, runVars, brokerVars>>

\* An unknown method, a payload that cannot be parsed, or an error of the handler.
HandleError(m) ==
  /\ Alive
  /\ message[m].pc = "handling"
  /\ message[m].kind = "request"
  /\ Set(m, [message[m] EXCEPT !.pc = "publishing", !.left = <<"error">>])
  /\ UNCHANGED <<dumpVars, runVars, brokerVars>>

\* Events may lead to a notification; an unknown or missing label, a bad payload or
\* an error of the handler leads to nothing.
HandleEvent(m, n) ==
  /\ Alive
  /\ message[m].pc = "handling"
  /\ message[m].kind = "event"
  /\ n <= 1
  /\ Set(m, [message[m] EXCEPT !.pc = IF n = 0 THEN "ended" ELSE "publishing",
                               !.notes = n, !.left = Notes(n)])
  /\ UNCHANGED <<dumpVars, runVars, brokerVars>>

\* Responses go to the dispatcher, or are reported as errors.
HandleResponse(m) ==
  /\ Alive
  /\ message[m].pc = "handling"
  /\ message[m].kind = "response"
  /\ Set(m, [message[m] EXCEPT !.pc = "ended"])
  /\ UNCHANGED <<dumpVars, runVars, brokerVars>>

\* A handler that panics takes its task, or its HTTP connection, with it.
Panic(m) ==
  /\ Alive
  /\ message[m].pc = "handling"
  /\ Set(m, [message[m] EXCEPT !.pc = "ended", !.failed = TRUE])
  /\ UNCHANGED <<dumpVars, runVars, brokerVars>>

-----------------------------------------------------------------------------
(* Messages go out. *)

\* The rest of a message's stream after its head.
Rest(s) == [s EXCEPT !.left = Tail(@), !.pc = IF Len(s.left) = 1 THEN "ended" ELSE @]

\* The head of the stream is published, or the HTTP response returned.
Publish(m) ==
  /\ Alive
  /\ message[m].pc = "publishing"
  /\ Set(m, Rest([message[m] EXCEPT !.out = Append(@, Head(message[m].left))]))
  /\ UNCHANGED <<dumpVars, runVars, brokerVars>>

\* Faulty variant: both go on with the next message.
AfterFailureGoOn(s) == [Rest(s) EXCEPT !.failed = TRUE]

\* publish_outgoing_messages returns and drops the stream, the handle of a task
\* with it; NotificationsMiddleware goes on with the next notification.
AfterFailure(s) ==
  IF s.via = "mqtt"
  THEN [s EXCEPT !.pc = "ended", !.left = <<>>, !.awaits = FALSE, !.failed = TRUE]
  ELSE [Rest(s) EXCEPT !.failed = TRUE]

FailToPublish(m) ==
  /\ Alive
  /\ message[m].pc = "publishing"
  /\ message[m].via = "http" => Head(message[m].left) = "note"
  /\ Set(m, AfterFailure(message[m]))
  /\ UNCHANGED <<dumpVars, runVars, brokerVars>>

\* The task has ended and its message is next: over MQTT it comes after the response,
\* over HTTP a spawned task waits for it from the last notification on.
ResultIsNext(d) ==
  /\ message[d].awaits
  /\ pc[d] = "finished"
  /\ IF message[d].via = "mqtt" THEN message[d].left = <<>>
     ELSE \A i \in DOMAIN message[d].left : message[d].left[i] # "note"

PublishResult(d) ==
  /\ Alive
  /\ ResultIsNext(d)
  /\ Set(d, [message[d] EXCEPT !.awaits = FALSE, !.out = Append(@, "result")])
  /\ UNCHANGED <<dumpVars, runVars, brokerVars>>

FailToPublishResult(d) ==
  /\ Alive
  /\ ResultIsNext(d)
  /\ Set(d, [message[d] EXCEPT !.awaits = FALSE, !.failed = TRUE])
  /\ UNCHANGED <<dumpVars, runVars, brokerVars>>

-----------------------------------------------------------------------------
(* The connection to the broker. *)

\* The broker handles a packet.
Handle ==
  /\ Alive
  /\ connection = "up"
  /\ packets # <<>>
  /\ packets' = Tail(packets)
  /\ subscribed' = IF Head(packets)[1] = "subscribe" THEN subscribed \cup {Head(packets)[2]}
                    ELSE subscribed \ {Head(packets)[2]}
  /\ UNCHANGED <<dumpVars, runVars, connection, notices, deaf, reconnections, message>>

\* The session ends, and its subscriptions with it; packets that were on their way are
\* lost, those that were not stay with the client.
Disconnect ==
  /\ Alive
  /\ connection = "up"
  /\ reconnections < MaxReconnections
  /\ connection' = "down"
  /\ \E n \in 0..Len(packets) : packets' = SubSeq(packets, n + 1, Len(packets))
  /\ subscribed' = {}
  /\ UNCHANGED <<dumpVars, runVars, notices, deaf, reconnections, message>>

Reconnect ==
  /\ Alive
  /\ connection = "down"
  /\ connection' = "up"
  /\ notices' = notices + 1
  /\ reconnections' = reconnections + 1
  /\ UNCHANGED <<dumpVars, runVars, packets, subscribed, deaf, message>>

\* Faulty variant: the service does not subscribe again.
ResubscribeNot ==
  /\ Alive
  /\ notices > 0
  /\ notices' = notices - 1
  /\ UNCHANGED <<dumpVars, runVars, connection, packets, subscribed, deaf, reconnections, message>>

\* AgentNotification::Reconnection: handled also while the service is stopping, and
\* perhaps when the connection is lost again.
Resubscribe ==
  /\ Alive
  /\ notices > 0
  /\ notices' = notices - 1
  /\ packets' = packets \o Both("subscribe")
  /\ deaf' = FALSE
  /\ UNCHANGED <<dumpVars, runVars, connection, subscribed, reconnections, message>>

\* The client takes none of the two packets, or only the first: the error is logged.
FailToResubscribe ==
  /\ Alive
  /\ notices > 0
  /\ notices' = notices - 1
  /\ packets' \in {packets, Append(packets, <<"subscribe", "multicast">>)}
  /\ deaf' = TRUE
  /\ UNCHANGED <<dumpVars, runVars, connection, subscribed, reconnections, message>>

-----------------------------------------------------------------------------
(* The NATS consumer, as far as run() depends on it; NatsConsumer tells the rest. *)

\* nats_client.subscribe has succeeded; while it fails, the loop tries again for ever
\* and does not look at the shutdown signal.
Consume ==
  /\ Alive
  /\ consumer = "subscribing"
  /\ consumer' = "serving"
  /\ UNCHANGED <<dumpVars, service, brokerVars, message>>

\* CompletionReason::StreamClosed
StreamClosed ==
  /\ Alive
  /\ consumer = "serving"
  /\ consumer' = "subscribing"
  /\ UNCHANGED <<dumpVars, service, brokerVars, message>>

\* Faulty variant: graceful_tx.send comes after consumer.await.
ConsumerEndsLate ==
  /\ service = "closing"
  /\ consumer = "serving"
  /\ consumer' = "ended"
  /\ UNCHANGED <<dumpVars, service, brokerVars, message>>

\* CompletionReason::Shutdown: handle_stream has seen the signal.
ConsumerEnds ==
  /\ service = "draining"
  /\ consumer = "serving"
  /\ consumer' = "ended"
  /\ UNCHANGED <<dumpVars, service, brokerVars, message>>

-----------------------------------------------------------------------------
(* The end of the process. *)

Signal ==
  /\ service = "running"
  /\ service' = "stopping"
  /\ UNCHANGED <<dumpVars, consumer, brokerVars, message>>

\* unsubscribe, and graceful_tx.send to the HTTP server and the NATS consumer
Unsubscribe ==
  /\ service = "stopping"
  /\ service' = "draining"
  /\ packets' = packets \o Both("unsubscribe")
  /\ UNCHANGED <<dumpVars, consumer, connection, subscribed, notices, deaf, reconnections, message>>

\* An error ends run() at once.
FailToUnsubscribe ==
  /\ service = "stopping"
  /\ service' = "failed"
  /\ UNCHANGED <<dumpVars, consumer, brokerVars, message>>

\* consumer.await, and then metrics_task.shutdown
AwaitConsumer ==
  /\ service = "draining"
  /\ consumer = "ended"
  /\ service' = "closing"
  /\ UNCHANGED <<dumpVars, consumer, brokerVars, message>>

\* Faulty variant: run() does not wait for the HTTP server.
DrainNot ==
  /\ service = "closing"
  /\ service' = "leaving"
  /\ UNCHANGED <<dumpVars, consumer, brokerVars, message>>

\* http_task ends when the requests it has accepted are answered.
DrainHttp ==
  /\ service = "closing"
  /\ \A m \in Messages :
       message[m].via = "http" => message[m].pc \notin {"handling", "publishing"}
  /\ service' = "leaving"
  /\ UNCHANGED <<dumpVars, consumer, brokerVars, message>>

\* Three seconds later the process exits, whatever is running.
Exit ==
  /\ service = "leaving"
  /\ service' = "exited"
  /\ UNCHANGED <<dumpVars, consumer, brokerVars, message>>

-----------------------------------------------------------------------------
Run(m) ==
  \/ Spawn(m)
  \/ \E n \in 0..MaxNotifications : HandleRequest(m, n) \/ HandleEvent(m, n)
  \/ HandleError(m) \/ HandleResponse(m) \/ Panic(m)
  \/ Publish(m) \/ FailToPublish(m)

RunDump(d) ==
  HandleDump(d) \/ Run(d) \/ PublishResult(d) \/ FailToPublishResult(d)

RunTask(d) == Alive /\ Task(d) /\ UNCHANGED dispatchVars

Broker == Handle \/ Disconnect \/ Reconnect \/ Resubscribe \/ FailToResubscribe

Consumer == Consume \/ StreamClosed \/ ConsumerEnds

Stop == Unsubscribe \/ AwaitConsumer \/ DrainHttp \/ Exit

Next ==
  \/ \E m \in Messages, kind \in {"request", "event", "response"} : Deliver(m, kind)
  \/ \E m \in Messages : AcceptHttp(m)
  \/ \E m \in Others : Run(m)
  \/ \E d \in Dumps : RunDump(d) \/ RunTask(d)
  \/ Broker \/ Consumer
  \/ Signal \/ Stop \/ FailToUnsubscribe

\* Spawned tasks are polled until they end, and so is run().  handle_stream looks at the
\* signal each time it is entered and before each message.
Fairness ==
  /\ \A m \in Others : WF_vars(Run(m))
  /\ \A d \in Dumps : WF_vars(RunDump(d)) /\ WF_vars(RunTask(d))
  /\ WF_vars(Stop)
  /\ SF_vars(ConsumerEnds)

Spec == Init /\ [][Next]_vars /\ Fairness

-----------------------------------------------------------------------------
TypeOK ==
  /\ DumpTypeOK
  /\ service \in {"running", "stopping", "draining", "closing", "leaving", "exited", "failed"}
  /\ consumer \in {"subscribing", "serving", "ended"}
  /\ connection \in {"up", "down"}
  /\ packets \in Seq(Packets)
  /\ subscribed \subseteq Topics
  /\ notices \in Nat
  /\ deaf \in BOOLEAN
  /\ reconnections \in 0..MaxReconnections
  /\ message \in [Messages -> MessageState]

Answered(m) == \E i \in DOMAIN message[m].out : message[m].out[i] \in Answers

Count(m, what) == Cardinality({i \in DOMAIN message[m].out : message[m].out[i] \in what})

\* A request is answered at most once, nothing else is; and a client that gets the
\* response to an MQTT request knows that all its notifications went out before, and
\* the result of its task did not.
AnswerIsLast ==
  \A m \in Messages :
    LET out == message[m].out
    IN /\ Count(m, Answers) <= IF message[m].kind = "request" THEN 1 ELSE 0
       /\ message[m].via = "mqtt" => \A i \in DOMAIN out : out[i] = "response" =>
            i = message[m].notes + 1 /\ \A j \in 1..i - 1 : out[j] = "note"

\* However the connection comes and goes, and whatever it takes of the packets with it:
\* once a running service is connected, has handled the notices of its reconnections and
\* the broker its packets, it hears its clients, unless the client refused the packets of
\* the last resubscription, which is only logged.
Listens ==
  (service = "running" /\ connection = "up" /\ notices = 0 /\ packets = <<>> /\ ~deaf) =>
    subscribed = Topics

\* "Running requests left": when the process exits, the NATS consumer has ended and
\* every HTTP request that was accepted is answered or panicked.
GracefulExit ==
  service = "exited" =>
    /\ consumer = "ended"
    /\ \A m \in Messages : message[m].via = "http" => Answered(m) \/ message[m].failed

\* Every request is answered, unless something could not be published or its handler
\* panicked, or the process ends first, which it does not for an HTTP request if it
\* could unsubscribe.
RequestAnswered ==
  \A m \in Messages :
    message[m].pc \in {"queued", "handling"} /\ message[m].kind = "request"
    ~> \/ Answered(m)
       \/ message[m].failed
       \/ service = "failed"
       \/ service = "exited" /\ message[m].via = "mqtt"

\* "The actual result comes with a notification": every accepted dump ends with one,
\* even if S3 never works, unless it cannot be published, its response could not, or
\* the process ends, which does not wait for tasks.
DumpAnswered ==
  \A d \in Dumps :
    pc[d] = "accepted" ~>
      Count(d, {"result"}) = 1 \/ message[d].failed \/ service \in {"exited", "failed"}

\* A signal ends the process, whatever is running, unless the NATS consumer can no longer
\* subscribe: run() then waits for it for ever.
StopCompletes ==
  service = "stopping" ~>
    service \in {"exited", "failed"} \/ [](consumer = "subscribing")

-----------------------------------------------------------------------------
(* The inductive invariant behind GracefulExit. *)

\* An HTTP request is on its way to its answer.
HttpAnswered(s) ==
  s.via = "http" =>
    /\ s.kind = "request"
    /\ s.pc \in {"handling", "publishing", "ended"}
    /\ s.pc = "publishing" => s.left # <<>> /\ s.left[Len(s.left)] \in Answers
    /\ s.pc = "ended" => s.failed \/ \E i \in DOMAIN s.out : s.out[i] \in Answers

\* A message that is being published has more to publish; one that has not come yet
\* may be a request.
PublishingHasMore(s) ==
  (s.pc = "publishing" => s.left # <<>>) /\ (s.pc = "sent" => s.kind = "request")

MessagesOK ==
  \A m \in Messages : HttpAnswered(message[m]) /\ PublishingHasMore(message[m])

Drained ==
  /\ service \in {"closing", "leaving", "exited"} => consumer = "ended"
  /\ service \in {"leaving", "exited"} =>
       \A m \in Messages : message[m].via = "http" => message[m].pc = "ended"

\* A lost connection may be restored.
MayReconnect == connection = "down" => reconnections < MaxReconnections

GracefulInv == TypeOK /\ MayReconnect /\ MessagesOK /\ Drained

-----------------------------------------------------------------------------
(* The inductive invariant behind Listens. *)

\* The client is about to subscribe to a topic.
Announced(t) == \E i \in DOMAIN packets : packets[i][2] = t

\* While the service runs all packets subscribe, and what is not subscribed is announced.
ListensInv ==
  service = "running" =>
    /\ packets \in Seq({"subscribe"} \X Topics)
    /\ connection = "up" /\ notices = 0 /\ ~deaf =>
         \A t \in Topics : t \in subscribed \/ Announced(t)

-----------------------------------------------------------------------------
(* The inductive invariant behind AnswerIsLast. *)

\* Nothing is sent for a message before its handler has ended.
NothingYet(s) ==
  s.pc \in {"sent", "queued", "handling"} =>
    s.left = <<>> /\ s.out = <<>> /\ s.notes = 0 /\ ~s.awaits

\* The answer, only to a request, is the last of what is left to send, after
\* notifications, or was sent once.
OneAnswer(s) ==
  /\ \A i \in DOMAIN s.left :
       /\ s.left[i] # "result"
       /\ s.left[i] \in Answers => s.kind = "request" /\ i = Len(s.left)
  /\ \A i \in DOMAIN s.out : s.out[i] \in Answers =>
       /\ s.kind = "request"
       /\ \A j \in DOMAIN s.out : s.out[j] \in Answers => i = j
       /\ \A j \in DOMAIN s.left : s.left[j] \notin Answers

\* Over MQTT nothing is skipped: the response is where the number of notifications
\* puts it.
MqttInOrder(s) ==
  s.via = "mqtt" =>
    /\ \A i \in DOMAIN s.left : s.left[i] = "response" => Len(s.out) + Len(s.left) = s.notes + 1
    /\ s.left # <<>> => \A i \in DOMAIN s.out : s.out[i] = "note"
    /\ \A i \in DOMAIN s.out : s.out[i] = "response" =>
         i = s.notes + 1 /\ \A j \in 1..i - 1 : s.out[j] = "note"

StreamOK(s) == NothingYet(s) /\ OneAnswer(s) /\ MqttInOrder(s)

AnswerInv ==
  /\ \A m \in Messages : StreamOK(message[m])
  /\ \A d \in Dumps : message[d].kind = "request"
=============================================================================
