--------------------------- MODULE DispatchProofs ---------------------------
(***************************************************************************)
(* Proofs about Dispatch: for any number of messages, notifications and    *)
(* reconnections, the service hears its clients, answers a request once    *)
(* and last, ends gracefully and reports what its tasks have done.         *)
(***************************************************************************)
EXTENDS Dispatch, FiniteSetTheorems, TLAPS

-----------------------------------------------------------------------------
(* Message states. *)

\* What the steps need to know of a message's state.
StateOK(s) == s \in MessageState /\ HttpAnswered(s) /\ PublishingHasMore(s)

LEMMA NotesType ==
  ASSUME NEW n \in 0..MaxNotifications
  PROVE  /\ Notes(n) \in Seq(Outgoing) /\ Len(Notes(n)) = n
         /\ Append(Notes(n), "response") \in Seq(Outgoing)
         /\ Len(Append(Notes(n), "response")) = n + 1
         /\ Append(Notes(n), "response")[n + 1] = "response"
<1>1. n \in Nat
  BY DispatchAssumption
<1>2. Notes(n) \in Seq(Outgoing) /\ Len(Notes(n)) = n
  BY <1>1 DEF Notes, Outgoing
<1>3. "response" \in Outgoing
  BY DEF Outgoing, Answers
<1>. QED  BY <1>1, <1>2, <1>3

\* The rest of a stream keeps its last message.
LEMMA RestType ==
  ASSUME NEW s \in MessageState, s.pc = "publishing", s.left # <<>>
  PROVE  /\ Rest(s) \in MessageState
         /\ Rest(s).via = s.via /\ Rest(s).kind = s.kind
         /\ Rest(s).out = s.out /\ Rest(s).failed = s.failed
         /\ Rest(s).pc \in {"publishing", "ended"}
         /\ Rest(s).pc = "ended" <=> Len(s.left) = 1
         /\ Rest(s).pc = "publishing" =>
              Rest(s).left # <<>> /\ Rest(s).left[Len(Rest(s).left)] = s.left[Len(s.left)]
<1>1. s.left \in Seq(Outgoing) /\ Tail(s.left) \in Seq(Outgoing)
      /\ Len(s.left) \in Nat \ {0} /\ Len(Tail(s.left)) = Len(s.left) - 1
  BY DEF MessageState
<1>2. Rest(s) \in MessageState
  BY <1>1 DEF Rest, MessageState
<1>3. Len(s.left) # 1 => Tail(s.left) # <<>> /\
        Tail(s.left)[Len(Tail(s.left))] = s.left[Len(s.left)]
  <2>. SUFFICES ASSUME Len(s.left) # 1
                PROVE  Tail(s.left) # <<>> /\
                       Tail(s.left)[Len(Tail(s.left))] = s.left[Len(s.left)]
    OBVIOUS
  <2>1. \A n \in Nat \ {0, 1} : n - 1 \in Nat \ {0} /\ n - 1 \in 1..n - 1 /\ (n - 1) + 1 = n
    OBVIOUS
  <2>2. /\ Len(Tail(s.left)) \in Nat \ {0}
        /\ Len(Tail(s.left)) \in 1..Len(Tail(s.left))
        /\ Len(Tail(s.left)) + 1 = Len(s.left)
    BY ONLY <1>1, <2>1, Len(s.left) # 1
  <2>3. \A i \in 1..Len(Tail(s.left)) : Tail(s.left)[i] = s.left[i + 1]
    BY <1>1
  <2>4. Tail(s.left)[Len(Tail(s.left))] = s.left[Len(Tail(s.left)) + 1]
    BY <2>2, <2>3
  <2>5. Len(<<>>) = 0
    OBVIOUS
  <2>. QED  BY ONLY <2>2, <2>4, <2>5
<1>4. Rest(s).left = Tail(s.left) /\ Rest(s).pc = (IF Len(s.left) = 1 THEN "ended" ELSE s.pc)
  BY DEF Rest, MessageState
<1>5. /\ Rest(s).via = s.via /\ Rest(s).kind = s.kind
      /\ Rest(s).out = s.out /\ Rest(s).failed = s.failed
  BY DEF Rest, MessageState
<1>. QED  BY <1>2, <1>3, <1>4, <1>5

\* One message changes its state.
LEMMA SetMessage ==
  ASSUME TypeOK, MessagesOK, NEW m \in Messages, NEW s, StateOK(s), Set(m, s)
  PROVE  message' \in [Messages -> MessageState] /\ MessagesOK'
  BY DEF TypeOK, MessagesOK, StateOK, Set

-----------------------------------------------------------------------------
(* The dumps. *)

\* A dump reports what it has done.
ReportInv == DumpTypeOK /\ DumpInv /\ ResultReported

LEMMA DumpStep ==
  ASSUME ReportInv, NEW d \in Dumps, Task(d) \/ Accept(d) PROVE ReportInv'
<1>. USE DumpEventsAssumption DEF ReportInv, DumpTypeOK, DumpInv, ResultReported
<1>1. CASE Accept(d) \/ Load(d)
  BY <1>1 DEF Accept, Load
<1>2. CASE FailToLoad(d)
  BY <1>2 DEF FailToLoad, Notify
<1>3. CASE Upload(d)
  BY <1>3 DEF Upload, Store, Notify
<1>4. CASE FailToUpload(d)
  <2>1. pc[d] = "uploading" /\ attempts[d] \in Nat /\ attempts[d] < RETRIES /\ status[d] = "none"
    BY <1>4 DEF FailToUpload
  <2>2. attempts' = [attempts EXCEPT ![d] = @ + 1] /\ uploaded' \in {uploaded, uploaded \cup {d}}
    BY <1>4 DEF FailToUpload, Store, Retry
  <2>3. CASE attempts[d] + 1 < RETRIES
    <3>1. UNCHANGED <<pc, status>>
      BY <1>4, <2>3 DEF FailToUpload, Retry
    <3>. QED  BY <2>1, <2>2, <2>3, <3>1
  <2>4. CASE ~(attempts[d] + 1 < RETRIES)
    <3>1. /\ pc' = [pc EXCEPT ![d] = "finished"]
          /\ status' = [status EXCEPT ![d] = "success"]
      BY <1>4, <2>4 DEF FailToUpload, Retry, Notify
    <3>2. attempts'[d] = RETRIES
      BY <2>1, <2>2, <2>4
    <3>. QED  BY <2>1, <2>2, <3>1, <3>2
  <2>. QED  BY <2>3, <2>4
<1>. QED  BY <1>1, <1>2, <1>3, <1>4 DEF Task

\* What a step of Dispatch does to the dumps.
LEMMA DumpsFollow ==
  ASSUME Next PROVE UNCHANGED dumpVars \/ \E d \in Dumps : Task(d) \/ Accept(d)
<1>1. ASSUME NEW m \in Messages, Run(m) PROVE UNCHANGED dumpVars
  BY <1>1 DEF Run, Spawn, HandleRequest, HandleEvent, HandleError, HandleResponse, Panic,
              Publish, FailToPublish
<1>2. ASSUME NEW d \in Dumps, RunDump(d) PROVE UNCHANGED dumpVars \/ Accept(d)
  BY <1>1, <1>2 DEF RunDump, HandleDump, PublishResult, FailToPublishResult, Messages
<1>3. ASSUME NEW m \in Messages, AcceptHttp(m) \/ \E kind \in {"request", "event", "response"} : Deliver(m, kind)
      PROVE  UNCHANGED dumpVars
  BY <1>3 DEF AcceptHttp, Deliver
<1>4. ASSUME \/ Broker \/ Consumer
             \/ Signal \/ Stop \/ FailToUnsubscribe
      PROVE  UNCHANGED dumpVars
  BY <1>4 DEF Broker, Handle, Disconnect, Reconnect, Resubscribe, FailToResubscribe, Consumer,
              Consume, StreamClosed, ConsumerEnds, Signal, Stop, Unsubscribe, AwaitConsumer,
              DrainHttp, Exit, FailToUnsubscribe
<1>5. ASSUME NEW d \in Dumps, RunTask(d) PROVE Task(d)
  BY <1>5 DEF RunTask
<1>. QED  BY <1>1, <1>2, <1>3, <1>4, <1>5 DEF Next, Messages

LEMMA ReportAlways == Spec => []ReportInv
<1>1. Init => ReportInv
  BY DumpEventsAssumption
  DEF Init, DumpInit, ReportInv, DumpTypeOK, DumpInv, ResultReported
<1>2. ReportInv /\ [Next]_vars => ReportInv'
  <2>. SUFFICES ASSUME ReportInv, [Next]_vars PROVE ReportInv'
    OBVIOUS
  <2>1. CASE UNCHANGED dumpVars
    BY <2>1 DEF dumpVars, ReportInv, DumpTypeOK, DumpInv, ResultReported
  <2>2. CASE \E d \in Dumps : Task(d) \/ Accept(d)
    BY <2>2, DumpStep
  <2>. QED  BY <2>1, <2>2, DumpsFollow DEF vars
<1>. QED  BY <1>1, <1>2, PTL DEF Spec

\* A dump that is reported as a success was uploaded or failed RETRIES times, and one
\* that is reported as an error never reached S3, for any number of dumps and retries.
THEOREM ResultAlwaysReported == Spec => []ResultReported
<1>1. ReportInv => ResultReported
  BY DEF ReportInv
<1>. QED  BY <1>1, ReportAlways, PTL

-----------------------------------------------------------------------------
(* A graceful exit. *)

serviceVars == <<runVars, brokerVars>>

\* A step of one message.
LEMMA MessageStep ==
  ASSUME GracefulInv, DumpTypeOK', UNCHANGED serviceVars,
         NEW m \in Messages, NEW s, StateOK(s), Set(m, s),
         service \in {"leaving", "exited"} /\ s.via = "http" => s.pc = "ended"
  PROVE  GracefulInv'
<1>. USE DEF GracefulInv, serviceVars, runVars, brokerVars
<1>1. message' \in [Messages -> MessageState] /\ MessagesOK'
  BY SetMessage
<1>2. message' = [message EXCEPT ![m] = s]
  BY DEF Set
<1>3. TypeOK' /\ MayReconnect'
  BY <1>1 DEF TypeOK, MayReconnect
<1>5. Drained'
  BY <1>2 DEF Drained, TypeOK
<1>. QED  BY <1>1, <1>3, <1>5

\* The dumps keep their types.
LEMMA DumpsKeepTypes == ASSUME TypeOK, UNCHANGED dumpVars PROVE DumpTypeOK'
  BY DEF TypeOK, DumpTypeOK, dumpVars

LEMMA IncomingStep ==
  ASSUME GracefulInv, NEW m \in Messages,
         AcceptHttp(m) \/ Spawn(m) \/ \E kind \in {"request", "event", "response"} : Deliver(m, kind)
  PROVE  GracefulInv'
<1>0. message[m] \in MessageState /\ HttpAnswered(message[m]) /\ PublishingHasMore(message[m])
  BY DEF GracefulInv, TypeOK, MessagesOK
<1>1. CASE AcceptHttp(m)
  <2> DEFINE s == [message[m] EXCEPT !.pc = "handling", !.via = "http"]
  <2>1. s \in MessageState /\ s.via = "http" /\ s.pc = "handling" /\ s.kind = message[m].kind
    BY <1>0 DEF MessageState
  <2>2. message[m].kind = "request"
    BY <1>0, <1>1 DEF AcceptHttp, PublishingHasMore
  <2>3. StateOK(s)
    BY <2>1, <2>2 DEF StateOK, HttpAnswered, PublishingHasMore
  <2>4. DumpTypeOK'
    BY <1>1, DumpsKeepTypes DEF AcceptHttp, GracefulInv
  <2>. QED  BY <1>1, <2>1, <2>3, <2>4, MessageStep DEF AcceptHttp, serviceVars
<1>2. CASE Spawn(m)
  <2> DEFINE s == [message[m] EXCEPT !.pc = "handling"]
  <2>1. s \in MessageState /\ s.via = message[m].via /\ s.pc = "handling"
    BY <1>0 DEF MessageState
  <2>2. message[m].via # "http"
    BY <1>0, <1>2 DEF Spawn, HttpAnswered
  <2>3. StateOK(s)
    BY <2>1, <2>2 DEF StateOK, HttpAnswered, PublishingHasMore
  <2>4. DumpTypeOK'
    BY <1>2, DumpsKeepTypes DEF Spawn, GracefulInv
  <2>. QED  BY <1>2, <2>1, <2>2, <2>3, <2>4, MessageStep DEF Spawn, serviceVars
<1>3. ASSUME NEW kind \in {"request", "event", "response"}, Deliver(m, kind) PROVE GracefulInv'
  <2> DEFINE s == [message[m] EXCEPT !.pc = "queued", !.via = "mqtt", !.kind = kind]
  <2>1. s \in MessageState /\ s.via = "mqtt" /\ s.pc = "queued"
    BY <1>0, <1>3 DEF MessageState
  <2>2. StateOK(s)
    BY <2>1 DEF StateOK, HttpAnswered, PublishingHasMore
  <2>4. DumpTypeOK'
    BY <1>3, DumpsKeepTypes DEF Deliver, GracefulInv
  <2>. QED  BY <1>3, <2>1, <2>2, <2>4, MessageStep DEF Deliver, serviceVars
<1>. QED  BY <1>1, <1>2, <1>3

\* A message whose handler has ended.
LEMMA HandlingStep ==
  ASSUME GracefulInv, NEW m \in Messages, NEW n \in 0..MaxNotifications,
         \/ HandleRequest(m, n) \/ HandleEvent(m, n)
         \/ HandleError(m) \/ HandleResponse(m) \/ Panic(m)
  PROVE  GracefulInv'
<1>0. /\ message[m] \in MessageState /\ HttpAnswered(message[m]) /\ message[m].pc = "handling"
      /\ n \in Nat
  BY DispatchAssumption
  DEF GracefulInv, TypeOK, MessagesOK, HandleRequest, HandleEvent, HandleError, HandleResponse, Panic
<1>1. DumpTypeOK' /\ UNCHANGED serviceVars
  BY DumpsKeepTypes
  DEF GracefulInv, HandleRequest, HandleEvent, HandleError, HandleResponse, Panic, serviceVars
<1>2. service \in {"leaving", "exited"} => message[m].via # "http"
  BY <1>0 DEF GracefulInv, Drained
<1>3. CASE HandleRequest(m, n)
  <2> DEFINE s == [message[m] EXCEPT !.pc = "publishing", !.notes = n,
                                     !.left = Append(Notes(n), "response")]
  <2>1. /\ s \in MessageState /\ s.pc = "publishing" /\ s.via = message[m].via
        /\ s.kind = message[m].kind
        /\ s.left = Append(Notes(n), "response")
    BY <1>0, NotesType DEF MessageState
  <2>2. s.left # <<>> /\ s.left[Len(s.left)] \in Answers
    BY <1>0, <2>1, NotesType DEF Answers
  <2>3. StateOK(s)
    BY <1>0, <2>1, <2>2 DEF StateOK, HttpAnswered, PublishingHasMore
  <2>. QED  BY <1>1, <1>2, <1>3, <2>1, <2>3, MessageStep DEF HandleRequest
<1>4. CASE HandleEvent(m, n)
  <2> DEFINE s == [message[m] EXCEPT !.pc = IF n = 0 THEN "ended" ELSE "publishing",
                                     !.notes = n, !.left = Notes(n)]
  <2>1. /\ s \in MessageState /\ s.via = message[m].via
        /\ s.pc = (IF n = 0 THEN "ended" ELSE "publishing")
        /\ s.left = Notes(n)
    BY <1>0, NotesType DEF MessageState
  <2>2. message[m].via # "http"
    BY <1>0, <1>4 DEF HandleEvent, HttpAnswered
  <2>3. n # 0 => s.left # <<>>
    BY <1>0, <2>1, NotesType
  <2>4. StateOK(s)
    BY <2>1, <2>2, <2>3 DEF StateOK, HttpAnswered, PublishingHasMore
  <2>. QED  BY <1>1, <1>2, <1>4, <2>1, <2>4, MessageStep DEF HandleEvent
<1>5. CASE HandleError(m)
  <2> DEFINE s == [message[m] EXCEPT !.pc = "publishing", !.left = <<"error">>]
  <2>0. <<"error">> \in Seq(Outgoing)
    BY DEF Outgoing, Answers
  <2>1. /\ s \in MessageState /\ s.pc = "publishing" /\ s.via = message[m].via
        /\ s.kind = message[m].kind /\ s.left = <<"error">>
    BY <1>0, <2>0 DEF MessageState
  <2>2. s.left # <<>> /\ s.left[Len(s.left)] \in Answers
    BY <2>1 DEF Answers
  <2>3. StateOK(s)
    BY <1>0, <2>1, <2>2 DEF StateOK, HttpAnswered, PublishingHasMore
  <2>. QED  BY <1>1, <1>2, <1>5, <2>1, <2>3, MessageStep DEF HandleError
<1>6. CASE HandleResponse(m)
  <2> DEFINE s == [message[m] EXCEPT !.pc = "ended"]
  <2>1. s \in MessageState /\ s.pc = "ended" /\ s.via = message[m].via
    BY <1>0 DEF MessageState
  <2>2. message[m].via # "http"
    BY <1>0, <1>6 DEF HandleResponse, HttpAnswered
  <2>3. StateOK(s)
    BY <2>1, <2>2 DEF StateOK, HttpAnswered, PublishingHasMore
  <2>. QED  BY <1>1, <1>6, <2>1, <2>3, MessageStep DEF HandleResponse
<1>7. CASE Panic(m)
  <2> DEFINE s == [message[m] EXCEPT !.pc = "ended", !.failed = TRUE]
  <2>1. s \in MessageState /\ s.pc = "ended" /\ s.via = message[m].via /\ s.failed
        /\ s.kind = message[m].kind
    BY <1>0 DEF MessageState
  <2>2. StateOK(s)
    BY <1>0, <2>1 DEF StateOK, HttpAnswered, PublishingHasMore
  <2>. QED  BY <1>1, <1>7, <2>1, <2>2, MessageStep DEF Panic
<1>. QED  BY <1>3, <1>4, <1>5, <1>6, <1>7

\* A message that is being published.
LEMMA PublishingStep ==
  ASSUME GracefulInv, NEW m \in Messages, Publish(m) \/ FailToPublish(m)
  PROVE  GracefulInv'
<1>0. /\ message[m] \in MessageState /\ HttpAnswered(message[m])
      /\ message[m].pc = "publishing" /\ message[m].left # <<>>
  BY DEF GracefulInv, TypeOK, MessagesOK, PublishingHasMore, Publish, FailToPublish
<1>1. DumpTypeOK' /\ UNCHANGED serviceVars
  BY DumpsKeepTypes DEF GracefulInv, Publish, FailToPublish, serviceVars
<1>2. service \in {"leaving", "exited"} => message[m].via # "http"
  BY <1>0 DEF GracefulInv, Drained
<1> DEFINE head == Head(message[m].left)
<1>3. /\ message[m].left \in Seq(Outgoing) /\ head \in Outgoing
      /\ Len(message[m].left) = 1 => head = message[m].left[Len(message[m].left)]
  BY <1>0 DEF MessageState
<1>4. CASE Publish(m)
  <2> DEFINE u == [message[m] EXCEPT !.out = Append(@, head)]
             s == Rest(u)
  <2>0. Append(message[m].out, head) \in Seq(Outgoing)
    <3>1. message[m].out \in Seq(Outgoing)
      BY <1>0 DEF MessageState
    <3>. QED  BY <1>3, <3>1
  <2>1. /\ u \in MessageState /\ u.pc = "publishing" /\ u.left = message[m].left
        /\ u.via = message[m].via /\ u.kind = message[m].kind
        /\ u.out = Append(message[m].out, head)
    <3> HIDE DEF head
    <3>. QED  BY <1>0, <2>0 DEF MessageState
  <2>2. /\ s \in MessageState /\ s.via = message[m].via /\ s.kind = message[m].kind
        /\ s.out = Append(message[m].out, head)
        /\ s.pc \in {"publishing", "ended"}
        /\ s.pc = "ended" <=> Len(message[m].left) = 1
        /\ s.pc = "publishing" => s.left # <<>>
             /\ s.left[Len(s.left)] = message[m].left[Len(message[m].left)]
    BY <1>0, <2>1, RestType
  <2>3. message[m].via = "http" /\ s.pc = "ended" => \E i \in DOMAIN s.out : s.out[i] \in Answers
    <3>1. message[m].out \in Seq(Outgoing)
      BY <1>0 DEF MessageState
    <3>2. /\ Len(message[m].out) + 1 \in DOMAIN Append(message[m].out, head)
          /\ Append(message[m].out, head)[Len(message[m].out) + 1] = head
      BY <1>3, <3>1
    <3>3. message[m].via = "http" /\ s.pc = "ended" => head \in Answers
      BY <1>0, <1>3, <2>2 DEF HttpAnswered
    <3>. QED  BY <2>2, <3>2, <3>3
  <2>4. StateOK(s)
    <3> HIDE DEF s
    <3>. QED  BY <1>0, <2>2, <2>3 DEF StateOK, HttpAnswered, PublishingHasMore
  <2>. QED  BY <1>1, <1>2, <1>4, <2>2, <2>4, MessageStep DEF Publish
<1>5. CASE FailToPublish(m) /\ message[m].via = "mqtt"
  <2> DEFINE s == [message[m] EXCEPT !.pc = "ended", !.left = <<>>, !.awaits = FALSE, !.failed = TRUE]
  <2>0. <<>> \in Seq(Outgoing)
    OBVIOUS
  <2>1. s \in MessageState /\ s.pc = "ended" /\ s.via = "mqtt"
    BY <1>0, <1>5, <2>0 DEF MessageState
  <2>2. StateOK(s)
    BY <2>1 DEF StateOK, HttpAnswered, PublishingHasMore
  <2>. QED  BY <1>1, <1>5, <2>1, <2>2, MessageStep DEF FailToPublish, AfterFailure
<1>6. CASE FailToPublish(m) /\ message[m].via # "mqtt"
  <2> DEFINE u == Rest(message[m])
             s == [u EXCEPT !.failed = TRUE]
  <2>1. /\ u \in MessageState /\ u.via = message[m].via /\ u.kind = message[m].kind
        /\ u.pc \in {"publishing", "ended"}
        /\ u.pc = "ended" <=> Len(message[m].left) = 1
        /\ u.pc = "publishing" => u.left # <<>>
             /\ u.left[Len(u.left)] = message[m].left[Len(message[m].left)]
    BY <1>0, RestType
  <2>2. /\ s \in MessageState /\ s.via = u.via /\ s.kind = u.kind
        /\ s.pc = u.pc /\ s.left = u.left /\ s.failed
    BY <2>1 DEF MessageState
  <2>3. StateOK(s)
    <3> HIDE DEF s, u
    <3>. QED  BY <1>0, <2>1, <2>2 DEF StateOK, HttpAnswered, PublishingHasMore
  <2>. QED  BY <1>1, <1>2, <1>6, <2>1, <2>2, <2>3, MessageStep DEF FailToPublish, AfterFailure
<1>. QED  BY <1>4, <1>5, <1>6

\* A dump.
LEMMA DumpMessageStep ==
  ASSUME GracefulInv, NEW d \in Dumps, HandleDump(d) \/ PublishResult(d) \/ FailToPublishResult(d)
  PROVE  GracefulInv'
<1>0. d \in Messages /\ message[d] \in MessageState /\ HttpAnswered(message[d])
      /\ PublishingHasMore(message[d])
  BY DEF GracefulInv, TypeOK, MessagesOK, Messages
<1>1. CASE HandleDump(d)
  <2> DEFINE s == [message[d] EXCEPT !.pc = "publishing", !.left = <<"response">>, !.awaits = TRUE]
  <2>0. <<"response">> \in Seq(Outgoing)
    BY DEF Outgoing, Answers
  <2>1. /\ s \in MessageState /\ s.pc = "publishing" /\ s.via = message[d].via
        /\ s.kind = message[d].kind /\ s.left = <<"response">>
    BY <1>0, <2>0 DEF MessageState
  <2>2. s.left # <<>> /\ s.left[Len(s.left)] \in Answers
    BY <2>1 DEF Answers
  <2>3. StateOK(s)
    BY <1>0, <2>1, <2>2 DEF StateOK, HttpAnswered, PublishingHasMore
  <2>4. service \in {"leaving", "exited"} => message[d].via # "http"
    BY <1>0, <1>1 DEF HandleDump, GracefulInv, Drained
  <2>5. DumpTypeOK'
    BY <1>1 DEF HandleDump, Accept, GracefulInv, TypeOK, DumpTypeOK
  <2>. QED  BY <1>0, <1>1, <2>1, <2>3, <2>4, <2>5, MessageStep DEF HandleDump, serviceVars
<1>2. CASE PublishResult(d)
  <2> DEFINE s == [message[d] EXCEPT !.awaits = FALSE, !.out = Append(@, "result")]
  <2>0. /\ message[d].out \in Seq(Outgoing) /\ Append(message[d].out, "result") \in Seq(Outgoing)
    <3>1. message[d].out \in Seq(Outgoing) /\ "result" \in Outgoing
      BY <1>0 DEF MessageState, Outgoing
    <3>. QED  BY <3>1
  <2>1. /\ s \in MessageState /\ s.pc = message[d].pc /\ s.via = message[d].via
        /\ s.kind = message[d].kind /\ s.left = message[d].left
        /\ s.failed = message[d].failed /\ s.out = Append(message[d].out, "result")
    BY <1>0, <2>0 DEF MessageState
  <2>2. (\E i \in DOMAIN message[d].out : message[d].out[i] \in Answers)
          => \E i \in DOMAIN s.out : s.out[i] \in Answers
    <3>1. ASSUME NEW i \in DOMAIN message[d].out
          PROVE  i \in DOMAIN s.out /\ s.out[i] = message[d].out[i]
      BY <2>0, <2>1
    <3>. QED  BY <3>1
  <2>3. StateOK(s)
    <3> HIDE DEF s
    <3>. QED  BY <1>0, <2>1, <2>2 DEF StateOK, HttpAnswered, PublishingHasMore
  <2>4. service \in {"leaving", "exited"} /\ message[d].via = "http" => message[d].pc = "ended"
    BY <1>0 DEF GracefulInv, Drained
  <2>5. DumpTypeOK'
    BY <1>2, DumpsKeepTypes DEF PublishResult, GracefulInv
  <2>. QED  BY <1>0, <1>2, <2>1, <2>3, <2>4, <2>5, MessageStep DEF PublishResult, serviceVars
<1>3. CASE FailToPublishResult(d)
  <2> DEFINE s == [message[d] EXCEPT !.awaits = FALSE, !.failed = TRUE]
  <2>1. /\ s \in MessageState /\ s.pc = message[d].pc /\ s.via = message[d].via
        /\ s.kind = message[d].kind /\ s.left = message[d].left
        /\ s.failed
    BY <1>0 DEF MessageState
  <2>2. StateOK(s)
    BY <1>0, <2>1 DEF StateOK, HttpAnswered, PublishingHasMore
  <2>3. service \in {"leaving", "exited"} /\ message[d].via = "http" => message[d].pc = "ended"
    BY <1>0 DEF GracefulInv, Drained
  <2>4. DumpTypeOK'
    BY <1>3, DumpsKeepTypes DEF FailToPublishResult, GracefulInv
  <2>. QED  BY <1>0, <1>3, <2>1, <2>2, <2>3, <2>4, MessageStep DEF FailToPublishResult, serviceVars
<1>. QED  BY <1>1, <1>2, <1>3

LEMMA SeqFacts ==
  ASSUME NEW S, NEW p \in Seq(S), NEW b \in Seq(S), NEW e \in S
  PROVE  /\ \A n \in 0..Len(p) : SubSeq(p, n + 1, Len(p)) \in Seq(S)
         /\ Append(p, e) \in Seq(S)
         /\ p \o b \in Seq(S)
         /\ \A i \in 1..Len(b) : Len(p) + i \in DOMAIN (p \o b) /\ (p \o b)[Len(p) + i] = b[i]
         /\ p # <<>> => /\ Head(p) \in S /\ Tail(p) \in Seq(S) /\ Head(p) = p[1]
                        /\ \A i \in DOMAIN p : i # 1 =>
                             i - 1 \in DOMAIN Tail(p) /\ Tail(p)[i - 1] = p[i]
  OBVIOUS

LEMMA BothType ==
  ASSUME NEW what \in {"subscribe", "unsubscribe"}
  PROVE  Both(what) \in Seq({what} \X Topics) /\ Both(what) \in Seq(Packets)
  BY DEF Both, Packets, Topics

\* The connection, and run().
LEMMA ServiceStep ==
  ASSUME GracefulInv, \/ Broker \/ Consumer
                      \/ Signal \/ Stop \/ FailToUnsubscribe
  PROVE  GracefulInv'
<1>. USE DEF GracefulInv
<1>0. DumpTypeOK' /\ message' = message
  BY DumpsKeepTypes
  DEF Broker, Handle, Disconnect, Reconnect, Resubscribe, FailToResubscribe, Consumer,
              Consume, StreamClosed, ConsumerEnds, Signal, Stop, Unsubscribe, AwaitConsumer,
              DrainHttp, Exit, FailToUnsubscribe
<1>1. MessagesOK'
  BY <1>0 DEF MessagesOK
<1>2. CASE Handle
  <2>1. packets' \in Seq(Packets) /\ subscribed' \subseteq Topics
    <3>1. packets \in Seq(Packets) /\ packets # <<>>
      BY <1>2 DEF Handle, TypeOK
    <3>2. Head(packets) \in Packets /\ Tail(packets) \in Seq(Packets)
      BY <3>1
    <3>. QED  BY <1>2, <3>2 DEF Handle, TypeOK, Packets
  <2>. QED  BY <1>0, <1>1, <1>2, <2>1 DEF Handle, TypeOK, MayReconnect, Drained, runVars
<1>3. CASE Disconnect
  <2>1. packets' \in Seq(Packets)
    BY <1>3 DEF Disconnect, TypeOK
  <2>. QED  BY <1>0, <1>1, <1>3, <2>1 DEF Disconnect, TypeOK, MayReconnect, Drained, runVars
<1>4. CASE Reconnect
  <2>1. reconnections' \in 0..MaxReconnections
    BY <1>4, DispatchAssumption DEF Reconnect, TypeOK, MayReconnect
  <2>. QED  BY <1>0, <1>1, <1>4, <2>1 DEF Reconnect, TypeOK, MayReconnect, Drained, runVars
<1>5. CASE Resubscribe \/ FailToResubscribe
  <2>1. Both("subscribe") \in Seq(Packets) /\ <<"subscribe", "multicast">> \in Packets
    BY BothType DEF Packets, Topics
  <2>2. packets \in Seq(Packets) /\ notices \in Nat /\ deaf' \in BOOLEAN
    BY <1>5 DEF Resubscribe, FailToResubscribe, TypeOK
  <2>3. packets' \in {packets, packets \o Both("subscribe"), Append(packets, <<"subscribe", "multicast">>)}
    BY <1>5 DEF Resubscribe, FailToResubscribe
  <2>4. packets' \in Seq(Packets)
    <3>1. /\ packets \o Both("subscribe") \in Seq(Packets)
          /\ Append(packets, <<"subscribe", "multicast">>) \in Seq(Packets)
      BY <2>1, <2>2, SeqFacts
    <3>. QED  BY <2>2, <2>3, <3>1
  <2>5. notices' \in Nat /\ UNCHANGED <<service, consumer, connection, subscribed, reconnections>>
    BY <1>5, <2>2 DEF Resubscribe, FailToResubscribe, runVars
  <2>. QED  BY <1>0, <1>1, <2>2, <2>4, <2>5 DEF TypeOK, MayReconnect, Drained
<1>6. CASE Consumer
  BY <1>0, <1>1, <1>6
  DEF Consumer, Consume, StreamClosed, ConsumerEnds, TypeOK, MayReconnect, Drained, brokerVars
<1>7. CASE Unsubscribe
  <2>1. packets' \in Seq(Packets)
    BY <1>7, BothType DEF Unsubscribe, TypeOK
  <2>. QED  BY <1>0, <1>1, <1>7, <2>1 DEF Unsubscribe, TypeOK, MayReconnect, Drained
<1>8. CASE Signal \/ FailToUnsubscribe \/ AwaitConsumer \/ Exit
  BY <1>0, <1>1, <1>8
  DEF Signal, FailToUnsubscribe, AwaitConsumer, Exit, TypeOK, MayReconnect, Drained, brokerVars
<1>9. CASE DrainHttp
  BY <1>0, <1>1, <1>9
  DEF DrainHttp, TypeOK, MayReconnect, Drained, MessagesOK, HttpAnswered, brokerVars
<1>. QED  BY <1>2, <1>3, <1>4, <1>5, <1>6, <1>7, <1>8, <1>9 DEF Broker, Stop

LEMMA GracefulStep == GracefulInv /\ ReportInv /\ [Next]_vars => GracefulInv'
<1>. SUFFICES ASSUME GracefulInv, ReportInv, [Next]_vars PROVE GracefulInv'
  OBVIOUS
<1>1. CASE UNCHANGED vars
  BY <1>1
  DEF vars, dumpVars, dispatchVars, runVars, brokerVars, GracefulInv, TypeOK, DumpTypeOK,
      MayReconnect, MessagesOK, Drained
<1>2. ASSUME NEW m \in Messages, Run(m) PROVE GracefulInv'
  <2>1. 0 \in 0..MaxNotifications
    BY DispatchAssumption
  <2>. QED  BY <1>2, <2>1, IncomingStep, HandlingStep, PublishingStep DEF Run
<1>3. ASSUME NEW d \in Dumps, RunTask(d) PROVE GracefulInv'
  <2>1. DumpTypeOK'
    BY <1>3, DumpStep DEF RunTask, ReportInv
  <2>. QED  BY <1>3, <2>1
            DEF RunTask, dispatchVars, runVars, brokerVars, GracefulInv, TypeOK, MayReconnect,
                MessagesOK, Drained
<1>4. ASSUME NEW m \in Messages,
             AcceptHttp(m) \/ \E kind \in {"request", "event", "response"} : Deliver(m, kind)
      PROVE  GracefulInv'
  BY <1>4, IncomingStep
<1>5. ASSUME NEW d \in Dumps, RunDump(d) PROVE GracefulInv'
  <2>1. d \in Messages
    BY DEF Messages
  <2>. QED  BY <1>2, <1>5, <2>1, DumpMessageStep DEF RunDump
<1>. QED  BY <1>1, <1>2, <1>3, <1>4, <1>5, ServiceStep DEF Next, Messages

LEMMA GracefulAlways == Spec => []GracefulInv
<1>1. Init => GracefulInv
  <2>. SUFFICES ASSUME Init PROVE GracefulInv
    OBVIOUS
  <2>1. Sent \in MessageState
    <3>1. <<>> \in Seq(Outgoing) /\ 0 \in 0..MaxNotifications
      BY DispatchAssumption
    <3>. QED  BY <3>1 DEF Sent, MessageState
  <2>2. Sent.via = "none" /\ Sent.pc = "sent" /\ Sent.kind = "request"
    BY DEF Sent
  <2>3. DumpTypeOK
    BY DumpEventsAssumption DEF Init, DumpInit, DumpTypeOK
  <2>4. \A m \in Messages : message[m] = Sent
    BY DEF Init
  <2>5. TypeOK
    <3>1. Both("subscribe") \in Seq(Packets) /\ 0 \in 0..MaxReconnections
      BY BothType, DispatchAssumption
    <3>2. message \in [Messages -> MessageState]
      BY <2>1 DEF Init
    <3>. QED  BY <2>3, <3>1, <3>2 DEF Init, TypeOK
  <2>6. MessagesOK
    BY <2>2, <2>4 DEF MessagesOK, HttpAnswered, PublishingHasMore
  <2>. QED  BY <2>2, <2>4, <2>5, <2>6
            DEF Init, GracefulInv, MayReconnect, Drained
<1>. QED  BY <1>1, ReportAlways, GracefulStep, PTL DEF Spec

\* What the broker, the HTTP server, the handlers and their tasks make of a message
\* stays a state of MessageState, and the retries and reconnections within their bounds.
THEOREM TypeCorrect == Spec => []TypeOK
<1>1. GracefulInv => TypeOK
  BY DEF GracefulInv
<1>. QED  BY <1>1, GracefulAlways, PTL

\* When the process exits, its NATS consumer has ended, and every HTTP request it has
\* accepted is answered or something of it failed.
THEOREM AlwaysGraceful == Spec => []GracefulExit
<1>1. GracefulInv => GracefulExit
  BY DEF GracefulInv, GracefulExit, Drained, MessagesOK, HttpAnswered, Answered
<1>. QED  BY <1>1, GracefulAlways, PTL

-----------------------------------------------------------------------------
(* The order of what is sent. *)

\* The fields of a message's state that tell what is sent for it.
StreamTypeOK(s) == s.left \in Seq(Outgoing) /\ s.out \in Seq(Outgoing) /\ s.notes \in Nat

\* What goes on with the answer of the same message.
SameMessage(s, u) == u.via = s.via /\ u.kind = s.kind /\ u.notes = s.notes

LEMMA TailIndexes ==
  ASSUME NEW l \in Seq(Outgoing), l # <<>>
  PROVE  /\ Len(l) \in Nat \ {0} /\ DOMAIN l = 1..Len(l) /\ Tail(l) \in Seq(Outgoing)
         /\ Len(Tail(l)) = Len(l) - 1 /\ DOMAIN Tail(l) = 1..Len(l) - 1
         /\ \A i \in 1..Len(l) - 1 : Tail(l)[i] = l[i + 1]
         /\ Head(l) = l[1] /\ l[1] \in Outgoing
  OBVIOUS

LEMMA AppendIndexes ==
  ASSUME NEW o \in Seq(Outgoing), NEW e \in Outgoing
  PROVE  /\ Len(o) \in Nat /\ DOMAIN o = 1..Len(o) /\ Append(o, e) \in Seq(Outgoing)
         /\ Len(Append(o, e)) = Len(o) + 1 /\ DOMAIN Append(o, e) = 1..Len(o) + 1
         /\ \A i \in 1..Len(o) : Append(o, e)[i] = o[i]
         /\ Append(o, e)[Len(o) + 1] = e
  OBVIOUS

\* The head of a stream is sent.
LEMMA HeadSent ==
  ASSUME NEW s, NEW u, StreamTypeOK(s), OneAnswer(s), MqttInOrder(s), s.left # <<>>,
         SameMessage(s, u), u.left = Tail(s.left), u.out = Append(s.out, Head(s.left))
  PROVE  OneAnswer(u) /\ MqttInOrder(u)
<1> DEFINE L == s.left
           O == s.out
           p == Len(L)
           q == Len(O)
<1>1. /\ p \in Nat \ {0} /\ DOMAIN L = 1..p
      /\ Len(u.left) = p - 1 /\ DOMAIN u.left = 1..p - 1
      /\ \A i \in 1..p - 1 : u.left[i] = L[i + 1]
      /\ Head(L) = L[1] /\ L[1] \in Outgoing
  BY TailIndexes DEF StreamTypeOK
<1>2. /\ q \in Nat /\ DOMAIN O = 1..q
      /\ Len(u.out) = q + 1 /\ DOMAIN u.out = 1..q + 1
      /\ \A i \in 1..q : u.out[i] = O[i]
      /\ u.out[q + 1] = L[1]
  BY <1>1, AppendIndexes DEF StreamTypeOK
<1>3. /\ \A i \in 1..p : L[i] # "result" /\ (L[i] \in Answers => s.kind = "request" /\ i = p)
      /\ \A i \in 1..q : O[i] \in Answers =>
           /\ s.kind = "request"
           /\ \A j \in 1..q : O[j] \in Answers => i = j
           /\ \A j \in 1..p : L[j] \notin Answers
  BY <1>1, <1>2 DEF OneAnswer
<1>4. s.via = "mqtt" =>
        /\ \A i \in 1..p : L[i] = "response" => q + p = s.notes + 1
        /\ \A i \in 1..q : O[i] = "note"
  BY <1>1, <1>2 DEF MqttInOrder
<1>5. L[1] \in Answers <=> L[1] # "note"
  BY <1>1, <1>3 DEF Outgoing, Answers
<1>6. u.via = s.via /\ u.kind = s.kind /\ u.notes = s.notes /\ s.notes \in Nat
  BY DEF SameMessage, StreamTypeOK
<1>7. OneAnswer(u)
  <2>1. ASSUME NEW i \in 1..p - 1
        PROVE  u.left[i] # "result" /\ (u.left[i] \in Answers => u.kind = "request" /\ i = p - 1)
    <3> HIDE DEF L, O, p, q
    <3>1. i + 1 \in 1..p /\ u.left[i] = L[i + 1]
      BY <1>1
    <3>. QED  BY <1>1, <1>3, <1>6, <3>1
  <2>2. ASSUME NEW i \in 1..q + 1, u.out[i] \in Answers
        PROVE  /\ u.kind = "request"
               /\ \A j \in 1..q + 1 : u.out[j] \in Answers => i = j
               /\ \A j \in 1..p - 1 : u.left[j] \notin Answers
    <3> HIDE DEF L, O, p, q
    <3>0. 1 \in 1..p /\ \A j \in 1..p - 1 : j + 1 \in 1..p
      BY <1>1
    <3>1. CASE i \in 1..q
      <4>1. O[i] \in Answers
        BY <1>2, <2>2, <3>1
      <4>2. L[1] \notin Answers
        BY <1>3, <3>0, <3>1, <4>1
      <4>3. \A j \in 1..q + 1 : u.out[j] \in Answers => i = j
        <5> TAKE j \in 1..q + 1
        <5>1. CASE j \in 1..q
          BY <1>2, <1>3, <3>1, <4>1, <5>1
        <5>2. CASE j = q + 1
          BY <1>2, <4>2, <5>2
        <5>. QED  BY <1>2, <5>1, <5>2
      <4>. QED  BY <1>1, <1>3, <1>6, <3>0, <3>1, <4>1, <4>3
    <3>2. CASE i = q + 1
      <4>1. L[1] \in Answers /\ p = 1
        BY <1>2, <1>3, <2>2, <3>0, <3>2
      <4>2. \A j \in 1..q : O[j] \notin Answers
        BY <1>3, <3>0, <4>1
      <4>3. \A j \in 1..q + 1 : u.out[j] \in Answers => i = j
        BY <1>2, <3>2, <4>2
      <4>4. u.kind = "request"
        BY <1>3, <1>6, <3>0, <4>1
      <4>5. 1..p - 1 = {}
        BY <4>1
      <4>. QED  BY <4>3, <4>4, <4>5
    <3>3. \A k \in Nat : \A j \in 1..k + 1 : j \in 1..k \/ j = k + 1
      OBVIOUS
    <3>4. i \in 1..q \/ i = q + 1
      BY <1>2, <3>3
    <3>. QED  BY <3>1, <3>2, <3>4
  <2>. QED  BY <1>1, <1>2, <2>1, <2>2 DEF OneAnswer
<1>8. MqttInOrder(u)
  <2>. SUFFICES ASSUME s.via = "mqtt"
                PROVE  /\ \A i \in DOMAIN u.left : u.left[i] = "response" =>
                            Len(u.out) + Len(u.left) = u.notes + 1
                       /\ u.left # <<>> => \A i \in DOMAIN u.out : u.out[i] = "note"
                       /\ \A i \in DOMAIN u.out : u.out[i] = "response" =>
                            i = u.notes + 1 /\ \A j \in 1..i - 1 : u.out[j] = "note"
    BY <1>6 DEF MqttInOrder
  <2> HIDE DEF L, O, p, q
  <2>0. 1 \in 1..p /\ \A j \in 1..p - 1 : j + 1 \in 1..p
    BY <1>1
  <2>1. \A i \in DOMAIN u.left : u.left[i] = "response" => Len(u.out) + Len(u.left) = u.notes + 1
    <3> TAKE i \in DOMAIN u.left
    <3>1. i + 1 \in 1..p /\ u.left[i] = L[i + 1]
      BY <1>1, <2>0
    <3>2. u.left[i] = "response" => q + p = s.notes + 1
      BY <1>4, <3>1
    <3>3. Len(u.out) + Len(u.left) = q + p
      <4>1. (q + 1) + (p - 1) = q + p
        BY <1>1, <1>2
      <4>2. Len(u.out) = q + 1 /\ Len(u.left) = p - 1
        BY <1>1, <1>2
      <4>. QED  BY ONLY <4>1, <4>2
    <3>. QED  BY <1>6, <3>2, <3>3
  <2>2. u.left # <<>> => \A i \in DOMAIN u.out : u.out[i] = "note"
    <3>. SUFFICES ASSUME u.left # <<>> PROVE \A i \in DOMAIN u.out : u.out[i] = "note"
      OBVIOUS
    <3>1. p # 1
      <4>1. u.left \in Seq(Outgoing)
        BY TailIndexes DEF StreamTypeOK
      <4>2. Len(u.left) # 0
        BY ONLY <4>1, u.left # <<>>
      <4>. QED  BY <1>1, <4>2
    <3>2. L[1] = "note"
      BY <1>3, <1>5, <2>0, <3>1
    <3>. QED  BY <1>2, <1>4, <3>2
  <2>3. ASSUME NEW i \in DOMAIN u.out, u.out[i] = "response"
        PROVE  i = u.notes + 1 /\ \A j \in 1..i - 1 : u.out[j] = "note"
    <3>1. i = q + 1
      BY <1>2, <1>4, <2>3
    <3>2. L[1] = "response"
      BY <1>2, <2>3, <3>1
    <3>3. p = 1 /\ q + p = s.notes + 1
      BY <1>3, <1>4, <2>0, <3>2 DEF Answers
    <3>4. \A j \in 1..q : u.out[j] = "note"
      BY <1>2, <1>4
    <3>. QED  BY <1>2, <1>6, <3>1, <3>3, <3>4
  <2>. QED  BY <2>1, <2>2, <2>3
<1>. QED  BY <1>7, <1>8

\* A notification of an HTTP response is given up.
LEMMA HeadDropped ==
  ASSUME NEW s, NEW u, StreamTypeOK(s), OneAnswer(s), s.left # <<>>, s.via # "mqtt",
         SameMessage(s, u), u.left = Tail(s.left), u.out = s.out
  PROVE  OneAnswer(u) /\ MqttInOrder(u)
<1> DEFINE L == s.left
           p == Len(L)
<1>1. /\ p \in Nat \ {0} /\ DOMAIN L = 1..p
      /\ Len(u.left) = p - 1 /\ DOMAIN u.left = 1..p - 1
      /\ \A i \in 1..p - 1 : u.left[i] = L[i + 1]
  BY TailIndexes DEF StreamTypeOK
<1>2. \A i \in 1..p : L[i] # "result" /\ (L[i] \in Answers => s.kind = "request" /\ i = p)
  BY <1>1 DEF OneAnswer
<1>3. u.via = s.via /\ u.kind = s.kind
  BY DEF SameMessage
<1> HIDE DEF L, p
<1>4. ASSUME NEW i \in DOMAIN u.left
      PROVE  i + 1 \in 1..p /\ u.left[i] = L[i + 1] /\ (i + 1 = p => i = Len(u.left))
  BY <1>1
<1>5. \A i \in DOMAIN u.left :
        u.left[i] # "result" /\ (u.left[i] \in Answers => u.kind = "request" /\ i = Len(u.left))
  BY <1>2, <1>3, <1>4
<1>6. \A i \in DOMAIN u.out : u.out[i] \in Answers =>
        /\ u.kind = "request"
        /\ \A j \in DOMAIN u.out : u.out[j] \in Answers => i = j
        /\ \A j \in DOMAIN u.left : u.left[j] \notin Answers
  <2>1. \A i \in DOMAIN s.out : s.out[i] \in Answers =>
          /\ s.kind = "request"
          /\ \A j \in DOMAIN s.out : s.out[j] \in Answers => i = j
          /\ \A j \in 1..p : L[j] \notin Answers
    BY <1>1 DEF OneAnswer, L
  <2>. QED  BY <1>3, <1>4, <2>1
<1>. QED  BY <1>3, <1>5, <1>6 DEF OneAnswer, MqttInOrder

\* The result of a task is sent; over MQTT nothing else is left then.
LEMMA ResultSent ==
  ASSUME NEW s, NEW u, StreamTypeOK(s), OneAnswer(s), MqttInOrder(s),
         s.via = "mqtt" => s.left = <<>>,
         SameMessage(s, u), u.left = s.left, u.out = Append(s.out, "result")
  PROVE  OneAnswer(u) /\ MqttInOrder(u)
<1> DEFINE O == s.out
           q == Len(O)
<1>1. "result" \in Outgoing /\ "result" \notin Answers
  BY DEF Outgoing, Answers
<1>2. /\ q \in Nat /\ DOMAIN O = 1..q /\ DOMAIN u.out = 1..q + 1
      /\ \A i \in 1..q : u.out[i] = O[i]
      /\ u.out[q + 1] = "result"
  BY <1>1, AppendIndexes DEF StreamTypeOK
<1>3. u.via = s.via /\ u.kind = s.kind /\ u.notes = s.notes
  BY DEF SameMessage
<1>4. /\ \A i \in 1..q : O[i] \in Answers =>
           /\ s.kind = "request"
           /\ \A j \in 1..q : O[j] \in Answers => i = j
           /\ \A j \in DOMAIN s.left : s.left[j] \notin Answers
      /\ s.via = "mqtt" => \A i \in 1..q : O[i] = "response" =>
           i = s.notes + 1 /\ \A j \in 1..i - 1 : O[j] = "note"
  BY <1>2 DEF OneAnswer, MqttInOrder
<1> HIDE DEF O, q
<1>5. \A i \in 1..q + 1 : i \in 1..q \/ i = q + 1
  BY <1>2
<1>6. ASSUME NEW i \in DOMAIN u.out, u.out[i] \in Answers
      PROVE  i \in 1..q /\ O[i] \in Answers /\ O[i] = u.out[i]
  BY <1>1, <1>2, <1>5, <1>6
<1>7. OneAnswer(u)
  <2>1. \A i \in DOMAIN u.left :
          u.left[i] # "result" /\ (u.left[i] \in Answers => u.kind = "request" /\ i = Len(u.left))
    BY <1>3 DEF OneAnswer
  <2>2. \A i \in DOMAIN u.out : u.out[i] \in Answers =>
          /\ u.kind = "request"
          /\ \A j \in DOMAIN u.out : u.out[j] \in Answers => i = j
          /\ \A j \in DOMAIN u.left : u.left[j] \notin Answers
    BY <1>3, <1>4, <1>6
  <2>. QED  BY <2>1, <2>2 DEF OneAnswer
<1>8. MqttInOrder(u)
  <2>0. DOMAIN <<>> = {}
    OBVIOUS
  <2>. SUFFICES ASSUME s.via = "mqtt", u.left = <<>>
                PROVE  \A i \in DOMAIN u.out : u.out[i] = "response" =>
                         i = u.notes + 1 /\ \A j \in 1..i - 1 : u.out[j] = "note"
    BY <1>3, <2>0 DEF MqttInOrder
  <2>1. ASSUME NEW i \in DOMAIN u.out, u.out[i] = "response"
        PROVE  i = u.notes + 1 /\ \A j \in 1..i - 1 : u.out[j] = "note"
    <3>1. i \in 1..q /\ O[i] = "response"
      BY <1>6, <2>1 DEF Answers
    <3>2. i = s.notes + 1 /\ \A j \in 1..i - 1 : O[j] = "note"
      BY <1>4, <3>1
    <3>3. \A j \in 1..i - 1 : j \in 1..q
      BY <1>2, <3>1
    <3>. QED  BY <1>2, <1>3, <3>2, <3>3
  <2>. QED  BY <2>1
<1>. QED  BY <1>7, <1>8

\* A handler has ended: of what it leaves to send only the last may be an answer.
LEMMA StreamStarts ==
  ASSUME NEW u, u.out = <<>>, u.left \in Seq(Outgoing), u.pc \in {"publishing", "ended"},
         \A i \in DOMAIN u.left :
           /\ u.left[i] # "result"
           /\ u.left[i] \in Answers => u.kind = "request" /\ i = Len(u.left)
           /\ u.left[i] = "response" => Len(u.left) = u.notes + 1
  PROVE  StreamOK(u)
<1>1. DOMAIN u.out = {} /\ Len(u.out) = 0 /\ Len(u.left) \in Nat
  OBVIOUS
<1>2. OneAnswer(u)
  BY <1>1 DEF OneAnswer
<1>3. MqttInOrder(u)
  BY <1>1 DEF MqttInOrder
<1>. QED  BY <1>2, <1>3 DEF StreamOK, NothingYet

\* One message changes its state.
LEMMA SetStream ==
  ASSUME TypeOK, AnswerInv, NEW m \in Messages, NEW s, StreamOK(s), Set(m, s),
         s.kind = message[m].kind \/ (m \in Dumps => s.kind = "request")
  PROVE  AnswerInv'
<1>1. \A k \in Messages : message'[k] = IF k = m THEN s ELSE message[k]
  BY DEF TypeOK, Set
<1>. QED  BY <1>1 DEF AnswerInv, Messages

LEMMA IncomingStream ==
  ASSUME TypeOK, AnswerInv, NEW m \in Messages,
         AcceptHttp(m) \/ Spawn(m) \/ \E kind \in {"request", "event", "response"} : Deliver(m, kind)
  PROVE  AnswerInv'
<1>0. message[m] \in MessageState /\ StreamOK(message[m])
  BY DEF TypeOK, AnswerInv
<1>1. message[m].left = <<>> /\ message[m].out = <<>> /\ message[m].notes = 0 /\ ~message[m].awaits
  BY <1>0 DEF StreamOK, NothingYet, AcceptHttp, Spawn, Deliver
<1>2. ASSUME NEW s, s.left = <<>>, s.out = <<>>, s.notes = 0, ~s.awaits
      PROVE  StreamOK(s)
  BY <1>2 DEF StreamOK, NothingYet, OneAnswer, MqttInOrder
<1>3. CASE AcceptHttp(m)
  <2> DEFINE s == [message[m] EXCEPT !.pc = "handling", !.via = "http"]
  <2>1. s.left = <<>> /\ s.out = <<>> /\ s.notes = 0 /\ ~s.awaits
        /\ s.kind = message[m].kind
    BY <1>0, <1>1 DEF MessageState
  <2>2. StreamOK(s)
    BY <1>2, <2>1
  <2>. QED  BY <1>3, <2>1, <2>2, SetStream DEF AcceptHttp
<1>4. CASE Spawn(m)
  <2> DEFINE s == [message[m] EXCEPT !.pc = "handling"]
  <2>1. s.left = <<>> /\ s.out = <<>> /\ s.notes = 0 /\ ~s.awaits
        /\ s.kind = message[m].kind
    BY <1>0, <1>1 DEF MessageState
  <2>2. StreamOK(s)
    BY <1>2, <2>1
  <2>. QED  BY <1>4, <2>1, <2>2, SetStream DEF Spawn
<1>5. ASSUME NEW kind \in {"request", "event", "response"}, Deliver(m, kind) PROVE AnswerInv'
  <2> DEFINE s == [message[m] EXCEPT !.pc = "queued", !.via = "mqtt", !.kind = kind]
  <2>1. s.left = <<>> /\ s.out = <<>> /\ s.notes = 0 /\ ~s.awaits
        /\ s.kind = kind
    BY <1>0, <1>1 DEF MessageState
  <2>2. StreamOK(s)
    BY <1>2, <2>1
  <2>. QED  BY <1>5, <2>1, <2>2, SetStream DEF Deliver
<1>. QED  BY <1>3, <1>4, <1>5

LEMMA HandlingStream ==
  ASSUME TypeOK, AnswerInv, NEW m \in Messages, NEW n \in 0..MaxNotifications,
         \/ HandleRequest(m, n) \/ HandleEvent(m, n)
         \/ HandleError(m) \/ HandleResponse(m) \/ Panic(m)
  PROVE  AnswerInv'
<1>0. message[m] \in MessageState /\ StreamOK(message[m]) /\ message[m].pc = "handling" /\ n \in Nat
  BY DispatchAssumption
  DEF TypeOK, AnswerInv, HandleRequest, HandleEvent, HandleError, HandleResponse, Panic
<1>1. message[m].left = <<>> /\ message[m].out = <<>>
  BY <1>0 DEF StreamOK, NothingYet
<1>2. /\ Notes(n) \in Seq(Outgoing) /\ Len(Notes(n)) = n /\ DOMAIN Notes(n) = 1..n
      /\ \A i \in 1..n : Notes(n)[i] = "note"
  BY <1>0, NotesType DEF Notes
<1>3. "note" \notin Answers /\ "response" \in Outgoing
  BY DEF Answers, Outgoing
<1>4. CASE HandleRequest(m, n)
  <2> DEFINE l == Append(Notes(n), "response")
             s == [message[m] EXCEPT !.pc = "publishing", !.notes = n, !.left = l]
  <2>1. /\ l \in Seq(Outgoing) /\ Len(l) = n + 1 /\ DOMAIN l = 1..n + 1
        /\ \A i \in 1..n : l[i] = "note"
        /\ l[n + 1] = "response"
    BY <1>2, <1>3, AppendIndexes
  <2> HIDE DEF l
  <2>2. s.pc = "publishing" /\ s.left = l /\ s.out = <<>> /\ s.notes = n /\ s.kind = "request"
    BY <1>0, <1>1, <1>4 DEF MessageState, HandleRequest
  <2>3. ASSUME NEW i \in DOMAIN l
        PROVE  l[i] # "result" /\ (l[i] \in Answers => i = Len(l)) /\ Len(l) = n + 1
    <3>1. i \in 1..n \/ i = n + 1
      BY <1>0, <2>1
    <3>. QED  BY <1>3, <2>1, <3>1
  <2>4. StreamOK(s)
    <3> HIDE DEF s
    <3>. QED  BY <2>1, <2>2, <2>3, StreamStarts
  <2>. QED  BY <1>4, <2>2, <2>4, SetStream DEF HandleRequest, l
<1>5. CASE HandleEvent(m, n)
  <2> DEFINE s == [message[m] EXCEPT !.pc = IF n = 0 THEN "ended" ELSE "publishing",
                                     !.notes = n, !.left = Notes(n)]
  <2>1. s.pc \in {"publishing", "ended"} /\ s.left = Notes(n) /\ s.out = <<>>
        /\ s.kind = message[m].kind
    BY <1>0, <1>1 DEF MessageState
  <2>2. StreamOK(s)
    <3> HIDE DEF s
    <3>. QED  BY <1>2, <1>3, <2>1, StreamStarts
  <2>. QED  BY <1>5, <2>1, <2>2, SetStream DEF HandleEvent
<1>6. CASE HandleError(m)
  <2> DEFINE s == [message[m] EXCEPT !.pc = "publishing", !.left = <<"error">>]
  <2>1. s.pc = "publishing" /\ s.left = <<"error">> /\ s.out = <<>> /\ s.kind = "request"
    BY <1>0, <1>1, <1>6 DEF MessageState, HandleError
  <2>2. /\ <<"error">> \in Seq(Outgoing) /\ DOMAIN <<"error">> = {1} /\ Len(<<"error">>) = 1
        /\ <<"error">>[1] = "error"
    BY DEF Outgoing, Answers
  <2>3. StreamOK(s)
    <3> HIDE DEF s
    <3>1. \A i \in DOMAIN s.left : i = Len(s.left) /\ s.left[i] = "error" /\ Len(s.left) = 1
      BY <2>1, <2>2
    <3>2. s.left \in Seq(Outgoing)
      BY <2>1, <2>2
    <3>. QED  BY <2>1, <3>1, <3>2, StreamStarts
  <2>. QED  BY <1>6, <2>1, <2>3, SetStream DEF HandleError
<1>7. CASE HandleResponse(m) \/ Panic(m)
  <2>1. PICK s : s.pc = "ended" /\ s.left = <<>> /\ s.out = <<>> /\ Set(m, s)
              /\ s.kind = message[m].kind
    <3>1. CASE HandleResponse(m)
      <4> DEFINE r == [message[m] EXCEPT !.pc = "ended"]
      <4>1. r.pc = "ended" /\ r.left = <<>> /\ r.out = <<>> /\ r.kind = message[m].kind
        BY <1>0, <1>1 DEF MessageState
      <4>. QED  BY <3>1, <4>1 DEF HandleResponse
    <3>2. CASE Panic(m)
      <4> DEFINE r == [message[m] EXCEPT !.pc = "ended", !.failed = TRUE]
      <4>1. r.pc = "ended" /\ r.left = <<>> /\ r.out = <<>> /\ r.kind = message[m].kind
        BY <1>0, <1>1 DEF MessageState
      <4>. QED  BY <3>2, <4>1 DEF Panic
    <3>. QED  BY <1>7, <3>1, <3>2
  <2>2. <<>> \in Seq(Outgoing) /\ DOMAIN <<>> = {}
    OBVIOUS
  <2>3. StreamOK(s)
    BY <2>1, <2>2, StreamStarts
  <2>. QED  BY <2>1, <2>3, SetStream
<1>. QED  BY <1>4, <1>5, <1>6, <1>7

LEMMA PublishingStream ==
  ASSUME GracefulInv, AnswerInv, NEW m \in Messages, Publish(m) \/ FailToPublish(m)
  PROVE  AnswerInv'
<1>0. /\ TypeOK /\ message[m] \in MessageState /\ StreamOK(message[m])
      /\ message[m].pc = "publishing" /\ message[m].left # <<>>
  BY DEF GracefulInv, TypeOK, MessagesOK, PublishingHasMore, AnswerInv, Publish, FailToPublish
<1>1. StreamTypeOK(message[m]) /\ OneAnswer(message[m]) /\ MqttInOrder(message[m])
  BY <1>0, DispatchAssumption DEF MessageState, StreamTypeOK, StreamOK
<1>2. CASE Publish(m)
  <2> DEFINE head == Head(message[m].left)
             v == [message[m] EXCEPT !.out = Append(@, head)]
             u == Rest(v)
  <2>1. head \in Outgoing /\ message[m].out \in Seq(Outgoing)
    BY <1>0, <1>1, TailIndexes DEF StreamTypeOK
  <2>2. Append(message[m].out, head) \in Seq(Outgoing)
    BY <2>1, AppendIndexes
  <2>3. /\ v \in MessageState /\ v.pc = "publishing" /\ v.left = message[m].left
        /\ v.out = Append(message[m].out, head) /\ SameMessage(message[m], v)
    <3> HIDE DEF head
    <3>. QED  BY <1>0, <2>2 DEF MessageState, SameMessage
  <2>4. /\ u.left = Tail(message[m].left) /\ u.out = v.out /\ SameMessage(message[m], u)
        /\ u.pc \in {"publishing", "ended"}
    <3> HIDE DEF v
    <3>. QED  BY <2>3 DEF Rest, MessageState, SameMessage
  <2>5. StreamOK(u)
    <3>1. OneAnswer(u) /\ MqttInOrder(u)
      <4> HIDE DEF u, v
      <4>. QED  BY <1>0, <1>1, <2>3, <2>4, HeadSent
    <3>. QED  BY <2>4, <3>1 DEF StreamOK, NothingYet
  <2>. QED  BY <1>0, <1>2, <2>4, <2>5, SetStream DEF Publish, SameMessage
<1>3. CASE FailToPublish(m) /\ message[m].via = "mqtt"
  <2> DEFINE u == [message[m] EXCEPT !.pc = "ended", !.left = <<>>, !.awaits = FALSE, !.failed = TRUE]
  <2>1. u.pc = "ended" /\ u.left = <<>> /\ u.out = message[m].out /\ SameMessage(message[m], u)
    BY <1>0 DEF MessageState, SameMessage
  <2>2. DOMAIN <<>> = {}
    OBVIOUS
  <2>3. OneAnswer(u)
    BY <1>1, <2>1, <2>2 DEF OneAnswer, SameMessage
  <2>4. MqttInOrder(u)
    BY <1>1, <2>1, <2>2 DEF MqttInOrder, SameMessage
  <2>5. StreamOK(u)
    BY <2>1, <2>3, <2>4 DEF StreamOK, NothingYet
  <2>. QED  BY <1>0, <1>3, <2>1, <2>5, SetStream DEF FailToPublish, AfterFailure, SameMessage
<1>4. CASE FailToPublish(m) /\ message[m].via # "mqtt"
  <2> DEFINE v == Rest(message[m])
             u == [v EXCEPT !.failed = TRUE]
  <2>1. /\ v \in MessageState /\ v.left = Tail(message[m].left) /\ v.out = message[m].out
        /\ SameMessage(message[m], v) /\ v.pc \in {"publishing", "ended"}
    <3>1. v \in MessageState /\ v.pc \in {"publishing", "ended"}
      BY <1>0, RestType
    <3>. QED  BY <1>0, <3>1 DEF Rest, MessageState, SameMessage
  <2>2. /\ u.left = v.left /\ u.out = v.out /\ u.pc = v.pc /\ SameMessage(v, u)
    <3> HIDE DEF v
    <3>. QED  BY <2>1 DEF MessageState, SameMessage
  <2>3. StreamOK(u)
    <3> HIDE DEF u, v
    <3>1. SameMessage(message[m], u)
      BY <2>1, <2>2 DEF SameMessage
    <3>2. OneAnswer(u) /\ MqttInOrder(u)
      BY <1>0, <1>1, <1>4, <2>1, <2>2, <3>1, HeadDropped
    <3>. QED  BY <2>1, <2>2, <3>2 DEF StreamOK, NothingYet
  <2>. QED  BY <1>0, <1>4, <2>1, <2>2, <2>3, SetStream DEF FailToPublish, AfterFailure, SameMessage
<1>. QED  BY <1>2, <1>3, <1>4

LEMMA DumpStream ==
  ASSUME TypeOK, AnswerInv, NEW d \in Dumps,
         HandleDump(d) \/ PublishResult(d) \/ FailToPublishResult(d)
  PROVE  AnswerInv'
<1>0. /\ d \in Messages /\ message[d] \in MessageState /\ StreamOK(message[d])
      /\ message[d].kind = "request"
  BY DEF TypeOK, AnswerInv, Messages
<1>1. /\ StreamTypeOK(message[d]) /\ OneAnswer(message[d]) /\ MqttInOrder(message[d])
      /\ NothingYet(message[d])
  BY <1>0, DispatchAssumption DEF MessageState, StreamTypeOK, StreamOK
<1>2. CASE HandleDump(d)
  <2> DEFINE s == [message[d] EXCEPT !.pc = "publishing", !.left = <<"response">>, !.awaits = TRUE]
  <2>1. /\ s.pc = "publishing" /\ s.left = <<"response">> /\ s.out = <<>> /\ s.notes = 0
        /\ s.kind = "request"
    BY <1>0, <1>1, <1>2 DEF MessageState, HandleDump, NothingYet
  <2>2. /\ <<"response">> \in Seq(Outgoing) /\ DOMAIN <<"response">> = {1} /\ Len(<<"response">>) = 1
        /\ <<"response">>[1] = "response"
    BY DEF Outgoing, Answers
  <2>3. StreamOK(s)
    <3> HIDE DEF s
    <3>1. \A i \in DOMAIN s.left : i = Len(s.left) /\ s.left[i] = "response" /\ Len(s.left) = 1
      BY <2>1, <2>2
    <3>2. s.left \in Seq(Outgoing)
      BY <2>1, <2>2
    <3>3. s.notes + 1 = 1
      BY <2>1
    <3>4. \A i \in DOMAIN s.left :
            /\ s.left[i] # "result"
            /\ s.left[i] \in Answers => s.kind = "request" /\ i = Len(s.left)
            /\ s.left[i] = "response" => Len(s.left) = s.notes + 1
      BY ONLY <2>1, <3>1, <3>3
    <3>5. s.out = <<>> /\ s.pc = "publishing"
      BY <2>1
    <3>. QED  BY ONLY <3>2, <3>4, <3>5, StreamStarts
  <2>. QED  BY <1>0, <1>2, <2>1, <2>3, SetStream DEF HandleDump
<1>3. CASE PublishResult(d)
  <2> DEFINE s == [message[d] EXCEPT !.awaits = FALSE, !.out = Append(@, "result")]
  <2>1. /\ s.pc = message[d].pc /\ s.left = message[d].left /\ s.out = Append(message[d].out, "result")
        /\ SameMessage(message[d], s) /\ ~s.awaits
    BY <1>0 DEF MessageState, SameMessage
  <2>2. message[d].awaits /\ (message[d].via = "mqtt" => message[d].left = <<>>)
    BY <1>3 DEF PublishResult, ResultIsNext
  <2>3. StreamOK(s)
    <3> HIDE DEF s
    <3>1. OneAnswer(s) /\ MqttInOrder(s)
      BY <1>1, <2>1, <2>2, ResultSent
    <3>. QED  BY <1>1, <2>1, <2>2, <3>1 DEF StreamOK, NothingYet
  <2>. QED  BY <1>0, <1>3, <2>1, <2>3, SetStream DEF PublishResult, SameMessage
<1>4. CASE FailToPublishResult(d)
  <2> DEFINE s == [message[d] EXCEPT !.awaits = FALSE, !.failed = TRUE]
  <2>1. /\ s.pc = message[d].pc /\ s.left = message[d].left /\ s.out = message[d].out
        /\ SameMessage(message[d], s) /\ ~s.awaits
    BY <1>0 DEF MessageState, SameMessage
  <2>2. StreamOK(s)
    <3> HIDE DEF s
    <3>1. OneAnswer(s)
      BY <1>1, <2>1 DEF OneAnswer, SameMessage
    <3>2. MqttInOrder(s)
      BY <1>1, <2>1 DEF MqttInOrder, SameMessage
    <3>3. NothingYet(s)
      BY <1>1, <2>1 DEF NothingYet, SameMessage
    <3>. QED  BY <3>1, <3>2, <3>3 DEF StreamOK
  <2>. QED  BY <1>0, <1>4, <2>1, <2>2, SetStream DEF FailToPublishResult, SameMessage
<1>. QED  BY <1>2, <1>3, <1>4

LEMMA AnswerStep == GracefulInv /\ AnswerInv /\ [Next]_vars => AnswerInv'
<1>. SUFFICES ASSUME GracefulInv, AnswerInv, [Next]_vars PROVE AnswerInv'
  OBVIOUS
<1>0. TypeOK
  BY DEF GracefulInv
<1>1. CASE UNCHANGED message
  BY <1>1 DEF AnswerInv
<1>2. ASSUME NEW m \in Messages, Run(m) PROVE AnswerInv'
  <2>1. 0 \in 0..MaxNotifications
    BY DispatchAssumption
  <2>. QED  BY <1>0, <1>2, <2>1, IncomingStream, HandlingStream, PublishingStream DEF Run
<1>3. ASSUME NEW d \in Dumps, RunDump(d) PROVE AnswerInv'
  <2>1. d \in Messages
    BY DEF Messages
  <2>. QED  BY <1>0, <1>2, <1>3, <2>1, DumpStream DEF RunDump
<1>4. ASSUME NEW m \in Messages,
             AcceptHttp(m) \/ \E kind \in {"request", "event", "response"} : Deliver(m, kind)
      PROVE  AnswerInv'
  BY <1>0, <1>4, IncomingStream
<1>5. ASSUME \/ Broker \/ Consumer
             \/ Signal \/ Stop \/ FailToUnsubscribe \/ UNCHANGED vars
             \/ \E d \in Dumps : RunTask(d)
      PROVE  UNCHANGED message
  BY <1>5 DEF Broker, Handle, Disconnect, Reconnect, Resubscribe, FailToResubscribe, Consumer,
              Consume, StreamClosed, ConsumerEnds, Signal, Stop, Unsubscribe, AwaitConsumer,
              DrainHttp, Exit, FailToUnsubscribe, RunTask, vars, dispatchVars
<1>. QED  BY <1>1, <1>2, <1>3, <1>4, <1>5 DEF Next, Messages

LEMMA AnswerInvAlways == Spec => []AnswerInv
<1>1. Init => AnswerInv
  <2>. SUFFICES ASSUME Init PROVE AnswerInv
    OBVIOUS
  <2>1. \A m \in Messages : message[m] = Sent
    BY DEF Init
  <2>2. /\ Sent.left = <<>> /\ Sent.out = <<>> /\ Sent.notes = 0 /\ ~Sent.awaits
        /\ Sent.kind = "request"
    BY DEF Sent
  <2>3. StreamOK(Sent)
    BY <2>2 DEF StreamOK, NothingYet, OneAnswer, MqttInOrder
  <2>. QED  BY <2>1, <2>2, <2>3 DEF AnswerInv, Messages
<1>. QED  BY <1>1, GracefulAlways, AnswerStep, PTL DEF Spec

\* Among what is sent for a message there is at most one answer.
LEMMA CountsOne ==
  ASSUME NEW m \in Messages, OneAnswer(message[m])
  PROVE  Count(m, Answers) <= IF message[m].kind = "request" THEN 1 ELSE 0
<1> DEFINE S == {i \in DOMAIN message[m].out : message[m].out[i] \in Answers}
<1>1. CASE S = {}
  <2>1. Cardinality(S) = 0
    BY <1>1, FS_EmptySet
  <2>. QED  BY <2>1 DEF Count
<1>2. CASE S # {}
  <2>1. PICK i \in S : TRUE
    BY <1>2
  <2>2. message[m].kind = "request" /\ S = {i}
    BY <2>1 DEF OneAnswer
  <2>3. Cardinality(S) = 1
    BY <2>2, FS_Singleton
  <2>. QED  BY <2>2, <2>3 DEF Count
<1>. QED  BY <1>1, <1>2

\* A request is answered at most once and nothing else is; over MQTT the response comes
\* right after all the notifications of the handler and before the result of its task,
\* whatever fails to be sent and however the messages and the tasks interleave.
THEOREM AnswerAlwaysLast == Spec => []AnswerIsLast
<1>1. AnswerInv => AnswerIsLast
  BY CountsOne DEF AnswerInv, AnswerIsLast, StreamOK, MqttInOrder
<1>. QED  BY <1>1, AnswerInvAlways, PTL

-----------------------------------------------------------------------------
(* The subscriptions. *)

\* Packets are handled, or lost, or added to.
LEMMA AnnouncedAfter ==
  ASSUME NEW p \in Seq({"subscribe"} \X Topics)
  PROVE  /\ p # <<>> =>
              /\ Head(p)[1] = "subscribe" /\ Tail(p) \in Seq({"subscribe"} \X Topics)
              /\ \A t : (\E i \in DOMAIN p : p[i][2] = t) =>
                   t = Head(p)[2] \/ \E i \in DOMAIN Tail(p) : Tail(p)[i][2] = t
         /\ \A n \in 0..Len(p) : SubSeq(p, n + 1, Len(p)) \in Seq({"subscribe"} \X Topics)
         /\ p \o Both("subscribe") \in Seq({"subscribe"} \X Topics)
         /\ \A t \in Topics :
              \E i \in DOMAIN (p \o Both("subscribe")) : (p \o Both("subscribe"))[i][2] = t
         /\ Append(p, <<"subscribe", "multicast">>) \in Seq({"subscribe"} \X Topics)
<1> DEFINE b == Both("subscribe")
<1>1. b \in Seq({"subscribe"} \X Topics) /\ <<"subscribe", "multicast">> \in {"subscribe"} \X Topics
  BY BothType DEF Topics
<1>2. Len(b) = 2 /\ b[1][2] = "multicast" /\ b[2][2] = "unicast"
  BY DEF Both
<1> HIDE DEF b
<1>3. ASSUME p # <<>>
      PROVE  /\ Head(p)[1] = "subscribe" /\ Tail(p) \in Seq({"subscribe"} \X Topics)
             /\ \A t : (\E i \in DOMAIN p : p[i][2] = t) =>
                  t = Head(p)[2] \/ \E i \in DOMAIN Tail(p) : Tail(p)[i][2] = t
  <2>1. /\ Head(p) \in {"subscribe"} \X Topics /\ Tail(p) \in Seq({"subscribe"} \X Topics)
        /\ Head(p) = p[1]
        /\ \A i \in DOMAIN p : i # 1 => i - 1 \in DOMAIN Tail(p) /\ Tail(p)[i - 1] = p[i]
    BY <1>1, <1>3, SeqFacts
  <2>2. Head(p)[1] = "subscribe"
    BY <2>1
  <2>3. ASSUME NEW t, NEW i \in DOMAIN p, p[i][2] = t
        PROVE  t = Head(p)[2] \/ \E k \in DOMAIN Tail(p) : Tail(p)[k][2] = t
    <3>1. CASE i = 1
      BY <2>1, <2>3, <3>1
    <3>2. CASE i # 1
      BY <2>1, <2>3, <3>2
    <3>. QED  BY <3>1, <3>2
  <2>. QED  BY <2>1, <2>2, <2>3
<1>4. \A n \in 0..Len(p) : SubSeq(p, n + 1, Len(p)) \in Seq({"subscribe"} \X Topics)
  BY <1>1, SeqFacts
<1>5. /\ p \o b \in Seq({"subscribe"} \X Topics)
      /\ Append(p, <<"subscribe", "multicast">>) \in Seq({"subscribe"} \X Topics)
      /\ \A i \in 1..2 : Len(p) + i \in DOMAIN (p \o b) /\ (p \o b)[Len(p) + i] = b[i]
  BY <1>1, <1>2, SeqFacts
<1>6. \A t \in Topics : \E i \in DOMAIN (p \o b) : (p \o b)[i][2] = t
  <2>1. 1 \in 1..2 /\ 2 \in 1..2
    OBVIOUS
  <2>. QED  BY <1>2, <1>5, <2>1 DEF Topics
<1>. QED  BY <1>3, <1>4, <1>5, <1>6 DEF b

LEMMA AnnouncedInit ==
  ASSUME NEW t \in Topics PROVE \E i \in DOMAIN Both("subscribe") : Both("subscribe")[i][2] = t
<1>1. /\ 1 \in DOMAIN Both("subscribe") /\ Both("subscribe")[1][2] = "multicast"
      /\ 2 \in DOMAIN Both("subscribe") /\ Both("subscribe")[2][2] = "unicast"
  BY DEF Both
<1>. QED  BY <1>1 DEF Topics

LEMMA ListensStep == ListensInv /\ TypeOK /\ [Next]_vars => ListensInv'
<1>. SUFFICES ASSUME ListensInv, TypeOK, [Next]_vars, service' = "running"
              PROVE  /\ packets' \in Seq({"subscribe"} \X Topics)
                     /\ connection' = "up" /\ notices' = 0 /\ ~deaf' =>
                          \A t \in Topics : t \in subscribed' \/ Announced(t)'
  BY DEF ListensInv
<1>1. CASE UNCHANGED <<service, brokerVars>>
  BY <1>1 DEF brokerVars, ListensInv, Announced
<1>2. CASE Broker
  <2>1. service = "running" /\ packets \in Seq({"subscribe"} \X Topics)
    BY <1>2 DEF Broker, Handle, Disconnect, Reconnect, Resubscribe, FailToResubscribe, runVars,
                ListensInv
  <2>2. CASE Handle
    <3>1. /\ packets # <<>> /\ packets' = Tail(packets) /\ UNCHANGED <<connection, notices, deaf>>
          /\ Head(packets)[1] = "subscribe" => subscribed' = subscribed \cup {Head(packets)[2]}
      BY <2>2 DEF Handle
    <3>2. /\ Head(packets)[1] = "subscribe"
          /\ packets' \in Seq({"subscribe"} \X Topics)
          /\ \A t : Announced(t) => t = Head(packets)[2] \/ Announced(t)'
      BY <2>1, <3>1, AnnouncedAfter DEF Announced
    <3>3. subscribed' = subscribed \cup {Head(packets)[2]}
      BY <3>1, <3>2
    <3>. QED  BY <2>1, <3>1, <3>2, <3>3 DEF ListensInv
  <2>3. CASE Disconnect
    BY <2>1, <2>3, AnnouncedAfter DEF Disconnect
  <2>4. CASE Reconnect
    BY <2>1, <2>4 DEF Reconnect, TypeOK
  <2>5. CASE Resubscribe
    BY <2>1, <2>5, AnnouncedAfter DEF Resubscribe, Announced
  <2>6. CASE FailToResubscribe
    BY <2>1, <2>6, AnnouncedAfter DEF FailToResubscribe
  <2>. QED  BY <1>2, <2>2, <2>3, <2>4, <2>5, <2>6 DEF Broker
<1>3. CASE Signal \/ Stop \/ FailToUnsubscribe
  BY <1>3 DEF Signal, Stop, Unsubscribe, AwaitConsumer, DrainHttp, Exit, FailToUnsubscribe
<1>4. CASE Consumer
  BY <1>1, <1>4 DEF Consumer, Consume, StreamClosed, ConsumerEnds
<1>5. ASSUME NEW m \in Messages,
             \/ Run(m) \/ AcceptHttp(m)
             \/ \E kind \in {"request", "event", "response"} : Deliver(m, kind)
      PROVE  UNCHANGED <<service, brokerVars>>
  BY <1>5 DEF Run, Spawn, HandleRequest, HandleEvent, HandleError, HandleResponse, Panic,
              Publish, FailToPublish, AcceptHttp, Deliver, runVars
<1>6. ASSUME NEW d \in Dumps, RunDump(d) \/ RunTask(d) PROVE UNCHANGED <<service, brokerVars>>
  BY <1>5, <1>6 DEF RunDump, RunTask, HandleDump, PublishResult, FailToPublishResult,
                    Messages, dispatchVars, runVars
<1>7. UNCHANGED vars => UNCHANGED <<service, brokerVars>>
  BY DEF vars, dispatchVars, runVars
<1>. QED  BY <1>1, <1>2, <1>3, <1>4, <1>5, <1>6, <1>7 DEF Next, Messages

\* A running, connected service that has no packets or notices left to handle is
\* subscribed to its topics, however often the connection was lost and whichever packets
\* were lost with it, unless the client refused those of the last resubscription.
THEOREM AlwaysListens == Spec => []Listens
<1>1. Init => ListensInv
  BY BothType, AnnouncedInit DEF Init, ListensInv, Announced
<1>2. ListensInv /\ TypeOK => Listens
  <2>1. DOMAIN <<>> = {}
    OBVIOUS
  <2>. QED  BY <2>1 DEF ListensInv, TypeOK, Listens, Announced
<1>. QED  BY <1>1, <1>2, ListensStep, TypeCorrect, PTL DEF Spec
=============================================================================
