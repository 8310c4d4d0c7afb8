----------------------------- MODULE DumpEvents -----------------------------
(***************************************************************************)
(* room.dump_events: tasks that load the events of a room, upload them to  *)
(* an S3 object with a few retries, and end with a notification.           *)
(*                                                                         *)
(* What the object holds is abstracted to whose events S3 has accepted.    *)
(* Dispatch runs the tasks.                                                *)
(***************************************************************************)
EXTENDS Integers

CONSTANTS
  Dumps,   \* requests for a dump
  RETRIES  \* const RETRIES

ASSUME DumpEventsAssumption == RETRIES \in Nat \ {0}

VARIABLES
  pc,        \* where each dump is
  attempts,  \* its failed uploads
  uploaded,  \* the dumps whose events S3 has accepted
  status     \* the status in each dump's notification

dumpVars == <<pc, attempts, uploaded, status>>

DumpTypeOK ==
  /\ pc \in [Dumps -> {"requested", "accepted", "uploading", "finished"}]
  /\ attempts \in [Dumps -> 0..RETRIES]
  /\ uploaded \subseteq Dumps
  /\ status \in [Dumps -> {"none", "success", "error"}]

DumpInit ==
  /\ pc = [d \in Dumps |-> "requested"]
  /\ attempts = [d \in Dumps |-> 0]
  /\ uploaded = {}
  /\ status = [d \in Dumps |-> "none"]

\* Authorized, with an S3 client at hand: 202, and the task is spawned.
Accept(d) ==
  /\ pc[d] = "requested"
  /\ pc' = [pc EXCEPT ![d] = "accepted"]
  /\ UNCHANGED <<attempts, uploaded, status>>

\* The task ends with a notification.
Notify(d, s) ==
  /\ pc' = [pc EXCEPT ![d] = "finished"]
  /\ status' = [status EXCEPT ![d] = s]

\* load_room_events, and the serialization of what it found
Load(d) ==
  /\ pc[d] = "accepted"
  /\ pc' = [pc EXCEPT ![d] = "uploading"]
  /\ UNCHANGED <<attempts, uploaded, status>>

\* One of them fails.
FailToLoad(d) ==
  /\ pc[d] = "accepted"
  /\ Notify(d, "error")
  /\ UNCHANGED <<attempts, uploaded>>

\* Faulty variant: the loop runs until an upload succeeds.
RetryForever(d) ==
  /\ attempts' = [attempts EXCEPT ![d] = (@ + 1) % RETRIES]
  /\ UNCHANGED <<pc, status>>

\* Faulty variant: the loop ends whatever the result.
RetryNever(d) ==
  /\ attempts' = [attempts EXCEPT ![d] = @ + 1]
  /\ Notify(d, "success")

\* for _ in 0..RETRIES: after the last failure the loop ends, and upload_events
\* returns the URI.
Retry(d) ==
  /\ attempts' = [attempts EXCEPT ![d] = @ + 1]
  /\ IF attempts[d] + 1 < RETRIES THEN UNCHANGED <<pc, status>> ELSE Notify(d, "success")

\* S3 accepts the object.
Store(d) == uploaded' = uploaded \cup {d}

Upload(d) ==
  /\ pc[d] = "uploading"
  /\ Store(d)
  /\ Notify(d, "success")
  /\ UNCHANGED attempts

\* put_object fails: S3 refused, or accepted and the answer was lost.
FailToUpload(d) ==
  /\ pc[d] = "uploading"
  /\ Store(d) \/ UNCHANGED uploaded
  /\ Retry(d)

Task(d) == Load(d) \/ FailToLoad(d) \/ Upload(d) \/ FailToUpload(d)

-----------------------------------------------------------------------------
\* s3_uri is the "S3 uri of the object events were dumped to": a dump that is
\* reported as a success was uploaded, unless all attempts failed, which nobody
\* looks at; and one that is reported as an error never reached S3.
ResultReported ==
  \A d \in Dumps :
    /\ status[d] = "success" => d \in uploaded \/ attempts[d] = RETRIES
    /\ status[d] = "error" => d \notin uploaded

\* What a dump has done so far agrees with where it is.
DumpInv ==
  \A d \in Dumps :
    /\ pc[d] \in {"requested", "accepted"} => d \notin uploaded
    /\ pc[d] # "finished" => status[d] = "none" /\ attempts[d] < RETRIES
=============================================================================
