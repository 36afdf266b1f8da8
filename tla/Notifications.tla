----------------------------- MODULE Notifications -----------------------------
(***************************************************************************)
(* Outbound notifications: a request commits its ticket or reply and then  *)
(* enqueues the task `support.notify`, which posts a signed body to the    *)
(* configured webhook, tries again while the receiver fails, and leaves an *)
(* audit row, the dead letter, when it gives up.                           *)
(*                                                                         *)
(* What Celery does is taken from the options the code gives it: a worker  *)
(* acknowledges a task before it runs it, so that a worker that dies takes *)
(* the task with it; a retry is a new message to the broker; with          *)
(* task_always_eager and task_eager_propagates the request runs the task   *)
(* itself and gets its exceptions, the one that asks for a retry included. *)
(* The 30 seconds between two attempts are an arbitrary delay here.        *)
(***************************************************************************)
EXTENDS Integers, FiniteSets

CONSTANTS
  Notices,     \* the notifications that requests send
  Keys,        \* idempotency keys
  Key,         \* the key of each: a hash of event, ticket and payload
  MaxRetries   \* max_retries of self.retry

ASSUME NotificationAssumption ==
  /\ Key \in [Notices -> Keys]
  /\ MaxRetries \in Nat

VARIABLES
  request,     \* the request that sends each notification
  task,        \* the task of each notification
  setting,     \* how the service is deployed
  arrived,     \* how often the receiver got each notification
  processed,   \* the notifications the receiver has acted on
  letters      \* the notifications with a dead letter

vars == <<request, task, setting, arrived, processed, letters>>

-----------------------------------------------------------------------------

\* "committed": the ticket is in the database; "error": a 500 after that.
RequestState == {"begun", "committed", "answered", "error"}

\* "posting" and "received": before and after the receiver has taken the body;
\* "failing": the retries are used up and on_failure is about to run; "lost":
\* gone with a worker, the broker, or the exception of an eager run.
TaskState == {"none", "queued", "posting", "received", "failing",
              "sent", "rejected", "skipped", "failed", "lost"}

Settled == {"sent", "rejected", "skipped", "failed", "lost"}

Task == [state : TaskState, retries : 0..MaxRetries]

\* mode: tasks run in the request (task_always_eager), or are queued, and then
\* workers, broker and audit store stay up or may go away.  configured: URL,
\* transport and secret pass their checks.
Setting == [mode : {"eager", "queued", "lossy"}, configured : BOOLEAN]
Eager == setting.mode = "eager"
Losses == setting.mode = "lossy"

In(n, state) == task[n].state = state

Becomes(n, state) == task' = [task EXCEPT ![n].state = state]

\* The body reaches the receiver, which drops a key it has seen.
SeenKeys == {Key[m] : m \in processed}

-----------------------------------------------------------------------------
(* Mutated forms of the definitions below; no specification uses them.     *)

RetryOneMore(n) ==
  IF task[n].retries <= MaxRetries
  THEN task' = [task EXCEPT ![n] = [state |-> "queued", retries |-> @.retries + 1]]
  ELSE Becomes(n, "failing")

RetrySwallowed(n) ==
  IF task[n].retries < MaxRetries
  THEN task' = [task EXCEPT ![n] = [state |-> "queued", retries |-> @.retries + 1]]
  ELSE Becomes(n, "failed")

AttemptFailsRecorded(n) ==
  /\ In(n, "posting") \/ In(n, "received")
  /\ letters' = letters \cup {n}
  /\ IF task[n].retries < MaxRetries
     THEN task' = [task EXCEPT ![n] = [state |-> "queued", retries |-> @.retries + 1]]
     ELSE Becomes(n, "failed")
  /\ UNCHANGED <<request, setting, arrived, processed>>

AnswerRequestAnyhow(n) ==
  /\ Eager
  /\ request[n] = "committed" /\ ~In(n, "none")
  /\ request' = [request EXCEPT ![n] = IF In(n, "lost") THEN "error" ELSE "answered"]
  /\ UNCHANGED <<task, setting, arrived, processed, letters>>

-----------------------------------------------------------------------------
(* The request *)

CommitTicket(n) ==
  /\ request[n] = "begun"
  /\ request' = [request EXCEPT ![n] = "committed"]
  /\ UNCHANGED <<task, setting, arrived, processed, letters>>

\* enqueue_notification, with a worker to run the task.
Enqueue(n) ==
  /\ ~Eager
  /\ request[n] = "committed" /\ In(n, "none")
  /\ Becomes(n, "queued")
  /\ request' = [request EXCEPT ![n] = "answered"]
  /\ UNCHANGED <<setting, arrived, processed, letters>>

\* .delay() raises: the ticket stays, nobody will enqueue the task again.
BrokerRefuses(n) ==
  /\ Losses
  /\ request[n] = "committed" /\ In(n, "none")
  /\ request' = [request EXCEPT ![n] = "error"]
  /\ UNCHANGED <<task, setting, arrived, processed, letters>>

RunEagerly(n) ==
  /\ Eager
  /\ request[n] = "committed" /\ In(n, "none")
  /\ Becomes(n, IF setting.configured THEN "posting" ELSE "skipped")
  /\ UNCHANGED <<request, setting, arrived, processed, letters>>

AnswerRequest(n) ==
  /\ Eager
  /\ request[n] = "committed" /\ task[n].state \in Settled
  /\ request' = [request EXCEPT ![n] = IF In(n, "lost") THEN "error" ELSE "answered"]
  /\ UNCHANGED <<task, setting, arrived, processed, letters>>

-----------------------------------------------------------------------------
(* dispatch_notification *)

\* No URL, one that is neither https nor loopback, or no secret: "skipped".
StartTask(n) ==
  /\ In(n, "queued")
  /\ Becomes(n, IF setting.configured THEN "posting" ELSE "skipped")
  /\ UNCHANGED <<request, setting, arrived, processed, letters>>

Arrive(n) ==
  /\ In(n, "posting")
  /\ arrived' = [arrived EXCEPT ![n] = @ + 1]
  /\ processed' = IF Key[n] \in SeenKeys THEN processed ELSE processed \cup {n}
  /\ Becomes(n, "received")
  /\ UNCHANGED <<request, setting, letters>>

Sent(n) ==
  /\ In(n, "received")
  /\ Becomes(n, "sent")
  /\ UNCHANGED <<request, setting, arrived, processed, letters>>

\* A 4xx other than 408 and 429.
Rejected(n) ==
  /\ In(n, "posting")
  /\ Becomes(n, "rejected")
  /\ UNCHANGED <<request, setting, arrived, processed, letters>>

\* self.retry: a new message, or the exception again when none is left.
Retry(n) ==
  IF task[n].retries < MaxRetries
  THEN task' = [task EXCEPT ![n] = [state |-> "queued", retries |-> @.retries + 1]]
  ELSE Becomes(n, "failing")

\* A 5xx, 408 or 429, no connection, or no answer within the timeout, although
\* the receiver may have taken the body.
AttemptFails(n) ==
  /\ In(n, "posting") \/ In(n, "received")
  /\ IF Eager THEN Becomes(n, "lost") ELSE Retry(n)
  /\ UNCHANGED <<request, setting, arrived, processed, letters>>

\* on_failure, in the worker that gave up.
DeadLetter(n) ==
  /\ In(n, "failing")
  /\ letters' = letters \cup {n}
  /\ Becomes(n, "failed")
  /\ UNCHANGED <<request, setting, arrived, processed>>

\* The exception of the sink is logged and swallowed.
DeadLetterFails(n) ==
  /\ Losses
  /\ In(n, "failing")
  /\ Becomes(n, "lost")
  /\ UNCHANGED <<request, setting, arrived, processed, letters>>

\* A worker dies, or the broker is gone when the retry is published.
Lose(n) ==
  /\ Losses
  /\ task[n].state \in {"posting", "received", "failing"}
  /\ Becomes(n, "lost")
  /\ UNCHANGED <<request, setting, arrived, processed, letters>>

\* The service is deployed with other settings while no task is running.
Redeploy ==
  /\ \A n \in Notices : task[n].state \in Settled \cup {"none", "queued"}
  /\ setting' = [setting EXCEPT !.configured = ~@]
  /\ UNCHANGED <<request, task, arrived, processed, letters>>

-----------------------------------------------------------------------------

Init ==
  /\ request = [n \in Notices |-> "begun"]
  /\ task = [n \in Notices |-> [state |-> "none", retries |-> 0]]
  /\ setting \in Setting
  /\ arrived = [n \in Notices |-> 0]
  /\ processed = {}
  /\ letters = {}

Attempt(n) == Arrive(n) \/ Sent(n) \/ Rejected(n) \/ AttemptFails(n)

Next ==
  \/ \E n \in Notices :
       \/ CommitTicket(n) \/ Enqueue(n) \/ BrokerRefuses(n)
       \/ RunEagerly(n) \/ AnswerRequest(n)
       \/ StartTask(n) \/ Attempt(n)
       \/ DeadLetter(n) \/ DeadLetterFails(n) \/ Lose(n)
  \/ Redeploy

Spec == Init /\ [][Next]_vars

\* A worker takes what is queued, urlopen has a timeout, and a task that gives
\* up is recorded.
FairSpec ==
  /\ Spec
  /\ \A n \in Notices : WF_vars(StartTask(n) \/ Attempt(n) \/ DeadLetter(n))

-----------------------------------------------------------------------------
(* Properties *)

TypeOK ==
  /\ request \in [Notices -> RequestState]
  /\ task \in [Notices -> Task]
  /\ setting \in Setting
  /\ arrived \in [Notices -> Nat]
  /\ processed \subseteq Notices
  /\ letters \subseteq Notices

\* "A transient failure delivers the same event up to four times": never more
\* than the first attempt and the retries, whatever the receiver answered.
DeliveryBound == \A n \in Notices : arrived[n] <= MaxRetries + 1

\* A dead letter is the end: a notification that is in the audit log for
\* replay is not delivered by the queue afterwards.
LetterIsFinal ==
  [][\A n \in letters : arrived'[n] = arrived[n]]_vars

\* Every notification that a worker has taken over ends; without losses it
\* ends delivered, refused by the receiver, skipped for its configuration, or
\* in the audit log.
Accounted ==
  \A n \in Notices :
    In(n, "queued") ~>
      IF Losses
      THEN task[n].state \in Settled
      ELSE \/ task[n].state \in {"sent", "rejected", "skipped"}
           \/ n \in letters

\* In the eager mode the answer to the request says how the notification went:
\* success means that the receiver has answered or that nothing was to be sent,
\* and never that the notification was dropped after the commit.
AnsweredIsHandedOver ==
  \A n \in Notices :
    Eager /\ request[n] = "answered" =>
      task[n].state \in {"sent", "rejected", "skipped"}

-----------------------------------------------------------------------------
(* What docstrings say and the code does not do *)

\* "A stable key for one logical notification [...] the receiver can drop the
\* duplicates": what the receiver has answered with 200 it has acted on.
SentIsProcessed == \A n \in Notices : In(n, "sent") => n \in processed

\* "Records an audit row when a notification is given up on": unless a worker
\* or a store died, no notification just disappears.
GivenUpIsRecorded ==
  ~Losses => \A n \in Notices : In(n, "lost") => n \in letters
=============================================================================
