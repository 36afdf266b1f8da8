-------------------------- MODULE NotificationsProofs --------------------------
(***************************************************************************)
(* Proofs about Notifications, for any notifications and any max_retries,  *)
(* in every mode.                                                          *)
(***************************************************************************)
EXTENDS Notifications, TLAPS

\* Each arrival is paid for by an attempt: the retries, and the first one
\* once its outcome is known.
Counted ==
  \A n \in Notices :
    arrived[n] <= task[n].retries +
      (IF task[n].state \in {"none", "queued", "posting"} THEN 0 ELSE 1)

LetterEnds == \A n \in letters : In(n, "failed")

IInv == TypeOK /\ Counted /\ LetterEnds

LEMMA InitIInv == Init => IInv
BY NotificationAssumption
   DEF Init, IInv, TypeOK, Counted, LetterEnds, RequestState, TaskState, Task

-----------------------------------------------------------------------------

\* The task after a step that moves it to another state.
LEMMA BecomesState ==
  ASSUME TypeOK, NEW n \in Notices, NEW state \in TaskState, Becomes(n, state)
  PROVE  /\ task' \in [Notices -> Task]
         /\ task'[n].state = state /\ task'[n].retries = task[n].retries
         /\ \A m \in Notices \ {n} : task'[m] = task[m]
<1>1. task[n] \in Task
  BY DEF TypeOK
<1>2. [task[n] EXCEPT !.state = state] \in Task
  BY <1>1 DEF Task
<1>3. task' = [task EXCEPT ![n] = [task[n] EXCEPT !.state = state]]
  BY DEF Becomes
<1> QED
  BY <1>1, <1>2, <1>3 DEF TypeOK, Task

\* A step that leaves the receiver alone keeps the invariant if it does not
\* take an arrived body back, and moves no task that has a dead letter.
LEMMA MoveStep ==
  ASSUME IInv, NEW n \in Notices, NEW state \in TaskState, Becomes(n, state),
         In(n, "none") \/ In(n, "queued") \/ In(n, "posting") \/
           state \notin {"none", "queued", "posting"},
         ~In(n, "failed"), n \in letters' => state = "failed",
         request' \in [Notices -> RequestState], setting' \in Setting,
         UNCHANGED <<arrived, processed>>, letters' \subseteq letters \cup {n}
  PROVE  IInv'
<1>1. /\ task' \in [Notices -> Task]
      /\ task'[n].state = state /\ task'[n].retries = task[n].retries
      /\ \A m \in Notices \ {n} : task'[m] = task[m]
  BY BecomesState DEF IInv
<1>2. TypeOK'
  BY <1>1 DEF IInv, TypeOK
<1>3. Counted'
  BY <1>1 DEF IInv, TypeOK, Counted, Task, In
<1>4. LetterEnds'
  BY <1>1 DEF IInv, TypeOK, LetterEnds, In
<1> QED
  BY <1>2, <1>3, <1>4 DEF IInv

-----------------------------------------------------------------------------
(* The request *)

LEMMA RequestStep ==
  ASSUME IInv, NEW n \in Notices,
         CommitTicket(n) \/ BrokerRefuses(n) \/ AnswerRequest(n)
  PROVE  IInv'
<1>1. request' \in [Notices -> RequestState]
  BY DEF IInv, TypeOK, CommitTicket, BrokerRefuses, AnswerRequest, RequestState
<1>2. UNCHANGED <<task, setting, arrived, processed, letters>>
  BY DEF CommitTicket, BrokerRefuses, AnswerRequest
<1> QED
  BY <1>1, <1>2 DEF IInv, TypeOK, Counted, LetterEnds, In

LEMMA HandOverStep ==
  ASSUME IInv, NEW n \in Notices,
         Enqueue(n) \/ RunEagerly(n) \/ StartTask(n)
  PROVE  IInv'
<1>1. PICK state \in {"queued", "posting", "skipped"} : Becomes(n, state)
  BY DEF Enqueue, RunEagerly, StartTask
<1>2. state \in TaskState
  BY DEF TaskState
<1>3. In(n, "none") \/ In(n, "queued")
  BY DEF Enqueue, RunEagerly, StartTask
<1>4. /\ ~In(n, "failed") /\ n \notin letters
      /\ request' \in [Notices -> RequestState] /\ setting' \in Setting
      /\ UNCHANGED <<arrived, processed, letters>>
  BY <1>3 DEF IInv, TypeOK, LetterEnds, In, Enqueue, RunEagerly, StartTask,
              RequestState
<1> QED
  BY <1>1, <1>2, <1>3, <1>4, MoveStep

-----------------------------------------------------------------------------
(* The task *)

LEMMA ArriveStep ==
  ASSUME IInv, NEW n \in Notices, Arrive(n)
  PROVE  IInv'
<1>1. "received" \in TaskState
  BY DEF TaskState
<1>2. /\ task' \in [Notices -> Task]
      /\ task'[n].state = "received" /\ task'[n].retries = task[n].retries
      /\ \A m \in Notices \ {n} : task'[m] = task[m]
  BY <1>1, BecomesState DEF IInv, Arrive
<1>3. TypeOK'
  <2>1. arrived' \in [Notices -> Nat]
    BY DEF IInv, TypeOK, Arrive
  <2>2. processed' \subseteq Notices
    BY DEF IInv, TypeOK, Arrive
  <2> QED
    BY <1>2, <2>1, <2>2 DEF IInv, TypeOK, Arrive
<1>4. Counted'
  <2>1. arrived[n] <= task[n].retries
    BY DEF IInv, TypeOK, Counted, Task, Arrive, In
  <2>2. arrived'[n] <= task'[n].retries + 1
    BY <1>2, <2>1 DEF IInv, TypeOK, Task, Arrive
  <2>3. \A m \in Notices \ {n} : arrived'[m] = arrived[m]
    BY DEF IInv, TypeOK, Arrive
  <2> QED
    BY <1>2, <2>2, <2>3 DEF IInv, Counted
<1>5. LetterEnds'
  BY <1>2 DEF IInv, TypeOK, LetterEnds, Arrive, In
<1> QED
  BY <1>3, <1>4, <1>5 DEF IInv

LEMMA EndStep ==
  ASSUME IInv, NEW n \in Notices,
         Sent(n) \/ Rejected(n) \/ DeadLetterFails(n) \/ Lose(n)
  PROVE  IInv'
<1>1. PICK state \in {"sent", "rejected", "lost"} : Becomes(n, state)
  BY DEF Sent, Rejected, DeadLetterFails, Lose
<1>2. state \in TaskState /\ state \notin {"none", "queued", "posting"}
  BY DEF TaskState
<1>3. ~In(n, "failed")
  BY DEF Sent, Rejected, DeadLetterFails, Lose, In
<1>4. /\ n \notin letters
      /\ request' \in [Notices -> RequestState] /\ setting' \in Setting
      /\ UNCHANGED <<arrived, processed, letters>>
  BY <1>3 DEF IInv, TypeOK, LetterEnds, Sent, Rejected, DeadLetterFails, Lose
<1> QED
  BY <1>1, <1>2, <1>3, <1>4, MoveStep

LEMMA DeadLetterStep ==
  ASSUME IInv, NEW n \in Notices, DeadLetter(n)
  PROVE  IInv'
<1>1. /\ "failed" \in TaskState /\ "failed" \notin {"none", "queued", "posting"}
      /\ Becomes(n, "failed") /\ ~In(n, "failed")
  BY DEF TaskState, DeadLetter, In
<1>2. /\ request' \in [Notices -> RequestState] /\ setting' \in Setting
      /\ UNCHANGED <<arrived, processed>> /\ letters' \subseteq letters \cup {n}
  BY DEF IInv, TypeOK, DeadLetter
<1> QED
  BY <1>1, <1>2, MoveStep

\* The retry that is counted pays for the arrival of the attempt that failed.
LEMMA AttemptFailsStep ==
  ASSUME IInv, NEW n \in Notices, AttemptFails(n)
  PROVE  IInv'
<1>1. /\ ~In(n, "failed") /\ n \notin letters
      /\ request' \in [Notices -> RequestState] /\ setting' \in Setting
      /\ UNCHANGED <<arrived, processed, letters>>
  BY DEF IInv, TypeOK, LetterEnds, AttemptFails, In
<1>2. CASE Becomes(n, "lost") \/ Becomes(n, "failing")
  <2>1. PICK state \in {"lost", "failing"} : Becomes(n, state)
    BY <1>2
  <2>2. state \in TaskState /\ state \notin {"none", "queued", "posting"}
    BY DEF TaskState
  <2> QED
    BY <1>1, <2>1, <2>2, MoveStep
<1>3. CASE /\ task[n].retries < MaxRetries
           /\ task' = [task EXCEPT ![n] = [state |-> "queued",
                                           retries |-> @.retries + 1]]
  <2>1. [state |-> "queued", retries |-> task[n].retries + 1] \in Task
    BY <1>3, NotificationAssumption DEF IInv, TypeOK, Task, TaskState
  <2>2. /\ task' \in [Notices -> Task]
        /\ task'[n].state = "queued" /\ task'[n].retries = task[n].retries + 1
        /\ \A m \in Notices \ {n} : task'[m] = task[m]
    BY <1>3, <2>1 DEF IInv, TypeOK
  <2>3. TypeOK'
    BY <1>1, <2>2 DEF IInv, TypeOK
  <2>4. Counted'
    BY <1>1, <2>2 DEF IInv, TypeOK, Counted, Task
  <2>5. LetterEnds'
    BY <1>1, <2>2 DEF IInv, TypeOK, LetterEnds, In
  <2> QED
    BY <2>3, <2>4, <2>5 DEF IInv
<1> QED
  BY <1>2, <1>3 DEF AttemptFails, Retry

-----------------------------------------------------------------------------

LEMMA StepIInv == IInv /\ [Next]_vars => IInv'
<1> SUFFICES ASSUME IInv, [Next]_vars
             PROVE  IInv'
  OBVIOUS
<1>1. CASE UNCHANGED vars
  BY <1>1 DEF vars, IInv, TypeOK, Counted, LetterEnds, In
<1>2. CASE Redeploy
  BY <1>2 DEF Redeploy, Setting, IInv, TypeOK, Counted, LetterEnds, In
<1>3. CASE Next /\ ~Redeploy
  BY <1>3, RequestStep, HandOverStep, ArriveStep, EndStep, DeadLetterStep,
     AttemptFailsStep
     DEF Next, Attempt
<1> QED
  BY <1>1, <1>2, <1>3

LEMMA Invariance == Spec => []IInv
<1> QED
  BY InitIInv, StepIInv, PTL DEF Spec

-----------------------------------------------------------------------------
(* The eager mode *)

\* In the eager mode a task is never queued, so it is never retried and never
\* given up; and the request waits for it, so nothing moves it after the answer.
EagerInv ==
  Eager => \A n \in Notices :
    /\ task[n].state \notin {"queued", "failing", "failed"}
    /\ request[n] = "answered" => task[n].state \in {"sent", "rejected", "skipped"}

LEMMA InitEagerInv == Init => EagerInv
BY DEF Init, EagerInv

LEMMA ModeStays == IInv /\ [Next]_vars => setting'.mode = setting.mode
<1> SUFFICES ASSUME IInv, [Next]_vars PROVE setting'.mode = setting.mode
  OBVIOUS
<1>1. CASE Redeploy
  BY <1>1 DEF Redeploy, IInv, TypeOK, Setting
<1>2. CASE ~Redeploy
  BY <1>2 DEF Next, Attempt, CommitTicket, Enqueue, BrokerRefuses, RunEagerly,
              AnswerRequest, StartTask, Arrive, Sent, Rejected, AttemptFails,
              DeadLetter, DeadLetterFails, Lose, vars
<1> QED
  BY <1>1, <1>2

\* What a step of the mode does to the task of a request that is not answered.
LEMMA EagerMove ==
  ASSUME IInv, EagerInv, Eager, Eager', NEW n \in Notices, NEW state \in TaskState,
         Becomes(n, state), state \notin {"queued", "failing", "failed"},
         task[n].state \notin {"sent", "rejected", "skipped"}, request' = request
  PROVE  EagerInv'
<1>1. /\ task'[n].state = state
      /\ \A m \in Notices \ {n} : task'[m] = task[m]
  BY BecomesState DEF IInv
<1>2. request[n] # "answered"
  BY DEF EagerInv
<1> QED
  BY <1>1, <1>2 DEF EagerInv

LEMMA StepEagerInv == IInv /\ EagerInv /\ [Next]_vars => EagerInv'
<1> SUFFICES ASSUME IInv, EagerInv, [Next]_vars, Eager' PROVE EagerInv'
  BY DEF EagerInv
<1>1. Eager /\ ~Losses
  BY ModeStays DEF Eager, Losses
<1>2. CASE Redeploy \/ UNCHANGED vars
  BY <1>1, <1>2 DEF Redeploy, vars, EagerInv
<1>3. ASSUME NEW n \in Notices, CommitTicket(n) PROVE EagerInv'
  BY <1>1, <1>3 DEF CommitTicket, EagerInv, IInv, TypeOK
<1>4. ASSUME NEW n \in Notices, RunEagerly(n) PROVE EagerInv'
  <2>1. PICK state \in {"posting", "skipped"} : Becomes(n, state)
    BY <1>4 DEF RunEagerly
  <2> QED
    BY <1>1, <1>4, <2>1, EagerMove DEF RunEagerly, In, TaskState
<1>5. ASSUME NEW n \in Notices, AnswerRequest(n) PROVE EagerInv'
  <2>1. task[n].state \in {"sent", "rejected", "skipped", "lost"}
    BY <1>1, <1>5 DEF AnswerRequest, Settled, EagerInv
  <2> QED
    BY <1>1, <1>5, <2>1 DEF AnswerRequest, In, EagerInv, IInv, TypeOK
<1>6. ASSUME NEW n \in Notices, Attempt(n) PROVE EagerInv'
  <2>1. PICK state \in {"received", "sent", "rejected", "lost"} : Becomes(n, state)
    BY <1>1, <1>6 DEF Attempt, Arrive, Sent, Rejected, AttemptFails
  <2>2. task[n].state \in {"posting", "received"} /\ request' = request
    BY <1>6 DEF Attempt, Arrive, Sent, Rejected, AttemptFails, In
  <2> QED
    BY <1>1, <2>1, <2>2, EagerMove DEF TaskState
<1>7. ASSUME NEW n \in Notices PROVE ~StartTask(n) /\ ~DeadLetter(n)
  BY <1>1 DEF EagerInv, StartTask, DeadLetter, In
<1>8. ASSUME NEW n \in Notices
      PROVE  ~Enqueue(n) /\ ~BrokerRefuses(n) /\ ~DeadLetterFails(n) /\ ~Lose(n)
  BY <1>1 DEF Enqueue, BrokerRefuses, DeadLetterFails, Lose
<1> QED
  BY <1>2, <1>3, <1>4, <1>5, <1>6, <1>7, <1>8 DEF Next

LEMMA EagerInvariance == Spec => []EagerInv
BY InitEagerInv, StepEagerInv, Invariance, PTL DEF Spec

-----------------------------------------------------------------------------
(* What the receiver makes of the keys *)

\* What the receiver has taken has a key that it has acted on.
KeyInv ==
  \A n \in Notices : task[n].state \in {"received", "sent"} => Key[n] \in SeenKeys

LEMMA ArriveKeepsKeyInv ==
  ASSUME IInv, KeyInv, NEW n \in Notices, Arrive(n)
  PROVE  KeyInv'
<1>1. /\ \A m \in Notices \ {n} : task'[m] = task[m]
      /\ processed' = IF Key[n] \in SeenKeys THEN processed ELSE processed \cup {n}
  BY DEF Arrive, Becomes, IInv, TypeOK
<1>2. Key[n] \in SeenKeys' /\ SeenKeys \subseteq SeenKeys'
  BY <1>1 DEF SeenKeys
<1> QED
  BY <1>1, <1>2 DEF KeyInv

LEMMA NextKeepsKeyInv == IInv /\ KeyInv /\ [Next]_vars => KeyInv'
<1> SUFFICES ASSUME IInv, KeyInv, [Next]_vars PROVE KeyInv'
  OBVIOUS
<1>1. ASSUME NEW n \in Notices, Arrive(n) PROVE KeyInv'
  BY <1>1, ArriveKeepsKeyInv
<1>2. CASE UNCHANGED <<task, processed>>
  BY <1>2 DEF KeyInv, SeenKeys
<1>3. ASSUME NEW n \in Notices, NEW state \in TaskState, Becomes(n, state),
             state = "sent" => In(n, "received"), state # "received",
             processed' = processed
      PROVE  KeyInv'
  <2>1. task'[n].state = state /\ \A m \in Notices \ {n} : task'[m] = task[m]
    BY <1>3, BecomesState DEF IInv
  <2> QED
    BY <1>3, <2>1 DEF KeyInv, SeenKeys, In
<1>4. ASSUME NEW n \in Notices, AttemptFails(n) PROVE KeyInv'
  <2>1. /\ task'[n].state \in {"lost", "queued", "failing"}
        /\ \A m \in Notices \ {n} : task'[m] = task[m]
        /\ processed' = processed
    BY <1>4, NotificationAssumption
       DEF AttemptFails, Retry, Becomes, IInv, TypeOK, Task
  <2> QED
    BY <2>1 DEF KeyInv, SeenKeys
<1>5. ASSUME NEW n \in Notices,
             \/ Enqueue(n) \/ RunEagerly(n) \/ StartTask(n) \/ Sent(n)
             \/ Rejected(n) \/ DeadLetter(n) \/ DeadLetterFails(n) \/ Lose(n)
      PROVE  KeyInv'
  <2>1. PICK state \in TaskState :
          /\ Becomes(n, state)
          /\ state = "sent" => In(n, "received")
          /\ state # "received"
    BY <1>5 DEF Enqueue, RunEagerly, StartTask, Sent, Rejected, DeadLetter,
                DeadLetterFails, Lose, TaskState
  <2>2. processed' = processed
    BY <1>5 DEF Enqueue, RunEagerly, StartTask, Sent, Rejected, DeadLetter,
                DeadLetterFails, Lose
  <2> QED
    BY <1>3, <2>1, <2>2
<1>6. CASE \/ UNCHANGED vars \/ Redeploy
           \/ \E n \in Notices : CommitTicket(n) \/ BrokerRefuses(n) \/ AnswerRequest(n)
  BY <1>2, <1>6 DEF vars, Redeploy, CommitTicket, BrokerRefuses, AnswerRequest
<1> QED
  BY <1>1, <1>4, <1>5, <1>6 DEF Next, Attempt

LEMMA KeyInvariance == Spec => []KeyInv
<1>1. Init => KeyInv
  BY DEF Init, KeyInv
<1> QED
  BY <1>1, NextKeepsKeyInv, Invariance, PTL DEF Spec

-----------------------------------------------------------------------------
(* Theorems *)

\* Requests, tasks, and the records of both sides have their shape.
THEOREM TypeCorrect == Spec => []TypeOK
<1>1. IInv => TypeOK
  BY DEF IInv
<1> QED
  BY <1>1, Invariance, PTL

\* A notification arrives at most once more than max_retries, whatever the
\* receiver answers and however often workers die.
THEOREM DeliveryBounded == Spec => []DeliveryBound
<1>1. IInv => DeliveryBound
  BY NotificationAssumption DEF IInv, TypeOK, Counted, DeliveryBound, Task
<1> QED
  BY <1>1, Invariance, PTL

\* A notification with a dead letter does not arrive again.
THEOREM LettersAreFinal == Spec => LetterIsFinal
<1>1. IInv /\ [Next]_vars => [\A n \in letters : arrived'[n] = arrived[n]]_vars
  <2> SUFFICES ASSUME IInv, Next, NEW n \in letters
               PROVE  arrived'[n] = arrived[n]
    BY DEF IInv, TypeOK
  <2>1. n \in Notices /\ In(n, "failed")
    BY DEF IInv, TypeOK, LetterEnds
  <2>2. ASSUME NEW m \in Notices, Arrive(m)
        PROVE  arrived'[n] = arrived[n]
    BY <2>1, <2>2 DEF Arrive, In, IInv, TypeOK
  <2>3. CASE \A m \in Notices : ~Arrive(m)
    BY <2>3 DEF Next, Attempt, CommitTicket, Enqueue, BrokerRefuses, RunEagerly,
                AnswerRequest, StartTask, Sent, Rejected, AttemptFails,
                DeadLetter, DeadLetterFails, Lose, Redeploy
  <2> QED
    BY <2>2, <2>3
<1> QED
  BY <1>1, Invariance, PTL DEF Spec, LetterIsFinal

\* In the eager mode, success is answered only when the notification was taken,
\* refused or not to be sent, and it stays so.
THEOREM AnsweredAlwaysIsHandedOver == Spec => []AnsweredIsHandedOver
<1>1. EagerInv => AnsweredIsHandedOver
  BY DEF EagerInv, AnsweredIsHandedOver
<1> QED
  BY <1>1, EagerInvariance, PTL

\* Only a shared key loses a notification: if no two have the same one, what the
\* receiver has answered with 200 it has acted on.
THEOREM SentAlwaysProcessedWithOwnKey ==
  ASSUME \A m, n \in Notices : Key[m] = Key[n] => m = n
  PROVE  Spec => []SentIsProcessed
<1>1. IInv /\ KeyInv => SentIsProcessed
  <2> SUFFICES ASSUME IInv, KeyInv, NEW n \in Notices, In(n, "sent")
               PROVE  n \in processed
    BY DEF SentIsProcessed
  <2>1. PICK m \in processed : Key[n] = Key[m]
    BY DEF KeyInv, In, SeenKeys
  <2>2. m \in Notices
    BY DEF IInv, TypeOK
  <2> QED
    BY <2>1, <2>2
<1> QED
  BY <1>1, Invariance, KeyInvariance, PTL

-----------------------------------------------------------------------------
(* What is left of a task, and where it ends *)

\* The steps that an attempt has still to go, and the steps that a task has.
AttemptLeft ==
  [state \in TaskState |->
     CASE state = "none"     -> 5
       [] state = "queued"   -> 4
       [] state = "posting"  -> 3
       [] state = "received" -> 2
       [] state = "failing"  -> 1
       [] OTHER              -> 0]

TaskLeft(t) == 4 * (MaxRetries - t.retries) + AttemptLeft[t.state]

GetsCloser(n) ==
  /\ TaskLeft(task[n]) \in Nat
  /\ task'[n] # task[n] => TaskLeft(task'[n]) < TaskLeft(task[n])
  /\ StartTask(n) \/ Attempt(n) \/ DeadLetter(n) =>
       TaskLeft(task'[n]) < TaskLeft(task[n])

\* A queued task is given up only into the audit log.
AccountInv ==
  setting.mode = "queued" =>
    \A n \in Notices :
      /\ ~In(n, "lost")
      /\ In(n, "failed") => n \in letters

LEMMA LeftType ==
  ASSUME NEW t \in Task
  PROVE  /\ MaxRetries - t.retries \in Nat /\ AttemptLeft[t.state] \in 0..5
         /\ TaskLeft(t) \in Nat
<1>1. MaxRetries - t.retries \in Nat
  BY NotificationAssumption DEF Task
<1>2. AttemptLeft[t.state] \in 0..5
  BY DEF Task, AttemptLeft
<1> QED
  BY <1>1, <1>2 DEF TaskLeft

\* A step to another state of the attempt.
LEMMA MoveCloser ==
  ASSUME TypeOK, NEW n \in Notices, NEW state \in TaskState, Becomes(n, state),
         AttemptLeft[state] < AttemptLeft[task[n].state]
  PROVE  /\ TaskLeft(task'[n]) < TaskLeft(task[n])
         /\ \A m \in Notices \ {n} : task'[m] = task[m]
<1>1. /\ task' \in [Notices -> Task]
      /\ task'[n].state = state /\ task'[n].retries = task[n].retries
      /\ \A m \in Notices \ {n} : task'[m] = task[m]
  BY BecomesState
<1>2. task[n] \in Task /\ task'[n] \in Task
  BY <1>1 DEF TypeOK
<1>3. /\ MaxRetries - task[n].retries \in Nat
      /\ AttemptLeft[task[n].state] \in Nat /\ AttemptLeft[state] \in Nat
  BY <1>1, <1>2, LeftType
<1> QED
  BY <1>1, <1>3 DEF TaskLeft

\* A retry starts the attempt anew and is one less.
LEMMA RetryCloser ==
  ASSUME TypeOK, NEW n \in Notices, task[n].state \in {"posting", "received"}, Retry(n)
  PROVE  /\ TaskLeft(task'[n]) < TaskLeft(task[n])
         /\ \A m \in Notices \ {n} : task'[m] = task[m]
<1>1. task[n] \in Task /\ AttemptLeft[task[n].state] \in {2, 3}
  BY DEF TypeOK, AttemptLeft, TaskState
<1>2. CASE ~(task[n].retries < MaxRetries)
  <2>1. /\ Becomes(n, "failing") /\ "failing" \in TaskState
        /\ AttemptLeft["failing"] < AttemptLeft[task[n].state]
    BY <1>1, <1>2 DEF Retry, AttemptLeft, TaskState
  <2> QED
    BY <2>1, MoveCloser
<1>3. CASE task[n].retries < MaxRetries
  <2>1. /\ task'[n] = [state |-> "queued", retries |-> task[n].retries + 1]
        /\ \A m \in Notices \ {n} : task'[m] = task[m]
    BY <1>3 DEF Retry, TypeOK
  <2>2. AttemptLeft["queued"] = 4
    BY DEF AttemptLeft, TaskState
  <2>3. task[n].retries \in Nat /\ MaxRetries \in Nat
    BY <1>1, NotificationAssumption DEF Task
  <2>4. /\ TaskLeft(task'[n]) = 4 * (MaxRetries - (task[n].retries + 1)) + 4
        /\ TaskLeft(task[n]) =
             4 * (MaxRetries - task[n].retries) + AttemptLeft[task[n].state]
    BY <2>1, <2>2 DEF TaskLeft
  <2> QED
    BY <1>1, <2>1, <2>3, <2>4
<1> QED
  BY <1>2, <1>3

LEMMA NextGetsCloser == TypeOK /\ Next => \A n \in Notices : GetsCloser(n)
<1> SUFFICES ASSUME TypeOK, Next
             PROVE  \A n \in Notices : GetsCloser(n)
  OBVIOUS
<1>1. \A n \in Notices : TaskLeft(task[n]) \in Nat
  BY LeftType DEF TypeOK
<1>2. ASSUME NEW n \in Notices,
             StartTask(n) \/ Attempt(n) \/ DeadLetter(n) \/ Enqueue(n) \/ RunEagerly(n)
               \/ DeadLetterFails(n) \/ Lose(n)
      PROVE  /\ TaskLeft(task'[n]) < TaskLeft(task[n])
             /\ \A m \in Notices \ {n} : task'[m] = task[m]
  <2>1. CASE AttemptFails(n) /\ ~Eager
    BY <2>1, RetryCloser DEF AttemptFails, In
  <2>2. CASE ~(AttemptFails(n) /\ ~Eager)
    <3>1. PICK state \in TaskState :
            Becomes(n, state) /\ AttemptLeft[state] < AttemptLeft[task[n].state]
      <4>1. CASE StartTask(n)
        BY <4>1 DEF StartTask, In, AttemptLeft, TaskState
      <4>2. CASE Arrive(n) \/ Sent(n) \/ Rejected(n)
        BY <4>2 DEF Arrive, Sent, Rejected, In, AttemptLeft, TaskState
      <4>3. CASE AttemptFails(n)
        BY <4>3, <2>2 DEF AttemptFails, In, AttemptLeft, TaskState
      <4>4. CASE DeadLetter(n) \/ DeadLetterFails(n) \/ Lose(n)
        BY <4>4 DEF DeadLetter, DeadLetterFails, Lose, In, AttemptLeft, TaskState
      <4>5. CASE Enqueue(n) \/ RunEagerly(n)
        BY <4>5 DEF Enqueue, RunEagerly, In, AttemptLeft, TaskState
      <4> QED
        BY <1>2, <4>1, <4>2, <4>3, <4>4, <4>5 DEF Attempt
    <3> QED
      BY <3>1, MoveCloser
  <2> QED
    BY <2>1, <2>2
<1>3. CASE task' = task
  <2>1. ASSUME NEW n \in Notices
        PROVE  ~(StartTask(n) \/ Attempt(n) \/ DeadLetter(n))
    <3>1. TaskLeft(task'[n]) = TaskLeft(task[n])
      BY <1>3
    <3> QED
      BY <1>1, <1>2, <3>1
  <2> QED
    BY <1>1, <1>3, <2>1 DEF GetsCloser
<1>4. CASE task' # task
  <2>1. PICK n \in Notices :
          StartTask(n) \/ Attempt(n) \/ DeadLetter(n) \/ Enqueue(n) \/ RunEagerly(n)
            \/ DeadLetterFails(n) \/ Lose(n)
    BY <1>4 DEF Next, CommitTicket, BrokerRefuses, AnswerRequest, Redeploy
  <2>2. /\ TaskLeft(task'[n]) < TaskLeft(task[n])
        /\ \A m \in Notices \ {n} : task'[m] = task[m]
    BY <1>2, <2>1
  <2>3. ASSUME NEW m \in Notices \ {n}
        PROVE  ~(StartTask(m) \/ Attempt(m) \/ DeadLetter(m))
    <3>1. TaskLeft(task'[m]) = TaskLeft(task[m])
      BY <2>2
    <3> QED
      BY <1>1, <1>2, <3>1
  <2> QED
    BY <1>1, <2>2, <2>3 DEF GetsCloser
<1> QED
  BY <1>3, <1>4

\* Every step of a task brings it closer to its end: with what is left of its
\* retries and of the attempt, the worker that runs it can do no more than
\* 4 * MaxRetries + 4 steps, in whatever order receivers fail and brokers lose.
THEOREM TasksAlwaysGetCloser == Spec => [][\A n \in Notices : GetsCloser(n)]_vars
<1>1. TypeOK /\ [Next]_vars => [\A n \in Notices : GetsCloser(n)]_vars
  BY NextGetsCloser
<1> QED
  BY <1>1, TypeCorrect, PTL DEF Spec

LEMMA NextKeepsAccounts == IInv /\ AccountInv /\ [Next]_vars => AccountInv'
<1> SUFFICES ASSUME IInv, AccountInv, [Next]_vars, setting'.mode = "queued"
             PROVE  AccountInv'
  BY DEF AccountInv
<1>1. setting.mode = "queued" /\ ~Losses /\ ~Eager
  BY ModeStays DEF Losses, Eager
<1>2. ASSUME NEW n \in Notices, NEW state \in TaskState, Becomes(n, state),
             state # "lost", state = "failed" => n \in letters', letters \subseteq letters'
      PROVE  AccountInv'
  <2>1. task'[n].state = state /\ \A m \in Notices \ {n} : task'[m] = task[m]
    BY <1>2, BecomesState DEF IInv
  <2> QED
    BY <1>1, <1>2, <2>1 DEF AccountInv, In
<1>3. CASE UNCHANGED <<task, letters>>
  BY <1>1, <1>3 DEF AccountInv, In
<1>4. ASSUME NEW n \in Notices, AttemptFails(n)
      PROVE  AccountInv'
  <2>1. Retry(n) /\ letters' = letters
    BY <1>1, <1>4 DEF AttemptFails
  <2>2. CASE task[n].retries < MaxRetries
    <3>1. task'[n].state = "queued" /\ \A m \in Notices \ {n} : task'[m] = task[m]
      BY <2>1, <2>2 DEF Retry, IInv, TypeOK
    <3> QED
      BY <1>1, <2>1, <3>1 DEF AccountInv, In
  <2>3. CASE ~(task[n].retries < MaxRetries)
    BY <1>2, <2>1, <2>3 DEF Retry, TaskState
  <2> QED
    BY <2>2, <2>3
<1>5. ASSUME NEW n \in Notices,
             \/ Enqueue(n) \/ StartTask(n) \/ Arrive(n) \/ Sent(n) \/ Rejected(n)
             \/ DeadLetter(n)
      PROVE  AccountInv'
  BY <1>2, <1>5 DEF Enqueue, StartTask, Arrive, Sent, Rejected, DeadLetter, TaskState
<1>6. ASSUME NEW n \in Notices
      PROVE  ~RunEagerly(n) /\ ~DeadLetterFails(n) /\ ~Lose(n)
  BY <1>1 DEF RunEagerly, DeadLetterFails, Lose
<1>7. CASE \/ UNCHANGED vars \/ Redeploy
           \/ \E n \in Notices : CommitTicket(n) \/ BrokerRefuses(n) \/ AnswerRequest(n)
  BY <1>3, <1>7 DEF vars, Redeploy, CommitTicket, BrokerRefuses, AnswerRequest
<1> QED
  BY <1>4, <1>5, <1>6, <1>7 DEF Next, Attempt

\* With workers, a broker and an audit store that stay up, a task ends only when
\* the receiver has taken or refused the notification, when there was nothing to
\* send, or when it is in the audit log for replay.
THEOREM EndedIsAlwaysAccounted ==
  Spec => [](setting.mode = "queued" =>
               \A n \in Notices : task[n].state \in Settled =>
                 task[n].state \in {"sent", "rejected", "skipped"} \/ n \in letters)
<1>1. Init => AccountInv
  BY DEF Init, AccountInv, In
<1>2. AccountInv => (setting.mode = "queued" =>
                       \A n \in Notices : task[n].state \in Settled =>
                         task[n].state \in {"sent", "rejected", "skipped"} \/ n \in letters)
  BY DEF AccountInv, Settled, In
<1> QED
  BY <1>1, <1>2, NextKeepsAccounts, Invariance, PTL DEF Spec
=============================================================================
