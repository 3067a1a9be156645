------------------------- MODULE ParentNotification -------------------------
(***************************************************************************)
(* Delivery of parent notifications (attendance app): the notification row *)
(* in PostgreSQL, the Celery queue `notifications', the workers that run   *)
(* dispatch_parent_notification, the operators who call                    *)
(* POST /parent-notifications/{id}/retry/, and the management command      *)
(* dispatch_attendance_notifications.                                      *)
(*                                                                         *)
(* A transaction that holds the row lock is one step.  Everything the code *)
(* does without the lock is split where another process can get in: the    *)
(* claim, the call of the mail or SMS gateway, the write of its result,    *)
(* and the read and the write of the retry view are separate steps.        *)
(*                                                                         *)
(* Time is abstracted to the two comparisons the code makes: `stale' says  *)
(* that a PROCESSING row is older than ATTENDANCE_NOTIFICATION_STALE_      *)
(* MINUTES, `next' whether next_attempt_at is null, ahead or past.         *)
(***************************************************************************)
EXTENDS Integers, FiniteSets

CONSTANTS
  Notifications,       \* rows, one per dedupe key
  Deliverable,         \* those with a recipient on an outside channel
  Workers,             \* Celery worker processes
  Operators,           \* web requests running the retry view
  MaxAttempts,         \* ATTENDANCE_NOTIFICATION_MAX_ATTEMPTS
  MaxRetries,          \* retry_kwargs max_retries of the task
  MaxQueued,           \* bound: equal messages waiting in the broker
  MaxCrashes,          \* bound: worker processes that die in a task
  MaxLost,             \* bound: messages lost on the way to a worker
  MaxOperatorRetries   \* bound: calls of the retry view that write

ASSUME ParametersAssumption ==
  /\ Deliverable \subseteq Notifications
  /\ IsFiniteSet(Workers)
  /\ MaxAttempts \in Nat \ {0}
  /\ MaxRetries \in Nat
  /\ MaxQueued \in Nat \ {0}
  /\ MaxCrashes \in Nat
  /\ MaxLost \in Nat
  /\ MaxOperatorRetries \in Nat

VARIABLES
  status,      \* ParentNotification.status, "absent" before the row exists
  attempts,    \* ParentNotification.attempts
  next,        \* ParentNotification.next_attempt_at: "none", "future", "due"
  stale,       \* rows whose updated_at is older than the stale limit
  queue,       \* messages in the broker, by notification and retry number
  pc,          \* what each worker is doing
  task,        \* the message each worker is working on: <<notification, retry>>
  reading,     \* the row an operator's retry view has read, or "none"
  handed,      \* history: messages the gateway has taken, per notification
  lostAck,     \* history: rows whose gateway answer never reached mark_sent
  reopened,    \* history: rows the retry view overwrote while PROCESSING or SENT
  crashes,     \* counts crashes against MaxCrashes
  lost,        \* counts lost messages against MaxLost
  retriesDone  \* counts retry views against MaxOperatorRetries

rowVars   == <<status, attempts, next, stale>>
workVars  == <<pc, task>>
ghostVars == <<handed, lostAck, reopened>>
bounds    == <<crashes, lost, retriesDone>>
vars == <<rowVars, queue, workVars, reading, ghostVars, bounds>>

Terminal == {"sent", "skipped", "dead_letter"}
Statuses == {"absent", "queued", "processing", "failed"} \cup Terminal
Messages == Notifications \X (0 .. MaxRetries)
NoTask == <<"none", 0>>

TypeOK ==
  /\ status \in [Notifications -> Statuses]
  /\ attempts \in [Notifications -> 0 .. MaxAttempts]
  /\ next \in [Notifications -> {"none", "future", "due"}]
  /\ stale \subseteq Notifications
  /\ queue \in [Messages -> 0 .. MaxQueued]
  /\ pc \in [Workers -> {"idle", "skipping", "sending", "delivered", "raised"}]
  /\ task \in [Workers -> Messages \cup {NoTask}]
  /\ reading \in [Operators -> Notifications \cup {"none"}]
  /\ handed \in [Notifications -> Nat]
  /\ lostAck \subseteq Notifications
  /\ reopened \subseteq Notifications
  /\ crashes \in 0 .. MaxCrashes
  /\ lost \in 0 .. MaxLost
  /\ retriesDone \in 0 .. MaxOperatorRetries

Working(w, n) == pc[w] # "idle" /\ task[w][1] = n

(* The worker has returned from the task function. *)
FinishTask(w) ==
  /\ pc' = [pc EXCEPT ![w] = "idle"]
  /\ task' = [task EXCEPT ![w] = NoTask]

Init ==
  /\ status = [n \in Notifications |-> "absent"]
  /\ attempts = [n \in Notifications |-> 0]
  /\ next = [n \in Notifications |-> "none"]
  /\ stale = {}
  /\ queue = [m \in Messages |-> 0]
  /\ pc = [w \in Workers |-> "idle"]
  /\ task = [w \in Workers |-> NoTask]
  /\ reading = [o \in Operators |-> "none"]
  /\ handed = [n \in Notifications |-> 0]
  /\ lostAck = {}
  /\ reopened = {}
  /\ crashes = 0
  /\ lost = 0
  /\ retriesDone = 0

-----------------------------------------------------------------------------
(* The transaction that creates the row enqueues the first message when it *)
(* commits; a second call with the same dedupe key finds the row.          *)
Create(n) ==
  /\ status[n] = "absent"
  /\ queue[<<n, 0>>] < MaxQueued
  /\ status' = [status EXCEPT ![n] = "queued"]
  /\ queue' = [queue EXCEPT ![<<n, 0>>] = @ + 1]
  /\ UNCHANGED <<attempts, next, stale, workVars, reading, ghostVars, bounds>>

(* An idle worker takes a message off the queue.  Messages are acknowledged *)
(* when they are taken, and may be taken in any order.                      *)
TakeMessage(w, m) ==
  /\ pc[w] = "idle"
  /\ queue[m] > 0
  /\ queue' = [queue EXCEPT ![m] = @ - 1]

(* Plausible bugs in the two helpers below, and in SendRaises and          *)
(* ReadyForDispatch further on: each breaks a property of this module.     *)
ReclaimWhileFresh(n) == status[n] \in Terminal \/ next[n] = "future"
ReclaimTerminal(n) == \/ status[n] = "processing" /\ n \notin stale
                      \/ next[n] = "future"
OneAttemptTooMany(n) == attempts[n] > MaxAttempts
OneAttemptTooFew(n) == attempts[n] >= MaxAttempts - 1

NotClaimable(n) ==
  \/ status[n] \in Terminal
  \/ status[n] = "processing" /\ n \notin stale
  \/ next[n] = "future"

AttemptsUsedUp(n) == attempts[n] >= MaxAttempts

(* dispatch_parent_notification or _claim_notification finds nothing to do *)
(* and the task ends normally, so Celery does not retry it.                *)
IgnoreTask(w, m) ==
  /\ TakeMessage(w, m)
  /\ NotClaimable(m[1])
  /\ UNCHANGED <<rowVars, workVars, reading, ghostVars, bounds>>

(* _claim_notification: the attempts are used up. *)
BuryTask(w, m) ==
  LET n == m[1] IN
  /\ TakeMessage(w, m)
  /\ ~NotClaimable(n)
  /\ AttemptsUsedUp(n)
  /\ status' = [status EXCEPT ![n] = "dead_letter"]
  /\ UNCHANGED <<attempts, next, stale, workVars, reading, ghostVars, bounds>>

(* _claim_notification: the claim.  The worker goes on to the gateway, or  *)
(* to the SKIPPED branch for the in_app channel and for a missing recipient. *)
ClaimTask(w, m) ==
  LET n == m[1] IN
  /\ TakeMessage(w, m)
  /\ ~NotClaimable(n)
  /\ ~AttemptsUsedUp(n)
  /\ status' = [status EXCEPT ![n] = "processing"]
  /\ attempts' = [attempts EXCEPT ![n] = @ + 1]
  /\ next' = [next EXCEPT ![n] = "none"]
  /\ stale' = stale \ {n}
  /\ pc' = [pc EXCEPT ![w] = IF n \in Deliverable THEN "sending" ELSE "skipping"]
  /\ task' = [task EXCEPT ![w] = m]
  /\ UNCHANGED <<reading, ghostVars, bounds>>

(* The claimed copy is saved as SKIPPED, without a lock. *)
Skip(w) ==
  LET n == task[w][1] IN
  /\ pc[w] = "skipping"
  /\ status' = [status EXCEPT ![n] = "skipped"]
  /\ FinishTask(w)
  /\ UNCHANGED <<attempts, next, stale, queue, reading, ghostVars, bounds>>

(* send_mail or the SMS backend returns. *)
SendSucceeds(w) ==
  LET n == task[w][1] IN
  /\ pc[w] = "sending"
  /\ pc' = [pc EXCEPT ![w] = "delivered"]
  /\ handed' = [handed EXCEPT ![n] = @ + 1]
  /\ UNCHANGED <<rowVars, queue, task, reading, lostAck, reopened, bounds>>

(* Plausible bug: the error is swallowed, as with fail_silently=True.      *)
SendRaisesSilently(w) ==
  /\ pc[w] = "sending"
  /\ pc' = [pc EXCEPT ![w] = "delivered"]
  /\ UNCHANGED <<rowVars, queue, task, reading, ghostVars, bounds>>

(* send_mail or the SMS backend raises, before the gateway has taken the   *)
(* message or after it (an answer that timed out).                         *)
SendRaises(w) ==
  LET n == task[w][1] IN
  /\ pc[w] = "sending"
  /\ pc' = [pc EXCEPT ![w] = "raised"]
  /\ \/ UNCHANGED <<handed, lostAck>>
     \/ /\ handed' = [handed EXCEPT ![n] = @ + 1]
        /\ lostAck' = lostAck \cup {n}
  /\ UNCHANGED <<rowVars, queue, task, reading, reopened, bounds>>

(* mark_sent: an unlocked save of status, sent_at, next_attempt_at. *)
RecordSent(w) ==
  LET n == task[w][1] IN
  /\ pc[w] = "delivered"
  /\ status' = [status EXCEPT ![n] = "sent"]
  /\ next' = [next EXCEPT ![n] = "none"]
  /\ FinishTask(w)
  /\ UNCHANGED <<attempts, stale, queue, reading, ghostVars, bounds>>

(* The except branch, under the row lock; NotificationDispatchError then   *)
(* makes Celery publish the task again while it has retries left.          *)
RecordFailure(w) ==
  LET n == task[w][1]
      r == task[w][2]
  IN
  /\ pc[w] = "raised"
  /\ r < MaxRetries => queue[<<n, r + 1>>] < MaxQueued
  /\ status' = [status EXCEPT ![n] = IF AttemptsUsedUp(n) THEN "dead_letter" ELSE "failed"]
  /\ next' = [next EXCEPT ![n] = IF AttemptsUsedUp(n) THEN "none" ELSE "future"]
  /\ queue' = IF r < MaxRetries
                THEN [queue EXCEPT ![<<n, r + 1>>] = @ + 1]
                ELSE queue
  /\ FinishTask(w)
  /\ UNCHANGED <<attempts, stale, reading, ghostVars, bounds>>

(* The clock passes next_attempt_at. *)
BackoffElapses(n) ==
  /\ next[n] = "future"
  /\ next' = [next EXCEPT ![n] = "due"]
  /\ UNCHANGED <<status, attempts, stale, queue, workVars, reading, ghostVars, bounds>>

(* A PROCESSING row reaches the stale limit.  Celery kills a task after    *)
(* CELERY_TASK_TIME_LIMIT, which is not longer than the stale limit, so no *)
(* worker is still at it.                                                  *)
ClaimGoesStale(n) ==
  /\ status[n] = "processing"
  /\ n \notin stale
  /\ \A w \in Workers : ~Working(w, n)
  /\ stale' = stale \cup {n}
  /\ UNCHANGED <<status, attempts, next, queue, workVars, reading, ghostVars, bounds>>

(* A worker process dies or is killed at the time limit.  Its message is   *)
(* gone, what it had committed stays.                                      *)
Crash(w) ==
  LET n == task[w][1] IN
  /\ pc[w] # "idle"
  /\ crashes < MaxCrashes
  /\ crashes' = crashes + 1
  /\ FinishTask(w)
  /\ lostAck' = IF pc[w] = "delivered" THEN lostAck \cup {n} ELSE lostAck
  /\ UNCHANGED <<rowVars, queue, reading, handed, reopened, lost, retriesDone>>

(* A message is lost: the process dies between commit and delay(), or the  *)
(* broker drops it.                                                        *)
LoseMessage(m) ==
  /\ queue[m] > 0
  /\ lost < MaxLost
  /\ lost' = lost + 1
  /\ queue' = [queue EXCEPT ![m] = @ - 1]
  /\ UNCHANGED <<rowVars, workVars, reading, ghostVars, crashes, retriesDone>>

-----------------------------------------------------------------------------
(* ParentNotificationViewSet.retry reads the row without a lock ...        *)
RetryRead(o, n) ==
  /\ reading[o] = "none"
  /\ status[n] \notin {"absent", "sent"}
  /\ retriesDone < MaxOperatorRetries
  /\ retriesDone' = retriesDone + 1
  /\ reading' = [reading EXCEPT ![o] = n]
  /\ UNCHANGED <<rowVars, queue, workVars, ghostVars, crashes, lost>>

(* ... and saves status and next_attempt_at over whatever it holds by then. *)
RetryWrite(o) ==
  LET n == reading[o] IN
  /\ n # "none"
  /\ queue[<<n, 0>>] < MaxQueued
  /\ status' = [status EXCEPT ![n] = "queued"]
  /\ next' = [next EXCEPT ![n] = "none"]
  /\ queue' = [queue EXCEPT ![<<n, 0>>] = @ + 1]
  /\ reading' = [reading EXCEPT ![o] = "none"]
  /\ reopened' = IF status[n] \in {"processing", "sent"}
                   THEN reopened \cup {n} ELSE reopened
  /\ UNCHANGED <<attempts, stale, workVars, handed, lostAck, bounds>>

(* Plausible bug: the rows that have failed are left out.                  *)
QueuedForDispatch == {n \in Notifications : /\ status[n] = "queued"
                                            /\ next[n] # "future"}

(* dispatch_attendance_notifications: one more message for every row that  *)
(* waits for its next attempt.                                             *)
ReadyForDispatch == {n \in Notifications : /\ status[n] \in {"queued", "failed"}
                                           /\ next[n] # "future"}

DispatchCommand ==
  /\ ReadyForDispatch # {}
  /\ \A n \in ReadyForDispatch : queue[<<n, 0>>] < MaxQueued
  /\ queue' = [m \in Messages |-> IF m[2] = 0 /\ m[1] \in ReadyForDispatch
                                    THEN queue[m] + 1 ELSE queue[m]]
  /\ UNCHANGED <<rowVars, workVars, reading, ghostVars, bounds>>

-----------------------------------------------------------------------------
WorkerStep(w) ==
  \/ \E m \in Messages : IgnoreTask(w, m) \/ BuryTask(w, m) \/ ClaimTask(w, m)
  \/ Skip(w)
  \/ SendSucceeds(w)
  \/ SendRaises(w)
  \/ RecordSent(w)
  \/ RecordFailure(w)

Next ==
  \/ \E w \in Workers : WorkerStep(w) \/ Crash(w)
  \/ \E n \in Notifications : Create(n) \/ BackoffElapses(n) \/ ClaimGoesStale(n)
  \/ \E m \in Messages : LoseMessage(m)
  \/ \E o \in Operators : RetryWrite(o) \/ \E n \in Notifications : RetryRead(o, n)
  \/ DispatchCommand

Spec == Init /\ [][Next]_vars

(* Workers keep running, the clock advances, and the dispatch command is   *)
(* scheduled from outside as the operations manual asks.  Nothing makes an *)
(* operator act, a row appear or a fault happen.                           *)
Fairness ==
  /\ \A w \in Workers : WF_vars(WorkerStep(w))
  /\ \A n \in Notifications : WF_vars(BackoffElapses(n)) /\ WF_vars(ClaimGoesStale(n))
  /\ WF_vars(DispatchCommand)

FairSpec == Spec /\ Fairness

-----------------------------------------------------------------------------
(* The workers that are waiting for the gateway's answer. *)
Calling(n) == {w \in Workers : Working(w, n) /\ pc[w] = "sending"}

(* The gateway is called at most MaxAttempts times for a notification,     *)
(* whatever workers die and operators retry: every message it took and     *)
(* every call under way has its own attempt (_claim_notification).         *)
GatewayBudget ==
  \A n \in Notifications :
    /\ handed[n] + Cardinality(Calling(n)) <= attempts[n]
    /\ attempts[n] <= MaxAttempts

(* The claim is exclusive: two workers are on one notification only after  *)
(* the retry view has overwritten a row in progress.                       *)
ClaimIsExclusive ==
  \A n \in Notifications : n \notin reopened =>
    \A v, w \in Workers : Working(v, n) /\ Working(w, n) => v = w

(* A guardian gets the same notification twice only when the gateway's     *)
(* answer was lost (the call raised although the message was taken, or the *)
(* worker died before mark_sent), or the retry view overwrote a row that   *)
(* was being sent or was sent.                                             *)
DuplicateNeedsCause ==
  \A n \in Notifications : handed[n] > 1 => n \in lostAck \cup reopened

(* SENT tells the truth: the gateway took the message; and a message the   *)
(* gateway took ends up SENT unless a cause above intervened.              *)
SentIsTruthful ==
  \A n \in Notifications :
    /\ status[n] = "sent" => handed[n] > 0
    /\ handed[n] > 0 /\ n \notin lostAck /\ n \notin reopened =>
         \/ status[n] = "sent"
         \/ \E w \in Workers : Working(w, n) /\ pc[w] = "delivered"

(* DEAD_LETTER is reached only with every attempt used, also when the      *)
(* worker that gives up is not the one that holds the claim.               *)
DeadLetterIsExhausted ==
  \A n \in Notifications : status[n] = "dead_letter" => attempts[n] = MaxAttempts

(* Every notification that is created is sent, skipped or given up, when   *)
(* the clock advances and the command is scheduled, also when messages are *)
(* lost and operators interfere; only the death of the worker that holds   *)
(* it can leave it behind, with a claim that has expired.                  *)
EveryNotificationSettles ==
  \A n \in Notifications :
    status[n] # "absent" ~> \/ status[n] \in Terminal
                            \/ status[n] = "processing" /\ n \in stale

(* "Recovery of an expired claim" (docs/11-CONFIGURATION_FA.md): a row that *)
(* has been PROCESSING for longer than the stale limit is taken up again.   *)
StaleClaimIsRecovered ==
  \A n \in Notifications :
    (status[n] = "processing" /\ n \in stale) ~> (status[n] # "processing" \/ n \notin stale)

(* What a reader of the table is promised, see NotificationLifecycle.      *)
Phases == [n \in Notifications |->
             CASE status[n] = "absent" -> "none"
               [] status[n] \in Terminal -> status[n]
               [] OTHER -> "pending"]

Lifecycle == INSTANCE NotificationLifecycle WITH
  phase <- Phases, used <- attempts, wild <- reopened

ImplementsLifecycle == Lifecycle!Spec
=============================================================================
