------------------------- MODULE Attendance_proofs -------------------------
(***************************************************************************)
(* Proofs about attendance: what is recorded (AttendanceSession), and what *)
(* is raised (AttendanceAlert) and sent (ParentNotification) when a        *)
(* student is absent.                                                      *)
(*                                                                         *)
(* Delivery, for every number of notifications, workers, operators,        *)
(* attempts, crashes and lost messages.  While no operator has reopened a  *)
(* row, a worker that works on it holds a fresh PROCESSING claim           *)
(* (HolderIsFresh), so nobody else can claim it (ClaimIsExclusive), so the *)
(* gateway's yes is written down by the worker that got it                 *)
(* (SentIsTruthful), so a second call finds the row SENT                   *)
(* (DuplicateNeedsCause).  The four only hold together.                    *)
(*                                                                         *)
(* Alerts, for every number of policies, records, guardians, evaluations   *)
(* and requests: only an evaluation makes the sequence of alerts longer,   *)
(* and it appends an alert only for a scope for which it has found no      *)
(* active one of that severity (JudgedIsLonger).                           *)
(*                                                                         *)
(* Sessions, for any number of requests, enrollments and classes and       *)
(* whatever the policy asks for.  Three facts about different rows hold    *)
(* together: a record request acts on a record that exists, since records  *)
(* are never deleted; a record that was never marked has no revision; and  *)
(* every revision is written in the step that writes its record.           *)
(* Everything that writes records does so through Revised and Trail, so    *)
(* that one lemma (RecordsWritten) stands for the four services.           *)
(***************************************************************************)
EXTENDS AttendanceSession, AttendanceAlert, ParentNotification,
        SequenceTheorems, FiniteSetTheorems, TLAPS

(* A worker is on a message that exists, or idle. *)
TaskShape == \A w \in Workers : pc[w] # "idle" => task[w] \in Messages

(* Whoever works on a row which was not reopened holds a fresh claim. *)
HolderIsFresh ==
  \A n \in Notifications : n \notin reopened =>
    \A w \in Workers : Working(w, n) => status[n] = "processing" /\ n \notin stale

(* `delivered' means that the gateway took this row's message. *)
DeliveredWasHanded ==
  \A w \in Workers : pc[w] = "delivered" => handed[task[w][1]] > 0

(* Messages, readers and workers only know rows that exist, and a worker   *)
(* has an attempt of its row.                                              *)
KnownRows ==
  /\ \A m \in Messages : queue[m] > 0 => status[m[1]] # "absent"
  /\ \A o \in Operators : reading[o] # "none" => status[reading[o]] # "absent"
  /\ \A w \in Workers : pc[w] # "idle" =>
       status[task[w][1]] # "absent" /\ attempts[task[w][1]] > 0

IInv ==
  /\ TypeOK
  /\ TaskShape
  /\ KnownRows
  /\ DeadLetterIsExhausted
  /\ ClaimIsExclusive
  /\ HolderIsFresh
  /\ DeliveredWasHanded
  /\ SentIsTruthful
  /\ DuplicateNeedsCause

-----------------------------------------------------------------------------
(* TypeOK, with what it needs of the tasks, is inductive on its own.       *)
LEMMA TypeInit == Init => TypeOK /\ TaskShape
  BY ParametersAssumption DEF Init, TypeOK, TaskShape, Statuses, Messages, NoTask

(* Every step keeps the variables in their sets.                           *)
LEMMA TypeNext == TypeOK /\ TaskShape /\ [Next]_vars => TypeOK' /\ TaskShape'
<1> USE ParametersAssumption
    DEF TypeOK, TaskShape, Messages, rowVars, workVars, ghostVars, bounds
<1> SUFFICES ASSUME TypeOK, TaskShape, [Next]_vars
             PROVE  TypeOK' /\ TaskShape'
  OBVIOUS
<1>1. ASSUME NEW w \in Workers, NEW m \in Messages, IgnoreTask(w, m)
      PROVE  TypeOK' /\ TaskShape'
  BY <1>1 DEF IgnoreTask, TakeMessage
<1>2. ASSUME NEW w \in Workers, NEW m \in Messages, BuryTask(w, m)
      PROVE  TypeOK' /\ TaskShape'
  BY <1>2 DEF BuryTask, TakeMessage, Statuses, Terminal
<1>3. ASSUME NEW w \in Workers, NEW m \in Messages, ClaimTask(w, m)
      PROVE  TypeOK' /\ TaskShape'
  BY <1>3 DEF ClaimTask, TakeMessage, Statuses, Terminal, AttemptsUsedUp
<1>4. ASSUME NEW w \in Workers, Skip(w)
      PROVE  TypeOK' /\ TaskShape'
  BY <1>4 DEF Skip, FinishTask, Statuses, Terminal
<1>5. ASSUME NEW w \in Workers, SendSucceeds(w)
      PROVE  TypeOK' /\ TaskShape'
  BY <1>5 DEF SendSucceeds
<1>6. ASSUME NEW w \in Workers, SendRaises(w)
      PROVE  TypeOK' /\ TaskShape'
  BY <1>6 DEF SendRaises
<1>7. ASSUME NEW w \in Workers, RecordSent(w)
      PROVE  TypeOK' /\ TaskShape'
  BY <1>7 DEF RecordSent, FinishTask, Statuses, Terminal
<1>8. ASSUME NEW w \in Workers, RecordFailure(w)
      PROVE  TypeOK' /\ TaskShape'
  BY <1>8 DEF RecordFailure, FinishTask, Statuses, Terminal
<1>9. ASSUME NEW w \in Workers, Crash(w)
      PROVE  TypeOK' /\ TaskShape'
  BY <1>9 DEF Crash, FinishTask
<1>10. ASSUME NEW n \in Notifications, Create(n)
       PROVE  TypeOK' /\ TaskShape'
  BY <1>10 DEF Create, Statuses
<1>11. ASSUME NEW n \in Notifications, BackoffElapses(n)
       PROVE  TypeOK' /\ TaskShape'
  BY <1>11 DEF BackoffElapses
<1>12. ASSUME NEW n \in Notifications, ClaimGoesStale(n)
       PROVE  TypeOK' /\ TaskShape'
  BY <1>12 DEF ClaimGoesStale
<1>13. ASSUME NEW m \in Messages, LoseMessage(m)
       PROVE  TypeOK' /\ TaskShape'
  BY <1>13 DEF LoseMessage
<1>14. ASSUME NEW o \in Operators, RetryWrite(o)
       PROVE  TypeOK' /\ TaskShape'
  BY <1>14 DEF RetryWrite, Statuses
<1>15. ASSUME NEW o \in Operators, NEW n \in Notifications, RetryRead(o, n)
       PROVE  TypeOK' /\ TaskShape'
  BY <1>15 DEF RetryRead
<1>16. CASE DispatchCommand
  BY <1>16 DEF DispatchCommand, ReadyForDispatch
<1>17. CASE UNCHANGED vars
  BY <1>17 DEF vars
<1> QED
  BY <1>1, <1>2, <1>3, <1>4, <1>5, <1>6, <1>7, <1>8, <1>9, <1>10, <1>11, <1>12,
     <1>13, <1>14, <1>15, <1>16, <1>17 DEF Next, WorkerStep

(* Every variable keeps its type, so attempts never exceed                 *)
(* ATTENDANCE_NOTIFICATION_MAX_ATTEMPTS (_claim_notification).             *)
THEOREM TypeCorrect == Spec => []TypeOK
<1>1. Init => TypeOK /\ TaskShape
  BY TypeInit
<1>2. TypeOK /\ TaskShape /\ [Next]_vars => TypeOK' /\ TaskShape'
  BY TypeNext
<1> QED
  BY <1>1, <1>2, PTL DEF Spec

-----------------------------------------------------------------------------
(* Rows are never deleted, so what knows a row keeps knowing it, and a     *)
(* claim hands out an attempt.                                             *)
LEMMA KnownRowsNext ==
  TypeOK /\ TaskShape /\ KnownRows /\ [Next]_vars => KnownRows'
<1> USE ParametersAssumption
    DEF TypeOK, TaskShape, Messages, rowVars, workVars, ghostVars, bounds, KnownRows
<1> SUFFICES ASSUME TypeOK, TaskShape, KnownRows, [Next]_vars
             PROVE  KnownRows'
  OBVIOUS
<1>1. ASSUME NEW w \in Workers, NEW m \in Messages, IgnoreTask(w, m)
      PROVE  KnownRows'
  BY <1>1 DEF IgnoreTask, TakeMessage
<1>2. ASSUME NEW w \in Workers, NEW m \in Messages, BuryTask(w, m)
      PROVE  KnownRows'
  BY <1>2 DEF BuryTask, TakeMessage, AttemptsUsedUp
<1>3. ASSUME NEW w \in Workers, NEW m \in Messages, ClaimTask(w, m)
      PROVE  KnownRows'
  BY <1>3 DEF ClaimTask, TakeMessage, AttemptsUsedUp
<1>4. ASSUME NEW w \in Workers, Skip(w)
      PROVE  KnownRows'
  BY <1>4 DEF Skip, FinishTask
<1>5. ASSUME NEW w \in Workers, SendSucceeds(w)
      PROVE  KnownRows'
  BY <1>5 DEF SendSucceeds
<1>6. ASSUME NEW w \in Workers, SendRaises(w)
      PROVE  KnownRows'
  BY <1>6 DEF SendRaises
<1>7. ASSUME NEW w \in Workers, RecordSent(w)
      PROVE  KnownRows'
  BY <1>7 DEF RecordSent, FinishTask
<1>8. ASSUME NEW w \in Workers, RecordFailure(w)
      PROVE  KnownRows'
  BY <1>8 DEF RecordFailure, FinishTask, AttemptsUsedUp
<1>9. ASSUME NEW w \in Workers, Crash(w)
      PROVE  KnownRows'
  BY <1>9 DEF Crash, FinishTask
<1>10. ASSUME NEW n \in Notifications, Create(n)
       PROVE  KnownRows'
  BY <1>10 DEF Create
<1>11. ASSUME NEW n \in Notifications, BackoffElapses(n)
       PROVE  KnownRows'
  BY <1>11 DEF BackoffElapses
<1>12. ASSUME NEW n \in Notifications, ClaimGoesStale(n)
       PROVE  KnownRows'
  BY <1>12 DEF ClaimGoesStale
<1>13. ASSUME NEW m \in Messages, LoseMessage(m)
       PROVE  KnownRows'
  BY <1>13 DEF LoseMessage
<1>14. ASSUME NEW o \in Operators, RetryWrite(o)
       PROVE  KnownRows'
  BY <1>14 DEF RetryWrite
<1>15. ASSUME NEW o \in Operators, NEW n \in Notifications, RetryRead(o, n)
       PROVE  KnownRows'
  BY <1>15 DEF RetryRead
<1>16. CASE DispatchCommand
  BY <1>16 DEF DispatchCommand, ReadyForDispatch
<1>17. CASE UNCHANGED vars
  BY <1>17 DEF vars
<1> QED
  BY <1>1, <1>2, <1>3, <1>4, <1>5, <1>6, <1>7, <1>8, <1>9, <1>10, <1>11, <1>12,
     <1>13, <1>14, <1>15, <1>16, <1>17 DEF Next, WorkerStep

(* A worker that gives up has seen every attempt used. *)
LEMMA UsedUp ==
  ASSUME TypeOK, NEW n \in Notifications, AttemptsUsedUp(n)
  PROVE  attempts[n] = MaxAttempts
<1>1. attempts[n] \in 0 .. MaxAttempts
  BY DEF TypeOK
<1>2. MaxAttempts \in Nat
  BY ParametersAssumption
<1> QED
  BY <1>1, <1>2 DEF AttemptsUsedUp

(* Only a worker that reads attempts >= MaxAttempts gives up, and the      *)
(* attempts of a row never go down.                                        *)
LEMMA DeadLetterNext ==
  TypeOK /\ TaskShape /\ DeadLetterIsExhausted /\ [Next]_vars => DeadLetterIsExhausted'
<1> USE ParametersAssumption
    DEF TypeOK, TaskShape, Messages, rowVars, workVars, ghostVars, bounds, DeadLetterIsExhausted
<1> SUFFICES ASSUME TypeOK, TaskShape, DeadLetterIsExhausted, [Next]_vars
             PROVE  DeadLetterIsExhausted'
  OBVIOUS
<1>1. ASSUME NEW w \in Workers, NEW m \in Messages, IgnoreTask(w, m)
      PROVE  DeadLetterIsExhausted'
  BY <1>1 DEF IgnoreTask, TakeMessage
<1>2. ASSUME NEW w \in Workers, NEW m \in Messages, BuryTask(w, m)
      PROVE  DeadLetterIsExhausted'
  <2>1. attempts[m[1]] = MaxAttempts
    BY <1>2, UsedUp DEF BuryTask
  <2> QED
    BY <1>2, <2>1 DEF BuryTask
<1>3. ASSUME NEW w \in Workers, NEW m \in Messages, ClaimTask(w, m)
      PROVE  DeadLetterIsExhausted'
  BY <1>3 DEF ClaimTask, TakeMessage, AttemptsUsedUp
<1>4. ASSUME NEW w \in Workers, Skip(w)
      PROVE  DeadLetterIsExhausted'
  BY <1>4 DEF Skip, FinishTask
<1>5. ASSUME NEW w \in Workers, SendSucceeds(w)
      PROVE  DeadLetterIsExhausted'
  BY <1>5 DEF SendSucceeds
<1>6. ASSUME NEW w \in Workers, SendRaises(w)
      PROVE  DeadLetterIsExhausted'
  BY <1>6 DEF SendRaises
<1>7. ASSUME NEW w \in Workers, RecordSent(w)
      PROVE  DeadLetterIsExhausted'
  BY <1>7 DEF RecordSent, FinishTask
<1>8. ASSUME NEW w \in Workers, RecordFailure(w)
      PROVE  DeadLetterIsExhausted'
  <2>1. PICK n \in Notifications : n = task[w][1]
    BY <1>8 DEF RecordFailure
  <2>2. attempts' = attempts
    BY <1>8 DEF RecordFailure
  <2>3. CASE AttemptsUsedUp(n)
    <3>1. status' = [status EXCEPT ![n] = "dead_letter"]
      BY <1>8, <2>1, <2>3 DEF RecordFailure
    <3> QED
      BY <2>2, <2>3, <3>1, UsedUp
  <2>4. CASE ~AttemptsUsedUp(n)
    <3>1. status' = [status EXCEPT ![n] = "failed"]
      BY <1>8, <2>1, <2>4 DEF RecordFailure
    <3> QED
      BY <2>2, <3>1
  <2> QED
    BY <2>3, <2>4
<1>9. ASSUME NEW w \in Workers, Crash(w)
      PROVE  DeadLetterIsExhausted'
  BY <1>9 DEF Crash, FinishTask
<1>10. ASSUME NEW n \in Notifications, Create(n)
       PROVE  DeadLetterIsExhausted'
  BY <1>10 DEF Create
<1>11. ASSUME NEW n \in Notifications, BackoffElapses(n)
       PROVE  DeadLetterIsExhausted'
  BY <1>11 DEF BackoffElapses
<1>12. ASSUME NEW n \in Notifications, ClaimGoesStale(n)
       PROVE  DeadLetterIsExhausted'
  BY <1>12 DEF ClaimGoesStale
<1>13. ASSUME NEW m \in Messages, LoseMessage(m)
       PROVE  DeadLetterIsExhausted'
  BY <1>13 DEF LoseMessage
<1>14. ASSUME NEW o \in Operators, RetryWrite(o)
       PROVE  DeadLetterIsExhausted'
  BY <1>14 DEF RetryWrite
<1>15. ASSUME NEW o \in Operators, NEW n \in Notifications, RetryRead(o, n)
       PROVE  DeadLetterIsExhausted'
  BY <1>15 DEF RetryRead
<1>16. CASE DispatchCommand
  BY <1>16 DEF DispatchCommand, ReadyForDispatch
<1>17. CASE UNCHANGED vars
  BY <1>17 DEF vars
<1> QED
  BY <1>1, <1>2, <1>3, <1>4, <1>5, <1>6, <1>7, <1>8, <1>9, <1>10, <1>11, <1>12,
     <1>13, <1>14, <1>15, <1>16, <1>17 DEF Next, WorkerStep

Delivery ==
  /\ ClaimIsExclusive
  /\ HolderIsFresh
  /\ DeliveredWasHanded
  /\ SentIsTruthful
  /\ DuplicateNeedsCause

(* A row that can be claimed and was not reopened has no worker; if it was *)
(* handed over, the worker died before it could say so.                    *)
LEMMA ClaimableIsFree ==
  ASSUME Delivery, NEW n \in Notifications, ~NotClaimable(n), n \notin reopened
  PROVE  /\ \A w \in Workers : ~Working(w, n)
         /\ handed[n] > 0 => n \in lostAck
<1>1. \A w \in Workers : ~Working(w, n)
  BY DEF Delivery, HolderIsFresh, NotClaimable
<1>2. status[n] # "sent"
  BY DEF NotClaimable, Terminal
<1> QED
  BY <1>1, <1>2 DEF Delivery, SentIsTruthful

(* The delivery invariants hold together through every step. *)
LEMMA DeliveryNext ==
  TypeOK /\ TaskShape /\ Delivery /\ [Next]_vars => Delivery'
<1> USE ParametersAssumption
    DEF TypeOK, TaskShape, Messages, rowVars, workVars, ghostVars, bounds, Working, Delivery, ClaimIsExclusive, HolderIsFresh, DeliveredWasHanded, SentIsTruthful, DuplicateNeedsCause
<1> SUFFICES ASSUME TypeOK, TaskShape, Delivery, [Next]_vars
             PROVE  Delivery'
  OBVIOUS
<1>1. ASSUME NEW w \in Workers, NEW m \in Messages, IgnoreTask(w, m)
      PROVE  Delivery'
  BY <1>1 DEF IgnoreTask, TakeMessage
<1>2. ASSUME NEW w \in Workers, NEW m \in Messages, BuryTask(w, m)
      PROVE  Delivery'
  <2>1. PICK n \in Notifications : n = m[1] /\ ~NotClaimable(n)
    BY <1>2 DEF BuryTask
  <2>2. n \notin reopened => /\ \A v \in Workers : ~Working(v, n)
                             /\ handed[n] > 0 => n \in lostAck
    BY <2>1, ClaimableIsFree
  <2>3. /\ status' = [status EXCEPT ![n] = "dead_letter"]
        /\ UNCHANGED <<stale, pc, task, handed, lostAck, reopened>>
    BY <1>2, <2>1 DEF BuryTask
  <2>4. ClaimIsExclusive' /\ DeliveredWasHanded' /\ DuplicateNeedsCause'
    BY <2>3
  <2>5. HolderIsFresh'
    BY <2>2, <2>3
  <2>6. SentIsTruthful'
    BY <2>2, <2>3
  <2> QED
    BY <2>4, <2>5, <2>6
<1>3. ASSUME NEW w \in Workers, NEW m \in Messages, ClaimTask(w, m)
      PROVE  Delivery'
  <2>1. PICK n \in Notifications : n = m[1] /\ ~NotClaimable(n)
    BY <1>3 DEF ClaimTask
  <2>2. n \notin reopened => /\ \A v \in Workers : ~Working(v, n)
                             /\ handed[n] > 0 => n \in lostAck
    BY <2>1, ClaimableIsFree
  <2>3. /\ status' = [status EXCEPT ![n] = "processing"]
        /\ stale' = stale \ {n}
        /\ pc[w] = "idle" /\ pc'[w] \in {"sending", "skipping"}
        /\ \A v \in Workers \ {w} : pc'[v] = pc[v] /\ task'[v] = task[v]
        /\ task'[w][1] = n
        /\ UNCHANGED <<handed, lostAck, reopened>>
    BY <1>3, <2>1 DEF ClaimTask, TakeMessage
  <2>4. ClaimIsExclusive'
    <3> SUFFICES ASSUME NEW k \in Notifications, k \notin reopened,
                        NEW u \in Workers, NEW v \in Workers,
                        Working(u, k)', Working(v, k)'
                 PROVE  u = v
      BY <2>3
    <3>1. CASE k = n
      <4>1. u = w /\ v = w
        BY <2>2, <2>3, <3>1
      <4> QED
        BY <4>1
    <3>2. CASE k # n
      <4>1. Working(u, k) /\ Working(v, k)
        BY <2>3, <3>2
      <4> QED
        BY <4>1
    <3> QED
      BY <3>1, <3>2
  <2>5. HolderIsFresh'
    BY <2>2, <2>3
  <2>6. DeliveredWasHanded'
    BY <2>2, <2>3
  <2>7. SentIsTruthful'
    BY <2>2, <2>3
  <2>8. DuplicateNeedsCause'
    BY <2>2, <2>3
  <2> QED
    BY <2>4, <2>5, <2>6, <2>7, <2>8
<1>4. ASSUME NEW w \in Workers, Skip(w)
      PROVE  Delivery'
  BY <1>4 DEF Skip, FinishTask
<1>5. ASSUME NEW w \in Workers, SendSucceeds(w)
      PROVE  Delivery'
  BY <1>5 DEF SendSucceeds
<1>6. ASSUME NEW w \in Workers, SendRaises(w)
      PROVE  Delivery'
  <2>1. PICK n \in Notifications : n = task[w][1]
    BY <1>6 DEF SendRaises
  <2>2. /\ pc[w] = "sending" /\ pc' = [pc EXCEPT ![w] = "raised"]
        /\ UNCHANGED <<status, stale, task, reopened>>
    BY <1>6 DEF SendRaises
  <2>3. \/ UNCHANGED <<handed, lostAck>>
        \/ /\ handed' = [handed EXCEPT ![n] = handed[n] + 1]
           /\ lostAck' = lostAck \cup {n}
    BY <1>6, <2>1 DEF SendRaises
  <2>4. ClaimIsExclusive' /\ HolderIsFresh'
    BY <2>2
  <2>5. DeliveredWasHanded'
    BY <2>2, <2>3
  <2>6. SentIsTruthful'
    BY <2>2, <2>3
  <2>7. DuplicateNeedsCause'
    BY <2>2, <2>3
  <2> QED
    BY <2>4, <2>5, <2>6, <2>7
<1>7. ASSUME NEW w \in Workers, RecordSent(w)
      PROVE  Delivery'
  BY <1>7 DEF RecordSent, FinishTask
<1>8. ASSUME NEW w \in Workers, RecordFailure(w)
      PROVE  Delivery'
  BY <1>8 DEF RecordFailure, FinishTask, AttemptsUsedUp
<1>9. ASSUME NEW w \in Workers, Crash(w)
      PROVE  Delivery'
  <2>1. PICK n \in Notifications : n = task[w][1]
    BY <1>9 DEF Crash
  <2>2. /\ pc'[w] = "idle"
        /\ \A v \in Workers \ {w} : pc'[v] = pc[v] /\ task'[v] = task[v]
        /\ UNCHANGED <<status, stale, handed, reopened>>
    BY <1>9 DEF Crash, FinishTask
  <2>3. lostAck \subseteq lostAck' /\ (pc[w] = "delivered" => n \in lostAck')
    BY <1>9, <2>1 DEF Crash
  <2>4. ClaimIsExclusive' /\ HolderIsFresh' /\ DeliveredWasHanded'
    BY <2>2
  <2>5. SentIsTruthful'
    BY <2>1, <2>2, <2>3
  <2>6. DuplicateNeedsCause'
    BY <2>2, <2>3
  <2> QED
    BY <2>4, <2>5, <2>6
<1>10. ASSUME NEW n \in Notifications, Create(n)
       PROVE  Delivery'
  BY <1>10 DEF Create
<1>11. ASSUME NEW n \in Notifications, BackoffElapses(n)
       PROVE  Delivery'
  BY <1>11 DEF BackoffElapses
<1>12. ASSUME NEW n \in Notifications, ClaimGoesStale(n)
       PROVE  Delivery'
  BY <1>12 DEF ClaimGoesStale
<1>13. ASSUME NEW m \in Messages, LoseMessage(m)
       PROVE  Delivery'
  BY <1>13 DEF LoseMessage
<1>14. ASSUME NEW o \in Operators, RetryWrite(o)
       PROVE  Delivery'
  <2>1. PICK n \in Notifications : n = reading[o]
    BY <1>14 DEF RetryWrite
  <2>2. /\ status' = [status EXCEPT ![n] = "queued"]
        /\ UNCHANGED <<stale, pc, task, handed, lostAck>>
    BY <1>14, <2>1 DEF RetryWrite
  <2>3. /\ reopened \subseteq reopened'
        /\ status[n] \in {"processing", "sent"} => n \in reopened'
    BY <1>14, <2>1 DEF RetryWrite
  <2>4. ClaimIsExclusive' /\ HolderIsFresh' /\ DeliveredWasHanded'
    BY <2>2, <2>3
  <2>5. SentIsTruthful' /\ DuplicateNeedsCause'
    BY <2>2, <2>3
  <2> QED
    BY <2>4, <2>5
<1>15. ASSUME NEW o \in Operators, NEW n \in Notifications, RetryRead(o, n)
       PROVE  Delivery'
  BY <1>15 DEF RetryRead
<1>16. CASE DispatchCommand
  BY <1>16 DEF DispatchCommand, ReadyForDispatch
<1>17. CASE UNCHANGED vars
  BY <1>17 DEF vars
<1> QED
  BY <1>1, <1>2, <1>3, <1>4, <1>5, <1>6, <1>7, <1>8, <1>9, <1>10, <1>11, <1>12,
     <1>13, <1>14, <1>15, <1>16, <1>17 DEF Next, WorkerStep


-----------------------------------------------------------------------------
(* The invariant that carries the safety properties.                       *)
LEMMA IInvInit == Init => IInv
<1> SUFFICES ASSUME Init PROVE IInv
  OBVIOUS
<1>1. TypeOK /\ TaskShape
  BY TypeInit
<1>2. \A n \in Notifications : status[n] = "absent" /\ handed[n] = 0
  BY DEF Init
<1>3. \A w \in Workers : pc[w] = "idle"
  BY DEF Init
<1>4. KnownRows
  BY <1>3 DEF Init, KnownRows
<1> QED
  BY <1>1, <1>2, <1>3, <1>4
     DEF IInv, DeadLetterIsExhausted, ClaimIsExclusive, HolderIsFresh,
         DeliveredWasHanded, SentIsTruthful, DuplicateNeedsCause, Working

LEMMA IInvNext == IInv /\ [Next]_vars => IInv'
  BY TypeNext, KnownRowsNext, DeadLetterNext, DeliveryNext DEF IInv, Delivery

LEMMA IInvAlways == Spec => []IInv
  BY IInvInit, IInvNext, PTL DEF Spec

(* The claim is exclusive unless the retry view overwrote a row in         *)
(* progress (_claim_notification against ParentNotificationViewSet.retry). *)
THEOREM ClaimExclusive == Spec => []ClaimIsExclusive
<1>1. IInv => ClaimIsExclusive
  BY DEF IInv
<1> QED
  BY <1>1, IInvAlways, PTL

(* A guardian gets a notification twice only if a worker died before       *)
(* mark_sent or the retry view overwrote a row in progress.                *)
THEOREM DuplicatesHaveACause == Spec => []DuplicateNeedsCause
<1>1. IInv => DuplicateNeedsCause
  BY DEF IInv
<1> QED
  BY <1>1, IInvAlways, PTL

(* SENT says that the gateway took the message, and conversely.            *)
THEOREM SentTellsTheTruth == Spec => []SentIsTruthful
<1>1. IInv => SentIsTruthful
  BY DEF IInv
<1> QED
  BY <1>1, IInvAlways, PTL

(* A notification is given up only with every attempt used.                *)
THEOREM DeadLetterNeedsEveryAttempt == Spec => []DeadLetterIsExhausted
<1>1. IInv => DeadLetterIsExhausted
  BY DEF IInv
<1> QED
  BY <1>1, IInvAlways, PTL

-----------------------------------------------------------------------------
(* Counting the workers that are in a gateway call.                        *)
LEMMA CallingFinite ==
  ASSUME NEW n
  PROVE  IsFiniteSet(Calling(n)) /\ Cardinality(Calling(n)) \in Nat
<1>1. Calling(n) \subseteq Workers /\ IsFiniteSet(Workers)
  BY ParametersAssumption DEF Calling
<1>2. IsFiniteSet(Calling(n))
  BY <1>1, FS_Subset
<1> QED
  BY <1>2, FS_CardinalityType

(* Two facts about cardinalities: a part counts at most as much, and one   *)
(* more element counts at most one more.                                   *)
LEMMA CardPart ==
  ASSUME NEW S, NEW T, IsFiniteSet(T), S \subseteq T
  PROVE  Cardinality(S) \in Nat /\ Cardinality(S) <= Cardinality(T)
<1>1. IsFiniteSet(S) /\ Cardinality(S) <= Cardinality(T)
  BY FS_Subset
<1> QED
  BY <1>1, FS_CardinalityType

LEMMA CardOneMore ==
  ASSUME NEW S, NEW x, IsFiniteSet(S)
  PROVE  IsFiniteSet(S \cup {x}) /\ Cardinality(S \cup {x}) <= Cardinality(S) + 1
<1>1. Cardinality(S) \in Nat
  BY FS_CardinalityType
<1> QED
  BY <1>1, FS_AddElement

(* A step that starts no call and takes no attempt back keeps the budget.  *)
LEMMA BudgetQuiet ==
  ASSUME TypeOK, TypeOK', GatewayBudget, handed' = handed,
         \A n \in Notifications : /\ Calling(n)' \subseteq Calling(n)
                                  /\ attempts[n] <= attempts'[n]
  PROVE  GatewayBudget'
<1> SUFFICES ASSUME NEW n \in Notifications
             PROVE  /\ handed'[n] + Cardinality(Calling(n)') <= attempts'[n]
                    /\ attempts'[n] <= MaxAttempts
  BY DEF GatewayBudget
<1>1. Cardinality(Calling(n)') <= Cardinality(Calling(n))
  BY CallingFinite, CardPart
<1>2. Cardinality(Calling(n)') \in Nat
  BY CallingFinite, CardPart
<1>3. Cardinality(Calling(n)) \in Nat
  BY CallingFinite
<1>4. handed[n] + Cardinality(Calling(n)) <= attempts[n] /\ attempts[n] <= attempts'[n]
  BY DEF GatewayBudget
<1>5. /\ attempts[n] \in Nat /\ attempts'[n] \in Nat /\ attempts'[n] <= MaxAttempts
      /\ handed[n] \in Nat /\ MaxAttempts \in Nat
  BY ParametersAssumption DEF TypeOK
<1> QED
  BY <1>1, <1>2, <1>3, <1>4, <1>5

(* The end of a call turns the worker's call into a message taken.         *)
LEMMA BudgetSpent ==
  ASSUME TypeOK, TypeOK', GatewayBudget, NEW w \in Workers, NEW q \in {"delivered", "raised"},
         task[w][1] \in Notifications,
         handed' = [handed EXCEPT ![task[w][1]] = handed[task[w][1]] + 1],
         attempts' = attempts, task' = task,
         pc[w] = "sending", pc' = [pc EXCEPT ![w] = q]
  PROVE  GatewayBudget'
<1>1. PICK k \in Notifications : k = task[w][1]
  OBVIOUS
<1>2. /\ handed' = [handed EXCEPT ![k] = handed[k] + 1]
      /\ \A n \in Notifications : handed[n] \in Nat /\ attempts[n] \in Nat
      /\ pc \in [Workers -> {"idle", "skipping", "sending", "delivered", "raised"}]
      /\ handed \in [Notifications -> Nat]
      /\ \A n \in Notifications : attempts[n] <= MaxAttempts
  BY <1>1, ParametersAssumption DEF TypeOK
<1> SUFFICES ASSUME NEW n \in Notifications
             PROVE  handed'[n] + Cardinality(Calling(n)') <= attempts[n]
  BY <1>2 DEF GatewayBudget
<1>3. /\ handed[n] + Cardinality(Calling(n)) <= attempts[n]
      /\ handed[n] \in Nat /\ attempts[n] \in Nat
      /\ Cardinality(Calling(n)) \in Nat
  BY <1>2, CallingFinite DEF GatewayBudget
<1>4. CASE n = k
  <2>1. w \in Calling(n) /\ Calling(n)' = Calling(n) \ {w}
    BY <1>1, <1>2, <1>4 DEF Calling, Working
  <2>2. Cardinality(Calling(n) \ {w}) = Cardinality(Calling(n)) - 1
    <3>1. IsFiniteSet(Calling(n))
      BY CallingFinite
    <3> QED
      BY <2>1, <3>1, FS_RemoveElement
  <2>3. handed'[n] = handed[n] + 1
    BY <1>2, <1>4
  <2> QED
    BY <1>3, <2>1, <2>2, <2>3
<1>5. CASE n # k
  <2>1. Calling(n)' \subseteq Calling(n)
    BY <1>2 DEF Calling, Working
  <2>2. /\ Cardinality(Calling(n)') <= Cardinality(Calling(n))
        /\ Cardinality(Calling(n)') \in Nat
    BY <2>1, CallingFinite, CardPart
  <2>3. handed'[n] = handed[n]
    BY <1>2, <1>5
  <2> QED
    BY <1>3, <2>2, <2>3
<1> QED
  BY <1>4, <1>5

(* The claim hands out the attempt that the call uses up.                 *)
LEMMA BudgetNext ==
  TypeOK /\ TaskShape /\ TypeOK' /\ GatewayBudget /\ [Next]_vars => GatewayBudget'
<1> USE ParametersAssumption
    DEF TypeOK, TaskShape, Messages, rowVars, workVars, ghostVars, bounds
<1> SUFFICES ASSUME TypeOK, TaskShape, TypeOK', GatewayBudget, [Next]_vars
             PROVE  GatewayBudget'
  OBVIOUS
<1>1. ASSUME NEW w \in Workers, NEW m \in Messages, IgnoreTask(w, m)
      PROVE  GatewayBudget'
  <2>1. handed' = handed /\ attempts' = attempts
    BY <1>1 DEF IgnoreTask
  <2>2. \A n \in Notifications : Calling(n)' \subseteq Calling(n)
    BY <1>1 DEF IgnoreTask, Calling, Working
  <2> QED
    BY <2>1, <2>2, BudgetQuiet DEF TypeOK
<1>2. ASSUME NEW w \in Workers, NEW m \in Messages, BuryTask(w, m)
      PROVE  GatewayBudget'
  <2>1. handed' = handed /\ attempts' = attempts
    BY <1>2 DEF BuryTask
  <2>2. \A n \in Notifications : Calling(n)' \subseteq Calling(n)
    BY <1>2 DEF BuryTask, Calling, Working
  <2> QED
    BY <2>1, <2>2, BudgetQuiet DEF TypeOK
<1>3. ASSUME NEW w \in Workers, NEW m \in Messages, ClaimTask(w, m)
      PROVE  GatewayBudget'
  <2>1. PICK k \in Notifications : k = m[1]
    OBVIOUS
  <2>2. /\ attempts' = [attempts EXCEPT ![k] = attempts[k] + 1]
        /\ handed' = handed
        /\ \A v \in Workers \ {w} : pc'[v] = pc[v] /\ task'[v] = task[v]
        /\ task'[w][1] = k
    BY <1>3, <2>1 DEF ClaimTask
  <2> SUFFICES ASSUME NEW n \in Notifications
               PROVE  handed[n] + Cardinality(Calling(n)') <= attempts'[n]
    BY <2>2 DEF GatewayBudget
  <2>3. /\ handed[n] + Cardinality(Calling(n)) <= attempts[n]
        /\ handed[n] \in Nat /\ attempts[n] \in Nat
        /\ Cardinality(Calling(n)) \in Nat
    BY CallingFinite DEF GatewayBudget
  <2>4. CASE n = k
    <3>1. Calling(n)' \subseteq Calling(n) \cup {w}
      BY <2>2 DEF Calling, Working
    <3>2. /\ IsFiniteSet(Calling(n) \cup {w})
          /\ Cardinality(Calling(n) \cup {w}) <= Cardinality(Calling(n)) + 1
          /\ Cardinality(Calling(n) \cup {w}) \in Nat
      BY CallingFinite, CardOneMore, FS_CardinalityType
    <3>3. /\ Cardinality(Calling(n)') <= Cardinality(Calling(n) \cup {w})
          /\ Cardinality(Calling(n)') \in Nat
      BY <3>1, <3>2, CardPart
    <3>4. attempts'[n] = attempts[n] + 1
      BY <2>2, <2>4
    <3> QED
      BY <2>3, <3>2, <3>3, <3>4
  <2>5. CASE n # k
    <3>1. Calling(n)' \subseteq Calling(n)
      BY <2>2, <2>5 DEF Calling, Working
    <3>2. /\ Cardinality(Calling(n)') <= Cardinality(Calling(n))
          /\ Cardinality(Calling(n)') \in Nat
      BY <3>1, CallingFinite, CardPart
    <3>3. attempts'[n] = attempts[n]
      BY <2>2, <2>5
    <3> QED
      BY <2>3, <3>2, <3>3
  <2> QED
    BY <2>4, <2>5
<1>4. ASSUME NEW w \in Workers, Skip(w)
      PROVE  GatewayBudget'
  <2>1. handed' = handed /\ attempts' = attempts
    BY <1>4 DEF Skip
  <2>2. \A n \in Notifications : Calling(n)' \subseteq Calling(n)
    BY <1>4 DEF Skip, FinishTask, Calling, Working
  <2> QED
    BY <2>1, <2>2, BudgetQuiet DEF TypeOK
<1>5. ASSUME NEW w \in Workers, SendSucceeds(w)
      PROVE  GatewayBudget'
  <2>1. /\ handed' = [handed EXCEPT ![task[w][1]] = handed[task[w][1]] + 1]
        /\ attempts' = attempts /\ task' = task
        /\ pc[w] = "sending" /\ pc' = [pc EXCEPT ![w] = "delivered"]
        /\ task[w][1] \in Notifications
    BY <1>5 DEF SendSucceeds
  <2> QED
    BY <2>1, BudgetSpent
<1>6. ASSUME NEW w \in Workers, SendRaises(w)
      PROVE  GatewayBudget'
  <2>1. CASE handed' = handed
    <3>1. attempts' = attempts
      BY <1>6 DEF SendRaises
    <3>2. \A n \in Notifications : Calling(n)' \subseteq Calling(n)
      BY <1>6 DEF SendRaises, Calling, Working
    <3> QED
      BY <2>1, <3>1, <3>2, BudgetQuiet DEF TypeOK
  <2>2. CASE handed' = [handed EXCEPT ![task[w][1]] = handed[task[w][1]] + 1]
    <3>1. /\ attempts' = attempts /\ task' = task
          /\ pc[w] = "sending" /\ pc' = [pc EXCEPT ![w] = "raised"]
          /\ task[w][1] \in Notifications
      BY <1>6 DEF SendRaises
    <3> QED
      BY <2>2, <3>1, BudgetSpent
  <2> QED
    BY <1>6, <2>1, <2>2 DEF SendRaises
<1>7. ASSUME NEW w \in Workers, RecordSent(w)
      PROVE  GatewayBudget'
  <2>1. handed' = handed /\ attempts' = attempts
    BY <1>7 DEF RecordSent
  <2>2. \A n \in Notifications : Calling(n)' \subseteq Calling(n)
    BY <1>7 DEF RecordSent, FinishTask, Calling, Working
  <2> QED
    BY <2>1, <2>2, BudgetQuiet DEF TypeOK
<1>8. ASSUME NEW w \in Workers, RecordFailure(w)
      PROVE  GatewayBudget'
  <2>1. handed' = handed /\ attempts' = attempts
    BY <1>8 DEF RecordFailure
  <2>2. \A n \in Notifications : Calling(n)' \subseteq Calling(n)
    BY <1>8 DEF RecordFailure, FinishTask, Calling, Working
  <2> QED
    BY <2>1, <2>2, BudgetQuiet DEF TypeOK
<1>9. ASSUME NEW w \in Workers, Crash(w)
      PROVE  GatewayBudget'
  <2>1. handed' = handed /\ attempts' = attempts
    BY <1>9 DEF Crash
  <2>2. \A k \in Notifications : Calling(k)' \subseteq Calling(k)
    BY <1>9 DEF Crash, FinishTask, Calling, Working
  <2> QED
    BY <2>1, <2>2, BudgetQuiet DEF TypeOK
<1>10. ASSUME NEW n \in Notifications, Create(n)
       PROVE  GatewayBudget'
  <2>1. handed' = handed /\ attempts' = attempts
    BY <1>10 DEF Create
  <2>2. \A k \in Notifications : Calling(k)' \subseteq Calling(k)
    BY <1>10 DEF Create, Calling, Working
  <2> QED
    BY <2>1, <2>2, BudgetQuiet DEF TypeOK
<1>11. ASSUME NEW n \in Notifications, BackoffElapses(n)
       PROVE  GatewayBudget'
  <2>1. handed' = handed /\ attempts' = attempts
    BY <1>11 DEF BackoffElapses
  <2>2. \A k \in Notifications : Calling(k)' \subseteq Calling(k)
    BY <1>11 DEF BackoffElapses, Calling, Working
  <2> QED
    BY <2>1, <2>2, BudgetQuiet DEF TypeOK
<1>12. ASSUME NEW n \in Notifications, ClaimGoesStale(n)
       PROVE  GatewayBudget'
  <2>1. handed' = handed /\ attempts' = attempts
    BY <1>12 DEF ClaimGoesStale
  <2>2. \A k \in Notifications : Calling(k)' \subseteq Calling(k)
    BY <1>12 DEF ClaimGoesStale, Calling, Working
  <2> QED
    BY <2>1, <2>2, BudgetQuiet DEF TypeOK
<1>13. ASSUME NEW m \in Messages, LoseMessage(m)
       PROVE  GatewayBudget'
  <2>1. handed' = handed /\ attempts' = attempts
    BY <1>13 DEF LoseMessage
  <2>2. \A k \in Notifications : Calling(k)' \subseteq Calling(k)
    BY <1>13 DEF LoseMessage, Calling, Working
  <2> QED
    BY <2>1, <2>2, BudgetQuiet DEF TypeOK
<1>14. ASSUME NEW o \in Operators, RetryWrite(o)
       PROVE  GatewayBudget'
  <2>1. handed' = handed /\ attempts' = attempts
    BY <1>14 DEF RetryWrite
  <2>2. \A k \in Notifications : Calling(k)' \subseteq Calling(k)
    BY <1>14 DEF RetryWrite, Calling, Working
  <2> QED
    BY <2>1, <2>2, BudgetQuiet DEF TypeOK
<1>15. ASSUME NEW o \in Operators, NEW n \in Notifications, RetryRead(o, n)
       PROVE  GatewayBudget'
  <2>1. handed' = handed /\ attempts' = attempts
    BY <1>15 DEF RetryRead
  <2>2. \A k \in Notifications : Calling(k)' \subseteq Calling(k)
    BY <1>15 DEF RetryRead, Calling, Working
  <2> QED
    BY <2>1, <2>2, BudgetQuiet DEF TypeOK
<1>16. CASE DispatchCommand
  <2>1. handed' = handed /\ attempts' = attempts
    BY <1>16 DEF DispatchCommand
  <2>2. \A k \in Notifications : Calling(k)' \subseteq Calling(k)
    BY <1>16 DEF DispatchCommand, Calling, Working
  <2> QED
    BY <2>1, <2>2, BudgetQuiet DEF TypeOK
<1>17. CASE UNCHANGED vars
  <2>1. handed' = handed /\ attempts' = attempts
    BY <1>17 DEF vars
  <2>2. \A k \in Notifications : Calling(k)' \subseteq Calling(k)
    BY <1>17 DEF vars, Calling, Working
  <2> QED
    BY <2>1, <2>2, BudgetQuiet DEF TypeOK
<1> QED
  BY <1>1, <1>2, <1>3, <1>4, <1>5, <1>6, <1>7, <1>8, <1>9, <1>10, <1>11, <1>12,
     <1>13, <1>14, <1>15, <1>16, <1>17 DEF Next, WorkerStep
(* The gateway is called at most MaxAttempts times for a notification.     *)
THEOREM GatewayBudgetHolds == Spec => []GatewayBudget
<1>1. Init => GatewayBudget
  <2> SUFFICES ASSUME Init, NEW n \in Notifications
               PROVE  handed[n] + Cardinality(Calling(n)) <= attempts[n] /\ attempts[n] <= MaxAttempts
    BY DEF GatewayBudget
  <2>1. Calling(n) = {}
    BY DEF Init, Calling, Working
  <2>2. handed[n] = 0 /\ attempts[n] = 0 /\ MaxAttempts \in Nat
    BY ParametersAssumption DEF Init
  <2> QED
    BY <2>1, <2>2, FS_EmptySet
<1>2. TypeOK /\ TaskShape /\ GatewayBudget /\ [Next]_vars => GatewayBudget'
  BY TypeNext, BudgetNext
<1> QED
  BY <1>1, <1>2, TypeInit, TypeNext, PTL DEF Spec

-----------------------------------------------------------------------------
(* ParentNotification implements NotificationLifecycle.                    *)
(* A step that changes one row's status changes one phase.                 *)
LEMMA PhaseSettled ==
  ASSUME TypeOK, NEW n \in Notifications, NEW s \in Terminal,
         status' = [status EXCEPT ![n] = s]
  PROVE  Phases' = [Phases EXCEPT ![n] = s]
  BY DEF Phases, TypeOK, Terminal

LEMMA PhasePending ==
  ASSUME TypeOK, NEW n \in Notifications, NEW s \in {"queued", "processing", "failed"},
         status' = [status EXCEPT ![n] = s]
  PROVE  Phases' = [Phases EXCEPT ![n] = "pending"]
  BY DEF Phases, TypeOK, Terminal

LEMMA PhaseKept ==
  ASSUME status' = status
  PROVE  Phases' = Phases
  BY DEF Phases

(* A row somebody knows is pending or settled, never absent.               *)
LEMMA PhaseOf ==
  ASSUME TypeOK, NEW n \in Notifications
  PROVE  /\ Phases[n] \in {"none", "pending"} \cup Terminal
         /\ Phases[n] = "none" <=> status[n] = "absent"
         /\ Phases[n] = "pending" <=> status[n] \in {"queued", "processing", "failed"}
         /\ \A s \in Terminal : Phases[n] = s <=> status[n] = s
  BY DEF Phases, TypeOK, Statuses, Terminal

(* Every step is a step of the lifecycle or none.                          *)
LEMMA LifecycleNext ==
  IInv /\ [Next]_vars => [Lifecycle!Next]_(Lifecycle!lifecycleVars)
<1> USE ParametersAssumption DEF TypeOK, Messages, rowVars, workVars, ghostVars, bounds
<1> SUFFICES ASSUME IInv, [Next]_vars
             PROVE  [Lifecycle!Next]_(Lifecycle!lifecycleVars)
  OBVIOUS
<1>0. TypeOK /\ TaskShape /\ KnownRows /\ HolderIsFresh
  BY DEF IInv
<1>q. ASSUME UNCHANGED <<status, attempts, reopened>>
      PROVE  [Lifecycle!Next]_(Lifecycle!lifecycleVars)
  BY <1>q, PhaseKept DEF Lifecycle!lifecycleVars
<1>w. ASSUME NEW w \in Workers, NEW n \in Notifications, Working(w, n)
      PROVE  /\ Phases[n] # "none"
             /\ attempts[n] > 0
             /\ n \in reopened \/ Phases[n] = "pending"
  <2>1. status[n] # "absent" /\ attempts[n] > 0
    BY <1>0, <1>w DEF Working, KnownRows
  <2>2. n \in reopened \/ status[n] = "processing"
    BY <1>0, <1>w DEF HolderIsFresh
  <2> QED
    BY <1>0, <2>1, <2>2, PhaseOf
<1>1. ASSUME NEW w \in Workers, NEW m \in Messages, IgnoreTask(w, m)
      PROVE  [Lifecycle!Next]_(Lifecycle!lifecycleVars)
  BY <1>1, <1>q DEF IgnoreTask
<1>2. ASSUME NEW w \in Workers, NEW m \in Messages, BuryTask(w, m)
      PROVE  [Lifecycle!Next]_(Lifecycle!lifecycleVars)
  <2>1. PICK n \in Notifications : n = m[1]
    OBVIOUS
  <2>2. /\ status' = [status EXCEPT ![n] = "dead_letter"]
        /\ UNCHANGED <<attempts, reopened>>
        /\ attempts[n] = MaxAttempts
    BY <1>0, <1>2, <2>1, UsedUp DEF BuryTask
  <2>3. Phases' = [Phases EXCEPT ![n] = "dead_letter"]
    BY <1>0, <2>2, PhaseSettled DEF Terminal
  <2>4. Phases[n] = "pending"
    BY <1>0, <1>2, <2>1, PhaseOf DEF BuryTask, TakeMessage, NotClaimable, KnownRows, Statuses
  <2>5. Lifecycle!Settle(n)
    BY <2>2, <2>3, <2>4 DEF Lifecycle!Settle
  <2> QED
    BY <2>5 DEF Lifecycle!Next
<1>3. ASSUME NEW w \in Workers, NEW m \in Messages, ClaimTask(w, m)
      PROVE  [Lifecycle!Next]_(Lifecycle!lifecycleVars)
  <2>1. PICK n \in Notifications : n = m[1]
    OBVIOUS
  <2>2. /\ status' = [status EXCEPT ![n] = "processing"]
        /\ attempts' = [attempts EXCEPT ![n] = attempts[n] + 1]
        /\ UNCHANGED reopened
        /\ ~(attempts[n] >= MaxAttempts)
    BY <1>3, <2>1 DEF ClaimTask, AttemptsUsedUp
  <2>3. Phases' = [Phases EXCEPT ![n] = "pending"]
    BY <1>0, <2>2, PhasePending
  <2>4. Phases[n] = "pending"
    BY <1>0, <1>3, <2>1, PhaseOf DEF ClaimTask, TakeMessage, NotClaimable, KnownRows, Statuses
  <2>5. Phases' = Phases
    BY <2>3, <2>4 DEF Phases
  <2>6. Lifecycle!Try(n)
    BY <1>0, <2>2, <2>4, <2>5 DEF Lifecycle!Try
  <2> QED
    BY <2>6 DEF Lifecycle!Next
<1>a. ASSUME NEW w \in Workers, NEW n \in Notifications, Working(w, n),
             NEW s \in {"sent", "skipped"}, status' = [status EXCEPT ![n] = s],
             UNCHANGED <<attempts, reopened>>
      PROVE  [Lifecycle!Next]_(Lifecycle!lifecycleVars)
  <2>1. Phases' = [Phases EXCEPT ![n] = s]
    BY <1>0, <1>a, PhaseSettled DEF Terminal
  <2>2. Lifecycle!Settle(n) \/ Lifecycle!Disturbed(n)
    BY <1>a, <1>w, <2>1 DEF Lifecycle!Settle, Lifecycle!Disturbed
  <2> QED
    BY <2>2 DEF Lifecycle!Next
<1>4. ASSUME NEW w \in Workers, Skip(w)
      PROVE  [Lifecycle!Next]_(Lifecycle!lifecycleVars)
  <2>1. PICK n \in Notifications : n = task[w][1]
    BY <1>0, <1>4 DEF Skip, TaskShape
  <2>2. Working(w, n)
    BY <1>4, <2>1 DEF Skip, Working
  <2> QED
    BY <1>4, <1>a, <2>1, <2>2 DEF Skip
<1>5. ASSUME NEW w \in Workers, SendSucceeds(w)
      PROVE  [Lifecycle!Next]_(Lifecycle!lifecycleVars)
  BY <1>5, <1>q DEF SendSucceeds
<1>6. ASSUME NEW w \in Workers, SendRaises(w)
      PROVE  [Lifecycle!Next]_(Lifecycle!lifecycleVars)
  BY <1>6, <1>q DEF SendRaises
<1>7. ASSUME NEW w \in Workers, RecordSent(w)
      PROVE  [Lifecycle!Next]_(Lifecycle!lifecycleVars)
  <2>1. PICK n \in Notifications : n = task[w][1]
    BY <1>0, <1>7 DEF RecordSent, TaskShape
  <2>2. Working(w, n)
    BY <1>7, <2>1 DEF RecordSent, Working
  <2> QED
    BY <1>7, <1>a, <2>1, <2>2 DEF RecordSent
<1>8. ASSUME NEW w \in Workers, RecordFailure(w)
      PROVE  [Lifecycle!Next]_(Lifecycle!lifecycleVars)
  <2>1. PICK n \in Notifications : n = task[w][1]
    BY <1>0, <1>8 DEF RecordFailure, TaskShape
  <2>2. Working(w, n)
    BY <1>8, <2>1 DEF RecordFailure, Working
  <2>3. UNCHANGED <<attempts, reopened>>
    BY <1>8 DEF RecordFailure
  <2>4. CASE AttemptsUsedUp(n)
    <3>1. status' = [status EXCEPT ![n] = "dead_letter"]
      BY <1>8, <2>1, <2>4 DEF RecordFailure
    <3>2. Phases' = [Phases EXCEPT ![n] = "dead_letter"]
      BY <1>0, <3>1, PhaseSettled DEF Terminal
    <3>3. attempts[n] = MaxAttempts
      BY <1>0, <2>4, UsedUp
    <3>4. Lifecycle!Settle(n) \/ Lifecycle!Disturbed(n)
      BY <1>w, <2>2, <2>3, <3>2, <3>3 DEF Lifecycle!Settle, Lifecycle!Disturbed
    <3> QED
      BY <3>4 DEF Lifecycle!Next
  <2>5. CASE ~AttemptsUsedUp(n)
    <3>1. status' = [status EXCEPT ![n] = "failed"]
      BY <1>8, <2>1, <2>5 DEF RecordFailure
    <3>2. Phases' = [Phases EXCEPT ![n] = "pending"]
      BY <1>0, <3>1, PhasePending
    <3>3. CASE n \in reopened
      <4>1. Lifecycle!Disturbed(n)
        BY <2>3, <3>2, <3>3 DEF Lifecycle!Disturbed
      <4> QED
        BY <4>1 DEF Lifecycle!Next
    <3>4. CASE n \notin reopened
      <4>1. Phases' = Phases
        BY <1>w, <2>2, <3>2, <3>4 DEF Phases
      <4> QED
        BY <2>3, <4>1 DEF Lifecycle!lifecycleVars
    <3> QED
      BY <3>3, <3>4
  <2> QED
    BY <2>4, <2>5
<1>9. ASSUME NEW w \in Workers, Crash(w)
      PROVE  [Lifecycle!Next]_(Lifecycle!lifecycleVars)
  BY <1>9, <1>q DEF Crash
<1>10. ASSUME NEW n \in Notifications, Create(n)
       PROVE  [Lifecycle!Next]_(Lifecycle!lifecycleVars)
  <2>1. Phases' = [Phases EXCEPT ![n] = "pending"]
    BY <1>0, <1>10, PhasePending DEF Create
  <2>2. Phases[n] = "none"
    BY <1>0, <1>10, PhaseOf DEF Create
  <2>3. Lifecycle!Queue(n)
    BY <1>10, <2>1, <2>2 DEF Create, Lifecycle!Queue
  <2> QED
    BY <2>3 DEF Lifecycle!Next
<1>11. ASSUME NEW n \in Notifications, BackoffElapses(n)
       PROVE  [Lifecycle!Next]_(Lifecycle!lifecycleVars)
  BY <1>11, <1>q DEF BackoffElapses
<1>12. ASSUME NEW n \in Notifications, ClaimGoesStale(n)
       PROVE  [Lifecycle!Next]_(Lifecycle!lifecycleVars)
  BY <1>12, <1>q DEF ClaimGoesStale
<1>13. ASSUME NEW m \in Messages, LoseMessage(m)
       PROVE  [Lifecycle!Next]_(Lifecycle!lifecycleVars)
  BY <1>13, <1>q DEF LoseMessage
<1>14. ASSUME NEW o \in Operators, RetryWrite(o)
       PROVE  [Lifecycle!Next]_(Lifecycle!lifecycleVars)
  <2>1. PICK n \in Notifications : n = reading[o]
    BY <1>0, <1>14 DEF RetryWrite
  <2>2. status' = [status EXCEPT ![n] = "queued"] /\ UNCHANGED attempts
    BY <1>14, <2>1 DEF RetryWrite
  <2>3. reopened' = reopened \cup {n} \/ (status[n] # "sent" /\ reopened' = reopened)
    BY <1>14, <2>1 DEF RetryWrite
  <2>4. Phases' = [Phases EXCEPT ![n] = "pending"]
    BY <1>0, <2>2, PhasePending
  <2>5. Phases[n] # "none" /\ (status[n] # "sent" => Phases[n] # "sent")
    BY <1>0, <1>14, <2>1, PhaseOf DEF RetryWrite, KnownRows, Terminal
  <2>6. Lifecycle!Reopen(n)
    BY <2>2, <2>3, <2>4, <2>5 DEF Lifecycle!Reopen
  <2> QED
    BY <2>6 DEF Lifecycle!Next
<1>15. ASSUME NEW o \in Operators, NEW n \in Notifications, RetryRead(o, n)
       PROVE  [Lifecycle!Next]_(Lifecycle!lifecycleVars)
  BY <1>15, <1>q DEF RetryRead
<1>16. CASE DispatchCommand
  BY <1>16, <1>q DEF DispatchCommand
<1>17. CASE UNCHANGED vars
  BY <1>17, <1>q DEF vars
<1> QED
  BY <1>1, <1>2, <1>3, <1>4, <1>5, <1>6, <1>7, <1>8, <1>9, <1>10, <1>11, <1>12,
     <1>13, <1>14, <1>15, <1>16, <1>17 DEF Next, WorkerStep

(* The queue, the workers, the retries and the crashes implement the       *)
(* lifecycle of NotificationLifecycle.                                     *)
THEOREM LifecycleImplemented == Spec => ImplementsLifecycle
<1>1. Init => Lifecycle!Init
  <2> SUFFICES ASSUME Init PROVE Lifecycle!Init
    OBVIOUS
  <2>1. \A n \in Notifications : status[n] = "absent"
    BY DEF Init
  <2>2. Phases = [n \in Notifications |-> "none"]
    <3>1. \A n \in Notifications : Phases[n] = "none"
      BY <2>1, TypeInit, PhaseOf
    <3>2. Phases = [n \in Notifications |-> Phases[n]]
      BY DEF Phases
    <3> HIDE DEF Phases
    <3> QED
      BY <3>1, <3>2
  <2> QED
    BY <2>2 DEF Init, Lifecycle!Init
<1> QED
  BY <1>1, LifecycleNext, IInvAlways, PTL DEF Spec, ImplementsLifecycle, Lifecycle!Spec

-----------------------------------------------------------------------------
(* The alerts. *)
(* Attendance is counted in numbers. *)
LEMMA MetricsAreCounts ==
  ASSUME NEW include_excused
  PROVE  Metrics(include_excused) \in Measures
<1>1. ASSUME NEW s \in Scopes
      PROVE  Cardinality(Absent(s, include_excused)) \in Nat /\ Cardinality(Counted(s)) \in Nat
  <2>1. Absent(s, include_excused) \subseteq Records /\ Counted(s) \subseteq Records
    BY DEF Absent, Counted
  <2> QED
    BY <2>1, ThresholdsAssumption, FS_Subset, FS_CardinalityType
<1> QED
  BY <1>1 DEF Metrics, Measures

(* The severity of a count. *)
LEMMA SeverityIsOne == ASSUME NEW m PROVE Severity(m) \in Severities \cup {"none"}
  BY DEF Severity, Severities

(* A measured evaluation has one policy and a count for each scope. *)
LEMMA MeasuredIsMeasured ==
  ASSUME AlertsTypeOK, NEW w \in Evaluators, worker[w].stage = "measured"
  PROVE  /\ worker[w].policy \in Policies
         /\ worker[w].policies \in SUBSET Policies
         /\ worker[w].metrics \in Measures
  BY DEF AlertsTypeOK, Evaluations, Free

(* One that is listed has policies to come. *)
LEMMA ListedIsListed ==
  ASSUME AlertsTypeOK, NEW w \in Evaluators, worker[w].stage = "listed"
  PROVE  worker[w].policies \in SUBSET Policies
  BY DEF AlertsTypeOK, Evaluations, Free

(* What is left of an evaluation between two policies. *)
LEMMA ListedIsAnEvaluation ==
  ASSUME NEW policies \in SUBSET Policies
  PROVE  Listed(policies) \in Evaluations
  BY DEF Listed, Evaluations

(* A scope gets an alert only when it has none that matches. *)
LEMMA CreatedIsNew ==
  ASSUME AlertsTypeOK, NEW w \in Evaluators, worker[w].stage = "measured", NEW s \in Scopes
  PROVE  /\ Created(w, s) \in Seq(Alerts)
         /\ Created(w, s) # <<>> =>
              /\ Created(w, s) = <<NewAlert(w, s)>>
              /\ Matching(w, s) = {}
<1>1. worker[w].policy \in Policies /\ worker[w].metrics[s] \in [absent : Nat, total : Nat]
  BY MeasuredIsMeasured DEF Measures
<1>2. CASE Severity(worker[w].metrics[s]) # "none" /\ Matching(w, s) = {}
  <2>1. Severity(worker[w].metrics[s]) \in Severities
    BY <1>2, SeverityIsOne
  <2>2. NewAlert(w, s) \in Alerts
    BY <1>1, <2>1 DEF NewAlert, Alerts
  <2> QED
    BY <1>2, <2>2 DEF Created
<1>3. CASE ~(Severity(worker[w].metrics[s]) # "none" /\ Matching(w, s) = {})
  BY <1>3 DEF Created
<1> QED
  BY <1>2, <1>3

(* The alerts that are there stay where they are. *)
LEMMA SettledKeeps ==
  ASSUME AlertsTypeOK, NEW w \in Evaluators, worker[w].stage = "measured"
  PROVE  Settled(w) \in Seq(Alerts) /\ Len(Settled(w)) = Len(alerts)
<1>1. DOMAIN alerts = 1..Len(alerts) /\ Len(alerts) \in Nat
  BY DEF AlertsTypeOK
<1>2. ASSUME NEW i \in DOMAIN alerts
      PROVE  Settled(w)[i] \in Alerts
  <2> DEFINE a == alerts[i]
  <2>1. a \in Alerts
    BY DEF AlertsTypeOK
  <2>2. worker[w].metrics[a.scope] \in [absent : Nat, total : Nat]
    BY <2>1, MeasuredIsMeasured DEF Measures, Alerts
  <2>3. Updated(a, worker[w].metrics[a.scope]) \in Alerts
    BY <2>1, <2>2 DEF Updated, Alerts
  <2>4. Resolved(a) \in Alerts
    BY <2>1 DEF Resolved, Alerts
  <2>5. Settled(w)[i] \in {Updated(a, worker[w].metrics[a.scope]), Resolved(a), a}
    BY DEF Settled
  <2> QED
    BY <2>1, <2>3, <2>4, <2>5
<1>3. Settled(w) = [i \in 1..Len(alerts) |-> Settled(w)[i]]
  BY <1>1 DEF Settled
<1> QED
  BY <1>1, <1>2, <1>3

(* A sequence that another of at most one element is appended to. *)
LEMMA OneIsAppended ==
  ASSUME NEW S, NEW s \in Seq(S), NEW e \in Seq(S), Len(e) \in {0, 1}
  PROVE  /\ s \o e \in Seq(S)
         /\ Len(s \o e) = Len(s) + Len(e)
         /\ \A i \in 1..Len(s) : (s \o e)[i] = s[i]
         /\ \A i \in DOMAIN (s \o e) : i \notin 1..Len(s) => e # <<>> /\ (s \o e)[i] = e[1]
<1>1. s \o e \in Seq(S) /\ Len(s \o e) = Len(s) + Len(e)
  OBVIOUS
<1>2. Len(s) \in Nat /\ DOMAIN (s \o e) = 1..(Len(s) + Len(e))
  BY <1>1
<1>3. ASSUME NEW i \in 1..Len(s) PROVE (s \o e)[i] = s[i]
  BY <1>2
<1>4. ASSUME NEW i \in DOMAIN (s \o e), i \notin 1..Len(s)
      PROVE  e # <<>> /\ (s \o e)[i] = e[1]
  <2>1. Len(e) = 1 /\ i = Len(s) + 1
    <3> DEFINE m == Len(s)
               n == Len(e)
    <3>1. m \in Nat /\ n \in {0, 1} /\ i \in 1..(m + n) /\ i \notin 1..m
      BY <1>2, <1>4
    <3> HIDE DEF m, n
    <3>2. n = 1 /\ i = m + 1
      BY <3>1
    <3> QED
      BY <3>2 DEF m, n
  <2>2. (s \o e)[Len(s) + 1] = e[1]
    BY <1>2, <2>1
  <2> QED
    BY <2>1, <2>2
<1> QED
  BY <1>1, <1>3, <1>4

(* The alerts that an evaluation appends, and when. *)
LEMMA JudgedIsLonger ==
  ASSUME AlertsTypeOK, NEW w \in Evaluators, worker[w].stage = "measured"
  PROVE  /\ Judged(w) \in Seq(Alerts)
         /\ \A i \in DOMAIN Judged(w) \ DOMAIN alerts :
              \E s \in Scopes : Judged(w)[i] = NewAlert(w, s) /\ Matching(w, s) = {}
<1> DEFINE old == Settled(w)
           first == Created(w, "daily")
           second == Created(w, "period")
<1>1. old \in Seq(Alerts) /\ Len(old) = Len(alerts) /\ DOMAIN alerts = 1..Len(alerts)
  BY SettledKeeps DEF AlertsTypeOK
<1>2. /\ first \in Seq(Alerts) /\ Len(first) \in {0, 1}
      /\ first # <<>> => first[1] = NewAlert(w, "daily") /\ Matching(w, "daily") = {}
  BY CreatedIsNew DEF Scopes
<1>3. /\ second \in Seq(Alerts) /\ Len(second) \in {0, 1}
      /\ second # <<>> => second[1] = NewAlert(w, "period") /\ Matching(w, "period") = {}
  BY CreatedIsNew DEF Scopes
<1>4. Judged(w) = (old \o first) \o second
  BY DEF Judged
<1> HIDE DEF old, first, second
<1> DEFINE longer == old \o first
<1>5. /\ longer \in Seq(Alerts)
      /\ \A i \in DOMAIN longer : i \notin 1..Len(old) => first # <<>> /\ longer[i] = first[1]
  BY <1>1, <1>2, OneIsAppended
<1>6. DOMAIN longer = 1..Len(longer)
  BY <1>5
<1> HIDE DEF longer
<1>7. /\ longer \o second \in Seq(Alerts)
      /\ \A i \in 1..Len(longer) : (longer \o second)[i] = longer[i]
      /\ \A i \in DOMAIN (longer \o second) :
           i \notin 1..Len(longer) => second # <<>> /\ (longer \o second)[i] = second[1]
  BY <1>3, <1>5, OneIsAppended
<1>8. Judged(w) = longer \o second
  BY <1>4 DEF longer
<1>9. ASSUME NEW i \in DOMAIN Judged(w) \ DOMAIN alerts
      PROVE  \E s \in Scopes : Judged(w)[i] = NewAlert(w, s) /\ Matching(w, s) = {}
  <2>1. CASE i \in DOMAIN longer
    <3>1. first # <<>> /\ Judged(w)[i] = first[1]
      BY <1>1, <1>5, <1>6, <1>7, <1>8, <1>9, <2>1
    <3> QED
      BY <1>2, <3>1 DEF Scopes
  <2>2. CASE i \notin DOMAIN longer
    <3>1. second # <<>> /\ Judged(w)[i] = second[1]
      BY <1>6, <1>7, <1>8, <1>9, <2>2
    <3> QED
      BY <1>3, <3>1 DEF Scopes
  <2> QED
    BY <2>1, <2>2
<1> QED
  BY <1>7, <1>8, <1>9

-----------------------------------------------------------------------------
(* Every variable keeps its type. *)
LEMMA AlertsBegin == AlertsInit => AlertsTypeOK
<1> SUFFICES ASSUME AlertsInit PROVE AlertsTypeOK
  OBVIOUS
<1>0. MaxChanges \in Nat
  BY ThresholdsAssumption
<1> USE DEF AlertsInit
<1>1. policy \in [Policies -> PolicyRows] /\ \A p, q \in Policies : Live(p) /\ Live(q) => p = q
  BY DEF NoPolicy, PolicyRows, Live
<1>2. record \in [Records -> [mark : Marks, revision : Nat]] /\ enrolled \in BOOLEAN
  BY DEF Marks
<1>3. request \in [Users -> Requests] /\ worker \in [Evaluators -> Evaluations]
  BY DEF Requests, Evaluations
<1>4. changes \in 0 .. MaxChanges
  BY <1>0
<1>5. alerts \in Seq(Alerts) /\ primary \subseteq Guardians
  OBVIOUS
<1>6. nightly \in BOOLEAN /\ \A k \in DOMAIN published : published[k] \in Nat
  OBVIOUS
<1> QED
  BY <1>1, <1>2, <1>3, <1>4, <1>5, <1>6 DEF AlertsTypeOK

(* A policy row is written. *)
LEMMA PolicyWritten ==
  ASSUME AlertsTypeOK, NEW p \in Policies, NEW row \in PolicyRows, Fits(p),
         policy' = [policy EXCEPT ![p] = row]
  PROVE  /\ policy' \in [Policies -> PolicyRows]
         /\ \A q, r \in Policies : Live(q)' /\ Live(r)' => q = r
<1>1. policy' \in [Policies -> PolicyRows] /\ \A q \in Policies \ {p} : ~Live(q)'
  BY DEF AlertsTypeOK, Fits, Live
<1> QED
  BY <1>1

(* Notifications are queued. *)
LEMMA QueueKeeps ==
  ASSUME AlertsTypeOK, NEW keys, Queue(keys)
  PROVE  \A k \in DOMAIN published' : published'[k] \in Nat
  BY DEF AlertsTypeOK, Queue

(* Each request, change and step of an evaluation. *)
LEMMA AlertsGoOn == AlertsTypeOK /\ [AlertsNext]_alertVars => AlertsTypeOK'
<1> SUFFICES ASSUME AlertsTypeOK, [AlertsNext]_alertVars PROVE AlertsTypeOK'
  OBVIOUS
<1> USE DEF sources
<1>0. ASSUME Changed PROVE changes' \in 0 .. MaxChanges
  <2>1. MaxChanges \in Nat
    BY ThresholdsAssumption
  <2>2. changes \in 0 .. MaxChanges
    BY DEF AlertsTypeOK
  <2> QED BY <1>0, <2>1, <2>2 DEF Changed
<1>1. ASSUME NEW p \in Policies, CreatePolicy(p, [NoPolicy EXCEPT !.channels = {"in_app"}])
      PROVE  AlertsTypeOK'
  <2> DEFINE row == [[NoPolicy EXCEPT !.channels = {"in_app"}] EXCEPT !.exists = TRUE]
  <2>1. row \in PolicyRows
    BY DEF NoPolicy, PolicyRows, Channels
  <2>2. /\ Fits(p) /\ policy' = [policy EXCEPT ![p] = row] /\ Changed
        /\ UNCHANGED <<record, enrolled, primary, alerts, published, request, nightly, worker>>
    BY <1>1 DEF CreatePolicy
  <2> HIDE DEF row
  <2>3. /\ policy' \in [Policies -> PolicyRows]
        /\ \A q, r \in Policies : Live(q)' /\ Live(r)' => q = r
    BY <2>1, <2>2, PolicyWritten
  <2> QED
    BY <1>0, <2>2, <2>3 DEF AlertsTypeOK
<1>2. ASSUME NEW p \in Policies, NEW u \in Users, ReadForUpdate(u, p)
      PROVE  AlertsTypeOK'
  <2>1. [op |-> "update", policy |-> p, row |-> policy[p]] \in Requests
    BY DEF AlertsTypeOK, Requests
  <2> QED
    BY <1>2, <2>1 DEF AlertsTypeOK, ReadForUpdate, Live
<1>3. ASSUME NEW p \in Policies, NEW u \in Users, CheckBeforeDelete(u, p)
      PROVE  AlertsTypeOK'
  <2>1. [op |-> "delete", policy |-> p] \in Requests
    BY DEF Requests
  <2> QED
    BY <1>3, <2>1 DEF AlertsTypeOK, CheckBeforeDelete, Live
<1>4. ASSUME NEW u \in Users, UpdatePolicy(u)
      PROVE  AlertsTypeOK'
  <2> DEFINE q == request[u]
  <2>1. q.policy \in Policies /\ q.row \in PolicyRows
    <3>1. q \in Requests
      BY DEF AlertsTypeOK
    <3>2. q.op = "update"
      BY <1>4 DEF UpdatePolicy
    <3> HIDE DEF q
    <3> QED
      BY <3>1, <3>2 DEF Requests, Idle
  <2>2. /\ Changed /\ request' = [request EXCEPT ![u] = Idle]
        /\ UNCHANGED <<record, enrolled, primary, alerts, published, nightly, worker>>
    BY <1>4 DEF UpdatePolicy
  <2>3. request' \in [Users -> Requests]
    BY <2>2 DEF AlertsTypeOK, Requests
  <2>4. CASE UNCHANGED policy
    BY <1>0, <2>2, <2>3, <2>4 DEF AlertsTypeOK, Live
  <2>5. ASSUME Fits(q.policy), NEW field \in {"is_active", "include_excused", "notify"},
               policy' = [policy EXCEPT ![q.policy] = [q.row EXCEPT ![field] = ~@]]
        PROVE  AlertsTypeOK'
    <3> DEFINE row == [q.row EXCEPT ![field] = ~@]
    <3>1. row \in PolicyRows
      BY <2>1 DEF PolicyRows
    <3> HIDE DEF row
    <3>2. policy' = [policy EXCEPT ![q.policy] = row]
      BY <2>5 DEF row
    <3>3. /\ policy' \in [Policies -> PolicyRows]
          /\ \A o, r \in Policies : Live(o)' /\ Live(r)' => o = r
      BY <2>1, <2>5, <3>1, <3>2, PolicyWritten
    <3> QED
      BY <1>0, <2>2, <2>3, <3>3 DEF AlertsTypeOK
  <2> QED
    BY <1>4, <2>4, <2>5 DEF UpdatePolicy
<1>5. ASSUME NEW u \in Users, DeletePolicy(u)
      PROVE  AlertsTypeOK'
  <2> DEFINE p == request[u].policy
  <2>1. p \in Policies
    <3> DEFINE q == request[u]
    <3>1. q \in Requests
      BY DEF AlertsTypeOK
    <3>2. q.op = "delete"
      BY <1>5 DEF DeletePolicy
    <3> HIDE DEF q
    <3>3. q.policy \in Policies
      BY <3>1, <3>2 DEF Requests, Idle
    <3> QED
      BY <3>3 DEF q
  <2>2. /\ Changed /\ request' = [request EXCEPT ![u] = Idle]
        /\ policy' = [policy EXCEPT ![p].deleted = TRUE]
        /\ UNCHANGED <<record, enrolled, primary, alerts, published, nightly, worker>>
    BY <1>5 DEF DeletePolicy
  <2> HIDE DEF p
  <2>3. request' \in [Users -> Requests]
    BY <2>2 DEF AlertsTypeOK, Requests
  <2>4. /\ policy' \in [Policies -> PolicyRows]
        /\ \A q \in Policies : Live(q)' => Live(q)
    BY <2>1, <2>2 DEF AlertsTypeOK, PolicyRows, Live
  <2> QED
    BY <1>0, <2>2, <2>3, <2>4 DEF AlertsTypeOK
<1>6. ASSUME NEW r \in Records, NEW mark \in Marks, Mark(r, mark)
      PROVE  AlertsTypeOK'
  <2>1. record' \in [Records -> [mark : Marks, revision : Nat]]
    BY <1>6 DEF AlertsTypeOK, Mark
  <2> QED
    BY <1>0, <1>6, <2>1 DEF AlertsTypeOK, Mark, Live
<1>7. CASE ChangeEnrollment
  BY <1>0, <1>7 DEF AlertsTypeOK, ChangeEnrollment, Live
<1>8. ASSUME NEW g \in Guardians, SetPrimary(g)
      PROVE  AlertsTypeOK'
  BY <1>0, <1>8 DEF AlertsTypeOK, SetPrimary, Live
<1>9. CASE Notify
  <2>1. PICK keys : Queue(keys)
    BY <1>9 DEF Notify, NotifyOfRecord, NotifyOfSummary
  <2>2. \A k \in DOMAIN published' : published'[k] \in Nat
    BY <2>1, QueueKeeps
  <2>3. Changed /\ UNCHANGED <<sources, primary, alerts, nightly, worker>>
    BY <1>9 DEF Notify, NotifyOfRecord, NotifyOfSummary
  <2> QED
    BY <1>0, <2>2, <2>3 DEF AlertsTypeOK, Live
<1>10. CASE Beat
  BY <1>10 DEF AlertsTypeOK, Beat, Live
<1>11. ASSUME NEW w \in Evaluators, NEW x \in Evaluations, worker' = [worker EXCEPT ![w] = x],
              UNCHANGED <<sources, primary>>, alerts' \in Seq(Alerts),
              \A k \in DOMAIN published' : published'[k] \in Nat,
              nightly' \in BOOLEAN, changes' \in 0 .. MaxChanges
       PROVE  AlertsTypeOK'
  BY <1>11 DEF AlertsTypeOK, Live
<1>12. /\ alerts \in Seq(Alerts) /\ nightly \in BOOLEAN /\ changes \in 0 .. MaxChanges
       /\ \A k \in DOMAIN published : published[k] \in Nat
  BY DEF AlertsTypeOK
<1>13. ASSUME NEW w \in Evaluators, NEW p \in Policies, Ask(w, p)
       PROVE  AlertsTypeOK'
  <2>1. Listed({p}) \in Evaluations
    BY ListedIsAnEvaluation
  <2> QED
    BY <1>0, <1>11, <1>12, <1>13, <2>1 DEF Ask
<1>14. ASSUME NEW w \in Evaluators, TakeTask(w)
       PROVE  AlertsTypeOK'
  <2>1. Listed({p \in Policies : Live(p) /\ policy[p].is_active}) \in Evaluations
    BY ListedIsAnEvaluation
  <2> QED
    BY <1>11, <1>12, <1>14, <2>1 DEF TakeTask
<1>15. ASSUME NEW w \in Evaluators, NEW p \in Policies, Measure(w, p)
       PROVE  AlertsTypeOK'
  <2> DEFINE x == IF Live(p)
                  THEN [stage |-> "measured", policy |-> p, enrolled |-> enrolled,
                        policies |-> worker[w].policies \ {p},
                        metrics |-> Metrics(policy[p].include_excused)]
                  ELSE Free
  <2>1. worker[w].policies \in SUBSET Policies /\ enrolled \in BOOLEAN
    BY <1>15, ListedIsListed DEF Measure, AlertsTypeOK
  <2>2. x \in Evaluations
    BY <2>1, MetricsAreCounts DEF Evaluations
  <2>3. worker' = [worker EXCEPT ![w] = x]
    BY <1>15 DEF Measure
  <2> HIDE DEF x
  <2> QED
    BY <1>11, <1>12, <1>15, <2>2, <2>3 DEF Measure
<1>16. ASSUME NEW w \in Evaluators, Judge(w)
       PROVE  AlertsTypeOK'
  <2>1. worker[w].stage = "measured" /\ Listed(worker[w].policies) \in Evaluations
    BY <1>16, MeasuredIsMeasured, ListedIsAnEvaluation DEF Judge
  <2>2. alerts' \in Seq(Alerts)
    BY <1>12, <1>16, <2>1, JudgedIsLonger DEF Judge
  <2>3. \A k \in DOMAIN published' : published'[k] \in Nat
    BY <1>12, <1>16, QueueKeeps DEF Judge
  <2> QED
    BY <1>11, <1>12, <1>16, <2>1, <2>2, <2>3 DEF Judge
<1>17. ASSUME NEW w \in Evaluators, CrashEvaluation(w)
       PROVE  AlertsTypeOK'
  <2>1. Free \in Evaluations
    BY DEF Evaluations
  <2> QED
    BY <1>0, <1>11, <1>12, <1>17, <2>1 DEF CrashEvaluation
<1>18. ASSUME NEW i \in DOMAIN alerts, Acknowledge(i) \/ Resolve(i)
       PROVE  AlertsTypeOK'
  <2>1. PICK x \in {"acknowledged", "resolved"} : alerts' = [alerts EXCEPT ![i].status = x]
    BY <1>18 DEF Acknowledge, Resolve
  <2>2. [alerts[i] EXCEPT !.status = x] \in Alerts
    <3> DEFINE a == alerts[i]
    <3>1. a \in Alerts
      BY <1>12
    <3> HIDE DEF a
    <3>2. [a EXCEPT !.status = x] \in Alerts
      BY <3>1 DEF Alerts
    <3> QED
      BY <3>2 DEF a
  <2>3. alerts' \in Seq(Alerts)
    BY <1>12, <2>1, <2>2
  <2>4. Changed /\ UNCHANGED <<sources, primary, published, nightly, worker>>
    BY <1>18 DEF Acknowledge, Resolve
  <2> QED
    BY <1>0, <2>3, <2>4 DEF AlertsTypeOK, Live
<1>19. CASE UNCHANGED alertVars
  BY <1>19 DEF AlertsTypeOK, alertVars, Live
<1> QED
  BY <1>1, <1>2, <1>3, <1>4, <1>5, <1>6, <1>7, <1>8, <1>9, <1>10, <1>13, <1>14, <1>15,
     <1>16, <1>17, <1>18, <1>19
     DEF AlertsNext, Request, Surroundings, Evaluate

(* Every variable of the alerts keeps its type, and there is one policy at *)
(* a time (uq_attendance_policy_school_year).                              *)
THEOREM AlertsTypeCorrect == AlertsSpec => []AlertsTypeOK
  BY AlertsBegin, AlertsGoOn, PTL DEF AlertsSpec

(* An alert that was acknowledged is not raised again while it lasts: an   *)
(* evaluation appends an alert only where it has found none of the         *)
(* severity that is active, under the lock that every evaluation takes.    *)
THEOREM AcknowledgedIsNotRaised == AlertsSpec => AcknowledgedIsNotRaisedAgain
<1> DEFINE Again ==
      \A i \in DOMAIN alerts' \ DOMAIN alerts :
        \A j \in DOMAIN alerts :
          ~/\ alerts[j].status = "acknowledged"
           /\ alerts[j].policy = alerts'[i].policy
           /\ alerts[j].scope = alerts'[i].scope
           /\ alerts[j].severity = alerts'[i].severity
<1>1. AlertsTypeOK /\ [AlertsNext]_alertVars => [Again]_alerts
  <2> SUFFICES ASSUME AlertsTypeOK, AlertsNext PROVE Again \/ UNCHANGED alerts
    BY DEF alertVars
  <2>1. ASSUME NEW w \in Evaluators, Judge(w) PROVE Again \/ UNCHANGED alerts
    <3> SUFFICES ASSUME alerts' = Judged(w), NEW i \in DOMAIN Judged(w) \ DOMAIN alerts,
                        NEW j \in DOMAIN alerts, alerts[j].status = "acknowledged",
                        alerts[j].policy = Judged(w)[i].policy,
                        alerts[j].scope = Judged(w)[i].scope,
                        alerts[j].severity = Judged(w)[i].severity
                 PROVE  FALSE
      BY <2>1 DEF Judge
    <3>1. PICK s \in Scopes : Judged(w)[i] = NewAlert(w, s) /\ Matching(w, s) = {}
      BY <2>1, JudgedIsLonger DEF Judge
    <3>2. /\ alerts[j].policy = worker[w].policy /\ alerts[j].scope = s
          /\ alerts[j].severity = Severity(worker[w].metrics[s])
      BY <3>1 DEF NewAlert
    <3>3. j \in Matching(w, s)
      BY <3>2 DEF Matching, ActiveOf, Active
    <3> QED
      BY <3>1, <3>3
  <2>2. ASSUME NEW i \in DOMAIN alerts, Acknowledge(i) \/ Resolve(i) PROVE Again
    <3>1. DOMAIN alerts' = DOMAIN alerts
      BY <2>2 DEF Acknowledge, Resolve
    <3> QED
      BY <3>1
  <2> QED
    BY <2>1, <2>2
       DEF AlertsNext, Request, Surroundings, Notify, Evaluate, CreatePolicy, ReadForUpdate,
           CheckBeforeDelete, UpdatePolicy, DeletePolicy, Mark, ChangeEnrollment, SetPrimary,
           NotifyOfRecord, NotifyOfSummary, Beat, Ask, TakeTask, Measure, CrashEvaluation
<1> QED
  BY <1>1, AlertsTypeCorrect, PTL DEF AlertsSpec, AcknowledgedIsNotRaisedAgain

-----------------------------------------------------------------------------
(***************************************************************************)
(* Sessions and their records (AttendanceSession).                         *)
(***************************************************************************)

(* A row of AttendanceRecordRevision. *)
Revisions == [before : RecordRows, after : RecordRows]

(* SessionTypeOK, with the revisions of each record as a sequence of rows. *)
SessionTypeInv ==
  /\ session \in Sessions
  /\ attendance \in [Enrollments -> RecordRows \cup {Unmarked}]
  /\ history \in [Enrollments -> Seq(Revisions)]
  /\ evidence \subseteq Recorded
  /\ home \in [Enrollments -> Classes]
  /\ away \subseteq moved
  /\ call \in [Callers -> SessionRequests]
  /\ moved \subseteq Enrollments

(* A request for a record was made for one that exists, and it still does. *)
RecordsInHand ==
  \A u \in Callers : call[u] \in RecordService => call[u].enrollment \in Recorded

(* What was never marked was never revised. *)
UnmarkedIsUnrevised == \A e \in Enrollments \ Recorded : history[e] = << >>

SessionInv ==
  /\ SessionTypeInv
  /\ RecordsInHand
  /\ UnmarkedIsUnrevised
  /\ ExcuseIsCoherent
  /\ RevisionTrail
  /\ FinalizedIsComplete

(* h is a complete account of the record r. *)
Account(h, r) ==
  /\ r.revision = Len(h) + 1
  /\ \A i \in 1 .. Len(h) - 1 : h[i].after = h[i + 1].before
  /\ Len(h) > 0 => h[Len(h)].after = r

-------------------------------------------------------------------------------
(* A record that was saved is not an absent one. *)
LEMMA SavedIsMarked == Unmarked \notin RecordRows
BY DEF Unmarked, RecordRows

(* The account of a record stays complete when the next revision is added  *)
(* to it, as _append_revision does.                                        *)
LEMMA AccountGrows ==
  ASSUME NEW h \in Seq(Revisions), NEW r \in RecordRows, NEW n \in RecordRows,
         Account(h, r), n.revision = r.revision + 1
  PROVE  Account(Append(h, [before |-> r, after |-> n]), n)
<1> DEFINE row == [before |-> r, after |-> n]
           g == Append(h, row)
<1>1. row \in Revisions
  BY DEF Revisions
<1>2. Len(h) \in Nat /\ Len(g) = Len(h) + 1 /\ g[Len(h) + 1] = row
  BY <1>1
<1>3. \A i \in 1 .. Len(h) : g[i] = h[i]
  BY <1>1
<1>4. n.revision = Len(g) + 1
  BY <1>2 DEF Account
<1>5. ASSUME NEW i \in 1 .. Len(g) - 1
      PROVE  g[i].after = g[i + 1].before
  <2>1. CASE i = Len(h)
    <3>1. g[i] = h[Len(h)] /\ g[i + 1] = row
      BY <2>1, <1>2, <1>3, <1>5
    <3>2. h[Len(h)].after = r
      BY <2>1, <1>2, <1>5 DEF Account
    <3> QED BY <3>1, <3>2
  <2>2. CASE i # Len(h)
    <3>1. i \in 1 .. Len(h) - 1 /\ i + 1 \in 1 .. Len(h) /\ i \in 1 .. Len(h)
      BY <2>2, <1>2
    <3>2. g[i] = h[i] /\ g[i + 1] = h[i + 1]
      BY <3>1, <1>3
    <3> QED BY <3>1, <3>2 DEF Account
  <2> QED BY <2>1, <2>2
<1>6. g[Len(g)].after = n
  BY <1>2
<1> QED BY <1>4, <1>5, <1>6 DEF Account

(* Whatever set of records an operation saves, if it numbers them on and   *)
(* leaves a revision of each one that existed, all accounts stay complete, *)
(* and no record is lost.                                                  *)
LEMMA RecordsWritten ==
  ASSUME SessionInv, NEW es \in SUBSET Enrollments, NEW new,
         new \in [Enrollments -> RecordRows \cup {Unmarked}],
         \A e \in es : new[e] \in RecordRows /\ new[e].revision = attendance[e].revision + 1,
         \A e \in Enrollments \ es : new[e] = attendance[e],
         attendance' = new, history' = Trail(es, new)
  PROVE  /\ history' \in [Enrollments -> Seq(Revisions)]
         /\ Recorded' = Recorded \cup es
         /\ UnmarkedIsUnrevised'
         /\ RevisionTrail'
<1>1. Recorded' = Recorded \cup es
  BY SavedIsMarked DEF Recorded, SessionInv, SessionTypeInv
<1>2. ASSUME NEW e \in Enrollments
      PROVE  /\ history'[e] \in Seq(Revisions)
             /\ e \notin Recorded' => history'[e] = << >>
             /\ e \in Recorded' => Account(history'[e], attendance'[e])
  <2>1. CASE e \in es /\ attendance[e] # Unmarked
    <3>1. history'[e] = Append(history[e], [before |-> attendance[e], after |-> new[e]])
      BY <2>1 DEF Trail
    <3>2. attendance[e] \in RecordRows /\ new[e] \in RecordRows /\ history[e] \in Seq(Revisions)
      BY <2>1 DEF SessionInv, SessionTypeInv
    <3>3. Account(history[e], attendance[e])
      BY <2>1 DEF SessionInv, RevisionTrail, Recorded, Account
    <3>4. Account(history'[e], new[e])
      BY <3>1, <3>2, <3>3, <2>1, AccountGrows
    <3>5. [before |-> attendance[e], after |-> new[e]] \in Revisions
      BY <3>2 DEF Revisions
    <3>6. history'[e] \in Seq(Revisions)
      BY <3>1, <3>2, <3>5
    <3> QED BY <3>4, <3>6, <1>1, <2>1
  <2>2. CASE e \in es /\ attendance[e] = Unmarked
    <3>1. history'[e] = << >>
      BY <2>2 DEF Trail, SessionInv, UnmarkedIsUnrevised, Recorded
    <3>2. new[e].revision = 1
      BY <2>2 DEF Unmarked
    <3> QED BY <3>1, <3>2 DEF Account
  <2>3. CASE e \notin es
    <3>1. history'[e] = history[e] /\ attendance'[e] = attendance[e]
      BY <2>3 DEF Trail
    <3>2. e \in Recorded' <=> e \in Recorded
      BY <1>1, <2>3
    <3>3. e \in Recorded => Account(history[e], attendance[e])
      BY DEF SessionInv, RevisionTrail, Account
    <3> QED BY <3>1, <3>2, <3>3 DEF SessionInv, SessionTypeInv, UnmarkedIsUnrevised
  <2> QED BY <2>1, <2>2, <2>3
<1>3. history' \in [Enrollments -> Seq(Revisions)]
  BY <1>2 DEF Trail
<1>4. UnmarkedIsUnrevised'
  BY <1>2 DEF UnmarkedIsUnrevised
<1>5. Recorded' \subseteq Enrollments
  BY DEF Recorded
<1>6. RevisionTrail'
  BY <1>2, <1>5 DEF RevisionTrail, Account
<1> QED BY <1>1, <1>3, <1>4, <1>6

-------------------------------------------------------------------------------
(* What a request may hold, by what it will do. *)
LEMMA RequestShapes ==
  ASSUME SessionTypeInv, NEW u \in Callers
  PROVE  /\ call[u] \in RecordService => call[u].enrollment \in Enrollments
         /\ call[u].op \in Unlocked \cup {"delete"} =>
              call[u] \in [op : Unlocked \cup {"delete"}, copy : Sessions, empty : BOOLEAN]
<1>1. call[u] \in SessionRequests
  BY DEF SessionTypeInv
<1>2. NoRequest.op = "none" /\ Service.op = "service"
        /\ \A q \in RecordService : q.op = "record service" /\ q.enrollment \in Enrollments
  BY DEF NoRequest, Service, RecordService
<1> QED BY <1>1, <1>2 DEF SessionRequests, Unlocked

(* Whoever moves on to something that is no record request, or one for a   *)
(* record that exists, leaves every record request with its record: the    *)
(* recorded enrollments never become fewer.                                *)
LEMMA HandsFull ==
  ASSUME SessionInv, NEW u \in Callers, NEW q \in SessionRequests,
         q \in RecordService => q.enrollment \in Recorded,
         call' = [call EXCEPT ![u] = q],
         Recorded \subseteq Recorded'
  PROVE  call' \in [Callers -> SessionRequests] /\ RecordsInHand'
<1>1. call' \in [Callers -> SessionRequests]
  BY DEF SessionInv, SessionTypeInv
<1>2. \A v \in Callers : call'[v] = IF v = u THEN q ELSE call[v]
  BY DEF SessionInv, SessionTypeInv
<1> QED BY <1>1, <1>2 DEF RecordsInHand, SessionInv

LEMMA NoRequestIsARequest == NoRequest \in SessionRequests /\ NoRequest \notin RecordService
BY DEF NoRequest, SessionRequests, RecordService

LEMMA InitInv == SessionInit => SessionInv
<1> SUFFICES ASSUME SessionInit PROVE SessionInv
  OBVIOUS
<1>1. Recorded = {}
  BY DEF SessionInit, Recorded
<1>2. SessionTypeInv
  <2>1. session \in Sessions
    BY DEF SessionInit, Sessions, SessionStatuses
  <2>2. history \in [Enrollments -> Seq(Revisions)]
    BY DEF SessionInit
  <2>3. attendance \in [Enrollments -> RecordRows \cup {Unmarked}] /\ call \in [Callers -> SessionRequests]
    BY NoRequestIsARequest DEF SessionInit
  <2> QED BY <1>1, <2>1, <2>2, <2>3 DEF SessionInit, SessionTypeInv
<1>3. RecordsInHand
  BY NoRequestIsARequest DEF SessionInit, RecordsInHand
<1>4. UnmarkedIsUnrevised
  BY DEF SessionInit, UnmarkedIsUnrevised
<1>5. ExcuseIsCoherent /\ RevisionTrail
  BY <1>1 DEF ExcuseIsCoherent, RevisionTrail
<1>6. FinalizedIsComplete
  BY DEF SessionInit, FinalizedIsComplete
<1> QED BY <1>2, <1>3, <1>4, <1>5, <1>6 DEF SessionInv

(* A service that saves one record. *)
LEMMA SaveRecordKeepsInv ==
  ASSUME SessionInv, NEW u \in Callers, NEW s \in Markable \cup {"excused"},
         NEW x \in {"not_required", "pending", "approved", "rejected"},
         call[u] \in RecordService,
         SaveRecord(u, call[u].enrollment, s, x),
         evidence' \in {evidence, evidence \cup {call[u].enrollment}},
         s = "present" => x = "not_required",
         s = "excused" <=> x = "approved",
         x \in {"pending", "rejected"} => s = "unexcused",
         x = "approved" /\ EvidenceRequired => call[u].enrollment \in evidence
  PROVE  SessionInv'
<1> DEFINE e == call[u].enrollment
           new == [attendance EXCEPT ![e] = Revised(e, s, x)]
<1>0. e \in Enrollments /\ e \in Recorded
  BY DEF SessionInv, RecordsInHand, RecordService
<1>1. attendance \in [Enrollments -> RecordRows \cup {Unmarked}] /\ attendance[e] \in RecordRows
  BY <1>0 DEF SessionInv, SessionTypeInv, Recorded
<1>2. Revised(e, s, x) \in RecordRows /\ Revised(e, s, x).revision = attendance[e].revision + 1
  BY <1>1 DEF Revised, RecordRows
<1>3. new \in [Enrollments -> RecordRows \cup {Unmarked}] /\ new[e] = Revised(e, s, x)
  BY <1>0, <1>1, <1>2
<1>4. \A f \in Enrollments \ {e} : new[f] = attendance[f]
  BY <1>1
<1>5. attendance' = new /\ history' = Trail({e}, new)
  BY DEF SaveRecord
<1>6. /\ history' \in [Enrollments -> Seq(Revisions)]
      /\ Recorded' = Recorded
      /\ UnmarkedIsUnrevised'
      /\ RevisionTrail'
  <2> DEFINE es == {e}
  <2>1. /\ es \in SUBSET Enrollments
        /\ \A f \in es : new[f] \in RecordRows /\ new[f].revision = attendance[f].revision + 1
        /\ \A f \in Enrollments \ es : new[f] = attendance[f]
        /\ history' = Trail(es, new)
    BY <1>0, <1>2, <1>3, <1>4, <1>5
  <2> HIDE DEF e, es, new
  <2>2. Recorded' = Recorded \cup es /\ UnmarkedIsUnrevised' /\ RevisionTrail'
          /\ history' \in [Enrollments -> Seq(Revisions)]
    BY <2>1, <1>3, <1>5, RecordsWritten, ZenonT(60)
  <2> QED BY <2>2, <1>0 DEF es
<1>7. call' \in [Callers -> SessionRequests] /\ RecordsInHand'
  BY <1>6, NoRequestIsARequest, HandsFull DEF SaveRecord, Respond
<1>8. UNCHANGED <<session, rosterVars>> /\ evidence \subseteq evidence'
  BY DEF SaveRecord
<1>9. SessionTypeInv'
  BY <1>0, <1>3, <1>5, <1>6, <1>7, <1>8 DEF SessionInv, SessionTypeInv, rosterVars
<1>10. ExcuseIsCoherent'
  <2> SUFFICES ASSUME NEW f \in Recorded
               PROVE  /\ CleanAccepts(attendance'[f])
                      /\ attendance'[f].excuse = "approved" /\ EvidenceRequired => f \in evidence'
    BY <1>6 DEF ExcuseIsCoherent
  <2>1. CASE f = e
    BY <2>1, <1>3, <1>5, <1>8 DEF CleanAccepts, Revised
  <2>2. CASE f # e
    BY <2>2, <1>4, <1>5, <1>8 DEF SessionInv, ExcuseIsCoherent, Recorded
  <2> QED BY <2>1, <2>2
<1>11. FinalizedIsComplete'
  BY <1>6, <1>8 DEF SessionInv, FinalizedIsComplete, Roster, rosterVars
<1> QED BY <1>6, <1>7, <1>9, <1>10, <1>11 DEF SessionInv

LEMMA BulkMarkKeepsInv ==
  ASSUME SessionInv, NEW u \in Callers, NEW mark \in BulkMarks, BulkMark(u, mark)
  PROVE  SessionInv'
<1> DEFINE es == DOMAIN mark
           new == [e \in Enrollments |->
                     IF e \in es THEN Revised(e, mark[e], "not_required") ELSE attendance[e]]
<1>1. es \in SUBSET Enrollments /\ \A e \in es : mark[e] \in Markable
  BY DEF BulkMarks
<1>2. attendance \in [Enrollments -> RecordRows \cup {Unmarked}]
  BY DEF SessionInv, SessionTypeInv
<1>3. \A e \in es : Revised(e, mark[e], "not_required") \in RecordRows
  BY <1>1, <1>2 DEF Revised, RecordRows, Unmarked
<1>4. new \in [Enrollments -> RecordRows \cup {Unmarked}]
  BY <1>1, <1>2, <1>3
<1>5. \A e \in es : /\ new[e] \in RecordRows /\ new[e].revision = attendance[e].revision + 1
                     /\ new[e].status \in Markable /\ new[e].excuse = "not_required"
  BY <1>1, <1>3 DEF Revised
<1>6. \A e \in Enrollments \ es : new[e] = attendance[e]
  OBVIOUS
<1>7. attendance' = new /\ history' = Trail(es, new)
  BY DEF BulkMark
<1>8. UNCHANGED <<session, evidence, rosterVars>>
        /\ session.status = "draft"
  BY DEF BulkMark, IsWritable
<1> HIDE DEF es, new
<1>9. /\ history' \in [Enrollments -> Seq(Revisions)]
      /\ Recorded' = Recorded \cup es
      /\ UnmarkedIsUnrevised'
      /\ RevisionTrail'
  BY <1>1, <1>4, <1>5, <1>6, <1>7, RecordsWritten
<1>10. call' \in [Callers -> SessionRequests] /\ RecordsInHand'
  BY <1>9, NoRequestIsARequest, HandsFull DEF BulkMark, Respond
<1>11. SessionTypeInv'
  BY <1>4, <1>7, <1>8, <1>9, <1>10 DEF SessionInv, SessionTypeInv, rosterVars
<1>12. ExcuseIsCoherent'
  <2> SUFFICES ASSUME NEW f \in Recorded \cup es
               PROVE  /\ CleanAccepts(attendance'[f])
                      /\ attendance'[f].excuse = "approved" /\ EvidenceRequired => f \in evidence'
    BY <1>9 DEF ExcuseIsCoherent
  <2>1. CASE f \in es
    BY <2>1, <1>5, <1>7 DEF CleanAccepts, Markable
  <2>2. CASE f \notin es
    BY <2>2, <1>6, <1>7, <1>8 DEF SessionInv, ExcuseIsCoherent, Recorded
  <2> QED BY <2>1, <2>2
<1>13. FinalizedIsComplete'
  BY <1>8 DEF FinalizedIsComplete
<1> QED BY <1>9, <1>10, <1>11, <1>12, <1>13 DEF SessionInv

(* An operation that leaves records and roster alone, and whose session is *)
(* complete if it is finalized. *)
LEMMA SessionWritten ==
  ASSUME SessionInv, NEW u \in Callers, NEW q \in SessionRequests,
         q \in RecordService => q.enrollment \in Recorded,
         call' = [call EXCEPT ![u] = q],
         UNCHANGED <<attendanceVars, rosterVars>>,
         session' \in Sessions,
         session'.status = "finalized" =>
           \/ session.status = "finalized" /\ session'.class = session.class
           \/ Recorded = Roster(session'.class)
  PROVE  SessionInv'
<1>1. Recorded' = Recorded
  BY DEF Recorded, attendanceVars
<1>2. call' \in [Callers -> SessionRequests] /\ RecordsInHand'
  BY <1>1, HandsFull
<1>3. SessionTypeInv'
  BY <1>1, <1>2 DEF SessionInv, SessionTypeInv, attendanceVars, rosterVars
<1>4. UnmarkedIsUnrevised' /\ ExcuseIsCoherent' /\ RevisionTrail'
  BY <1>1 DEF SessionInv, UnmarkedIsUnrevised, ExcuseIsCoherent, RevisionTrail, attendanceVars
<1>5. FinalizedIsComplete'
  BY <1>1 DEF SessionInv, FinalizedIsComplete, Roster, rosterVars
<1> QED BY <1>2, <1>3, <1>4, <1>5 DEF SessionInv

LEMMA ChangeRosterKeepsInv ==
  ASSUME SessionInv, NEW e \in Enrollments, ChangeRoster(e)
  PROVE  SessionInv'
<1>1. UNCHANGED <<session, attendanceVars, call>>
  BY DEF ChangeRoster
<1>2. Recorded' = Recorded
  BY <1>1 DEF Recorded, attendanceVars
<1>3. SessionTypeInv'
  <2>1. home' \in [Enrollments -> Classes] /\ away' \subseteq moved' /\ moved' \subseteq Enrollments
    BY DEF ChangeRoster, SessionInv, SessionTypeInv
  <2> QED BY <1>1, <1>2, <2>1 DEF SessionInv, SessionTypeInv, attendanceVars
<1>4. RecordsInHand' /\ UnmarkedIsUnrevised' /\ ExcuseIsCoherent' /\ RevisionTrail'
  BY <1>1, <1>2
     DEF SessionInv, RecordsInHand, UnmarkedIsUnrevised, ExcuseIsCoherent, RevisionTrail, attendanceVars
<1>5. FinalizedIsComplete'
  <2>1. \A f \in Enrollments \ moved' :
          f \notin moved /\ (f \in Roster(session.class)' <=> f \in Roster(session.class))
    BY <1>1 DEF ChangeRoster, Roster, SessionInv, SessionTypeInv
  <2> QED BY <1>1, <1>2, <2>1 DEF SessionInv, FinalizedIsComplete
<1> QED BY <1>3, <1>4, <1>5 DEF SessionInv

-------------------------------------------------------------------------------
(* Each operation of a request, then one step of the system. *)
LEMMA RequestStepKeepsInv ==
  ASSUME SessionInv, NEW u \in Callers,
         \/ ReadSession(u)
         \/ \E e \in Enrollments : ReadRecord(u, e)
         \/ Finalize(u) \/ Cancel(u)
         \/ \E c \in Classes : Update(u, c)
         \/ CheckSessionDelete(u) \/ Delete(u) \/ Refuse(u)
  PROVE  SessionInv'
<1>0. /\ session \in Sessions /\ call \in [Callers -> SessionRequests]
      /\ session.status \in SessionStatuses
  BY DEF SessionInv, SessionTypeInv, Sessions
<1>1. CASE ReadSession(u)
  <2>1. CASE call' = [call EXCEPT ![u] = Service]
    <3>1. Service \in SessionRequests /\ Service \notin RecordService
      BY DEF SessionRequests, Service, RecordService
    <3>2. UNCHANGED <<session, attendanceVars, rosterVars>>
      BY <1>1 DEF ReadSession
    <3> QED BY <2>1, <3>1, <3>2, <1>0, SessionWritten
  <2>2. ASSUME NEW op \in Unlocked,
               call' = [call EXCEPT ![u] =
                             [op |-> op, copy |-> session, empty |-> Recorded = {}]]
        PROVE  SessionInv'
    <3> DEFINE q == [op |-> op, copy |-> session, empty |-> Recorded = {}]
    <3>1. q \in SessionRequests /\ q \notin RecordService
      BY <1>0 DEF SessionRequests, RecordService, Unlocked
    <3>2. UNCHANGED <<session, attendanceVars, rosterVars>>
      BY <1>1 DEF ReadSession
    <3>3. call' = [call EXCEPT ![u] = q]
      BY <2>2
    <3> HIDE DEF q
    <3> QED BY <3>1, <3>2, <3>3, <1>0, SessionWritten
  <2> QED BY <1>1, <2>1, <2>2 DEF ReadSession
<1>2. ASSUME NEW e \in Enrollments, ReadRecord(u, e)
      PROVE  SessionInv'
  <2> DEFINE q == [op |-> "record service", enrollment |-> e]
  <2>1. q \in SessionRequests /\ q.enrollment = e /\ e \in Recorded
    BY <1>2 DEF SessionRequests, RecordService, ReadRecord
  <2>2. UNCHANGED <<session, attendanceVars, rosterVars>>
          /\ call' = [call EXCEPT ![u] = q]
    BY <1>2 DEF ReadRecord
  <2> HIDE DEF q
  <2> QED BY <2>1, <2>2, <1>0, SessionWritten
<1>3. CASE Finalize(u)
  <2>1. session' \in Sessions /\ session'.class = session.class
    BY <1>3, <1>0 DEF Finalize, Sessions, SessionStatuses
  <2>2. Recorded = Roster(session'.class)
    BY <1>3, <2>1 DEF Finalize, IsComplete
  <2> QED BY <1>3, <1>0, <2>1, <2>2, NoRequestIsARequest, SessionWritten DEF Finalize, Respond
<1>4. CASE Cancel(u)
  <2>1. session' \in Sessions /\ session'.status # "finalized"
    BY <1>4, <1>0 DEF Cancel, Sessions, SessionStatuses
  <2> QED BY <1>4, <1>0, <2>1, NoRequestIsARequest, SessionWritten DEF Cancel, Respond
<1>5. ASSUME NEW c \in Classes, Update(u, c)
      PROVE  SessionInv'
  <2>1. call[u].copy \in Sessions /\ call[u].copy.status = "draft"
    BY <1>5, RequestShapes DEF SessionInv, Update, Unlocked
  <2>2. session' \in Sessions /\ session'.status # "finalized"
    BY <1>5, <1>0, <2>1 DEF Update, Sessions
  <2> QED BY <1>5, <2>2, NoRequestIsARequest, SessionWritten DEF Update, Respond
<1>6. CASE CheckSessionDelete(u)
  <2> DEFINE q == [call[u] EXCEPT !.op = "delete"]
  <2>1. call[u] \in [op : Unlocked \cup {"delete"}, copy : Sessions, empty : BOOLEAN]
    BY <1>6, RequestShapes DEF SessionInv, CheckSessionDelete, Unlocked
  <2>2. q \in [op : Unlocked \cup {"delete"}, copy : Sessions, empty : BOOLEAN]
          /\ q.op = "delete"
    BY <2>1
  <2>3. q \in SessionRequests /\ q \notin RecordService
    BY <2>2 DEF SessionRequests, RecordService
  <2>4. call' = [call EXCEPT ![u] = q]
          /\ UNCHANGED <<session, attendanceVars, rosterVars>>
    BY <1>6, <1>0 DEF CheckSessionDelete
  <2> HIDE DEF q
  <2> QED BY <2>3, <2>4, <1>0, SessionWritten
<1>7. CASE Delete(u)
  <2>1. session' \in Sessions /\ session'.status = session.status
          /\ session'.class = session.class
    BY <1>7, <1>0 DEF Delete, Sessions
  <2> QED BY <1>7, <2>1, NoRequestIsARequest, SessionWritten DEF Delete, Respond
<1>8. CASE Refuse(u)
  BY <1>8, <1>0, NoRequestIsARequest, SessionWritten DEF Refuse, Respond
<1> QED BY <1>1, <1>2, <1>3, <1>4, <1>5, <1>6, <1>7, <1>8

LEMMA StepInv == SessionInv /\ [SessionNext]_sessionVars => SessionInv'
<1> SUFFICES ASSUME SessionInv, [SessionNext]_sessionVars PROVE SessionInv'
  OBVIOUS
<1>1. ASSUME NEW u \in Callers, NEW mark \in BulkMarks, BulkMark(u, mark)
      PROVE  SessionInv'
  BY <1>1, BulkMarkKeepsInv
<1>2. ASSUME NEW u \in Callers, NEW s \in Markable, Correct(u, s)
      PROVE  SessionInv'
  BY <1>2, SaveRecordKeepsInv DEF Correct, CorrectedExcuse, Markable
<1>3. ASSUME NEW u \in Callers, NEW files \in BOOLEAN, SubmitExcuse(u, files)
      PROVE  SessionInv'
  <2>1. evidence' \in {evidence, evidence \cup {call[u].enrollment}}
    BY <1>3 DEF SubmitExcuse
  <2>2. SaveRecord(u, call[u].enrollment, "unexcused", "pending")
          /\ call[u] \in RecordService
    BY <1>3 DEF SubmitExcuse
  <2> QED BY <2>1, <2>2, SaveRecordKeepsInv DEF Markable
<1>4. ASSUME NEW u \in Callers, NEW approved \in BOOLEAN, Review(u, approved)
      PROVE  SessionInv'
  <2>1. call[u] \in RecordService /\ evidence' = evidence
    BY <1>4 DEF Review
  <2>2. CASE approved
    <3>1. SaveRecord(u, call[u].enrollment, "excused", "approved")
            /\ (EvidenceRequired => call[u].enrollment \in evidence)
      BY <1>4, <2>2 DEF Review
    <3> QED BY <2>1, <3>1, SaveRecordKeepsInv
  <2>3. CASE ~approved
    <3>1. SaveRecord(u, call[u].enrollment, "unexcused", "rejected")
      BY <1>4, <2>3 DEF Review
    <3> QED BY <2>1, <3>1, SaveRecordKeepsInv DEF Markable
  <2> QED BY <2>2, <2>3
<1>5. CASE UNCHANGED sessionVars
  <2>1. Recorded' = Recorded
    BY <1>5 DEF Recorded, sessionVars, attendanceVars
  <2> QED BY <1>5, <2>1
          DEF SessionInv, SessionTypeInv, RecordsInHand, UnmarkedIsUnrevised, ExcuseIsCoherent,
              RevisionTrail, FinalizedIsComplete, Roster, sessionVars, attendanceVars, rosterVars
<1> QED BY <1>1, <1>2, <1>3, <1>4, <1>5, RequestStepKeepsInv, ChangeRosterKeepsInv DEF SessionNext

LEMMA Invariance == SessionSpec => []SessionInv
BY InitInv, StepInv, PTL DEF SessionSpec

-------------------------------------------------------------------------------
(* Whatever requests overlap, a record is always one that its model's      *)
(* clean accepts, and an excused absence has the evidence that the policy  *)
(* asks for: a review looks again at the locked record, and a correction   *)
(* or a new submission starts the excuse over.                             *)
THEOREM ExcusesStayCoherent == SessionSpec => []ExcuseIsCoherent
BY Invariance, PTL DEF SessionInv

(* The revisions of a record are at all times a complete account of it:    *)
(* however bulk markings, corrections, submissions and reviews interleave, *)
(* none writes a record without the revision that leads to it.             *)
THEOREM RevisionsAccountForEveryChange == SessionSpec => []RevisionTrail
BY Invariance, PTL DEF SessionInv

(* A session that is finalized has a record for exactly its roster.  No    *)
(* lock protects it against an update or a deletion that decides on a copy *)
(* read before; it holds because such a write puts DRAFT back with it.     *)
THEOREM FinalizedStaysComplete == SessionSpec => []FinalizedIsComplete
BY Invariance, PTL DEF SessionInv

(* Every variable keeps its type, the evidence included, which belongs to  *)
(* records that exist. *)
THEOREM SessionsTypeCorrect == SessionSpec => []SessionTypeOK
<1>1. SessionInv => SessionTypeOK
  <2> SUFFICES ASSUME SessionTypeInv
               PROVE  \A e \in Enrollments :
                        \A n \in DOMAIN history[e] :
                          history[e][n] \in [before : RecordRows, after : RecordRows]
    BY DEF SessionInv, SessionTypeInv, SessionTypeOK
  <2>1. \A h \in Seq(Revisions) : \A n \in DOMAIN h : h[n] \in Revisions
    OBVIOUS
  <2> QED BY <2>1 DEF SessionTypeInv, Revisions
<1> QED BY <1>1, Invariance, PTL
=============================================================================
