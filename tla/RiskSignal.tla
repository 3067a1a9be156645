------------------------------ MODULE RiskSignal ------------------------------
(***************************************************************************)
(* The behavior events of one enrollment, its absences, and the risk       *)
(* signals that runs of the rules derive from them (behavior, analytics).  *)
(*                                                                         *)
(* The services lock an event, look at it again and commit: one step each. *)
(* A direct update or a deletion decides on the copy its view has read,    *)
(* and an update saves every column of that copy.                          *)
(*                                                                         *)
(* A run is one transaction.  It locks the enrollment, which no event or   *)
(* absence is locked by, supersedes the signals it finds, evaluates the    *)
(* rules and creates new ones; a task that fails is retried, and one that  *)
(* is lost is made up for by the nightly reconciliation.                   *)
(*                                                                         *)
(* Two of the seven rules stand for all: one that reads events, of one     *)
(* severity, and one that reads absences, of two.                          *)
(***************************************************************************)
EXTENDS Integers, FiniteSets, Sequences

CONSTANTS
  Users,       \* web requests running at the same time
  Workers,     \* runs under way at the same time, in tasks or in a request
  Events,
  Minimum,     \* minimum_count of both rules
  MaxRetries,  \* max_retries of run_targeted_analytics
  MaxQueue,    \* bound: tasks with the same number of retries that wait
  MaxChanges,  \* bound: changes of events, absences and configurations
  MaxFaults    \* bound: runs that raise, workers that die, lost messages

ASSUME RiskSignalAssumption ==
  /\ Minimum \in Nat \ {0}
  /\ {MaxRetries, MaxQueue, MaxChanges, MaxFaults} \subseteq Nat

VARIABLES
  event,    \* each BehaviorEvent
  absences, \* unexcused absences in finalized sessions of the window
  enabled,  \* rules that the organization has not switched off
  signal,   \* severities of the ACTIVE signals of each rule, oldest first
  request,  \* what each request has read and will do
  queue,    \* number of waiting tasks for each number of retries
  worker,   \* each run under way
  changes,  \* bound
  faults    \* bound

sourceVars == <<event, absences, enabled, request, changes>>
vars == <<sourceVars, signal, queue, worker, faults>>

Rules == {"discipline_repeat", "high_unexcused_absence"}
Severities == {"low", "medium", "high", "critical"}

Statuses == {"draft", "confirmed", "under_follow_up", "resolved", "voided"}
AllowedTransitions ==
  [s \in Statuses |->
     CASE s = "draft"           -> {"confirmed", "voided"}
       [] s = "confirmed"       -> {"under_follow_up", "voided"}
       [] s = "under_follow_up" -> {"resolved"}
       [] OTHER                 -> {}]
Confirmed == {"confirmed", "under_follow_up", "resolved"}

(* occurred_at is kept as whether it lies in the window of the rule.       *)
BehaviorEvents ==
  [status : Statuses, confirmed : BOOLEAN, negative : BOOLEAN, recent : BOOLEAN,
   deleted : BOOLEAN]
NoEvent == [status |-> "draft", confirmed |-> FALSE, negative |-> FALSE,
            recent |-> FALSE, deleted |-> TRUE]

(* ck_behavior_event_confirmed_timestamp *)
Stamped(e) == e.status \in {"draft", "voided"} \/ e.confirmed

Idle == [op |-> "none"]
Requests == {Idle} \cup [op : {"update", "destroy"}, id : Events, copy : BehaviorEvents]

Attempts == 0 .. MaxRetries
NoRun == [stage |-> "none"]
(* A run of a task has used some retries; one of a request is not retried. *)
Runs ==
  {NoRun} \cup [stage : {"waiting", "locked"}, tries : Attempts \cup {MaxRetries + 1}]
    \cup [stage : {"evaluated"}, tries : Attempts \cup {MaxRetries + 1},
          found : [Rules -> SUBSET Severities], kept : [Rules -> Nat]]

TypeOK ==
  /\ event \in [Events -> BehaviorEvents] /\ \A e \in Events : Stamped(event[e])
  /\ absences \in Nat
  /\ enabled \subseteq Rules
  /\ signal \in [Rules -> Seq(Severities)]
  /\ request \in [Users -> Requests]
  /\ queue \in [Attempts -> 0 .. MaxQueue]
  /\ worker \in [Workers -> Runs]
  /\ changes \in 0 .. MaxChanges
  /\ faults \in 0 .. MaxFaults

-----------------------------------------------------------------------------
(* The rules, evaluated on what is committed. *)
Negative ==
  {e \in Events : /\ ~event[e].deleted /\ event[e].negative /\ event[e].recent
                  /\ event[e].status \in Confirmed}

DisciplineRepeat == IF Cardinality(Negative) >= Minimum THEN {"high"} ELSE {}

HighUnexcusedAbsence ==
  IF absences < Minimum THEN {}
  ELSE IF absences >= 2 * Minimum THEN {"critical"} ELSE {"high"}

Candidates ==
  [r \in Rules |-> CASE r \notin enabled           -> {}
                     [] r = "discipline_repeat"      -> DisciplineRepeat
                     [] r = "high_unexcused_absence" -> HighUnexcusedAbsence]

SignalsAreCurrent ==
  \A r \in Rules : signal[r] = IF Candidates[r] = {} THEN <<>>
                               ELSE <<CHOOSE s \in Candidates[r] : TRUE>>
-----------------------------------------------------------------------------
(* .delay, after the commit; more tasks than the bound are one task more   *)
(* of a kind that waits already.                                           *)
Published(q, n) == [q EXCEPT ![n] = IF q[n] < MaxQueue THEN q[n] + 1 ELSE q[n]]

Changed == changes < MaxChanges /\ changes' = changes + 1

(* schedule_targeted_analytics *)
Schedule == queue' = Published(queue, 0)

Init ==
  /\ event = [e \in Events |-> NoEvent]
  /\ absences = 0
  /\ enabled = Rules
  /\ signal = [r \in Rules |-> <<>>]
  /\ request = [u \in Users |-> Idle]
  /\ queue = [n \in Attempts |-> 0]
  /\ worker = [w \in Workers |-> NoRun]
  /\ changes = 0
  /\ faults = 0

(* BehaviorEventViewSet.create *)
Record(e, negative) ==
  /\ event[e] = NoEvent
  /\ Changed
  /\ event' = [event EXCEPT ![e] = [NoEvent EXCEPT !.negative = negative, !.recent = TRUE,
                                                   !.deleted = FALSE]]
  /\ UNCHANGED <<absences, enabled, request, signal, queue, worker, faults>>

(* transition_event, under the lock.  A void changes what the rules count  *)
(* but schedules nothing.                                                  *)
Transition(e, target) ==
  /\ ~event[e].deleted
  /\ target \in AllowedTransitions[event[e].status]
  /\ Changed
  /\ event' = [event EXCEPT ![e].status = target,
                            ![e].confirmed = @ \/ target = "confirmed"]
  /\ IF target \in Confirmed THEN Schedule ELSE UNCHANGED queue
  /\ UNCHANGED <<absences, enabled, request, signal, worker, faults>>

(* revise_confirmed_event, of occurred_at. *)
Revise(e) ==
  /\ ~event[e].deleted /\ event[e].status \in Confirmed
  /\ Changed
  /\ event' = [event EXCEPT ![e].recent = ~@]
  /\ UNCHANGED <<absences, enabled, request, signal, queue, worker, faults>>

(* get_object of an update or a deletion, which only a draft gets past. *)
Read(u, op, e) ==
  /\ request[u] = Idle
  /\ ~event[e].deleted /\ event[e].status = "draft"
  /\ request' = [request EXCEPT ![u] = [op |-> op, id |-> e, copy |-> event[e]]]
  /\ UNCHANGED <<event, absences, enabled, changes, signal, queue, worker, faults>>

(* perform_update saves the whole row: an event that was confirmed or      *)
(* deleted meanwhile is the draft again that was read.                     *)
Update(u) ==
  LET r == request[u] IN
  /\ r.op = "update"
  /\ Changed
  /\ event' = [event EXCEPT ![r.id] = [r.copy EXCEPT !.negative = ~@]]
  /\ request' = [request EXCEPT ![u] = Idle]
  /\ UNCHANGED <<absences, enabled, signal, queue, worker, faults>>

(* perform_destroy marks the row, whatever it is by now. *)
Destroy(u) ==
  LET r == request[u] IN
  /\ r.op = "destroy"
  /\ Changed
  /\ event' = [event EXCEPT ![r.id].deleted = TRUE]
  /\ request' = [request EXCEPT ![u] = Idle]
  /\ UNCHANGED <<absences, enabled, signal, queue, worker, faults>>

(* finalize_attendance_session schedules a run for every record it holds;  *)
(* corrections and reviews of records schedule none, nor does a policy     *)
(* that is switched, nor an event that leaves the window.                  *)
FinalizeAbsence ==
  /\ absences < 2 * Minimum
  /\ Changed
  /\ absences' = absences + 1
  /\ Schedule
  /\ UNCHANGED <<event, enabled, request, signal, worker, faults>>

CorrectAbsence ==
  /\ absences > 0
  /\ Changed
  /\ absences' = absences - 1
  /\ UNCHANGED <<event, enabled, request, signal, queue, worker, faults>>

Configure(r) ==
  /\ Changed
  /\ enabled' = IF r \in enabled THEN enabled \ {r} ELSE enabled \cup {r}
  /\ UNCHANGED <<event, absences, request, signal, queue, worker, faults>>

PassWindow(e) ==
  /\ event[e].recent
  /\ Changed
  /\ event' = [event EXCEPT ![e].recent = FALSE]
  /\ UNCHANGED <<absences, enabled, request, signal, queue, worker, faults>>
-----------------------------------------------------------------------------
(* A worker takes a task.  Acknowledged early, it is the worker's to lose. *)
TakeTask(w, n) ==
  /\ worker[w] = NoRun
  /\ queue[n] > 0
  /\ queue' = [queue EXCEPT ![n] = @ - 1]
  /\ worker' = [worker EXCEPT ![w] = [stage |-> "waiting", tries |-> n]]
  /\ UNCHANGED <<sourceVars, signal, faults>>

(* AnalyticsRunViewSet.create runs the rules in the request. *)
Ask(w) ==
  /\ worker[w] = NoRun
  /\ Changed
  /\ worker' = [worker EXCEPT ![w] = [stage |-> "waiting", tries |-> MaxRetries + 1]]
  /\ UNCHANGED <<event, absences, enabled, request, signal, queue, faults>>

Holds(w) == worker[w].stage \in {"locked", "evaluated"}

(* Plausible bug: select_for_update is left out. *)
RowIsIgnored(w) == ~Holds(w)

RowIsFree(w) == ~\E v \in Workers : Holds(v)

Start(w) ==
  /\ worker[w].stage = "waiting"
  /\ RowIsFree(w)
  /\ worker' = [worker EXCEPT ![w].stage = "locked"]
  /\ UNCHANGED <<sourceVars, signal, queue, faults>>

(* The signals that are ACTIVE are superseded and the rules evaluated; the *)
(* new signals come after those this run did not see.                      *)
Evaluate(w) ==
  /\ worker[w].stage = "locked"
  /\ worker' = [worker EXCEPT ![w] =
       [stage |-> "evaluated", tries |-> worker[w].tries, found |-> Candidates,
        kept |-> [r \in Rules |-> Len(signal[r])]]]
  /\ UNCHANGED <<sourceVars, signal, queue, faults>>

New(w, r) ==
  IF worker[w].found[r] = {} THEN <<>> ELSE <<CHOOSE s \in worker[w].found[r] : TRUE>>

Unseen(w, r) == SubSeq(signal[r], worker[w].kept[r] + 1, Len(signal[r]))

Commit(w) ==
  /\ worker[w].stage = "evaluated"
  /\ signal' = [r \in Rules |-> Unseen(w, r) \o New(w, r)]
  /\ worker' = [worker EXCEPT ![w] = NoRun]
  /\ UNCHANGED <<sourceVars, queue, faults>>

(* The run raises and is rolled back; autoretry_for publishes the task     *)
(* again until its retries are used up.                                    *)
Raise(w) ==
  /\ worker[w] # NoRun
  /\ faults < MaxFaults /\ faults' = faults + 1
  /\ queue' = IF worker[w].tries < MaxRetries
              THEN Published(queue, worker[w].tries + 1) ELSE queue
  /\ worker' = [worker EXCEPT ![w] = NoRun]
  /\ UNCHANGED <<sourceVars, signal>>

Crash(w) ==
  /\ worker[w] # NoRun
  /\ faults < MaxFaults /\ faults' = faults + 1
  /\ worker' = [worker EXCEPT ![w] = NoRun]
  /\ UNCHANGED <<sourceVars, signal, queue>>

LoseTask(n) ==
  /\ queue[n] > 0
  /\ faults < MaxFaults /\ faults' = faults + 1
  /\ queue' = [queue EXCEPT ![n] = @ - 1]
  /\ UNCHANGED <<sourceVars, signal, worker>>

(* Plausible bug: the night only looks for students without a signal. *)
ReconcileUnflagged ==
  /\ IF \A r \in Rules : signal[r] = <<>> THEN Schedule ELSE UNCHANGED queue
  /\ UNCHANGED <<sourceVars, signal, worker, faults>>

(* reconcile_analytics, for an enrollment that is ACTIVE. *)
Reconcile ==
  /\ Schedule
  /\ UNCHANGED <<sourceVars, signal, worker, faults>>

-----------------------------------------------------------------------------
Change ==
  \/ \E e \in Events :
       \/ \E negative \in BOOLEAN : Record(e, negative)
       \/ \E target \in Statuses : Transition(e, target)
       \/ Revise(e)
       \/ PassWindow(e)
       \/ \E u \in Users, op \in {"update", "destroy"} : Read(u, op, e)
  \/ \E u \in Users : Update(u) \/ Destroy(u)
  \/ FinalizeAbsence
  \/ CorrectAbsence
  \/ \E r \in Rules : Configure(r)

Run(w) == (\E n \in Attempts : TakeTask(w, n)) \/ Start(w) \/ Evaluate(w) \/ Commit(w)

Next ==
  \/ Change
  \/ \E w \in Workers : Run(w) \/ Ask(w) \/ Raise(w) \/ Crash(w)
  \/ \E n \in Attempts : LoseTask(n)
  \/ Reconcile

(* The beat schedule queues the reconciliation every night, and a worker   *)
(* that has begun goes on; a waiting one gets the row again and again.     *)
Fairness ==
  /\ WF_vars(Reconcile)
  /\ \A w \in Workers : WF_vars(Evaluate(w)) /\ WF_vars(Commit(w)) /\ SF_vars(Start(w))
                        /\ SF_vars(\E n \in Attempts : TakeTask(w, n))

Spec == Init /\ [][Next]_vars
FairSpec == Spec /\ Fairness
-----------------------------------------------------------------------------
(* An enrollment has one ACTIVE signal of a rule at most, although runs of *)
(* tasks and of requests overlap: engine.py takes the enrollment's row.    *)
OneActivePerRule == \A r \in Rules : Len(signal[r]) <= 1

(* Once the sources are left alone the ACTIVE signals become those that    *)
(* the rules find, and stay so: the reconciliation of analytics/tasks.py   *)
(* catches what voids, revisions, corrections, stale updates and lost      *)
(* tasks have left behind.                                                 *)
SignalsCatchUp == <>[][UNCHANGED sourceVars]_sourceVars => <>[]SignalsAreCurrent
===============================================================================
