---------------------------- MODULE AttendanceAlert ----------------------------
(***************************************************************************)
(* Attendance policies, the alerts that evaluating them raises and settles *)
(* for an enrollment, and the notifications to guardians that evaluations, *)
(* records and summaries queue (attendance/services.py, from line 453).    *)
(*                                                                         *)
(* An evaluation is one transaction.  It locks the policy's row, measures  *)
(* the attendance, then locks the active alerts it looks at.  A locked row *)
(* changes for nobody else before the commit, and only evaluations of the  *)
(* same policy create alerts: locking the policy is one step with the      *)
(* measuring, and judging the alerts one with the commit.                  *)
(*                                                                         *)
(* The two policies are of one school and year.  Absence percentages are   *)
(* kept in hundredths of a percent, as the column has two decimals.        *)
(***************************************************************************)
EXTENDS Integers, FiniteSets, Sequences

CONSTANTS
  Policies,
  Users,          \* web requests that update or delete policies
  Evaluators,     \* evaluations under way, in a task or in a request
  Records,        \* attendance records of the enrollment in the date range
  ScopeOf,        \* [Records -> Scopes]: the scope of the record's session
  Guardians,      \* those linked to the student
  WithEmail, WithPhone, \* guardians with an address, with a number
  SMSEnabled,     \* ATTENDANCE_SMS_BACKEND is not the disabled one
  WarningCount, CriticalCount, WarningPercent, CriticalPercent,
  MaxChanges      \* bound: changes made by requests and by attendance

Scopes == {"daily", "period"}

(* AttendancePolicy.clean *)
ASSUME ThresholdsAssumption ==
  /\ {WarningCount, CriticalCount, MaxChanges} \subseteq Nat \ {0}
  /\ WarningCount <= CriticalCount
  /\ {WarningPercent, CriticalPercent} \subseteq 0 .. 10000
  /\ WarningPercent <= CriticalPercent
  /\ ScopeOf \in [Records -> Scopes]
  /\ WithEmail \subseteq Guardians /\ WithPhone \subseteq Guardians
  /\ IsFiniteSet(Records)

VARIABLES
  policy,    \* each row of AttendancePolicy
  record,    \* status and revision of each record, "none" until it counts
  enrolled,  \* the enrollment is ACTIVE
  primary,   \* guardians that are primary
  alerts,    \* every AttendanceAlert, oldest first
  published, \* for each dedupe key, the tasks published for its notification
  request,   \* what each request has read
  nightly,   \* evaluate_attendance_alerts waits in its queue
  worker,    \* each evaluation
  changes    \* bound

sources == <<policy, record, enrolled, request>>
alertVars == <<sources, primary, alerts, published, nightly, worker, changes>>

Marks == {"none", "present", "absent_excused", "absent_unexcused"}
Channels == {"in_app", "email", "sms"}
PolicyRows ==
  [exists : BOOLEAN, deleted : BOOLEAN, is_active : BOOLEAN,
   include_excused : BOOLEAN, notify : BOOLEAN, channels : SUBSET Channels]
NoPolicy == [exists |-> FALSE, deleted |-> FALSE, is_active |-> TRUE,
             include_excused |-> TRUE, notify |-> TRUE, channels |-> {}]

Severities == {"warning", "critical"}
Alerts ==
  [policy : Policies, scope : Scopes, severity : Severities, absent : Nat, total : Nat,
   status : {"open", "acknowledged", "resolved"}]

Idle == [op |-> "none"]
Requests ==
  {Idle} \cup [op : {"update"}, policy : Policies, row : PolicyRows]
         \cup [op : {"delete"}, policy : Policies]

Measures == [Scopes -> [absent : Nat, total : Nat]]
Free == [stage |-> "free"]
Evaluations ==
  {Free} \cup [stage : {"listed"}, policies : SUBSET Policies]
         \cup [stage : {"measured"}, policy : Policies, enrolled : BOOLEAN,
               policies : SUBSET Policies, metrics : Measures]

Live(p) == policy[p].exists /\ ~policy[p].deleted

AlertsTypeOK ==
  /\ policy \in [Policies -> PolicyRows]
  /\ record \in [Records -> [mark : Marks, revision : Nat]]
  /\ enrolled \in BOOLEAN
  /\ primary \subseteq Guardians
  /\ alerts \in Seq(Alerts)
  /\ \A k \in DOMAIN published : published[k] \in Nat
  /\ request \in [Users -> Requests]
  /\ nightly \in BOOLEAN
  /\ worker \in [Evaluators -> Evaluations]
  /\ changes \in 0 .. MaxChanges
  /\ \A p, q \in Policies : Live(p) /\ Live(q) => p = q

-----------------------------------------------------------------------------
(* enrollment_metrics_map, over the records of finalized sessions. *)
Counted(s) == {r \in Records : ScopeOf[r] = s /\ record[r].mark # "none"}

Absent(s, include_excused) ==
  {r \in Counted(s) :
     record[r].mark \in {"absent_unexcused"} \cup
                        (IF include_excused THEN {"absent_excused"} ELSE {})}

Metrics(include_excused) ==
  [s \in Scopes |-> [absent |-> Cardinality(Absent(s, include_excused)),
                     total |-> Cardinality(Counted(s))]]

(* quantize(0.01, ROUND_HALF_UP) of absent * 100 / total *)
Percent(m) == IF m.total = 0 THEN 0
              ELSE (2 * 10000 * m.absent + m.total) \div (2 * m.total)

Reaches(m, count, percent) == m.total # 0 /\ (m.absent >= count \/ Percent(m) >= percent)

Severity(m) ==
  CASE Reaches(m, CriticalCount, CriticalPercent) -> "critical"
    [] ~Reaches(m, CriticalCount, CriticalPercent) /\ Reaches(m, WarningCount, WarningPercent)
                                                  -> "warning"
    [] ~Reaches(m, CriticalCount, CriticalPercent) /\ ~Reaches(m, WarningCount, WarningPercent)
                                                  -> "none"

Active(a) == a.status \in {"open", "acknowledged"}
ActiveOf(p, s) ==
  {i \in DOMAIN alerts : alerts[i].policy = p /\ alerts[i].scope = s /\ Active(alerts[i])}

(* The alerts of p that its evaluation would leave as they are. *)
IsCurrent(p) ==
  \A s \in Scopes :
    LET m == Metrics(policy[p].include_excused)[s] IN
    {<<alerts[i].severity, alerts[i].absent, alerts[i].total>> : i \in ActiveOf(p, s)}
      = IF Severity(m) = "none" THEN {} ELSE {<<Severity(m), m.absent, m.total>>}
-----------------------------------------------------------------------------
(* _guardians_for_student, _default_channels_for_guardian *)
GuardiansToTell == IF primary # {} THEN primary ELSE Guardians

DefaultChannels(g) ==
  {c \in {"email", "sms"} : \/ c = "email" /\ g \in WithEmail
                            \/ c = "sms" /\ g \in WithPhone /\ SMSEnabled}

(* The dedupe keys of a notification about what, asked for on channels. *)
Keys(what, channels) ==
  {<<what, g, c>> : g \in GuardiansToTell, c \in Channels}
    \cap UNION {{<<what, g, c>> : c \in IF channels # {} THEN channels ELSE DefaultChannels(g)} :
                  g \in GuardiansToTell}

(* get_or_create by the dedupe key; a task is published for a new one. *)
Queue(keys) ==
  published' = [k \in DOMAIN published \cup keys |->
                  IF k \in DOMAIN published THEN published[k] ELSE 1]

AlertsInit ==
  /\ policy = [[q \in Policies |-> NoPolicy] EXCEPT ![CHOOSE p \in Policies : TRUE].exists = TRUE]
  /\ record = [r \in Records |-> [mark |-> "none", revision |-> 0]]
  /\ enrolled = TRUE
  /\ primary = {}
  /\ alerts = <<>>
  /\ published = [k \in {} |-> 0]
  /\ request = [u \in Users |-> Idle]
  /\ nightly = FALSE
  /\ worker = [w \in Evaluators |-> Free]
  /\ changes = 0

Changed == changes < MaxChanges /\ changes' = changes + 1

(* A row that an evaluation has locked waits to be written. *)
Locked(p) == \E w \in Evaluators : worker[w].stage = "measured" /\ worker[w].policy = p

(* uq_attendance_policy_school_year *)
Fits(p) == \A q \in Policies \ {p} : ~Live(q)
-----------------------------------------------------------------------------
(* AttendancePolicyViewSet *)
CreatePolicy(p, row) ==
  /\ ~policy[p].exists
  /\ Fits(p)
  /\ Changed
  /\ policy' = [policy EXCEPT ![p] = [row EXCEPT !.exists = TRUE]]
  /\ UNCHANGED <<record, enrolled, primary, alerts, published, request, nightly, worker>>

ReadForUpdate(u, p) ==
  /\ request[u] = Idle
  /\ Live(p)
  /\ request' = [request EXCEPT ![u] = [op |-> "update", policy |-> p, row |-> policy[p]]]
  /\ UNCHANGED <<policy, record, enrolled, primary, alerts, published, nightly, worker, changes>>

(* An update saves the row it has read, with the fields that were sent; it *)
(* may bring back a policy that was deleted since, unless there is another.*)
UpdatePolicy(u) ==
  LET q == request[u] IN
  /\ q.op = "update"
  /\ ~Locked(q.policy)
  /\ Changed
  /\ request' = [request EXCEPT ![u] = Idle]
  /\ \/ /\ Fits(q.policy)
        /\ \E field \in {"is_active", "include_excused", "notify"} :
             policy' = [policy EXCEPT ![q.policy] = [q.row EXCEPT ![field] = ~@]]
     \/ ~Fits(q.policy) /\ UNCHANGED policy
  /\ UNCHANGED <<record, enrolled, primary, alerts, published, nightly, worker>>

(* SoftDeleteModel.delete looks for alerts, then marks the row. *)
CheckBeforeDelete(u, p) ==
  /\ request[u] = Idle
  /\ Live(p)
  /\ \A i \in DOMAIN alerts : alerts[i].policy # p
  /\ request' = [request EXCEPT ![u] = [op |-> "delete", policy |-> p]]
  /\ UNCHANGED <<policy, record, enrolled, primary, alerts, published, nightly, worker, changes>>

DeletePolicy(u) ==
  LET q == request[u] IN
  /\ q.op = "delete"
  /\ ~Locked(q.policy)
  /\ Changed
  /\ policy' = [policy EXCEPT ![q.policy].deleted = TRUE]
  /\ request' = [request EXCEPT ![u] = Idle]
  /\ UNCHANGED <<record, enrolled, primary, alerts, published, nightly, worker>>

(* A session is finalized, one of its records is corrected or reviewed, or *)
(* its date leaves the range that attendance_date_range computes.          *)
Mark(r, mark) ==
  /\ mark # record[r].mark
  /\ Changed
  /\ record' = [record EXCEPT ![r] = [mark |-> mark, revision |-> @.revision + 1]]
  /\ UNCHANGED <<policy, enrolled, primary, alerts, published, request, nightly, worker>>

ChangeEnrollment ==
  /\ Changed
  /\ enrolled' = ~enrolled
  /\ UNCHANGED <<policy, record, primary, alerts, published, request, nightly, worker>>

SetPrimary(g) ==
  /\ primary' = IF primary = {g} THEN {} ELSE {g}
  /\ Changed
  /\ UNCHANGED <<policy, record, enrolled, alerts, published, request, nightly, worker>>

(* queue_record_parent_notifications, queue_summary_parent_notifications:  *)
(* the key of a record names its revision, that of a summary its dates.    *)
PolicyChannels ==
  UNION {policy[p].channels : p \in {q \in Policies : Live(q) /\ policy[q].is_active}}

NotifyOfRecord(r, channels) ==
  /\ record[r].mark # "none"
  /\ Changed
  /\ Queue(Keys(<<"record", r, record[r].revision>>,
                IF channels # {} THEN channels ELSE PolicyChannels))
  /\ UNCHANGED <<sources, primary, alerts, nightly, worker>>

NotifyOfSummary(scope, channels) ==
  /\ Changed
  /\ Queue(Keys(<<"summary", scope>>, IF channels # {} THEN channels ELSE PolicyChannels))
  /\ UNCHANGED <<sources, primary, alerts, nightly, worker>>
-----------------------------------------------------------------------------
(* The beat schedule; a task that waits already is not counted twice. *)
Beat ==
  /\ nightly' = TRUE
  /\ UNCHANGED <<sources, primary, alerts, published, worker, changes>>

Listed(policies) == IF policies = {} THEN Free ELSE [stage |-> "listed", policies |-> policies]

(* evaluate_attendance_alerts lists the active policies, then evaluates    *)
(* one after the other.                                                    *)
TakeTask(w) ==
  /\ nightly /\ worker[w] = Free
  /\ nightly' = FALSE
  /\ worker' = [worker EXCEPT ![w] = Listed({p \in Policies : Live(p) /\ policy[p].is_active})]
  /\ UNCHANGED <<sources, primary, alerts, published, changes>>

(* AttendanceAlertViewSet.evaluate, which takes inactive policies as well. *)
Ask(w, p) ==
  /\ worker[w] = Free
  /\ Live(p)
  /\ Changed
  /\ worker' = [worker EXCEPT ![w] = Listed({p})]
  /\ UNCHANGED <<sources, primary, alerts, published, nightly>>

(* The row is read again under the lock, and the attendance after it.  If  *)
(* the policy was deleted, the exception ends the task with those that are *)
(* still to come.                                                          *)
Measure(w, p) ==
  /\ worker[w].stage = "listed" /\ p \in worker[w].policies
  /\ ~Locked(p)
  /\ worker' = [worker EXCEPT ![w] =
       IF Live(p) THEN [stage |-> "measured", policy |-> p, enrolled |-> enrolled,
                        policies |-> worker[w].policies \ {p},
                        metrics |-> Metrics(policy[p].include_excused)]
       ELSE Free]
  /\ UNCHANGED <<sources, primary, alerts, published, nightly, changes>>

(* Plausible bug: an acknowledged alert does not count as active. *)
MatchingOpen(w, s) ==
  {i \in ActiveOf(worker[w].policy, s) :
     alerts[i].severity = Severity(worker[w].metrics[s]) /\ alerts[i].status = "open"}

(* The alert of this severity that is active already, for each scope. *)
Matching(w, s) ==
  {i \in ActiveOf(worker[w].policy, s) : alerts[i].severity = Severity(worker[w].metrics[s])}

Resolved(a) == [a EXCEPT !.status = "resolved"]

(* Plausible bug: the counts of an alert that lasts are left alone. *)
Untouched(a, m) == a

Updated(a, m) == [a EXCEPT !.absent = m.absent, !.total = m.total]
NewAlert(w, s) ==
  LET m == worker[w].metrics[s] IN
  [policy |-> worker[w].policy, scope |-> s, severity |-> Severity(m), status |-> "open",
   absent |-> m.absent, total |-> m.total]

(* The alert that a scope gets when it has none of that severity. *)
Created(w, s) ==
  IF Severity(worker[w].metrics[s]) # "none" /\ Matching(w, s) = {} THEN <<NewAlert(w, s)>> ELSE <<>>

Settled(w) ==
  [i \in DOMAIN alerts |->
     LET a == alerts[i] IN
     CASE i \in UNION {Matching(w, s) : s \in Scopes} -> Updated(a, worker[w].metrics[a.scope])
       [] i \in UNION {ActiveOf(worker[w].policy, s) \ Matching(w, s) : s \in Scopes}
                                                      -> Resolved(a)
       [] OTHER                                       -> a]

(* The scopes are looked at in this order. *)
Judged(w) == Settled(w) \o Created(w, "daily") \o Created(w, "period")

(* _queue_alert_notifications, for the alerts that stand. *)
AlertKeys(w) ==
  LET p == worker[w].policy IN
  IF ~policy[p].notify THEN {}
  ELSE UNION {Keys(<<"alert", i, Judged(w)[i].absent, Judged(w)[i].total>>, policy[p].channels) :
                i \in {j \in DOMAIN Judged(w) : Judged(w)[j].policy = p /\ Active(Judged(w)[j])}}

(* Alerts of an enrollment that is no longer ACTIVE are not looked at. *)
Judge(w) ==
  /\ worker[w].stage = "measured"
  /\ IF worker[w].enrolled
     THEN alerts' = Judged(w) /\ Queue(AlertKeys(w))
     ELSE UNCHANGED <<alerts, published>>
  /\ worker' = [worker EXCEPT ![w] = Listed(worker[w].policies)]
  /\ UNCHANGED <<sources, primary, nightly, changes>>

CrashEvaluation(w) ==
  /\ worker[w] # Free
  /\ Changed
  /\ worker' = [worker EXCEPT ![w] = Free]
  /\ UNCHANGED <<sources, primary, alerts, published, nightly>>

(* acknowledge_alert and resolve_alert, under the alert's lock. *)
Acknowledge(i) ==
  /\ alerts[i].status = "open"
  /\ Changed
  /\ alerts' = [alerts EXCEPT ![i].status = "acknowledged"]
  /\ UNCHANGED <<sources, primary, published, nightly, worker>>

Resolve(i) ==
  /\ Active(alerts[i])
  /\ Changed
  /\ alerts' = [alerts EXCEPT ![i].status = "resolved"]
  /\ UNCHANGED <<sources, primary, published, nightly, worker>>
-----------------------------------------------------------------------------
Request ==
  \/ \E p \in Policies :
       \/ CreatePolicy(p, [NoPolicy EXCEPT !.channels = {"in_app"}])
       \/ \E u \in Users : ReadForUpdate(u, p) \/ CheckBeforeDelete(u, p)
       \/ \E w \in Evaluators : Ask(w, p)
  \/ \E u \in Users : UpdatePolicy(u) \/ DeletePolicy(u)
  \/ \E i \in DOMAIN alerts : Acknowledge(i) \/ Resolve(i)

Surroundings ==
  \/ \E r \in Records, mark \in Marks : Mark(r, mark)
  \/ ChangeEnrollment
  \/ \E g \in Guardians : SetPrimary(g)

Notify ==
  \/ \E r \in Records : NotifyOfRecord(r, {})
  \/ NotifyOfSummary("daily", {"sms"})

Evaluate(w) == TakeTask(w) \/ Judge(w) \/ \E p \in Policies : Measure(w, p)

AlertsNext ==
  \/ Request \/ Surroundings \/ Notify \/ Beat
  \/ \E w \in Evaluators : Evaluate(w) \/ CrashEvaluation(w)

(* The task is published by the beat schedule again and again; a worker    *)
(* goes on with what it has begun, and an evaluation that waits for the    *)
(* row gets it in its turn.                                                *)
AlertsFairness ==
  /\ WF_alertVars(Beat)
  /\ \A w \in Evaluators : /\ SF_alertVars(TakeTask(w)) /\ WF_alertVars(Judge(w))
                           /\ SF_alertVars(\E p \in Policies : Measure(w, p))

AlertsSpec == AlertsInit /\ [][AlertsNext]_alertVars
FairAlertsSpec == AlertsSpec /\ AlertsFairness
-----------------------------------------------------------------------------
(* An alert that was seen is not raised again while it lasts: where an     *)
(* evaluation creates an alert, no alert of that severity was acknowledged *)
(* for the same scope (test_alert_evaluation_is_idempotent_after_          *)
(* acknowledge).                                                           *)
AcknowledgedIsNotRaisedAgain ==
  [][\A i \in DOMAIN alerts' \ DOMAIN alerts :
       \A j \in DOMAIN alerts :
         ~/\ alerts[j].status = "acknowledged"
          /\ alerts[j].policy = alerts'[i].policy
          /\ alerts[j].scope = alerts'[i].scope
          /\ alerts[j].severity = alerts'[i].severity]_alerts

(* Once people and attendance change nothing more, the alerts of an active *)
(* policy become those that its thresholds ask for, with the counts of the *)
(* day, and stay so: evaluate_attendance_alerts catches up every night.    *)
AlertsCatchUp ==
  <>[][changes' = changes]_alertVars
    => <>[]\A p \in Policies : Live(p) /\ policy[p].is_active /\ enrolled => IsCurrent(p)
================================================================================
