------------------------------ MODULE Assessment ------------------------------
(***************************************************************************)
(* One assessment of a class, its scores, and the results that are         *)
(* calculated from them (academics app).                                   *)
(*                                                                         *)
(* The services of academics/services.py lock the assessment, look at it   *)
(* again and commit: one step each, whatever their view has read before.   *)
(* What a request does bring along are copies of the enrollments a bulk    *)
(* entry names, which its serializer reads before the lock, or a copy of   *)
(* the whole row, which an update saves and a deletion relies on.          *)
(*                                                                         *)
(* A recalculation runs in one transaction that locks no assessment.  It   *)
(* reads the score of an enrollment, then takes that enrollment's result   *)
(* row and holds it until it commits, so that two of them may overlap.     *)
(*                                                                         *)
(* An assessment belongs to a course offering; here each offering is of a  *)
(* class of its own, and stands under that class's name.                   *)
(*                                                                         *)
(* Left out: the counters workflow_version and revision and the revisions  *)
(* of scores, which nothing reads back; the date of the assessment, whose  *)
(* edit redraws the roster as one of the offering does; other assessments  *)
(* of the class, with which the results are averaged; and ranks.           *)
(***************************************************************************)
EXTENDS Integers, FiniteSets

CONSTANTS
  Users,        \* web requests running at the same time
  Workers,      \* recalculations running at the same time
  Enrollments,
  Classes,      \* classes, each with one course offering
  Maxima,       \* Assessment.max_score
  Values,       \* Score.value
  AbsenceIsZero,\* CalculationPolicy.unexcused_absence_as_zero
  MaxQueue,     \* bound: recalculations that wait
  MaxMoved      \* bound: enrollments that another app changes

ASSUME AssessmentAssumption ==
  /\ Maxima \subseteq Nat \ {0}
  /\ Values \subseteq Nat
  /\ AbsenceIsZero \in BOOLEAN
  /\ MaxQueue \in Nat
  /\ MaxMoved \in Nat

VARIABLES
  assessment, \* the Assessment row
  score,      \* the Score of each enrollment, NoScore when there is none
  place,      \* the class of each enrollment, and whether it has left
  result,     \* SubjectResult.average of each offering and enrollment, NoMark when null
  request,    \* what each request will do next, and what it has read
  queue,      \* number of recalculations of the assessment's class that wait
  worker,     \* each running recalculation
  moved,      \* history: which enrollments another app has changed, and when
  corrected,  \* history: enrollments whose locked score was corrected
  overtaken,  \* history: scores that were there when the maximum was lowered
  staleWrite, \* history: an unlocked write did not know of an earlier one
  suspect     \* history: a recalculation of the assessment's class was lost or ran
              \* beside another one, or the assessment came to the class, and
              \* none has run by itself since

rosterVars == <<place, moved>>
resultVars == <<result, queue, worker, suspect>>
scoreVars == <<score, corrected, overtaken>>
vars == <<assessment, scoreVars, rosterVars, resultVars, request, staleWrite>>

Statuses == {"draft", "submitted", "rejected", "approved", "locked"}
Editable == {"draft", "rejected"}
Counted  == {"approved", "locked"}
Assessments == [status : Statuses, class : Classes, max : Maxima, deleted : BOOLEAN]

NoMark == -1

(* The combinations of status and value that Score.clean accepts, but for  *)
(* the maximum; NOT_ENTERED is the status "none" of a row that is there.   *)
Scores ==
  [status : {"present"}, value : Values]
    \cup [status : {"excused", "unexcused", "not entered"}, value : {NoMark}]
NoScore == [status |-> "no row", value |-> NoMark]

(* An enrollment is of a class, and may have left it before the date of    *)
(* the assessment.                                                         *)
Places == [class : Classes, left : BOOLEAN]

Idle == [op |-> "none"]
Requests ==
  {Idle}
    \cup [op : {"bulk"}, places : [Enrollments -> Places]]
    \cup [op : {"update", "destroy", "delete"}, copy : Assessments]

Stopped == [class |-> "none", todo |-> {}, read |-> << >>, written |-> << >>]
IsRunning(w) == worker[w] # Stopped
Calculates(w) == IsRunning(w) /\ worker[w].class = assessment.class

(* The enrollments of the assessment's class, those that left included.    *)
Members == {e \in Enrollments : place[e].class = assessment.class}

(* Who of places is to have a score.                                       *)
RosterOf(places) ==
  {e \in Enrollments : places[e].class = assessment.class /\ ~places[e].left}
Roster  == RosterOf(place)
Entered == {e \in Enrollments : score[e].status \in {"present", "excused", "unexcused"}}
HasScores == \E e \in Enrollments : score[e] # NoScore

(* normalized_score, on the scale of 20, for an assessment that counts.    *)
Mark(e) ==
  IF assessment.status \notin Counted THEN NoMark
  ELSE CASE score[e].status = "present" -> (score[e].value * 20) \div assessment.max
         [] score[e].status = "unexcused" /\ AbsenceIsZero -> 0
         [] OTHER -> NoMark

TypeOK ==
  /\ assessment \in Assessments
  /\ score \in [Enrollments -> Scores \cup {NoScore}]
  /\ place \in [Enrollments -> Places]
  /\ result \in [Classes -> [Enrollments -> Nat \cup {NoMark}]]
  /\ request \in [Users -> Requests]
  /\ queue \in 0 .. MaxQueue
  /\ \A w \in Workers :
       /\ worker[w].todo \subseteq Enrollments
       /\ DOMAIN worker[w].read \subseteq worker[w].todo
       /\ worker[w].todo \cap DOMAIN worker[w].written = {}
  /\ moved \in [Enrollments -> {"never", "while open", "under review"}]
  /\ corrected \subseteq Enrollments /\ overtaken \subseteq Enrollments
  /\ {staleWrite, suspect} \subseteq BOOLEAN

Init ==
  /\ assessment \in [status : {"draft"}, class : Classes, max : Maxima, deleted : {FALSE}]
  /\ score = [e \in Enrollments |-> NoScore]
  /\ place \in [Enrollments -> [class : Classes, left : {FALSE}]]
  /\ result = [c \in Classes |-> [e \in Enrollments |-> NoMark]]
  /\ request = [u \in Users |-> Idle]
  /\ queue = 0
  /\ worker = [w \in Workers |-> Stopped]
  /\ moved = [e \in Enrollments |-> "never"]
  /\ corrected = {} /\ overtaken = {}
  /\ staleWrite = FALSE
  /\ suspect = FALSE

-----------------------------------------------------------------------------
(* get_object and the serializer of a request that brings something along. *)
Read(u) ==
  /\ request[u] = Idle
  /\ ~assessment.deleted
  /\ \/ request' = [request EXCEPT ![u] = [op |-> "bulk", places |-> place]]
     \/ \E op \in {"update", "destroy"} :
          request' = [request EXCEPT ![u] = [op |-> op, copy |-> assessment]]
  /\ UNCHANGED <<assessment, scoreVars, rosterVars, resultVars, staleWrite>>

Respond(u) == request' = [request EXCEPT ![u] = Idle]

(* A request may be refused at any point: its rights are looked up again,  *)
(* an invalid entry undoes the whole call.                                 *)
Refuse(u) ==
  /\ request[u] # Idle
  /\ Respond(u)
  /\ UNCHANGED <<assessment, scoreVars, rosterVars, resultVars, staleWrite>>

(* Score.clean.  The enrollment of a row that is there is read again.      *)
IsClean(e, s) ==
  /\ s.value <= assessment.max
  /\ score[e] # NoScore => e \in Members

(* bulk_upsert_scores, on the locked row. *)
IsOpen == ~assessment.deleted /\ assessment.status \in Editable

BulkSave(u, new) ==
  /\ request[u].op = "bulk"
  /\ IsOpen
  /\ DOMAIN new \subseteq RosterOf(request[u].places)
  /\ \A e \in DOMAIN new : IsClean(e, new[e])
  /\ score' = [e \in Enrollments |-> IF e \in DOMAIN new THEN new[e] ELSE score[e]]
  /\ overtaken' = overtaken \ DOMAIN new
  /\ Respond(u)
  /\ UNCHANGED <<assessment, rosterVars, corrected, resultVars, staleWrite>>

-----------------------------------------------------------------------------
(* Plausible bug: a score outside the roster does not matter. *)
NoneIsMissing == Roster # {} /\ Roster \subseteq Entered

(* validate_score_completeness. *)
IsComplete == Roster # {} /\ Entered = Roster

(* _transition, on the locked row. *)
Transition(allowed, target) ==
  /\ ~assessment.deleted
  /\ assessment.status \in allowed
  /\ assessment' = [assessment EXCEPT !.status = target]
  /\ UNCHANGED <<scoreVars, rosterVars, request, staleWrite>>

Submit ==
  /\ IsComplete
  /\ Transition(Editable, "submitted")
  /\ UNCHANGED resultVars

Approve == Transition({"submitted"}, "approved") /\ UNCHANGED resultVars

Rejectable == {"submitted"}

Reject == Transition(Rejectable, "rejected") /\ UNCHANGED resultVars

(* Plausible bug: nothing is queued after the commit. *)
NothingIsQueued == UNCHANGED <<queue, suspect>>

(* transaction.on_commit(recalculate_class_term_task.delay): a broker that *)
(* cannot be reached, or a process that dies here, leaves no message.      *)
QueueRecalculation ==
  \/ queue < MaxQueue /\ queue' = queue + 1 /\ UNCHANGED suspect
  \/ suspect' = TRUE /\ UNCHANGED queue

Lock ==
  /\ IsComplete
  /\ Transition({"approved"}, "locked")
  /\ QueueRecalculation
  /\ UNCHANGED <<result, worker>>

(* correct_locked_score. *)
Correct(e, s) ==
  /\ ~assessment.deleted
  /\ assessment.status = "locked"
  /\ score[e] # NoScore
  /\ IsClean(e, s)
  /\ score' = [score EXCEPT ![e] = s]
  /\ corrected' = corrected \cup {e}
  /\ overtaken' = overtaken \ {e}
  /\ QueueRecalculation
  /\ UNCHANGED <<assessment, rosterVars, result, worker, request, staleWrite>>

-----------------------------------------------------------------------------
(* AssessmentSerializer.validate.  Outside DRAFT and REJECTED only a       *)
(* request without any field is accepted.  That scores are there would     *)
(* keep class and maximum as they are, but the new values are compared     *)
(* with an instance that has them already (ScopedCleanSerializer.validate).*)
MayBecome(copy, c, m) == c # copy.class \/ m # copy.max => copy.status \in Editable

(* perform_update saves the whole row.  Recalculations of the former class *)
(* no longer concern the assessment, those under way in the new one may.   *)
Update(u, c, m) ==
  LET copy == request[u].copy
  IN /\ request[u].op = "update"
     /\ MayBecome(copy, c, m)
     /\ assessment' = [copy EXCEPT !.class = c, !.max = m]
     /\ staleWrite' = (staleWrite \/ assessment # copy)
     /\ overtaken' = IF m >= assessment.max THEN overtaken
                     ELSE {e \in Enrollments : score[e] # NoScore}
     /\ \/ c = assessment.class /\ UNCHANGED <<queue, suspect>>
        \/ c # assessment.class /\ queue' = 0 /\ suspect' = TRUE
     /\ Respond(u)
     /\ UNCHANGED <<score, corrected, rosterVars, result, worker>>

(* perform_destroy and SoftDeleteModel.delete up to its query for scores   *)
(* ...                                                                     *)
CheckBeforeDelete(u) ==
  /\ request[u].op = "destroy"
  /\ request[u].copy.status \in Editable
  /\ ~HasScores
  /\ request' = [request EXCEPT ![u].op = "delete"]
  /\ UNCHANGED <<assessment, scoreVars, rosterVars, resultVars, staleWrite>>

(* ... and the save of is_deleted. *)
Delete(u) ==
  /\ request[u].op = "delete"
  /\ assessment' = [assessment EXCEPT !.deleted = TRUE]
  /\ staleWrite' = (staleWrite \/ assessment # request[u].copy \/ HasScores)
  /\ Respond(u)
  /\ UNCHANGED <<scoreVars, rosterVars, resultVars>>

(* The students app changes an enrollment. *)
ChangeEnrollment(e) ==
  /\ moved[e] = "never"
  /\ Cardinality({f \in Enrollments : moved[f] # "never"}) < MaxMoved
  /\ moved' = [moved EXCEPT ![e] =
                 IF assessment.status \in Editable THEN "while open" ELSE "under review"]
  /\ place' \in {[place EXCEPT ![e] = p] : p \in Places \ {place[e]}}
  /\ UNCHANGED <<assessment, scoreVars, resultVars, request, staleWrite>>

-----------------------------------------------------------------------------
TaskWaits == queue > 0

(* A recalculation of class c begins: a task of the queue, or a report     *)
(* that wants fresh results.  Enrollments that left are calculated too.    *)
Start(w, c) ==
  /\ ~IsRunning(w)
  /\ worker' = [worker EXCEPT ![w] =
                  [class |-> c, todo |-> {e \in Enrollments : place[e].class = c},
                   read |-> << >>, written |-> << >>]]
  /\ \/ /\ c = assessment.class
        /\ \/ TaskWaits /\ queue' = queue - 1
           \/ UNCHANGED queue
        /\ suspect' = (\E v \in Workers : Calculates(v))
     \/ c # assessment.class /\ UNCHANGED <<queue, suspect>>
  /\ UNCHANGED <<assessment, scoreVars, rosterVars, result, request, staleWrite>>

(* calculate_enrollment_term reads the scores of an enrollment in the      *)
(* offering of its class ...                                               *)
ReadScores(w, e) ==
  /\ e \in worker[w].todo
  /\ worker[w].read = << >>
  /\ worker' = [worker EXCEPT ![w].read =
                  [f \in {e} |-> IF Calculates(w) THEN Mark(f) ELSE NoMark]]
  /\ UNCHANGED <<assessment, scoreVars, rosterVars, result, queue, suspect, request, staleWrite>>

(* ... and update_or_create takes its result row, waiting for a            *)
(* recalculation that has written it and not committed yet.                *)
WriteResult(w, e) ==
  /\ e \in DOMAIN worker[w].read
  /\ \A v \in Workers \ {w} :
       worker[v].class = worker[w].class => e \notin DOMAIN worker[v].written
  /\ worker' = [worker EXCEPT ![w] =
                  [class |-> @.class, todo |-> @.todo \ {e}, read |-> << >>,
                   written |-> [f \in {e} \cup DOMAIN worker[w].written |->
                                  IF f = e THEN worker[w].read[e] ELSE worker[w].written[f]]]]
  /\ UNCHANGED <<assessment, scoreVars, rosterVars, result, queue, suspect, request, staleWrite>>

Commit(w) ==
  /\ IsRunning(w)
  /\ worker[w].todo = {}
  /\ result' = [result EXCEPT ![worker[w].class] =
                  [e \in Enrollments |-> IF e \in DOMAIN worker[w].written
                                         THEN worker[w].written[e] ELSE @[e]]]
  /\ worker' = [worker EXCEPT ![w] = Stopped]
  /\ UNCHANGED <<assessment, scoreVars, rosterVars, queue, suspect, request, staleWrite>>

(* An error, a deadlock or the death of the process rolls back; celery     *)
(* tries again (autoretry_for) until max_retries, a report does not.       *)
Fail(w) ==
  /\ IsRunning(w)
  /\ worker' = [worker EXCEPT ![w] = Stopped]
  /\ IF Calculates(w) THEN QueueRecalculation ELSE UNCHANGED <<queue, suspect>>
  /\ UNCHANGED <<assessment, scoreVars, rosterVars, result, request, staleWrite>>

-----------------------------------------------------------------------------
Entries == UNION {[es -> Scores] : es \in SUBSET Enrollments \ {{}}}

Next ==
  \/ \E u \in Users :
       \/ Read(u)
       \/ \E new \in Entries : BulkSave(u, new)
       \/ \E c \in Classes, m \in Maxima : Update(u, c, m)
       \/ CheckBeforeDelete(u)
       \/ Delete(u)
       \/ Refuse(u)
  \/ Submit \/ Approve \/ Reject \/ Lock
  \/ \E e \in Enrollments : (\E s \in Scores : Correct(e, s)) \/ ChangeEnrollment(e)
  \/ \E w \in Workers :
       \/ \E c \in Classes : Start(w, c)
       \/ \E e \in Enrollments : ReadScores(w, e) \/ WriteResult(w, e)
       \/ Commit(w)
       \/ Fail(w)

Spec == Init /\ [][Next]_vars

-----------------------------------------------------------------------------
(* While an assessment is under review or counts, exactly the enrollments  *)
(* on the roster of its class have a score that is entered: nothing a bulk *)
(* entry brings along from before the submission, or from before the       *)
(* assessment went to another class, gets in, no enrollment is missing,    *)
(* and none that left while scores were entered is still there.  And no    *)
(* score is above the maximum but those that were there when an edit       *)
(* lowered it, which nothing looks at again.  Left aside are               *)
(* enrollments another app has changed during a review or after it, scores *)
(* that were corrected, and what an edit or a deletion has written over    *)
(* that knew nothing of an earlier one.                                    *)
ReviewedIsComplete ==
  ~staleWrite /\ assessment.status \notin Editable =>
    /\ \A e \in Enrollments \ corrected :
         moved[e] # "under review" => (e \in Entered <=> e \in Roster)
    /\ \A e \in Enrollments \ overtaken : score[e].value <= assessment.max

(* Once the recalculations of its class have come to rest, the results of  *)
(* a locked assessment are those of its scores as they are, corrections    *)
(* included, however edits, corrections, reports and tasks were            *)
(* interleaved; unless a task was lost or two ran side by side.            *)
ResultIsCurrent ==
  /\ assessment.status = "locked"
  /\ queue = 0
  /\ \A w \in Workers : ~Calculates(w)
  /\ ~suspect
  /\ ~staleWrite
  => \A e \in Members : result[assessment.class][e] = Mark(e)
===============================================================================
