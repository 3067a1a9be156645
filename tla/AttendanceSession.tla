--------------------------- MODULE AttendanceSession ---------------------------
(***************************************************************************)
(* One attendance session, its records and their excuses (attendance app), *)
(* under requests that overlap.                                            *)
(*                                                                         *)
(* Every request first reads the session or the record without a lock (the *)
(* queryset of its view).  The services of attendance/services.py then     *)
(* lock the row, look at it again and commit: one step each.  An update    *)
(* and a deletion of the session do not lock: an update writes the row it  *)
(* has read, a deletion looks for records once more and then marks the row.*)
(*                                                                         *)
(* A request may end with a refusal at any point (Refuse): the actor's     *)
(* rights are looked up again, and a rejected item undoes the whole call.  *)
(***************************************************************************)
EXTENDS Integers, Sequences, FiniteSetsExt

CONSTANTS
  Callers,          \* web requests running at the same time
  Enrollments,
  Classes,          \* AttendanceSession.class_section
  EvidenceRequired, \* AttendancePolicy.require_evidence_for_excuse
  MaxRevisions,     \* bound: AttendanceRecordRevision rows altogether
  MaxMoved          \* bound: enrollments that another app changes

ASSUME AttendanceAssumption ==
  /\ EvidenceRequired \in BOOLEAN
  /\ MaxRevisions \in Nat
  /\ MaxMoved \in Nat

VARIABLES
  session,    \* the AttendanceSession row
  attendance, \* the AttendanceRecord of each enrollment, Unmarked if there is none
  history,    \* AttendanceRecordRevision rows of each record: before and after
  evidence,   \* enrollments whose record has an AbsenceEvidence
  home,       \* Enrollment.class_section
  away,       \* enrollments that left before the date of the session
  call,       \* what each request will do next, and what it has read
  moved       \* history: enrollments that another app has changed

attendanceVars == <<attendance, history, evidence>>
rosterVars == <<home, away, moved>>
sessionVars == <<session, attendanceVars, rosterVars, call>>

SessionStatuses == {"draft", "finalized", "cancelled"}
Sessions == [status : SessionStatuses, class : Classes, deleted : BOOLEAN]

Markable == {"present", "unexcused"}
RecordRows == [status : Markable \cup {"excused"},
               excuse : {"not_required", "pending", "approved", "rejected"},
               revision : Nat \ {0}]
Unmarked == [status |-> "none", excuse |-> "not_required", revision |-> 0]

(* A request for one of the services; which one is chosen when it locks.   *)
Service == [op |-> "service"]
RecordService == [op : {"record service"}, enrollment : Enrollments]
Unlocked == {"update", "destroy"}
NoRequest == [op |-> "none"]
SessionRequests ==
  {NoRequest, Service} \cup RecordService
    \cup [op : Unlocked \cup {"delete"}, copy : Sessions, empty : BOOLEAN]

Recorded == {e \in Enrollments : attendance[e] # Unmarked}
Roster(class) == {e \in Enrollments : home[e] = class /\ e \notin away}

SessionTypeOK ==
  /\ session \in Sessions
  /\ attendance \in [Enrollments -> RecordRows \cup {Unmarked}]
  /\ \A e \in Enrollments :
       \A n \in DOMAIN history[e] : history[e][n] \in [before : RecordRows, after : RecordRows]
  /\ evidence \subseteq Recorded
  /\ home \in [Enrollments -> Classes]
  /\ away \subseteq moved
  /\ call \in [Callers -> SessionRequests]
  /\ moved \subseteq Enrollments

SessionInit ==
  /\ session \in [status : {"draft"}, class : Classes, deleted : {FALSE}]
  /\ attendance = [e \in Enrollments |-> Unmarked]
  /\ history = [e \in Enrollments |-> << >>]
  /\ evidence = {}
  /\ home \in [Enrollments -> Classes]
  /\ away = {}
  /\ call = [u \in Callers |-> NoRequest]
  /\ moved = {}

-----------------------------------------------------------------------------
(* get_object of a session request; its records are prefetched with it.    *)
(* What the services do not look at again is not remembered.               *)
ReadSession(u) ==
  /\ call[u] = NoRequest
  /\ ~session.deleted
  /\ \/ call' = [call EXCEPT ![u] = Service]
     \/ \E op \in Unlocked :
          call' = [call EXCEPT ![u] =
                     [op |-> op, copy |-> session, empty |-> Recorded = {}]]
  /\ UNCHANGED <<session, attendanceVars, rosterVars>>

(* get_object of a record request. *)
ReadRecord(u, e) ==
  /\ call[u] = NoRequest
  /\ e \in Recorded
  /\ ~session.deleted
  /\ session.status \in {"draft", "finalized"}
  /\ call' = [call EXCEPT ![u] = [op |-> "record service", enrollment |-> e]]
  /\ UNCHANGED <<session, attendanceVars, rosterVars>>

Respond(u) == call' = [call EXCEPT ![u] = NoRequest]

Refuse(u) ==
  /\ call[u] # NoRequest
  /\ Respond(u)
  /\ UNCHANGED <<session, attendanceVars, rosterVars>>

(* _validate_session_writer, on the locked row; a deleted row passes. *)
IsWritable == session.status = "draft"

(* A record as an operation leaves it. *)
Revised(e, s, x) == [status |-> s, excuse |-> x, revision |-> attendance[e].revision + 1]

(* Plausible bug: a bulk marking leaves no revision behind. *)
NoTrail(es, new) == history

(* The rows of AttendanceRecordRevision after es were written: none for a  *)
(* record that is new.                                                     *)
Trail(es, new) ==
  [e \in Enrollments |->
     IF e \in es /\ attendance[e] # Unmarked
     THEN Append(history[e], [before |-> attendance[e], after |-> new[e]])
     ELSE history[e]]

IsBounded(h) == MapThenSumSet(LAMBDA e : Len(h[e]), Enrollments) <= MaxRevisions

(* bulk_record_attendance: all items are saved or none. *)
BulkMark(u, mark) ==
  LET es == DOMAIN mark
      new == [e \in Enrollments |->
                IF e \in es THEN Revised(e, mark[e], "not_required") ELSE attendance[e]]
  IN /\ call[u] = Service
     /\ IsWritable
     /\ es \subseteq Roster(session.class)
     /\ \A e \in es : attendance[e].excuse = "not_required"
     /\ attendance' = new
     /\ history' = Trail(es, new)
     /\ IsBounded(history')
     /\ Respond(u)
     /\ UNCHANGED <<session, evidence, rosterVars>>

(* Save a revision of one record.  full_clean asks that the enrollment is  *)
(* in the class of the session; what it asks of the status and the excuse  *)
(* is CleanAccepts, which no operation needs to be refused by.             *)
SaveRecord(u, e, s, x) ==
  /\ home[e] = session.class
  /\ attendance' = [attendance EXCEPT ![e] = Revised(e, s, x)]
  /\ history' = Trail({e}, attendance')
  /\ IsBounded(history')
  /\ Respond(u)
  /\ UNCHANGED <<session, rosterVars>>

(* Plausible bug: a correction keeps the excuse. *)
KeptExcuse(e) == attendance[e].excuse

(* What correct_attendance_record makes of the excuse: it starts over. *)
CorrectedExcuse(e) == "not_required"

(* correct_attendance_record, in a session of any status. *)
Correct(u, s) ==
  LET e == call[u].enrollment
  IN /\ call[u] \in RecordService
     /\ SaveRecord(u, e, s, CorrectedExcuse(e))
     /\ UNCHANGED evidence

(* submit_absence_excuse, with or without files. *)
SubmitExcuse(u, files) ==
  LET e == call[u].enrollment
  IN /\ call[u] \in RecordService
     /\ attendance[e].status # "present"
     /\ SaveRecord(u, e, "unexcused", "pending")
     /\ evidence' = IF files THEN evidence \cup {e} ELSE evidence

(* The record is locked and must still be waiting for its review. *)
AwaitsReview(e) == attendance[e].excuse = "pending"

(* review_absence_excuse. *)
Review(u, approved) ==
  LET e == call[u].enrollment
  IN /\ call[u] \in RecordService
     /\ AwaitsReview(e)
     /\ \/ /\ approved
           /\ EvidenceRequired => e \in evidence
           /\ SaveRecord(u, e, "excused", "approved")
        \/ /\ ~approved
           /\ SaveRecord(u, e, "unexcused", "rejected")
     /\ UNCHANGED evidence

-----------------------------------------------------------------------------
(* Plausible bug: records of enrollments outside the roster are let through. *)
NoneIsMissing == Roster(session.class) \subseteq Recorded

(* finalize: every enrollment of the roster has a record, and no other. *)
IsComplete == Recorded = Roster(session.class)

Finalize(u) ==
  /\ call[u] = Service
  /\ IsWritable
  /\ IsComplete
  /\ session' = [session EXCEPT !.status = "finalized"]
  /\ Respond(u)
  /\ UNCHANGED <<attendanceVars, rosterVars>>

Cancel(u) ==
  /\ call[u] = Service
  /\ IsWritable
  /\ session' = [session EXCEPT !.status = "cancelled"]
  /\ Respond(u)
  /\ UNCHANGED <<attendanceVars, rosterVars>>

(* perform_update: DRAFT and the records are looked up in the copy, the    *)
(* whole row is written.                                                   *)
Update(u, class) ==
  LET copy == call[u].copy
  IN /\ call[u].op = "update"
     /\ copy.status = "draft"
     /\ class # copy.class => call[u].empty
     /\ session' = [copy EXCEPT !.class = class]
     /\ Respond(u)
     /\ UNCHANGED <<attendanceVars, rosterVars>>

(* perform_destroy and SoftDeleteModel.delete up to its own query for      *)
(* records ...                                                             *)
CheckSessionDelete(u) ==
  /\ call[u].op = "destroy"
  /\ call[u].copy.status = "draft"
  /\ call[u].empty
  /\ Recorded = {}
  /\ call' = [call EXCEPT ![u].op = "delete"]
  /\ UNCHANGED <<session, attendanceVars, rosterVars>>

(* ... and the save of is_deleted. *)
Delete(u) ==
  /\ call[u].op = "delete"
  /\ session' = [session EXCEPT !.deleted = TRUE]
  /\ Respond(u)
  /\ UNCHANGED <<attendanceVars, rosterVars>>

(* The students app changes an enrollment: it ends before the date of the  *)
(* session, or its row is given another class.                             *)
ChangeRoster(e) ==
  /\ e \notin moved
  /\ Cardinality(moved) < MaxMoved
  /\ moved' = moved \cup {e}
  /\ \/ away' = away \cup {e} /\ UNCHANGED home
     \/ \E c \in Classes \ {home[e]} : home' = [home EXCEPT ![e] = c] /\ UNCHANGED away
  /\ UNCHANGED <<session, attendanceVars, call>>

BulkMarks == UNION {[es -> Markable] : es \in SUBSET Enrollments \ {{}}}

SessionNext ==
  \/ \E u \in Callers :
       \/ ReadSession(u)
       \/ \E e \in Enrollments : ReadRecord(u, e)
       \/ \E mark \in BulkMarks : BulkMark(u, mark)
       \/ \E s \in Markable : Correct(u, s)
       \/ \E files \in BOOLEAN : SubmitExcuse(u, files)
       \/ \E approved \in BOOLEAN : Review(u, approved)
       \/ Finalize(u)
       \/ Cancel(u)
       \/ \E c \in Classes : Update(u, c)
       \/ CheckSessionDelete(u)
       \/ Delete(u)
       \/ Refuse(u)
  \/ \E e \in Enrollments : ChangeRoster(e)

SessionSpec == SessionInit /\ [][SessionNext]_sessionVars

-----------------------------------------------------------------------------
(* What AttendanceRecord.clean asks of the status and the excuse. *)
CleanAccepts(r) ==
  /\ r.status = "present" => r.excuse = "not_required"
  /\ r.status = "excused" <=> r.excuse = "approved"
  /\ r.excuse \in {"pending", "rejected"} => r.status = "unexcused"

(* Whatever order corrections, submissions and reviews commit in, a record *)
(* is one its model's clean accepts, and an absence that counts as excused *)
(* has its evidence where the policy asks for it.                          *)
ExcuseIsCoherent ==
  \A e \in Recorded :
    /\ CleanAccepts(attendance[e])
    /\ attendance[e].excuse = "approved" /\ EvidenceRequired => e \in evidence

(* The revisions of a record are a complete account: one for each change   *)
(* after the first marking, each beginning where the one before it ended,  *)
(* the last ending at the record as it is.                                 *)
RevisionTrail ==
  \A e \in Recorded :
    LET h == history[e]
        n == Len(h)
    IN /\ attendance[e].revision = n + 1
       /\ \A i \in 1 .. n - 1 : h[i].after = h[i + 1].before
       /\ n > 0 => h[n].after = attendance[e]

(* A finalized session has a record for exactly the enrollments on its     *)
(* roster, leaving aside those the students app has changed; also when its *)
(* class was rewritten while records were being marked.                    *)
FinalizedIsComplete ==
  session.status = "finalized" =>
    \A e \in Enrollments \ moved : e \in Recorded <=> e \in Roster(session.class)

===============================================================================
