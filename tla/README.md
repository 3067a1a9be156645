# A TLA+ development of the hamamooz platform

The platform is a Django/DRF school administration backend (`src/Backend/hamamooz`)
with PostgreSQL, a Celery worker behind Redis and a browser front end. This
directory models the parts of the backend where several actors change the same
rows (web requests, Celery tasks, management commands, importers) and the
computations whose results several pages must agree on.

- [1. Inventory](#1-inventory)
- [2. Modules](#2-modules)
- [3. Runs](#3-runs)
- [4. Fairness](#4-fairness)
- [5. Proofs](#5-proofs)
- [6. Disagreements and surprises](#6-disagreements-and-surprises)
- [7. What is not modelled](#7-what-is-not-modelled)
- [8. Plan](#8-plan)

To repeat the checks, in this directory:

    tlc -workers 2 -config notification_delivery.cfg MCParentNotification
    tlapm Attendance_proofs.tla

for each run of section 3 and each module of proofs of section 5.

`PROJECT.json` lists every run with its module and its configuration, the lines
of source each definition stands for, and for each property a changed definition
(a plausible bug, named so in the module) under which the property fails.

## 1. Inventory

Paths are relative to `src/Backend/hamamooz/apps`. "Hard" names what makes a
component difficult to test; most of these points are in `PROJECT.json` under
`hazards`, each at its line.

### How the components interact

- Every request runs in autocommit mode: `ATOMIC_REQUESTS` is not set, so a view
  that reads an object and saves it later has done two transactions. Services
  decorated with `transaction.atomic` usually begin by locking their row
  (`select_for_update`) and looking at it again; views that save directly do not.
- `save()` without `update_fields` writes every column of the copy that was read.
- Celery runs two prefork processes (`docker-compose.yml:56`), acknowledges a
  message when it takes it and kills a task after `CELERY_TASK_TIME_LIMIT`.
  Most tasks are published with `transaction.on_commit`, so a process that dies
  after the commit publishes nothing. The beat schedule runs the evaluation of
  the attendance policies and the reconciliation of the risk signals every
  night. Nothing schedules the management commands: the operations manual asks
  for an external scheduler.
- The attendance app reads the enrollments of the students app (the roster) and
  schedules notifications and analytics runs; the importers write classes,
  students, enrollments and monthly evaluations; the reports app reads
  everything and writes its own rows; recommendations hang on risk signals, and
  counseling and guidance on enrollments and role assignments.

### Components

| Component | State | Operations | Hard | Correct when |
|---|---|---|---|---|
| Parent notification delivery (`attendance/notifications.py`, `tasks.py`, the dispatch command, `ParentNotificationViewSet.retry`) | `ParentNotification` row: status, attempts, next attempt, age; the queue | create and publish, claim, call of the gateway, record success or failure, retry by an operator, dispatch command | two workers with messages for one row; death after the claim; a gateway call that raises although the message was taken; the unlocked retry | bounded calls of the gateway, no unexplained duplicate, SENT and DEAD_LETTER mean what they say, every row settles |
| Import jobs (`imports/pipeline.py`, `views.py`, `tasks.py`) | `ImportJob` row with a partial unique constraint on the checksum of its upload; the queue | upload, claim, validate, apply, fail, task retries; preview, confirm, retry, cancel, PUT, DELETE | requests that write over a running job; a task queued before the confirmation; the constraint, which rows leave and enter; a PUT that replaces the file under the old checksum | a workbook is applied once, the outcome tells what was written |
| Workbook imports and the directory ingest (`imports/comprehensive*.py`, `direct_data_ingest.py`) | classes, students, enrollments, monthly evaluations; what a run of the ingest keeps in memory | validate, compare, apply, summarize; ingest file by file | rows that are closed, deleted, moved, of another school; a cache that outlives a rolled-back transaction; summaries put together from two sources, of which one is read without locks | an import can be repeated, tells the truth, enrolls whom it lists, leaves other schools alone |
| Source files and exams (`imports/data_directory.py`, `services/subject_exam.py`) | manifests, rows, conflicts, selections; exam results | scan, ingest, select a source | scans that overlap, die, or see files replaced under them; a workbook that is opened three times; rows written one transaction each | overlaps are flagged, no source is chosen by accident, exams are of one version and whole where they are said to be |
| Student photos (`imports/services/photo_importer.py`) | the photo of a student | import from the directory and archives | | section 7 |
| Enrollments and capacity (`students/services.py`, `organizations/views.py`, three importers) | `Enrollment` rows, `Student.status`, `ClassSection.capacity` | create, change class, transfer, change status, resize a class, imports | counts and inserts in different statements; locks taken one after the other; stale joined rows | no class is overbooked, a student's status follows the enrollments, closed rows stay closed |
| Attendance sessions and records (`attendance/services.py`, `views.py`) | `AttendanceSession`, `AttendanceRecord`, revisions, evidence | bulk marking, correct, submit and review an excuse, finalize, cancel, update, delete | two unlocked writers (update, delete) beside seven locked ones; the roster changes underneath | finalized means complete, excuses are coherent, revisions are a full account |
| Attendance policies and alerts (`attendance/services.py:453-822`) | `AttendancePolicy`, `AttendanceAlert`, notifications | edit and delete policies, evaluate, acknowledge, resolve, notify | evaluation against acknowledgement; policies that vanish under a task | what was seen is not raised again; alerts catch up with the attendance |
| Assessments and scores (`academics/`) | `Assessment`, `Score`, `ScoreRevision`, `SubjectResult`, `TermResult`; the queue of recalculations | update, delete, bulk entry of scores, submit, approve, reject, lock, correct a locked score, recalculate | entries and updates read before a submission; class and maximum that change although scores are there; recalculations that overlap, are lost, or are older than a correction | reviewed scores are complete and within the maximum they were entered under, results are those of the locked scores |
| Report drafts and release (`reports/views.py`, `reports/services.py`) | `ReportDraft`: status, overrides, archive; `ReportArchive` | edit, submit, approve, reject, render, release | every check is done on an unlocked copy; two renders of one draft | archives hold what was approved, completed archives are frozen |
| Report archives and batches (`reports/services.py`, `tasks.py`) | `ReportArchive`, its snapshot; `ReportBatch`, its items, the zip file | request, check readiness, build, render, fail; batch, retry, bulk release | a snapshot read in many transactions; a retried batch renders every item again; a killed worker | a card is one picture of the class; a batch tells the truth about its items |
| Monthly evaluations (`evaluations/`) | `MonthlyEvaluation`, `MetricScore` | manual entry, deletion; summaries, ranks, changes | rounding, gaps, zeros, unfinished months, two pages that compute for themselves, viewers who may see some classes only | the pages agree, more points never cost a place |
| Behavior and analytics (`behavior/`, `analytics/`) | `BehaviorEvent`, `StudentRiskSignal`; the queue of runs | record, transition, revise, update, delete; targeted, requested and nightly runs | runs that overlap; changes that schedule no run; lost tasks | one active signal per rule; signals catch up |
| Recommendations (`recommendations/`) | `Recommendation`, `RecommendationDecision` | generate, transition | generation against review; two reviewers | decisions form a trail; all audiences are served together |
| Counseling and guidance (`counseling/`, `guidance/`) | `CounselingCase`, `Referral`, `GuideTeacherAssignment` | move a case, send and accept a referral; assign, update, delete a guide | acceptance twice; stale updates | an accepted referral has one case |
| Accounts and permissions (`accounts/`) | `RoleAssignment` | assign, withdraw | roles that change between a check and a write | scopes are computed from the assignments |
| Organizations, terms, offerings | school structure | plain record editing; class capacity | capacity against enrollment | see enrollments |
| Soft deletion, audit log, envelope (`core/`) | `is_deleted` columns, audit rows | delete, restore, record | a full save of a stale copy restores a deleted row | see the components that depend on it |
| Activities | activity rows | record editing | one check (section 6) | |
| Student 360, dashboard, portal | none | read-only projections | staleness only | |
| Front end, deployment, data, outputs | none of the backend's | | | |

## 2. Modules

A component that is checked alone has its module and an MC module beside it,
which names the values that its configuration gives to the constants:

    ParentNotification (refines NotificationLifecycle), ImportJob, Enrollment,
    AttendanceSession, Assessment, AttendanceAlert, RiskSignal

Components that share rows, or a question, are composed:

    SchoolRecords <- WorkbookImport <- DirectIngest <- SchoolData    <- MCSchoolData
    DataDirectory <- SubjectExam <- SourceFiles                      <- MCSourceFiles
    Staff <- Guidance <- Counseling <-+
    Staff <- Recommendation <---------+-- Casework                   <- MCCasework
    ReportDraft, ReportBatch, ReportCard, EvaluationAnalytics <- Reports <- MCReports

Proofs are in modules of their own: `<Module>_proofs` beside `Enrollment`,
`SchoolData`, `Assessment`, `RiskSignal`, `Casework` and `Reports`;
`Attendance_proofs` about `AttendanceSession`, `AttendanceAlert` and
`ParentNotification`; `Imports_proofs` about `ImportJob` and `SourceFiles`.
`AttendanceSession`, `AttendanceAlert`, `SourceFiles` and `SchoolData` name their
specification after themselves (`SessionSpec`, `AlertsSpec`, `FilesSpec`,
`DataSpec`), so that one module can extend several.

In every module a step is as large as what the code makes atomic: a transaction
under a row lock is one step, and a read without a lock and the write that
follows it are two, with the copy that was read kept in a variable `request`
(`call` in `AttendanceSession`).
Variables marked *history* are not in the code: they remember the events a
property speaks of, and no guard reads them. Operators introduced as "Plausible
bug" belong to the changed definitions of `PROJECT.json` and are not used by any
action.

### Notifications and imports

**ParentNotification.** `status`, `attempts` and `next` are columns; `stale`
stands for the comparison of `updated_at` with the stale limit. `queue` counts
the messages for each notification and retry number, in no order. `Create` is
the transaction of `queue_record_parent_notifications` with its `on_commit`;
`IgnoreTask`, `BuryTask`, `ClaimTask` are the outcomes of
`_claim_notification`; `SendSucceeds` and `SendRaises` the call of the gateway,
which can raise after the message was taken; `RecordSent` is `mark_sent`, which
saves without a lock; `RecordFailure` the locked `except` branch with Celery's
retry; `RetryRead` and `RetryWrite` the operator's view; `DispatchCommand` the
management command. `Crash` and `LoseMessage` are faults. Celery's own retry
comes back after at most a second and finds `next_attempt_at` at least a minute
ahead, so it is ignored: second attempts hang on the dispatch command.

**NotificationLifecycle** is what a reader of the table is promised, without
queue, workers or time: pending until sent, skipped or given up; given up only
with every attempt used; pending again only through an operator.
`ParentNotification!ImplementsLifecycle` is that specification under a
refinement mapping: the three unsettled states are one phase, and `wild` is the
set of rows an operator retried while a worker had them.

**ImportJob.** `Upload` inserts a row and queues its task at once (that is what
`perform_create` does). `Claim`, `Apply`, `RecordFailure` and `Discard` are the
locked parts of `process_import_job`, `Raise` and `ReadError` what can happen
between them, `RetryTask` and `MarkFailed` the task's handling of `OSError`.
`Read` is `get_object` with the checks made on the copy; the second half of each
request writes whatever the row says by then. `Fits` is
`uq_active_import_file_scope`; a write it refuses fails with `IntegrityError`,
which each handler treats as the code does. A PUT is `Read`, `Validate`, which
looks for jobs of the new file's checksum, and `Save`, which writes the columns
that were read, `is_deleted` among them, and the new file. The checksum stays
that of the upload (`FileOf`), so that `file` and what the constraint goes by
part; `held` is the file a worker reads, that of the row it has claimed.
`Destroy` is refused while live evaluations point at the job, which those it
has written may or may not do by then: both answers are possible.

**SchoolRecords** holds the tables (`db`) that both readers of workbooks write,
with their unique indexes, the order of `updated_at` and the requests that move,
withdraw and enter records in between. A cell is what the parsers make of it: a
value, `Empty`, `Unreadable`, or for a score `NotANumber`, which Decimal accepts.
**WorkbookImport** is the pipeline of a comprehensive workbook: `Validated`
(`validate_flexible_hardened_comprehensive_workbook`, with the errors it finds),
`Applied` (`apply_comprehensive_workbook`, the fold of classes, students,
enrollments, evaluations with the counts it keeps), `Unchanged`
(`_snapshot_change_counts`, made before) and `Summary`, which combines them. Each
loop over the lines of a sheet is a fold with a name of its own
(`ApplyEnrollments`, say), whose step is the body of the loop. A job is
`Refuse`d, or is two steps, `Compare`, which reads without locks, and `Apply`,
whose rows are locked as they are written; other jobs, ingests and requests come
in between, and `compared` remembers which tables they wrote (`overtaken`). Of
two jobs with the same file for one school one is under way at a time, since it
takes a cancelled claim or a PUT to bring a second about (`ImportJob`).
**DirectIngest** is the command that reads a directory file by file: one
transaction each, with a memory that outlives them (`run.cache`); a row that
differs from what is there is an issue, and so is an evaluation when the run has
no user to record it for (`run.hasActor`). A class or student that was rolled
back with its file and is then made by an import under another id is taken for
the one in the memory. **SchoolData** interleaves imports, ingests and
requests. The workbooks themselves are a small choice of contents in
`MCSchoolData`, each made for a case of the readers.

**DataDirectory** is the scanner: `RegisterWorkbook`, `ReplaceRows`, `WriteRows`,
`SaveManifest` are the separate transactions for one file and
`RefreshConflicts` the one at the end; `ChangeFile` replaces or removes a file at
any time; `SelectSource` and `SourceOf` are the choice by a person and what a
report makes of it. **SubjectExam** is the rest of the ingest with the exam rows:
`RowErrors` and `Result` are the cell rules (kinds, ranges, decimals, integers,
formulas without a value), `DigestExam`, `OpenExam` and `ParseExam` the three
readings of a workbook, for its checksum, its cells and the values of its
formulas (`ExamRowsOf` puts the last two together), `RetireRows` and
`WriteResult` the transactions, `FinishExam` the status of the file. `torn`
remembers the checksums under which something else was read. **SourceFiles**
puts them together, with the phase of the photos as a step that changes nothing
else.

### Students, attendance and assessments

**Enrollment.** A request moves through the steps `row`, `class`, `check`,
`commit`: the locks it takes, the statement that decides and the commit that
makes it visible. `LockRow` is `_locked_enrollment`, whose joined student can be
older than the lock; `Allowed` is what each service refuses; `After` the rows it
leaves; `Desired` the decision of `_sync_student_status`. `Import*` are the
transactions of the comprehensive workbook and of the workbook of enrollments,
`Ingest` the data-directory ingest, and `IngestStudentOnly` the rows for which it
saves the student as ACTIVE and leaves the enrollments as they are, for one of
the reasons in `_upsert_enrollment`. Any request may roll back at any point,
which covers refusals, deadlocks that PostgreSQL breaks and dying processes.

**AttendanceSession.** One session, its records and their excuses. `BulkMark`,
`Correct`, `SubmitExcuse`, `Review`, `Finalize` and `Cancel` are the services of
`attendance/services.py`, each a locked transaction of one step which looks at
the row again; `Update` and the pair `CheckSessionDelete`, `Delete` are the two
view methods which do not lock. The class stands for everything that places a
session (school, year, class, term, date, period). `ChangeRoster` is the
students app: an enrollment that ended before the date of the session, or whose
row was given another class. `full_clean` of a record is split: its demand on
the class is a guard, its demands on status and excuse are the property
`ExcuseIsCoherent`, so that the run shows that no order of operations makes a
record its own model refuses.

**AttendanceAlert.** `Metrics`, `Percent`, `Reaches` and `Severity` are the
measures of one enrollment, in hundredths of a percent; the scopes are a day's
and a lesson's attendance. An evaluation takes a task (or is asked for by a
request), `Measure`s under the policy's lock, and `Judge`s: it resolves, updates
and creates alerts, and queues notifications by their dedupe keys. Policies are
created, saved from stale copies, and deleted after a look for alerts; records
change, guardians are made primary, the enrollment leaves. The notifications are
those that `ParentNotification` delivers; here they only are told or not.

**RiskSignal.** Behavior events and absences of one enrollment with the runs
derived from them. `Transition`, `Revise` and `Record` are locked services;
`Update` and `Destroy` save what was read. `Start` waits for the enrollment's
row, supersedes what is ACTIVE and evaluates; `Commit` shows the new signals;
`Raise`, `Crash` and `LoseTask` are what can go wrong; `Reconcile` is the nightly
task. Two of the seven rules stand for all: one that reads events and has one
severity, and one that reads absences and has two.

**Assessment.** One assessment and the results calculated from its scores; it
belongs to a class, or rather to the one offering of the class, and an edit may
give it another. `place` is where each enrollment is, and whether it has left. `Submit`, `Approve`, `Reject`, `Lock` and `Correct` are the services of
`academics/services.py`: each locks the row and looks at it again, so what its
view has read before has no effect, and it is one step. What does have an effect
is kept in `request`: the roster as the serializer of a bulk entry saw it, and
the copy that an `Update` saves as a whole or a deletion (`CheckBeforeDelete`,
`Delete`) relies on. `MayBecome` is what `AssessmentSerializer.validate` refuses:
fields outside DRAFT and REJECTED, and nothing else, since the check that scores
are there compares the new values with an instance that has them already
(section 6). `Update` may also leave every field as it is: a request
without a field passes `validate` in any status, and saves the row it has read.
`Start`, `ReadScores`, `WriteResult` and `Commit` are one recalculation,
begun by a task or by a report: it reads the scores of an enrollment, and
`update_or_create` then takes that enrollment's result row and holds it to the
end, so that another one waits there with what it has read before. `Fail` is its
rollback, with Celery's retry or without. `QueueRecalculation` is the
publication after the commit, which may be lost. The marks stand for the results
of an offering with this one assessment. An edit of its date is left out: it
redraws the roster as an edit of the class does.

### Reports

**ReportDraft.** `Read` and the actions named after the requests are the two
halves of `ReportDraftViewSet`; `StartRender`, `FinishRender` and `FailRender`
the two transactions of `render_report_draft` and its `except` branch;
`ReadArchive` and `Release` the release of an archive to the family.

**ReportBatch.** One batch: `BeginItem`, `CreateCard`, `CompleteCard`,
`CompleteItem`, `FailItem` are the writes for one item, `FinishBatch` the counts
and the zip file, `RetryBatch` the task's retry after an `OSError`, `LoseBatch` a
dead worker or a message never sent, `ReleaseBatch` the release of everything
that is complete by then.

**ReportCard.** How an official card, a class report or a draft of a class comes
by its content: `RequestReport` with the readiness check, then one action for
each query: the list of the class, the recalculation (`Recalculated`, with means
and dense ranks), the rank taken from a student who has left, the results, the
marks, the second list of `build_draft_snapshot`, the context. In between others
lock, correct and add assessments, enroll and withdraw students, and recalculate.

**EvaluationAnalytics.** The computations of `evaluations/services.py` as
operators: `RoundedMean` in hundredths, `DomainScore`, `Overall`, `OverallScore`,
`Trend`, `MonthlyChanges`, `DenseRanks`, a student's own page (`StudentRank`) and
the page of a class or the school (`Dashboard`) for the classes that the viewer
may see (`Cohort`, `Views`). `RecordMonth`, `DeleteMonth` and
`CloseEnrollment` reach the tables on which they are compared.

**Reports** joins the four. They share no row that one writes and another reads,
so each behaviour is about one of them (`about`), the others keeping their
simplest state; interleaving them would multiply states and add no behaviour.

### The staff

**Staff.** Role assignments, the checks made of them (`RolePermission`,
`user_has_role`, `accessible_school_ids`, `can_manage_role_assignment`) and their
changes; `request` holds what a request has read. **Guidance**: assignments of
guide teachers with an update that saves a stale copy, and the dates reduced to
where today lies. **Counseling**: `TransitionCase`, `SendReferral` and
`AcceptReferral`, with what was checked before the lock. **Recommendation**:
`CreateDraft` is one `get_or_create` of a generation, which commits as a whole
and waits where another one has inserted the same row; `Decide` is
`transition_recommendation`. **Casework** interleaves them, with requests that
die anywhere.

## 3. Runs

Twelve runs, of which one states a sentence of the documentation and is violated
(section 6).

| Run | Question | Bounds, and what they let happen |
|---|---|---|
| `notification_delivery` | Are the gateway's budget, the exclusive claim, duplicates, SENT, DEAD_LETTER, the settling of every row and the promised life cycle right? | Two notifications (one deliverable, one that is skipped), two workers, one operator with two retries, two attempts, one crash, one lost message: a second delivery after a lost answer, a crash between call and `mark_sent`, a retry written over a row in progress, giving up |
| `notification_stale_claim` | Is an expired claim taken up again? (violated) | One notification, one crash |
| `import_jobs` | Is a workbook applied once, by one worker at a time, and is the outcome true? | Two jobs of one file and a second file, two workers, two overlapping requests of three in all, one crash, one lost message, one task retry: a cancel and a retry around a running job, a PUT which restores a deleted one or gives it the other file |
| `school_data` | Can an import be repeated, does its summary tell the truth, are the listed enrolled, is another school left alone? | Two schools, classes, students and identities; seven workbooks; four operations (imports, ingests of up to three files, requests) on at most three rows of a kind: repeated and suffixed numbers, a full class, a class deleted and restored, a student who moved to the other school, a file that is rolled back between two others, a request or another import between a job's comparison and its upserts. What follows a refused job, more than two jobs at once, or more than one beside a run of the ingest is not followed (constraint `IsFollowed`); the schools are interchangeable (symmetry) |
| `source_files` | Are overlaps flagged, sources chosen by people only, exam results of one version and whole? | Two school workbooks with two versions each, one exam workbook with three, two scanners and an ingest, two scans and two changes of files, of which one at most while the second scan is under way (constraint `OneChangeAtOnce`): overlapping scans, death anywhere, a file replaced and put back, also between two readings of it, rows that do not fit their column |
| `enrollments` | Is any class overbooked, does the student's status follow, do closed rows stay closed? | Two families of behaviours (constraint `TwoFamilies`): one student, four classes (two of one school, one of another, one of the next year) and two days, in one request beside imports and an ingest, which may leave the enrollments as they are, or in two requests beside each other; and two students who compete for two classes of one seat in three overlapping requests, a resize and imports |
| `attendance_session` | Are excuses, revisions and finalized sessions right? | Two enrollments and two classes, two overlapping requests, three revision rows (submission, decision and one more), one enrollment changed by the students app |
| `attendance_alerts` | Is what was seen not raised again, and do alerts catch up? | Two policies, two records of one scope, thresholds by count and by percentage, two evaluations, three changes by requests and attendance |
| `assessment` | What do a submission, an approval and a lock say of the scores, and when are results those of the locked scores? | Two families of behaviours (constraint `OneConcern`): two overlapping requests beside the services, with two classes and either a student who moves or edits of the class and between two maxima of which one does not fit the score; and two recalculations with one waiting task, or one beside a request, while nobody moves and the maximum stays, one of another class only while scores may be entered. Scores are corrected with no request under way. States after a stale write are not extended, since the properties say nothing of them |
| `risk_signals` | Is a rule never active twice, and do signals catch up? | One event, absences of one enrollment, one request, two workers, four changes, one fault, one task retry |
| `reports` | Do archives hold what was approved, does a batch tell the truth, is a card one picture of the class, do the pages agree? | Drafts: two overlapping requests, two contents, two archives, one crash. Batches: three items, one retry, one death. Cards: three students of whom two share a last name, two assessments, two marks, two changes by others, one retry, of which a retry and both changes do not meet (constraint `LittleAtOnce`). Analytics: three students in two classes, three months, five forms (complete, with a zero, incomplete, not catalogued), three entries, viewers of each set of classes |
| `casework` | Do decisions form a trail, are audiences served together, has an accepted referral one case? | Five users with four roles, one configured school and one other, two overlapping requests, one guide assignment, one referral, two signals, five steps that begin a request or change something, the last of which ends the behaviour (constraint `EndsWithLastChange`) |

Properties, by what they rule out:

- *Exclusion.* `ClaimIsExclusive` (notifications, import jobs): a second worker
  on a row only after something overwrote its claim. `OneActivePerRule`.
- *At most once, and the truth about it.* `GatewayBudget`, `DuplicateNeedsCause`,
  `SentIsTruthful`, `DeadLetterIsExhausted`, `FileImportedOnce`,
  `OutcomeIsTruthful`, `ReimportChangesNothing`, `SummaryTellsTheTruth`,
  `BatchTellsTheTruth`, `OneCaseEach`, `AcknowledgedIsNotRaisedAgain`.
- *A decision stands.* `ClosedStaysClosed`, `ArchiveIsFrozen`, `DecisionTrail`.
- *Tables agree.* `RenderedAsApproved`, `NoClassOverbooked`,
  `StatusFollowsEnrollments`, `FinalizedIsComplete`, `RevisionTrail`,
  `ExcuseIsCoherent`, `ReviewedIsComplete`, `ResultIsCurrent`,
  `ListedAreEnrolled`, `ElsewhereIsUntouched`, `ExamsAreWhole`,
  `AudiencesServedTogether`.
- *What is read in pieces is one picture.* `CardIsTruthful`, `ContextIsOwn`,
  `OverlapIsFlagged`, `SourceIsChosen`.
- *Computations agree.* `PagesAgree` compares two computations of the code with
  each other and with reference definitions; `RaisingNeverLowers` is about
  rounding, zeros and ranks.
- *Something happens in the end.* `EveryNotificationSettles`, `SignalsCatchUp`,
  `AlertsCatchUp`.
- *Refinement.* `ImplementsLifecycle`.

The type invariants are proved (section 5); only the run `notification_delivery`
also checks one.

Several properties carry an exception such as `reopened`, `overwritten`,
`lateEdit`, `unsynced`, `staleWrite`, `overtaken`, `suspect`, `torn` or
`undisturbed`. Each is a
history variable set by an unlocked write that lands on a row which has changed
since it was read, by a recalculation that was lost or began beside another one,
by somebody who changes what is being read, or by a step of the code that section
6 names. The exception is what the code
really promises; the unconditional property is what the documents say, and
section 6 tells where they say it in so many words.

Deadlock is not checked where the bounds end a behaviour (every notification
settled, every request answered, a session deleted). The two runs with schedules
that never end, `risk_signals` and `attendance_alerts`, do check it.

Two actors of each kind are enough for the properties above because each is
about one row, or one class, and a pair of actors on it; the notification and
import runs have two rows so that a worker can leave one for the other. Where a
constraint divides a run into families, each family is closed under the actions
that its question is about, and what the two leave out between them is the
product of concerns that share no row. Symmetry is used only in runs without
liveness properties.

## 4. Fairness

Only what the system schedules itself is fair; requests, people, faults and
clocks of the outside are not.

- `notification_delivery`: weak fairness of each worker, of the clock
  (`BackoffElapses`, `ClaimGoesStale`) and of `DispatchCommand`, which the
  operations manual asks to be run periodically. The command's `--limit` is left
  out: a backlog beyond the limit is assumed to shrink. Weak fairness is enough,
  since a worker that can take a message stays able to until it does, and nobody
  else can disable what a worker has begun. `EveryNotificationSettles` allows one
  more outcome: a row that stays PROCESSING with an expired claim. That outcome
  is real (section 6).
- `risk_signals`: weak fairness of `Reconcile`, which the beat schedule publishes
  every night (`CELERY_BEAT_SCHEDULE` in `config/settings/base.py`), and of what
  a run does once it has its row (`Evaluate`, `Commit`); strong fairness of
  `Start`, which waits for the row of the enrollment that other runs take and
  give back, and of the taking of each kind of task, since the two workers may
  be busy with others again and again.
- `attendance_alerts`: the same shape. Weak fairness of `Beat` and of `Judge`,
  strong fairness of the taking of the nightly task and of `Measure`, which waits
  for the row of the policy.

Both of the latter properties say "once the sources are left alone": with events
that change for ever nothing can be current. Imports have no liveness property:
nothing publishes an import a second time, so that a lost message leaves its job
waiting, and without losses the property would only restate the fairness of the
worker.

## 5. Proofs

Every theorem is about the specification of its module for all values of its
constants: any number of rows, requests, workers and faults, and any bounds. The
invariants and action properties of the eleven passing runs are proved, except
for those named under "Only model-checked".

| Module | Theorem | Property |
|---|---|---|
| `Attendance_proofs` | `TypeCorrect` | `TypeOK` |
| | `ClaimExclusive` | `ClaimIsExclusive` |
| | `DuplicatesHaveACause` | `DuplicateNeedsCause` |
| | `SentTellsTheTruth` | `SentIsTruthful` |
| | `DeadLetterNeedsEveryAttempt` | `DeadLetterIsExhausted` |
| | `GatewayBudgetHolds` | `GatewayBudget` |
| | `LifecycleImplemented` | `ImplementsLifecycle` |
| | `AlertsTypeCorrect` | `AlertsTypeOK` |
| | `AcknowledgedIsNotRaised` | `AcknowledgedIsNotRaisedAgain` |
| | `SessionsTypeCorrect` | `SessionTypeOK` |
| | `ExcusesStayCoherent` | `ExcuseIsCoherent` |
| | `RevisionsAccountForEveryChange` | `RevisionTrail` |
| | `FinalizedStaysComplete` | `FinalizedIsComplete` |
| `Imports_proofs` | `TypeCorrect` | `TypeOK` |
| | `ClaimExclusive` | `ClaimIsExclusive` |
| | `ImportedOnce` | `FileImportedOnce` |
| | `OutcomeTellsTheTruth` | `OutcomeIsTruthful` |
| | `FilesInvariant` | the inductive invariant of the next three |
| | `OverlapsAreFlagged` | `OverlapIsFlagged` |
| | `SourcesAreChosen` | `SourceIsChosen` |
| | `ExamsStayWhole` | `ExamsAreWhole` |
| `SchoolData_proofs` | `RowsAreInvariant` | the inductive invariant of the next two |
| | `EveryListedIsEnrolled` | `ListedAreEnrolled` |
| | `NothingElsewhereIsTouched` | `ElsewhereIsUntouched` |
| `Enrollment_proofs` | `ClassesAreNotOverbooked` | `NoClassOverbooked` |
| | `ClosedIsFinal` | `ClosedStaysClosed` |
| | `StatusIsRight` | `StatusFollowsEnrollments` |
| `Assessment_proofs` | `TypeCorrect` | `TypeOK` |
| | `ReviewedStaysComplete` | `ReviewedIsComplete` |
| | `ResultsCatchUp` | `ResultIsCurrent` |
| `RiskSignal_proofs` | `TypeCorrect` | `TypeOK` |
| | `NoSignalIsDoubled` | `OneActivePerRule` |
| `Casework_proofs` | `OneCasePerAcceptedReferral` | `OneCaseEach` |
| | `DecisionsLeaveATrail` | `DecisionTrail` |
| | `AudiencesAreServedTogether` | `AudiencesServedTogether` |
| `Reports_proofs` | `WhatIsRenderedWasApproved` | `RenderedAsApproved` |
| | `ArchivesStayFrozen` | `ArchiveIsFrozen` |
| | `FinishedBatchIsTruthful` | `BatchTellsTheTruth` |
| | `ReportsTellOneStory` | `CardIsTruthful` |
| | `ContextStaysWithItsStudent` | `ContextIsOwn` |

The assumptions are the `ASSUME`s of the modules and no others: limits and
bounds are natural numbers; the sets whose elements are counted are finite
(workers, classes, attendance records, the students and assessments of a class;
a table is finite); a score is out of 20 and a surname is something that can be
ordered; the words that stand for "none" (`"nobody"`, `"nowhere"`, a blank
field) are not among the students, classes, files or users; of a school
workbook, that it has sheets of lines whose columns are the ones the model reads
(`IsWorkbook`), as many lines as one likes; and of an exam workbook, that its
rows have different numbers and that a checksum tells two contents of a file
apart (a digest of the whole file). In particular nothing is assumed of the
constraints that bound the runs (`TwoFamilies`, `OneConcern`, `OneMoves`,
`Asking`, `LittleAtOnce`, `OneChangeAtOnce`, `EndsWithLastChange`, `IsFollowed`): the proofs
are about all behaviours.

What follows is the inductive invariant of each module, and why the properties
need it.

**ParentNotification.** `IInv` strengthens the properties with four facts.
`TaskShape`: a busy worker has a message. `KnownRows`: messages, readers and
workers only know rows that exist, and a worker's row has an attempt. Without
it the refinement fails, since a message for a row that does not exist would
make one settle from nothing. `HolderIsFresh`: the row of a worker is PROCESSING
and fresh unless it was reopened; this is what makes a claim exclusive, because
a fresh PROCESSING row cannot be claimed. `DeliveredWasHanded`: a worker about to
write SENT has had the message taken. `ClaimIsExclusive`, `HolderIsFresh`,
`DeliveredWasHanded`, `SentIsTruthful` and `DuplicateNeedsCause` are only
inductive together: a claim is exclusive because the holder is fresh, it stays
fresh because nobody else writes the row, and a second delivery needs a row that
could be claimed although it had been handed over. `ClaimGoesStale` keeps
`HolderIsFresh` because its guard says that the time limit has ended every
worker on the row; that is where the relation between
`CELERY_TASK_TIME_LIMIT` and the stale limit enters.

`GatewayBudget` is proved by itself from the types: `BudgetQuiet` covers the
steps that start no call, `BudgetSpent` those that turn a call into an answer.
The refinement has one case for each action, and four lemmas (`PhaseSettled`,
`PhasePending`, `PhaseKept`, `PhaseOf`) about the mapping.

**AttendanceAlert.** The types are the invariant. They say of an evaluation that
has measured which policy it holds, and of the policies that only one is live. An
acknowledged alert is raised again only by a step that makes the sequence of
alerts longer, and only `Judge` does; what it appends, it appends at the end
(`OneIsAppended`), at most one alert for each scope, and none for a scope in which
it has found an active alert of that severity (`CreatedIsNew`, `JudgedIsLonger`).
An acknowledged alert is active, and finding and appending are one transaction.

**ImportJob.** The same argument for a claim (`HolderIsFresh`), with what the
outcome adds: a job that was applied stays COMPLETED and live (`AppliedStays`),
a request that has read COMPLETED is about a job that still is (`CompletedCopies`),
and a COMPLETED job has been applied or was begun by a worker (`CompletedHasRun`),
all of it for jobs that nobody has overwritten. `OneActiveJob` is the partial
unique constraint: it is kept because each write asks `Fits`, and it carries
`FileImportedOnce` from one job to two jobs uploaded with one file: if a file was
imported for both (`ImportedApplied`), both would be COMPLETED, live and rivals.
Of a job that holds another file than its upload the constraint says nothing,
and neither does the property.

**SourceFiles.** `DirectoryShape` is the shape of the tables; the part that
matters is that a scan at work on a file has recorded it and has rows of that
file only, so that rows are always of recorded files. `ScanIsComplete` is what a
scan that ran alone leaves: nobody scans, the open conflicts are the overlaps of
what is recorded, and no file of a class in conflict is simply VALID. A conflict
is made of four fields of the manifests and of the rows (`SameFields`,
`OverlapsFollow`), and of those nothing is written between two scans: the ingest
marks another field, replaced files are not looked at. Its beginning,
`RefreshConflictsKeeps`, is the one place where a cycle had to be excluded: the
manifests that turn to CONFLICT overlap as they did before. From there,
`OverlapIsFlagged` and `SourceIsChosen` are a matter of counting to two
(`TwoAreMany`, `ManyContains`). The exams need neither: `ExamInv` says that a
result comes from a row of the content its checksum is of (`ResultsShape`) and is
the only one of its key, that the live rows of a file agree on their checksum,
and of the file that is being written that its rows are those of that content
(`RowsOfChecksum`) and the ones before the next are there (`Writing`); all but
the agreement is said of checksums that are not `torn`. When the file is
finished, a live row has the checksum of the content,
hence is of this content, hence of one of its rows, which have all been written:
the two inclusions of `SummaryIsTrue`. Notes about the files before stay true
because a file is done once in a run (`Noted`), and the rows left by a run that
died do no harm because the next one to write the file retires them first.

**SchoolData.** `RowsInv` says three things about the table of enrollments: every
row has an id of its own, a student has at most one active row (the unique index
`uq_active_enrollment_student_year`), and of the rows that an ingest keeps in
memory (`IsMemory`) each is a row of the student it is kept for, whose id is no
other student's. The last is what the ingest hangs on. It saves a remembered row
over whatever the table holds by then, and its memory survives a file that was
rolled back, beside imports and requests that write the table meanwhile
(`MemoryStands`, `MemoryStandsBack`): without it an ingest could write one
student's row over another's. It does not follow that the row is as it was, and
`ElsewhereIsUntouched` excepts a row that was moved since (`IsRemembered`).

Imports and ingests are folds over sheets of any length. A recursive function is
known to exist only once that is shown, so `FoldsExist` shows it by induction on
the number of lines; from there every fold of the model has a trace, the tables
after each line (`ClassesAreTraced` and its nine companions), and a fact that
holds at the start of a trace and is kept by each line holds at its end
(`LastIsReached`). What each line keeps is proved once for each kind of line: of
an import, that rows are never removed nor given to another student (`Grown`),
that active rows of other schools stay (`ElsewhereStays`) and that the lines so
far have their one active row (`IsListed`), which later lines leave alone because
the validation lets no student through twice (`ValidStudentsDiffer`); of an
ingest, `HasRead`. The seats of a class need no count: `CheckCapacity` counts
them when all is written, and the evaluations that follow move nobody.

**Enrollment.** The locks: an enrollment that a request has locked is ACTIVE and
in nobody else's hands (`RowsInHand`), a class likewise (`ClassesInHand`), and a
request that has counted finds its seat still free when it commits
(`SeatIsKept`), since every other writer of the class but the ingest would need
its lock. `Written` says what a transaction may do to the table of enrollments,
so that the bodies of the four services and three importers are looked at once
and the counts of the classes are derived from it. For the status of a student,
`Outcome` is the set of records that a request will leave, wherever in the
table they are; `SeenIsCurrent` and `DecisionStands` say that what was read and
decided without a lock still describes it, for as long as no second transaction
about the student overlaps (`unsynced`). An ingest that leaves the enrollments as
they are makes the student ACTIVE, which is right for one who has an active
enrollment, and for one who has none at all nothing is asked.

**AttendanceSession.** A request for a record is about one that exists
(`RecordsInHand`: records are never deleted), and what was never marked has no
revision (`UnmarkedIsUnrevised`). One lemma about `Revised` and `Trail`
(`RecordsWritten`) stands for all services that write records. `FinalizedIsComplete`
needs nothing else: an update that was read earlier writes DRAFT back together
with what it had read.

**Assessment.** `ReviewedIsComplete` is `RosterIsReviewed` and `MaximumHolds`;
the latter also holds while scores are entered, of all scores but those that
were there when the maximum was lowered (`overtaken`), since what is entered
later is looked at under the lock. An enrollment that was never moved has
results in its own class only and is touched by recalculations of that class
only (`StrangersStayOut`). `ResultIsCurrent`
follows from `ResultsFollow`: while no recalculation of the assessment's class
waits, the result of each enrollment
is what its score gives, or the one recalculation that runs (`OneRuns`) has it
still to do, has read it as it is, or has written it. `WhoWrites` reduces the
services and the recalculation to what each may change.

**RiskSignal.** A run counts the signals when it evaluates and adds new ones
when it commits. `OneHolder`: the row of the enrollment has one holder.
`SeenIsAll`: what a run has counted is all there is. The latter is preserved only
because of the former, and `OneActivePerRule` because of the latter.

**Casework.** Rows are never removed, so the number that a request carries stays
that row's (`NamedIsThere`). Decisions and referrals are looked at again under
the lock; their accounts (`TrailInv`) need no more. A generation does build on
what it has found: `DraftsOf` says which drafts it has in hand and that each
audience it has passed has a row or a draft, `NoDraftIsShared` that two
generations never hold the same one, which is what the unique index does.

**Reports.** Each behaviour is about one of the parts, so each part has its own
invariant, and every step is a step of the part or leaves it alone
(`ReportsSteps`). Drafts: `ArchivesInHand` and `ReviewStands` (a request renders
an archive that nobody else renders; without a late edit, the content under
review is the one that was read). Batches: `CountedBehind` (what the task
counted is what is behind it, also after a retry that begins at the first item),
`ItemsHaveCards`, and `Totals`, from which `BatchTellsTheTruth` follows. Cards:
`CardInv` follows a build through its queries. The list is of the class and in
its order (`ListIsRead`), averages are those of the marks of the moment
(`AveragesAgree`), the ranks those of the results (`RanksFollow`), as long as
nothing of the kind was changed since the request; what others do is summed up
in `Aside`. Two facts about data are needed on the way, for classes of any size:
the sum of finitely many marks is an integer (`SumOfMarksIsAnInteger`), and two
lists of a class without shared last names are the same list (`ListsAgree`,
since a student's place is the number of last names up to his own). The first is
an induction; `NaturalsAreReached`, which `SchoolData` uses as well, obtains it
from the least element of a set of numbers, since the induction theorems of the
library take an operator.

Only model-checked:

- liveness (`EveryNotificationSettles`, `SignalsCatchUp`, `AlertsCatchUp`), which
  needs `ENABLED`: out of the prover's reach;
- `PagesAgree` and `RaisingNeverLowers`: sorting, folds and rounding over data of
  any size;
- `ReimportChangesNothing` and `SummaryTellsTheTruth` of `school_data`: they
  compare the counts that a pass over a workbook adds up with what the tables
  have become, which needs of every line of every sheet that no later line
  changes again what it wrote.

## 6. Disagreements and surprises

Shown by a run, with the quotation in `PROJECT.json`:

1. `notification_stale_claim`. The configuration manual describes the stale
   limit as the recovery of an expired claim. The dispatch command queues QUEUED
   and FAILED rows only, so the PROCESSING row of a worker that died has no
   message and stays as it is.

What follows was noticed while modelling and is part of the models, unless it
says otherwise, without a run of its own.

### Imports and files

- The runbook says that the claim prevents duplicates (`docs/13-RUNBOOK_FA.md:67`).
  Cancel writes over a job that a worker is running or has completed; retry then
  queues it and a second worker applies the workbook again. `overwritten` of
  `ImportJob` remembers it.
- A PUT replaces the workbook of a job while its checksum, which is read-only,
  stays that of the upload (`imports/serializers.py:64-84`): a job that failed
  can be given a file that is refused to every new job because it was imported
  already, and retried. `FileImportedOnce` says of two jobs that they do not import
  a file which both were uploaded with; of a file that came to a job by a PUT it
  only says that the job is applied once.
- An import whose worker died stays PROCESSING and cannot be retried, because
  the retry view accepts FAILED and CANCELLED only (`docs/04-API_FA.md:170`,
  `docs/13-RUNBOOK_FA.md:66`).
- Confirming an import runs four writers which write nothing
  (`IMPORT_ARCHITECTURE.md:20-22`), and the real import does not wait for the
  confirmation (`docs/IMPORT_SYSTEM.md:5`).
- A national id must have ten digits and is not padded
  (`docs/COMPREHENSIVE_IMPORT_AND_MANUAL_ENTRY_FA.md`, section 5): the pipeline
  pads nine (`imports/comprehensive_flexible.py:144-154`).
- Of two rows with one local code the last is used, without an error. A number
  that repeats is given a suffix, and the result is not compared again.
- A workbook that swaps two students' numbers is refused by the unique index,
  since it saves one after the other. One that changes the grade of a class
  leaves enrollments that it does not list with the old grade.
- What a workbook leaves unchanged is judged before the upserts and without locks
  (`imports/comprehensive_hardening.py:304`): a row that something else writes in
  between is reported as unchanged although it is overwritten, or as updated
  although it is not. `SummaryTellsTheTruth` excepts the counts of updated rows
  of a table, or, for evaluations, of one of two, that was written in between
  (`overtaken` of `WorkbookImport`); the counts of created rows are always right.
- An import that changes nothing else still makes itself the source of every
  evaluation it lists (`source_import_job` and `recorded_by`,
  `imports/comprehensive.py:774-777`). The model leaves these two columns out, so
  that `ReimportChangesNothing` is said without them.
- The ingest uses an active enrollment of another school as it is, and writes
  the evaluations of that student; and since it keeps rows in memory from file
  to file, it may write back a row that was moved or closed meanwhile, even over
  an active enrollment elsewhere. Both are the exceptions of `ElsewhereIsUntouched`.
- In the ingest, a deleted evaluation beside a live one of the same month may be
  the one that `.first()` finds; restoring it violates the unique index inside
  the transaction, and the file fails. A score of NaN or Infinity passes Decimal
  and raises in `int()`, with the same end. Rows made by a file that is rolled
  back stay in the memory, and a later file that refers to them fails at its
  commit.
- "Never an implicit last file" (`imports/data_directory.py:460`): while a rescan
  has deleted the rows of one of two files, a report names the other although
  the conflict is open, and one of a single INCOMPLETE or INVALID file is taken
  without a selection. `SourceIsChosen` speaks of what a complete scan
  that ran alone has left (`undisturbed`).
- A scan that dies after the reset leaves its manifest without rows, VALID until
  the next scan; a scan beside an ingest saves over the mark that the ingest has
  set. A file that was removed keeps its manifest.
- An exam workbook is digested (`imports/services/subject_exam.py:633`) and then
  opened twice. One that is replaced in between has rows of another content, or
  of two, saved under its checksum, and is called COMPLETED. When it comes back,
  the rows of the other content that it has no row of its own for stay live
  beside its own. `torn` remembers the checksum; the property still says of it
  that no rows of two checksums are shown.
- An exam workbook that goes away between the listing and its checksum ends the
  whole ingest. Rows that are INVALID but name a known student appear in reports.
  A t-score of nine digits passes the checks and does not fit its column.

### Enrollments, attendance, assessments

- Capacity is protected with `select_for_update`
  (`docs/02-ARCHITECTURE_FA.md:75`): the ingest of a data directory does not count
  seats (`imports/direct_data_ingest.py:554`). `NoClassOverbooked` speaks of
  behaviours without one.
- The ingest saves a student as ACTIVE before it looks at the class and the
  enrollment (`imports/direct_data_ingest.py:524`). When the class is not in the
  workbook, the number is taken or `full_clean` refuses, it notes "student_only"
  and commits, so that a student with closed enrollments only is ACTIVE. So is
  one whose enrollment the run remembers as active in another class after it was
  closed. `StatusFollowsEnrollments` excepts such a student.
- A change of class on the first day rewrites the enrollment instead of closing
  it (`docs/03-DATA_MODEL_FA.md:49`).
- A final session changes only through corrections, says the data model.
  `perform_update` looks for DRAFT on an unlocked copy and saves the whole row,
  so that a session finalized in between is a draft again.
- "A session that has records must be cancelled and cannot be deleted"
  (`attendance/views.py:126`): a bulk marking that was read before a deletion
  still writes, since it does not look at `is_deleted`, and a marking between
  the two halves of a deletion is not seen by it.
- "After records have been made, the scope and date of a session cannot be
  changed" (`attendance/serializers.py:166`): an update that found no records
  may be saved after they were made. Such a session cannot be finalized while
  its roster differs (`FinalizedIsComplete`), and its records can no longer be
  corrected, because `full_clean` refuses them.
- A policy deleted after the nightly task has listed it raises `DoesNotExist`
  under the lock, and the policies after it are not evaluated that night. The
  alerts of a deleted policy, and those of an enrollment that is no longer
  ACTIVE, are never resolved.
- The key of a summary to guardians names its dates and not what it counts, so
  that a summary asked for again returns the first one.
- "The structure of an assessment cannot be changed once scores are entered"
  (`academics/serializers.py:310`): `ScopedCleanSerializer.validate` has set the
  new values on the instance by then, so that nothing has changed when they are
  compared with it. One request lowers the maximum of a DRAFT below its scores,
  or gives it another class, and the assessment can be submitted, approved and
  locked with a score above the maximum, although validation controls it
  (`docs/03-DATA_MODEL_FA.md:84`). `ReviewedIsComplete` excepts the scores that
  were there when the maximum was lowered (`overtaken`); a new class is caught by
  the completeness check of the submission.
- Editing is blocked after the lock of an assessment
  (`docs/03-DATA_MODEL_FA.md:100`): an update that was read earlier can bring an
  assessment back to an earlier status. That is the exception `staleWrite` of
  `Assessment`.
- A report that recalculates while an assessment is locked or a score corrected
  can write the older result last, and nothing recalculates again; neither does
  anything when the task is lost. Both are the exception `suspect`.
- Voiding or revising a behavior event, correcting a record of absence and
  switching a rule schedule no analytics run; the signals stay wrong until the
  night.
- The retry view can make a notification that has been sent, or is being sent,
  QUEUED again (`docs/FIX_REPORT_2026-07-22_FA.md:26` lists duplicate prevention);
  `DuplicateNeedsCause` names it as one of its two causes.

### Reports

- The dashboard of the school calls its ranks those of the school (`rank_scope`),
  but ranks only the students in the classes that the viewer may see
  (`evaluations/views.py:223-234`), while a student's own page ranks over the
  whole school (`evaluations/services.py:323`). To a teacher the two pages show
  different ranks; `PagesAgree` says that those of the dashboard are in the same
  order and never worse.
- "Only a draft report may be edited" (`reports/views.py:375`): an edit that read
  DRAFT is saved after the submission, or after the approval. `lateEdit` of
  `ReportDraft` remembers it. Two reviewers of one draft both succeed, and the
  later write stands (`reports/views.py:412`); two renders of one approved draft
  make two archives (`reports/services.py:839-842`).
- A monthly archive requested by `POST /reports/` always ends FAILED, since the
  generation reads the term that such an archive does not have. It is not
  modelled.
- Only official cards are asked for readiness; drafts are not, and a batch is
  asked when it is requested, not when it is built.
- A student who has left has no rank on a card of his own, but keeps one in the
  report of the class; a recalculation by somebody else between the two
  statements puts it back on the card.
- A draft of a class puts two lists of it side by side that are ordered by the
  last name only (`reports/services.py:821`), so that of two students with one
  last name each may get the context of the other. `ContextIsOwn` excepts them.
- `REPORT_PROCESSING_TIMEOUT_MINUTES` lets a second task take over an archive,
  but nothing queues a second task; neither is a batch whose worker died ever
  taken up. Releasing a batch works in any status and releases what is complete
  by then. A retried batch renders everything again and leaves the archives of
  the first try behind, some of them perhaps released; the soft time limit
  counts as the failure of the item it hits (`reports/services.py:557`).

### The staff

- Creating a counseling case by the API always raises `TypeError`, because
  `assigned_counselor` is passed twice. Cases come from accepted referrals, or
  from outside the API; the model begins with one.
- A referral to a counselor of a school that is not configured can be accepted,
  and its case cannot be reached afterwards. The cases of a counselor whose role
  was withdrawn stay with him, and nobody can work on them.
- Once one audience's recommendation is under review, generating again raises
  `IntegrityError` for all of them until it is decided. Recommendations of a
  signal that was superseded stay.
- Whether a user may decide or accept is asked before the lock; roles withdrawn
  after that do not stop the request.
- A guide may see the records of an enrollment whose assignment is over, and an
  update with a stale copy reopens an assignment that was ended meanwhile.
- The audit entry of an update by `AuditedModelViewSet` (`core/viewsets.py:78`)
  reads "before" after `validate` of some serializers has set the new values on
  the instance, so that before and after are the same. For the same reason "a
  completed activity is immutable" (`activities/views.py:42`) refuses setting
  COMPLETED and lets a COMPLETED activity be changed. Neither is modelled.

## 7. What is not modelled

- Data whose shape no property depends on: texts, templates, times of arrival,
  presentation, rendering, files. Header matching in the importers is abstracted
  to what a workbook is found to say; what a cell becomes is modelled.
- Permissions, outside `Staff` and the case work: every request is taken as
  permitted at its read, and may be refused again later. Sign-in and tokens.
- Isolation below READ COMMITTED, and PostgreSQL itself: locks, unique
  constraints and rollbacks are modelled from how the code uses them.
- Celery's result backend and the audit log.
- `ATTENDANCE_ASYNC_NOTIFICATIONS = False`, a setting for development, in which
  notifications are sent inside the request.
- A second ingest beside the first: `docker-compose.yml` runs it once, before the
  server. Scans requested by people do overlap with it.
- Student photos: each is matched to a student by its name and saved by itself,
  and nothing derives from it.
- The date of an assessment, more than one offering of a class, and results
  averaged over several assessments.
- In `ReportCard`, dates of enrollment and more than one course; in
  `EvaluationAnalytics`, two versions of the catalogue in one month (which of
  them is read last is open in the code), and which metrics a month that is
  entered again after a deletion had before: any are allowed.
- Sessions, attachments, follow-ups and plans of counseling and guidance,
  activities, terms, grades and subjects, the templates of reports: rows that one
  request edits and nothing derives from.
- `imports/services.py`: importers of single sheets, which no request uses any
  more, and the parts of `comprehensive.py` (347-615) and
  `comprehensive_hardening.py` (100-170) that the flexible pipeline has
  superseded.
- Read-only projections (student 360, dashboard, portal), the front end and the
  deployment have no state of their own that several actors change.

## 8. Plan

The modules, their runs and the proofs planned for them are written. What could
be added is a proof of `ReimportChangesNothing`: that a second pass over a
workbook finds every line as the first one left it, by the traces of
`SchoolData_proofs`.
