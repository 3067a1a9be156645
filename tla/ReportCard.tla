------------------------------ MODULE ReportCard ------------------------------
(***************************************************************************)
(* How an official report card comes by its content (reports): the request *)
(* and what it checks, the task that builds the snapshot from several      *)
(* tables, and the snapshot that a draft for a class is created with.      *)
(*                                                                         *)
(* A snapshot is built by many statements that share no transaction: the   *)
(* results are recalculated and committed, then read again, then the       *)
(* marks are read, then the evaluations, the behaviour and the rest (the   *)
(* context).  Marks, the class and its results may change in between.      *)
(* The class has one active course; one report is requested.               *)
(***************************************************************************)
EXTENDS Integers, Sequences, FiniteSets, FiniteSetsExt, SequencesExt

CONSTANTS
  Students,     \* enrollments of the class, of the past and to come
  Surname,      \* student.last_name, which lists of the class are ordered by
  Assessments,  \* assessments of the course
  Marks,        \* scores out of 20
  MaxChanges,   \* bound: changes made by others
  CardRetries   \* max_retries of generate_report_task

ASSUME CardAssumption ==
  /\ IsFiniteSet(Students) /\ IsFiniteSet(Assessments)
  /\ Surname \in [Students -> Nat]
  /\ Marks \subseteq 0 .. 20 /\ Marks # {}
  /\ MaxChanges \in Nat /\ CardRetries \in Nat

VARIABLES
  member,      \* each enrollment: to come, ACTIVE in the class, or left within the term
  assessment,  \* status of each Assessment, "absent" when there is none
  mark,        \* Score of each assessment and student, NoMark when not entered
  termResult,  \* TermResult rows
  report,      \* the ReportArchive, or ReportDraft, that was requested
  build,       \* the task or request that builds the snapshot
  since,       \* history: what was changed since the request
  changes      \* bound: counts the changes of others

cardVars == <<member, assessment, mark, termResult, report, build, since, changes>>

NoMark == -1
NoAverage == -1
Unranked == 0
Nobody == "nobody"
Kinds == {"student", "class", "draft"}

NoResult == [average |-> NoAverage, rank |-> Unranked]
NoBuild == [pc |-> "none", list |-> <<>>, tries |-> 0, reports |-> <<>>]

-----------------------------------------------------------------------------
(* Whoever was enrolled before the term ended and did not leave before it. *)
Members == {s \in Students : member[s] # "to come"}

(* The class as a query lists it: by last name, equal names in any order.  *)
ClassLists ==
  {q \in SetToSeqs(Members) :
     \A i, j \in DOMAIN q : i < j => Surname[q[i]] =< Surname[q[j]]}

Counting(s) ==
  {a \in Assessments : assessment[a] \in {"approved", "locked"} /\ mark[a][s] # NoMark}

(* calculate_enrollment_term, in hundredths; the mean of two is exact.     *)
AverageOf(s) ==
  LET as == Counting(s)
  IN  IF as = {} THEN NoAverage
      ELSE MapThenSumSet(LAMBDA a : 100 * mark[a][s], as) \div Cardinality(as)

(* recalculate_class_term, one transaction: the dense ranks of the class.  *)
Recalculated(rows) ==
  LET better(s) == {AverageOf(t) : t \in {u \in Members : AverageOf(u) > AverageOf(s)}}
  IN  [s \in Students |->
         IF s \notin Members THEN rows[s]
         ELSE [average |-> AverageOf(s),
               rank |-> IF AverageOf(s) = NoAverage THEN Unranked
                        ELSE 1 + Cardinality(better(s))]]

(* One assessment of the class is approved, perhaps locked, and the        *)
(* results are up to date.                                                 *)
CardInit ==
  /\ member \in [Students -> {"to come", "active", "left"}]
  /\ \E st \in {"approved", "locked"}, f \in [Members -> Marks] :
       LET a == CHOOSE b \in Assessments : TRUE IN
       /\ assessment = [[b \in Assessments |-> "absent"] EXCEPT ![a] = st]
       /\ mark = [b \in Assessments |-> [s \in Students |->
                     IF b = a /\ s \in Members THEN f[s] ELSE NoMark]]
  /\ termResult = Recalculated([s \in Students |-> NoResult])
  /\ report = [status |-> "absent", kind |-> "none", student |-> Nobody,
               active |-> TRUE, reports |-> <<>>]
  /\ build = NoBuild
  /\ since = {}
  /\ changes = 0

-----------------------------------------------------------------------------
(* validate_official_report_readiness: there are assessments, and all of   *)
(* them are locked; what is locked has a mark of everybody (Assessment).   *)
(* Plausible bug first: approved ones pass as well.                        *)
ReadyWhenApproved ==
  LET existing == {a \in Assessments : assessment[a] # "absent"}
  IN  existing # {} /\ \A a \in existing : assessment[a] \in {"approved", "locked"}

Ready ==
  LET existing == {a \in Assessments : assessment[a] # "absent"}
  IN  existing # {} /\ \A a \in existing : assessment[a] = "locked"

(* ReportArchiveViewSet.create and, for a draft of the class, which is not *)
(* asked to be ready and is built at once, ReportDraftViewSet.create.      *)
RequestReport(kind, s) ==
  /\ report.status = "absent"
  /\ kind = "student" <=> s # Nobody
  /\ s \in Members \cup {Nobody}
  /\ kind = "draft" \/ Ready
  /\ report' = [report EXCEPT !.status = "queued", !.kind = kind, !.student = s]
  /\ build' = [NoBuild EXCEPT !.pc = IF kind = "draft" THEN "list" ELSE "queued"]
  /\ UNCHANGED <<member, assessment, mark, termResult, since, changes>>

(* The first transaction of generate_report.  No other task is ever queued *)
(* for the archive, so that it is never found PROCESSING or COMPLETED.     *)
ClaimReport ==
  /\ build.pc = "queued"
  /\ report' = [report EXCEPT !.status = "processing",
                              !.active = report.kind = "student" =>
                                               member[report.student] = "active"]
  /\ build' = [build EXCEPT !.pc = IF report.kind = "student" THEN "recalculate" ELSE "list",
                            !.list = IF report.kind = "student" THEN <<report.student>> ELSE <<>>]
  /\ UNCHANGED <<member, assessment, mark, termResult, since, changes>>

ListClass ==
  /\ build.pc = "list"
  /\ \E q \in ClassLists : build' = [build EXCEPT !.pc = "recalculate", !.list = q]
  /\ UNCHANGED <<member, assessment, mark, termResult, report, since, changes>>

(* For a student who is not ACTIVE the class is left as it is, and a rank  *)
(* that he had is taken away by a statement of its own.                    *)
Recalculate ==
  /\ build.pc = "recalculate"
  /\ LET s == report.student
     IN  IF report.active
         THEN /\ termResult' = Recalculated(termResult)
              /\ build' = [build EXCEPT !.pc = "result"]
         ELSE /\ termResult' = [termResult EXCEPT ![s].average = AverageOf(s)]
              /\ build' = [build EXCEPT !.pc = IF termResult[s].rank = Unranked
                                               THEN "result" ELSE "unrank"]
  /\ UNCHANGED <<member, assessment, mark, report, since, changes>>

Unrank ==
  /\ build.pc = "unrank"
  /\ termResult' = [termResult EXCEPT ![report.student].rank = Unranked]
  /\ build' = [build EXCEPT !.pc = "result"]
  /\ UNCHANGED <<member, assessment, mark, report, since, changes>>

(* build_student_snapshot reads the results of the next student ...        *)
ReadResult ==
  /\ build.pc = "result" /\ Len(build.reports) < Len(build.list)
  /\ LET s == build.list[Len(build.reports) + 1]
     IN  build' = [build EXCEPT !.pc = "marks", !.reports = Append(@,
           [student |-> s, average |-> termResult[s].average, rank |-> termResult[s].rank,
            listed |-> NoAverage, locked |-> TRUE, about |-> Nobody])]
  /\ UNCHANGED <<member, assessment, mark, termResult, report, since, changes>>

(* ... and the marks they should come from.                                *)
ReadMarks ==
  /\ build.pc = "marks"
  /\ LET n == Len(build.reports)
         s == build.list[n]
     IN  build' = [build EXCEPT !.pc = "result",
                     !.reports[n].listed = AverageOf(s),
                     !.reports[n].locked = \A a \in Counting(s) : assessment[a] = "locked"]
  /\ UNCHANGED <<member, assessment, mark, termResult, report, since, changes>>

AllRead == build.pc = "result" /\ Len(build.reports) = Len(build.list)

Attach(q) ==
  build' = [build EXCEPT !.pc = "store", !.reports =
              [i \in DOMAIN @ |-> [@[i] EXCEPT !.about = q[i]]]]

(* Plausible bug: the second query of the class is not ordered.            *)
UnorderedLists == SetToSeqs(Members)
SecondLists == ClassLists

(* The context: of the student, or in build_draft_snapshot of a second     *)
(* list of the class, put beside the first; two lists of different length  *)
(* are an error (FailReport).  A class archive has none.                   *)
ReadContext ==
  /\ AllRead
  /\ CASE report.kind = "student" -> Attach(build.list)
       [] report.kind = "class"   -> build' = [build EXCEPT !.pc = "store"]
       [] report.kind = "draft"   -> \E q \in SecondLists :
                                       Len(q) = Len(build.list) /\ Attach(q)
  /\ UNCHANGED <<member, assessment, mark, termResult, report, since, changes>>

(* The file is rendered and stored and the archive completed, or the draft *)
(* is created.                                                             *)
StoreReport ==
  /\ build.pc = "store"
  /\ report' = [report EXCEPT !.status = "completed", !.reports = build.reports]
  /\ build' = NoBuild
  /\ UNCHANGED <<member, assessment, mark, termResult, since, changes>>

(* Any step fails.  The archive is FAILED and an OSError is tried again;   *)
(* a draft is not created.                                                 *)
FailReport ==
  /\ build.pc \notin {"none", "queued"}
  /\ report' = [report EXCEPT !.status = "failed", !.active = TRUE]
  /\ \/ build' = NoBuild
     \/ /\ report.kind # "draft" /\ build.tries < CardRetries
        /\ build' = [NoBuild EXCEPT !.pc = "queued", !.tries = build.tries + 1]
  /\ UNCHANGED <<member, assessment, mark, termResult, since, changes>>

(* The worker is killed or the message lost: the archive stays as it is.   *)
LoseReport ==
  /\ build.pc # "none"
  /\ build' = NoBuild
  /\ UNCHANGED <<member, assessment, mark, termResult, report, since, changes>>

-----------------------------------------------------------------------------
(* What others do, remembered from the request on.                         *)
Meanwhile(what) ==
  /\ changes < MaxChanges
  /\ changes' = changes + 1
  /\ since' = since \cup (IF report.status = "absent" THEN {} ELSE {what})
  /\ UNCHANGED <<report, build>>

AddAssessment(a) ==
  /\ assessment[a] = "absent"
  /\ assessment' = [assessment EXCEPT ![a] = "draft"]
  /\ Meanwhile("assessments")
  /\ UNCHANGED <<member, mark, termResult>>

(* The marks of the class are entered, submitted and approved.             *)
ApproveMarks(a) ==
  /\ assessment[a] = "draft"
  /\ assessment' = [assessment EXCEPT ![a] = "approved"]
  /\ \E f \in [{s \in Students : member[s] = "active"} -> Marks] :
       mark' = [mark EXCEPT ![a] = [s \in Students |->
                  IF member[s] = "active" THEN f[s] ELSE mark[a][s]]]
  /\ Meanwhile("marks")
  /\ UNCHANGED <<member, termResult>>

LockMarks(a) ==
  /\ assessment[a] = "approved"
  /\ assessment' = [assessment EXCEPT ![a] = "locked"]
  /\ Meanwhile("status")
  /\ UNCHANGED <<member, mark, termResult>>

CorrectMark(a, s, v) ==
  /\ assessment[a] = "locked" /\ mark[a][s] \notin {NoMark, v}
  /\ mark' = [mark EXCEPT ![a][s] = v]
  /\ Meanwhile("marks")
  /\ UNCHANGED <<member, assessment, termResult>>

JoinClass(s) ==
  /\ member[s] = "to come"
  /\ member' = [member EXCEPT ![s] = "active"]
  /\ Meanwhile("class")
  /\ UNCHANGED <<assessment, mark, termResult>>

LeaveClass(s) ==
  /\ member[s] = "active"
  /\ member' = [member EXCEPT ![s] = "left"]
  /\ Meanwhile("class")
  /\ UNCHANGED <<assessment, mark, termResult>>

(* Other reports, previews and corrections recalculate the class, or the   *)
(* one who has left.                                                       *)
OthersRecalculate ==
  /\ termResult' = Recalculated(termResult)
  /\ termResult' # termResult
  /\ Meanwhile("results")
  /\ UNCHANGED <<member, assessment, mark>>

OthersUnrank(s) ==
  /\ member[s] = "left"
  /\ termResult' = [termResult EXCEPT ![s] = [average |-> AverageOf(s), rank |-> Unranked]]
  /\ termResult' # termResult
  /\ Meanwhile("results")
  /\ UNCHANGED <<member, assessment, mark>>

CardNext ==
  \/ \E kind \in Kinds, s \in Students \cup {Nobody} : RequestReport(kind, s)
  \/ ClaimReport \/ ListClass \/ Recalculate \/ Unrank \/ ReadResult \/ ReadMarks
  \/ ReadContext \/ StoreReport \/ FailReport \/ LoseReport
  \/ \E a \in Assessments :
       \/ AddAssessment(a) \/ ApproveMarks(a) \/ LockMarks(a)
       \/ \E s \in Students, v \in Marks : CorrectMark(a, s, v)
  \/ \E s \in Students : JoinClass(s) \/ LeaveClass(s) \/ OthersUnrank(s)
  \/ OthersRecalculate

-----------------------------------------------------------------------------
(* A finished report is one picture of the class, although no transaction  *)
(* holds it together.  As long as nothing it depends on was changed after  *)
(* the request: the average of a student is that of the marks beside it,   *)
(* all of them locked; whoever had left has no rank on a card of his own;  *)
(* and the ranks of a class follow its averages.                           *)
CardIsTruthful ==
  report.status = "completed" =>
    \A i \in DOMAIN report.reports :
      LET r == report.reports[i] IN
      /\ "marks" \notin since => r.average = r.listed
      /\ report.kind # "draft" /\ "assessments" \notin since => r.locked
      /\ ~report.active /\ "results" \notin since => r.rank = Unranked
      /\ report.kind # "student" /\ since \cap {"marks", "results"} = {} =>
           \A j \in DOMAIN report.reports :
             r.rank < report.reports[j].rank /\ r.rank # Unranked =>
               r.average > report.reports[j].average

(* In a draft, what is told of a student's attendance, conduct and risks   *)
(* is about that student, unless the class changed while it was created or *)
(* two of the class share a last name.                                     *)
ContextIsOwn ==
  LET Shared == \E i, j \in DOMAIN report.reports :
        i # j /\ Surname[report.reports[i].student] = Surname[report.reports[j].student]
  IN  report.status = "completed" /\ report.kind # "class" =>
        \/ report.kind = "draft" /\ ("class" \in since \/ Shared)
        \/ \A i \in DOMAIN report.reports :
             report.reports[i].about = report.reports[i].student
===============================================================================
