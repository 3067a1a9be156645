------------------------------ MODULE Guidance -------------------------------
(***************************************************************************)
(* Guide teachers of enrollments (guidance).  An update saves every column *)
(* of the row its request has read, so that it may take back an end, or a  *)
(* deletion, that came in between.                                         *)
(*                                                                         *)
(* The dates of an assignment are kept as where today lies: before an open *)
(* assignment begins, within an open one, within one that has an end, or   *)
(* after it.  Follow-ups and action plans change nothing else and are left *)
(* out.                                                                    *)
(***************************************************************************)
EXTENDS Staff

CONSTANTS
  Enrollments,
  SchoolOf,  \* school of each enrollment
  Guides     \* guide assignments that can exist

ASSUME GuidanceAssumption == SchoolOf \in [Enrollments -> Schools]

VARIABLE guide  \* each GuideTeacherAssignment

Terms == {"planned", "open", "running", "over"}
NoAssignment == [deleted |-> TRUE]

GuidanceManagers ==
  {"organization_admin", "school_manager", "educational_deputy", "student_affairs_deputy"}

Live(g) == guide[g] # NoAssignment /\ ~guide[g].deleted
Endless(a) == a.term \in {"planned", "open"}

(* uq_active_guide_assignment_per_teacher_enrollment, for row g as a.      *)
UniqueGuide(g, a) ==
  Endless(a) =>
    \A h \in Guides \ {g} :
      (Live(h) /\ guide[h].teacher = a.teacher /\ guide[h].enrollment = a.enrollment)
        => ~Endless(guide[h])

(* What the serializer asks of a new or updated row: full_clean, and that  *)
(* the teacher holds the role in the school of the enrollment.             *)
ValidGuide(g, a) ==
  /\ [user |-> a.teacher, role |-> "guide_teacher", school |-> SchoolOf[a.enrollment]] \in roles
  /\ UniqueGuide(g, a)

(* guide_assignment_queryset(): managers see all of their school; a user   *)
(* sees what names them, whatever its dates and whatever roles they hold.  *)
GuideVisible(u, g) ==
  LET school == SchoolOf[guide[g].enrollment]
  IN  /\ Live(g) /\ school \in AccessibleSchools(u)
      /\ UserHasRole(u, GuidanceManagers, school) \/ guide[g].teacher = u

(* _guide_enrollment_ids(): for recommendations, the dates count ...       *)
CurrentGuide(u, e) ==
  \E g \in Guides :
    Live(g) /\ guide[g].teacher = u /\ guide[g].enrollment = e
      /\ guide[g].term \in {"open", "running"}

(* ... and for counseling the missing end, and the role in the school.     *)
OpenGuide(u, e) ==
  /\ [user |-> u, role |-> "guide_teacher", school |-> SchoolOf[e]] \in roles
  /\ \E g \in Guides :
       Live(g) /\ guide[g].teacher = u /\ guide[g].enrollment = e /\ Endless(guide[g])

AssignGuide(u, g, teacher, e, term) ==
  LET a == [teacher |-> teacher, enrollment |-> e, term |-> term, deleted |-> FALSE]
  IN  /\ Count
      /\ guide[g] = NoAssignment
      /\ Permitted(u, GuidanceManagers, SchoolOf[e]) /\ ValidGuide(g, a)
      /\ guide' = [guide EXCEPT ![g] = a]
      /\ UNCHANGED <<roles, request>>

(* get_object() and the serializer, on the copy that will be saved.        *)
BeginGuideUpdate(r, u, g, term) ==
  /\ Free(r)
  /\ Live(g)
  /\ GuideVisible(u, g) /\ Permitted(u, GuidanceManagers, SchoolOf[guide[g].enrollment])
  /\ LET copy == [guide[g] EXCEPT !.term = term]
     IN  ValidGuide(g, copy) /\ Begin(r, [op |-> "guide", id |-> g, copy |-> copy])
  /\ UNCHANGED guide

(* serializer.save(); the database refuses a second endless assignment.    *)
SaveGuide(r) ==
  /\ request[r].op = "guide"
  /\ guide' = [guide EXCEPT ![request[r].id] =
                 IF UniqueGuide(request[r].id, request[r].copy) THEN request[r].copy ELSE @]
  /\ Finish(r)

DeleteGuide(u, g) ==
  /\ Count
  /\ Live(g)
  /\ GuideVisible(u, g) /\ Permitted(u, GuidanceManagers, SchoolOf[guide[g].enrollment])
  /\ guide' = [guide EXCEPT ![g].deleted = TRUE]
  /\ UNCHANGED <<roles, request>>

(* Planned assignments begin and ending ones are over; a request under way *)
(* keeps the dates it has read.                                            *)
DayPasses ==
  LET Aged(a) == CASE a.term = "planned" -> [a EXCEPT !.term = "open"]
                   [] a.term = "running" -> [a EXCEPT !.term = "over"]
                   [] OTHER              -> a
  IN  /\ Count
      /\ guide' = [g \in Guides |-> IF guide[g] = NoAssignment THEN NoAssignment
                                    ELSE Aged(guide[g])]
      /\ guide' # guide
      /\ request' = [r \in Requests |->
                       IF request[r].op = "guide"
                       THEN [request[r] EXCEPT !.copy = Aged(@)] ELSE request[r]]
      /\ UNCHANGED roles

GuidanceInit == guide = [g \in Guides |-> NoAssignment]
GuidanceNext ==
  \/ \E u, t \in Users, g \in Guides, e \in Enrollments, term \in Terms :
       AssignGuide(u, g, t, e, term)
  \/ \E r \in Requests, u \in Users, g \in Guides, term \in Terms :
       BeginGuideUpdate(r, u, g, term)
  \/ \E r \in Requests : SaveGuide(r)
  \/ \E u \in Users, g \in Guides : DeleteGuide(u, g)
  \/ DayPasses
==============================================================================
