----------------------------- MODULE Counseling ------------------------------
(***************************************************************************)
(* Counseling cases and their referrals to another counselor (counseling). *)
(* A view looks whether the case is the requester's own; the service then  *)
(* locks the case, or the referral, and looks at its status again.         *)
(*                                                                         *)
(* A first case is there from the start: the create request names          *)
(* assigned_counselor twice and so never makes one.  Sessions, files,      *)
(* follow-ups and plans of a case are left out: nothing reads them.        *)
(***************************************************************************)
EXTENDS Guidance

CONSTANTS
  Blank,      \* no value
  FirstCase,  \* [enrollment, counselor] of the first case
  MaxReferrals  \* bound: referrals

ASSUME CounselingAssumption ==
  /\ FirstCase \in [enrollment : Enrollments, counselor : Users] /\ MaxReferrals \in Nat
  /\ Blank \notin Users \cup Nat

VARIABLES
  cases,     \* each CounselingCase, in the order of their creation
  referrals  \* each Referral

casesVars == <<cases, referrals>>

CaseTransitions ==
  [s \in {"draft", "active", "closed", "archived"} |->
     CASE s = "draft"  -> {"active", "archived"}
       [] s = "active" -> {"closed"}
       [] s = "closed" -> {"archived"}
       [] OTHER        -> {}]

(* opened and closed: whether opened_at and closed_at are set.    *)
NewCase(e, u, status) ==
  [enrollment |-> e, counselor |-> u, status |-> status,
   opened |-> status = "active", closed |-> FALSE]

SharedRoles == {"school_manager", "educational_deputy", "student_affairs_deputy"}
HasRole(u, wanted, s) == \E a \in roles : a.user = u /\ a.role \in wanted /\ a.school = s

(* can_read_private_case() *)
OwnCase(u, c) == c.counselor = u /\ HasRole(u, {"counselor"}, SchoolOf[c.enrollment])

(* shared_case_queryset() *)
CaseVisible(u, c) ==
  LET school == SchoolOf[c.enrollment]
  IN  /\ school \in AccessibleSchools(u)
      /\ HasRole(u, SharedRoles, school) \/ OwnCase(u, c) \/ OpenGuide(u, c.enrollment)

(* The counselor's request has found case i and may work on it.   *)
OpenCase(u, i) == i \in DOMAIN cases /\ CaseVisible(u, cases[i]) /\ OwnCase(u, cases[i])

BeginCaseTransition(r, u, i, target) ==
  /\ Free(r)
  /\ OpenCase(u, i)
  /\ Begin(r, [op |-> "case", id |-> i, target |-> target])
  /\ UNCHANGED <<guide, casesVars>>

(* transition_case() *)
TransitionCase(r) ==
  LET i == request[r].id
      target == request[r].target
  IN  /\ request[r].op = "case"
      /\ cases' = IF target \notin CaseTransitions[cases[i].status] THEN cases
                  ELSE [cases EXCEPT ![i].status = target,
                                     ![i].opened = @ \/ target = "active",
                                     ![i].closed = @ \/ target \in {"closed", "archived"}]
      /\ Finish(r)
      /\ UNCHANGED <<guide, referrals>>

(* The status of the case is not asked; the target must be a counselor of  *)
(* the school of the student's other enrollment.                           *)
BeginReferral(r, u, i, e, counselor) ==
  /\ Free(r)
  /\ OpenCase(u, i)
  /\ HasRole(counselor, {"counselor"}, SchoolOf[e])
  /\ Begin(r, [op |-> "refer", id |-> i, enrollment |-> e, counselor |-> counselor])
  /\ UNCHANGED <<guide, casesVars>>

SendReferral(r) ==
  /\ request[r].op = "refer"
  /\ Len(referrals) < MaxReferrals
  /\ referrals' = Append(referrals,
       [source |-> request[r].id, enrollment |-> request[r].enrollment,
        counselor |-> request[r].counselor, status |-> "sent", accepted |-> Blank])
  /\ Finish(r)
  /\ UNCHANGED <<guide, cases>>

(* The inbox holds what names the user as target, whatever their role now. *)
BeginAccept(r, u, i) ==
  /\ Free(r)
  /\ i \in DOMAIN referrals /\ referrals[i].counselor = u
  /\ Begin(r, [op |-> "accept", id |-> i, user |-> u])
  /\ UNCHANGED <<guide, casesVars>>

(* Plausible bug: the locked row is not asked for its status.              *)
AnyStatus(i, u) == referrals[i].counselor = u

(* accept_referral(): whether the locked row lets it go on        *)
StillSent(i, u) == referrals[i].status = "sent" /\ referrals[i].counselor = u

AcceptReferral(r) ==
  LET i == request[r].id
      u == request[r].user
  IN  /\ request[r].op = "accept"
      /\ IF StillSent(i, u)
         THEN /\ cases' = Append(cases, NewCase(referrals[i].enrollment, u, "active"))
              /\ referrals' = [referrals EXCEPT ![i].status = "accepted",
                                                ![i].accepted = Len(cases')]
         ELSE UNCHANGED casesVars
      /\ Finish(r)
      /\ UNCHANGED guide

CounselingInit ==
  /\ cases = <<NewCase(FirstCase.enrollment, FirstCase.counselor, "draft")>>
  /\ referrals = <<>>
CounselingNext ==
  \/ \E r \in Requests, u \in Users, i \in DOMAIN cases :
       \/ \E target \in DOMAIN CaseTransitions : BeginCaseTransition(r, u, i, target)
       \/ \E e \in Enrollments, t \in Users : BeginReferral(r, u, i, e, t)
  \/ \E r \in Requests, u \in Users, i \in DOMAIN referrals : BeginAccept(r, u, i)
  \/ \E r \in Requests : TransitionCase(r) \/ SendReferral(r) \/ AcceptReferral(r)

-----------------------------------------------------------------------------
(* A referral and the case its acceptance opens belong together: accepted  *)
(* once, whatever number of accept requests is under way, it has one case, *)
(* of its target counselor and enrollment, that belongs to no other        *)
(* referral; and nothing else opens a case.                                *)
OneCaseEach ==
  LET Accepted == {i \in DOMAIN referrals : referrals[i].status = "accepted"}
  IN  /\ \A i \in DOMAIN referrals :
           (referrals[i].accepted = Blank) = (i \notin Accepted)
      /\ \A i \in Accepted :
           LET c == referrals[i].accepted
           IN  /\ c \in DOMAIN cases
               /\ cases[c].counselor = referrals[i].counselor
               /\ cases[c].enrollment = referrals[i].enrollment
               /\ \A j \in Accepted \ {i} : referrals[j].accepted # c
      /\ Len(cases) = 1 + Cardinality(Accepted)
==============================================================================
