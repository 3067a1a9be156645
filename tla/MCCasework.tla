----------------------------- MODULE MCCasework ------------------------------
(* One configured school and one other, in both of which the student is    *)
(* enrolled.                                                               *)
EXTENDS Casework, TLC

CONSTANTS admin, deputy, guideTeacher, counselor, receiver, besat, other, e1, e2, noSchool

MCUsers == {admin, deputy, guideTeacher, counselor, receiver}
MCSchoolOf == e1 :> besat @@ e2 :> other

Role(u, name, s) == [user |-> u, role |-> name, school |-> s]
MCFirstRoles ==
  {Role(admin, "organization_admin", noSchool),
   Role(deputy, "educational_deputy", besat),
   Role(guideTeacher, "guide_teacher", besat),
   Role(counselor, "counselor", besat),
   Role(receiver, "counselor", other)}
MCGrants ==
  {Role(guideTeacher, "guide_teacher", besat), Role(counselor, "counselor", besat)}
MCFirstCase == [enrollment |-> e1, counselor |-> counselor]

(* A behaviour ends with its last change: no request begins as that one,   *)
(* and none is still under way then.                                       *)
EndsWithLastChange == changes = MaxChanges => \A r \in Requests : request[r] = Idle

Symmetry == Permutations(Requests)
==============================================================================
