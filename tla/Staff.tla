-------------------------------- MODULE Staff --------------------------------
(***************************************************************************)
(* The staff of the schools: who holds which role where, what the role     *)
(* checks of a request make of it, and the assignment of roles (accounts). *)
(*                                                                         *)
(* A request names its school in the X-School-ID header, and the schools   *)
(* that can be worked in are fixed by configured_besat_ids().  All schools *)
(* belong to one organization.                                             *)
(*                                                                         *)
(* `request' and the bound `changes' are shared by the modules of the      *)
(* casework: a request of theirs that reads, decides and writes later is   *)
(* held there in between.                                                  *)
(***************************************************************************)
EXTENDS Integers, FiniteSets, Sequences

CONSTANTS
  Users,
  Schools,
  Configured,   \* schools that configured_besat_ids() returns
  NoSchool,     \* scope of a role of the whole organization or system
  Grants,       \* bound: the role assignments that are given and withdrawn
  FirstRoles,   \* role assignments at the start
  Requests,     \* requests under way at the same time
  MaxChanges    \* bound: requests that begin, roles and days that change

Roles ==
  {"system_admin", "organization_admin", "school_manager", "educational_deputy",
   "student_affairs_deputy", "operator", "counselor", "guide_teacher"}
RoleAssignments == [user : Users, role : Roles, school : Schools \cup {NoSchool}]

(* RoleAssignment.clean *)
WellScoped(a) == (a.school = NoSchool) = (a.role \in {"system_admin", "organization_admin"})

ASSUME StaffAssumption ==
  /\ Configured \subseteq Schools /\ NoSchool \notin Schools
  /\ Grants \cup FirstRoles \subseteq RoleAssignments
  /\ \A a \in Grants \cup FirstRoles : WellScoped(a)
  /\ MaxChanges \in Nat

VARIABLES
  roles,    \* active role assignments
  request,  \* what each request has read and will do
  changes   \* bound

Idle == [op |-> "none"]

IsSystemAdmin(u) == \E a \in roles : a.user = u /\ a.role = "system_admin"

(* Whether u holds one of the wanted roles for school s, or is an          *)
(* administrator of the organization if that is wanted.                    *)
HoldsAt(u, wanted, s) ==
  \E a \in roles :
    /\ a.user = u /\ a.role \in wanted
    /\ a.school = s \/ a.role = "organization_admin"

(* accessible_school_ids(), which selected_school_ids() returns            *)
AccessibleSchools(u) ==
  IF IsSystemAdmin(u) THEN Configured
  ELSE {s \in Configured : HoldsAt(u, Roles, s)}

UserHasRole(u, wanted, s) ==
  IsSystemAdmin(u) \/ (s \in Configured /\ HoldsAt(u, wanted, s))

(* RolePermission, for an action that wants a role in the school s of the  *)
(* header and of the object it touches.                                    *)
Permitted(u, wanted, s) == s \in AccessibleSchools(u) /\ UserHasRole(u, wanted, s)

(* allowed_class_ids_for_roles(): schools all of whose classes u may see;  *)
(* a teacher's own classes are left out.                                   *)
BroadRoles == {"organization_admin", "school_manager", "educational_deputy", "operator"}
ClassesAllowed(u, s, additional) ==
  /\ s \in AccessibleSchools(u)
  /\ IsSystemAdmin(u) \/ HoldsAt(u, BroadRoles, s) \/ UserHasRole(u, additional, s)

AdminRoles == {"system_admin", "organization_admin", "school_manager"}
IsOrganizationAdmin(u) ==
  IsSystemAdmin(u) \/ \E a \in roles : a.user = u /\ a.role = "organization_admin"

(* can_manage_role_assignment() *)
CanManage(u, a) ==
  CASE IsSystemAdmin(u)               -> TRUE
    [] a.role = "system_admin"        -> FALSE
    [] a.role = "organization_admin"  -> IsOrganizationAdmin(u)
    [] OTHER -> UserHasRole(u, {"organization_admin", "school_manager"}, a.school)

(* RoleAssignmentSerializer.validate, for a new assignment                 *)
MayAssign(u, a) ==
  /\ a.school # NoSchool => a.school \in AccessibleSchools(u)
  /\ a.role = "system_admin" => IsSystemAdmin(u)
  /\ a.role \in {"organization_admin", "school_manager"} => IsOrganizationAdmin(u)

(* The school in whose name an administrator works on an assignment.       *)
InScope(u, a) ==
  \/ IsSystemAdmin(u)
  \/ \E s \in Configured :
       a.school \in {s, NoSchool} /\ Permitted(u, AdminRoles, s)

Count == changes < MaxChanges /\ changes' = changes + 1

AssignRole(u, a) ==
  /\ Count
  /\ a \notin roles /\ InScope(u, a) /\ MayAssign(u, a)
  /\ roles' = roles \cup {a}
  /\ UNCHANGED request

(* is_active is set to false, or the assignment is deleted.                *)
WithdrawRole(u, a) ==
  /\ Count
  /\ a \in roles /\ InScope(u, a) /\ CanManage(u, a)
  /\ roles' = roles \ {a}
  /\ UNCHANGED request

(* A request r of user u reads, checks what it was sent, and goes on.      *)
Free(r) == changes < MaxChanges /\ request[r] = Idle
Begin(r, next) ==
  /\ Free(r) /\ Count
  /\ request' = [request EXCEPT ![r] = next]
  /\ UNCHANGED roles

Finish(r) ==
  /\ request' = [request EXCEPT ![r] = Idle]
  /\ UNCHANGED <<roles, changes>>

StaffInit == roles = FirstRoles /\ request = [r \in Requests |-> Idle] /\ changes = 0
StaffNext ==
  \E u \in Users, a \in Grants : AssignRole(u, a) \/ WithdrawRole(u, a)
==============================================================================
