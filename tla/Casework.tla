------------------------------- MODULE Casework ------------------------------
(***************************************************************************)
(* The work of the staff on single students: roles, guide teachers,        *)
(* counseling cases and recommendations, in requests that overlap.         *)
(***************************************************************************)
EXTENDS Recommendation

vars == <<roles, request, changes, guide, cases, referrals, signals, active, recs>>

(* A web process dies, or its transaction fails.                           *)
Abandon(r) ==
  /\ request[r] # Idle
  /\ Finish(r)
  /\ UNCHANGED <<guide, casesVars, recVars>>

Init == StaffInit /\ GuidanceInit /\ CounselingInit /\ RecommendationInit

Next ==
  \/ StaffNext /\ UNCHANGED <<guide, casesVars, recVars>>
  \/ GuidanceNext /\ UNCHANGED <<casesVars, recVars>>
  \/ CounselingNext /\ UNCHANGED recVars
  \/ RecommendationNext
  \/ \E r \in Requests : Abandon(r)

Spec == Init /\ [][Next]_vars
==============================================================================
