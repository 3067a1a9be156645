--------------------------- MODULE Recommendation ----------------------------
(***************************************************************************)
(* Recommendations derived from a risk signal, one for each audience, and  *)
(* the decisions that reviewers take on them (recommendations).            *)
(*                                                                         *)
(* Generation is one transaction that gets or creates the draft of one     *)
(* audience after the other; its rows are seen by others when it commits,  *)
(* and the unique index makes a second insert of the same row wait for it. *)
(* A transition is authorized on what its view reads and then decided on   *)
(* the locked row.                                                         *)
(*                                                                         *)
(* A run of the rules supersedes the signal of an enrollment and makes a   *)
(* new one (see RiskSignal), so signals are numbered and the last of them  *)
(* may be ACTIVE.  They all are of one rule, which calls for               *)
(* recommendations, and of one enrollment.                                 *)
(***************************************************************************)
EXTENDS Counseling

CONSTANTS
  SignalEnrollment,
  MaxSignals  \* bound: signals

VARIABLES
  signals,  \* number of signals, whose last is ACTIVE if `active'
  active,
  recs      \* each committed Recommendation

recVars == <<signals, active, recs>>

Audiences == <<"guide_teacher", "educational_deputy">>

Transitions ==
  [s \in {"draft", "pending_review", "approved", "rejected", "dismissed", "expired",
          "superseded"} |->
     CASE s = "draft"          -> {"pending_review", "superseded"}
       [] s = "pending_review" -> {"approved", "rejected"}
       [] s = "approved"       -> {"dismissed", "expired", "superseded"}
       [] s = "rejected"       -> {"superseded"}
       [] OTHER                -> {}]
Statuses == DOMAIN Transitions
Current == {"draft", "pending_review", "approved"}

NewRec(signal, audience) ==
  [signal |-> signal, audience |-> audience, status |-> "draft", reviewer |-> Blank,
   decisions |-> <<>>]

Matches(rec, signal, audience) == rec.signal = signal /\ rec.audience = audience

Reviewers ==
  {"organization_admin", "school_manager", "educational_deputy", "student_affairs_deputy"}
TransitionCandidates == Reviewers \cup {"counselor", "guide_teacher"}

(* _direct_broad_school_ids(); the school of a system administrator is not *)
(* among them.                                                             *)
IsReviewer(u, s) == HoldsAt(u, Reviewers, s)

(* visible_recommendations_queryset(), for the two audiences      *)
RecVisible(u, audience) ==
  LET school == SchoolOf[SignalEnrollment]
  IN  /\ school \in AccessibleSchools(u)
      /\ \/ IsSystemAdmin(u) \/ IsReviewer(u, school)
         \/ audience = "guide_teacher" /\ CurrentGuide(u, SignalEnrollment)

CanTransition(u, audience) ==
  LET school == SchoolOf[SignalEnrollment]
  IN  /\ RecVisible(u, audience)
      /\ \/ IsReviewer(u, school)
         \/ IF audience = "guide_teacher" THEN CurrentGuide(u, SignalEnrollment)
            ELSE IsSystemAdmin(u)

(* run_school_analytics: the signal is superseded, and comes anew if its   *)
(* rule still finds something.                                             *)
RunRules(found) ==
  /\ Count
  /\ found \/ active
  /\ found => signals < MaxSignals
  /\ active' = found
  /\ signals' = IF found THEN signals + 1 ELSE signals
  /\ UNCHANGED <<roles, request, guide, casesVars, recs>>

(* The view reads the ACTIVE signal, which is not locked.         *)
BeginGeneration(r, u) ==
  LET school == SchoolOf[SignalEnrollment]
  IN  /\ Free(r) /\ active
      /\ Permitted(u, Reviewers, school)
      /\ ClassesAllowed(u, school, {"student_affairs_deputy"})
      /\ Begin(r, [op |-> "generate", signal |-> signals, made |-> <<>>, next |-> 1])
      /\ UNCHANGED <<guide, casesVars, recVars>>

(* get_or_create of the next audience's draft                     *)
Generating(r) == request[r].op = "generate" /\ request[r].next <= Len(Audiences)
Draft(r) == NewRec(request[r].signal, Audiences[request[r].next])
InsertedElsewhere(r) ==
  \E q \in Requests \ {r} :
    /\ request[q].op = "generate"
    /\ Draft(r) \in {request[q].made[k] : k \in DOMAIN request[q].made}
Existing(r) ==
  {i \in DOMAIN recs :
     /\ Matches(recs[i], request[r].signal, Audiences[request[r].next])
     /\ recs[i].status \in Current}

GetDraft(r) ==
  /\ Generating(r)
  /\ \E i \in Existing(r) : recs[i].status = "draft"
  /\ request' = [request EXCEPT ![r].next = @ + 1]
  /\ UNCHANGED <<roles, changes, guide, casesVars, recVars>>

(* Plausible bug: the row of each audience is committed on its own.        *)
CreateDraftAtOnce(r) ==
  /\ Generating(r) /\ Existing(r) = {}
  /\ recs' = Append(recs, Draft(r))
  /\ request' = [request EXCEPT ![r].next = @ + 1]
  /\ UNCHANGED <<roles, changes, guide, casesVars, signals, active>>

CreateDraft(r) ==
  /\ Generating(r) /\ ~InsertedElsewhere(r) /\ Existing(r) = {}
  /\ request' = [request EXCEPT ![r].next = @ + 1, ![r].made = Append(@, Draft(r))]
  /\ UNCHANGED <<roles, changes, guide, casesVars, recVars>>

(* One that is under review or approved is not found as a draft, and the   *)
(* index refuses a second: IntegrityError, and nothing is committed.       *)
RefuseDraft(r) ==
  /\ Generating(r) /\ ~InsertedElsewhere(r)
  /\ \E i \in Existing(r) : recs[i].status # "draft"
  /\ Finish(r)
  /\ UNCHANGED <<guide, casesVars, recVars>>

CommitGeneration(r) ==
  /\ request[r].op = "generate" /\ request[r].next > Len(Audiences)
  /\ recs' = recs \o request[r].made
  /\ Finish(r)
  /\ UNCHANGED <<guide, casesVars, signals, active>>

BeginDecision(r, u, i, target, text) ==
  /\ Free(r) /\ i \in DOMAIN recs
  /\ Permitted(u, TransitionCandidates, SchoolOf[SignalEnrollment])
  /\ CanTransition(u, recs[i].audience)
  /\ Begin(r, [op |-> "decide", id |-> i, target |-> target, text |-> text, user |-> u])
  /\ UNCHANGED <<guide, casesVars, recVars>>

(* Plausible bug: a decision that was taken already is taken again.        *)
MayDecideAgain(rec, target, text) ==
  rec.status = target \/ (target \in Transitions[rec.status] /\ (target = "approved" => text))

(* transition_recommendation()                                    *)
MayDecide(rec, target, text) ==
  target \in Transitions[rec.status] /\ (target = "approved" => text)
Decided(rec, target, u) ==
  [rec EXCEPT !.status = target,
              !.reviewer = IF target = "approved" THEN u ELSE @,
              !.decisions = Append(@, [from |-> rec.status, to |-> target, by |-> u])]

Decide(r) ==
  LET i == request[r].id
      target == request[r].target
  IN  /\ request[r].op = "decide"
      /\ recs' = IF MayDecide(recs[i], target, request[r].text)
                 THEN [recs EXCEPT ![i] = Decided(@, target, request[r].user)] ELSE recs
      /\ Finish(r)
      /\ UNCHANGED <<guide, casesVars, signals, active>>

RecommendationInit == signals = 1 /\ active = TRUE /\ recs = <<>>
RecommendationNext ==
  \/ \E found \in BOOLEAN : RunRules(found)
  \/ \E r \in Requests, u \in Users :
       \/ BeginGeneration(r, u)
       \/ \E i \in DOMAIN recs, target \in Statuses,
            text \in BOOLEAN :
            BeginDecision(r, u, i, target, text)
  \/ \E r \in Requests :
       GetDraft(r) \/ CreateDraft(r) \/ RefuseDraft(r) \/ CommitGeneration(r) \/ Decide(r)

-----------------------------------------------------------------------------
(* The decisions recorded for a recommendation lead from its draft to its  *)
(* status without a gap, each an allowed move from the one before it, also *)
(* when two reviewers decide at the same time; and its reviewer is the one *)
(* who decided to approve it.                                              *)
DecisionTrail ==
  \A i \in DOMAIN recs :
    LET rec == recs[i]
        From(k) == IF k = 0 THEN "draft" ELSE rec.decisions[k].to
    IN  /\ rec.status = From(Len(rec.decisions))
        /\ \A k \in DOMAIN rec.decisions :
             /\ rec.decisions[k].from = From(k - 1)
             /\ rec.decisions[k].to \in Transitions[From(k - 1)]
        /\ {rec.reviewer} \ {Blank} =
             {rec.decisions[k].by : k \in {n \in DOMAIN rec.decisions :
                                              rec.decisions[n].to = "approved"}}

(* A signal's recommendations are made for every audience or for none, and *)
(* for one audience at most one is current, whatever generations overlap,  *)
(* decisions come between two of their inserts, or processes die.          *)
AudiencesServedTogether ==
  \A s \in {recs[i].signal : i \in DOMAIN recs}, a \in DOMAIN Audiences :
    LET Of == {i \in DOMAIN recs : Matches(recs[i], s, Audiences[a])}
    IN  /\ Of # {}
        /\ Cardinality({i \in Of : recs[i].status \in Current}) <= 1
==============================================================================
