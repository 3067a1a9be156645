---------------------------- MODULE Casework_proofs ----------------------------
(***************************************************************************)
(* Proofs about Casework, for any staff, schools, enrollments and requests *)
(* and whatever roles are given and withdrawn meanwhile.                   *)
(*                                                                         *)
(* What a request carries from its first look to its last step is little:  *)
(* the number of a row, which stays that row's, and a decision about it.   *)
(* The services look at the status again on the locked row, so that the    *)
(* accounts of referrals and decisions need no more than types.  Only a    *)
(* generation of recommendations builds on what it has found before: the   *)
(* drafts in its hands (DraftsOf) and those of others (NoDraftIsShared).   *)
(***************************************************************************)
EXTENDS Casework, SequenceTheorems, FiniteSetTheorems, TLAPS

Assignments == [teacher : Users, enrollment : Enrollments, term : Terms, deleted : BOOLEAN]

CaseStatuses == DOMAIN CaseTransitions
Cases == [enrollment : Enrollments, counselor : Users, status : CaseStatuses,
          opened : BOOLEAN, closed : BOOLEAN]
Referrals == [source : Nat, enrollment : Enrollments, counselor : Users,
              status : {"sent", "accepted"}, accepted : Nat \cup {Blank}]

AudienceNames == {"guide_teacher", "educational_deputy"}
Decisions == [from : Statuses, to : Statuses, by : Users]
Recs == [signal : Nat, audience : AudienceNames, status : Statuses,
         reviewer : Users \cup {Blank}, decisions : Seq(Decisions)]

(* What a request has in hand between its first step and its last. *)
GuideUpdates == [op : {"guide"}, id : Guides, copy : Assignments]
CaseMoves    == [op : {"case"}, id : Nat, target : CaseStatuses]
Sendings     == [op : {"refer"}, id : Nat, enrollment : Enrollments, counselor : Users]
Acceptances  == [op : {"accept"}, id : Nat, user : Users]
Generations  == [op : {"generate"}, signal : Nat, made : Seq(Recs), next : 1 .. 3]
Decidings    == [op : {"decide"}, id : Nat, target : Statuses, text : BOOLEAN, user : Users]
InHand == {Idle} \cup GuideUpdates \cup CaseMoves \cup Sendings \cup Acceptances
            \cup Generations \cup Decidings

TypeInv ==
  /\ roles \subseteq Grants \cup FirstRoles
  /\ changes \in 0 .. MaxChanges
  /\ guide \in [Guides -> Assignments \cup {NoAssignment}]
  /\ cases \in Seq(Cases)
  /\ referrals \in Seq(Referrals)
  /\ signals \in Nat
  /\ active \in BOOLEAN
  /\ recs \in Seq(Recs)
  /\ request \in [Requests -> InHand]

(* What a request names is there: no row is ever removed. *)
Named(q, cs, rs, xs) ==
  /\ q \in CaseMoves => q.id \in DOMAIN cs
  /\ q \in Acceptances => q.id \in DOMAIN rs
  /\ q \in Decidings => q.id \in DOMAIN xs
NamedIsThere == \A r \in Requests : Named(request[r], cases, referrals, recs)

(* The decisions of one recommendation, as DecisionTrail wants them, and   *)
(* nobody has reviewed it before it was approved.                          *)
From(rec, k) == IF k = 0 THEN "draft" ELSE rec.decisions[k].to
Approvals(rec) == {n \in DOMAIN rec.decisions : rec.decisions[n].to = "approved"}
TrailOf(rec) ==
  /\ rec.status = From(rec, Len(rec.decisions))
  /\ \A k \in DOMAIN rec.decisions :
       /\ rec.decisions[k].from = From(rec, k - 1)
       /\ rec.decisions[k].to \in Transitions[From(rec, k - 1)]
  /\ {rec.reviewer} \ {Blank} = {rec.decisions[k].by : k \in Approvals(rec)}
  /\ rec.status \in {"draft", "pending_review"} => rec.reviewer = Blank
TrailInv == \A i \in DOMAIN recs : TrailOf(recs[i])

(* What a generation that has come to audience q.next has made of the ones *)
(* before, xs being the committed rows: a draft in hand is for one of      *)
(* those audiences, the only one, and no row that is current stands in its *)
(* way; and each of those audiences has a row or a draft in hand.          *)
DraftsOf(q, xs) ==
  /\ \A k \in DOMAIN q.made :
       \E j \in 1 .. q.next - 1 : q.made[k] = NewRec(q.signal, Audiences[j])
  /\ \A k, l \in DOMAIN q.made : q.made[k] = q.made[l] => k = l
  /\ \A k \in DOMAIN q.made, i \in DOMAIN xs :
       Matches(xs[i], q.signal, q.made[k].audience) => xs[i].status \notin Current
  /\ \A j \in 1 .. q.next - 1 :
       \/ \E i \in DOMAIN xs : Matches(xs[i], q.signal, Audiences[j])
       \/ \E k \in DOMAIN q.made : q.made[k].audience = Audiences[j]
DraftsInHand == \A r \in Requests : request[r] \in Generations => DraftsOf(request[r], recs)

(* Two generations never hold the same draft: an insert waits for the one  *)
(* that is not yet committed (the unique index).                           *)
Disjoint(p, q) == \A k \in DOMAIN p.made, l \in DOMAIN q.made : p.made[k] # q.made[l]
NoDraftIsShared ==
  \A r, s \in Requests :
    (r # s /\ request[r] \in Generations /\ request[s] \in Generations)
      => Disjoint(request[r], request[s])

(* AudiencesServedTogether, row by row. *)
OneCurrent(xs) ==
  \A i, j \in DOMAIN xs :
    /\ xs[i].signal = xs[j].signal /\ xs[i].audience = xs[j].audience
    /\ xs[i].status \in Current /\ xs[j].status \in Current
    => i = j
AllServed(xs) ==
  \A i \in DOMAIN xs, a \in DOMAIN Audiences :
    \E j \in DOMAIN xs : Matches(xs[j], xs[i].signal, Audiences[a])
AudienceInv == DraftsInHand /\ NoDraftIsShared /\ OneCurrent(recs) /\ AllServed(recs)

-------------------------------------------------------------------------------
(* What a request has in hand, told by its operation. *)
LEMMA Shapes ==
  ASSUME NEW q \in InHand
  PROVE  /\ q.op = "guide" => q \in GuideUpdates
         /\ q.op = "case" => q \in CaseMoves
         /\ q.op = "refer" => q \in Sendings
         /\ q.op = "accept" => q \in Acceptances
         /\ q.op = "generate" => q \in Generations
         /\ q.op = "decide" => q \in Decidings
<1>1. Idle.op = "none"
  BY DEF Idle
<1> QED BY <1>1 DEF InHand, GuideUpdates, CaseMoves, Sendings, Acceptances, Generations, Decidings

LEMMA OpOf ==
  /\ Idle \in InHand /\ Idle.op = "none"
  /\ \A q \in GuideUpdates : q.op = "guide"
  /\ \A q \in CaseMoves : q.op = "case"
  /\ \A q \in Sendings : q.op = "refer"
  /\ \A q \in Acceptances : q.op = "accept"
  /\ \A q \in Generations : q.op = "generate"
  /\ \A q \in Decidings : q.op = "decide"
BY DEF Idle, InHand, GuideUpdates, CaseMoves, Sendings, Acceptances, Generations, Decidings

LEMMA AudiencesAre ==
  /\ Audiences \in Seq(AudienceNames)
  /\ Len(Audiences) = 2 /\ DOMAIN Audiences = 1 .. 2
  /\ Audiences[1] = "guide_teacher" /\ Audiences[2] = "educational_deputy"
BY DEF Audiences, AudienceNames

LEMMA StatusesAre ==
  Statuses = {"draft", "pending_review", "approved", "rejected", "dismissed", "expired",
              "superseded"}
BY DEF Statuses, Transitions

(* The transitions lead from status to status; none leads back to a draft, *)
(* only a draft is handed in, only what was handed in is approved, and     *)
(* what is not current does not become so.                                 *)
LEMMA TransitionsLead ==
  ASSUME NEW s \in Statuses, NEW t \in Transitions[s]
  PROVE  /\ t \in Statuses /\ t # "draft"
         /\ t = "pending_review" => s = "draft"
         /\ t = "approved" => s = "pending_review"
         /\ t \in Current => s \in Current
BY DEF Statuses, Transitions, Current

LEMMA CaseStatusesAre == CaseStatuses = {"draft", "active", "closed", "archived"}
BY DEF CaseStatuses, CaseTransitions

LEMMA CaseTransitionsLead ==
  ASSUME NEW s \in CaseStatuses, NEW t \in CaseTransitions[s]
  PROVE  t \in CaseStatuses
BY DEF CaseStatuses, CaseTransitions

LEMMA NewRecIsTyped ==
  ASSUME NEW n \in Nat, NEW a \in AudienceNames
  PROVE  NewRec(n, a) \in Recs /\ TrailOf(NewRec(n, a))
<1> DEFINE rec == NewRec(n, a)
<1>1. << >> \in Seq(Decisions) /\ Len(<< >>) = 0 /\ DOMAIN << >> = {}
  OBVIOUS
<1>2. rec \in Recs
  BY <1>1, StatusesAre DEF NewRec, Recs
<1>3. rec.decisions = << >> /\ rec.status = "draft" /\ rec.reviewer = Blank
  BY DEF NewRec
<1>4. Approvals(rec) = {}
  BY <1>1, <1>3 DEF Approvals
<1> HIDE DEF rec
<1>5. TrailOf(rec)
  BY <1>1, <1>3, <1>4 DEF TrailOf, From
<1> QED BY <1>2, <1>5 DEF rec

LEMMA CountedIsTyped ==
  ASSUME TypeInv, Count
  PROVE  changes' \in 0 .. MaxChanges
BY StaffAssumption DEF TypeInv, Count

(* One request moves on; rows are added at most. *)
LEMMA RequestMoves ==
  ASSUME TypeInv, NamedIsThere, NEW r \in Requests, NEW q \in InHand,
         request' = [request EXCEPT ![r] = q],
         DOMAIN cases \subseteq DOMAIN cases',
         DOMAIN referrals \subseteq DOMAIN referrals',
         DOMAIN recs \subseteq DOMAIN recs',
         Named(q, cases, referrals, recs)
  PROVE  request' \in [Requests -> InHand] /\ NamedIsThere'
<1>1. request' \in [Requests -> InHand]
        /\ \A s \in Requests : request'[s] = IF s = r THEN q ELSE request[s]
  BY DEF TypeInv
<1>2. \A s \in Requests : Named(request'[s], cases, referrals, recs)
  BY <1>1 DEF NamedIsThere
<1> QED BY <1>1, <1>2 DEF NamedIsThere, Named

LEMMA IdleNamesNothing ==
  ASSUME NEW q, q.op \notin {"case", "accept", "decide"}
  PROVE  Named(q, cases, referrals, recs)
BY OpOf DEF Named

(* Begin, for what can be in hand. *)
LEMMA BeginMoves ==
  ASSUME TypeInv, NamedIsThere, NEW r \in Requests, NEW q \in InHand, Begin(r, q),
         Named(q, cases, referrals, recs), UNCHANGED <<casesVars, recs>>
  PROVE  /\ request' \in [Requests -> InHand] /\ NamedIsThere'
         /\ roles' = roles /\ changes' \in 0 .. MaxChanges
BY RequestMoves, CountedIsTyped DEF Begin, casesVars

LEMMA FinishMoves ==
  ASSUME TypeInv, NamedIsThere, NEW r \in Requests, Finish(r),
         DOMAIN cases \subseteq DOMAIN cases',
         DOMAIN referrals \subseteq DOMAIN referrals',
         DOMAIN recs \subseteq DOMAIN recs'
  PROVE  /\ request' \in [Requests -> InHand] /\ NamedIsThere'
         /\ UNCHANGED <<roles, changes>>
BY RequestMoves, OpOf, IdleNamesNothing DEF Finish

-------------------------------------------------------------------------------
(* Types, module by module. *)
LEMMA InitType == Init => TypeInv /\ NamedIsThere
<1> SUFFICES ASSUME Init PROVE TypeInv /\ NamedIsThere
  OBVIOUS
<1> USE DEF Init, StaffInit, GuidanceInit, CounselingInit, RecommendationInit
<1>1. cases \in Seq(Cases)
  <2>1. NewCase(FirstCase.enrollment, FirstCase.counselor, "draft") \in Cases
    BY CounselingAssumption, CaseStatusesAre DEF NewCase, Cases
  <2> HIDE DEF NewCase
  <2> QED BY <2>1
<1>2. referrals \in Seq(Referrals) /\ recs \in Seq(Recs)
  OBVIOUS
<1>3. request \in [Requests -> InHand] /\ NamedIsThere
  BY OpOf, IdleNamesNothing DEF NamedIsThere
<1> QED BY <1>1, <1>2, <1>3, StaffAssumption DEF TypeInv

LEMMA StaffType ==
  ASSUME TypeInv, NamedIsThere, StaffNext, UNCHANGED <<guide, casesVars, recVars>>
  PROVE  TypeInv' /\ NamedIsThere'
<1>1. request' = request /\ roles' \subseteq Grants \cup FirstRoles /\ Count
  BY DEF StaffNext, AssignRole, WithdrawRole, TypeInv
<1> QED BY <1>1, CountedIsTyped DEF TypeInv, NamedIsThere, casesVars, recVars

LEMMA GuidanceType ==
  ASSUME TypeInv, NamedIsThere, GuidanceNext, UNCHANGED <<casesVars, recVars>>
  PROVE  TypeInv' /\ NamedIsThere'
<1> USE DEF casesVars, recVars
<1>0. guide \in [Guides -> Assignments \cup {NoAssignment}]
        /\ request \in [Requests -> InHand]
  BY DEF TypeInv
<1>1. ASSUME NEW u \in Users, NEW t \in Users, NEW g \in Guides, NEW e \in Enrollments,
             NEW term \in Terms, AssignGuide(u, g, t, e, term)
      PROVE  TypeInv' /\ NamedIsThere'
  <2>1. [teacher |-> t, enrollment |-> e, term |-> term, deleted |-> FALSE] \in Assignments
    BY DEF Assignments
  <2>2. guide' \in [Guides -> Assignments \cup {NoAssignment}]
    BY <1>0, <1>1, <2>1 DEF AssignGuide
  <2>3. UNCHANGED <<roles, request>> /\ Count
    BY <1>1 DEF AssignGuide
  <2> QED BY <2>2, <2>3, CountedIsTyped DEF TypeInv, NamedIsThere
<1>2. ASSUME NEW r \in Requests, NEW u \in Users, NEW g \in Guides, NEW term \in Terms,
             BeginGuideUpdate(r, u, g, term)
      PROVE  TypeInv' /\ NamedIsThere'
  <2> DEFINE q == [op |-> "guide", id |-> g, copy |-> [guide[g] EXCEPT !.term = term]]
  <2>1. guide[g] \in Assignments
    BY <1>0, <1>2 DEF BeginGuideUpdate, Live
  <2>2. q \in GuideUpdates /\ q.op = "guide"
    BY <2>1 DEF GuideUpdates, Assignments
  <2>3. Begin(r, q) /\ guide' = guide
    BY <1>2 DEF BeginGuideUpdate
  <2> HIDE DEF q
  <2>4. /\ request' \in [Requests -> InHand] /\ NamedIsThere'
        /\ roles' = roles /\ changes' \in 0 .. MaxChanges
    BY <2>2, <2>3, BeginMoves, IdleNamesNothing DEF InHand
  <2> QED BY <2>3, <2>4 DEF TypeInv
<1>3. ASSUME NEW r \in Requests, SaveGuide(r)
      PROVE  TypeInv' /\ NamedIsThere'
  <2>1. request[r] \in GuideUpdates
    BY <1>0, <1>3, Shapes DEF SaveGuide
  <2>2. request[r].id \in Guides /\ request[r].copy \in Assignments
    BY <2>1 DEF GuideUpdates
  <2>3. guide' \in [Guides -> Assignments \cup {NoAssignment}]
    BY <1>0, <1>3, <2>2 DEF SaveGuide
  <2>4. /\ request' \in [Requests -> InHand] /\ NamedIsThere'
        /\ UNCHANGED <<roles, changes>>
    BY <1>3, FinishMoves DEF SaveGuide
  <2> QED BY <2>3, <2>4 DEF TypeInv
<1>4. ASSUME NEW u \in Users, NEW g \in Guides, DeleteGuide(u, g)
      PROVE  TypeInv' /\ NamedIsThere'
  <2>1. guide[g] \in Assignments
    BY <1>0, <1>4 DEF DeleteGuide, Live
  <2>2. [guide[g] EXCEPT !.deleted = TRUE] \in Assignments
    BY <2>1 DEF Assignments
  <2>3. guide' \in [Guides -> Assignments \cup {NoAssignment}]
    BY <1>0, <1>4, <2>2 DEF DeleteGuide
  <2>4. UNCHANGED <<roles, request>> /\ Count
    BY <1>4 DEF DeleteGuide
  <2> QED BY <2>3, <2>4, CountedIsTyped DEF TypeInv, NamedIsThere
<1>5. CASE DayPasses
  <2> DEFINE Aged(a) == CASE a.term = "planned" -> [a EXCEPT !.term = "open"]
                          [] a.term = "running" -> [a EXCEPT !.term = "over"]
                          [] OTHER              -> a
  <2>1. \A a \in Assignments : Aged(a) \in Assignments
    BY DEF Assignments, Terms
  <2>2. guide' = [g \in Guides |-> IF guide[g] = NoAssignment THEN NoAssignment
                                    ELSE Aged(guide[g])]
    BY <1>5 DEF DayPasses
  <2>3. request' = [r \in Requests |->
                      IF request[r].op = "guide"
                      THEN [request[r] EXCEPT !.copy = Aged(@)] ELSE request[r]]
    BY <1>5 DEF DayPasses
  <2>4. UNCHANGED roles /\ Count
    BY <1>5 DEF DayPasses
  <2> HIDE DEF Aged
  <2>5. guide' \in [Guides -> Assignments \cup {NoAssignment}]
    BY <1>0, <2>1, <2>2
  <2>6. ASSUME NEW r \in Requests
        PROVE  /\ request'[r] \in InHand
               /\ request'[r] = request[r] \/ request'[r].op = "guide"
    <3>1. CASE request[r].op # "guide"
      BY <1>0, <2>3, <3>1
    <3>2. CASE request[r].op = "guide"
      <4>1. request[r] \in GuideUpdates
        BY <1>0, <3>2, Shapes
      <4>2. [request[r] EXCEPT !.copy = Aged(request[r].copy)] \in GuideUpdates
        BY <2>1, <4>1 DEF GuideUpdates
      <4> QED BY <2>3, <3>2, <4>2, OpOf DEF InHand
    <3> QED BY <3>1, <3>2
  <2>7. request' \in [Requests -> InHand]
    BY <2>3, <2>6
  <2>8. NamedIsThere'
    BY <2>6, IdleNamesNothing DEF NamedIsThere
  <2> QED BY <2>4, <2>5, <2>7, <2>8, CountedIsTyped DEF TypeInv
<1> QED BY <1>1, <1>2, <1>3, <1>4, <1>5 DEF GuidanceNext

(* The four ways in which counseling moves on, as far as types go. *)
LEMMA CounselingType ==
  ASSUME TypeInv, NamedIsThere, CounselingNext, UNCHANGED recVars
  PROVE  TypeInv' /\ NamedIsThere'
<1> USE DEF recVars
<1>0. /\ cases \in Seq(Cases) /\ referrals \in Seq(Referrals)
      /\ request \in [Requests -> InHand]
  BY DEF TypeInv
<1>1. ASSUME NEW r \in Requests, NEW q \in InHand, Begin(r, q),
             Named(q, cases, referrals, recs), UNCHANGED <<guide, casesVars>>
      PROVE  TypeInv' /\ NamedIsThere'
  BY <1>1, BeginMoves DEF TypeInv, casesVars
<1>2. ASSUME NEW r \in Requests, NEW u \in Users, NEW i \in DOMAIN cases,
             NEW target \in DOMAIN CaseTransitions, BeginCaseTransition(r, u, i, target)
      PROVE  TypeInv' /\ NamedIsThere'
  <2> DEFINE q == [op |-> "case", id |-> i, target |-> target]
  <2>1. q \in CaseMoves /\ q.id \in DOMAIN cases
    BY <1>0 DEF CaseMoves, CaseStatuses
  <2>2. Begin(r, q) /\ UNCHANGED <<guide, casesVars>>
    BY <1>2 DEF BeginCaseTransition
  <2> HIDE DEF q
  <2>3. q \in InHand /\ Named(q, cases, referrals, recs)
    BY <2>1, OpOf DEF InHand, Named
  <2> QED BY <1>1, <2>2, <2>3
<1>3. ASSUME NEW r \in Requests, NEW u \in Users, NEW i \in DOMAIN cases,
             NEW e \in Enrollments, NEW t \in Users, BeginReferral(r, u, i, e, t)
      PROVE  TypeInv' /\ NamedIsThere'
  <2> DEFINE q == [op |-> "refer", id |-> i, enrollment |-> e, counselor |-> t]
  <2>1. q \in Sendings
    BY <1>0 DEF Sendings
  <2>2. Begin(r, q) /\ UNCHANGED <<guide, casesVars>>
    BY <1>3 DEF BeginReferral
  <2> HIDE DEF q
  <2>3. q \in InHand /\ Named(q, cases, referrals, recs)
    BY <2>1, OpOf DEF InHand, Named
  <2> QED BY <1>1, <2>2, <2>3
<1>4. ASSUME NEW r \in Requests, NEW u \in Users, NEW i \in DOMAIN referrals,
             BeginAccept(r, u, i)
      PROVE  TypeInv' /\ NamedIsThere'
  <2> DEFINE q == [op |-> "accept", id |-> i, user |-> u]
  <2>1. q \in Acceptances /\ q.id \in DOMAIN referrals
    BY <1>0 DEF Acceptances
  <2>2. Begin(r, q) /\ UNCHANGED <<guide, casesVars>>
    BY <1>4 DEF BeginAccept
  <2> HIDE DEF q
  <2>3. q \in InHand /\ Named(q, cases, referrals, recs)
    BY <2>1, OpOf DEF InHand, Named
  <2> QED BY <1>1, <2>2, <2>3
<1>5. ASSUME NEW r \in Requests, Finish(r), guide' = guide,
             cases' \in Seq(Cases), DOMAIN cases \subseteq DOMAIN cases',
             referrals' \in Seq(Referrals), DOMAIN referrals \subseteq DOMAIN referrals'
      PROVE  TypeInv' /\ NamedIsThere'
  BY <1>5, FinishMoves DEF TypeInv
<1>6. ASSUME NEW r \in Requests, TransitionCase(r)
      PROVE  TypeInv' /\ NamedIsThere'
  <2> DEFINE i == request[r].id
             target == request[r].target
             c == [cases[i] EXCEPT !.status = target,
                     !.opened = @ \/ target = "active",
                     !.closed = @ \/ target \in {"closed", "archived"}]
  <2>1. request[r] \in CaseMoves /\ i \in DOMAIN cases
    BY <1>0, <1>6, Shapes DEF TransitionCase, NamedIsThere, Named
  <2>2. cases[i] \in Cases /\ target \in CaseStatuses
    BY <1>0, <2>1 DEF CaseMoves
  <2>3. c \in Cases
    BY <2>2 DEF Cases
  <2>4. cases' = cases \/ cases' = [cases EXCEPT ![i] = c]
    BY <1>6, <2>1, <1>0 DEF TransitionCase
  <2>5. Finish(r) /\ UNCHANGED <<guide, referrals>>
    BY <1>6 DEF TransitionCase
  <2> HIDE DEF i, c, target
  <2>6. cases' \in Seq(Cases) /\ DOMAIN cases \subseteq DOMAIN cases'
    BY <1>0, <2>1, <2>3, <2>4
  <2> QED BY <1>0, <1>5, <2>5, <2>6
<1>7. ASSUME NEW r \in Requests, SendReferral(r)
      PROVE  TypeInv' /\ NamedIsThere'
  <2> DEFINE x == [source |-> request[r].id, enrollment |-> request[r].enrollment,
                   counselor |-> request[r].counselor, status |-> "sent", accepted |-> Blank]
  <2>1. request[r] \in Sendings
    BY <1>0, <1>7, Shapes DEF SendReferral
  <2>2. x \in Referrals
    BY <2>1 DEF Sendings, Referrals
  <2>3. referrals' = Append(referrals, x) /\ Finish(r) /\ UNCHANGED <<guide, cases>>
    BY <1>7 DEF SendReferral
  <2> HIDE DEF x
  <2>4. referrals' \in Seq(Referrals) /\ DOMAIN referrals \subseteq DOMAIN referrals'
    BY <1>0, <2>2, <2>3
  <2> QED BY <1>0, <1>5, <2>3, <2>4
<1>8. ASSUME NEW r \in Requests, AcceptReferral(r)
      PROVE  TypeInv' /\ NamedIsThere'
  <2> DEFINE i == request[r].id
             u == request[r].user
             c == NewCase(referrals[i].enrollment, u, "active")
             x == [referrals[i] EXCEPT !.status = "accepted", !.accepted = Len(cases')]
  <2>1. request[r] \in Acceptances /\ i \in DOMAIN referrals
    BY <1>0, <1>8, Shapes DEF AcceptReferral, NamedIsThere, Named
  <2>2. referrals[i] \in Referrals /\ u \in Users
    BY <1>0, <2>1 DEF Acceptances
  <2>3. c \in Cases
    BY <2>2, CaseStatusesAre DEF Cases, NewCase, Referrals
  <2>4. Finish(r) /\ guide' = guide
    BY <1>8 DEF AcceptReferral
  <2>5. CASE StillSent(i, u)
    <3>1. cases' = Append(cases, c)
      BY <1>8, <2>5 DEF AcceptReferral
    <3>2. referrals' = [referrals EXCEPT ![i] = x]
      BY <1>8, <2>5, <2>1, <1>0 DEF AcceptReferral
    <3> HIDE DEF c
    <3>3. cases' \in Seq(Cases) /\ DOMAIN cases \subseteq DOMAIN cases'
      BY <1>0, <2>3, <3>1
    <3>4. Len(cases') \in Nat
      BY <3>3
    <3>5. x \in Referrals
      BY <2>2, <3>4 DEF Referrals
    <3> HIDE DEF i, x
    <3>6. referrals' \in Seq(Referrals) /\ DOMAIN referrals \subseteq DOMAIN referrals'
      BY <1>0, <2>1, <3>2, <3>5
    <3> QED BY <1>5, <2>4, <3>3, <3>6
  <2>6. CASE ~StillSent(i, u)
    <3>1. UNCHANGED casesVars
      BY <1>8, <2>6 DEF AcceptReferral
    <3> QED BY <1>0, <1>5, <2>4, <3>1 DEF casesVars
  <2> QED BY <2>5, <2>6
<1> QED BY <1>2, <1>3, <1>4, <1>6, <1>7, <1>8 DEF CounselingNext

(* The draft that a generation makes next. *)
LEMMA DraftIsTyped ==
  ASSUME TypeInv, NEW r \in Requests, Generating(r)
  PROVE  /\ request[r] \in Generations
         /\ request[r].next \in 1 .. 2
         /\ Audiences[request[r].next] \in AudienceNames
         /\ Draft(r) = NewRec(request[r].signal, Audiences[request[r].next])
         /\ Draft(r) \in Recs
<1>1. request[r] \in Generations
  BY Shapes DEF TypeInv, Generating
<1>2. request[r].next \in 1 .. 2 /\ request[r].signal \in Nat
  BY <1>1, AudiencesAre DEF Generating, Generations
<1>3. Audiences[request[r].next] \in AudienceNames
  BY <1>2, AudiencesAre DEF AudienceNames
<1> QED BY <1>1, <1>2, <1>3, NewRecIsTyped DEF Draft

LEMMA RecommendationType ==
  ASSUME TypeInv, NamedIsThere, RecommendationNext
  PROVE  TypeInv' /\ NamedIsThere'
<1>0. recs \in Seq(Recs) /\ request \in [Requests -> InHand] /\ signals \in Nat
  BY DEF TypeInv
<1>1. ASSUME NEW found \in BOOLEAN, RunRules(found)
      PROVE  TypeInv' /\ NamedIsThere'
  BY <1>1, CountedIsTyped DEF RunRules, TypeInv, NamedIsThere, casesVars
<1>2. ASSUME NEW r \in Requests, NEW q \in InHand, Begin(r, q),
             Named(q, cases, referrals, recs), UNCHANGED <<guide, casesVars, recVars>>
      PROVE  TypeInv' /\ NamedIsThere'
  BY <1>2, BeginMoves DEF TypeInv, casesVars, recVars
<1>3. ASSUME NEW r \in Requests, NEW u \in Users, BeginGeneration(r, u)
      PROVE  TypeInv' /\ NamedIsThere'
  <2> DEFINE q == [op |-> "generate", signal |-> signals, made |-> <<>>, next |-> 1]
  <2>1. q \in Generations
    BY <1>0 DEF Generations
  <2>2. Begin(r, q) /\ UNCHANGED <<guide, casesVars, recVars>>
    BY <1>3 DEF BeginGeneration
  <2> HIDE DEF q
  <2>3. q \in InHand /\ Named(q, cases, referrals, recs)
    BY <2>1, OpOf DEF InHand, Named
  <2> QED BY <1>2, <2>2, <2>3
<1>4. ASSUME NEW r \in Requests, NEW u \in Users, NEW i \in DOMAIN recs,
             NEW target \in Statuses, NEW text \in BOOLEAN, BeginDecision(r, u, i, target, text)
      PROVE  TypeInv' /\ NamedIsThere'
  <2> DEFINE q == [op |-> "decide", id |-> i, target |-> target, text |-> text, user |-> u]
  <2>1. q \in Decidings /\ q.id \in DOMAIN recs
    BY <1>0 DEF Decidings
  <2>2. Begin(r, q) /\ UNCHANGED <<guide, casesVars, recVars>>
    BY <1>4 DEF BeginDecision
  <2> HIDE DEF q
  <2>3. q \in InHand /\ Named(q, cases, referrals, recs)
    BY <2>1, OpOf DEF InHand, Named
  <2> QED BY <1>2, <2>2, <2>3
<1>5. ASSUME NEW r \in Requests, NEW q \in InHand, Named(q, cases, referrals, recs),
             request' = [request EXCEPT ![r] = q],
             UNCHANGED <<roles, changes, guide, casesVars, signals, active>>,
             recs' \in Seq(Recs), DOMAIN recs \subseteq DOMAIN recs'
      PROVE  TypeInv' /\ NamedIsThere'
  BY <1>5, RequestMoves DEF TypeInv, casesVars
<1>6. ASSUME NEW r \in Requests, GetDraft(r)
      PROVE  TypeInv' /\ NamedIsThere'
  <2> DEFINE q == [request[r] EXCEPT !.next = @ + 1]
  <2>1. request[r] \in Generations /\ request[r].next \in 1 .. 2
    BY <1>6, DraftIsTyped DEF GetDraft
  <2>2. q \in Generations
    BY <2>1 DEF Generations
  <2>3. request' = [request EXCEPT ![r] = q] /\ UNCHANGED <<roles, changes, guide, casesVars, recVars>>
    BY <1>6, <1>0 DEF GetDraft
  <2> HIDE DEF q
  <2>4. q \in InHand /\ Named(q, cases, referrals, recs)
    BY <2>2, OpOf DEF InHand, Named
  <2> QED BY <1>0, <1>5, <2>3, <2>4 DEF recVars
<1>7. ASSUME NEW r \in Requests, CreateDraft(r)
      PROVE  TypeInv' /\ NamedIsThere'
  <2> DEFINE m == Append(request[r].made, Draft(r))
             q == [request[r] EXCEPT !.next = @ + 1, !.made = m]
  <2>1. request[r] \in Generations /\ request[r].next \in 1 .. 2 /\ Draft(r) \in Recs
    BY <1>7, DraftIsTyped DEF CreateDraft
  <2>2. q \in Generations
    <3>1. m \in Seq(Recs) /\ request[r].next + 1 \in 1 .. 3
      BY <2>1 DEF Generations
    <3> HIDE DEF m
    <3>2. [request[r] EXCEPT !.next = @ + 1] \in Generations
      BY <2>1, <3>1 DEF Generations
    <3>3. q = [[request[r] EXCEPT !.next = @ + 1] EXCEPT !.made = m]
      OBVIOUS
    <3> QED BY <3>1, <3>2, <3>3 DEF Generations
  <2>3. request' = [request EXCEPT ![r] = q] /\ UNCHANGED <<roles, changes, guide, casesVars, recVars>>
    BY <1>7, <1>0 DEF CreateDraft
  <2> HIDE DEF q
  <2>4. q \in InHand /\ Named(q, cases, referrals, recs)
    BY <2>2, OpOf DEF InHand, Named
  <2> QED BY <1>0, <1>5, <2>3, <2>4 DEF recVars
<1>8. ASSUME NEW r \in Requests, Finish(r), UNCHANGED <<guide, casesVars, signals, active>>,
             recs' \in Seq(Recs), DOMAIN recs \subseteq DOMAIN recs'
      PROVE  TypeInv' /\ NamedIsThere'
  BY <1>8, FinishMoves DEF TypeInv, casesVars
<1>9. ASSUME NEW r \in Requests, RefuseDraft(r)
      PROVE  TypeInv' /\ NamedIsThere'
  BY <1>8, <1>9, <1>0 DEF RefuseDraft, recVars
<1>10. ASSUME NEW r \in Requests, CommitGeneration(r)
       PROVE  TypeInv' /\ NamedIsThere'
  <2>1. request[r].made \in Seq(Recs)
    BY <1>0, <1>10, Shapes DEF CommitGeneration, Generations
  <2>2. recs' \in Seq(Recs) /\ DOMAIN recs \subseteq DOMAIN recs'
    BY <1>0, <1>10, <2>1 DEF CommitGeneration
  <2> QED BY <1>8, <1>10, <2>2 DEF CommitGeneration
<1>11. ASSUME NEW r \in Requests, Decide(r)
       PROVE  TypeInv' /\ NamedIsThere'
  <2> DEFINE i == request[r].id
             target == request[r].target
             u == request[r].user
             x == Decided(recs[i], target, u)
  <2>1. request[r] \in Decidings /\ i \in DOMAIN recs
    BY <1>0, <1>11, Shapes DEF Decide, NamedIsThere, Named
  <2>2. recs[i] \in Recs /\ u \in Users /\ target \in Statuses
    BY <1>0, <2>1 DEF Decidings
  <2>3. x \in Recs
    <3>1. Append(recs[i].decisions, [from |-> recs[i].status, to |-> target, by |-> u])
            \in Seq(Decisions)
      BY <2>2 DEF Recs, Decisions
    <3> QED BY <2>2, <3>1 DEF Recs, Decided
  <2>4. recs' = recs \/ recs' = [recs EXCEPT ![i] = x]
    BY <1>11 DEF Decide
  <2> HIDE DEF i, x
  <2>5. recs' \in Seq(Recs) /\ DOMAIN recs \subseteq DOMAIN recs'
    BY <1>0, <2>1, <2>3, <2>4
  <2> QED BY <1>8, <1>11, <2>5 DEF Decide
<1> QED BY <1>1, <1>3, <1>4, <1>6, <1>7, <1>9, <1>10, <1>11 DEF RecommendationNext

LEMMA StepType ==
  ASSUME TypeInv, NamedIsThere, [Next]_vars
  PROVE  TypeInv' /\ NamedIsThere'
<1>1. ASSUME NEW r \in Requests, Abandon(r)
      PROVE  TypeInv' /\ NamedIsThere'
  BY <1>1, FinishMoves DEF Abandon, TypeInv, casesVars, recVars
<1>2. CASE UNCHANGED vars
  BY <1>2 DEF vars, TypeInv, NamedIsThere
<1> QED BY <1>1, <1>2, StaffType, GuidanceType, CounselingType, RecommendationType DEF Next

LEMMA Typing == Spec => [](TypeInv /\ NamedIsThere)
BY InitType, StepType, PTL DEF Spec

-------------------------------------------------------------------------------
(* Referrals and their cases. *)
AcceptedIn(rs) == {i \in DOMAIN rs : rs[i].status = "accepted"}

LEMMA AcceptedIsFinite ==
  ASSUME NEW rs \in Seq(Referrals)
  PROVE  IsFiniteSet(AcceptedIn(rs))
<1>1. IsFiniteSet(1 .. Len(rs))
  BY FS_Interval
<1>2. AcceptedIn(rs) \subseteq 1 .. Len(rs)
  BY DEF AcceptedIn
<1> QED BY <1>1, <1>2, FS_Subset

(* OneCaseEach, of given cases and referrals. *)
EachHasItsCase(cs, rs) ==
  /\ \A i \in DOMAIN rs : (rs[i].accepted = Blank) = (i \notin AcceptedIn(rs))
  /\ \A i \in AcceptedIn(rs) :
       /\ rs[i].accepted \in DOMAIN cs
       /\ cs[rs[i].accepted].counselor = rs[i].counselor
       /\ cs[rs[i].accepted].enrollment = rs[i].enrollment
       /\ \A j \in AcceptedIn(rs) \ {i} : rs[j].accepted # rs[i].accepted
  /\ Len(cs) = 1 + Cardinality(AcceptedIn(rs))

LEMMA OneCaseEachSays ==
  /\ OneCaseEach <=> EachHasItsCase(cases, referrals)
  /\ OneCaseEach' <=> EachHasItsCase(cases', referrals')
BY DEF OneCaseEach, EachHasItsCase, AcceptedIn

LEMMA InitReferrals == Init => OneCaseEach
<1> SUFFICES ASSUME Init PROVE OneCaseEach
  OBVIOUS
<1>1. referrals = << >> /\ Len(cases) = 1
  BY DEF Init, CounselingInit
<1>2. DOMAIN referrals = {} /\ AcceptedIn(referrals) = {}
  BY <1>1 DEF AcceptedIn
<1>3. Cardinality(AcceptedIn(referrals)) = 0
  BY <1>2, FS_EmptySet
<1> QED BY <1>1, <1>2, <1>3, OneCaseEachSays DEF EachHasItsCase

LEMMA AcceptReferralKeeps ==
  ASSUME TypeInv, NamedIsThere, OneCaseEach, NEW r \in Requests, AcceptReferral(r),
         StillSent(request[r].id, request[r].user)
  PROVE  OneCaseEach'
<1> DEFINE i == request[r].id
           u == request[r].user
           c == NewCase(referrals[i].enrollment, u, "active")
           x == [referrals[i] EXCEPT !.status = "accepted", !.accepted = Len(cases')]
           Old == AcceptedIn(referrals)
           New == AcceptedIn(referrals')
<1>0. /\ cases \in Seq(Cases) /\ referrals \in Seq(Referrals)
      /\ request \in [Requests -> InHand]
  BY DEF TypeInv
<1>1. request[r] \in Acceptances /\ i \in DOMAIN referrals /\ referrals[i] \in Referrals
  BY <1>0, Shapes DEF AcceptReferral, NamedIsThere, Named
<1>2. /\ referrals[i].status = "sent" /\ referrals[i].counselor = u
      /\ c.counselor = u /\ c.enrollment = referrals[i].enrollment
  BY DEF StillSent, NewCase
<1>3. cases' = Append(cases, c)
  BY DEF AcceptReferral
<1>4. referrals' = [referrals EXCEPT ![i] = x]
  BY <1>0, <1>1 DEF AcceptReferral
<1>5. x.status = "accepted" /\ x.accepted = Len(cases')
        /\ x.counselor = referrals[i].counselor /\ x.enrollment = referrals[i].enrollment
  BY <1>1 DEF Referrals
<1> HIDE DEF i, u, c, x
<1>6. /\ Len(cases) \in Nat /\ Len(cases') = Len(cases) + 1 /\ cases'[Len(cases')] = c
      /\ DOMAIN cases' = DOMAIN cases \cup {Len(cases')} /\ DOMAIN cases = 1 .. Len(cases)
      /\ \A k \in DOMAIN cases : cases'[k] = cases[k]
  BY <1>0, <1>3
<1>7. /\ DOMAIN referrals' = DOMAIN referrals /\ referrals'[i] = x
      /\ \A j \in DOMAIN referrals : j # i => referrals'[j] = referrals[j]
  BY <1>0, <1>1, <1>4
<1>8. i \notin Old /\ New = Old \cup {i}
  BY <1>1, <1>2, <1>5, <1>7 DEF AcceptedIn
<1>9. Cardinality(New) = Cardinality(Old) + 1
  BY <1>0, <1>8, AcceptedIsFinite, FS_AddElement
<1>10. \A j \in Old : referrals'[j] = referrals[j] /\ j \in DOMAIN referrals
  BY <1>7, <1>8 DEF AcceptedIn
<1>11. Len(cases') # Blank
  BY <1>6, CounselingAssumption
<1>12. \A j \in Old : /\ referrals[j].accepted \in DOMAIN cases
                      /\ referrals[j].accepted # Len(cases')
  BY <1>6, OneCaseEachSays DEF EachHasItsCase
<1>13. \A j \in DOMAIN referrals' : (referrals'[j].accepted = Blank) = (j \notin New)
  <2> SUFFICES ASSUME NEW j \in DOMAIN referrals'
               PROVE  (referrals'[j].accepted = Blank) = (j \notin New)
    OBVIOUS
  <2>1. CASE j = i
    BY <2>1, <1>5, <1>7, <1>8, <1>11
  <2>2. CASE j # i
    BY <2>2, <1>7, <1>8, OneCaseEachSays DEF EachHasItsCase
  <2> QED BY <2>1, <2>2
<1>14. ASSUME NEW j \in New
       PROVE  /\ referrals'[j].accepted \in DOMAIN cases'
              /\ cases'[referrals'[j].accepted].counselor = referrals'[j].counselor
              /\ cases'[referrals'[j].accepted].enrollment = referrals'[j].enrollment
              /\ \A k \in New \ {j} : referrals'[k].accepted # referrals'[j].accepted
  <2>1. CASE j = i
    BY <2>1, <1>2, <1>5, <1>6, <1>7, <1>8, <1>10, <1>12
  <2>2. CASE j # i
    <3>1. j \in Old
      BY <2>2, <1>8
    <3>2. /\ cases[referrals[j].accepted].counselor = referrals[j].counselor
          /\ cases[referrals[j].accepted].enrollment = referrals[j].enrollment
          /\ \A k \in Old \ {j} : referrals[k].accepted # referrals[j].accepted
      BY <3>1, OneCaseEachSays DEF EachHasItsCase
    <3>3. \A k \in New \ {j} : referrals'[k].accepted # referrals'[j].accepted
      BY <3>1, <3>2, <1>5, <1>7, <1>8, <1>10, <1>12
    <3> QED BY <3>1, <3>2, <3>3, <1>6, <1>10, <1>12
  <2> QED BY <2>1, <2>2
<1>15. Len(cases') = 1 + Cardinality(New)
  <2>1. Len(cases) = 1 + Cardinality(Old)
    BY OneCaseEachSays DEF EachHasItsCase
  <2>2. Cardinality(Old) \in Nat
    BY <1>0, AcceptedIsFinite, FS_CardinalityType
  <2> QED BY <2>1, <2>2, <1>6, <1>9
<1> HIDE DEF New
<1> QED BY <1>13, <1>14, <1>15, OneCaseEachSays DEF New, EachHasItsCase

(* What neither accepts nor sends a referral keeps the cases' counselors   *)
(* and enrollments, and the referrals. *)
LEMMA StepReferrals ==
  ASSUME TypeInv, NamedIsThere, OneCaseEach, [Next]_vars
  PROVE  OneCaseEach'
<1>0. /\ cases \in Seq(Cases) /\ referrals \in Seq(Referrals)
      /\ request \in [Requests -> InHand]
  BY DEF TypeInv
<1>1. CASE UNCHANGED casesVars
  BY <1>1 DEF OneCaseEach, casesVars
<1>2. ASSUME NEW r \in Requests, TransitionCase(r), cases' # cases
      PROVE  OneCaseEach'
  <2> DEFINE i == request[r].id
             target == request[r].target
             c == [cases[i] EXCEPT !.status = target,
                     !.opened = @ \/ target = "active",
                     !.closed = @ \/ target \in {"closed", "archived"}]
  <2>1. i \in DOMAIN cases /\ cases[i] \in Cases
    BY <1>0, <1>2, Shapes DEF TransitionCase, NamedIsThere, Named
  <2>2. cases' = [cases EXCEPT ![i] = c] /\ referrals' = referrals
    BY <1>0, <1>2, <2>1 DEF TransitionCase
  <2>3. c.counselor = cases[i].counselor /\ c.enrollment = cases[i].enrollment
    BY <2>1 DEF Cases
  <2> HIDE DEF i, c, target
  <2>4. /\ DOMAIN cases' = DOMAIN cases /\ Len(cases') = Len(cases)
        /\ \A k \in DOMAIN cases : /\ cases'[k].counselor = cases[k].counselor
                                   /\ cases'[k].enrollment = cases[k].enrollment
    BY <1>0, <2>1, <2>2, <2>3
  <2> QED BY <2>2, <2>4, OneCaseEachSays DEF EachHasItsCase
<1>3. ASSUME NEW r \in Requests, SendReferral(r)
      PROVE  OneCaseEach'
  <2> DEFINE x == [source |-> request[r].id, enrollment |-> request[r].enrollment,
                   counselor |-> request[r].counselor, status |-> "sent", accepted |-> Blank]
             n == Len(referrals) + 1
  <2>1. referrals' = Append(referrals, x) /\ cases' = cases
          /\ x.status = "sent" /\ x.accepted = Blank
    BY <1>3 DEF SendReferral
  <2> HIDE DEF x
  <2>2. /\ DOMAIN referrals' = DOMAIN referrals \cup {n} /\ n \notin DOMAIN referrals
        /\ referrals'[n] = x
        /\ \A j \in DOMAIN referrals : referrals'[j] = referrals[j]
    BY <1>0, <2>1
  <2> HIDE DEF n
  <2>3. AcceptedIn(referrals') = AcceptedIn(referrals)
    BY <2>1, <2>2 DEF AcceptedIn
  <2>4. \A j \in DOMAIN referrals' :
          (referrals'[j].accepted = Blank) = (j \notin AcceptedIn(referrals'))
    <3> SUFFICES ASSUME NEW j \in DOMAIN referrals'
                 PROVE  (referrals'[j].accepted = Blank) = (j \notin AcceptedIn(referrals))
      BY <2>3
    <3>1. CASE j = n
      BY <3>1, <2>1, <2>2 DEF AcceptedIn
    <3>2. CASE j # n
      BY <3>2, <2>2, OneCaseEachSays DEF EachHasItsCase
    <3> QED BY <3>1, <3>2
  <2>5. \A j \in AcceptedIn(referrals) : referrals'[j] = referrals[j]
    BY <2>2 DEF AcceptedIn
  <2>6. EachHasItsCase(cases, referrals)
    BY OneCaseEachSays
  <2>7. EachHasItsCase(cases', referrals')
    <3>1. \A j \in AcceptedIn(referrals) :
            /\ referrals'[j].accepted \in DOMAIN cases
            /\ cases[referrals'[j].accepted].counselor = referrals'[j].counselor
            /\ cases[referrals'[j].accepted].enrollment = referrals'[j].enrollment
            /\ \A k \in AcceptedIn(referrals) \ {j} :
                 referrals'[k].accepted # referrals'[j].accepted
      BY <2>5, <2>6 DEF EachHasItsCase
    <3>2. Len(cases) = 1 + Cardinality(AcceptedIn(referrals))
      BY <2>6 DEF EachHasItsCase
    <3>3. cases' = cases
      BY <2>1
    <3> QED BY <2>3, <2>4, <3>1, <3>2, <3>3 DEF EachHasItsCase
  <2> QED BY <2>7, OneCaseEachSays
<1>4. ASSUME NEW r \in Requests, AcceptReferral(r)
      PROVE  OneCaseEach'
  <2>1. CASE StillSent(request[r].id, request[r].user)
    BY <1>4, <2>1, AcceptReferralKeeps
  <2>2. CASE ~StillSent(request[r].id, request[r].user)
    BY <1>1, <1>4, <2>2 DEF AcceptReferral
  <2> QED BY <2>1, <2>2
<1>5. CASE CounselingNext
  <2>1. ASSUME NEW r \in Requests, NEW u \in Users, NEW i \in DOMAIN cases,
               NEW target \in DOMAIN CaseTransitions, BeginCaseTransition(r, u, i, target)
        PROVE  UNCHANGED casesVars
    BY <2>1 DEF BeginCaseTransition
  <2>2. ASSUME NEW r \in Requests, NEW u \in Users, NEW i \in DOMAIN cases,
               NEW e \in Enrollments, NEW t \in Users, BeginReferral(r, u, i, e, t)
        PROVE  UNCHANGED casesVars
    BY <2>2 DEF BeginReferral
  <2>3. ASSUME NEW r \in Requests, NEW u \in Users, NEW i \in DOMAIN referrals,
               BeginAccept(r, u, i)
        PROVE  UNCHANGED casesVars
    BY <2>3 DEF BeginAccept
  <2>4. ASSUME NEW r \in Requests, TransitionCase(r)
        PROVE  OneCaseEach'
    BY <1>1, <1>2, <2>4 DEF TransitionCase, casesVars
  <2> QED BY <1>1, <1>3, <1>4, <1>5, <2>1, <2>2, <2>3, <2>4 DEF CounselingNext
<1>6. CASE RecommendationNext
  BY <1>1, <1>6 DEF RecommendationNext, RunRules, BeginGeneration, BeginDecision, GetDraft,
                    CreateDraft, RefuseDraft, CommitGeneration, Decide
<1> QED BY <1>1, <1>5, <1>6 DEF Next, vars, casesVars, Abandon

(* However many accept requests are under way, and whoever loses or gets   *)
(* the role meanwhile: a referral is accepted once, has its own case, of   *)
(* its counselor and enrollment, and no other way opens a case.            *)
THEOREM OneCasePerAcceptedReferral == Spec => []OneCaseEach
BY Typing, InitReferrals, StepReferrals, PTL DEF Spec

-------------------------------------------------------------------------------
(* The decisions of a recommendation. *)
LEMMA DecidedTrail ==
  ASSUME NEW rec \in Recs, TrailOf(rec), NEW t \in Transitions[rec.status], NEW u \in Users
  PROVE  TrailOf(Decided(rec, t, u))
<1> DEFINE d == rec.decisions
           n == Len(d)
           row == [from |-> rec.status, to |-> t, by |-> u]
           x == Decided(rec, t, u)
<1>0. /\ d \in Seq(Decisions) /\ rec.status \in Statuses /\ row \in Decisions
      /\ n \in Nat /\ DOMAIN d = 1 .. n
  BY TransitionsLead DEF Recs, Decisions
<1>1. /\ x.status = t /\ x.decisions = Append(d, row)
      /\ x.reviewer = IF t = "approved" THEN u ELSE rec.reviewer
  BY DEF Decided, Recs
<1>2. row.from = rec.status /\ row.to = t /\ row.by = u
  OBVIOUS
<1> HIDE DEF d, row, x
<1>3. /\ Len(x.decisions) = n + 1 /\ DOMAIN x.decisions = 1 .. n + 1
      /\ x.decisions[n + 1] = row
      /\ \A k \in 1 .. n : x.decisions[k] = d[k]
  BY <1>0, <1>1
<1> HIDE DEF n
<1>4. From(x, n + 1) = t /\ From(rec, n) = rec.status
  BY <1>0, <1>2, <1>3 DEF From, TrailOf, d, n
<1>5. \A k \in 0 .. n : From(x, k) = From(rec, k)
  BY <1>0, <1>3 DEF From, d
<1>6. ASSUME NEW k \in DOMAIN x.decisions
      PROVE  /\ x.decisions[k].from = From(x, k - 1)
             /\ x.decisions[k].to \in Transitions[From(x, k - 1)]
  <2>1. CASE k = n + 1
    <3>1. k - 1 = n /\ n \in 0 .. n
      BY <2>1, <1>0
    <3> QED BY <2>1, <3>1, <1>2, <1>3, <1>4, <1>5
  <2>2. CASE k # n + 1
    <3>1. k \in 1 .. n /\ k - 1 \in 0 .. n /\ k \in DOMAIN d
      BY <2>2, <1>0, <1>3
    <3>2. d[k].from = From(rec, k - 1) /\ d[k].to \in Transitions[From(rec, k - 1)]
      BY <3>1 DEF TrailOf, d
    <3> QED BY <3>1, <3>2, <1>3, <1>5
  <2> QED BY <2>1, <2>2
<1>7. Approvals(x) = Approvals(rec) \cup (IF t = "approved" THEN {n + 1} ELSE {})
  BY <1>0, <1>2, <1>3 DEF Approvals, d
<1>8. \A k \in Approvals(rec) : k # n + 1 /\ x.decisions[k] = d[k]
  BY <1>0, <1>3 DEF Approvals, d
<1>9. {x.reviewer} \ {Blank} = {x.decisions[k].by : k \in Approvals(x)}
  <2>1. {rec.reviewer} \ {Blank} = {d[k].by : k \in Approvals(rec)}
    BY DEF TrailOf, d
  <2>2. CASE t = "approved"
    <3>1. rec.reviewer = Blank
      BY <1>0, <2>2, TransitionsLead DEF TrailOf
    <3>2. Approvals(rec) = {}
      BY <2>1, <3>1
    <3>3. Approvals(x) = {n + 1} /\ x.reviewer = u /\ x.decisions[n + 1].by = u
      BY <2>2, <3>2, <1>1, <1>2, <1>3, <1>7
    <3> QED BY <3>3, CounselingAssumption
  <2>3. CASE t # "approved"
    BY <2>1, <2>3, <1>1, <1>7, <1>8, ZenonT(60)
  <2> QED BY <2>2, <2>3
<1>10. x.status \in {"draft", "pending_review"} => x.reviewer = Blank
  BY <1>0, <1>1, TransitionsLead DEF TrailOf
<1>11. x.status = From(x, Len(x.decisions))
  BY <1>1, <1>3, <1>4
<1> QED BY <1>6, <1>9, <1>10, <1>11 DEF TrailOf, x

LEMMA TrailSays == TypeInv /\ TrailInv => DecisionTrail
<1> SUFFICES ASSUME TypeInv, TrailInv, NEW i \in DOMAIN recs
             PROVE  LET rec == recs[i]
                        F(k) == IF k = 0 THEN "draft" ELSE rec.decisions[k].to
                    IN  /\ rec.status = F(Len(rec.decisions))
                        /\ \A k \in DOMAIN rec.decisions :
                             /\ rec.decisions[k].from = F(k - 1)
                             /\ rec.decisions[k].to \in Transitions[F(k - 1)]
                        /\ {rec.reviewer} \ {Blank} =
                             {rec.decisions[k].by : k \in {n \in DOMAIN rec.decisions :
                                                     rec.decisions[n].to = "approved"}}
  BY DEF DecisionTrail
<1>1. TrailOf(recs[i])
  BY DEF TrailInv
<1> QED BY <1>1 DEF TrailOf, From, Approvals

(* The rows of a list that has been joined to another. *)
LEMMA Joined ==
  ASSUME NEW xs \in Seq(Recs), NEW ys \in Seq(Recs)
  PROVE  /\ xs \o ys \in Seq(Recs)
         /\ DOMAIN xs \subseteq DOMAIN (xs \o ys)
         /\ \A i \in DOMAIN xs : (xs \o ys)[i] = xs[i]
         /\ \A k \in DOMAIN ys : /\ Len(xs) + k \in DOMAIN (xs \o ys)
                                 /\ (xs \o ys)[Len(xs) + k] = ys[k]
         /\ \A i \in DOMAIN (xs \o ys) :
              i \in DOMAIN xs \/ \E k \in DOMAIN ys : i = Len(xs) + k
<1> DEFINE zs == xs \o ys
           m == Len(xs)
           n == Len(ys)
<1>1. /\ zs \in Seq(Recs) /\ m \in Nat /\ n \in Nat /\ Len(zs) = m + n
      /\ DOMAIN xs = 1 .. m /\ DOMAIN ys = 1 .. n /\ DOMAIN zs = 1 .. m + n
  OBVIOUS
<1>2. \A i \in 1 .. m : zs[i] = xs[i]
  OBVIOUS
<1>3. \A k \in 1 .. n : zs[m + k] = ys[k]
  OBVIOUS
<1> HIDE DEF zs, m, n
<1>4. \A k \in 1 .. n : m + k \in 1 .. m + n
  BY <1>1
<1>5. ASSUME NEW i \in 1 .. m + n, i \notin 1 .. m
      PROVE  \E k \in 1 .. n : i = m + k
  <2>1. i - m \in 1 .. n /\ i = m + (i - m)
    BY <1>1, <1>5
  <2> QED BY <2>1
<1>6. /\ zs \in Seq(Recs)
      /\ DOMAIN xs \subseteq DOMAIN zs
      /\ \A i \in DOMAIN xs : zs[i] = xs[i]
      /\ \A k \in DOMAIN ys : m + k \in DOMAIN zs /\ zs[m + k] = ys[k]
  BY <1>1, <1>2, <1>3, <1>4
<1>7. \A i \in DOMAIN zs : i \in DOMAIN xs \/ \E k \in DOMAIN ys : i = m + k
  BY <1>1, <1>5
<1> QED BY ONLY <1>6, <1>7 DEF zs, m

(* The drafts in hand: new ones, for audiences that are there. *)
LEMMA MadeAreDrafts ==
  ASSUME TypeInv, DraftsInHand, NEW r \in Requests, request[r] \in Generations
  PROVE  /\ request[r].made \in Seq(Recs) /\ request[r].signal \in Nat
         /\ \A k \in DOMAIN request[r].made :
              /\ request[r].made[k].audience \in AudienceNames
              /\ request[r].made[k] = NewRec(request[r].signal, request[r].made[k].audience)
              /\ request[r].made[k].signal = request[r].signal
              /\ request[r].made[k].status \in Current
<1> DEFINE q == request[r]
<1>1. q.made \in Seq(Recs) /\ q.signal \in Nat /\ q.next \in 1 .. 3
  BY DEF Generations
<1>2. ASSUME NEW k \in DOMAIN q.made
      PROVE  /\ q.made[k].audience \in AudienceNames
             /\ q.made[k] = NewRec(q.signal, q.made[k].audience)
             /\ q.made[k].signal = q.signal
             /\ q.made[k].status \in Current
  <2>1. PICK j \in 1 .. q.next - 1 : q.made[k] = NewRec(q.signal, Audiences[j])
    BY DEF DraftsInHand, DraftsOf
  <2>2. j \in 1 .. 2
    BY <1>1, <2>1
  <2>3. Audiences[j] \in AudienceNames
    BY <2>2, AudiencesAre DEF AudienceNames
  <2>4. /\ NewRec(q.signal, Audiences[j]).audience = Audiences[j]
        /\ NewRec(q.signal, Audiences[j]).signal = q.signal
        /\ NewRec(q.signal, Audiences[j]).status = "draft"
    BY DEF NewRec
  <2> QED BY <2>1, <2>3, <2>4 DEF Current
<1> QED BY <1>1, <1>2

(* A decision, as far as the row it writes. *)
LEMMA DecideWrites ==
  ASSUME TypeInv, NamedIsThere, NEW r \in Requests, Decide(r)
  PROVE  \/ recs' = recs
         \/ \E i \in DOMAIN recs : \E u \in Users, t \in Transitions[recs[i].status] :
              recs' = [recs EXCEPT ![i] = Decided(recs[i], t, u)]
<1>1. request[r] \in Decidings
  BY Shapes DEF TypeInv, Decide
<1>2. request[r].id \in DOMAIN recs /\ request[r].user \in Users
  BY <1>1 DEF NamedIsThere, Named, Decidings
<1>3. CASE ~MayDecide(recs[request[r].id], request[r].target, request[r].text)
  BY <1>3 DEF Decide
<1>4. CASE MayDecide(recs[request[r].id], request[r].target, request[r].text)
  <2>1. request[r].target \in Transitions[recs[request[r].id].status]
    BY <1>4 DEF MayDecide
  <2>2. recs' = [recs EXCEPT ![request[r].id] =
                   Decided(recs[request[r].id], request[r].target, request[r].user)]
    BY <1>4, <1>2 DEF Decide
  <2> QED BY <2>1, <2>2, <1>2
<1> QED BY <1>3, <1>4

(* Which steps write recommendations. *)
LEMMA WhoWrites ==
  ASSUME [Next]_vars
  PROVE  \/ recs' = recs
         \/ \E r \in Requests : CommitGeneration(r)
         \/ \E r \in Requests : Decide(r)
<1>1. CASE RecommendationNext
  BY <1>1 DEF RecommendationNext, RunRules, BeginGeneration, BeginDecision, GetDraft,
              CreateDraft, RefuseDraft, recVars
<1> QED BY <1>1 DEF Next, vars, recVars, Abandon

LEMMA StepTrail ==
  ASSUME TypeInv, NamedIsThere, DraftsInHand, TrailInv, [Next]_vars
  PROVE  TrailInv'
<1>0. recs \in Seq(Recs)
  BY DEF TypeInv
<1>1. CASE recs' = recs
  BY <1>1 DEF TrailInv
<1>2. ASSUME NEW r \in Requests, CommitGeneration(r)
      PROVE  TrailInv'
  <2>1. request[r] \in Generations /\ recs' = recs \o request[r].made
    BY <1>2, Shapes DEF CommitGeneration, TypeInv
  <2>2. /\ request[r].made \in Seq(Recs)
        /\ \A k \in DOMAIN request[r].made : TrailOf(request[r].made[k])
    BY <2>1, MadeAreDrafts, NewRecIsTyped
  <2>3. \A i \in DOMAIN recs' : TrailOf(recs'[i])
    BY <1>0, <2>1, <2>2, Joined DEF TrailInv
  <2> QED BY <2>3 DEF TrailInv
<1>3. ASSUME NEW i \in DOMAIN recs, NEW u \in Users, NEW t \in Transitions[recs[i].status],
             recs' = [recs EXCEPT ![i] = Decided(recs[i], t, u)]
      PROVE  TrailInv'
  <2>1. recs[i] \in Recs /\ TrailOf(recs[i])
    BY <1>0 DEF TrailInv
  <2>2. TrailOf(Decided(recs[i], t, u))
    BY <2>1, DecidedTrail
  <2>3. DOMAIN recs' = DOMAIN recs
          /\ \A j \in DOMAIN recs : recs'[j] = IF j = i THEN Decided(recs[i], t, u) ELSE recs[j]
    BY <1>0, <1>3
  <2> QED BY <2>2, <2>3 DEF TrailInv
<1> QED BY <1>1, <1>2, <1>3, WhoWrites, DecideWrites

-------------------------------------------------------------------------------
(* A step that gives no request a draft and writes no row changes nothing  *)
(* about the audiences. *)
LEMMA NoNewDraft ==
  ASSUME AudienceInv, recs' = recs,
         \A s \in Requests : request'[s] \in Generations => request'[s] = request[s]
  PROVE  AudienceInv'
<1>1. DraftsInHand'
  BY DEF AudienceInv, DraftsInHand
<1>2. NoDraftIsShared'
  BY DEF AudienceInv, NoDraftIsShared
<1> QED BY <1>1, <1>2 DEF AudienceInv

(* One generation moves on. *)
LEMMA GenerationMoves ==
  ASSUME TypeInv, AudienceInv, recs' = recs, NEW r \in Requests, NEW q \in InHand,
         request' = [request EXCEPT ![r] = q], DraftsOf(q, recs),
         \A s \in Requests \ {r} :
           request[s] \in Generations => Disjoint(q, request[s]) /\ Disjoint(request[s], q)
  PROVE  AudienceInv'
<1>1. \A s \in Requests : request'[s] = IF s = r THEN q ELSE request[s]
  BY DEF TypeInv
<1>2. DraftsInHand'
  BY <1>1 DEF AudienceInv, DraftsInHand
<1>3. NoDraftIsShared'
  BY <1>1 DEF AudienceInv, NoDraftIsShared
<1> QED BY <1>2, <1>3 DEF AudienceInv

LEMMA GetDraftKeeps ==
  ASSUME TypeInv, AudienceInv, NEW r \in Requests, GetDraft(r)
  PROVE  AudienceInv'
<1> DEFINE p == request[r]
           q == [p EXCEPT !.next = @ + 1]
<1>1. p \in Generations /\ p.next \in 1 .. 2
  BY DraftIsTyped DEF GetDraft
<1>2. q \in Generations /\ q.signal = p.signal /\ q.made = p.made /\ q.next = p.next + 1
  BY <1>1 DEF Generations
<1>3. request' = [request EXCEPT ![r] = q] /\ recs' = recs
  BY DEF GetDraft, recVars, TypeInv
<1>4. \E i \in DOMAIN recs : Matches(recs[i], p.signal, Audiences[p.next])
  BY DEF GetDraft, Existing
<1>5. DraftsOf(p, recs)
  BY <1>1 DEF AudienceInv, DraftsInHand
<1> HIDE DEF p, q
<1>6. \A j \in 1 .. q.next - 1 : j \in 1 .. p.next - 1 \/ j = p.next
  BY <1>1, <1>2
<1>7. 1 .. p.next - 1 \subseteq 1 .. q.next - 1
  BY <1>1, <1>2
<1>8. DraftsOf(q, recs)
  <2>1. \A k \in DOMAIN q.made :
          \E j \in 1 .. q.next - 1 : q.made[k] = NewRec(q.signal, Audiences[j])
    BY <1>2, <1>5, <1>7 DEF DraftsOf
  <2>2. \A j \in 1 .. q.next - 1 :
          \/ \E i \in DOMAIN recs : Matches(recs[i], q.signal, Audiences[j])
          \/ \E k \in DOMAIN q.made : q.made[k].audience = Audiences[j]
    BY <1>2, <1>4, <1>5, <1>6 DEF DraftsOf
  <2> QED BY <2>1, <2>2, <1>2, <1>5 DEF DraftsOf
<1>9. \A s \in Requests \ {r} :
        request[s] \in Generations => Disjoint(q, request[s]) /\ Disjoint(request[s], q)
  BY <1>1, <1>2 DEF AudienceInv, NoDraftIsShared, Disjoint, p
<1> QED BY <1>2, <1>3, <1>8, <1>9, GenerationMoves DEF InHand

LEMMA CreateDraftKeeps ==
  ASSUME TypeInv, AudienceInv, NEW r \in Requests, CreateDraft(r)
  PROVE  AudienceInv'
<1> DEFINE p == request[r]
           d == Draft(r)
           a == Audiences[p.next]
           q == [p EXCEPT !.next = @ + 1, !.made = Append(@, d)]
           n == Len(p.made) + 1
<1>1. /\ p \in Generations /\ p.next \in 1 .. 2 /\ a \in AudienceNames
      /\ d = NewRec(p.signal, a) /\ d \in Recs
  BY DraftIsTyped DEF CreateDraft
<1>2. p.made \in Seq(Recs) /\ DraftsOf(p, recs)
  BY <1>1 DEF Generations, AudienceInv, DraftsInHand
<1>3. request' = [request EXCEPT ![r] = q] /\ recs' = recs
  BY DEF CreateDraft, recVars, TypeInv
<1>4. /\ ~InsertedElsewhere(r)
      /\ \A i \in DOMAIN recs : Matches(recs[i], p.signal, a) => recs[i].status \notin Current
  BY DEF CreateDraft, Existing
<1>5. d.audience = a
  BY <1>1 DEF NewRec
<1>6. \A s \in Requests \ {r} : request[s] \in Generations =>
        \A k \in DOMAIN request[s].made : request[s].made[k] # d
  BY <1>4, OpOf DEF InsertedElsewhere
<1>7. q.signal = p.signal /\ q.made = Append(p.made, d) /\ q.next = p.next + 1
  BY <1>1 DEF Generations
<1>8. q \in InHand
  <2> DEFINE m == Append(p.made, d)
  <2>1. m \in Seq(Recs) /\ p.next + 1 \in 1 .. 3
    BY <1>1, <1>2
  <2> HIDE DEF m, d
  <2>2. [p EXCEPT !.next = @ + 1] \in Generations
    BY <1>1, <2>1 DEF Generations
  <2>3. q = [[p EXCEPT !.next = @ + 1] EXCEPT !.made = m]
    BY DEF m
  <2>4. [[p EXCEPT !.next = @ + 1] EXCEPT !.made = m] \in Generations
    BY <2>1, <2>2 DEF Generations
  <2> QED BY <2>3, <2>4 DEF InHand
<1> HIDE DEF p, d, a, q
<1>9. /\ DOMAIN q.made = DOMAIN p.made \cup {n} /\ n \notin DOMAIN p.made
      /\ q.made[n] = d
      /\ \A k \in DOMAIN p.made : q.made[k] = p.made[k]
  BY <1>1, <1>2, <1>7
<1> HIDE DEF n
<1>10. /\ 1 .. q.next - 1 = (1 .. p.next - 1) \cup {p.next}
       /\ \A j \in 1 .. p.next - 1 : j \in 1 .. 2 /\ j # p.next
  BY <1>1, <1>7
<1>11. \A k \in DOMAIN p.made : p.made[k] # d
  <2> SUFFICES ASSUME NEW k \in DOMAIN p.made PROVE p.made[k].audience # a
    BY <1>5
  <2>1. PICK j \in 1 .. p.next - 1 : p.made[k] = NewRec(p.signal, Audiences[j])
    BY <1>2 DEF DraftsOf
  <2>2. p.made[k].audience = Audiences[j]
    BY <2>1 DEF NewRec
  <2>3. Audiences[j] # Audiences[p.next]
    BY <1>1, <1>10, <2>1, AudiencesAre
  <2> QED BY <2>2, <2>3 DEF a
<1>12. DraftsOf(q, recs)
  <2>1. \A k \in DOMAIN q.made :
          \E j \in 1 .. q.next - 1 : q.made[k] = NewRec(q.signal, Audiences[j])
    <3> SUFFICES ASSUME NEW k \in DOMAIN q.made
                 PROVE  \E j \in 1 .. q.next - 1 : q.made[k] = NewRec(q.signal, Audiences[j])
      OBVIOUS
    <3>1. CASE k = n
      BY <3>1, <1>1, <1>7, <1>9, <1>10 DEF a
    <3>2. CASE k # n
      BY <3>2, <1>2, <1>7, <1>9, <1>10 DEF DraftsOf
    <3> QED BY <3>1, <3>2
  <2>2. \A k, l \in DOMAIN q.made : q.made[k] = q.made[l] => k = l
    BY <1>2, <1>9, <1>11 DEF DraftsOf
  <2>3. \A k \in DOMAIN q.made, i \in DOMAIN recs :
          Matches(recs[i], q.signal, q.made[k].audience) => recs[i].status \notin Current
    BY <1>2, <1>4, <1>5, <1>7, <1>9 DEF DraftsOf
  <2>4. \A j \in 1 .. q.next - 1 :
          \/ \E i \in DOMAIN recs : Matches(recs[i], q.signal, Audiences[j])
          \/ \E k \in DOMAIN q.made : q.made[k].audience = Audiences[j]
    <3> SUFFICES ASSUME NEW j \in 1 .. q.next - 1
                 PROVE  \/ \E i \in DOMAIN recs : Matches(recs[i], q.signal, Audiences[j])
                        \/ \E k \in DOMAIN q.made : q.made[k].audience = Audiences[j]
      OBVIOUS
    <3>1. CASE j = p.next
      BY <3>1, <1>5, <1>9 DEF a
    <3>2. CASE j # p.next
      BY <3>2, <1>2, <1>7, <1>9, <1>10 DEF DraftsOf
    <3> QED BY <3>1, <3>2
  <2> QED BY <2>1, <2>2, <2>3, <2>4 DEF DraftsOf
<1>13. \A s \in Requests \ {r} :
         request[s] \in Generations => Disjoint(q, request[s]) /\ Disjoint(request[s], q)
  <2> SUFFICES ASSUME NEW s \in Requests \ {r}, request[s] \in Generations
               PROVE  Disjoint(q, request[s]) /\ Disjoint(request[s], q)
    OBVIOUS
  <2>1. Disjoint(p, request[s]) /\ Disjoint(request[s], p)
    BY <1>1 DEF AudienceInv, NoDraftIsShared, p
  <2> QED BY <2>1, <1>6, <1>9 DEF Disjoint
<1> QED BY <1>3, <1>8, <1>12, <1>13, GenerationMoves

LEMMA CommitGenerationKeeps ==
  ASSUME TypeInv, AudienceInv, NEW r \in Requests, CommitGeneration(r)
  PROVE  AudienceInv'
<1> DEFINE p == request[r]
           m == p.made
           n == Len(recs)
<1>1. p \in Generations /\ p.next = 3
  <2>1. p \in Generations
    BY Shapes DEF CommitGeneration, TypeInv
  <2> QED BY <2>1, AudiencesAre DEF CommitGeneration, Generations
<1>2. /\ m \in Seq(Recs) /\ recs \in Seq(Recs) /\ p.signal \in Nat
      /\ \A k \in DOMAIN m : /\ m[k] = NewRec(p.signal, m[k].audience)
                             /\ m[k].signal = p.signal
                             /\ m[k].status \in Current
  BY <1>1, MadeAreDrafts DEF AudienceInv, TypeInv
<1>3. DraftsOf(p, recs)
  BY <1>1 DEF AudienceInv, DraftsInHand
<1>4. recs' = recs \o m /\ request' = [request EXCEPT ![r] = Idle]
  BY DEF CommitGeneration, Finish
<1>5. \A s \in Requests : request'[s] \in Generations => s # r /\ request'[s] = request[s]
  BY <1>4, OpOf DEF TypeInv
<1>6. \A s \in Requests \ {r} : request[s] \in Generations => Disjoint(p, request[s])
  BY <1>1 DEF AudienceInv, NoDraftIsShared
<1> HIDE DEF p, m
<1>7. /\ DOMAIN recs \subseteq DOMAIN recs'
      /\ \A i \in DOMAIN recs : recs'[i] = recs[i]
      /\ \A k \in DOMAIN m : n + k \in DOMAIN recs' /\ recs'[n + k] = m[k]
      /\ \A i \in DOMAIN recs' : i \in DOMAIN recs \/ \E k \in DOMAIN m : i = n + k
  BY <1>2, <1>4, Joined
<1> HIDE DEF n
<1>8. DraftsInHand'
  <2> SUFFICES ASSUME NEW s \in Requests \ {r}, request[s] \in Generations
               PROVE  DraftsOf(request[s], recs')
    BY <1>5 DEF DraftsInHand
  <2>1. DraftsOf(request[s], recs) /\ Disjoint(p, request[s])
    BY <1>6 DEF AudienceInv, DraftsInHand
  <2>2. \A k \in DOMAIN request[s].made :
          request[s].made[k] = NewRec(request[s].signal, request[s].made[k].audience)
    BY MadeAreDrafts DEF AudienceInv
  <2>3. ASSUME NEW k \in DOMAIN request[s].made, NEW i \in DOMAIN recs',
               Matches(recs'[i], request[s].signal, request[s].made[k].audience)
        PROVE  recs'[i].status \notin Current
    <3>1. CASE i \in DOMAIN recs
      BY <3>1, <2>1, <2>3, <1>7 DEF DraftsOf
    <3>2. ASSUME NEW l \in DOMAIN m, i = n + l
          PROVE  FALSE
      <4>1. m[l].signal = request[s].signal /\ m[l].audience = request[s].made[k].audience
        BY <3>2, <2>3, <1>7 DEF Matches
      <4>2. m[l] = request[s].made[k]
        BY <4>1, <2>2, <1>2
      <4> QED BY <4>2, <2>1 DEF Disjoint, m
    <3> QED BY <3>1, <3>2, <1>7
  <2>4. \A j \in 1 .. request[s].next - 1 :
          \/ \E i \in DOMAIN recs' : Matches(recs'[i], request[s].signal, Audiences[j])
          \/ \E k \in DOMAIN request[s].made : request[s].made[k].audience = Audiences[j]
    BY <2>1, <1>7 DEF DraftsOf
  <2> QED BY <2>1, <2>3, <2>4 DEF DraftsOf
<1>9. NoDraftIsShared'
  BY <1>5 DEF AudienceInv, NoDraftIsShared
<1>10. OneCurrent(recs')
  <2>1. ASSUME NEW k \in DOMAIN m, NEW i \in DOMAIN recs,
               recs[i].signal = m[k].signal, recs[i].audience = m[k].audience
        PROVE  recs[i].status \notin Current
    <3>1. Matches(recs[i], p.signal, m[k].audience)
      BY <2>1, <1>2 DEF Matches
    <3> QED BY <3>1, <1>3 DEF DraftsOf, m
  <2>2. ASSUME NEW k \in DOMAIN m, NEW l \in DOMAIN m, m[k].audience = m[l].audience
        PROVE  k = l
    <3>1. m[k] = m[l]
      BY <2>2, <1>2
    <3> QED BY <3>1, <1>3 DEF DraftsOf, m
  <2> SUFFICES ASSUME NEW i \in DOMAIN recs', NEW j \in DOMAIN recs',
                      recs'[i].signal = recs'[j].signal,
                      recs'[i].audience = recs'[j].audience,
                      recs'[i].status \in Current, recs'[j].status \in Current
               PROVE  i = j
    BY DEF OneCurrent
  <2>3. CASE i \in DOMAIN recs /\ j \in DOMAIN recs
    BY <2>3, <1>7 DEF AudienceInv, OneCurrent
  <2>4. CASE i \in DOMAIN recs /\ j \notin DOMAIN recs
    <3>1. PICK k \in DOMAIN m : j = n + k
      BY <2>4, <1>7
    <3> QED BY <2>4, <3>1, <2>1, <1>7
  <2>5. CASE i \notin DOMAIN recs /\ j \in DOMAIN recs
    <3>1. PICK k \in DOMAIN m : i = n + k
      BY <2>5, <1>7
    <3> QED BY <2>5, <3>1, <2>1, <1>7
  <2>6. CASE i \notin DOMAIN recs /\ j \notin DOMAIN recs
    <3>1. PICK k \in DOMAIN m : i = n + k
      BY <2>6, <1>7
    <3>2. PICK l \in DOMAIN m : j = n + l
      BY <2>6, <1>7
    <3> QED BY <3>1, <3>2, <2>2, <1>7
  <2> QED BY <2>3, <2>4, <2>5, <2>6
<1>11. AllServed(recs')
  <2>1. \A a \in DOMAIN Audiences :
          \E j \in DOMAIN recs' : Matches(recs'[j], p.signal, Audiences[a])
    <3> SUFFICES ASSUME NEW a \in 1 .. 2
                 PROVE  \E j \in DOMAIN recs' : Matches(recs'[j], p.signal, Audiences[a])
      BY AudiencesAre
    <3>1. \/ \E i \in DOMAIN recs : Matches(recs[i], p.signal, Audiences[a])
          \/ \E k \in DOMAIN m : m[k].audience = Audiences[a]
      BY <1>1, <1>3 DEF DraftsOf, m
    <3>2. CASE \E i \in DOMAIN recs : Matches(recs[i], p.signal, Audiences[a])
      BY <3>2, <1>7
    <3>3. CASE \E k \in DOMAIN m : m[k].audience = Audiences[a]
      <4>1. PICK k \in DOMAIN m : m[k].audience = Audiences[a]
        BY <3>3
      <4>2. Matches(recs'[n + k], p.signal, Audiences[a]) /\ n + k \in DOMAIN recs'
        BY <4>1, <1>2, <1>7 DEF Matches
      <4> QED BY <4>2
    <3> QED BY <3>1, <3>2, <3>3
  <2> SUFFICES ASSUME NEW i \in DOMAIN recs', NEW a \in DOMAIN Audiences
               PROVE  \E j \in DOMAIN recs' : Matches(recs'[j], recs'[i].signal, Audiences[a])
    BY DEF AllServed
  <2>2. CASE i \in DOMAIN recs
    BY <2>2, <1>7 DEF AudienceInv, AllServed
  <2>3. CASE i \notin DOMAIN recs
    <3>1. PICK k \in DOMAIN m : i = n + k
      BY <2>3, <1>7
    <3>2. recs'[i].signal = p.signal
      BY <3>1, <1>2, <1>7
    <3> QED BY <2>1, <3>2
  <2> QED BY <2>2, <2>3
<1> QED BY <1>8, <1>9, <1>10, <1>11 DEF AudienceInv

(* A decision takes a row out of the current ones at most. *)
LEMMA DecideKeeps ==
  ASSUME TypeInv, NamedIsThere, AudienceInv, NEW r \in Requests, Decide(r)
  PROVE  AudienceInv'
<1>0. recs \in Seq(Recs)
  BY DEF TypeInv
<1>1. \A s \in Requests : request'[s] \in Generations => request'[s] = request[s]
  BY OpOf DEF Decide, Finish, TypeInv
<1>2. CASE recs' = recs
  BY <1>1, <1>2, NoNewDraft
<1>3. ASSUME NEW i \in DOMAIN recs, NEW u \in Users, NEW t \in Transitions[recs[i].status],
             recs' = [recs EXCEPT ![i] = Decided(recs[i], t, u)]
      PROVE  AudienceInv'
  <2> DEFINE x == Decided(recs[i], t, u)
  <2>0. recs[i] \in Recs
    BY <1>0
  <2>1. recs[i] \in Recs /\ recs[i].status \in Statuses
    BY <2>0 DEF Recs
  <2>2. /\ x.signal = recs[i].signal /\ x.audience = recs[i].audience
        /\ x.status = t /\ (t \in Current => recs[i].status \in Current)
    BY <2>1, TransitionsLead DEF Decided, Recs
  <2> HIDE DEF x
  <2>3. DOMAIN recs' = DOMAIN recs
          /\ \A j \in DOMAIN recs : recs'[j] = IF j = i THEN x ELSE recs[j]
    BY <1>0, <1>3 DEF x
  <2>4. \A j \in DOMAIN recs :
          /\ recs'[j].signal = recs[j].signal /\ recs'[j].audience = recs[j].audience
          /\ recs'[j].status \in Current => recs[j].status \in Current
    BY <2>2, <2>3
  <2>5. DraftsInHand'
    <3> SUFFICES ASSUME NEW s \in Requests, request[s] \in Generations
                 PROVE  DraftsOf(request[s], recs')
      BY <1>1 DEF DraftsInHand
    <3>1. DraftsOf(request[s], recs)
      BY DEF AudienceInv, DraftsInHand
    <3> QED BY <3>1, <2>3, <2>4 DEF DraftsOf, Matches
  <2>6. NoDraftIsShared'
    BY <1>1 DEF AudienceInv, NoDraftIsShared
  <2>7. OneCurrent(recs')
    BY <2>3, <2>4 DEF AudienceInv, OneCurrent
  <2>8. AllServed(recs')
    BY <2>3, <2>4 DEF AudienceInv, AllServed, Matches
  <2> QED BY <2>5, <2>6, <2>7, <2>8 DEF AudienceInv
<1> QED BY <1>2, <1>3, DecideWrites

LEMMA BeginGenerationKeeps ==
  ASSUME TypeInv, AudienceInv, NEW r \in Requests, NEW u \in Users, BeginGeneration(r, u)
  PROVE  AudienceInv'
<1> DEFINE q == [op |-> "generate", signal |-> signals, made |-> <<>>, next |-> 1]
<1>1. q \in Generations /\ q.next = 1 /\ DOMAIN q.made = {}
  BY DEF Generations, TypeInv
<1>2. request' = [request EXCEPT ![r] = q] /\ recs' = recs
  BY DEF BeginGeneration, Begin, recVars
<1> HIDE DEF q
<1>3. DraftsOf(q, recs)
  BY <1>1 DEF DraftsOf
<1>4. \A s : Disjoint(q, request[s]) /\ Disjoint(request[s], q)
  BY <1>1 DEF Disjoint
<1> QED BY <1>1, <1>2, <1>3, <1>4, GenerationMoves DEF InHand

LEMMA InitAudiences == Init => TrailInv /\ AudienceInv
<1> SUFFICES ASSUME Init PROVE TrailInv /\ AudienceInv
  OBVIOUS
<1>1. recs = << >> /\ \A r \in Requests : request[r] \notin Generations
  BY OpOf DEF Init, RecommendationInit, StaffInit
<1>2. DOMAIN recs = {}
  BY <1>1
<1> QED BY <1>1, <1>2
        DEF TrailInv, AudienceInv, DraftsInHand, NoDraftIsShared, OneCurrent, AllServed

(* Any other request that begins is none that holds drafts. *)
LEMMA OthersHoldNoDraft ==
  ASSUME TypeInv, AudienceInv, recs' = recs, NEW r \in Requests, NEW q,
         request' = [request EXCEPT ![r] = q], q.op # "generate"
  PROVE  AudienceInv'
BY NoNewDraft, OpOf DEF TypeInv

LEMMA BeginsWithoutDraft ==
  ASSUME TypeInv, AudienceInv, recs' = recs, NEW r \in Requests, NEW q,
         Begin(r, q), q.op # "generate"
  PROVE  AudienceInv'
BY OthersHoldNoDraft DEF Begin

LEMMA StepAudiences ==
  ASSUME TypeInv, NamedIsThere, AudienceInv, [Next]_vars
  PROVE  AudienceInv'
<1>1. CASE StaffNext /\ UNCHANGED <<guide, casesVars, recVars>>
  BY <1>1, NoNewDraft DEF StaffNext, AssignRole, WithdrawRole, recVars
<1>2. CASE GuidanceNext /\ UNCHANGED <<casesVars, recVars>>
  <2>1. ASSUME NEW u \in Users, NEW t \in Users, NEW g \in Guides, NEW e \in Enrollments,
               NEW term \in Terms, AssignGuide(u, g, t, e, term)
        PROVE  AudienceInv'
    BY <1>2, <2>1, NoNewDraft DEF AssignGuide, recVars
  <2>2. ASSUME NEW r \in Requests, NEW u \in Users, NEW g \in Guides, NEW term \in Terms,
               BeginGuideUpdate(r, u, g, term)
        PROVE  AudienceInv'
    <3> DEFINE q == [op |-> "guide", id |-> g, copy |-> [guide[g] EXCEPT !.term = term]]
    <3>1. Begin(r, q) /\ recs' = recs
      BY <1>2, <2>2 DEF BeginGuideUpdate, recVars
    <3>2. q.op # "generate"
      OBVIOUS
    <3> HIDE DEF q
    <3> QED BY <3>1, <3>2, BeginsWithoutDraft
  <2>3. ASSUME NEW r \in Requests, SaveGuide(r)
        PROVE  AudienceInv'
    BY <1>2, <2>3, OthersHoldNoDraft, OpOf DEF SaveGuide, Finish, recVars
  <2>4. ASSUME NEW u \in Users, NEW g \in Guides, DeleteGuide(u, g)
        PROVE  AudienceInv'
    BY <1>2, <2>4, NoNewDraft DEF DeleteGuide, recVars
  <2>5. CASE DayPasses
    <3>1. ASSUME NEW s \in Requests, request'[s] \in Generations
          PROVE  request'[s] = request[s]
      <4>1. CASE request[s].op # "guide"
        BY <2>5, <4>1 DEF DayPasses
      <4>2. CASE request[s].op = "guide"
        <5>1. request[s] \in GuideUpdates
          BY <4>2, Shapes DEF TypeInv
        <5>2. PICK c : request'[s] = [request[s] EXCEPT !.copy = c]
          BY <2>5, <4>2 DEF DayPasses
        <5>3. request'[s].op = "guide"
          BY <5>1, <5>2 DEF GuideUpdates
        <5> QED BY <3>1, <5>3, OpOf
      <4> QED BY <4>1, <4>2
    <3> QED BY <1>2, <3>1, NoNewDraft DEF recVars
  <2> QED BY <1>2, <2>1, <2>2, <2>3, <2>4, <2>5 DEF GuidanceNext
<1>3. CASE CounselingNext /\ UNCHANGED recVars
  <2>0. recs' = recs
    BY <1>3 DEF recVars
  <2>1. ASSUME NEW r \in Requests, NEW u \in Users, NEW i \in DOMAIN cases,
               NEW target \in DOMAIN CaseTransitions, BeginCaseTransition(r, u, i, target)
        PROVE  AudienceInv'
    <3> DEFINE q == [op |-> "case", id |-> i, target |-> target]
    <3>1. Begin(r, q) /\ recs' = recs
      BY <2>0, <2>1 DEF BeginCaseTransition
    <3>2. q.op # "generate"
      OBVIOUS
    <3> HIDE DEF q
    <3> QED BY <3>1, <3>2, BeginsWithoutDraft
  <2>2. ASSUME NEW r \in Requests, NEW u \in Users, NEW i \in DOMAIN cases,
               NEW e \in Enrollments, NEW t \in Users, BeginReferral(r, u, i, e, t)
        PROVE  AudienceInv'
    <3> DEFINE q == [op |-> "refer", id |-> i, enrollment |-> e, counselor |-> t]
    <3>1. Begin(r, q) /\ recs' = recs
      BY <2>0, <2>2 DEF BeginReferral
    <3>2. q.op # "generate"
      OBVIOUS
    <3> HIDE DEF q
    <3> QED BY <3>1, <3>2, BeginsWithoutDraft
  <2>3. ASSUME NEW r \in Requests, NEW u \in Users, NEW i \in DOMAIN referrals,
               BeginAccept(r, u, i)
        PROVE  AudienceInv'
    <3> DEFINE q == [op |-> "accept", id |-> i, user |-> u]
    <3>1. Begin(r, q) /\ recs' = recs
      BY <2>0, <2>3 DEF BeginAccept
    <3>2. q.op # "generate"
      OBVIOUS
    <3> HIDE DEF q
    <3> QED BY <3>1, <3>2, BeginsWithoutDraft
  <2>4. ASSUME NEW r \in Requests, TransitionCase(r) \/ SendReferral(r) \/ AcceptReferral(r)
        PROVE  AudienceInv'
    BY <2>0, <2>4, OthersHoldNoDraft, OpOf DEF TransitionCase, SendReferral, AcceptReferral, Finish
  <2> QED BY <1>3, <2>1, <2>2, <2>3, <2>4 DEF CounselingNext
<1>4. CASE RecommendationNext
  <2>1. ASSUME NEW found \in BOOLEAN, RunRules(found)
        PROVE  AudienceInv'
    BY <2>1, NoNewDraft DEF RunRules
  <2>2. ASSUME NEW r \in Requests, NEW u \in Users, NEW i \in DOMAIN recs,
               NEW target \in Statuses, NEW text \in BOOLEAN, BeginDecision(r, u, i, target, text)
        PROVE  AudienceInv'
    <3> DEFINE q == [op |-> "decide", id |-> i, target |-> target, text |-> text, user |-> u]
    <3>1. Begin(r, q) /\ recs' = recs
      BY <2>2 DEF BeginDecision, recVars
    <3>2. q.op # "generate"
      OBVIOUS
    <3> HIDE DEF q
    <3> QED BY <3>1, <3>2, BeginsWithoutDraft
  <2>3. ASSUME NEW r \in Requests, RefuseDraft(r)
        PROVE  AudienceInv'
    BY <2>3, OthersHoldNoDraft, OpOf DEF RefuseDraft, Finish, recVars
  <2> QED BY <1>4, <2>1, <2>2, <2>3, BeginGenerationKeeps, GetDraftKeeps, CreateDraftKeeps,
             CommitGenerationKeeps, DecideKeeps DEF RecommendationNext
<1>5. ASSUME NEW r \in Requests, Abandon(r)
      PROVE  AudienceInv'
  BY <1>5, OthersHoldNoDraft, OpOf DEF Abandon, Finish, recVars
<1>6. CASE UNCHANGED vars
  BY <1>6, NoNewDraft DEF vars
<1> QED BY <1>1, <1>2, <1>3, <1>4, <1>5, <1>6 DEF Next

LEMMA Recommending == Spec => [](TypeInv /\ TrailInv /\ AudienceInv)
<1>1. Init => TypeInv /\ NamedIsThere /\ TrailInv /\ AudienceInv
  BY InitType, InitAudiences
<1>2. TypeInv /\ NamedIsThere /\ TrailInv /\ AudienceInv /\ [Next]_vars
        => TypeInv' /\ NamedIsThere' /\ TrailInv' /\ AudienceInv'
  <2>1. AudienceInv => DraftsInHand
    BY DEF AudienceInv
  <2> QED BY <2>1, StepType, StepTrail, StepAudiences
<1> QED BY <1>1, <1>2, PTL DEF Spec

(* However reviewers, guide teachers and generations overlap, the          *)
(* decisions recorded for a recommendation lead from its draft to its      *)
(* status without a gap, and its reviewer is whoever approved it:          *)
(* transition_recommendation decides on the locked row.                    *)
THEOREM DecisionsLeaveATrail == Spec => []DecisionTrail
BY Recommending, TrailSays, PTL

(* A signal's recommendations come for every audience or for none, and for *)
(* one audience one is current at most: a generation commits all of its    *)
(* drafts together, what it found stays, since no row is removed, and what *)
(* it made is kept from others by the unique index.                        *)
THEOREM AudiencesAreServedTogether == Spec => []AudiencesServedTogether
<1>1. TypeInv /\ AudienceInv => AudiencesServedTogether
  <2> SUFFICES ASSUME TypeInv, AudienceInv,
                      NEW s \in {recs[i].signal : i \in DOMAIN recs}, NEW a \in DOMAIN Audiences
               PROVE  LET Of == {i \in DOMAIN recs : Matches(recs[i], s, Audiences[a])}
                      IN  /\ Of # {}
                          /\ Cardinality({i \in Of : recs[i].status \in Current}) <= 1
    BY DEF AudiencesServedTogether
  <2> DEFINE Of == {i \in DOMAIN recs : Matches(recs[i], s, Audiences[a])}
             One == {i \in Of : recs[i].status \in Current}
  <2>1. Of # {}
    BY DEF AudienceInv, AllServed
  <2>2. \A i, j \in One : i = j
    BY DEF AudienceInv, OneCurrent, Matches
  <2> HIDE DEF One
  <2>3. Cardinality(One) <= 1
    <3>1. CASE One = {}
      BY <3>1, FS_EmptySet
    <3>2. CASE One # {}
      <4>1. PICK i \in One : One = {i}
        BY <2>2, <3>2
      <4> QED BY <4>1, FS_Singleton
    <3> QED BY <3>1, <3>2
  <2> QED BY <2>1, <2>3 DEF One
<1> QED BY <1>1, Recommending, PTL

===============================================================================
