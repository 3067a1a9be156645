------------------------- MODULE EvaluationAnalytics -------------------------
(***************************************************************************)
(* What the school computes from the monthly evaluations (evaluations):    *)
(* the scores of a month, the summary and the rank of a student on his own *)
(* page, and the dashboard of a class or of the school.  Nothing of it is  *)
(* stored: each page computes it from the metrics of the moment.           *)
(*                                                                         *)
(* Scores are hundredths, rounded half up: the ties that Python rounds to  *)
(* even need two thousandths, which the catalogue's weights do not make.   *)
(* One framework version is modelled; with two in one month, which of them *)
(* is read last is open.                                                   *)
(***************************************************************************)
EXTENDS Integers, Sequences, FiniteSetsExt, SequencesExt

CONSTANTS
  Enrollments,   \* those of one school and year
  Classes,       \* its classes
  Months,        \* month_no
  DomainOf,      \* METRIC_CATALOG: the domain of each catalogued metric
  Weight,        \* DOMAIN_DEFINITIONS: the weight of each domain
  Forms,         \* the rows of metrics that an evaluation may hold
  FinalPercent,  \* EVALUATION_FINAL_COMPLETION_PERCENT
  Epsilon,       \* EVALUATION_TREND_EPSILON, in hundredths
  MaxEntered     \* bound: live evaluations of the school

ASSUME AnalyticsAssumption ==
  /\ Months \subseteq 1 .. 12
  /\ FinalPercent \in 1 .. 100 /\ Epsilon \in Nat /\ MaxEntered \in Nat

VARIABLES
  evaluation,  \* live MonthlyEvaluation and its MetricScores, by student and month
  classOf      \* the class of an ACTIVE enrollment

analyticsVars == <<evaluation, classOf>>

Closed == "closed"
None == -1

RoundedMean(total, count) == (2 * total + count) \div (2 * count)

-----------------------------------------------------------------------------
(* Plausible bug: a zero is falsy and taken for a missing score.           *)
CountedIfTrue(e) == {c \in DOMAIN e \cap DOMAIN DomainOf : e[c] \in 1 .. 5}

(* EvaluationAnalyticsService.evaluation_summary: a metric counts if it is  *)
(* catalogued and in range; the mean of a domain is scaled to 20.          *)
Counted(e) == {c \in DOMAIN e \cap DOMAIN DomainOf : e[c] \in 0 .. 5}

DomainScore(e, d) ==
  LET rows == {c \in Counted(e) : DomainOf[c] = d}
  IN  IF rows = {} THEN None
      ELSE RoundedMean(MapThenSumSet(LAMBDA c : 400 * e[c], rows), Cardinality(rows))

Overall(e) ==
  LET scored == {d \in DOMAIN Weight : DomainScore(e, d) # None}
  IN  IF scored = {} THEN None
      ELSE RoundedMean(MapThenSumSet(LAMBDA d : DomainScore(e, d) * Weight[d], scored),
                       MapThenSumSet(LAMBDA d : Weight[d], scored))

IsFinal(e) == 100 * Cardinality(Counted(e)) >= FinalPercent * Cardinality(DOMAIN DomainOf)

Summary == [e \in Forms |-> [overall |-> Overall(e), final |-> IsFinal(e)]]

-----------------------------------------------------------------------------
(* EvaluationAnalyticsService._student_summary_without_rank                *)
Evaluated(s) == DOMAIN evaluation[s]
At(s, m) == Summary[evaluation[s][m]]
Finals(s) == {m \in Evaluated(s) : At(s, m).final}
Observed(s) == {m \in Evaluated(s) : At(s, m).overall # None}

(* The status of a student is that of his last month.                      *)
CurrentIsFinal(s) == Evaluated(s) # {} /\ Max(Evaluated(s)) \in Finals(s)

(* Final months alone make a final score, all months a provisional one.    *)
OverallScore(s) ==
  LET pool == Observed(s) \cap (IF CurrentIsFinal(s) THEN Finals(s) ELSE Months)
  IN  IF pool = {} THEN None
      ELSE RoundedMean(MapThenSumSet(LAMBDA m : At(s, m).overall, pool), Cardinality(pool))

(* monthly_changes: between neighbours among the observed months, by the   *)
(* later one.                                                              *)
MonthlyChanges(s) ==
  LET later == {m \in Observed(s) : \E n \in Observed(s) : n < m}
  IN  [m \in later |->
         At(s, m).overall - At(s, Max({n \in Observed(s) : n < m})).overall]

(* change and trend: from the first final month to the last.               *)
Change(s) == At(s, Max(Finals(s))).overall - At(s, Min(Finals(s))).overall

Trend(s) ==
  CASE ~CurrentIsFinal(s) \/ Cardinality(Finals(s)) < 2 -> "insufficient data"
    [] Change(s) > Epsilon  -> "improving"
    [] Change(s) < -Epsilon -> "declining"
    [] OTHER -> "stable"

(* build_monthly_report_contract: what the report of one month says of it, *)
(* with a change of 0 when there is none.                                  *)
MonthlyContract(s, m) ==
  [overall |-> At(s, m).overall,
   change  |-> IF m \in DOMAIN MonthlyChanges(s) THEN MonthlyChanges(s)[m] ELSE 0]

-----------------------------------------------------------------------------
(* Everybody whose current month is final, with his score.                 *)
Ranked(S) ==
  {p \in {<<s, OverallScore(s)>> : s \in {t \in S : CurrentIsFinal(t)}} : p[2] # None}

(* The loop over the ranked, best first: equal scores share a rank and no  *)
(* rank is left out.  Who is not ranked has rank 0.                        *)
DenseRanks(ranked) ==
  FoldLeft(LAMBDA acc, p : LET r == IF p[2] = acc.score THEN acc.rank ELSE acc.rank + 1
                           IN  [rank |-> r, score |-> p[2], of |-> [acc.of EXCEPT ![p[1]] = r]],
           [rank |-> 0, score |-> None, of |-> [s \in Enrollments |-> 0]],
           SetToSortSeq(ranked, LAMBDA p, q : p[2] > q[2])).of

(* Plausible bug: whoever has left still takes a place on the page.        *)
CandidatesEverActive(s, scope) ==
  {t \in Enrollments : scope = "class" => classOf[t] \in {classOf[s], Closed}}

Candidates(s, scope) ==
  {t \in Enrollments : classOf[t] # Closed /\ (scope = "class" => classOf[t] = classOf[s])}

(* EvaluationAnalyticsService.student_summary: the rank on a student's own *)
(* page.                                                                   *)
StudentRank(s, scope) == DenseRanks(Ranked(Candidates(s, scope)))[s]

(* EvaluationAnalyticsService.cohort_summary, of the ACTIVE enrollments of *)
(* a class or, with no class, of the school, as far as they are in the     *)
(* classes that the viewer may see (allowed_class_ids): a teacher's own,   *)
(* or all of them.                                                         *)
Cohort(allowed, class) ==
  {s \in Enrollments : classOf[s] \in allowed /\ class \in {classOf[s], Closed}}

Dashboard(cohort) ==
  LET evaluated == {s \in cohort : Evaluated(s) # {}}
      ranked    == Ranked(cohort)
  IN  [ranks |-> DenseRanks(ranked), final |-> Cardinality(ranked),
       provisional |-> Cardinality(evaluated) - Cardinality(ranked)]

-----------------------------------------------------------------------------
AnalyticsInit ==
  /\ evaluation = [s \in Enrollments |-> <<>>]
  /\ classOf \in [Enrollments -> Classes]

(* A month is entered by hand or imported, or entered again: metrics are   *)
(* added and replaced, never taken away.                                   *)
RecordMonth(s, m, e) ==
  /\ classOf[s] # Closed
  /\ m \in Evaluated(s) => DOMAIN evaluation[s][m] \subseteq DOMAIN e
  /\ m \notin Evaluated(s) =>
       MapThenSumSet(LAMBDA t : Cardinality(Evaluated(t)), Enrollments) < MaxEntered
  /\ evaluation' = [evaluation EXCEPT ![s] = (m :> e) @@ @]
  /\ evaluation' # evaluation
  /\ UNCHANGED classOf

(* delete_manual_evaluation.  The metrics of a deleted month come back if  *)
(* it is entered again: RecordMonth allows whatever that makes of them.    *)
DeleteMonth(s, m) ==
  /\ m \in Evaluated(s)
  /\ evaluation' = [evaluation EXCEPT ![s] = [n \in Evaluated(s) \ {m} |-> @[n]]]
  /\ UNCHANGED classOf

CloseEnrollment(s) ==
  /\ classOf[s] # Closed
  /\ classOf' = [classOf EXCEPT ![s] = Closed]
  /\ UNCHANGED evaluation

AnalyticsNext ==
  \E s \in Enrollments :
    \/ \E m \in Months, e \in Forms : RecordMonth(s, m, e)
    \/ \E m \in Months : DeleteMonth(s, m)
    \/ CloseEnrollment(s)

-----------------------------------------------------------------------------
(* The dashboards: of a class, and of the school for who sees some of it.  *)
Views == {<<{c}, c>> : c \in Classes} \cup {<<a, Closed>> : a \in SUBSET Classes}

(* Each page computes ranks for itself.  The rank a dashboard shows is one *)
(* more than the number of better scores on it, and nobody is counted both *)
(* as final and as provisional.  It is the rank on the student's own page, *)
(* for a class and, if the viewer may see all classes, for the school; who *)
(* sees some of them is shown ranks among these, under the same name,      *)
(* which are in the order of the school's and never worse.                 *)
RanksAgree ==
  \A view \in Views :
    LET allowed == view[1]
        c      == view[2]
        cohort == Cohort(allowed, c)
        page   == Dashboard(cohort)
        finals == {s \in cohort : CurrentIsFinal(s)}
        better(s) == {OverallScore(t) : t \in finals} \cap (OverallScore(s) + 1 .. 2000)
        own    == [s \in cohort |-> StudentRank(s, IF c = Closed THEN "school" ELSE "class")]
    IN  (\E s \in cohort : Evaluated(s) # {}) =>
          /\ page.final = Cardinality(finals)
          /\ page.provisional = Cardinality({s \in cohort \ finals : Evaluated(s) # {}})
          /\ \A s \in cohort :
               /\ page.ranks[s] = IF s \in finals THEN 1 + Cardinality(better(s)) ELSE 0
               /\ c # Closed \/ allowed = Classes => page.ranks[s] = own[s]
               /\ page.ranks[s] =< own[s]
               /\ \A t \in finals : s \in finals =>
                    (page.ranks[s] < page.ranks[t] <=> own[s] < own[t])

(* The changes that the monthly reports of a student tell, which leave out *)
(* months with nothing to compare, add up to the change from the first     *)
(* observed month to the last; when all of them are final this is the      *)
(* change that the trend is named for.                                     *)
ChangesAddUp ==
  \A s \in Enrollments : Observed(s) # {} =>
    LET first == MonthlyContract(s, Min(Observed(s)))
        last  == MonthlyContract(s, Max(Observed(s)))
        sum   == MapThenSumSet(LAMBDA m : MonthlyContract(s, m).change, Evaluated(s))
    IN  /\ first.overall + sum = last.overall
        /\ Observed(s) = Finals(s) /\ Trend(s) # "insufficient data" =>
             Trend(s) = CASE sum > Epsilon  -> "improving"
                          [] sum < -Epsilon -> "declining"
                          [] OTHER          -> "stable"

(* What the pages and the reports, which compute for themselves, say of a  *)
(* student: the ranks agree, and the monthly changes with the trend.       *)
PagesAgree == RanksAgree /\ ChangesAddUp

(* Raising metrics of a month, with none added and none taken away, lowers *)
(* neither the score of the month nor, while its status stays, that of the *)
(* student, whatever is rounded on the way; nor does it cost him a place.  *)
IsRaised(e, f) ==
  e # f /\ DOMAIN e = DOMAIN f /\ \A c \in DOMAIN e : e[c] =< f[c]

RaisingNeverLowers ==
  [][\A s \in Enrollments : \A m \in Evaluated(s) \cap Evaluated(s)' :
       IsRaised(evaluation[s][m], evaluation'[s][m]) =>
         /\ At(s, m).overall =< At(s, m)'.overall
         /\ OverallScore(s) =< OverallScore(s)'
         /\ StudentRank(s, "school") >= StudentRank(s, "school")']_analyticsVars
=============================================================================
