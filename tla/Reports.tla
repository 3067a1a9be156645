------------------------------- MODULE Reports -------------------------------
(***************************************************************************)
(* What reports families get (reports), and the numbers in them: a single  *)
(* report that is drafted and reviewed (ReportDraft), the batch of a class *)
(* or school (ReportBatch), the content of an official card (ReportCard)   *)
(* and the analysis of the monthly evaluations (EvaluationAnalytics).      *)
(*                                                                         *)
(* They share no row that one of them writes and another reads, so that    *)
(* interleaving them would add states and no behaviour: each behaviour is  *)
(* about one of them.                                                      *)
(***************************************************************************)
EXTENDS ReportDraft, ReportBatch, ReportCard, EvaluationAnalytics

VARIABLE about  \* the part that this behaviour is about

reportVars == <<vars, batchVars, cardVars, analyticsVars, about>>

(* A part that the behaviour is not about starts from its simplest state.  *)
ReportsInit ==
  /\ about \in {"draft", "batch", "card", "analytics"}
  /\ Init /\ BatchInit /\ CardInit /\ AnalyticsInit
  /\ about # "card" => Members = {} /\ "locked" \in {assessment[a] : a \in Assessments}
  /\ about # "analytics" => \A s \in Enrollments : classOf[s] = CHOOSE c \in Classes : TRUE

Draft     == about = "draft"     /\ Next
Batch     == about = "batch"     /\ BatchNext
Card      == about = "card"      /\ CardNext
Analytics == about = "analytics" /\ AnalyticsNext

ReportsNext ==
  \/ Draft     /\ UNCHANGED <<batchVars, cardVars, analyticsVars, about>>
  \/ Batch     /\ UNCHANGED <<vars, cardVars, analyticsVars, about>>
  \/ Card      /\ UNCHANGED <<vars, batchVars, analyticsVars, about>>
  \/ Analytics /\ UNCHANGED <<vars, batchVars, cardVars, about>>

ReportsSpec == ReportsInit /\ [][ReportsNext]_reportVars
==============================================================================
