--------------------------- MODULE Assessment_proofs ---------------------------
(***************************************************************************)
(* Proofs about Assessment, for any number of requests, recalculations and *)
(* enrollments and any scores and maxima.                                  *)
(*                                                                         *)
(* What is complete when an assessment is submitted stays so because the   *)
(* services look at its status again under the lock.  What a locked        *)
(* assessment's results are follows from where each enrollment is in the   *)
(* one recalculation of its class that runs (ResultsFollow); only one that *)
(* always was in another class is in none, and has no result               *)
(* (StrangersStayOut).                                                     *)
(***************************************************************************)
EXTENDS Assessment, FiniteSetTheorems, TLAPS

Marks == Nat \cup {NoMark}

(* Marks of some enrollments. *)
SomeMarks == UNION {[es -> Marks] : es \in SUBSET Enrollments}

Recalculations ==
  [class : Classes \cup {"none"}, todo : SUBSET Enrollments, read : SomeMarks, written : SomeMarks]

(* A recalculation reads one enrollment after the other. *)
OneAtATime == \A w \in Workers : \A e, f \in DOMAIN worker[w].read : e = f

TypeInv == TypeOK /\ worker \in [Workers -> Recalculations] /\ OneAtATime

(* The enrollments a recalculation has calculated, or will. *)
Touches(w, e) == e \in worker[w].todo \cup DOMAIN worker[w].written

(* An enrollment that was never moved has results in its class only.  If   *)
(* its score was corrected, the class is the one of the assessment.        *)
StrangersStayOut ==
  \A e \in Enrollments : moved[e] = "never" =>
    /\ \A c \in Classes : result[c][e] # NoMark => place[e].class = c
    /\ \A w \in Workers : Touches(w, e) => place[e].class = worker[w].class
    /\ ~staleWrite /\ e \in corrected =>
         assessment.status = "locked" /\ place[e].class = assessment.class

(* The two halves of ReviewedIsComplete; the second one also holds while   *)
(* scores are being entered. *)
RosterIsReviewed ==
  ~staleWrite /\ assessment.status \notin Editable =>
    \A e \in Enrollments \ corrected :
      moved[e] # "under review" => (e \in Entered <=> e \in Roster)
MaximumHolds ==
  ~staleWrite => \A e \in Enrollments \ overtaken : score[e].value <= assessment.max

(* As long as nothing is suspect, one recalculation of the class    *)
(* runs at a time. *)
OneRuns == ~suspect => \A v, w \in Workers : Calculates(v) /\ Calculates(w) => v = w

(* The recalculation x will leave m, or has it ready to commit, for e.     *)
Brings(x, e, m) ==
  \/ e \in x.todo /\ (e \in DOMAIN x.read => x.read[e] = m)
  \/ e \in DOMAIN x.written /\ x.written[e] = m

(* The result of e is m, or will be when the recalculation that runs       *)
(* commits. *)
Provided(e, m) ==
  \/ \E w \in Workers : Calculates(w) /\ Brings(worker[w], e, m)
  \/ /\ result[assessment.class][e] = m
     /\ \A w \in Workers : Calculates(w) => ~Touches(w, e)

(* So it is for the members of the class while no recalculation waits. *)
ResultsFollow ==
  (assessment.status = "locked" /\ queue = 0 /\ ~suspect /\ ~staleWrite) =>
    \A e \in Members : Provided(e, Mark(e))

-------------------------------------------------------------------------------
LEMMA SomeMarksAre ==
  /\ << >> \in SomeMarks /\ DOMAIN << >> = {}
  /\ \A f \in SomeMarks : DOMAIN f \subseteq Enrollments /\ \A e \in DOMAIN f : f[e] \in Marks
  /\ \A es \in SUBSET Enrollments : [es -> Marks] \subseteq SomeMarks
<1>1. << >> \in [{} -> Marks]
  OBVIOUS
<1> QED BY <1>1 DEF SomeMarks

LEMMA StoppedIs ==
  /\ Stopped \in Recalculations
  /\ Stopped.todo = {} /\ DOMAIN Stopped.read = {} /\ DOMAIN Stopped.written = {}
BY SomeMarksAre DEF Stopped, Recalculations

LEMMA ScoreValues ==
  /\ NoScore.value = NoMark /\ NoScore.status = "no row"
  /\ \A s \in Scores : /\ s.value \in Nat \cup {NoMark}
                       /\ s.status = "present" => s.value \in Nat
                       /\ s.status # "no row"
                       /\ s # NoScore
<1>1. NoScore.value = NoMark /\ NoScore.status = "no row"
  BY DEF NoScore
<1>2. ASSUME NEW s \in [status : {"present"}, value : Values]
      PROVE  s.value \in Nat /\ s.status = "present"
  BY AssessmentAssumption
<1>3. ASSUME NEW s \in [status : {"excused", "unexcused", "not entered"}, value : {NoMark}]
      PROVE  s.value = NoMark /\ s.status \in {"excused", "unexcused", "not entered"}
  OBVIOUS
<1>4. ASSUME NEW s \in Scores
      PROVE  /\ s.value \in Nat \cup {NoMark}
             /\ s.status = "present" => s.value \in Nat
             /\ s.status # "no row"
  <2>1. \/ s \in [status : {"present"}, value : Values]
        \/ s \in [status : {"excused", "unexcused", "not entered"}, value : {NoMark}]
    BY DEF Scores
  <2>2. CASE s \in [status : {"present"}, value : Values]
    BY <1>2, <2>2
  <2>3. CASE s \in [status : {"excused", "unexcused", "not entered"}, value : {NoMark}]
    BY <1>3, <2>3
  <2> QED BY <2>1, <2>2, <2>3
<1> QED BY <1>1, <1>4

LEMMA MarkIsTyped ==
  ASSUME TypeOK, NEW e \in Enrollments
  PROVE  Mark(e) \in Marks
<1>1. score[e] \in Scores \cup {NoScore} /\ assessment.max \in Nat \ {0}
  BY AssessmentAssumption DEF TypeOK, Assessments
<1>2. score[e].status = "present" => score[e].value \in Nat
  BY <1>1, ScoreValues
<1>3. \A v \in Nat, m \in Nat \ {0} : (v * 20) \div m \in Nat
  OBVIOUS
<1> QED BY <1>1, <1>2, <1>3 DEF Mark, Marks

LEMMA RequestShapes ==
  ASSUME TypeOK, NEW u \in Users
  PROVE  /\ request[u].op = "bulk" => request[u].places \in [Enrollments -> Places]
         /\ request[u].op \in {"update", "destroy", "delete"} =>
              request[u] \in [op : {"update", "destroy", "delete"}, copy : Assessments]
<1>1. Idle.op = "none"
  BY DEF Idle
<1> QED BY <1>1 DEF TypeOK, Requests

(* A request goes on to q. *)
LEMMA RequestMoves ==
  ASSUME TypeOK, NEW u \in Users, NEW q \in Requests, request' = [request EXCEPT ![u] = q]
  PROVE  /\ request' \in [Users -> Requests]
         /\ \A v \in Users : request'[v] = IF v = u THEN q ELSE request[v]
BY DEF TypeOK

LEMMA IdleIsARequest == Idle \in Requests /\ Idle.op = "none"
BY DEF Idle, Requests

LEMMA QueuedIsTyped ==
  ASSUME TypeOK, QueueRecalculation
  PROVE  queue' \in 0 .. MaxQueue /\ suspect' \in BOOLEAN
<1>1. queue \in 0 .. MaxQueue /\ suspect \in BOOLEAN
  BY DEF TypeOK
<1>2. CASE queue < MaxQueue /\ queue' = queue + 1 /\ suspect' = suspect
  BY AssessmentAssumption, <1>1, <1>2
<1>3. CASE suspect' = TRUE /\ queue' = queue
  BY <1>1, <1>3
<1> QED BY <1>2, <1>3 DEF QueueRecalculation

(* What TypeInv says of the recalculations. *)
WorkersTyped ==
  /\ worker \in [Workers -> Recalculations]
  /\ \A w \in Workers :
       /\ DOMAIN worker[w].read \subseteq worker[w].todo
       /\ worker[w].todo \cap DOMAIN worker[w].written = {}
  /\ OneAtATime

LEMMA TypeInvSays ==
  TypeInv <=>
    /\ assessment \in Assessments
    /\ score \in [Enrollments -> Scores \cup {NoScore}]
    /\ place \in [Enrollments -> Places]
    /\ result \in [Classes -> [Enrollments -> Marks]]
    /\ request \in [Users -> Requests]
    /\ queue \in 0 .. MaxQueue
    /\ WorkersTyped
    /\ moved \in [Enrollments -> {"never", "while open", "under review"}]
    /\ corrected \subseteq Enrollments /\ overtaken \subseteq Enrollments
    /\ staleWrite \in BOOLEAN /\ suspect \in BOOLEAN
BY DEF TypeInv, TypeOK, WorkersTyped, Marks, Recalculations

(* A recalculation goes on to x. *)
LEMMA WorkerMoves ==
  ASSUME WorkersTyped, NEW w \in Workers, NEW x \in Recalculations,
         DOMAIN x.read \subseteq x.todo, x.todo \cap DOMAIN x.written = {},
         \A e, f \in DOMAIN x.read : e = f,
         worker' = [worker EXCEPT ![w] = x]
  PROVE  /\ WorkersTyped'
         /\ \A v \in Workers : worker'[v] = IF v = w THEN x ELSE worker[v]
BY DEF WorkersTyped, OneAtATime

(* The steps of a recalculation, as what it goes on to. *)
LEMMA StartMoves ==
  ASSUME TypeInv, NEW w \in Workers, NEW c \in Classes, Start(w, c)
  PROVE  LET x == [class |-> c, todo |-> {e \in Enrollments : place[e].class = c},
                   read |-> << >>, written |-> << >>]
         IN  x \in Recalculations /\ worker' = [worker EXCEPT ![w] = x]
<1> DEFINE es == {e \in Enrollments : place[e].class = c}
           x == [class |-> c, todo |-> es, read |-> << >>, written |-> << >>]
<1>1. worker' = [worker EXCEPT ![w] = x]
  BY DEF Start
<1>2. x \in Recalculations
  BY SomeMarksAre DEF Recalculations
<1> QED BY <1>1, <1>2

(* What a recalculation finds for e. *)
Finds(w, e) == IF Calculates(w) THEN Mark(e) ELSE NoMark

LEMMA ReadMoves ==
  ASSUME TypeInv, NEW w \in Workers, NEW e \in Enrollments, ReadScores(w, e)
  PROVE  LET x == [worker[w] EXCEPT !.read = [f \in {e} |-> Finds(w, f)]]
         IN  /\ x \in Recalculations /\ worker' = [worker EXCEPT ![w] = x]
             /\ x.class = worker[w].class
             /\ x.todo = worker[w].todo /\ x.written = worker[w].written
             /\ x.read = [f \in {e} |-> Finds(w, f)]
<1> DEFINE m == [f \in {e} |-> Finds(w, f)]
           x == [worker[w] EXCEPT !.read = m]
<1>1. worker \in [Workers -> Recalculations]
  BY DEF TypeInv
<1>2. m \in SomeMarks
  <2>1. Finds(w, e) \in Marks
    BY MarkIsTyped DEF TypeInv, Finds, Marks
  <2>2. m \in [{e} -> Marks]
    BY <2>1
  <2> QED BY <2>2, SomeMarksAre
<1>3. worker' = [worker EXCEPT ![w] = x]
  BY <1>1 DEF ReadScores, Finds
<1> HIDE DEF m
<1>4. /\ x \in Recalculations /\ x.class = worker[w].class
      /\ x.todo = worker[w].todo /\ x.written = worker[w].written
      /\ x.read = m
  BY <1>1, <1>2 DEF Recalculations
<1> QED BY <1>3, <1>4 DEF m

LEMMA WriteMoves ==
  ASSUME TypeInv, NEW w \in Workers, NEW e \in Enrollments, WriteResult(w, e)
  PROVE  LET x == [class |-> worker[w].class, todo |-> worker[w].todo \ {e}, read |-> << >>,
                   written |-> [f \in {e} \cup DOMAIN worker[w].written |->
                                  IF f = e THEN worker[w].read[e] ELSE worker[w].written[f]]]
         IN  x \in Recalculations /\ worker' = [worker EXCEPT ![w] = x]
<1> DEFINE m == [f \in {e} \cup DOMAIN worker[w].written |->
                   IF f = e THEN worker[w].read[e] ELSE worker[w].written[f]]
           x == [class |-> worker[w].class, todo |-> worker[w].todo \ {e},
                 read |-> << >>, written |-> m]
<1>1. worker[w] \in Recalculations /\ worker \in [Workers -> Recalculations]
  BY DEF TypeInv
<1>2. /\ worker[w].todo \subseteq Enrollments /\ worker[w].class \in Classes \cup {"none"}
      /\ worker[w].read \in SomeMarks /\ worker[w].written \in SomeMarks
  BY <1>1 DEF Recalculations
<1>3. m \in SomeMarks
  <2>1. worker[w].read[e] \in Marks
    BY <1>2, SomeMarksAre DEF WriteResult
  <2>2. m \in [{e} \cup DOMAIN worker[w].written -> Marks]
    BY <1>2, <2>1, SomeMarksAre
  <2>3. {e} \cup DOMAIN worker[w].written \in SUBSET Enrollments
    BY <1>2, SomeMarksAre
  <2> QED BY <2>2, <2>3, SomeMarksAre
<1>4. x \in Recalculations
  BY <1>2, <1>3, SomeMarksAre DEF Recalculations
<1>5. worker' = [worker EXCEPT ![w] = x]
  BY <1>1 DEF WriteResult
<1> QED BY <1>4, <1>5

(* What TypeInvSays says, after a step. *)
LEMMA TypeInvSaysNext ==
  ASSUME assessment' \in Assessments,
         score' \in [Enrollments -> Scores \cup {NoScore}],
         place' \in [Enrollments -> Places],
         result' \in [Classes -> [Enrollments -> Marks]],
         request' \in [Users -> Requests],
         queue' \in 0 .. MaxQueue,
         WorkersTyped',
         moved' \in [Enrollments -> {"never", "while open", "under review"}],
         corrected' \subseteq Enrollments, overtaken' \subseteq Enrollments,
         staleWrite' \in BOOLEAN, suspect' \in BOOLEAN
  PROVE  TypeInv'
BY DEF TypeInv, TypeOK, WorkersTyped, Marks, Recalculations

(* A step of the requests and the roster, which leaves the recalculations  *)
(* alone. *)
LEMMA TypeOfRequestStep ==
  ASSUME TypeInv, UNCHANGED resultVars,
         assessment' \in Assessments,
         score' \in [Enrollments -> Scores \cup {NoScore}],
         place' \in [Enrollments -> Places],
         moved' \in [Enrollments -> {"never", "while open", "under review"}],
         request' \in [Users -> Requests],
         corrected' \subseteq Enrollments, overtaken' \subseteq Enrollments,
         staleWrite' \in BOOLEAN
  PROVE  TypeInv'
BY TypeInvSays, TypeInvSaysNext DEF resultVars, WorkersTyped, OneAtATime

(* Likewise when only requests move. *)
LEMMA TypeOfRead ==
  ASSUME TypeInv, NEW u \in Users, Read(u) \/ Refuse(u) \/ CheckBeforeDelete(u)
  PROVE  TypeInv'
<1>1. /\ UNCHANGED <<assessment, scoreVars, rosterVars, resultVars, staleWrite>>
  BY DEF Read, Refuse, CheckBeforeDelete
<1>2. request' \in [Users -> Requests]
  <2>1. CASE request' = [request EXCEPT ![u] = [op |-> "bulk", places |-> place]]
    <3>1. [op |-> "bulk", places |-> place] \in Requests
      BY TypeInvSays DEF Requests
    <3> QED BY <2>1, <3>1, TypeInvSays
  <2>2. ASSUME NEW op \in {"update", "destroy"},
               request' = [request EXCEPT ![u] = [op |-> op, copy |-> assessment]]
        PROVE  request' \in [Users -> Requests]
    <3>1. [op |-> op, copy |-> assessment] \in Requests
      BY TypeInvSays DEF Requests
    <3> QED BY <2>2, <3>1, TypeInvSays
  <2>3. CASE Refuse(u)
    BY <2>3, IdleIsARequest, TypeInvSays DEF Refuse, Respond
  <2>4. CASE CheckBeforeDelete(u)
    <3>1. /\ request[u] \in [op : {"update", "destroy", "delete"}, copy : Assessments]
          /\ request' = [request EXCEPT ![u] = [request[u] EXCEPT !.op = "delete"]]
      BY <2>4, RequestShapes DEF TypeInv, CheckBeforeDelete
    <3>2. [request[u] EXCEPT !.op = "delete"] \in
            [op : {"update", "destroy", "delete"}, copy : Assessments]
      BY <3>1
    <3>3. [request[u] EXCEPT !.op = "delete"] \in Requests
      BY <3>2 DEF Requests
    <3> QED BY <3>1, <3>3, TypeInvSays
  <2> QED BY <2>1, <2>2, <2>3, <2>4 DEF Read
<1> QED BY <1>1, <1>2, TypeInvSays, TypeOfRequestStep DEF rosterVars, scoreVars

LEMMA TypeOfBulkSave ==
  ASSUME TypeInv, NEW u \in Users, NEW new \in Entries, BulkSave(u, new)
  PROVE  TypeInv'
<1>1. \A e \in DOMAIN new : new[e] \in Scores
  BY DEF Entries
<1>2. score' \in [Enrollments -> Scores \cup {NoScore}]
  BY <1>1, TypeInvSays DEF BulkSave
<1>3. request' \in [Users -> Requests]
  BY IdleIsARequest, TypeInvSays DEF BulkSave, Respond
<1>4. overtaken' \subseteq Enrollments
  BY TypeInvSays DEF BulkSave
<1> QED BY <1>2, <1>3, <1>4, TypeInvSays, TypeOfRequestStep DEF BulkSave, rosterVars

(* A copy with another class and another maximum. *)
LEMMA CopyIsTyped ==
  ASSUME TypeInv, NEW u \in Users, NEW c \in Classes, NEW m \in Maxima,
         request[u].op \in {"update", "destroy", "delete"}
  PROVE  /\ request[u].copy \in Assessments
         /\ [request[u].copy EXCEPT !.class = c, !.max = m] \in Assessments
BY RequestShapes DEF TypeInv, Assessments

LEMMA TypeOfUpdate ==
  ASSUME TypeInv, NEW u \in Users, NEW c \in Classes, NEW m \in Maxima, Update(u, c, m)
  PROVE  TypeInv'
<1>1. assessment' \in Assessments
  BY CopyIsTyped DEF Update
<1>2. staleWrite' \in BOOLEAN /\ overtaken' \subseteq Enrollments
  BY TypeInvSays DEF Update
<1>3. request' \in [Users -> Requests]
  BY IdleIsARequest, TypeInvSays DEF Update, Respond
<1>4. queue' \in 0 .. MaxQueue /\ suspect' \in BOOLEAN
  <2>1. \/ c = assessment.class /\ UNCHANGED <<queue, suspect>>
        \/ c # assessment.class /\ queue' = 0 /\ suspect' = TRUE
    BY DEF Update
  <2>2. queue \in 0 .. MaxQueue /\ 0 \in 0 .. MaxQueue /\ suspect \in BOOLEAN
    <3>1. 0 \in 0 .. MaxQueue
      BY AssessmentAssumption
    <3> QED BY <3>1, TypeInvSays
  <2>3. CASE c = assessment.class
    BY <2>1, <2>2, <2>3
  <2>4. CASE c # assessment.class
    BY <2>1, <2>2, <2>4
  <2> QED BY <2>3, <2>4
<1>5. UNCHANGED <<score, corrected, rosterVars, result, worker>>
  BY DEF Update
<1> QED BY <1>1, <1>2, <1>3, <1>4, <1>5, TypeInvSays, TypeInvSaysNext
        DEF rosterVars, WorkersTyped, OneAtATime

LEMMA TypeOfDelete ==
  ASSUME TypeInv, NEW u \in Users, Delete(u)
  PROVE  TypeInv'
<1>1. assessment' \in Assessments
  BY TypeInvSays DEF Delete, Assessments
<1>2. staleWrite' \in BOOLEAN
  BY TypeInvSays DEF Delete, HasScores
<1>3. request' \in [Users -> Requests]
  BY IdleIsARequest, TypeInvSays DEF Delete, Respond
<1> QED BY <1>1, <1>2, <1>3, TypeInvSays, TypeOfRequestStep DEF Delete, rosterVars, scoreVars

LEMMA TypeOfTransition ==
  ASSUME TypeInv, Submit \/ Approve \/ Reject \/ Lock
  PROVE  TypeInv'
<1>1. \E target \in {"submitted", "approved", "rejected", "locked"} :
         assessment' = [assessment EXCEPT !.status = target]
  BY DEF Submit, Approve, Reject, Lock, Transition
<1>2. assessment' \in Assessments
  BY <1>1, TypeInvSays DEF Assessments, Statuses
<1>3. UNCHANGED <<scoreVars, rosterVars, request, staleWrite>>
  BY DEF Submit, Approve, Reject, Lock, Transition
<1>4. CASE UNCHANGED resultVars
  BY <1>2, <1>3, <1>4, TypeInvSays, TypeOfRequestStep DEF rosterVars, scoreVars
<1>5. CASE Lock
  <2>1. queue' \in 0 .. MaxQueue /\ suspect' \in BOOLEAN
    BY <1>5, QueuedIsTyped DEF TypeInv, Lock
  <2>2. UNCHANGED <<result, worker>>
    BY <1>5 DEF Lock
  <2> QED BY <1>2, <1>3, <2>1, <2>2, TypeInvSays, TypeInvSaysNext
          DEF rosterVars, scoreVars, WorkersTyped, OneAtATime
<1> QED BY <1>4, <1>5 DEF Submit, Approve, Reject

LEMMA TypeOfCorrect ==
  ASSUME TypeInv, NEW e \in Enrollments, NEW s \in Scores, Correct(e, s)
  PROVE  TypeInv'
<1>1. queue' \in 0 .. MaxQueue /\ suspect' \in BOOLEAN
  BY QueuedIsTyped DEF TypeInv, Correct
<1>2. /\ score' \in [Enrollments -> Scores \cup {NoScore}]
      /\ corrected' \subseteq Enrollments /\ overtaken' \subseteq Enrollments
  BY TypeInvSays DEF Correct
<1>3. UNCHANGED <<assessment, rosterVars, result, worker, request, staleWrite>>
  BY DEF Correct
<1> QED BY <1>1, <1>2, <1>3, TypeInvSays, TypeInvSaysNext
        DEF rosterVars, WorkersTyped, OneAtATime

LEMMA TypeOfMove ==
  ASSUME TypeInv, NEW e \in Enrollments, ChangeEnrollment(e)
  PROVE  TypeInv'
<1>1. place' \in [Enrollments -> Places]
  BY TypeInvSays DEF ChangeEnrollment
<1>2. moved' \in [Enrollments -> {"never", "while open", "under review"}]
  BY TypeInvSays DEF ChangeEnrollment
<1> QED BY <1>1, <1>2, TypeInvSays, TypeOfRequestStep DEF ChangeEnrollment, scoreVars

(* The steps of a recalculation touch nothing the requests work on. *)
LEMMA TypeOfWorkerStep ==
  ASSUME TypeInv, NEW w \in Workers, NEW x \in Recalculations,
         DOMAIN x.read \subseteq x.todo, x.todo \cap DOMAIN x.written = {},
         \A e, f \in DOMAIN x.read : e = f,
         worker' = [worker EXCEPT ![w] = x],
         result' \in [Classes -> [Enrollments -> Marks]],
         queue' \in 0 .. MaxQueue, suspect' \in BOOLEAN,
         UNCHANGED <<assessment, scoreVars, rosterVars, request, staleWrite>>
  PROVE  TypeInv'
<1>1. WorkersTyped'
  BY TypeInvSays, WorkerMoves
<1> QED BY <1>1, TypeInvSays, TypeInvSaysNext DEF rosterVars, scoreVars

LEMMA TypeOfStart ==
  ASSUME TypeInv, NEW w \in Workers, NEW c \in Classes, Start(w, c)
  PROVE  TypeInv'
<1> DEFINE x == [class |-> c, todo |-> {e \in Enrollments : place[e].class = c},
                 read |-> << >>, written |-> << >>]
<1>1. x \in Recalculations /\ worker' = [worker EXCEPT ![w] = x]
  BY StartMoves
<1>2. x.read = << >> /\ x.written = << >>
  OBVIOUS
<1>3. queue' \in 0 .. MaxQueue
  <2>1. (queue > 0 /\ queue' = queue - 1) \/ queue' = queue
    BY DEF Start, TaskWaits
  <2>2. queue \in 0 .. MaxQueue /\ MaxQueue \in Nat
    BY TypeInvSays, AssessmentAssumption
  <2> QED BY ONLY <2>1, <2>2
<1>4. suspect' \in BOOLEAN
  BY TypeInvSays DEF Start
<1>5. UNCHANGED <<assessment, scoreVars, rosterVars, result, request, staleWrite>>
  BY DEF Start
<1> HIDE DEF x
<1>6. DOMAIN x.read = {} /\ DOMAIN x.written = {}
  BY <1>2, SomeMarksAre
<1>7. result' \in [Classes -> [Enrollments -> Marks]]
  BY <1>5, TypeInvSays
<1> QED BY <1>1, <1>3, <1>4, <1>5, <1>6, <1>7, TypeOfWorkerStep

LEMMA TypeOfReadScores ==
  ASSUME TypeInv, NEW w \in Workers, NEW e \in Enrollments, ReadScores(w, e)
  PROVE  TypeInv'
<1>1. PICK x \in Recalculations :
        /\ x.todo = worker[w].todo /\ x.written = worker[w].written
        /\ x.read = [f \in {e} |-> Finds(w, f)]
        /\ worker' = [worker EXCEPT ![w] = x]
  <2> DEFINE y == [worker[w] EXCEPT !.read = [f \in {e} |-> Finds(w, f)]]
  <2>1. /\ y \in Recalculations /\ worker' = [worker EXCEPT ![w] = y]
        /\ y.todo = worker[w].todo /\ y.written = worker[w].written
        /\ y.read = [f \in {e} |-> Finds(w, f)]
    BY ReadMoves
  <2> HIDE DEF y
  <2> QED BY <2>1
<1>2. DOMAIN x.read = {e}
  BY <1>1
<1>3. DOMAIN x.read \subseteq x.todo /\ x.todo \cap DOMAIN x.written = {}
  BY <1>1, <1>2, TypeInvSays DEF ReadScores, WorkersTyped
<1>4. UNCHANGED <<assessment, scoreVars, rosterVars, result, queue, suspect, request,
                  staleWrite>>
  BY DEF ReadScores
<1> QED BY <1>1, <1>2, <1>3, <1>4, TypeInvSays, TypeOfWorkerStep

LEMMA TypeOfWriteResult ==
  ASSUME TypeInv, NEW w \in Workers, NEW e \in Enrollments, WriteResult(w, e)
  PROVE  TypeInv'
<1>1. PICK x \in Recalculations :
        /\ x.todo = worker[w].todo \ {e} /\ DOMAIN x.read = {}
        /\ DOMAIN x.written = {e} \cup DOMAIN worker[w].written
        /\ worker' = [worker EXCEPT ![w] = x]
  BY WriteMoves, SomeMarksAre
<1>2. x.todo \cap DOMAIN x.written = {}
  BY <1>1, TypeInvSays DEF WorkersTyped
<1>3. UNCHANGED <<assessment, scoreVars, rosterVars, result, queue, suspect, request,
                  staleWrite>>
  BY DEF WriteResult
<1> QED BY <1>1, <1>2, <1>3, TypeInvSays, TypeOfWorkerStep

LEMMA TypeOfEnd ==
  ASSUME TypeInv, NEW w \in Workers, Commit(w) \/ Fail(w)
  PROVE  TypeInv'
<1>1. worker' = [worker EXCEPT ![w] = Stopped]
  BY DEF Commit, Fail
<1>2. UNCHANGED <<assessment, scoreVars, rosterVars, request, staleWrite>>
  BY DEF Commit, Fail
<1>3. /\ result' \in [Classes -> [Enrollments -> Marks]]
      /\ queue' \in 0 .. MaxQueue /\ suspect' \in BOOLEAN
  <2>1. CASE Commit(w)
    <3>1. worker[w].written \in SomeMarks
      BY TypeInvSays DEF WorkersTyped, Recalculations
    <3> DEFINE new == [e \in Enrollments |-> IF e \in DOMAIN worker[w].written
                                             THEN worker[w].written[e]
                                             ELSE result[worker[w].class][e]]
    <3>2. worker[w].class \in Classes => new \in [Enrollments -> Marks]
      BY <3>1, SomeMarksAre, TypeInvSays
    <3>3. result' = [result EXCEPT ![worker[w].class] = new]
      BY <2>1, TypeInvSays DEF Commit
    <3>4. result' \in [Classes -> [Enrollments -> Marks]]
      <4> HIDE DEF new
      <4> QED BY <3>2, <3>3, TypeInvSays
    <3> QED BY <2>1, <3>4, TypeInvSays DEF Commit
  <2>2. CASE Fail(w)
    BY <2>2, QueuedIsTyped, TypeInvSays DEF TypeInv, Fail
  <2> QED BY <2>1, <2>2
<1> QED BY <1>1, <1>2, <1>3, StoppedIs, TypeOfWorkerStep

LEMMA TypeInit == Init => TypeInv
<1> SUFFICES ASSUME Init PROVE TypeInv
  OBVIOUS
<1>1. worker = [w \in Workers |-> Stopped] /\ WorkersTyped
  BY StoppedIs DEF Init, WorkersTyped, OneAtATime
<1>2. assessment \in Assessments
  BY DEF Init, Assessments, Statuses
<1>3. queue \in 0 .. MaxQueue
  BY AssessmentAssumption DEF Init
<1> QED BY <1>1, <1>2, <1>3, IdleIsARequest, TypeInvSays
        DEF Init, Places, Marks

LEMMA TypeStep == TypeInv /\ [Next]_vars => TypeInv'
<1> SUFFICES ASSUME TypeInv, [Next]_vars PROVE TypeInv'
  OBVIOUS
<1>1. CASE UNCHANGED vars
  BY <1>1, TypeInvSays, TypeOfRequestStep DEF vars, rosterVars, scoreVars
<1>2. CASE Next
  BY <1>2, TypeOfRead, TypeOfBulkSave, TypeOfUpdate, TypeOfDelete, TypeOfTransition,
     TypeOfCorrect, TypeOfMove, TypeOfStart, TypeOfReadScores, TypeOfWriteResult, TypeOfEnd
     DEF Next
<1> QED BY <1>1, <1>2

-------------------------------------------------------------------------------
(* Which steps change what. *)
LEMMA WhoWrites ==
  ASSUME [Next]_vars
  PROVE  /\ \/ score' = score
            \/ \E u \in Users, new \in Entries : BulkSave(u, new)
            \/ \E e \in Enrollments, s \in Scores : Correct(e, s)
         /\ \/ overtaken' = overtaken
            \/ \E u \in Users, new \in Entries : BulkSave(u, new)
            \/ \E e \in Enrollments, s \in Scores : Correct(e, s)
            \/ \E u \in Users, c \in Classes, m \in Maxima : Update(u, c, m)
         /\ \/ corrected' = corrected
            \/ \E e \in Enrollments, s \in Scores : Correct(e, s)
         /\ \/ UNCHANGED rosterVars
            \/ \E e \in Enrollments : ChangeEnrollment(e)
         /\ \/ result' = result
            \/ \E w \in Workers : Commit(w)
         /\ \/ worker' = worker
            \/ \E w \in Workers :
                 \/ \E c \in Classes : Start(w, c)
                 \/ Commit(w) \/ Fail(w)
                 \/ \E e \in Enrollments : ReadScores(w, e) \/ WriteResult(w, e)
         /\ \/ assessment' = assessment
            \/ Submit \/ Approve \/ Reject \/ Lock
            \/ \E u \in Users : Delete(u) \/ \E c \in Classes, m \in Maxima : Update(u, c, m)
         /\ \/ UNCHANGED <<queue, suspect>>
            \/ \E w \in Workers : Start(w, assessment.class)
            \/ QueueRecalculation
            \/ suspect' = TRUE
<1>1. CASE UNCHANGED vars
  BY <1>1 DEF vars, scoreVars, rosterVars, resultVars
<1>2. ASSUME NEW u \in Users, Read(u) \/ CheckBeforeDelete(u) \/ Refuse(u)
      PROVE  UNCHANGED <<score, corrected, overtaken, rosterVars, resultVars, assessment>>
  BY <1>2 DEF Read, CheckBeforeDelete, Refuse, resultVars, scoreVars
<1>3. ASSUME NEW u \in Users, NEW new \in Entries, BulkSave(u, new)
      PROVE  UNCHANGED <<corrected, rosterVars, resultVars, assessment>>
  BY <1>3 DEF BulkSave, resultVars
<1>4. ASSUME NEW u \in Users, Delete(u)
      PROVE  UNCHANGED <<score, corrected, overtaken, rosterVars, resultVars>>
  BY <1>4 DEF Delete, resultVars, scoreVars
<1>5. ASSUME NEW u \in Users, NEW c \in Classes, NEW m \in Maxima, Update(u, c, m)
      PROVE  /\ UNCHANGED <<score, corrected, rosterVars, result, worker>>
             /\ UNCHANGED <<queue, suspect>> \/ suspect' = TRUE
  BY <1>5 DEF Update
<1>6. ASSUME Submit \/ Approve \/ Reject \/ Lock
      PROVE  /\ UNCHANGED <<score, corrected, overtaken, rosterVars, result, worker>>
             /\ UNCHANGED <<queue, suspect>> \/ QueueRecalculation
  BY <1>6 DEF Submit, Approve, Reject, Lock, Transition, resultVars, scoreVars
<1>7. ASSUME NEW e \in Enrollments, NEW s \in Scores, Correct(e, s)
      PROVE  /\ UNCHANGED <<rosterVars, result, worker, assessment>>
             /\ QueueRecalculation
  BY <1>7 DEF Correct
<1>8. ASSUME NEW e \in Enrollments, ChangeEnrollment(e)
      PROVE  UNCHANGED <<score, corrected, overtaken, resultVars, assessment>>
  BY <1>8 DEF ChangeEnrollment, resultVars, scoreVars
<1>9. ASSUME NEW w \in Workers, NEW c \in Classes, Start(w, c)
      PROVE  /\ UNCHANGED <<score, corrected, overtaken, rosterVars, result, assessment>>
             /\ UNCHANGED <<queue, suspect>> \/ Start(w, assessment.class)
  BY <1>9 DEF Start, scoreVars
<1>10. ASSUME NEW w \in Workers,
              Fail(w) \/ \E e \in Enrollments : ReadScores(w, e) \/ WriteResult(w, e)
       PROVE  /\ UNCHANGED <<score, corrected, overtaken, rosterVars, result, assessment>>
              /\ UNCHANGED <<queue, suspect>> \/ QueueRecalculation
  BY <1>10 DEF Fail, ReadScores, WriteResult, scoreVars
<1>11. ASSUME NEW w \in Workers, Commit(w)
       PROVE  UNCHANGED <<score, corrected, overtaken, rosterVars, queue, suspect, assessment>>
  BY <1>11 DEF Commit, scoreVars
<1>12. ASSUME UNCHANGED resultVars
       PROVE  UNCHANGED <<result, queue, worker, suspect>>
  BY <1>12 DEF resultVars
<1>13. CASE \E u \in Users :
              \/ Read(u) \/ CheckBeforeDelete(u) \/ Refuse(u)
              \/ \E new \in Entries : BulkSave(u, new)
  BY <1>2, <1>3, <1>12, <1>13
<1>14. CASE \E u \in Users : Delete(u) \/ \E c \in Classes, m \in Maxima : Update(u, c, m)
  BY <1>4, <1>5, <1>12, <1>14
<1>15. CASE Submit \/ Approve \/ Reject \/ Lock
  BY <1>6, <1>15
<1>16. CASE \E e \in Enrollments : (\E s \in Scores : Correct(e, s)) \/ ChangeEnrollment(e)
  BY <1>7, <1>8, <1>12, <1>16
<1>17. CASE \E w \in Workers :
              \/ \E c \in Classes : Start(w, c)
              \/ Commit(w) \/ Fail(w)
              \/ \E e \in Enrollments : ReadScores(w, e) \/ WriteResult(w, e)
  BY <1>9, <1>10, <1>11, <1>17
<1> QED BY <1>1, <1>13, <1>14, <1>15, <1>16, <1>17 DEF Next

(* An enrollment that has not been moved is where it was. *)
LEMMA UnmovedStay ==
  ASSUME TypeInv, [Next]_vars, NEW e \in Enrollments, moved'[e] = "never"
  PROVE  moved[e] = "never" /\ place'[e] = place[e]
<1>1. ASSUME NEW f \in Enrollments, ChangeEnrollment(f)
      PROVE  moved[e] = "never" /\ place'[e] = place[e]
  BY <1>1, TypeInvSays DEF ChangeEnrollment
<1> QED BY <1>1, WhoWrites DEF rosterVars

(* A recalculation touches what it has touched before, or begins. *)
LEMMA WhoIsTouched ==
  ASSUME TypeInv, [Next]_vars, NEW v \in Workers, NEW e \in Enrollments, Touches(v, e)'
  PROVE  \/ Touches(v, e) /\ worker'[v].class = worker[v].class
         \/ place[e].class = worker'[v].class
<1>1. ASSUME NEW w \in Workers, NEW c \in Classes, Start(w, c)
      PROVE  \/ Touches(v, e) /\ worker'[v].class = worker[v].class
             \/ place[e].class = worker'[v].class
  <2> DEFINE x == [class |-> c, todo |-> {f \in Enrollments : place[f].class = c},
                   read |-> << >>, written |-> << >>]
  <2>1. x \in Recalculations /\ worker' = [worker EXCEPT ![w] = x]
    BY <1>1, StartMoves
  <2>2. x.class = c /\ x.todo = {f \in Enrollments : place[f].class = c} /\ x.written = << >>
    OBVIOUS
  <2> HIDE DEF x
  <2>3. DOMAIN x.written = {}
    BY <2>2, SomeMarksAre
  <2> QED BY <2>1, <2>2, <2>3, TypeInvSays DEF Touches, WorkersTyped
<1>2. ASSUME NEW w \in Workers, NEW f \in Enrollments, ReadScores(w, f)
      PROVE  Touches(v, e) /\ worker'[v].class = worker[v].class
  <2> DEFINE x == [worker[w] EXCEPT !.read = [g \in {f} |-> Finds(w, g)]]
  <2>1. /\ x \in Recalculations /\ worker' = [worker EXCEPT ![w] = x]
        /\ x.class = worker[w].class
        /\ x.todo = worker[w].todo /\ x.written = worker[w].written
    BY <1>2, ReadMoves
  <2> HIDE DEF x
  <2> QED BY <2>1, TypeInvSays DEF Touches, WorkersTyped
<1>3. ASSUME NEW w \in Workers, NEW f \in Enrollments, WriteResult(w, f)
      PROVE  Touches(v, e) /\ worker'[v].class = worker[v].class
  <2> DEFINE x == [class |-> worker[w].class, todo |-> worker[w].todo \ {f}, read |-> << >>,
                   written |-> [g \in {f} \cup DOMAIN worker[w].written |->
                                  IF g = f THEN worker[w].read[f] ELSE worker[w].written[g]]]
  <2>1. x \in Recalculations /\ worker' = [worker EXCEPT ![w] = x]
    BY <1>3, WriteMoves
  <2>2. /\ x.class = worker[w].class /\ x.todo = worker[w].todo \ {f}
        /\ DOMAIN x.written = {f} \cup DOMAIN worker[w].written
    OBVIOUS
  <2>3. f \in worker[w].todo
    BY <1>3, TypeInvSays DEF WriteResult, WorkersTyped
  <2> HIDE DEF x
  <2> QED BY <2>1, <2>2, <2>3, TypeInvSays DEF Touches, WorkersTyped
<1>4. ASSUME NEW w \in Workers, Commit(w) \/ Fail(w)
      PROVE  Touches(v, e) /\ worker'[v].class = worker[v].class
  <2>1. worker' = [worker EXCEPT ![w] = Stopped]
    BY <1>4 DEF Commit, Fail
  <2> QED BY <2>1, StoppedIs, TypeInvSays DEF Touches, WorkersTyped
<1> QED BY <1>1, <1>2, <1>3, <1>4, WhoWrites DEF Touches

-------------------------------------------------------------------------------
(* An edit that knows of the workflow changes no status, and class and     *)
(* maximum only while scores may be entered. *)
LEMMA EditsKnow ==
  ASSUME TypeInv, [Next]_vars, ~staleWrite'
  PROVE  /\ ~staleWrite
         /\ assessment'.status = assessment.status \/ Submit \/ Approve \/ Reject \/ Lock
         /\ \/ assessment'.class = assessment.class /\ assessment'.max = assessment.max
            \/ assessment.status \in Editable /\ assessment'.status = assessment.status
         /\ \/ assessment'.max = assessment.max
            \/ \E u \in Users, c \in Classes, m \in Maxima :
                 Update(u, c, m) /\ assessment'.max = m
<1>1. ~staleWrite
  <2>1. UNCHANGED vars => staleWrite' = staleWrite
    BY DEF vars
  <2>2. ASSUME NEW u \in Users, Delete(u) \/ \E c \in Classes, m \in Maxima : Update(u, c, m)
        PROVE  staleWrite => staleWrite'
    BY <2>2 DEF Delete, Update
  <2>3. ASSUME NEW u \in Users,
               \/ Read(u) \/ CheckBeforeDelete(u) \/ Refuse(u)
               \/ \E new \in Entries : BulkSave(u, new)
        PROVE  staleWrite' = staleWrite
    BY <2>3 DEF Read, CheckBeforeDelete, Refuse, BulkSave
  <2>4. Submit \/ Approve \/ Reject \/ Lock => staleWrite' = staleWrite
    BY DEF Submit, Approve, Reject, Lock, Transition
  <2>5. ASSUME NEW e \in Enrollments,
               (\E s \in Scores : Correct(e, s)) \/ ChangeEnrollment(e)
        PROVE  staleWrite' = staleWrite
    BY <2>5 DEF Correct, ChangeEnrollment
  <2>6. ASSUME NEW w \in Workers,
               (\E c \in Classes : Start(w, c)) \/ Commit(w) \/ Fail(w)
                 \/ \E e \in Enrollments : ReadScores(w, e) \/ WriteResult(w, e)
        PROVE  staleWrite' = staleWrite
    BY <2>6 DEF Start, Commit, Fail, ReadScores, WriteResult
  <2> QED BY <2>1, <2>2, <2>3, <2>4, <2>5, <2>6 DEF Next
<1>2. CASE assessment' = assessment
  BY <1>1, <1>2
<1>3. CASE Submit \/ Approve \/ Reject \/ Lock
  BY <1>1, <1>3, TypeInvSays DEF Submit, Approve, Reject, Lock, Transition, Assessments
<1>4. ASSUME NEW u \in Users, Delete(u)
      PROVE  /\ assessment'.status = assessment.status
             /\ assessment'.class = assessment.class /\ assessment'.max = assessment.max
  BY <1>4, TypeInvSays DEF Delete, Assessments
<1>5. ASSUME NEW u \in Users, NEW c \in Classes, NEW m \in Maxima, Update(u, c, m)
      PROVE  /\ assessment'.status = assessment.status
             /\ assessment'.max = m
             /\ \/ assessment'.class = assessment.class /\ assessment'.max = assessment.max
                \/ assessment.status \in Editable
  <2>1. /\ assessment = request[u].copy
        /\ assessment' = [assessment EXCEPT !.class = c, !.max = m]
        /\ c # assessment.class \/ m # assessment.max => assessment.status \in Editable
    BY <1>5 DEF Update, MayBecome
  <2> QED BY <2>1, TypeInvSays DEF Assessments
<1> QED BY <1>1, <1>2, <1>3, <1>4, <1>5, WhoWrites

LEMMA TransitionTargets ==
  ASSUME TypeInv
  PROVE  /\ Submit => assessment.status \in Editable /\ assessment'.status = "submitted"
         /\ Approve => assessment.status = "submitted" /\ assessment'.status = "approved"
         /\ Reject => assessment.status = "submitted" /\ assessment'.status = "rejected"
         /\ Lock => assessment.status = "approved" /\ assessment'.status = "locked"
BY TypeInvSays DEF Submit, Approve, Reject, Rejectable, Lock, Transition, Assessments

LEMMA StrangersStep ==
  ASSUME TypeInv, StrangersStayOut, [Next]_vars
  PROVE  StrangersStayOut'
<1> SUFFICES ASSUME NEW e \in Enrollments, moved'[e] = "never"
             PROVE  /\ \A c \in Classes : result'[c][e] # NoMark => place'[e].class = c
                    /\ \A w \in Workers : Touches(w, e)' => place'[e].class = worker'[w].class
                    /\ ~staleWrite' /\ e \in corrected' =>
                         assessment'.status = "locked" /\ place'[e].class = assessment'.class
  BY DEF StrangersStayOut, Touches
<1>1. moved[e] = "never" /\ place'[e] = place[e]
  BY UnmovedStay
<1>2. /\ \A c \in Classes : result[c][e] # NoMark => place[e].class = c
      /\ \A w \in Workers : Touches(w, e) => place[e].class = worker[w].class
      /\ ~staleWrite /\ e \in corrected =>
           assessment.status = "locked" /\ place[e].class = assessment.class
  BY <1>1 DEF StrangersStayOut, Touches
<1>3. ASSUME NEW c \in Classes, result'[c][e] # NoMark
      PROVE  place'[e].class = c
  <2>1. ASSUME NEW w \in Workers, Commit(w), result'[c][e] # result[c][e]
        PROVE  place[e].class = c
    <3>1. c = worker[w].class /\ e \in DOMAIN worker[w].written
      BY <2>1, TypeInvSays DEF Commit
    <3> QED BY <1>2, <3>1 DEF Touches
  <2> QED BY <1>1, <1>2, <1>3, <2>1, WhoWrites
<1>4. ASSUME NEW w \in Workers, Touches(w, e)'
      PROVE  place'[e].class = worker'[w].class
  BY <1>1, <1>2, <1>4, WhoIsTouched
<1>5. ASSUME ~staleWrite', e \in corrected'
      PROVE  assessment'.status = "locked" /\ place'[e].class = assessment'.class
  <2>1. ASSUME NEW f \in Enrollments, NEW s \in Scores, Correct(f, s), e \notin corrected
        PROVE  assessment'.status = "locked" /\ place[e].class = assessment'.class
    BY <1>5, <2>1 DEF Correct, IsClean, Members
  <2>2. CASE e \in corrected
    <3>1. assessment.status = "locked" /\ place[e].class = assessment.class
      BY <1>2, <1>5, <2>2, EditsKnow
    <3>2. assessment'.status = assessment.status
      BY <1>5, <3>1, EditsKnow, TransitionTargets DEF Editable
    <3>3. assessment'.class = assessment.class
      BY <1>5, <3>1, EditsKnow DEF Editable
    <3> QED BY <1>1, <3>1, <3>2, <3>3
  <2> QED BY <1>1, <1>5, <2>1, <2>2, WhoWrites
<1> QED BY <1>3, <1>4, <1>5

LEMMA ReviewStep ==
  ASSUME TypeInv, RosterIsReviewed, [Next]_vars
  PROVE  RosterIsReviewed'
<1> SUFFICES ASSUME ~staleWrite', assessment'.status \notin Editable,
                    NEW e \in Enrollments \ corrected', moved'[e] # "under review"
             PROVE  e \in Entered' <=> e \in Roster'
  BY DEF RosterIsReviewed
<1>1. CASE Submit
  <2>1. assessment'.class = assessment.class
    BY <1>1, TypeInvSays DEF Submit, Transition, Assessments
  <2>2. Entered' = Roster'
    BY <1>1, <2>1
       DEF Submit, IsComplete, Transition, rosterVars, scoreVars, Entered, Roster, RosterOf
  <2> QED BY <2>2
<1>2. CASE ~Submit
  <2>1. ~staleWrite /\ assessment.status \notin Editable
    BY <1>2, EditsKnow, TransitionTargets DEF Editable
  <2>2. e \notin corrected
    BY WhoWrites DEF Correct
  <2>3. score'[e] = score[e]
    <3>1. ASSUME NEW f \in Enrollments, NEW s \in Scores, Correct(f, s)
          PROVE  score'[e] = score[e]
      BY <3>1, TypeInvSays DEF Correct
    <3>2. ASSUME NEW u \in Users, NEW new \in Entries, BulkSave(u, new)
          PROVE  FALSE
      BY <2>1, <3>2 DEF BulkSave, IsOpen
    <3> QED BY <3>1, <3>2, WhoWrites
  <2>4. place'[e] = place[e] /\ moved[e] # "under review"
    <3>1. ASSUME NEW f \in Enrollments, ChangeEnrollment(f)
          PROVE  place'[e] = place[e] /\ moved[e] # "under review"
      BY <2>1, <3>1, TypeInvSays DEF ChangeEnrollment
    <3>2. CASE UNCHANGED rosterVars
      BY <3>2 DEF rosterVars
    <3> QED BY <3>1, <3>2, WhoWrites
  <2>5. e \in Entered <=> e \in Roster
    BY <2>1, <2>2, <2>4 DEF RosterIsReviewed
  <2>6. assessment'.class = assessment.class
    BY <2>1, EditsKnow
  <2> QED BY <2>3, <2>4, <2>5, <2>6 DEF Entered, Roster, RosterOf
<1> QED BY <1>1, <1>2

LEMMA MaximumStep ==
  ASSUME TypeInv, MaximumHolds, [Next]_vars
  PROVE  MaximumHolds'
<1> SUFFICES ASSUME ~staleWrite', NEW e \in Enrollments \ overtaken'
             PROVE  score'[e].value <= assessment'.max
  BY DEF MaximumHolds
<1>1. e \notin overtaken => score[e].value <= assessment.max
  BY EditsKnow DEF MaximumHolds
<1>2. CASE \E u \in Users, new \in Entries : BulkSave(u, new)
  <2>1. PICK u \in Users, new \in Entries : BulkSave(u, new)
    BY <1>2
  <2>2. CASE e \in DOMAIN new
    BY <2>1, <2>2 DEF BulkSave, IsClean
  <2>3. CASE e \notin DOMAIN new
    BY <1>1, <2>1, <2>3 DEF BulkSave
  <2> QED BY <2>2, <2>3
<1>3. ASSUME NEW f \in Enrollments, NEW s \in Scores, Correct(f, s)
      PROVE  score'[e].value <= assessment'.max
  <2>1. CASE e = f
    BY <1>3, <2>1, TypeInvSays DEF Correct, IsClean
  <2>2. CASE e # f
    BY <1>1, <1>3, <2>2, TypeInvSays DEF Correct
  <2> QED BY <2>1, <2>2
<1>4. ASSUME NEW u \in Users, NEW c \in Classes, NEW m \in Maxima, Update(u, c, m),
             assessment'.max = m
      PROVE  score'[e].value <= assessment'.max
  <2>1. assessment.max \in Nat /\ m \in Nat
    BY AssessmentAssumption, TypeInvSays DEF Assessments
  <2>2. score[e].value \in Int
    <3>1. score[e] \in Scores \cup {NoScore}
      BY TypeInvSays
    <3>2. score[e].value \in Nat \cup {-1}
      BY <3>1, ScoreValues DEF NoMark
    <3> QED BY <3>2
  <2>3. score'[e] = score[e]
    BY <1>4 DEF Update
  <2>4. CASE m >= assessment.max
    <3>1. score[e].value <= assessment.max
      BY <1>1, <1>4, <2>4 DEF Update
    <3>2. score[e].value <= m
      BY <2>1, <2>2, <2>4, <3>1
    <3> QED BY <1>4, <2>3, <3>2
  <2>5. CASE ~(m >= assessment.max)
    <3>1. score[e] = NoScore
      BY <1>4, <2>5 DEF Update
    <3>2. score'[e].value = -1
      BY <2>3, <3>1, ScoreValues DEF NoMark
    <3> QED BY <1>4, <2>1, <3>2
  <2> QED BY <2>4, <2>5
<1>5. CASE /\ score' = score /\ overtaken' = overtaken /\ assessment'.max = assessment.max
  BY <1>1, <1>5
<1>6. ASSUME NEW u \in Users, NEW c \in Classes, NEW m \in Maxima, Update(u, c, m)
      PROVE  assessment'.max = m
  BY <1>6, CopyIsTyped DEF Update, Assessments
<1> QED BY <1>2, <1>3, <1>4, <1>5, <1>6, EditsKnow, WhoWrites

(* An assessment that goes to another class is suspect. *)
LEMMA ClassStays ==
  ASSUME TypeInv, [Next]_vars, ~suspect'
  PROVE  assessment'.class = assessment.class
<1>1. ASSUME NEW u \in Users, NEW c \in Classes, NEW m \in Maxima, Update(u, c, m)
      PROVE  assessment'.class = assessment.class
  <2>1. c = assessment.class
    BY <1>1 DEF Update
  <2> QED BY <1>1, <2>1, CopyIsTyped DEF Update, Assessments
<1>2. ASSUME NEW u \in Users, Delete(u)
      PROVE  assessment'.class = assessment.class
  BY <1>2, TypeInvSays DEF Delete, Assessments
<1>3. CASE Submit \/ Approve \/ Reject \/ Lock
  BY <1>3, TypeInvSays DEF Submit, Approve, Reject, Lock, Transition, Assessments
<1> QED BY <1>1, <1>2, <1>3, WhoWrites

(* Only a beginning sets a recalculation of the class going. *)
LEMMA NoneBegins ==
  ASSUME TypeInv, [Next]_vars, assessment'.class = assessment.class,
         NEW y \in Workers, Calculates(y)', ~Start(y, assessment.class)
  PROVE  Calculates(y)
<1>0. worker'[y] # Stopped /\ worker'[y].class = assessment.class
  BY DEF Calculates, IsRunning
<1>1. ASSUME NEW x \in Workers, Commit(x) \/ Fail(x)
      PROVE  Calculates(y)
  BY <1>0, <1>1, TypeInvSays DEF Commit, Fail, Calculates, IsRunning, WorkersTyped
<1>2. ASSUME NEW x \in Workers, NEW e \in Enrollments, ReadScores(x, e) \/ WriteResult(x, e)
      PROVE  Calculates(y)
  <2>1. worker[x] # Stopped
    BY <1>2, StoppedIs DEF ReadScores, WriteResult
  <2>2. y # x => worker'[y] = worker[y]
    BY <1>2, TypeInvSays DEF ReadScores, WriteResult, WorkersTyped
  <2>3. worker'[x].class = worker[x].class
    <3>1. \A z : worker' = [worker EXCEPT ![x] = z] => worker'[x] = z
      BY TypeInvSays DEF WorkersTyped
    <3>2. CASE ReadScores(x, e)
      <4> DEFINE z == [worker[x] EXCEPT !.read = [f \in {e} |-> Finds(x, f)]]
      <4>1. worker' = [worker EXCEPT ![x] = z] /\ z.class = worker[x].class
        BY <3>2, ReadMoves
      <4> HIDE DEF z
      <4> QED BY <3>1, <4>1
    <3>3. CASE WriteResult(x, e)
      <4> DEFINE z == [class |-> worker[x].class, todo |-> worker[x].todo \ {e}, read |-> << >>,
                       written |-> [f \in {e} \cup DOMAIN worker[x].written |->
                                      IF f = e THEN worker[x].read[e] ELSE worker[x].written[f]]]
      <4>1. worker' = [worker EXCEPT ![x] = z] /\ z.class = worker[x].class
        BY <3>3, WriteMoves
      <4> HIDE DEF z
      <4> QED BY <3>1, <4>1
    <3> QED BY <1>2, <3>2, <3>3
  <2> QED BY <1>0, <2>1, <2>2, <2>3 DEF Calculates, IsRunning
<1>3. ASSUME NEW x \in Workers, NEW c \in Classes, Start(x, c)
      PROVE  Calculates(y)
  <2> DEFINE z == [class |-> c, todo |-> {f \in Enrollments : place[f].class = c},
                   read |-> << >>, written |-> << >>]
  <2>1. worker' = [worker EXCEPT ![x] = z] /\ z.class = c
    BY <1>3, StartMoves
  <2> HIDE DEF z
  <2>2. y # x
    BY <1>0, <1>3, <2>1, TypeInvSays DEF WorkersTyped
  <2> QED BY <1>0, <2>1, <2>2, TypeInvSays DEF WorkersTyped, Calculates, IsRunning
<1>4. CASE worker' = worker
  BY <1>0, <1>4 DEF Calculates, IsRunning
<1> QED BY <1>1, <1>2, <1>3, <1>4, WhoWrites

LEMMA OneRunsStep ==
  ASSUME TypeInv, OneRuns, [Next]_vars
  PROVE  OneRuns'
<1> SUFFICES ASSUME ~suspect', NEW v \in Workers, NEW w \in Workers,
                    Calculates(v)', Calculates(w)'
             PROVE  v = w
  BY DEF OneRuns
<1>1. assessment'.class = assessment.class
  BY ClassStays
<1>2. CASE \E x \in Workers : Start(x, assessment.class)
  <2>1. PICK x \in Workers : Start(x, assessment.class)
    BY <1>2
  <2>2. \A y \in Workers : ~Calculates(y)
    BY <2>1 DEF Start
  <2>3. \A y \in Workers \ {x} : worker'[y] = worker[y]
    BY <2>1, TypeInvSays DEF Start, WorkersTyped
  <2> QED BY <1>1, <2>2, <2>3 DEF Calculates, IsRunning
<1>3. CASE ~\E x \in Workers : Start(x, assessment.class)
  <2>1. ~suspect
    BY <1>3, WhoWrites DEF QueueRecalculation
  <2> QED BY <1>1, <1>3, <2>1, NoneBegins DEF OneRuns
<1> QED BY <1>2, <1>3

(* A recalculation that has stopped has nothing for anyone. *)
LEMMA WhoBringsRuns ==
  ASSUME NEW w \in Workers, NEW e, NEW m, Brings(worker[w], e, m)
  PROVE  IsRunning(w) /\ Touches(w, e)
BY StoppedIs DEF Brings, IsRunning, Touches

LEMMA QueuedIsKnown ==
  ASSUME TypeInv, QueueRecalculation
  PROVE  queue' # 0 \/ suspect' = TRUE
<1>1. queue \in Nat
  <2>1. queue \in 0 .. MaxQueue /\ MaxQueue \in Nat
    BY TypeInvSays, AssessmentAssumption
  <2> QED BY ONLY <2>1
<1> QED BY <1>1 DEF QueueRecalculation

(* What the results of a locked assessment depend on stays, unless a       *)
(* recalculation is queued, or lost, in the same step. *)
LEMMA MarkStays ==
  ASSUME TypeInv, [Next]_vars, NEW e \in Enrollments,
         assessment'.status = "locked", queue' = 0, ~suspect', ~staleWrite',
         ~\E w \in Workers : Start(w, assessment.class)
  PROVE  /\ assessment.status = "locked" /\ queue = 0 /\ ~suspect /\ ~staleWrite
         /\ assessment'.class = assessment.class
         /\ Mark(e)' = Mark(e)
<1>1. ~QueueRecalculation
  BY QueuedIsKnown
<1>2. queue = 0 /\ ~suspect
  <2>1. UNCHANGED <<queue, suspect>> \/ QueueRecalculation \/ suspect' = TRUE
    BY WhoWrites
  <2> QED BY <1>1, <2>1
<1>3. ~Lock
  BY <1>1 DEF Lock
<1>4. ~staleWrite /\ assessment.status = "locked"
  BY <1>3, EditsKnow, TransitionTargets
<1>5. assessment'.max = assessment.max /\ assessment'.class = assessment.class
  BY <1>4, EditsKnow DEF Editable
<1>6. score' = score
  <2>1. ASSUME NEW u \in Users, NEW new \in Entries, BulkSave(u, new)
        PROVE  FALSE
    BY <1>4, <2>1 DEF BulkSave, IsOpen, Editable
  <2>2. ASSUME NEW f \in Enrollments, NEW s \in Scores, Correct(f, s)
        PROVE  FALSE
    BY <1>1, <2>2 DEF Correct
  <2> QED BY <2>1, <2>2, WhoWrites
<1> QED BY <1>2, <1>4, <1>5, <1>6 DEF Mark

(* Each step of a recalculation keeps what it brings, or leaves it. *)
LEMMA ReadProvides ==
  ASSUME TypeInv, NEW w \in Workers, NEW f \in Enrollments, ReadScores(w, f),
         NEW e \in Enrollments, Provided(e, Mark(e))
  PROVE  \/ \E v \in Workers : Calculates(v)' /\ Brings(worker'[v], e, Mark(e))
         \/ /\ result'[assessment.class][e] = Mark(e)
            /\ \A v \in Workers : Calculates(v)' => ~Touches(v, e)'
<1> DEFINE x == [worker[w] EXCEPT !.read = [g \in {f} |-> Finds(w, g)]]
<1>1. /\ x \in Recalculations /\ worker' = [worker EXCEPT ![w] = x]
      /\ x.class = worker[w].class
      /\ x.todo = worker[w].todo /\ x.written = worker[w].written
      /\ x.read = [g \in {f} |-> Finds(w, g)]
  BY ReadMoves
<1>2. result' = result /\ assessment' = assessment
  BY DEF ReadScores
<1>3. worker[w] # Stopped /\ x # Stopped
  BY <1>1, StoppedIs DEF ReadScores
<1> HIDE DEF x
<1>4. \A v \in Workers : worker'[v] = IF v = w THEN x ELSE worker[v]
  BY <1>1, TypeInvSays DEF WorkersTyped
<1>5. \A v \in Workers : Calculates(v)' <=> Calculates(v)
  BY <1>1, <1>2, <1>3, <1>4 DEF Calculates, IsRunning
<1>6. ASSUME NEW v \in Workers, Calculates(v), Brings(worker[v], e, Mark(e))
      PROVE  Brings(worker'[v], e, Mark(e))
  <2>1. CASE v # w
    BY <1>4, <1>6, <2>1
  <2>2. CASE v = w
    <3>1. DOMAIN x.read = {f} /\ x.read[f] = Mark(f)
      BY <1>1, <1>6, <2>2 DEF Finds
    <3>2. e \in DOMAIN x.read => x.read[e] = Mark(e)
      BY <3>1
    <3> QED BY <1>1, <1>4, <1>6, <2>2, <3>2 DEF Brings
  <2> QED BY <2>1, <2>2
<1>7. \A v \in Workers : Touches(v, e)' <=> Touches(v, e)
  BY <1>1, <1>4 DEF Touches
<1> QED BY <1>2, <1>5, <1>6, <1>7 DEF Provided

LEMMA WriteProvides ==
  ASSUME TypeInv, NEW w \in Workers, NEW f \in Enrollments, WriteResult(w, f),
         NEW e \in Enrollments, Provided(e, Mark(e))
  PROVE  \/ \E v \in Workers : Calculates(v)' /\ Brings(worker'[v], e, Mark(e))
         \/ /\ result'[assessment.class][e] = Mark(e)
            /\ \A v \in Workers : Calculates(v)' => ~Touches(v, e)'
<1> DEFINE m == [g \in {f} \cup DOMAIN worker[w].written |->
                   IF g = f THEN worker[w].read[f] ELSE worker[w].written[g]]
           x == [class |-> worker[w].class, todo |-> worker[w].todo \ {f},
                 read |-> << >>, written |-> m]
<1>1. x \in Recalculations /\ worker' = [worker EXCEPT ![w] = x]
  BY WriteMoves
<1>2. /\ x.class = worker[w].class /\ x.todo = worker[w].todo \ {f}
      /\ x.read = << >> /\ x.written = m
  BY Zenon
<1>3. /\ DOMAIN m = {f} \cup DOMAIN worker[w].written
      /\ m[f] = worker[w].read[f]
      /\ \A g \in DOMAIN worker[w].written : g # f => m[g] = worker[w].written[g]
  OBVIOUS
<1>4. f \in DOMAIN worker[w].read /\ f \in worker[w].todo /\ f \notin DOMAIN worker[w].written
  BY TypeInvSays DEF WriteResult, WorkersTyped
<1>5. result' = result /\ assessment' = assessment
  BY DEF WriteResult
<1> HIDE DEF m, x
<1>6. \A v \in Workers : worker'[v] = IF v = w THEN x ELSE worker[v]
  BY <1>1, TypeInvSays DEF WorkersTyped
<1>7. worker[w] # Stopped /\ x # Stopped
  BY <1>2, <1>3, <1>4, StoppedIs
<1>8. \A v \in Workers : Calculates(v)' <=> Calculates(v)
  BY <1>2, <1>5, <1>6, <1>7 DEF Calculates, IsRunning
<1>9. ASSUME NEW v \in Workers, Brings(worker[v], e, Mark(e))
      PROVE  Brings(worker'[v], e, Mark(e))
  <2>1. CASE v # w
    BY <1>6, <1>9, <2>1
  <2>2. CASE v = w /\ e = f
    BY <1>2, <1>3, <1>4, <1>6, <1>9, <2>2 DEF Brings
  <2>3. CASE v = w /\ e # f
    <3>1. e \notin DOMAIN x.read
      BY <1>2, SomeMarksAre
    <3>2. CASE e \in worker[w].todo
      BY <1>2, <1>6, <2>3, <3>1, <3>2 DEF Brings
    <3>3. CASE e \in DOMAIN worker[w].written /\ worker[w].written[e] = Mark(e)
      BY <1>2, <1>3, <1>6, <2>3, <3>3 DEF Brings
    <3> QED BY <1>9, <2>3, <3>2, <3>3 DEF Brings
  <2> QED BY <2>1, <2>2, <2>3
<1>10. \A v \in Workers : Touches(v, e)' => Touches(v, e)
  BY <1>2, <1>3, <1>4, <1>6 DEF Touches
<1> QED BY <1>5, <1>8, <1>9, <1>10 DEF Provided

LEMMA CommitProvides ==
  ASSUME TypeInv, OneRuns, ~suspect, NEW w \in Workers, Commit(w),
         NEW e \in Enrollments, Provided(e, Mark(e))
  PROVE  \/ \E v \in Workers : Calculates(v)' /\ Brings(worker'[v], e, Mark(e))
         \/ /\ result'[assessment.class][e] = Mark(e)
            /\ \A v \in Workers : Calculates(v)' => ~Touches(v, e)'
<1>1. \A v \in Workers : worker'[v] = IF v = w THEN Stopped ELSE worker[v]
  BY TypeInvSays DEF Commit, WorkersTyped
<1>2. assessment' = assessment /\ assessment.class \in Classes
  BY TypeInvSays DEF Commit, Assessments
<1>3. CASE Calculates(w)
  <2>1. \A v \in Workers : ~Calculates(v)'
    BY <1>1, <1>2, <1>3 DEF OneRuns, Calculates, IsRunning
  <2>2. result'[assessment.class][e] = IF e \in DOMAIN worker[w].written
                                       THEN worker[w].written[e]
                                       ELSE result[assessment.class][e]
    BY <1>2, <1>3, TypeInvSays DEF Commit, Calculates
  <2>3. ASSUME NEW v \in Workers, Calculates(v), Brings(worker[v], e, Mark(e))
        PROVE  e \in DOMAIN worker[w].written /\ worker[w].written[e] = Mark(e)
    <3>1. v = w
      BY <1>3, <2>3 DEF OneRuns
    <3> QED BY <2>3, <3>1 DEF Brings, Commit
  <2>4. result'[assessment.class][e] = Mark(e)
    BY <1>3, <2>2, <2>3 DEF Provided, Touches
  <2> QED BY <2>1, <2>4
<1>4. CASE ~Calculates(w)
  <2>1. worker[w].class # assessment.class
    BY <1>4 DEF Commit, Calculates
  <2>2. result'[assessment.class] = result[assessment.class]
    BY <1>2, <2>1, TypeInvSays DEF Commit
  <2>3. \A v \in Workers : Calculates(v)' <=> Calculates(v)
    BY <1>1, <1>2, <1>4 DEF Calculates, IsRunning
  <2>4. \A v \in Workers : Calculates(v) => v # w /\ worker'[v] = worker[v]
    BY <1>1, <1>4
  <2>5. \A v \in Workers : Calculates(v) => (Touches(v, e)' <=> Touches(v, e))
    BY <2>4 DEF Touches
  <2> QED BY <2>2, <2>3, <2>4, <2>5 DEF Provided
<1> QED BY <1>3, <1>4

(* A recalculation of another class that begins or fails. *)
LEMMA OthersProvide ==
  ASSUME TypeInv, NEW w \in Workers, ~Calculates(w),
         Fail(w) \/ \E c \in Classes \ {assessment.class} : Start(w, c),
         NEW e \in Enrollments, Provided(e, Mark(e))
  PROVE  \/ \E v \in Workers : Calculates(v)' /\ Brings(worker'[v], e, Mark(e))
         \/ /\ result'[assessment.class][e] = Mark(e)
            /\ \A v \in Workers : Calculates(v)' => ~Touches(v, e)'
<1>1. \A v \in Workers : v # w => worker'[v] = worker[v]
  BY TypeInvSays DEF Fail, Start, WorkersTyped
<1>2. result' = result /\ assessment' = assessment
  BY DEF Fail, Start
<1>3. ~Calculates(w)'
  <2>1. CASE Fail(w)
    BY <2>1, TypeInvSays DEF Fail, WorkersTyped, Calculates, IsRunning
  <2>2. ASSUME NEW c \in Classes \ {assessment.class}, Start(w, c)
        PROVE  ~Calculates(w)'
    <3> DEFINE z == [class |-> c, todo |-> {f \in Enrollments : place[f].class = c},
                     read |-> << >>, written |-> << >>]
    <3>1. worker' = [worker EXCEPT ![w] = z] /\ z.class = c
      BY <2>2, StartMoves
    <3> HIDE DEF z
    <3> QED BY <1>2, <3>1, TypeInvSays DEF WorkersTyped, Calculates
  <2> QED BY <2>1, <2>2
<1>4. \A v \in Workers : Calculates(v)' <=> Calculates(v)
  BY <1>1, <1>2, <1>3 DEF Calculates, IsRunning
<1>5. \A v \in Workers : Calculates(v) => worker'[v] = worker[v]
  BY <1>1
<1>6. \A v \in Workers : Calculates(v) => (Touches(v, e)' <=> Touches(v, e))
  BY <1>5 DEF Touches
<1> QED BY <1>2, <1>4, <1>5, <1>6 DEF Provided

LEMMA ResultsStep ==
  ASSUME TypeInv, StrangersStayOut, RosterIsReviewed, OneRuns, ResultsFollow, [Next]_vars
  PROVE  ResultsFollow'
<1> DEFINE P(e) == \/ \E v \in Workers : Calculates(v)' /\ Brings(worker'[v], e, Mark(e))
                   \/ /\ result'[assessment.class][e] = Mark(e)
                      /\ \A v \in Workers : Calculates(v)' => ~Touches(v, e)'
<1> SUFFICES ASSUME assessment'.status = "locked", queue' = 0, ~suspect', ~staleWrite',
                    NEW e \in Enrollments, e \in Members'
             PROVE  Provided(e, Mark(e))'
  BY DEF ResultsFollow, Members
<1>1. ASSUME NEW w \in Workers, Start(w, assessment.class)
      PROVE  Calculates(w)' /\ Brings(worker'[w], e, Mark(e)')
  <2> DEFINE es == {f \in Enrollments : place[f].class = assessment.class}
             x == [class |-> assessment.class, todo |-> es, read |-> << >>, written |-> << >>]
  <2>1. assessment.class \in Classes
    BY TypeInvSays DEF Assessments
  <2>2. x \in Recalculations /\ worker' = [worker EXCEPT ![w] = x]
    BY <1>1, <2>1, StartMoves
  <2>3. e \in es /\ assessment' = assessment
    BY <1>1 DEF Start, rosterVars, Members
  <2> HIDE DEF es
  <2>4. x.class = assessment.class /\ x.todo = es /\ x.read = << >>
    BY Zenon
  <2> HIDE DEF x
  <2>5. worker'[w] = x /\ e \notin DOMAIN x.read
    BY <2>2, <2>4, SomeMarksAre, TypeInvSays DEF WorkersTyped
  <2>6. x # Stopped
    BY <2>3, <2>4, StoppedIs
  <2> QED BY <2>3, <2>4, <2>5, <2>6 DEF Brings, Calculates, IsRunning
<1>2. CASE ~\E w \in Workers : Start(w, assessment.class)
  <2>1. /\ assessment.status = "locked" /\ queue = 0 /\ ~suspect /\ ~staleWrite
        /\ assessment'.class = assessment.class
        /\ Mark(e)' = Mark(e)
    BY <1>2, MarkStays
  <2>2. CASE e \notin Members
    <3>1. place'[e] # place[e]
      BY <2>1, <2>2 DEF Members
    <3>2. PICK f \in Enrollments : ChangeEnrollment(f)
      BY <3>1, WhoWrites DEF rosterVars
    <3>3. moved[e] = "never"
      BY <3>1, <3>2, TypeInvSays DEF ChangeEnrollment
    <3>4. /\ assessment.class \in Classes /\ result[assessment.class][e] = NoMark
          /\ \A v \in Workers : Calculates(v) => ~Touches(v, e)
          /\ e \notin corrected
      BY <2>1, <2>2, <3>3, TypeInvSays DEF StrangersStayOut, Members, Calculates, Assessments
    <3>5. e \notin Entered
      BY <2>1, <2>2, <3>3, <3>4
         DEF RosterIsReviewed, Roster, RosterOf, Members, Editable
    <3>6. Mark(e) = NoMark
      BY <3>5 DEF Mark, Entered
    <3>7. UNCHANGED <<result, worker, assessment>>
      BY <3>2 DEF ChangeEnrollment, resultVars
    <3>8. P(e)
      BY <3>4, <3>6, <3>7 DEF Touches, Calculates, IsRunning
    <3> QED BY <2>1, <3>8 DEF Provided, Touches
  <2>3. CASE e \in Members
    <3>1. Provided(e, Mark(e))
      BY <2>1, <2>3 DEF ResultsFollow
    <3>2. CASE UNCHANGED <<result, worker>>
      BY <2>1, <3>1, <3>2 DEF Provided, Touches, Calculates, IsRunning
    <3>3. ASSUME NEW w \in Workers, NEW f \in Enrollments, ReadScores(w, f) \/ WriteResult(w, f)
          PROVE  P(e)
      BY <3>1, <3>3, ReadProvides, WriteProvides
    <3>4. ASSUME NEW w \in Workers, Commit(w)
          PROVE  P(e)
      BY <2>1, <3>1, <3>4, CommitProvides
    <3>5. ASSUME NEW w \in Workers, Fail(w)
          PROVE  P(e)
      <4>1. ~Calculates(w)
        BY <3>5, QueuedIsKnown DEF Fail
      <4> QED BY <3>1, <3>5, <4>1, OthersProvide
    <3>6. ASSUME NEW w \in Workers, NEW c \in Classes, Start(w, c)
          PROVE  P(e)
      <4>1. ~Calculates(w) /\ c # assessment.class
        BY <1>2, <3>6 DEF Start, Calculates
      <4> QED BY <3>1, <3>6, <4>1, OthersProvide
    <3>7. P(e) => Provided(e, Mark(e))'
      BY <2>1 DEF Provided, Touches
    <3> QED BY <3>2, <3>3, <3>4, <3>5, <3>6, <3>7, WhoWrites
  <2> QED BY <2>2, <2>3
<1> QED BY <1>1, <1>2 DEF Provided

-------------------------------------------------------------------------------
IInv ==
  /\ TypeInv
  /\ StrangersStayOut
  /\ RosterIsReviewed
  /\ MaximumHolds
  /\ OneRuns
  /\ ResultsFollow

LEMMA InitOK == Init => IInv
<1> SUFFICES ASSUME Init PROVE IInv
  OBVIOUS
<1>1. TypeInv
  BY TypeInit
<1>2. \A w \in Workers : worker[w] = Stopped
  BY DEF Init
<1>3. StrangersStayOut
  BY <1>2, StoppedIs DEF Init, StrangersStayOut, Touches
<1>4. assessment.status = "draft" /\ assessment.max \in Nat
  BY AssessmentAssumption DEF Init
<1>5. RosterIsReviewed /\ ResultsFollow
  BY <1>4 DEF RosterIsReviewed, ResultsFollow, Editable
<1>6. MaximumHolds
  <2>1. \A e \in Enrollments : score[e].value = NoMark
    BY ScoreValues DEF Init
  <2> QED BY <1>4, <2>1 DEF MaximumHolds, NoMark
<1>7. OneRuns
  BY <1>2 DEF OneRuns, Calculates, IsRunning
<1> QED BY <1>1, <1>3, <1>5, <1>6, <1>7 DEF IInv

LEMMA NextOK == IInv /\ [Next]_vars => IInv'
BY TypeStep, StrangersStep, ReviewStep, MaximumStep, OneRunsStep, ResultsStep DEF IInv

LEMMA InvHolds == Spec => []IInv
BY InitOK, NextOK, PTL DEF Spec

(* The variables of the model have the types of the rows they stand for,   *)
(* for any number of requests, recalculations and enrollments.             *)
THEOREM TypeCorrect == Spec => []TypeOK
<1>1. IInv => TypeOK
  BY DEF IInv, TypeInv
<1> QED BY <1>1, InvHolds, PTL

(* Under review or beyond, exactly the roster of its class has a score,    *)
(* and none above the maximum that was not there when an edit lowered it:  *)
(* the services look at the row again under its lock                       *)
(* (academics/services.py), the copies of an outdated edit aside.          *)
THEOREM ReviewedStaysComplete == Spec => []ReviewedIsComplete
<1>1. IInv => ReviewedIsComplete
  BY DEF IInv, RosterIsReviewed, MaximumHolds, ReviewedIsComplete
<1> QED BY <1>1, InvHolds, PTL

(* The results of a locked assessment are those of its scores when its     *)
(* class is not being recalculated, and no recalculation waits or was      *)
(* lost: recalculate_class_term_task runs after every commit that changes  *)
(* what a locked assessment gives.                                         *)
THEOREM ResultsCatchUp == Spec => []ResultIsCurrent
<1>1. IInv => ResultIsCurrent
  BY DEF IInv, ResultsFollow, Provided, Members, ResultIsCurrent
<1> QED BY <1>1, InvHolds, PTL

===============================================================================
