--------------------------- MODULE RiskSignal_proofs ---------------------------
(***************************************************************************)
(* Proofs about RiskSignal, for any number of requests, workers and events *)
(* and any thresholds and bounds.                                          *)
(*                                                                         *)
(* A run replaces the signals it found when it evaluated the rules.  That  *)
(* it leaves one ACTIVE signal of a rule at most therefore depends on      *)
(* nobody having added one in between: the row of the enrollment has one   *)
(* holder (OneHolder), and only the holder writes signals, so that those   *)
(* it has counted are all there are when it commits (SeenIsAll).           *)
(***************************************************************************)
EXTENDS RiskSignal, SequenceTheorems, TLAPS

(* A draft that was read is still a draft in the copy. *)
CopiesAreDrafts ==
  \A u \in Users : request[u] # Idle => request[u].copy.status = "draft"

(* One run holds the row of the enrollment. *)
OneHolder == \A v, w \in Workers : Holds(v) /\ Holds(w) => v = w

(* What a run has found is all there is. *)
SeenIsAll ==
  \A w \in Workers : worker[w].stage = "evaluated" =>
    \A r \in Rules : worker[w].kept[r] = Len(signal[r])

SignalInv == OneHolder /\ SeenIsAll /\ OneActivePerRule

-------------------------------------------------------------------------------
(* What a run may be, by its stage. *)
LEMMA RunShapes ==
  ASSUME NEW x \in Runs
  PROVE  /\ x.stage \in {"none", "waiting", "locked", "evaluated"}
         /\ x.stage = "none" <=> x = NoRun
         /\ x # NoRun => x.tries \in Attempts \cup {MaxRetries + 1}
         /\ x.stage = "evaluated" =>
              /\ x.found \in [Rules -> SUBSET Severities]
              /\ x.kept \in [Rules -> Nat]
         /\ x.stage \in {"waiting", "locked"} =>
              x \in [stage : {"waiting", "locked"}, tries : Attempts \cup {MaxRetries + 1}]
<1>1. NoRun.stage = "none"
  BY DEF NoRun
<1> QED BY <1>1 DEF Runs

LEMMA NoRunIsARun == NoRun \in Runs
BY DEF Runs

LEMMA RequestShapes ==
  ASSUME NEW x \in Requests
  PROVE  x.op \in {"update", "destroy"} \/ x # Idle =>
           x \in [op : {"update", "destroy"}, id : Events, copy : BehaviorEvents]
<1>1. Idle.op = "none"
  BY DEF Idle
<1> QED BY <1>1 DEF Requests

LEMMA IdleIsARequest == Idle \in Requests
BY DEF Requests

(* Publishing a task keeps the counters of the queue in their bounds. *)
LEMMA PublishedIsTyped ==
  ASSUME NEW q \in [Attempts -> 0 .. MaxQueue], NEW n \in Attempts
  PROVE  Published(q, n) \in [Attempts -> 0 .. MaxQueue]
BY RiskSignalAssumption DEF Published

LEMMA ScheduledIsTyped ==
  ASSUME TypeOK, Schedule
  PROVE  queue' \in [Attempts -> 0 .. MaxQueue]
<1>1. 0 \in Attempts
  BY RiskSignalAssumption DEF Attempts
<1> QED BY <1>1, PublishedIsTyped DEF Schedule, TypeOK

LEMMA ChangedIsTyped ==
  ASSUME TypeOK, Changed
  PROVE  changes' \in 0 .. MaxChanges
BY RiskSignalAssumption DEF TypeOK, Changed

LEMMA CandidatesAreTyped == Candidates \in [Rules -> SUBSET Severities]
<1>1. DisciplineRepeat \in SUBSET Severities /\ HighUnexcusedAbsence \in SUBSET Severities
  BY DEF DisciplineRepeat, HighUnexcusedAbsence, Severities
<1> QED BY <1>1 DEF Candidates, Rules

(* What is left of a sequence after all of it has been seen. *)
LEMMA NothingUnseen ==
  ASSUME NEW S, NEW s \in Seq(S)
  PROVE  SubSeq(s, Len(s) + 1, Len(s)) = << >>
OBVIOUS

-------------------------------------------------------------------------------
(* Types.  One event is written at a time, and keeps its stamp. *)
LEMMA EventWritten ==
  ASSUME TypeOK, NEW e \in Events, NEW x \in BehaviorEvents, Stamped(x),
         event' = [event EXCEPT ![e] = x]
  PROVE  event' \in [Events -> BehaviorEvents] /\ \A f \in Events : Stamped(event'[f])
BY DEF TypeOK

LEMMA InitType == Init => TypeOK /\ CopiesAreDrafts
<1> SUFFICES ASSUME Init PROVE TypeOK /\ CopiesAreDrafts
  OBVIOUS
<1>1. NoEvent \in BehaviorEvents /\ Stamped(NoEvent)
  BY DEF NoEvent, BehaviorEvents, Statuses, Stamped
<1>2. signal \in [Rules -> Seq(Severities)]
  BY DEF Init
<1>3. queue \in [Attempts -> 0 .. MaxQueue] /\ changes \in 0 .. MaxChanges
        /\ faults \in 0 .. MaxFaults
  BY RiskSignalAssumption DEF Init
<1>4. worker \in [Workers -> Runs] /\ request \in [Users -> Requests]
  BY NoRunIsARun, IdleIsARequest DEF Init
<1> QED BY <1>1, <1>2, <1>3, <1>4 DEF Init, TypeOK, CopiesAreDrafts

LEMMA ChangeType ==
  ASSUME TypeOK, CopiesAreDrafts, Change
  PROVE  TypeOK' /\ CopiesAreDrafts' /\ UNCHANGED <<signal, worker, faults>>
<1> USE DEF TypeOK
<1>1. ASSUME NEW e \in Events, NEW negative \in BOOLEAN, Record(e, negative)
      PROVE  TypeOK' /\ CopiesAreDrafts' /\ UNCHANGED <<signal, worker, faults>>
  <2> DEFINE x == [NoEvent EXCEPT !.negative = negative, !.recent = TRUE, !.deleted = FALSE]
  <2>1. x \in BehaviorEvents /\ Stamped(x)
    BY DEF NoEvent, BehaviorEvents, Statuses, Stamped
  <2>2. event' = [event EXCEPT ![e] = x]
    BY <1>1 DEF Record
  <2> HIDE DEF x
  <2> QED BY <1>1, <2>1, <2>2, EventWritten, ChangedIsTyped DEF Record, CopiesAreDrafts
<1>2. ASSUME NEW e \in Events, NEW target \in Statuses, Transition(e, target)
      PROVE  TypeOK' /\ CopiesAreDrafts' /\ UNCHANGED <<signal, worker, faults>>
  <2> DEFINE x == [event[e] EXCEPT !.status = target,
                                   !.confirmed = @ \/ target = "confirmed"]
  <2>1. event[e] \in BehaviorEvents /\ Stamped(event[e])
    OBVIOUS
  <2>2. x \in BehaviorEvents
    BY <2>1 DEF BehaviorEvents
  <2>3. event[e].status \in Statuses /\ target \in AllowedTransitions[event[e].status]
    BY <1>2, <2>1 DEF BehaviorEvents, Transition
  <2>4. Stamped(x)
    BY <2>1, <2>3 DEF Stamped, BehaviorEvents, AllowedTransitions, Statuses
  <2>5. event' = [event EXCEPT ![e] = x]
    BY <1>2, <2>1 DEF Transition
  <2>6. queue' \in [Attempts -> 0 .. MaxQueue]
    BY <1>2, ScheduledIsTyped DEF Transition
  <2> HIDE DEF x
  <2> QED BY <1>2, <2>2, <2>4, <2>5, <2>6, EventWritten, ChangedIsTyped
          DEF Transition, CopiesAreDrafts
<1>3. ASSUME NEW e \in Events, NEW b \in BOOLEAN, Changed,
             event' = [event EXCEPT ![e].recent = b],
             UNCHANGED <<absences, enabled, request, signal, queue, worker, faults>>
      PROVE  TypeOK' /\ CopiesAreDrafts' /\ UNCHANGED <<signal, worker, faults>>
  <2> DEFINE x == [event[e] EXCEPT !.recent = b]
  <2>1. x \in BehaviorEvents /\ Stamped(x)
    BY DEF BehaviorEvents, Stamped
  <2>2. event' = [event EXCEPT ![e] = x]
    BY <1>3
  <2> HIDE DEF x
  <2> QED BY <1>3, <2>1, <2>2, EventWritten, ChangedIsTyped DEF CopiesAreDrafts
<1>4. ASSUME NEW e \in Events, Revise(e) \/ PassWindow(e)
      PROVE  TypeOK' /\ CopiesAreDrafts' /\ UNCHANGED <<signal, worker, faults>>
  <2>1. event[e].recent \in BOOLEAN
    BY DEF BehaviorEvents
  <2>2. PICK b \in BOOLEAN : event' = [event EXCEPT ![e].recent = b]
    BY <1>4, <2>1 DEF Revise, PassWindow
  <2> QED BY <1>3, <1>4, <2>2 DEF Revise, PassWindow
<1>5. ASSUME NEW u \in Users, NEW e \in Events, NEW op \in {"update", "destroy"},
             Read(u, op, e)
      PROVE  TypeOK' /\ CopiesAreDrafts' /\ UNCHANGED <<signal, worker, faults>>
  <2> DEFINE q == [op |-> op, id |-> e, copy |-> event[e]]
  <2>1. q \in Requests /\ q.copy.status = "draft"
    BY <1>5 DEF Requests, Read
  <2>2. request' = [request EXCEPT ![u] = q]
    BY <1>5 DEF Read
  <2> HIDE DEF q
  <2> QED BY <1>5, <2>1, <2>2 DEF Read, CopiesAreDrafts
<1>6. ASSUME NEW u \in Users, Update(u)
      PROVE  TypeOK' /\ CopiesAreDrafts' /\ UNCHANGED <<signal, worker, faults>>
  <2>1. /\ request[u] \in [op : {"update", "destroy"}, id : Events, copy : BehaviorEvents]
        /\ request[u] # Idle
    BY <1>6, RequestShapes DEF Update, Idle
  <2> DEFINE c == request[u].copy
             x == [c EXCEPT !.negative = ~@]
  <2>2. c \in BehaviorEvents /\ c.status = "draft" /\ request[u].id \in Events
    BY <2>1 DEF CopiesAreDrafts
  <2>3. x \in BehaviorEvents /\ Stamped(x)
    BY <2>2 DEF BehaviorEvents, Stamped
  <2>4. event' = [event EXCEPT ![request[u].id] = x]
    BY <1>6 DEF Update
  <2> HIDE DEF x, c
  <2> QED BY <1>6, <2>2, <2>3, <2>4, EventWritten, ChangedIsTyped, IdleIsARequest
          DEF Update, CopiesAreDrafts
<1>7. ASSUME NEW u \in Users, Destroy(u)
      PROVE  TypeOK' /\ CopiesAreDrafts' /\ UNCHANGED <<signal, worker, faults>>
  <2> DEFINE i == request[u].id
             x == [event[i] EXCEPT !.deleted = TRUE]
  <2>1. i \in Events
    BY <1>7, RequestShapes DEF Destroy
  <2>2. x \in BehaviorEvents /\ Stamped(x)
    BY <2>1 DEF BehaviorEvents, Stamped
  <2>3. event' = [event EXCEPT ![i] = x]
    BY <1>7, <2>1 DEF Destroy
  <2> HIDE DEF x, i
  <2> QED BY <1>7, <2>1, <2>2, <2>3, EventWritten, ChangedIsTyped, IdleIsARequest
          DEF Destroy, CopiesAreDrafts
<1>8. CASE FinalizeAbsence
  BY <1>8, ScheduledIsTyped, ChangedIsTyped DEF FinalizeAbsence, CopiesAreDrafts
<1>9. CASE CorrectAbsence
  BY <1>9, ChangedIsTyped DEF CorrectAbsence, CopiesAreDrafts
<1>10. ASSUME NEW r \in Rules, Configure(r)
       PROVE  TypeOK' /\ CopiesAreDrafts' /\ UNCHANGED <<signal, worker, faults>>
  BY <1>10, ChangedIsTyped DEF Configure, CopiesAreDrafts
<1> QED BY <1>1, <1>2, <1>4, <1>5, <1>6, <1>7, <1>8, <1>9, <1>10 DEF Change

(* What runs of the rules write: their own row, the queue and the signals. *)
LEMMA WorkerWritten ==
  ASSUME TypeOK, NEW w \in Workers, NEW x \in Runs,
         worker' = [worker EXCEPT ![w] = x]
  PROVE  /\ worker' \in [Workers -> Runs]
         /\ \A v \in Workers : worker'[v] = IF v = w THEN x ELSE worker[v]
BY DEF TypeOK

LEMMA FaultsAreTyped ==
  ASSUME TypeOK, faults' = faults + 1, faults < MaxFaults
  PROVE  faults' \in 0 .. MaxFaults
BY RiskSignalAssumption DEF TypeOK

LEMMA CommittedIsTyped ==
  ASSUME TypeOK, NEW w \in Workers, Commit(w)
  PROVE  signal' \in [Rules -> Seq(Severities)]
<1> SUFFICES ASSUME NEW r \in Rules
             PROVE  Unseen(w, r) \o New(w, r) \in Seq(Severities)
  BY DEF Commit
<1>1. worker[w].found \in [Rules -> SUBSET Severities] /\ worker[w].kept[r] \in Nat
  BY RunShapes DEF TypeOK, Commit
<1>2. New(w, r) \in Seq(Severities)
  <2>1. CASE worker[w].found[r] = {}
    BY <2>1 DEF New
  <2>2. CASE worker[w].found[r] # {}
    <3>1. (CHOOSE s \in worker[w].found[r] : TRUE) \in worker[w].found[r]
      BY <2>2
    <3>2. New(w, r) = <<CHOOSE s \in worker[w].found[r] : TRUE>>
      BY <2>2 DEF New
    <3>3. (CHOOSE s \in worker[w].found[r] : TRUE) \in Severities
      BY <3>1, <1>1
    <3> HIDE DEF New
    <3> QED BY <3>2, <3>3
  <2> QED BY <2>1, <2>2
<1>3. Unseen(w, r) \in Seq(Severities)
  <2>1. signal[r] \in Seq(Severities)
    BY DEF TypeOK
  <2>2. \A i \in worker[w].kept[r] + 1 .. Len(signal[r]) : signal[r][i] \in Severities
    BY <2>1, <1>1
  <2> QED BY <1>1, <2>1, <2>2 DEF Unseen
<1> QED BY <1>2, <1>3

LEMMA WorkerType ==
  ASSUME TypeOK, NEW w \in Workers, Run(w) \/ Ask(w) \/ Raise(w) \/ Crash(w)
  PROVE  TypeOK'
<1>0. worker[w] \in Runs /\ queue \in [Attempts -> 0 .. MaxQueue] /\ MaxRetries \in Nat
  BY RiskSignalAssumption DEF TypeOK
<1>1. ASSUME NEW n \in Attempts, TakeTask(w, n)
      PROVE  TypeOK'
  <2>1. [stage |-> "waiting", tries |-> n] \in Runs
    BY DEF Runs
  <2>2. queue' \in [Attempts -> 0 .. MaxQueue]
    BY <1>1, <1>0, RiskSignalAssumption DEF TakeTask
  <2> QED BY <1>1, <2>1, <2>2, WorkerWritten DEF TakeTask, TypeOK, sourceVars
<1>2. CASE Ask(w)
  <2>1. [stage |-> "waiting", tries |-> MaxRetries + 1] \in Runs
    BY <1>0 DEF Runs
  <2> QED BY <1>2, <2>1, WorkerWritten, ChangedIsTyped DEF Ask, TypeOK
<1>3. CASE Start(w)
  <2> DEFINE x == [worker[w] EXCEPT !.stage = "locked"]
  <2>1. x \in Runs
    BY <1>3, <1>0, RunShapes DEF Start, Runs
  <2>2. worker' = [worker EXCEPT ![w] = x]
    BY <1>3 DEF Start, TypeOK
  <2> HIDE DEF x
  <2> QED BY <1>3, <2>1, <2>2, WorkerWritten DEF Start, TypeOK, sourceVars
<1>4. CASE Evaluate(w)
  <2> DEFINE x == [stage |-> "evaluated", tries |-> worker[w].tries, found |-> Candidates,
                   kept |-> [r \in Rules |-> Len(signal[r])]]
  <2>1. worker[w].tries \in Attempts \cup {MaxRetries + 1}
    BY <1>4, <1>0, RunShapes DEF Evaluate
  <2>2. [r \in Rules |-> Len(signal[r])] \in [Rules -> Nat]
    BY DEF TypeOK
  <2>3. x \in Runs
    BY <2>1, <2>2, CandidatesAreTyped DEF Runs
  <2>4. worker' = [worker EXCEPT ![w] = x]
    BY <1>4 DEF Evaluate
  <2> HIDE DEF x
  <2> QED BY <1>4, <2>3, <2>4, WorkerWritten DEF Evaluate, TypeOK, sourceVars
<1>5. CASE Commit(w)
  BY <1>5, CommittedIsTyped, NoRunIsARun, WorkerWritten DEF Commit, TypeOK, sourceVars
<1>6. CASE Raise(w)
  <2>1. worker[w].tries < MaxRetries => worker[w].tries + 1 \in Attempts
    BY <1>6, <1>0, RunShapes DEF Raise, Attempts
  <2>2. queue' \in [Attempts -> 0 .. MaxQueue]
    BY <1>6, <1>0, <2>1, PublishedIsTyped DEF Raise
  <2> QED BY <1>6, <2>2, NoRunIsARun, WorkerWritten, FaultsAreTyped
          DEF Raise, TypeOK, sourceVars
<1>7. CASE Crash(w)
  BY <1>7, NoRunIsARun, WorkerWritten, FaultsAreTyped DEF Crash, TypeOK, sourceVars
<1> QED BY <1>1, <1>2, <1>3, <1>4, <1>5, <1>6, <1>7 DEF Run

LEMMA StepType == TypeOK /\ CopiesAreDrafts /\ [Next]_vars => TypeOK' /\ CopiesAreDrafts'
<1> SUFFICES ASSUME TypeOK, CopiesAreDrafts, [Next]_vars
             PROVE  TypeOK' /\ CopiesAreDrafts'
  OBVIOUS
<1>1. CASE Change
  BY <1>1, ChangeType
<1>2. ASSUME NEW w \in Workers, Run(w) \/ Ask(w) \/ Raise(w) \/ Crash(w)
      PROVE  TypeOK' /\ CopiesAreDrafts'
  <2>1. request' = request
    BY <1>2 DEF Run, TakeTask, Start, Evaluate, Commit, Ask, Raise, Crash, sourceVars
  <2> QED BY <1>2, <2>1, WorkerType DEF CopiesAreDrafts
<1>3. ASSUME NEW n \in Attempts, LoseTask(n)
      PROVE  TypeOK' /\ CopiesAreDrafts'
  <2>1. queue' \in [Attempts -> 0 .. MaxQueue]
    BY <1>3, RiskSignalAssumption DEF LoseTask, TypeOK
  <2> QED BY <1>3, <2>1, FaultsAreTyped DEF LoseTask, TypeOK, CopiesAreDrafts, sourceVars
<1>4. CASE Reconcile
  BY <1>4, ScheduledIsTyped DEF Reconcile, TypeOK, CopiesAreDrafts, sourceVars
<1>5. CASE UNCHANGED vars
  BY <1>5 DEF TypeOK, CopiesAreDrafts, vars, sourceVars
<1> QED BY <1>1, <1>2, <1>3, <1>4, <1>5 DEF Next

(* Every variable keeps its type; an event that counts as confirmed has    *)
(* its timestamp (ck_behavior_event_confirmed_timestamp), although an      *)
(* update saves a whole row that was read earlier: what it read was a      *)
(* draft. *)
THEOREM TypeCorrect == Spec => []TypeOK
<1>1. Spec => [](TypeOK /\ CopiesAreDrafts)
  BY InitType, StepType, PTL DEF Spec
<1> QED BY <1>1, PTL

-------------------------------------------------------------------------------
(* One signal of a rule. *)
LEMMA InitSignals == Init => SignalInv
<1> SUFFICES ASSUME Init PROVE SignalInv
  OBVIOUS
<1>1. \A w \in Workers : worker[w].stage = "none"
  BY DEF Init, NoRun
<1>2. \A r \in Rules : Len(signal[r]) = 0
  BY DEF Init
<1> QED BY <1>1, <1>2 DEF SignalInv, OneHolder, SeenIsAll, OneActivePerRule, Holds

(* What is neither a start nor an evaluation nor a commit gives up the row *)
(* at most, and writes no signal. *)
LEMMA LettingGo ==
  ASSUME TypeOK, SignalInv, signal' = signal,
         \A v \in Workers : worker'[v] = worker[v] \/ worker'[v].stage \in {"none", "waiting"}
  PROVE  SignalInv'
<1>1. OneHolder'
  BY DEF SignalInv, OneHolder, Holds
<1>2. SeenIsAll' /\ OneActivePerRule'
  BY DEF SignalInv, SeenIsAll, OneActivePerRule
<1> QED BY <1>1, <1>2 DEF SignalInv

LEMMA StepSignals ==
  ASSUME TypeOK, CopiesAreDrafts, SignalInv, [Next]_vars
  PROVE  SignalInv'
<1>0. \A w \in Workers : worker[w] \in Runs
  BY DEF TypeOK
<1>1. CASE Change
  BY <1>1, ChangeType, LettingGo
<1>2. ASSUME NEW w \in Workers, Ask(w) \/ Raise(w) \/ Crash(w) \/ \E n \in Attempts : TakeTask(w, n)
      PROVE  SignalInv'
  <2>1. signal' = signal /\ \E x : x.stage \in {"none", "waiting"}
                                   /\ worker' = [worker EXCEPT ![w] = x]
    BY <1>2 DEF Ask, Raise, Crash, TakeTask, NoRun
  <2> QED BY <2>1, LettingGo DEF TypeOK
<1>3. ASSUME NEW w \in Workers, Start(w)
      PROVE  SignalInv'
  <2>1. \A v \in Workers : ~Holds(v)
    BY <1>3 DEF Start, RowIsFree
  <2>2. /\ worker'[w].stage = "locked" /\ signal' = signal
        /\ \A v \in Workers \ {w} : worker'[v] = worker[v]
    BY <1>3, <1>0, RunShapes DEF Start, TypeOK
  <2>3. OneHolder'
    BY <2>1, <2>2 DEF OneHolder, Holds
  <2> QED BY <2>2, <2>3 DEF SignalInv, SeenIsAll, OneActivePerRule
<1>4. ASSUME NEW w \in Workers, Evaluate(w)
      PROVE  SignalInv'
  <2>1. /\ worker'[w].stage = "evaluated" /\ signal' = signal
        /\ worker'[w].kept = [r \in Rules |-> Len(signal[r])]
        /\ \A v \in Workers \ {w} : worker'[v] = worker[v]
    BY <1>4 DEF Evaluate, TypeOK
  <2>2. OneHolder'
    BY <1>4, <2>1 DEF Evaluate, SignalInv, OneHolder, Holds
  <2> QED BY <2>1, <2>2 DEF SignalInv, SeenIsAll, OneActivePerRule
<1>5. ASSUME NEW w \in Workers, Commit(w)
      PROVE  SignalInv'
  <2>1. worker'[w].stage = "none" /\ \A v \in Workers \ {w} : worker'[v] = worker[v]
    BY <1>5 DEF Commit, TypeOK, NoRun
  <2>2. \A v \in Workers \ {w} : ~Holds(v)
    BY <1>5 DEF Commit, SignalInv, OneHolder, Holds
  <2>3. OneHolder' /\ SeenIsAll'
    BY <2>1, <2>2 DEF OneHolder, SeenIsAll, Holds
  <2>4. ASSUME NEW r \in Rules
        PROVE  Len(signal'[r]) <= 1
    <3>1. worker[w].kept[r] = Len(signal[r]) /\ signal[r] \in Seq(Severities)
      BY <1>5 DEF Commit, SignalInv, SeenIsAll, TypeOK
    <3>2. Unseen(w, r) = << >>
      BY <3>1, NothingUnseen DEF Unseen
    <3>3. Len(New(w, r)) <= 1 /\ Len(<< >> \o New(w, r)) = Len(New(w, r))
      BY DEF New
    <3>4. signal'[r] = << >> \o New(w, r)
      BY <1>5, <3>2 DEF Commit
    <3> QED BY <3>3, <3>4
  <2> QED BY <2>3, <2>4 DEF SignalInv, OneActivePerRule
<1>6. CASE Reconcile \/ (\E n \in Attempts : LoseTask(n)) \/ UNCHANGED vars
  BY <1>6, LettingGo DEF Reconcile, LoseTask, vars
<1> QED BY <1>1, <1>2, <1>3, <1>4, <1>5, <1>6 DEF Next, Run

(* An enrollment has one ACTIVE signal of a rule at most, however runs of  *)
(* tasks, retries and requests overlap with each other and with changes of *)
(* what they read: the run holds the row of the enrollment from before it  *)
(* looks for ACTIVE signals until it commits the new ones.                 *)
THEOREM NoSignalIsDoubled == Spec => []OneActivePerRule
<1>1. Spec => [](TypeOK /\ CopiesAreDrafts)
  BY InitType, StepType, PTL DEF Spec
<1>2. Spec => []SignalInv
  BY <1>1, InitSignals, StepSignals, PTL DEF Spec
<1> QED BY <1>2, PTL DEF SignalInv

===============================================================================
