---------------------------- MODULE Imports_proofs ----------------------------
(***************************************************************************)
(* Proofs about what the imports app keeps: the import jobs (ImportJob),   *)
(* and the source files with the ingest of the exams (SourceFiles).        *)
(*                                                                         *)
(* Import jobs, for every set of jobs, files, workers and requests, and    *)
(* every number of retries, crashes and lost messages.  The claim of a job *)
(* that nobody has overwritten is held by one worker at most, because the  *)
(* row says PROCESSING and fresh for as long as somebody holds it          *)
(* (HolderIsFresh), and a job that was applied says COMPLETED from then on *)
(* (AppliedStays).  The partial unique constraint allows one such row for  *)
(* each checksum (OneActiveJob).                                           *)
(*                                                                         *)
(* Source files, for every directory, whatever its files may hold, and     *)
(* every number of scanners, classes, students and changes.  Once a scan   *)
(* is complete that ran alone, the open conflicts are the overlaps of what *)
(* is recorded and no file of such a class is simply VALID, and this stays *)
(* so until the next scan begins, because nothing else writes a status or  *)
(* the rows (ScanIsComplete).  While an exam is written only rows of its   *)
(* content are live and those before the next one are there (Writing), so  *)
(* that what the summary says of it is true, and the files written later   *)
(* are others (Noted).                                                     *)
(***************************************************************************)
EXTENDS ImportJob, SourceFiles, FiniteSetTheorems, WellFoundedInduction, TLAPS

(* A busy worker is on a message that exists, with a file. *)
TaskShape ==
  \A w \in Workers : pc[w] # "idle" => task[w] \in Messages /\ held[w] \in Files

(* Whoever holds a job that was not overwritten holds a fresh claim. *)
HolderIsFresh ==
  \A j \in Jobs \ overwritten : \A w \in Workers :
    Holds(w, j) => status[j] = "processing" /\ j \notin stale

(* uq_active_import_file_scope holds whatever is written. *)
OneActiveJob ==
  \A j \in Jobs \ deleted : status[j] \in Active => Rivals(j) = {}

(* A workbook that was applied leaves its job COMPLETED and live.          *)
AppliedStays ==
  \A j \in Jobs \ overwritten :
    applied[j] > 0 => status[j] = "completed" /\ j \notin deleted

(* A job that a request has read as COMPLETED is so still, unless it was   *)
(* overwritten.                                                            *)
CompletedCopies ==
  \A u \in Users :
    /\ request[u] # NoRequest
    /\ request[u].status = "completed"
    /\ request[u].job \notin overwritten
    => status[request[u].job] = "completed"

(* What the history variables must agree with. *)
AppliedOnce == \A j \in Jobs \ overwritten : applied[j] <= 1

CompletedHasRun ==
  \A j \in Jobs \ overwritten :
    status[j] = "completed" => applied[j] = 1 \/ j \in executed

(* Files were imported for a job only when it was applied. *)
ImportedApplied == \A j \in Jobs : imported[j] # {} => applied[j] > 0

(* These six are only inductive together. *)
Claims ==
  /\ HolderIsFresh
  /\ ClaimIsExclusive
  /\ AppliedStays
  /\ AppliedOnce
  /\ CompletedCopies
  /\ CompletedHasRun

IInv ==
  /\ TypeOK
  /\ TaskShape
  /\ OneActiveJob
  /\ Claims
  /\ ImportedApplied

-----------------------------------------------------------------------------
(* TypeOK, with what it needs of the tasks, is inductive on its own.       *)
LEMMA TypeInit == Init => TypeOK /\ TaskShape
  BY ParametersAssumption DEF Init, TypeOK, TaskShape, Statuses, Messages, NoTask

(* Every step keeps the variables in their sets.                           *)
LEMMA TypeNext == TypeOK /\ TaskShape /\ [Next]_vars => TypeOK' /\ TaskShape'
<1> USE ParametersAssumption
    DEF TypeOK, TaskShape, Messages, rowVars, workVars, ghostVars, bounds
<1> SUFFICES ASSUME TypeOK, TaskShape, [Next]_vars
             PROVE  TypeOK' /\ TaskShape'
  OBVIOUS
<1>1. ASSUME NEW w \in Workers, NEW m \in Messages, IgnoreTask(w, m)
      PROVE  TypeOK' /\ TaskShape'
  BY <1>1 DEF IgnoreTask, TakeMessage
<1>2. ASSUME NEW w \in Workers, NEW m \in Messages, Claim(w, m)
      PROVE  TypeOK' /\ TaskShape'
  BY <1>2 DEF Claim, TakeMessage, Statuses
<1>3. ASSUME NEW w \in Workers, Apply(w)
      PROVE  TypeOK' /\ TaskShape'
  BY <1>3 DEF Apply, FinishTask, Statuses
<1>4. ASSUME NEW w \in Workers, Raise(w)
      PROVE  TypeOK' /\ TaskShape'
  BY <1>4 DEF Raise
<1>5. ASSUME NEW w \in Workers, RecordFailure(w)
      PROVE  TypeOK' /\ TaskShape'
  BY <1>5 DEF RecordFailure, FinishTask, Statuses
<1>6. ASSUME NEW w \in Workers, Discard(w)
      PROVE  TypeOK' /\ TaskShape'
  BY <1>6 DEF Discard, FinishTask
<1>7. ASSUME NEW w \in Workers, ReadError(w)
      PROVE  TypeOK' /\ TaskShape'
  BY <1>7 DEF ReadError, Statuses
<1>8. ASSUME NEW w \in Workers, RetryTask(w)
      PROVE  TypeOK' /\ TaskShape'
  BY <1>8 DEF RetryTask, FinishTask
<1>9. ASSUME NEW w \in Workers, MarkFailed(w)
      PROVE  TypeOK' /\ TaskShape'
  BY <1>9 DEF MarkFailed, FinishTask, Statuses
<1>10. ASSUME NEW w \in Workers, Crash(w)
      PROVE  TypeOK' /\ TaskShape'
  BY <1>10 DEF Crash, FinishTask
<1>11. ASSUME NEW u \in Users, Preview(u)
      PROVE  TypeOK' /\ TaskShape'
  <2>1. request[u] \in Requests /\ request[u].job \in Jobs
    BY <1>11 DEF Preview, Requests, NoRequest
  <2>2. status' \in [Jobs -> Statuses] /\ overwritten' \subseteq Jobs
    BY <1>11, <2>1 DEF Preview, Put, Statuses
  <2>3. request' \in [Users -> Requests \cup {NoRequest}]
    <3>1. Continue(u, "inspect") \/ Respond(u)
      BY <1>11 DEF Preview
    <3>2. [request[u] EXCEPT !.write = "inspect"] \in Requests
      BY <2>1 DEF Requests, Writes
    <3>3. request \in [Users -> Requests \cup {NoRequest}]
      OBVIOUS
    <3>4. \/ request' = [request EXCEPT ![u] = [request[u] EXCEPT !.write = "inspect"]]
          \/ request' = [request EXCEPT ![u] = NoRequest]
      BY <3>1 DEF Continue, Respond
    <3> HIDE DEF Requests, NoRequest, TypeOK
    <3> QED BY <3>2, <3>3, <3>4
  <2> QED
    BY <1>11, <2>2, <2>3 DEF Preview
<1>12. ASSUME NEW u \in Users, Inspect(u)
      PROVE  TypeOK' /\ TaskShape'
  <2>1. request[u] \in Requests /\ request[u].job \in Jobs
    BY <1>12 DEF Inspect, Requests, NoRequest
  <2>2. status' \in [Jobs -> Statuses] /\ overwritten' \subseteq Jobs
    BY <1>12, <2>1 DEF Inspect, Put, Statuses
  <2>3. request' \in [Users -> Requests \cup {NoRequest}]
    BY <1>12 DEF Inspect, Respond
  <2> QED
    BY <1>12, <2>2, <2>3 DEF Inspect
<1>13. ASSUME NEW u \in Users, Confirm(u)
      PROVE  TypeOK' /\ TaskShape'
  <2>1. request[u] \in Requests /\ request[u].job \in Jobs
    BY <1>13 DEF Confirm, Requests, NoRequest
  <2>2. status' \in [Jobs -> Statuses] /\ overwritten' \subseteq Jobs
    BY <1>13, <2>1 DEF Confirm, Put, Statuses
  <2>3. request' \in [Users -> Requests \cup {NoRequest}]
    <3>1. \/ request' = [request EXCEPT ![u] = [request[u] EXCEPT !.write = "execute"]]
          \/ request' = [request EXCEPT ![u] = NoRequest]
          \/ request' = request
      BY <1>13 DEF Confirm, Continue, Respond
    <3>2. [request[u] EXCEPT !.write = "execute"] \in Requests
      BY <2>1 DEF Requests, Writes
    <3>3. request \in [Users -> Requests \cup {NoRequest}]
      OBVIOUS
    <3> HIDE DEF Requests, NoRequest, TypeOK
    <3> QED BY <3>1, <3>2, <3>3
  <2> QED
    BY <1>13, <2>2, <2>3 DEF Confirm
<1>14. ASSUME NEW u \in Users, Execute(u)
      PROVE  TypeOK' /\ TaskShape'
  <2>1. request[u] \in Requests /\ request[u].job \in Jobs
    BY <1>14 DEF Execute, Requests, NoRequest
  <2>2. status' \in [Jobs -> Statuses] /\ overwritten' \subseteq Jobs /\ executed' \subseteq Jobs
    BY <1>14, <2>1 DEF Execute, Put, Statuses
  <2>3. request' \in [Users -> Requests \cup {NoRequest}]
    BY <1>14 DEF Execute, Respond
  <2> QED
    BY <1>14, <2>2, <2>3 DEF Execute
<1>15. ASSUME NEW u \in Users, Retry(u)
      PROVE  TypeOK' /\ TaskShape'
  <2>1. request[u] \in Requests /\ request[u].job \in Jobs
    BY <1>15 DEF Retry, Requests, NoRequest
  <2>2. status' \in [Jobs -> Statuses] /\ overwritten' \subseteq Jobs
    BY <1>15, <2>1 DEF Retry, Put, Statuses
  <2>3. request' \in [Users -> Requests \cup {NoRequest}]
    BY <1>15 DEF Retry, Respond
  <2>4. queue' \in [Messages -> 0 .. MaxQueued]
    BY <1>15, <2>1 DEF Retry
  <2> QED
    BY <1>15, <2>2, <2>3, <2>4 DEF Retry
<1>16. ASSUME NEW u \in Users, Cancel(u)
      PROVE  TypeOK' /\ TaskShape'
  <2>1. request[u] \in Requests /\ request[u].job \in Jobs
    BY <1>16 DEF Cancel, Requests, NoRequest
  <2>2. /\ status' \in [Jobs -> Statuses] /\ overwritten' \subseteq Jobs
        /\ deleted' \subseteq Jobs
    BY <1>16, <2>1 DEF Cancel, Put, Statuses
  <2>3. request' \in [Users -> Requests \cup {NoRequest}]
    BY <1>16 DEF Cancel, Respond
  <2> QED
    BY <1>16, <2>2, <2>3 DEF Cancel
<1>17. ASSUME NEW u \in Users, NEW f \in Files, Validate(u, f)
      PROVE  TypeOK' /\ TaskShape'
  <2>1. request[u] \in Requests
    BY <1>17 DEF Validate, Requests, NoRequest
  <2>2. request' \in [Users -> Requests \cup {NoRequest}]
    BY <1>17, <2>1 DEF Validate, Respond, Requests, Writes
  <2> QED
    BY <1>17, <2>2 DEF Validate
<1>25. ASSUME NEW u \in Users, Save(u)
      PROVE  TypeOK' /\ TaskShape'
  <2>1. /\ request[u] \in Requests /\ request[u].job \in Jobs
        /\ request[u].status \in Statuses /\ request[u].file \in Files
    BY <1>25 DEF Save, Requests, NoRequest
  <2>2. /\ status' \in [Jobs -> Statuses] /\ overwritten' \subseteq Jobs
        /\ stale' \subseteq Jobs /\ deleted' \subseteq Jobs /\ file' \in [Jobs -> Files]
    BY <1>25, <2>1 DEF Save, Put
  <2>3. request' \in [Users -> Requests \cup {NoRequest}]
    BY <1>25 DEF Save, Respond
  <2> QED
    BY <1>25, <2>2, <2>3 DEF Save
<1>18. ASSUME NEW u \in Users, Destroy(u)
      PROVE  TypeOK' /\ TaskShape'
  <2>1. request[u] \in Requests /\ request[u].job \in Jobs
    BY <1>18 DEF Destroy, Requests, NoRequest
  <2>2. /\ status' \in [Jobs -> Statuses] /\ overwritten' \subseteq Jobs
        /\ deleted' \subseteq Jobs
    BY <1>18, <2>1 DEF Destroy, Put, Statuses
  <2>3. request' \in [Users -> Requests \cup {NoRequest}]
    BY <1>18 DEF Destroy, Respond
  <2> QED
    BY <1>18, <2>2, <2>3 DEF Destroy
<1>19. ASSUME NEW u \in Users, Abandon(u)
      PROVE  TypeOK' /\ TaskShape'
  BY <1>19 DEF Abandon, Respond
<1>20. ASSUME NEW u \in Users, NEW write \in Offered, NEW j \in Jobs, Read(u, write, j)
      PROVE  TypeOK' /\ TaskShape'
  <2>1. Copy(write, j) \in Requests
    BY <1>20 DEF Copy, Requests, Writes, Statuses
  <2> QED
    BY <1>20, <2>1 DEF Read
<1>21. ASSUME NEW j \in Jobs, Upload(j)
      PROVE  TypeOK' /\ TaskShape'
  BY <1>21 DEF Upload, Statuses
<1>22. ASSUME NEW j \in Jobs, ClaimGoesStale(j)
      PROVE  TypeOK' /\ TaskShape'
  BY <1>22 DEF ClaimGoesStale
<1>23. ASSUME NEW m \in Messages, LoseMessage(m)
      PROVE  TypeOK' /\ TaskShape'
  BY <1>23 DEF LoseMessage
<1>24. CASE UNCHANGED vars
  BY <1>24 DEF vars
<1> QED
  BY <1>1, <1>2, <1>3, <1>4, <1>5, <1>6, <1>7, <1>8, <1>9, <1>10, <1>11,
     <1>12, <1>13, <1>14, <1>15, <1>16, <1>17, <1>18, <1>19, <1>20, <1>21,
     <1>22, <1>23, <1>24, <1>25 DEF Next, WorkerStep, RequestStep

-----------------------------------------------------------------------------
(* The unique constraint survives a step that writes one row and makes it  *)
(* live and Active only when no rival is.                                  *)
LEMMA ConstraintKept ==
  ASSUME OneActiveJob, NEW j \in Jobs,
         \A k \in Jobs \ {j} : status'[k] = status[k] /\ (k \in deleted => k \in deleted'),
         status'[j] \in Active /\ j \notin deleted' => Rivals(j) = {}
  PROVE  OneActiveJob'
<1> SUFFICES ASSUME NEW k \in Jobs \ deleted', status'[k] \in Active, NEW l \in Rivals(k)'
             PROVE  FALSE
  BY DEF OneActiveJob, Active
<1>1. /\ l \in Jobs \ {k} /\ FileOf[l] = FileOf[k]
      /\ l \notin deleted' /\ status'[l] \in Active
  BY DEF Rivals, ActiveOf, Active
<1>2. CASE k = j
  BY <1>1, <1>2 DEF Rivals, ActiveOf, Active
<1>3. CASE l = j
  BY <1>1, <1>3 DEF Rivals, ActiveOf, Active
<1>4. CASE k # j /\ l # j
  BY <1>1, <1>4 DEF OneActiveJob, Rivals, ActiveOf, Active
<1> QED
  BY <1>2, <1>3, <1>4

(* Every step keeps the unique constraint.                                 *)
LEMMA ConstraintNext ==
  TypeOK /\ TaskShape /\ OneActiveJob /\ [Next]_vars => OneActiveJob'
<1> USE DEF rowVars, workVars, ghostVars, bounds
<1> SUFFICES ASSUME TypeOK, TaskShape, OneActiveJob, [Next]_vars
             PROVE  OneActiveJob'
  OBVIOUS
<1>0. ASSUME status' = status, deleted' = deleted
      PROVE  OneActiveJob'
  BY <1>0 DEF OneActiveJob, Rivals, ActiveOf
<1>1. ASSUME NEW w \in Workers, NEW m \in Messages, IgnoreTask(w, m)
      PROVE  OneActiveJob'
  BY <1>1, <1>0 DEF IgnoreTask
<1>2. ASSUME NEW w \in Workers, NEW m \in Messages, Claim(w, m)
      PROVE  OneActiveJob'
  <2>1. PICK j \in Jobs : j = m[1]
    BY DEF Messages
  <2>2. /\ \A k \in Jobs \ {j} : status'[k] = status[k]
        /\ deleted' = deleted /\ Rivals(j) = {}
    BY <1>2, <2>1 DEF Claim, TypeOK, Active, Fits
  <2> QED
    BY <2>2, ConstraintKept
<1>3. ASSUME NEW w \in Workers, Apply(w)
      PROVE  OneActiveJob'
  <2>1. PICK j \in Jobs : j = task[w][1]
    BY <1>3 DEF Apply, TypeOK, TaskShape, Messages
  <2>2. /\ \A k \in Jobs \ {j} : status'[k] = status[k]
        /\ deleted' = deleted
        /\ status'[j] \in Active /\ j \notin deleted' => Rivals(j) = {}
    BY <1>3, <2>1 DEF Apply, FinishTask, TypeOK, Active, Fits, OneActiveJob
  <2> QED
    BY <2>2, ConstraintKept
<1>4. ASSUME NEW w \in Workers, Raise(w)
      PROVE  OneActiveJob'
  BY <1>4, <1>0 DEF Raise
<1>5. ASSUME NEW w \in Workers, RecordFailure(w)
      PROVE  OneActiveJob'
  <2>1. PICK j \in Jobs : j = task[w][1]
    BY <1>5 DEF RecordFailure, TypeOK, TaskShape, Messages
  <2>2. /\ \A k \in Jobs \ {j} : status'[k] = status[k]
        /\ deleted' = deleted
        /\ status'[j] \in Active /\ j \notin deleted' => Rivals(j) = {}
    BY <1>5, <2>1 DEF RecordFailure, FinishTask, TypeOK, Active, Fits, OneActiveJob
  <2> QED
    BY <2>2, ConstraintKept
<1>6. ASSUME NEW w \in Workers, Discard(w)
      PROVE  OneActiveJob'
  BY <1>6, <1>0 DEF Discard
<1>7. ASSUME NEW w \in Workers, ReadError(w)
      PROVE  OneActiveJob'
  <2>1. PICK j \in Jobs : j = task[w][1]
    BY <1>7 DEF ReadError, TypeOK, TaskShape, Messages
  <2>2. /\ \A k \in Jobs \ {j} : status'[k] = status[k]
        /\ deleted' = deleted
        /\ status'[j] \in Active /\ j \notin deleted' => Rivals(j) = {}
    BY <1>7, <2>1 DEF ReadError, FinishTask, TypeOK, Active, Fits, OneActiveJob
  <2> QED
    BY <2>2, ConstraintKept
<1>8. ASSUME NEW w \in Workers, RetryTask(w)
      PROVE  OneActiveJob'
  BY <1>8, <1>0 DEF RetryTask
<1>9. ASSUME NEW w \in Workers, MarkFailed(w)
      PROVE  OneActiveJob'
  <2>1. PICK j \in Jobs : j = task[w][1]
    BY <1>9 DEF MarkFailed, TypeOK, TaskShape, Messages
  <2>2. /\ \A k \in Jobs \ {j} : status'[k] = status[k]
        /\ deleted' = deleted
        /\ status'[j] \in Active /\ j \notin deleted' => Rivals(j) = {}
    BY <1>9, <2>1 DEF MarkFailed, FinishTask, TypeOK, Active, Fits, OneActiveJob
  <2> QED
    BY <2>2, ConstraintKept
<1>10. ASSUME NEW w \in Workers, Crash(w)
      PROVE  OneActiveJob'
  BY <1>10, <1>0 DEF Crash
<1>11. ASSUME NEW u \in Users, Preview(u)
      PROVE  OneActiveJob'
  <2>1. PICK j \in Jobs : j = request[u].job
    BY <1>11 DEF Preview, TypeOK, Requests, NoRequest
  <2>2. /\ \A k \in Jobs \ {j} : status'[k] = status[k] /\ (k \in deleted => k \in deleted')
        /\ status'[j] \in Active /\ j \notin deleted' => Rivals(j) = {}
    BY <1>11, <2>1 DEF Preview, Put, TypeOK, Active, Fits, OneActiveJob
  <2> QED
    BY <2>2, ConstraintKept
<1>12. ASSUME NEW u \in Users, Inspect(u)
      PROVE  OneActiveJob'
  <2>1. PICK j \in Jobs : j = request[u].job
    BY <1>12 DEF Inspect, TypeOK, Requests, NoRequest
  <2>2. /\ \A k \in Jobs \ {j} : status'[k] = status[k] /\ (k \in deleted => k \in deleted')
        /\ status'[j] \in Active /\ j \notin deleted' => Rivals(j) = {}
    BY <1>12, <2>1 DEF Inspect, Put, TypeOK, Active, Fits, OneActiveJob
  <2> QED
    BY <2>2, ConstraintKept
<1>13. ASSUME NEW u \in Users, Confirm(u)
      PROVE  OneActiveJob'
  <2>1. PICK j \in Jobs : j = request[u].job
    BY <1>13 DEF Confirm, TypeOK, Requests, NoRequest
  <2>2. /\ \A k \in Jobs \ {j} : status'[k] = status[k] /\ (k \in deleted => k \in deleted')
        /\ status'[j] \in Active /\ j \notin deleted' => Rivals(j) = {}
    BY <1>13, <2>1 DEF Confirm, Put, TypeOK, Active, Fits, OneActiveJob
  <2> QED
    BY <2>2, ConstraintKept
<1>14. ASSUME NEW u \in Users, Execute(u)
      PROVE  OneActiveJob'
  <2>1. PICK j \in Jobs : j = request[u].job
    BY <1>14 DEF Execute, TypeOK, Requests, NoRequest
  <2>2. /\ \A k \in Jobs \ {j} : status'[k] = status[k] /\ (k \in deleted => k \in deleted')
        /\ status'[j] \in Active /\ j \notin deleted' => Rivals(j) = {}
    BY <1>14, <2>1 DEF Execute, Put, TypeOK, Active, Fits, OneActiveJob
  <2> QED
    BY <2>2, ConstraintKept
<1>15. ASSUME NEW u \in Users, Retry(u)
      PROVE  OneActiveJob'
  <2>1. PICK j \in Jobs : j = request[u].job
    BY <1>15 DEF Retry, TypeOK, Requests, NoRequest
  <2>2. /\ \A k \in Jobs \ {j} : status'[k] = status[k] /\ (k \in deleted => k \in deleted')
        /\ status'[j] \in Active /\ j \notin deleted' => Rivals(j) = {}
    BY <1>15, <2>1 DEF Retry, Put, TypeOK, Active, Fits, OneActiveJob
  <2> QED
    BY <2>2, ConstraintKept
<1>16. ASSUME NEW u \in Users, Cancel(u)
      PROVE  OneActiveJob'
  <2>1. PICK j \in Jobs : j = request[u].job
    BY <1>16 DEF Cancel, TypeOK, Requests, NoRequest
  <2>2. /\ \A k \in Jobs \ {j} : status'[k] = status[k] /\ (k \in deleted => k \in deleted')
        /\ status'[j] \in Active /\ j \notin deleted' => Rivals(j) = {}
    BY <1>16, <2>1 DEF Cancel, Put, TypeOK, Active, Fits, OneActiveJob
  <2> QED
    BY <2>2, ConstraintKept
<1>25. ASSUME NEW u \in Users, NEW f \in Files, Validate(u, f)
      PROVE  OneActiveJob'
  BY <1>25, <1>0 DEF Validate
<1>17. ASSUME NEW u \in Users, Save(u)
      PROVE  OneActiveJob'
  <2>1. PICK j \in Jobs : j = request[u].job
    BY <1>17 DEF Save, TypeOK, Requests, NoRequest
  <2>2. /\ \A k \in Jobs \ {j} : status'[k] = status[k] /\ (k \in deleted => k \in deleted')
        /\ status'[j] \in Active /\ j \notin deleted' => Rivals(j) = {}
    BY <1>17, <2>1 DEF Save, Put, TypeOK, Active, Fits, OneActiveJob
  <2> QED
    BY <2>2, ConstraintKept
<1>18. ASSUME NEW u \in Users, Destroy(u)
      PROVE  OneActiveJob'
  <2>1. PICK j \in Jobs : j = request[u].job
    BY <1>18 DEF Destroy, TypeOK, Requests, NoRequest
  <2>2. /\ \A k \in Jobs \ {j} : status'[k] = status[k] /\ (k \in deleted => k \in deleted')
        /\ status'[j] \in Active /\ j \notin deleted' => Rivals(j) = {}
    BY <1>18, <2>1 DEF Destroy, Put, TypeOK, Active, Fits, OneActiveJob
  <2> QED
    BY <2>2, ConstraintKept
<1>19. ASSUME NEW u \in Users, Abandon(u)
      PROVE  OneActiveJob'
  BY <1>19, <1>0 DEF Abandon
<1>20. ASSUME NEW u \in Users, NEW write \in Offered, NEW j \in Jobs, Read(u, write, j)
      PROVE  OneActiveJob'
  BY <1>20, <1>0 DEF Read
<1>21. ASSUME NEW j \in Jobs, Upload(j)
      PROVE  OneActiveJob'
  <2>1. /\ \A k \in Jobs \ {j} : status'[k] = status[k]
        /\ deleted' = deleted
        /\ status'[j] \in Active /\ j \notin deleted' => Rivals(j) = {}
    BY <1>21 DEF Upload, TypeOK, Active, Fits
  <2> QED
    BY <2>1, ConstraintKept
<1>22. ASSUME NEW j \in Jobs, ClaimGoesStale(j)
      PROVE  OneActiveJob'
  BY <1>22, <1>0 DEF ClaimGoesStale
<1>23. ASSUME NEW m \in Messages, LoseMessage(m)
      PROVE  OneActiveJob'
  BY <1>23, <1>0 DEF LoseMessage
<1>24. CASE UNCHANGED vars
  BY <1>24, <1>0 DEF vars
<1> QED
  BY <1>1, <1>2, <1>3, <1>4, <1>5, <1>6, <1>7, <1>8, <1>9, <1>10, <1>11,
     <1>12, <1>13, <1>14, <1>15, <1>16, <1>17, <1>18, <1>19, <1>20, <1>21,
     <1>22, <1>23, <1>24, <1>25 DEF Next, WorkerStep, RequestStep

-----------------------------------------------------------------------------
(* A request that writes status x into job j either finds it neither       *)
(* PROCESSING nor COMPLETED, so that nobody holds it and nothing was       *)
(* applied, or the job counts as overwritten from now on.                  *)
LEMMA PutKeepsClaims ==
  ASSUME TypeOK, TaskShape, Claims, NEW j \in Jobs, NEW x, Put(j, x),
         UNCHANGED <<pc, task, applied>>,
         \A k \in Jobs \ {j} : (k \in stale' => k \in stale) /\ (k \in deleted' => k \in deleted),
         executed \subseteq executed',
         x = "completed" => status[j] = "completed" \/ j \in executed' \/ j \in overwritten,
         \A v \in Users : request'[v] = NoRequest
           \/ /\ request[v] # NoRequest
              /\ request'[v].job = request[v].job /\ request'[v].status = request[v].status
  PROVE  Claims'
<1>1. /\ overwritten \subseteq overwritten' /\ overwritten' \subseteq overwritten \cup {j}
      /\ \A k \in Jobs \ {j} : status'[k] = status[k]
      /\ j \notin overwritten' => status[j] \notin {"processing", "completed"} /\ status'[j] = x
  BY DEF Put, TypeOK
<1>2. j \notin overwritten' => applied[j] = 0 /\ \A w \in Workers : ~Holds(w, j)
  BY <1>1 DEF Claims, HolderIsFresh, AppliedStays, TypeOK
<1>3. HolderIsFresh' /\ ClaimIsExclusive'
  BY <1>1, <1>2 DEF Claims, HolderIsFresh, ClaimIsExclusive, Holds
<1>4. AppliedStays' /\ AppliedOnce'
  BY <1>1, <1>2 DEF Claims, AppliedStays, AppliedOnce
<1>5. CompletedCopies'
  <2> SUFFICES ASSUME NEW v \in Users, request'[v] # NoRequest,
                      request'[v].status = "completed", request'[v].job \notin overwritten'
               PROVE  status'[request'[v].job] = "completed"
    BY DEF CompletedCopies
  <2>1. /\ request[v] # NoRequest /\ request'[v].job = request[v].job
        /\ request[v].status = "completed"
    OBVIOUS
  <2>2. status[request[v].job] = "completed" /\ request[v].job \in Jobs
    BY <1>1, <2>1 DEF Claims, CompletedCopies, TypeOK, Requests
  <2> QED
    BY <1>1, <2>1, <2>2
<1>6. CompletedHasRun'
  BY <1>1 DEF Claims, CompletedHasRun
<1> QED
  BY <1>3, <1>4, <1>5, <1>6 DEF Claims

(* A step that leaves rows and histories alone and lets nobody hold more   *)
(* than before keeps the claims.                                           *)
LEMMA IdleKeepsClaims ==
  ASSUME Claims, UNCHANGED <<status, deleted, applied, executed, overwritten>>,
         \A j \in Jobs, w \in Workers : Holds(w, j)' => Holds(w, j) /\ (j \in stale' => j \in stale),
         \A v \in Users : request'[v] = NoRequest \/ request'[v] = request[v]
  PROVE  Claims'
<1>1. HolderIsFresh' /\ ClaimIsExclusive'
  BY DEF Claims, HolderIsFresh, ClaimIsExclusive
<1>2. AppliedStays' /\ AppliedOnce' /\ CompletedHasRun'
  BY DEF Claims, AppliedStays, AppliedOnce, CompletedHasRun
<1>3. CompletedCopies'
  BY DEF Claims, CompletedCopies
<1> QED
  BY <1>1, <1>2, <1>3 DEF Claims

(* Every step keeps what is said of claims and of applied jobs.            *)
LEMMA ClaimsNext ==
  TypeOK /\ TaskShape /\ Claims /\ [Next]_vars => Claims'
<1> USE DEF rowVars, workVars, ghostVars, bounds
<1> SUFFICES ASSUME TypeOK, TaskShape, Claims, [Next]_vars
             PROVE  Claims'
  OBVIOUS
<1>1. ASSUME NEW w \in Workers, NEW m \in Messages, IgnoreTask(w, m)
      PROVE  Claims'
  <2>1. /\ UNCHANGED <<status, deleted, applied, executed, overwritten, request, stale>>
        /\ \A k \in Jobs, v \in Workers : Holds(v, k)' => Holds(v, k)
    BY <1>1 DEF IgnoreTask, Holds, TypeOK
  <2> QED
    BY <2>1, IdleKeepsClaims
<1>2. ASSUME NEW w \in Workers, NEW m \in Messages, Claim(w, m)
      PROVE  Claims'
  <2>1. PICK j \in Jobs : j = m[1]
    BY DEF Messages
  <2>2. /\ status' = [status EXCEPT ![j] = "processing"] /\ stale' = stale \ {j}
        /\ \A v \in Workers \ {w} : pc'[v] = pc[v] /\ task'[v] = task[v]
        /\ task'[w][1] = j
        /\ UNCHANGED <<deleted, request, applied, executed, overwritten>>
    BY <1>2, <2>1 DEF Claim, TypeOK
  <2>3. j \notin overwritten => \A v \in Workers : ~Holds(v, j)
    BY <1>2, <2>1 DEF Claim, Claimable, Claims, HolderIsFresh
  <2>4. status[j] # "completed"
    BY <1>2, <2>1 DEF Claim, Claimable
  <2>5. HolderIsFresh' /\ ClaimIsExclusive'
    BY <2>2, <2>3 DEF Claims, HolderIsFresh, ClaimIsExclusive, Holds, TypeOK
  <2>6. AppliedStays' /\ AppliedOnce' /\ CompletedHasRun'
    BY <2>2, <2>4 DEF Claims, AppliedStays, AppliedOnce, CompletedHasRun, TypeOK
  <2>7. CompletedCopies'
    BY <2>2, <2>4 DEF Claims, CompletedCopies, TypeOK
  <2> QED
    BY <2>5, <2>6, <2>7 DEF Claims
<1>3. ASSUME NEW w \in Workers, Apply(w)
      PROVE  Claims'
  <2>1. PICK j \in Jobs : j = task[w][1]
    BY <1>3 DEF Apply, TypeOK, TaskShape, Messages
  <2>2. /\ status' = [status EXCEPT ![j] = "completed"]
        /\ applied' = [applied EXCEPT ![j] = applied[j] + 1] /\ overwritten' = overwritten
        /\ \A v \in Workers \ {w} : pc'[v] = pc[v] /\ task'[v] = task[v]
        /\ pc'[w] \notin {"loading", "broken"}
        /\ UNCHANGED <<stale, deleted, request, executed>>
    BY <1>3, <2>1 DEF Apply, FinishTask, TypeOK
  <2>3. Holds(w, j) /\ j \notin deleted
    BY <1>3, <2>1 DEF Apply, Holds
  <2>4. j \notin overwritten => status[j] = "processing" /\ applied[j] = 0
    BY <2>3 DEF Claims, HolderIsFresh, AppliedStays, TypeOK
  <2>5. HolderIsFresh' /\ ClaimIsExclusive'
    BY <2>2, <2>3 DEF Claims, HolderIsFresh, ClaimIsExclusive, Holds, TypeOK
  <2>6. AppliedStays' /\ AppliedOnce' /\ CompletedHasRun'
    BY <2>2, <2>3, <2>4 DEF Claims, AppliedStays, AppliedOnce, CompletedHasRun, TypeOK
  <2>7. CompletedCopies'
    BY <2>2 DEF Claims, CompletedCopies, TypeOK
  <2> QED
    BY <2>5, <2>6, <2>7 DEF Claims
<1>4. ASSUME NEW w \in Workers, Raise(w)
      PROVE  Claims'
  <2>1. /\ UNCHANGED <<status, deleted, applied, executed, overwritten, request, stale>>
        /\ \A k \in Jobs, v \in Workers : Holds(v, k)' => Holds(v, k)
    BY <1>4 DEF Raise, Holds, TypeOK
  <2> QED
    BY <2>1, IdleKeepsClaims
<1>5. ASSUME NEW w \in Workers, RecordFailure(w)
      PROVE  Claims'
  <2>1. PICK j \in Jobs : j = task[w][1]
    BY <1>5 DEF RecordFailure, TypeOK, TaskShape, Messages
  <2>2. /\ status' = [status EXCEPT ![j] = "failed"]
        /\ UNCHANGED <<applied, overwritten>>
        /\ \A v \in Workers \ {w} : pc'[v] = pc[v] /\ task'[v] = task[v]
        /\ pc'[w] \notin {"loading", "broken"}
        /\ UNCHANGED <<stale, deleted, request, executed>>
    BY <1>5, <2>1 DEF RecordFailure, FinishTask, TypeOK
  <2>3. Holds(w, j)
    BY <1>5, <2>1 DEF RecordFailure, Holds
  <2>4. j \notin overwritten => status[j] = "processing" /\ applied[j] = 0
    BY <2>3 DEF Claims, HolderIsFresh, AppliedStays, TypeOK
  <2>5. HolderIsFresh' /\ ClaimIsExclusive'
    BY <2>2, <2>3 DEF Claims, HolderIsFresh, ClaimIsExclusive, Holds, TypeOK
  <2>6. AppliedStays' /\ AppliedOnce' /\ CompletedHasRun'
    BY <2>2, <2>4 DEF Claims, AppliedStays, AppliedOnce, CompletedHasRun, TypeOK
  <2>7. CompletedCopies'
    BY <2>2, <2>4 DEF Claims, CompletedCopies, TypeOK
  <2> QED
    BY <2>5, <2>6, <2>7 DEF Claims
<1>6. ASSUME NEW w \in Workers, Discard(w)
      PROVE  Claims'
  <2>1. /\ UNCHANGED <<status, deleted, applied, executed, overwritten, request, stale>>
        /\ \A k \in Jobs, v \in Workers : Holds(v, k)' => Holds(v, k)
    BY <1>6 DEF Discard, FinishTask, NoTask, Holds, TypeOK
  <2> QED
    BY <2>1, IdleKeepsClaims
<1>7. ASSUME NEW w \in Workers, ReadError(w)
      PROVE  Claims'
  <2>1. PICK j \in Jobs : j = task[w][1]
    BY <1>7 DEF ReadError, TypeOK, TaskShape, Messages
  <2>2. /\ status' = [status EXCEPT ![j] = "queued"]
        /\ UNCHANGED <<applied, overwritten>>
        /\ \A v \in Workers \ {w} : pc'[v] = pc[v] /\ task'[v] = task[v]
        /\ pc'[w] \notin {"loading", "broken"}
        /\ UNCHANGED <<stale, deleted, request, executed>>
    BY <1>7, <2>1 DEF ReadError, FinishTask, TypeOK
  <2>3. Holds(w, j)
    BY <1>7, <2>1 DEF ReadError, Holds
  <2>4. j \notin overwritten => status[j] = "processing" /\ applied[j] = 0
    BY <2>3 DEF Claims, HolderIsFresh, AppliedStays, TypeOK
  <2>5. HolderIsFresh' /\ ClaimIsExclusive'
    BY <2>2, <2>3 DEF Claims, HolderIsFresh, ClaimIsExclusive, Holds, TypeOK
  <2>6. AppliedStays' /\ AppliedOnce' /\ CompletedHasRun'
    BY <2>2, <2>4 DEF Claims, AppliedStays, AppliedOnce, CompletedHasRun, TypeOK
  <2>7. CompletedCopies'
    BY <2>2, <2>4 DEF Claims, CompletedCopies, TypeOK
  <2> QED
    BY <2>5, <2>6, <2>7 DEF Claims
<1>8. ASSUME NEW w \in Workers, RetryTask(w)
      PROVE  Claims'
  <2>1. /\ UNCHANGED <<status, deleted, applied, executed, overwritten, request, stale>>
        /\ \A k \in Jobs, v \in Workers : Holds(v, k)' => Holds(v, k)
    BY <1>8 DEF RetryTask, FinishTask, NoTask, Holds, TypeOK
  <2> QED
    BY <2>1, IdleKeepsClaims
<1>9. ASSUME NEW w \in Workers, MarkFailed(w)
      PROVE  Claims'
  <2>1. PICK j \in Jobs : j = task[w][1]
    BY <1>9 DEF MarkFailed, TypeOK, TaskShape, Messages
  <2>2. /\ \A k \in Jobs \ {j} : status'[k] = status[k]
        /\ status[j] = "completed" => status'[j] = "completed"
        /\ status'[j] = "completed" => status[j] = "completed"
        /\ overwritten' = IF status[j] = "processing" THEN overwritten \cup {j} ELSE overwritten
        /\ UNCHANGED <<stale, deleted, request, applied, executed>>
    BY <1>9, <2>1 DEF MarkFailed, TypeOK
  <2>3. \A k \in Jobs, v \in Workers : Holds(v, k)' => Holds(v, k)
    BY <1>9 DEF MarkFailed, FinishTask, Holds, TypeOK
  <2>4. j \notin overwritten' => \A v \in Workers : ~Holds(v, j)
    BY <2>2 DEF Claims, HolderIsFresh
  <2>5. HolderIsFresh' /\ ClaimIsExclusive'
    BY <2>2, <2>3, <2>4 DEF Claims, HolderIsFresh, ClaimIsExclusive
  <2>6. AppliedStays' /\ AppliedOnce' /\ CompletedHasRun'
    BY <2>2 DEF Claims, AppliedStays, AppliedOnce, CompletedHasRun
  <2>7. CompletedCopies'
    <3>1. \A k \in Jobs : status[k] = "completed" => status'[k] = "completed"
      BY <2>2
    <3>2. \A v \in Users : request[v] # NoRequest => request[v].job \in Jobs
      BY DEF TypeOK, Requests
    <3> QED
      BY <2>2, <3>1, <3>2 DEF Claims, CompletedCopies
  <2> QED
    BY <2>5, <2>6, <2>7 DEF Claims
<1>10. ASSUME NEW w \in Workers, Crash(w)
      PROVE  Claims'
  <2>1. /\ UNCHANGED <<status, deleted, applied, executed, overwritten, request, stale>>
        /\ \A k \in Jobs, v \in Workers : Holds(v, k)' => Holds(v, k)
    BY <1>10 DEF Crash, FinishTask, NoTask, Holds, TypeOK
  <2> QED
    BY <2>1, IdleKeepsClaims
<1>11. ASSUME NEW u \in Users, Preview(u)
      PROVE  Claims'
  <2>1. PICK j \in Jobs : j = request[u].job
    BY <1>11 DEF Preview, TypeOK, Requests, NoRequest
  <2>2. PICK x \in {"analyzing", "failed"} : Put(j, x)
    BY <1>11, <2>1 DEF Preview
  <2>3. /\ UNCHANGED <<pc, task, applied>> /\ executed \subseteq executed'
        /\ \A k \in Jobs \ {j} : (k \in stale' => k \in stale) /\ (k \in deleted' => k \in deleted)
        /\ \A v \in Users : request'[v] = NoRequest
             \/ /\ request[v] # NoRequest
                /\ request'[v].job = request[v].job /\ request'[v].status = request[v].status
    BY <1>11, <2>1 DEF Preview, Continue, Respond, TypeOK, Requests, NoRequest
  <2> QED
    BY <2>2, <2>3, PutKeepsClaims
<1>12. ASSUME NEW u \in Users, Inspect(u)
      PROVE  Claims'
  <2>1. PICK j \in Jobs : j = request[u].job
    BY <1>12 DEF Inspect, TypeOK, Requests, NoRequest
  <2>2. PICK x \in {"preview_ready", "failed"} : Put(j, x)
    BY <1>12, <2>1 DEF Inspect
  <2>3. /\ UNCHANGED <<pc, task, applied>> /\ executed \subseteq executed'
        /\ \A k \in Jobs \ {j} : (k \in stale' => k \in stale) /\ (k \in deleted' => k \in deleted)
        /\ \A v \in Users : request'[v] = NoRequest
             \/ /\ request[v] # NoRequest
                /\ request'[v].job = request[v].job /\ request'[v].status = request[v].status
    BY <1>12, <2>1 DEF Inspect, Respond, TypeOK
  <2> QED
    BY <2>2, <2>3, PutKeepsClaims
<1>13. ASSUME NEW u \in Users, Confirm(u)
      PROVE  Claims'
  <2>1. PICK j \in Jobs : j = request[u].job
    BY <1>13 DEF Confirm, TypeOK, Requests, NoRequest
  <2>2. /\ UNCHANGED <<pc, task, applied, executed>>
        /\ \A k \in Jobs \ {j} : (k \in stale' => k \in stale) /\ (k \in deleted' => k \in deleted)
        /\ \A v \in Users : request'[v] = NoRequest
             \/ /\ request[v] # NoRequest
                /\ request'[v].job = request[v].job /\ request'[v].status = request[v].status
    BY <1>13, <2>1 DEF Confirm, Continue, Respond, TypeOK, Requests, NoRequest
  <2>3. CASE Put(j, "confirmed")
    BY <2>2, <2>3, PutKeepsClaims
  <2>4. CASE UNCHANGED <<rowVars, overwritten>> /\ Respond(u)
    <3>1. \A v \in Users : request'[v] = NoRequest \/ request'[v] = request[v]
      BY <1>13, <2>4 DEF Confirm, Respond, TypeOK
    <3> QED
      BY <2>2, <2>4, <3>1, IdleKeepsClaims DEF Holds
  <2> QED
    BY <1>13, <2>1, <2>3, <2>4 DEF Confirm
<1>14. ASSUME NEW u \in Users, Execute(u)
      PROVE  Claims'
  <2>1. PICK j \in Jobs : j = request[u].job
    BY <1>14 DEF Execute, TypeOK, Requests, NoRequest
  <2>2. PICK x \in {"completed", "failed"} : Put(j, x) /\ (x = "completed" => j \in executed')
    BY <1>14, <2>1 DEF Execute
  <2>3. /\ UNCHANGED <<pc, task, applied>> /\ executed \subseteq executed'
        /\ \A k \in Jobs \ {j} : (k \in stale' => k \in stale) /\ (k \in deleted' => k \in deleted)
        /\ \A v \in Users : request'[v] = NoRequest
             \/ /\ request[v] # NoRequest
                /\ request'[v].job = request[v].job /\ request'[v].status = request[v].status
    BY <1>14, <2>1 DEF Execute, Respond, TypeOK
  <2> QED
    BY <2>2, <2>3, PutKeepsClaims
<1>15. ASSUME NEW u \in Users, Retry(u)
      PROVE  Claims'
  <2>1. PICK j \in Jobs : j = request[u].job
    BY <1>15 DEF Retry, TypeOK, Requests, NoRequest
  <2>2. Put(j, "queued")
    BY <1>15, <2>1 DEF Retry
  <2>3. /\ UNCHANGED <<pc, task, applied>> /\ executed \subseteq executed'
        /\ \A k \in Jobs \ {j} : (k \in stale' => k \in stale) /\ (k \in deleted' => k \in deleted)
        /\ \A v \in Users : request'[v] = NoRequest
             \/ /\ request[v] # NoRequest
                /\ request'[v].job = request[v].job /\ request'[v].status = request[v].status
    BY <1>15, <2>1 DEF Retry, Respond, TypeOK
  <2> QED
    BY <2>2, <2>3, PutKeepsClaims
<1>16. ASSUME NEW u \in Users, Cancel(u)
      PROVE  Claims'
  <2>1. PICK j \in Jobs : j = request[u].job
    BY <1>16 DEF Cancel, TypeOK, Requests, NoRequest
  <2>2. Put(j, "cancelled")
    BY <1>16, <2>1 DEF Cancel
  <2>3. /\ UNCHANGED <<pc, task, applied>> /\ executed \subseteq executed'
        /\ \A k \in Jobs \ {j} : (k \in stale' => k \in stale) /\ (k \in deleted' => k \in deleted)
        /\ \A v \in Users : request'[v] = NoRequest
             \/ /\ request[v] # NoRequest
                /\ request'[v].job = request[v].job /\ request'[v].status = request[v].status
    BY <1>16, <2>1 DEF Cancel, Respond, TypeOK
  <2> QED
    BY <2>2, <2>3, PutKeepsClaims
<1>25. ASSUME NEW u \in Users, NEW f \in Files, Validate(u, f)
      PROVE  Claims'
  <2>1. /\ UNCHANGED <<status, deleted, stale, pc, task, applied, executed, overwritten>>
        /\ \A v \in Users : request'[v] = NoRequest
             \/ /\ request[v] # NoRequest
                /\ request'[v].job = request[v].job /\ request'[v].status = request[v].status
    BY <1>25 DEF Validate, Respond, TypeOK, Requests, NoRequest
  <2>2. HolderIsFresh' /\ ClaimIsExclusive'
    BY <2>1 DEF Claims, HolderIsFresh, ClaimIsExclusive, Holds
  <2>3. AppliedStays' /\ AppliedOnce' /\ CompletedHasRun'
    BY <2>1 DEF Claims, AppliedStays, AppliedOnce, CompletedHasRun
  <2>4. CompletedCopies'
    BY <2>1 DEF Claims, CompletedCopies
  <2> QED
    BY <2>2, <2>3, <2>4 DEF Claims
<1>17. ASSUME NEW u \in Users, Save(u)
      PROVE  Claims'
  <2>1. PICK j \in Jobs : j = request[u].job
    BY <1>17 DEF Save, TypeOK, Requests, NoRequest
  <2>2. /\ UNCHANGED <<pc, task, applied, executed>>
        /\ \A k \in Jobs \ {j} : (k \in stale' => k \in stale) /\ (k \in deleted' => k \in deleted)
        /\ \A v \in Users : request'[v] = NoRequest
             \/ /\ request[v] # NoRequest
                /\ request'[v].job = request[v].job /\ request'[v].status = request[v].status
    BY <1>17, <2>1 DEF Save, Respond, TypeOK
  <2>3. CASE Put(j, request[u].status)
    <3>1. request[u].status = "completed" => status[j] = "completed" \/ j \in overwritten
      BY <1>17, <2>1 DEF Save, NoRequest, Claims, CompletedCopies
    <3> QED
      BY <2>2, <2>3, <3>1, PutKeepsClaims
  <2>4. CASE UNCHANGED <<rowVars, overwritten>> /\ Respond(u)
    <3>1. \A v \in Users : request'[v] = NoRequest \/ request'[v] = request[v]
      BY <1>17, <2>4 DEF Save, Respond, TypeOK
    <3> QED
      BY <2>2, <2>4, <3>1, IdleKeepsClaims DEF Holds
  <2> QED
    BY <1>17, <2>1, <2>3, <2>4 DEF Save
<1>18. ASSUME NEW u \in Users, Destroy(u)
      PROVE  Claims'
  <2>1. PICK j \in Jobs : j = request[u].job
    BY <1>18 DEF Destroy, TypeOK, Requests, NoRequest
  <2>2. Put(j, status[j])
    BY <1>18, <2>1 DEF Destroy
  <2>3. /\ UNCHANGED <<pc, task, applied>> /\ executed \subseteq executed'
        /\ \A k \in Jobs \ {j} : (k \in stale' => k \in stale) /\ (k \in deleted' => k \in deleted)
        /\ \A v \in Users : request'[v] = NoRequest
             \/ /\ request[v] # NoRequest
                /\ request'[v].job = request[v].job /\ request'[v].status = request[v].status
    BY <1>18, <2>1 DEF Destroy, Respond, TypeOK
  <2> QED
    BY <2>2, <2>3, PutKeepsClaims
<1>19. ASSUME NEW u \in Users, Abandon(u)
      PROVE  Claims'
  <2>1. /\ UNCHANGED <<rowVars, workVars, ghostVars>>
        /\ \A v \in Users : request'[v] = NoRequest \/ request'[v] = request[v]
    BY <1>19 DEF Abandon, Respond, TypeOK
  <2>2. \A k \in Jobs, v \in Workers : Holds(v, k)' => Holds(v, k)
    BY <2>1 DEF Holds
  <2> QED
    BY <2>1, <2>2, IdleKeepsClaims
<1>20. ASSUME NEW u \in Users, NEW write \in Offered, NEW j \in Jobs, Read(u, write, j)
      PROVE  Claims'
  <2>1. /\ UNCHANGED <<rowVars, pc, task, ghostVars>>
        /\ \A v \in Users \ {u} : request'[v] = request[v]
        /\ request'[u].job = j /\ request'[u].status \in {status[j], "absent"}
    BY <1>20 DEF Read, Copy, TypeOK
  <2>2. HolderIsFresh' /\ ClaimIsExclusive'
    BY <2>1 DEF Claims, HolderIsFresh, ClaimIsExclusive, Holds
  <2>3. AppliedStays' /\ AppliedOnce' /\ CompletedHasRun'
    BY <2>1 DEF Claims, AppliedStays, AppliedOnce, CompletedHasRun
  <2>4. CompletedCopies'
    BY <2>1 DEF Claims, CompletedCopies
  <2> QED
    BY <2>2, <2>3, <2>4 DEF Claims
<1>21. ASSUME NEW j \in Jobs, Upload(j)
      PROVE  Claims'
  <2>1. /\ status[j] = "absent" /\ status' = [status EXCEPT ![j] = "uploaded"]
        /\ UNCHANGED <<stale, deleted, workVars, request, ghostVars>>
    BY <1>21 DEF Upload
  <2>2. HolderIsFresh' /\ ClaimIsExclusive'
    BY <2>1 DEF Claims, HolderIsFresh, ClaimIsExclusive, Holds, TypeOK
  <2>3. AppliedStays' /\ AppliedOnce' /\ CompletedHasRun'
    BY <2>1 DEF Claims, AppliedStays, AppliedOnce, CompletedHasRun, TypeOK
  <2>4. CompletedCopies'
    BY <2>1 DEF Claims, CompletedCopies, TypeOK
  <2> QED
    BY <2>2, <2>3, <2>4 DEF Claims
<1>22. ASSUME NEW j \in Jobs, ClaimGoesStale(j)
      PROVE  Claims'
  <2>1. /\ UNCHANGED <<status, deleted, workVars, request, ghostVars>>
        /\ stale' = stale \cup {j}
        /\ \A v \in Workers : ~Holds(v, j)
    BY <1>22 DEF ClaimGoesStale, Working, Holds
  <2>2. \A k \in Jobs, v \in Workers : Holds(v, k)' => Holds(v, k) /\ (k \in stale' => k \in stale)
    BY <2>1 DEF Holds
  <2> QED
    BY <2>1, <2>2, IdleKeepsClaims
<1>23. ASSUME NEW m \in Messages, LoseMessage(m)
      PROVE  Claims'
  <2>1. /\ UNCHANGED <<status, deleted, applied, executed, overwritten, request, stale>>
        /\ \A k \in Jobs, v \in Workers : Holds(v, k)' => Holds(v, k)
    BY <1>23 DEF LoseMessage, Holds, TypeOK
  <2> QED
    BY <2>1, IdleKeepsClaims
<1>24. CASE UNCHANGED vars
  BY <1>24, IdleKeepsClaims DEF vars, Holds
<1> QED
  BY <1>1, <1>2, <1>3, <1>4, <1>5, <1>6, <1>7, <1>8, <1>9, <1>10, <1>11,
     <1>12, <1>13, <1>14, <1>15, <1>16, <1>17, <1>18, <1>19, <1>20, <1>21,
     <1>22, <1>23, <1>24, <1>25 DEF Next, WorkerStep, RequestStep

-----------------------------------------------------------------------------
(* The worker that applies a workbook is the only one to note it.          *)
LEMMA ImportedNext == TypeOK /\ TaskShape /\ ImportedApplied /\ [Next]_vars => ImportedApplied'
<1> SUFFICES ASSUME TypeOK, TaskShape, ImportedApplied, [Next]_vars
             PROVE  ImportedApplied'
  OBVIOUS
<1>1. ASSUME NEW w \in Workers, Apply(w)
      PROVE  ImportedApplied'
  <2>1. PICK j \in Jobs : j = task[w][1]
    BY <1>1 DEF Apply, TypeOK, TaskShape, Messages
  <2> QED
    BY <1>1, <2>1 DEF Apply, ImportedApplied, TypeOK
<1>2. CASE ~ \E w \in Workers : Apply(w)
  <2>1. UNCHANGED <<applied, imported>>
    BY <1>2 DEF Next, WorkerStep, RequestStep, IgnoreTask, Claim, Raise, RecordFailure, Discard,
         ReadError, RetryTask, MarkFailed, Crash, Preview, Inspect, Confirm, Execute, Retry,
         Cancel, Validate, Save, Destroy, Abandon, Read, Upload, ClaimGoesStale, LoseMessage,
         vars, ghostVars
  <2> QED
    BY <2>1 DEF ImportedApplied
<1> QED
  BY <1>1, <1>2

-----------------------------------------------------------------------------
(* The invariant that carries the safety properties.                       *)
LEMMA IInvInit == Init => IInv
<1> SUFFICES ASSUME Init PROVE IInv
  OBVIOUS
<1>1. TypeOK /\ TaskShape
  BY TypeInit
<1>2. /\ \A j \in Jobs : status[j] = "absent" /\ applied[j] = 0
      /\ \A w \in Workers : pc[w] = "idle"
      /\ \A u \in Users : request[u] = NoRequest
      /\ ImportedApplied
  BY DEF Init, ImportedApplied
<1>3. OneActiveJob
  BY <1>2 DEF OneActiveJob, Active
<1>4. HolderIsFresh /\ ClaimIsExclusive
  BY <1>2 DEF HolderIsFresh, ClaimIsExclusive, Holds
<1>5. AppliedStays /\ AppliedOnce /\ CompletedCopies /\ CompletedHasRun
  BY <1>2 DEF AppliedStays, AppliedOnce, CompletedCopies, CompletedHasRun
<1> QED
  BY <1>1, <1>2, <1>3, <1>4, <1>5 DEF IInv, Claims

LEMMA IInvNext == IInv /\ [Next]_vars => IInv'
  BY TypeNext, ConstraintNext, ClaimsNext, ImportedNext DEF IInv

LEMMA IInvAlways == Spec => []IInv
  BY IInvInit, IInvNext, PTL DEF Spec

(* Every variable keeps its type, however requests, workers, crashes and   *)
(* lost messages interleave.                                               *)
THEOREM TypeCorrect == Spec => []TypeOK
<1>1. IInv => TypeOK
  BY DEF IInv
<1> QED
  BY <1>1, IInvAlways, PTL

(* The task's claim is exclusive unless a request or a late mark_failed    *)
(* wrote over it (process_import_job against the viewset).                 *)
THEOREM ClaimExclusive == Spec => []ClaimIsExclusive
<1>1. IInv => ClaimIsExclusive
  BY DEF IInv, Claims
<1> QED
  BY <1>1, IInvAlways, PTL

(* A job is applied once, and two jobs import one file only when one of    *)
(* them was overwritten or held it under another's checksum: each write    *)
(* keeps to uq_active_import_file_scope, and an applied job stays          *)
(* COMPLETED and live until it is overwritten.                             *)
THEOREM ImportedOnce == Spec => []FileImportedOnce
<1>1. IInv => FileImportedOnce
  <2> SUFFICES ASSUME IInv, NEW j \in Jobs \ overwritten
               PROVE  /\ applied[j] <= 1
                      /\ \A k \in Jobs \ (overwritten \cup {j}) :
                           \A f \in imported[j] \cap imported[k] : f # FileOf[j] \/ f # FileOf[k]
    BY DEF FileImportedOnce
  <2>1. applied[j] <= 1
    BY DEF IInv, Claims, AppliedOnce
  <2>2. ASSUME NEW k \in Jobs \ (overwritten \cup {j}), NEW f \in imported[j] \cap imported[k],
               f = FileOf[j], f = FileOf[k]
        PROVE  FALSE
    <3>1. applied[j] > 0 /\ applied[k] > 0
      BY <2>2 DEF IInv, ImportedApplied
    <3>2. /\ status[j] = "completed" /\ j \notin deleted
          /\ status[k] = "completed" /\ k \notin deleted
      BY <3>1 DEF IInv, Claims, AppliedStays
    <3>3. k \in Rivals(j) /\ Rivals(j) = {}
      BY <2>2, <3>2 DEF IInv, OneActiveJob, Rivals, ActiveOf, Active
    <3> QED
      BY <3>3
  <2> QED
    BY <2>1, <2>2
<1> QED
  BY <1>1, IInvAlways, PTL

(* FAILED and COMPLETED tell the truth about the workbook                  *)
(* (process_import_job, ImportExecutor.execute).                           *)
THEOREM OutcomeTellsTheTruth == Spec => []OutcomeIsTruthful
<1>1. IInv => OutcomeIsTruthful
  <2> SUFFICES ASSUME IInv, NEW j \in Jobs \ overwritten
               PROVE  /\ status[j] = "failed" => applied[j] = 0
                      /\ status[j] = "completed" => applied[j] = 1 \/ j \in executed
    BY DEF OutcomeIsTruthful
  <2>1. applied[j] \in Nat /\ (applied[j] > 0 => status[j] = "completed")
    BY DEF IInv, TypeOK, Claims, AppliedStays
  <2>2. status[j] = "completed" => applied[j] = 1 \/ j \in executed
    BY DEF IInv, Claims, CompletedHasRun
  <2> QED
    BY <2>1, <2>2
<1> QED
  BY <1>1, IInvAlways, PTL

-----------------------------------------------------------------------------
(* The source files: what a manifest says of its file. *)
FileStatuses == {"VALID", "INVALID", "INCOMPLETE", "CONFLICT"}
Under == {"registered", "read", "written"}

(* A record has the fields it is written with. *)
IsManifest(m) ==
  /\ m = [status |-> m.status, checksum |-> m.checksum, classes |-> m.classes,
          count |-> m.count, ingest |-> m.ingest]
  /\ m.status \in FileStatuses

(* The files that a scan has recorded, and the variables of the directory. *)
Recorded == {f \in SourceFiles : Scanned(f)}

ManifestsShape ==
  /\ DOMAIN manifests = SourceFiles
  /\ \A f \in SourceFiles : Scanned(f) => IsManifest(manifests[f])

(* A scan that is reading a file has registered it, and has read rows of   *)
(* that file only.                                                         *)
IsScan(s, recorded) ==
  /\ s = [pc |-> s.pc, todo |-> s.todo, manifest |-> s.manifest, rows |-> s.rows,
          alone |-> s.alone]
  /\ s.todo \subseteq SourceFiles
  /\ s.pc \in Under =>
       /\ s.todo # {}
       /\ IsManifest(s.manifest)
       /\ FirstFile(s.todo) \in recorded
  /\ s.pc \in {"read", "written"} => \A r \in s.rows : r.file = FirstFile(s.todo)

ScansShape ==
  /\ DOMAIN scans = Scanners
  /\ \A p \in Scanners : IsScan(scans[p], Recorded)

FoldersShape ==
  /\ DOMAIN folder = SourceFiles
  /\ \A f \in SourceFiles : folder[f] \in Contents[f] \cup {Blank}

RowsShape == \A r \in sourceRows : r.file \in Recorded

DirectoryShape ==
  /\ FoldersShape
  /\ ManifestsShape
  /\ ScansShape
  /\ RowsShape
  /\ selections \in [Classes -> SourceFiles \cup {Blank}]

(* What a complete scan has left, and what is so until the next begins.    *)
ScanIsComplete ==
  undisturbed =>
    /\ ScanningNow = {}
    /\ conflicts = Overlaps
    /\ \A f \in Candidates :
         manifests[f].status = "VALID" => manifests[f].classes \cap Flagged(conflicts) = {}

(* The ingest: whose records have these fields. *)
IngestFields == {"pc", "todo", "manifests", "known", "checksum", "content", "rows", "next",
                 "summary"}

(* The rows that are written are those of the content that the checksum is *)
(* of, unless the file is torn.                                            *)
RowsOfChecksum(f, checksum, rows) ==
  <<f, checksum>> \notin torn =>
    \E content \in Contents[f] : content.checksum = checksum /\ rows = content.exam

IsIngest ==
  /\ DOMAIN ingest = IngestFields
  /\ ingest.todo \subseteq SourceFiles
  /\ DOMAIN ingest.manifests \subseteq Recorded
  /\ ingest.pc \in {"idle", "workbooks"} => ingest.summary = {}
  /\ ingest.pc \in {"digested", "opened", "parsed", "writing"} => ingest.todo # {}
  /\ ingest.pc = "opened" => ingest.content \in Contents[FirstFile(ingest.todo)]
  /\ ingest.pc \in {"parsed", "writing"} =>
       RowsOfChecksum(FirstFile(ingest.todo), ingest.checksum, ingest.rows)
  /\ ingest.pc = "parsed" => ingest.next = 1
  /\ ingest.pc = "writing" => ingest.next \in Nat \ {0}

(* A row of an exam comes from a row of the content of its checksum.       *)
IsResult(r) ==
  /\ DOMAIN r = {"file", "checksum", "row", "student", "grade", "status", "linked", "live"}
  /\ r.file \in SourceFiles
  /\ <<r.file, r.checksum>> \notin torn =>
       \E content \in Contents[r.file] : \E i \in DOMAIN content.exam :
         /\ content.checksum = r.checksum
         /\ content.exam[i].row = r.row
         /\ ~TooWide(content.exam[i])

(* The rows of the exams: one for each key, and of one version of a file   *)
(* at a time.                                                              *)
ResultsShape == \A r \in results : IsResult(r)

ResultsAreKeyed == \A r, q \in results : SameKey(r, q) => r = q

LiveRowsAgree ==
  \A r, q \in results : r.live /\ q.live /\ r.file = q.file => r.checksum = q.checksum

(* The rows of a file that a report may show, and a row as it is written.  *)
Live(f) == {r \in results : r.live /\ r.file = f}

Made(f, checksum, row) == Result(f, checksum, row, ingest.known, ingest.manifests)

(* While a file is written only rows of its checksum are live, and those   *)
(* before the next one are there.                                          *)
Writing ==
  ingest.pc = "writing" =>
    LET f == FirstFile(ingest.todo)
    IN  /\ \A r \in Live(f) : r.checksum = ingest.checksum
        /\ <<f, ingest.checksum>> \notin torn =>
             \A i \in DOMAIN ingest.rows :
               i < ingest.next /\ ~TooWide(ingest.rows[i]) =>
                 Made(f, ingest.checksum, ingest.rows[i]) \in results

(* What the summary says of a file, now that others are written.           *)
NoteIsTrue(n) ==
  \A content \in Contents[n.file] :
    n.read /\ content.checksum = n.checksum /\ <<n.file, n.checksum>> \notin torn =>
      LET written == {i \in DOMAIN content.exam : ~TooWide(content.exam[i])}
      IN  /\ Live(n.file) = {Made(n.file, n.checksum, content.exam[i]) : i \in written}
          /\ n.status = "COMPLETED" <=> written = DOMAIN content.exam

Noted ==
  \A n \in ingest.summary :
    /\ n.file \in SourceFiles \ ingest.todo
    /\ NoteIsTrue(n)

(* The invariant of the exams, and that of the source files: the parts are *)
(* only inductive together.                                                *)
ExamInv ==
  /\ IsIngest
  /\ ResultsShape
  /\ ResultsAreKeyed
  /\ LiveRowsAgree
  /\ Writing
  /\ Noted

IInvFiles ==
  /\ DirectoryShape
  /\ ScanIsComplete
  /\ ExamInv

-----------------------------------------------------------------------------
(* A set of numbers that is not empty has a least one. *)
LEMMA LeastOf ==
  ASSUME NEW I \in SUBSET Nat, I # {}
  PROVE  \E i \in I : \A j \in I : i <= j
<1> DEFINE Less == {p \in Nat \X Nat : p[1] < p[2]}
<1>1. IsWellFoundedOn(Less, Nat)
  BY NatLessThanWellFounded DEF OpToRel
<1>2. \E i \in I : \A j \in I : <<j, i>> \notin Less
  <2> HIDE DEF Less
  <2> QED BY <1>1, WFMin
<1>3. PICK i \in I : \A j \in I : <<j, i>> \notin Less
  BY <1>2
<1>4. ASSUME NEW j \in I PROVE i <= j
  <2>1. <<j, i>> \in Nat \X Nat /\ <<j, i>> \notin Less
    BY <1>3
  <2>2. ~(j < i)
    BY <2>1
  <2> QED BY <2>2
<1> QED BY <1>4

(* Every set of files that is not empty has a first one. *)
LEMMA FirstIsMember ==
  ASSUME NEW S \in SUBSET SourceFiles, S # {}
  PROVE  FirstFile(S) \in S
<1> DEFINE I == {i \in DOMAIN FileOrder : FileOrder[i] \in S}
<1>1. DOMAIN FileOrder = 1..Len(FileOrder) /\ Len(FileOrder) \in Nat
  BY DirectoryAssumption
<1>2. I # {} /\ I \in SUBSET Nat
  BY <1>1 DEF SourceFiles, Range
<1>3. PICK i \in I : \A j \in I : i <= j
  <2> HIDE DEF I
  <2> QED BY <1>2, LeastOf
<1>4. /\ i \in DOMAIN FileOrder
      /\ FileOrder[i] \in S
      /\ \A j \in 1..(i - 1) : FileOrder[j] \notin S
  <2>1. i \in DOMAIN FileOrder /\ FileOrder[i] \in S
    OBVIOUS
  <2>2. ASSUME NEW j \in 1..(i - 1), FileOrder[j] \in S PROVE FALSE
    <3>1. j \in I /\ j < i
      BY <1>1, <2>1, <2>2
    <3> QED BY <1>1, <1>2, <1>3, <3>1
  <2> QED BY <2>1, <2>2
<1> QED BY <1>4 DEF FirstFile

(* The files are those of a sequence. *)
LEMMA FilesAreFinite == IsFiniteSet(SourceFiles)
<1>1. DOMAIN FileOrder = 1..Len(FileOrder) /\ Len(FileOrder) \in Nat
  BY DirectoryAssumption
<1>2. FileOrder \in Surjection(1..Len(FileOrder), SourceFiles)
  BY <1>1, DirectoryAssumption DEF Surjection, SourceFiles, Range
<1>3. IsFiniteSet(1..Len(FileOrder))
  BY <1>1, FS_Interval
<1> QED BY <1>2, <1>3, FS_Surjection

(* Two files are more than one. *)
LEMMA TwoAreMany ==
  ASSUME NEW S \in SUBSET SourceFiles, NEW f \in S, NEW g \in S, f # g
  PROVE  Cardinality(S) > 1
<1>1. IsFiniteSet(S) /\ Cardinality(S) \in Nat
  BY FilesAreFinite, FS_Subset, FS_CardinalityType
<1>2. Cardinality(S) # 0
  BY <1>1, FS_EmptySet
<1>3. Cardinality(S) # 1
  <2> SUFFICES ASSUME Cardinality(S) = 1 PROVE FALSE
    OBVIOUS
  <2>1. PICK x : S = {x}
    BY <1>1, FS_Singleton
  <2> QED BY <2>1
<1> QED BY <1>1, <1>2, <1>3

(* Who has more than one has two. *)
LEMMA ManyContains ==
  ASSUME NEW S \in SUBSET SourceFiles, NEW T \in SUBSET SourceFiles, S \subseteq T,
         Cardinality(S) > 1
  PROVE  Cardinality(T) > 1
<1>1. IsFiniteSet(T) /\ IsFiniteSet(S) /\ Cardinality(S) \in Nat /\ Cardinality(T) \in Nat
  BY FilesAreFinite, FS_Subset, FS_CardinalityType
<1>2. Cardinality(S) <= Cardinality(T)
  BY <1>1, FS_Subset
<1> QED BY <1>1, <1>2

-----------------------------------------------------------------------------
(* The scan.  A file that is scanned stays so. *)
Grow == Recorded \subseteq Recorded'

(* Records of scans, and that they keep their shape. *)
LEMMA IdleIsScan ==
  ASSUME NEW recorded
  PROVE  IsScan(IdleScan, recorded) /\ IdleScan.pc = "idle"
BY DEF IsScan, IdleScan, Under

(* A scan does not mind that more files are recorded.                      *)
LEMMA ScanOfMore ==
  ASSUME NEW s, NEW before, NEW after, before \subseteq after, IsScan(s, before)
  PROVE  IsScan(s, after)
BY DEF IsScan

(* A step of one scanner.                                                  *)
LEMMA OneScanMoves ==
  ASSUME ScansShape, Grow, NEW p \in Scanners, NEW s,
         scans' = [scans EXCEPT ![p] = s], IsScan(s, Recorded')
  PROVE  ScansShape'
<1>1. DOMAIN scans' = Scanners /\ scans'[p] = s
  BY DEF ScansShape
<1>2. ASSUME NEW q \in Scanners, q # p PROVE IsScan(scans'[q], Recorded')
  <2>1. scans'[q] = scans[q] /\ IsScan(scans[q], Recorded)
    BY <1>2 DEF ScansShape
  <2> QED BY <2>1, ScanOfMore DEF Grow
<1> QED BY <1>1, <1>2 DEF ScansShape

LEMMA ScansStay ==
  ASSUME ScansShape, Grow, UNCHANGED scans
  PROVE  ScansShape'
BY ScanOfMore DEF Grow, ScansShape

(* Nothing that a conflict is made of has changed. *)
SameFields(f) ==
  /\ Scanned(f)' <=> Scanned(f)
  /\ manifests'[f].status = "INVALID" <=> manifests[f].status = "INVALID"
  /\ manifests'[f].classes = manifests[f].classes
  /\ manifests'[f].checksum = manifests[f].checksum

(* The overlaps are made of the rows and of those fields only. *)
LEMMA OverlapsFollow ==
  ASSUME UNCHANGED sourceRows, \A f \in SourceFiles : SameFields(f)
  PROVE  Candidates' = Candidates /\ Overlaps' = Overlaps
<1>1. Candidates' = Candidates
  BY DEF Candidates, SameFields
<1>2. \A f \in Candidates : f \in SourceFiles
  BY DEF Candidates
<1>3. ASSUME NEW c PROVE Naming(c)' = Naming(c)
  BY <1>1, <1>2 DEF SameFields, Naming
<1>4. ASSUME NEW f \in Candidates PROVE SameContent(f)' = SameContent(f)
  BY <1>1, <1>2 DEF SameFields, SameContent
<1>5. ASSUME NEW c, NEW s PROVE Placing(c, s)' = Placing(c, s)
  BY <1>1 DEF Placing
<1> DEFINE Equal == {Conflict("DUPLICATE_FILE", Blank, Blank, SameContent(f)) : f \in Candidates}
           Shared == {Conflict("CLASS_OVERLAP", c, Blank, Naming(c)) : c \in Classes}
           Twice == {Conflict("STUDENT_OVERLAP", c, s, Placing(c, s)) :
                       c \in Classes \cup {Blank}, s \in Students}
<1>6. Equal' = Equal
  BY <1>1, <1>4
<1>7. Shared' = Shared
  BY <1>3
<1>8. Twice' = Twice
  BY <1>5
<1>9. Overlaps = {k \in Equal \cup Shared \cup Twice : Cardinality(k.files) > 1}
  BY DEF Overlaps
<1>10. Overlaps' = {k \in Equal' \cup Shared' \cup Twice' : Cardinality(k.files) > 1}
  BY DEF Overlaps
<1> HIDE DEF Equal, Shared, Twice
<1> QED BY <1>1, <1>6, <1>7, <1>8, <1>9, <1>10

(* A complete scan stays complete while no manifest gets another status and
   no scan begins. *)
LEMMA NothingScans ==
  ASSUME ScanIsComplete, UNCHANGED <<sourceRows, conflicts, undisturbed>>,
         \A f \in SourceFiles : SameFields(f) /\ manifests'[f].status = manifests[f].status,
         ScanningNow' \subseteq ScanningNow
  PROVE  ScanIsComplete'
<1>1. Candidates' = Candidates /\ Overlaps' = Overlaps
  BY OverlapsFollow
<1>2. Flagged(conflicts)' = Flagged(conflicts)
  BY DEF Flagged
<1>3. \A f \in Candidates : f \in SourceFiles
  BY DEF Candidates
<1>4. CASE undisturbed'
  <2>1. undisturbed
    BY <1>4
  <2> QED BY <1>1, <1>2, <1>3, <2>1 DEF ScanIsComplete, SameFields
<1>5. CASE ~undisturbed'
  BY <1>5 DEF ScanIsComplete
<1> QED BY <1>4, <1>5

ScanOf(at, todo, manifest, rows, alone) ==
  [pc |-> at, todo |-> todo, manifest |-> manifest, rows |-> rows, alone |-> alone]

(* The records that the steps of a scan write. *)
LEMMA ScanFields ==
  ASSUME NEW s, NEW recorded, IsScan(s, recorded), NEW a, NEW m, NEW b
  PROVE  /\ [s EXCEPT !.alone = b] = ScanOf(s.pc, s.todo, s.manifest, s.rows, b)
         /\ [s EXCEPT !.pc = a] = ScanOf(a, s.todo, s.manifest, s.rows, s.alone)
         /\ [s EXCEPT !.pc = a, !.manifest = m] = ScanOf(a, s.todo, m, s.rows, s.alone)
<1> DEFINE t == ScanOf(s.pc, s.todo, s.manifest, s.rows, s.alone)
<1>1. s = t
  BY DEF IsScan, ScanOf
<1>2. [t EXCEPT !.alone = b] = ScanOf(s.pc, s.todo, s.manifest, s.rows, b)
  BY DEF ScanOf
<1>3. [t EXCEPT !.pc = a] = ScanOf(a, s.todo, s.manifest, s.rows, s.alone)
  BY DEF ScanOf
<1>4. [t EXCEPT !.pc = a, !.manifest = m] = ScanOf(a, s.todo, m, s.rows, s.alone)
  <2>1. [[t EXCEPT !.pc = a] EXCEPT !.manifest = m] = [t EXCEPT !.pc = a, !.manifest = m]
    BY DEF ScanOf
  <2>2. [ScanOf(a, s.todo, s.manifest, s.rows, s.alone) EXCEPT !.manifest = m]
          = ScanOf(a, s.todo, m, s.rows, s.alone)
    BY DEF ScanOf
  <2> HIDE DEF t
  <2> QED BY <1>3, <2>1, <2>2
<1> HIDE DEF t
<1> QED BY <1>1, <1>2, <1>3, <1>4

(* What such a record must agree with.                                     *)
LEMMA ScanIsShaped ==
  ASSUME NEW at, NEW todo, NEW manifest, NEW rows, NEW alone, NEW recorded,
         todo \subseteq SourceFiles,
         at \in Under => todo # {} /\ IsManifest(manifest) /\ FirstFile(todo) \in recorded,
         at \in {"read", "written"} => \A r \in rows : r.file = FirstFile(todo)
  PROVE  IsScan(ScanOf(at, todo, manifest, rows, alone), recorded)
<1> DEFINE s == ScanOf(at, todo, manifest, rows, alone)
<1>1. s = [pc |-> s.pc, todo |-> s.todo, manifest |-> s.manifest, rows |-> s.rows,
           alone |-> s.alone]
  BY DEF ScanOf
<1>2. /\ s.pc = at /\ s.todo = todo /\ s.manifest = manifest /\ s.rows = rows
  BY DEF ScanOf
<1> HIDE DEF s
<1>3. s.pc \in Under => s.todo # {} /\ IsManifest(s.manifest) /\ FirstFile(s.todo) \in recorded
  BY <1>2
<1>4. s.pc \in {"read", "written"} => \A r \in s.rows : r.file = FirstFile(s.todo)
  BY <1>2
<1>5. s.todo \subseteq SourceFiles
  BY <1>2
<1>6. IsScan(s, recorded)
  BY <1>1, <1>3, <1>4, <1>5 DEF IsScan
<1> QED BY <1>6 DEF s

(* Between two files nothing is in memory.                                 *)
LEMMA NextFileIsScan ==
  ASSUME NEW todo \in SUBSET SourceFiles, NEW alone, NEW recorded
  PROVE  IsScan(NextFile(todo, alone), recorded)
<1>1. NextFile(todo, alone) = ScanOf("next", todo, NoManifest, {}, alone)
  BY DEF NextFile, ScanOf
<1> QED BY <1>1, ScanIsShaped DEF Under

(* Manifests: whatever is written is one, so that what was recorded stays so. *)
LEMMA ManifestIsSome ==
  ASSUME NEW m, IsManifest(m)
  PROVE  m # NoManifest
BY DEF IsManifest, NoManifest, FileStatuses

(* Several manifests are written.                                          *)
LEMMA ManifestsRewritten ==
  ASSUME ManifestsShape, DOMAIN manifests' = SourceFiles,
         \A f \in SourceFiles : manifests'[f] = manifests[f] \/ IsManifest(manifests'[f])
  PROVE  ManifestsShape' /\ Grow
BY ManifestIsSome DEF ManifestsShape, Grow, Recorded, Scanned

(* One manifest is written.                                                *)
LEMMA ManifestWritten ==
  ASSUME ManifestsShape, NEW f \in SourceFiles, NEW m, IsManifest(m),
         manifests' = [manifests EXCEPT ![f] = m]
  PROVE  ManifestsShape' /\ Grow /\ f \in Recorded'
<1>1. /\ DOMAIN manifests' = SourceFiles
      /\ \A g \in SourceFiles : manifests'[g] = manifests[g] \/ IsManifest(manifests'[g])
      /\ manifests'[f] = m
  BY DEF ManifestsShape
<1>2. ManifestsShape' /\ Grow
  BY <1>1, ManifestsRewritten
<1>3. f \in Recorded'
  BY <1>1, ManifestIsSome DEF Recorded, Scanned
<1> QED BY <1>2, <1>3

LEMMA ManifestsStay ==
  ASSUME ManifestsShape, UNCHANGED manifests
  PROVE  ManifestsShape' /\ Grow /\ Recorded' = Recorded
BY DEF ManifestsShape, Grow, Recorded, Scanned

(* While a scan is under way the last one begun is not complete. *)
LEMMA ScanUnderWay ==
  ASSUME ScanIsComplete, NEW p \in ScanningNow, UNCHANGED undisturbed
  PROVE  ScanIsComplete'
BY DEF ScanIsComplete

(* A scan with files to visit is at one of them.                           *)
LEMMA FileOfScan ==
  ASSUME NEW s, NEW recorded, IsScan(s, recorded), s.todo # {}
  PROVE  FirstFile(s.todo) \in SourceFiles
BY FirstIsMember DEF IsScan

(* The steps of a scan, one by one. *)
LEMMA StartScanKeeps ==
  ASSUME DirectoryShape, NEW p \in Scanners, StartScan(p)
  PROVE  DirectoryShape' /\ ScanIsComplete' /\ Grow
<1> DEFINE new == NextFile({f \in SourceFiles : folder[f] # Blank}, ScanningNow = {})
<1>1. ManifestsShape' /\ Grow /\ Recorded' = Recorded
  BY ManifestsStay DEF DirectoryShape, StartScan
<1>2. IsScan(new, Recorded)
  BY NextFileIsScan
<1>3. ASSUME NEW q \in Scanners PROVE IsScan([scans[q] EXCEPT !.alone = FALSE], Recorded)
  <2>1. IsScan(scans[q], Recorded)
    BY DEF DirectoryShape, ScansShape
  <2> DEFINE s == scans[q]
  <2>2. [s EXCEPT !.alone = FALSE] = ScanOf(s.pc, s.todo, s.manifest, s.rows, FALSE)
    <3> HIDE DEF s
    <3> QED BY <2>1, ScanFields DEF s
  <2>3. IsScan(ScanOf(s.pc, s.todo, s.manifest, s.rows, FALSE), Recorded)
    <3> HIDE DEF s
    <3>1. /\ s.todo \subseteq SourceFiles
          /\ s.pc \in Under =>
               s.todo # {} /\ IsManifest(s.manifest) /\ FirstFile(s.todo) \in Recorded
          /\ s.pc \in {"read", "written"} => \A r \in s.rows : r.file = FirstFile(s.todo)
      BY <2>1 DEF IsScan, s
    <3> QED BY <3>1, ScanIsShaped
  <2> QED BY <2>2, <2>3
<1>4. scans' = [q \in Scanners |-> IF q = p THEN new ELSE [scans[q] EXCEPT !.alone = FALSE]]
  BY DEF StartScan
<1>5. ScansShape'
  <2> HIDE DEF new
  <2> QED BY <1>1, <1>2, <1>3, <1>4 DEF ScansShape
<1>6. FoldersShape' /\ RowsShape' /\ UNCHANGED selections
  BY <1>1 DEF DirectoryShape, FoldersShape, RowsShape, StartScan
<1>7. ScanIsComplete'
  BY DEF StartScan, ScanIsComplete
<1> QED BY <1>1, <1>5, <1>6, <1>7 DEF DirectoryShape

(* A step of one scan in which no more than one manifest changes.          *)
LEMMA ScanStep ==
  ASSUME DirectoryShape, ScanIsComplete, NEW p \in ScanningNow, UNCHANGED <<folder, selections, undisturbed>>,
         ManifestsShape', Grow, RowsShape',
         NEW s, scans' = [scans EXCEPT ![p] = s], IsScan(s, Recorded')
  PROVE  DirectoryShape' /\ ScanIsComplete' /\ Grow
<1>1. p \in Scanners
  BY DEF ScanningNow
<1>2. ScansShape'
  BY <1>1, OneScanMoves DEF DirectoryShape
<1>3. FoldersShape' /\ selections' \in [Classes -> SourceFiles \cup {Blank}]
  BY DEF DirectoryShape, FoldersShape
<1> QED BY <1>2, <1>3, ScanUnderWay DEF DirectoryShape

(* A scan that ends early leaves what it has written.                      *)
LEMMA AbandonScanKeeps ==
  ASSUME DirectoryShape, ScanIsComplete, NEW p \in ScanningNow, AbandonScan(p),
         UNCHANGED <<folder, manifests, sourceRows, selections, undisturbed>>
  PROVE  DirectoryShape' /\ ScanIsComplete' /\ Grow
<1>1. ManifestsShape' /\ Grow /\ RowsShape'
  BY ManifestsStay DEF DirectoryShape, RowsShape
<1>2. IsScan(IdleScan, Recorded')
  BY IdleIsScan
<1> HIDE DEF IdleScan
<1> QED BY <1>1, <1>2, ScanStep DEF AbandonScan

(* The file is recorded from here on.                                      *)
LEMMA RegisterWorkbookKeeps ==
  ASSUME DirectoryShape, ScanIsComplete, NEW p \in Scanners, RegisterWorkbook(p)
  PROVE  DirectoryShape' /\ ScanIsComplete' /\ Grow
<1> DEFINE f == FirstFile(scans[p].todo)
           reset == [status |-> "VALID", checksum |-> folder[f].checksum, classes |-> {},
                     count |-> 0,
                     ingest |-> IF Scanned(f) THEN manifests[f].ingest ELSE "NOT_PROCESSED"]
           new == [scans[p] EXCEPT !.pc = "registered", !.manifest = reset]
<1>1. IsScan(scans[p], Recorded) /\ f \in SourceFiles /\ scans[p].todo # {}
  BY FileOfScan DEF DirectoryShape, ScansShape, RegisterWorkbook
<1>2. p \in ScanningNow /\ UNCHANGED <<folder, sourceRows, selections, undisturbed>>
  BY DEF ScanningNow, RegisterWorkbook
<1>3. CASE folder[f] = Blank
  <2>1. AbandonScan(p) /\ UNCHANGED manifests
    BY <1>3 DEF RegisterWorkbook
  <2> QED BY <1>2, <2>1, AbandonScanKeeps
<1>4. CASE folder[f] # Blank
  <2>1. scans' = [scans EXCEPT ![p] = new] /\ manifests' = [manifests EXCEPT ![f] = reset]
    BY <1>4 DEF RegisterWorkbook
  <2>2. IsManifest(reset)
    BY DEF IsManifest, FileStatuses
  <2>3. ManifestsShape' /\ Grow /\ f \in Recorded'
    <3> HIDE DEF reset, f
    <3> QED BY <1>1, <2>1, <2>2, ManifestWritten DEF DirectoryShape
  <2>4. IsScan(new, Recorded')
    <3> DEFINE s == scans[p]
    <3> HIDE DEF reset
    <3>1. new = ScanOf("registered", s.todo, reset, s.rows, s.alone)
      BY <1>1, ScanFields
    <3>2. IsScan(ScanOf("registered", s.todo, reset, s.rows, s.alone), Recorded')
      BY <1>1, <2>2, <2>3, ScanIsShaped DEF IsScan
    <3> QED BY <3>1, <3>2
  <2>5. RowsShape'
    BY <1>2, <2>3 DEF DirectoryShape, RowsShape, Grow
  <2> HIDE DEF new, reset, f
  <2> QED BY <1>2, <2>1, <2>3, <2>4, <2>5, ScanStep
<1> QED BY <1>3, <1>4

(* What is read are rows of the file itself.                               *)
LEMMA ReplaceRowsKeeps ==
  ASSUME DirectoryShape, ScanIsComplete, NEW p \in Scanners, ReplaceRows(p)
  PROVE  DirectoryShape' /\ ScanIsComplete' /\ Grow
<1> DEFINE s == scans[p]
           f == FirstFile(s.todo)
           content == folder[f]
           rows == IF content = Blank THEN {} ELSE RowsRead(f, content)
           manifest == [status |-> ReadStatus(content), checksum |-> s.manifest.checksum,
                        classes |-> IF content = Blank THEN {} ELSE Detected(content),
                        count |-> Cardinality(rows), ingest |-> s.manifest.ingest]
           new == [pc |-> "read", todo |-> s.todo, manifest |-> manifest, rows |-> rows,
                   alone |-> s.alone]
<1>1. /\ IsScan(s, Recorded) /\ s.todo # {} /\ f \in Recorded
      /\ s.todo \subseteq SourceFiles
  BY DEF DirectoryShape, ScansShape, ReplaceRows, IsScan, Under
<1>2. p \in ScanningNow /\ UNCHANGED <<folder, manifests, selections, undisturbed>>
  BY DEF ScanningNow, ReplaceRows
<1>3. ManifestsShape' /\ Grow /\ Recorded' = Recorded
  BY <1>2, ManifestsStay DEF DirectoryShape
<1>4. RowsShape'
  BY <1>3 DEF DirectoryShape, RowsShape, ReplaceRows
<1>5. IsManifest(manifest)
  BY DEF IsManifest, FileStatuses, ReadStatus
<1>6. \A r \in rows : r.file = f
  BY DEF RowsRead
<1>7. scans' = [scans EXCEPT ![p] = new]
  BY DEF ReplaceRows
<1>8. IsScan(new, Recorded')
  <2> HIDE DEF manifest, rows, s
  <2>1. new = ScanOf("read", s.todo, manifest, rows, s.alone)
    BY DEF ScanOf
  <2>2. IsScan(ScanOf("read", s.todo, manifest, rows, s.alone), Recorded')
    BY <1>1, <1>3, <1>5, <1>6, ScanIsShaped
  <2> QED BY <2>1, <2>2
<1> HIDE DEF new
<1> QED BY <1>2, <1>3, <1>4, <1>7, <1>8, ScanStep

(* The rows written are of a file that is recorded.                        *)
LEMMA WriteRowsKeeps ==
  ASSUME DirectoryShape, ScanIsComplete, NEW p \in Scanners, WriteRows(p)
  PROVE  DirectoryShape' /\ ScanIsComplete' /\ Grow
<1> DEFINE s == scans[p]
           f == FirstFile(s.todo)
           new == [s EXCEPT !.pc = "written"]
<1>1. /\ IsScan(s, Recorded) /\ s.todo # {} /\ f \in Recorded
      /\ s.todo \subseteq SourceFiles /\ IsManifest(s.manifest)
      /\ \A r \in s.rows : r.file = f
  BY DEF DirectoryShape, ScansShape, WriteRows, IsScan, Under
<1>2. p \in ScanningNow /\ UNCHANGED <<folder, manifests, selections, undisturbed>>
  BY DEF ScanningNow, WriteRows
<1>3. ManifestsShape' /\ Grow /\ Recorded' = Recorded
  BY <1>2, ManifestsStay DEF DirectoryShape
<1>4. CASE AbandonScan(p) /\ UNCHANGED sourceRows
  BY <1>2, <1>4, AbandonScanKeeps
<1>5. CASE sourceRows' = sourceRows \cup s.rows /\ scans' = [scans EXCEPT ![p] = new]
  <2>1. RowsShape'
    BY <1>1, <1>3, <1>5 DEF DirectoryShape, RowsShape
  <2>2. IsScan(new, Recorded')
    <3> HIDE DEF s
    <3>1. new = ScanOf("written", s.todo, s.manifest, s.rows, s.alone)
      BY <1>1, ScanFields
    <3>2. IsScan(ScanOf("written", s.todo, s.manifest, s.rows, s.alone), Recorded')
      BY <1>1, <1>3, ScanIsShaped
    <3> QED BY <3>1, <3>2
  <2> HIDE DEF new
  <2> QED BY <1>2, <1>3, <1>5, <2>1, <2>2, ScanStep
<1> QED BY <1>4, <1>5 DEF WriteRows

(* The manifest saved is the one in memory.                                *)
LEMMA SaveManifestKeeps ==
  ASSUME DirectoryShape, ScanIsComplete, NEW p \in Scanners, SaveManifest(p)
  PROVE  DirectoryShape' /\ ScanIsComplete' /\ Grow
<1> DEFINE s == scans[p]
           f == FirstFile(s.todo)
           new == NextFile(s.todo \ {f}, s.alone)
<1>1. f \in SourceFiles /\ s.todo \subseteq SourceFiles /\ IsManifest(s.manifest)
  BY DEF DirectoryShape, ScansShape, SaveManifest, IsScan, Under, Recorded
<1>2. p \in ScanningNow /\ UNCHANGED <<folder, sourceRows, selections, undisturbed>>
  BY DEF ScanningNow, SaveManifest
<1>3. CASE folder[f] = Blank
  <2>1. AbandonScan(p) /\ UNCHANGED manifests
    BY <1>3 DEF SaveManifest
  <2> QED BY <1>2, <2>1, AbandonScanKeeps
<1>4. CASE folder[f] # Blank
  <2>1. scans' = [scans EXCEPT ![p] = new] /\ manifests' = [manifests EXCEPT ![f] = s.manifest]
    BY <1>4 DEF SaveManifest
  <2>2. ManifestsShape' /\ Grow
    BY <1>1, <2>1, ManifestWritten DEF DirectoryShape
  <2>3. RowsShape'
    BY <1>2, <2>2 DEF DirectoryShape, RowsShape, Grow
  <2>4. IsScan(new, Recorded')
    BY <1>1, NextFileIsScan
  <2> HIDE DEF new
  <2> QED BY <1>2, <2>1, <2>2, <2>3, <2>4, ScanStep
<1> QED BY <1>3, <1>4

LEMMA CrashScanKeeps ==
  ASSUME DirectoryShape, ScanIsComplete, NEW p \in Scanners, CrashScan(p)
  PROVE  DirectoryShape' /\ ScanIsComplete' /\ Grow
BY AbandonScanKeeps DEF CrashScan

(* The people. *)
LEMMA PeopleKeep ==
  ASSUME DirectoryShape, ScanIsComplete,
         UNCHANGED <<manifests, sourceRows, conflicts, scans, undisturbed>>,
         FoldersShape', selections' \in [Classes -> SourceFiles \cup {Blank}]
  PROVE  DirectoryShape' /\ ScanIsComplete' /\ Grow
<1>1. ManifestsShape' /\ Grow
  BY ManifestsStay DEF DirectoryShape
<1>2. ScansShape'
  BY <1>1, ScansStay DEF DirectoryShape
<1>3. RowsShape'
  BY <1>1 DEF DirectoryShape, RowsShape, Grow
<1>4. ScanIsComplete'
  <2>1. \A f \in SourceFiles : SameFields(f) /\ manifests'[f].status = manifests[f].status
    BY DEF SameFields, Scanned
  <2>2. ScanningNow' \subseteq ScanningNow
    BY DEF ScanningNow
  <2> QED BY <2>1, <2>2, NothingScans
<1> QED BY <1>1, <1>2, <1>3, <1>4 DEF DirectoryShape

(* Nothing that is recorded depends on what the file holds now.            *)
LEMMA ChangeFileKeeps ==
  ASSUME DirectoryShape, ScanIsComplete, NEW f \in SourceFiles,
         NEW content \in Contents[f] \cup {Blank}, ChangeFile(f, content)
  PROVE  DirectoryShape' /\ ScanIsComplete' /\ Grow
<1>1. FoldersShape'
  BY DEF DirectoryShape, FoldersShape, ChangeFile
<1> QED BY <1>1, PeopleKeep DEF ChangeFile, DirectoryShape

(* A selection is no part of an overlap.                                   *)
LEMMA SelectSourceKeeps ==
  ASSUME DirectoryShape, ScanIsComplete, NEW c \in Classes, NEW f \in {Blank} \cup SourceFiles,
         SelectSource(c, f)
  PROVE  DirectoryShape' /\ ScanIsComplete' /\ Grow
<1>1. FoldersShape' /\ selections' \in [Classes -> SourceFiles \cup {Blank}]
  BY DEF DirectoryShape, FoldersShape, SelectSource
<1> QED BY <1>1, PeopleKeep DEF SelectSource

(* The end of a scan. *)
LEMMA ManifestFields ==
  ASSUME NEW m, IsManifest(m), NEW x
  PROVE  /\ [m EXCEPT !.status = x] = [status |-> x, checksum |-> m.checksum,
                                       classes |-> m.classes, count |-> m.count,
                                       ingest |-> m.ingest]
         /\ [m EXCEPT !.ingest = x] = [status |-> m.status, checksum |-> m.checksum,
                                       classes |-> m.classes, count |-> m.count, ingest |-> x]
<1> DEFINE t == [status |-> m.status, checksum |-> m.checksum, classes |-> m.classes,
                 count |-> m.count, ingest |-> m.ingest]
<1>1. m = t
  BY DEF IsManifest
<1>2. [t EXCEPT !.status = x] = [status |-> x, checksum |-> m.checksum, classes |-> m.classes,
                                 count |-> m.count, ingest |-> m.ingest]
  OBVIOUS
<1>3. [t EXCEPT !.ingest = x] = [status |-> m.status, checksum |-> m.checksum,
                                 classes |-> m.classes, count |-> m.count, ingest |-> x]
  OBVIOUS
<1> HIDE DEF t
<1> QED BY <1>1, <1>2, <1>3

(* The ingest changes no field that a conflict is made of.                 *)
LEMMA ManifestMarked ==
  ASSUME NEW m, IsManifest(m), NEW x, NEW n, n = [m EXCEPT !.ingest = x]
  PROVE  /\ IsManifest(n)
         /\ n.status = m.status /\ n.classes = m.classes /\ n.checksum = m.checksum
<1>1. n = [status |-> m.status, checksum |-> m.checksum, classes |-> m.classes,
           count |-> m.count, ingest |-> x]
  BY ManifestFields
<1>2. m.status \in FileStatuses
  BY DEF IsManifest
<1> QED BY <1>1, <1>2 DEF IsManifest

(* The end of a scan changes the status only.                              *)
LEMMA ManifestInConflict ==
  ASSUME NEW m, IsManifest(m), NEW n, n = [m EXCEPT !.status = "CONFLICT"]
  PROVE  /\ IsManifest(n)
         /\ n.status = "CONFLICT" /\ n.classes = m.classes /\ n.checksum = m.checksum
<1>1. n = [status |-> "CONFLICT", checksum |-> m.checksum, classes |-> m.classes,
           count |-> m.count, ingest |-> m.ingest]
  BY ManifestFields
<1> QED BY <1>1 DEF IsManifest, FileStatuses

(* The manifests that become CONFLICT overlap as before, so that the       *)
(* conflicts just computed are those of the new state as well.             *)
LEMMA RefreshConflictsKeeps ==
  ASSUME DirectoryShape, ScanIsComplete, NEW p \in Scanners, RefreshConflicts(p)
  PROVE  DirectoryShape' /\ ScanIsComplete' /\ Grow
<1> DEFINE Flag == RefreshStatuses(Overlaps)
           new == IF p = Ingestor THEN [IdleScan EXCEPT !.pc = "scanned"] ELSE IdleScan
<1>1. ASSUME NEW f \in Flag
      PROVE  /\ f \in Candidates /\ f \in SourceFiles
             /\ IsManifest(manifests[f]) /\ manifests[f].status = "VALID"
             /\ manifests'[f] = [manifests[f] EXCEPT !.status = "CONFLICT"]
  BY DEF RefreshStatuses, Candidates, DirectoryShape, ManifestsShape, RefreshConflicts
<1>2. ASSUME NEW f \in Flag
      PROVE  /\ IsManifest(manifests'[f])
             /\ manifests'[f].status = "CONFLICT"
             /\ SameFields(f)
  <2>1. /\ IsManifest(manifests'[f])
        /\ manifests'[f].status = "CONFLICT"
        /\ manifests'[f].classes = manifests[f].classes
        /\ manifests'[f].checksum = manifests[f].checksum
    <3> DEFINE m == manifests[f]
               n == manifests'[f]
    <3>1. IsManifest(m) /\ n = [m EXCEPT !.status = "CONFLICT"]
      BY <1>1
    <3> HIDE DEF m, n
    <3>2. /\ IsManifest(n)
          /\ n.status = "CONFLICT" /\ n.classes = m.classes /\ n.checksum = m.checksum
      BY <3>1, ManifestInConflict
    <3> QED BY <3>2 DEF m, n
  <2>2. Scanned(f) /\ Scanned(f)'
    BY <1>1, <2>1, ManifestIsSome DEF Scanned
  <2> QED BY <1>1, <2>1, <2>2 DEF SameFields
<1>3. ASSUME NEW f \in SourceFiles, f \notin Flag
      PROVE  manifests'[f] = manifests[f] /\ SameFields(f)
  <2>1. manifests'[f] = manifests[f]
    BY <1>3 DEF RefreshConflicts
  <2> QED BY <2>1 DEF SameFields, Scanned
<1>4. DOMAIN manifests' = SourceFiles
  BY DEF RefreshConflicts
<1> HIDE DEF Flag
<1>5. ManifestsShape' /\ Grow
  BY <1>2, <1>3, <1>4, ManifestsRewritten DEF DirectoryShape
<1>6. Candidates' = Candidates /\ Overlaps' = Overlaps
  BY <1>2, <1>3, OverlapsFollow DEF RefreshConflicts
<1>7. IsScan(new, Recorded') /\ new.pc \in {"idle", "scanned"}
  <2> DEFINE s == IdleScan
  <2>1. IsScan(s, Recorded')
    BY IdleIsScan
  <2> HIDE DEF s
  <2>2. [s EXCEPT !.pc = "scanned"] = ScanOf("scanned", s.todo, s.manifest, s.rows, s.alone)
    BY <2>1, ScanFields
  <2>3. s.todo \subseteq SourceFiles
    BY <2>1 DEF IsScan
  <2>4. IsScan(ScanOf("scanned", s.todo, s.manifest, s.rows, s.alone), Recorded')
    BY <2>3, ScanIsShaped DEF Under
  <2>5. ScanOf("scanned", s.todo, s.manifest, s.rows, s.alone).pc = "scanned"
    BY DEF ScanOf
  <2>6. IdleScan.pc = "idle"
    BY IdleIsScan
  <2> QED BY <2>1, <2>2, <2>4, <2>5, <2>6 DEF s
<1>8. scans' = [scans EXCEPT ![p] = new] /\ UNCHANGED <<folder, sourceRows, selections>>
  BY DEF RefreshConflicts
<1> HIDE DEF new
<1>9. ScansShape'
  BY <1>5, <1>7, <1>8, OneScanMoves DEF DirectoryShape
<1>10. FoldersShape' /\ RowsShape' /\ selections' \in [Classes -> SourceFiles \cup {Blank}]
  BY <1>5, <1>8 DEF DirectoryShape, FoldersShape, RowsShape, Grow
<1>11. ScanIsComplete'
  <2> SUFFICES ASSUME undisturbed' PROVE ScanIsComplete'
    BY DEF ScanIsComplete
  <2>1. ScanningNow = {p}
    BY DEF RefreshConflicts
  <2>2. ScanningNow' = {}
    <3>1. ASSUME NEW q \in Scanners, q # p
          PROVE  scans'[q].pc \notin {"next", "registered", "read", "written"}
      <4>1. scans'[q] = scans[q] /\ q \notin ScanningNow
        BY <1>8, <2>1, <3>1 DEF DirectoryShape, ScansShape
      <4> QED BY <4>1 DEF ScanningNow
    <3>2. scans'[p].pc \in {"idle", "scanned"}
      BY <1>7, <1>8 DEF DirectoryShape, ScansShape
    <3> QED BY <3>1, <3>2 DEF ScanningNow
  <2>3. conflicts' = Overlaps'
    BY <1>6 DEF RefreshConflicts
  <2>4. ASSUME NEW f \in Candidates', manifests'[f].status = "VALID"
        PROVE  manifests'[f].classes \cap Flagged(conflicts') = {}
    <3>1. f \in Candidates /\ f \in SourceFiles
      BY <1>6 DEF Candidates
    <3>2. f \notin Flag
      BY <1>2, <2>4
    <3>3. manifests'[f] = manifests[f]
      BY <1>3, <3>1, <3>2
    <3>4. manifests[f].classes \cap Flagged(Overlaps) = {}
      BY <2>4, <3>1, <3>2, <3>3 DEF Flag, RefreshStatuses
    <3> QED BY <1>6, <2>3, <3>3, <3>4
  <2>5. Flagged(conflicts)' = Flagged(conflicts')
    BY DEF Flagged
  <2> QED BY <2>2, <2>3, <2>4, <2>5 DEF ScanIsComplete
<1> QED BY <1>5, <1>9, <1>10, <1>11 DEF DirectoryShape

(* The ingest, as far as the directory is concerned: it marks manifests,   *)
(* and the scanner that it began as is none any more.                      *)
LEMMA ManifestsMarked ==
  ASSUME ManifestsShape, DOMAIN manifests' = SourceFiles,
         \A f \in SourceFiles :
           \/ manifests'[f] = manifests[f]
           \/ f \in Recorded /\ \E x : manifests'[f] = [manifests[f] EXCEPT !.ingest = x]
  PROVE  /\ ManifestsShape' /\ Grow /\ Recorded' = Recorded
         /\ \A f \in SourceFiles : SameFields(f) /\ manifests'[f].status = manifests[f].status
<1>1. ASSUME NEW f \in SourceFiles
      PROVE  /\ manifests'[f] = manifests[f] \/ IsManifest(manifests'[f])
             /\ SameFields(f) /\ manifests'[f].status = manifests[f].status
  <2>1. CASE manifests'[f] = manifests[f]
    BY <2>1 DEF SameFields, Scanned
  <2>2. ASSUME f \in Recorded, NEW x, manifests'[f] = [manifests[f] EXCEPT !.ingest = x]
        PROVE  /\ IsManifest(manifests'[f])
               /\ SameFields(f) /\ manifests'[f].status = manifests[f].status
    <3> DEFINE m == manifests[f]
               n == manifests'[f]
    <3>1. IsManifest(m) /\ n = [m EXCEPT !.ingest = x]
      BY <2>2 DEF ManifestsShape, Recorded
    <3> HIDE DEF m, n
    <3>2. /\ IsManifest(n)
          /\ n.status = m.status /\ n.classes = m.classes /\ n.checksum = m.checksum
      BY <3>1, ManifestMarked
    <3>3. m # NoManifest /\ n # NoManifest
      BY <3>1, <3>2, ManifestIsSome
    <3> QED BY <3>2, <3>3 DEF m, n, SameFields, Scanned
  <2> QED BY <2>1, <2>2
<1>2. ManifestsShape' /\ Grow
  BY <1>1, ManifestsRewritten
<1>3. Recorded' = Recorded
  BY <1>1 DEF Recorded, SameFields
<1> QED BY <1>1, <1>2, <1>3

(* The scanner that the ingest began as. *)
LEMMA IngestorMoves ==
  ASSUME ScansShape, Grow, NEW s, scans' = [scans EXCEPT ![Ingestor] = s],
         IsScan(s, Recorded'), s.pc \in {"idle", "ingesting"}
  PROVE  ScansShape' /\ ScanningNow' \subseteq ScanningNow
<1>1. Ingestor \in Scanners
  BY DirectoryAssumption
<1>2. ScansShape'
  BY <1>1, OneScanMoves
<1>3. ASSUME NEW q \in Scanners, scans'[q].pc \in {"next", "registered", "read", "written"}
      PROVE  scans'[q] = scans[q]
  <2>1. scans'[Ingestor] = s
    BY <1>1 DEF ScansShape
  <2>2. q # Ingestor
    BY <1>3, <2>1
  <2> QED BY <2>2 DEF ScansShape
<1> QED BY <1>2, <1>3 DEF ScanningNow

(* Steps that no scan makes. *)
LEMMA AsideOfScans ==
  ASSUME DirectoryShape, ScanIsComplete, ManifestsShape', Grow,
         \A f \in SourceFiles : SameFields(f) /\ manifests'[f].status = manifests[f].status,
         UNCHANGED <<folder, sourceRows, conflicts, selections, undisturbed>>,
         ScansShape', ScanningNow' \subseteq ScanningNow
  PROVE  DirectoryShape' /\ ScanIsComplete' /\ Grow
<1>1. FoldersShape' /\ RowsShape' /\ selections' \in [Classes -> SourceFiles \cup {Blank}]
  BY DEF DirectoryShape, FoldersShape, RowsShape, Grow
<1>2. ScanIsComplete'
  BY NothingScans
<1> QED BY <1>1, <1>2 DEF DirectoryShape

(* What the ingest leaves of the directory when it changes none of it.     *)
LEMMA DirectoryStays ==
  ASSUME DirectoryShape, ScanIsComplete,
         UNCHANGED <<folder, manifests, sourceRows, conflicts, selections, scans, undisturbed>>
  PROVE  DirectoryShape' /\ ScanIsComplete' /\ Grow
<1>1. FoldersShape' /\ selections' \in [Classes -> SourceFiles \cup {Blank}]
  BY DEF DirectoryShape, FoldersShape
<1> QED BY <1>1, PeopleKeep

(* The end of the ingest, in time or not.                                  *)
LEMMA IngestorLeaves ==
  ASSUME DirectoryShape, ScanIsComplete, scans' = [scans EXCEPT ![Ingestor] = IdleScan],
         UNCHANGED <<folder, manifests, sourceRows, conflicts, selections, undisturbed>>
  PROVE  DirectoryShape' /\ ScanIsComplete' /\ Grow
<1>1. ManifestsShape' /\ Grow
  BY ManifestsStay DEF DirectoryShape
<1>2. \A f \in SourceFiles : SameFields(f) /\ manifests'[f].status = manifests[f].status
  BY DEF SameFields, Scanned
<1>3. ScansShape' /\ ScanningNow' \subseteq ScanningNow
  BY <1>1, IdleIsScan, IngestorMoves DEF DirectoryShape
<1> QED BY <1>1, <1>2, <1>3, AsideOfScans

(* The ingest marks manifests.                                             *)
LEMMA MarkingKeeps ==
  ASSUME DirectoryShape, ScanIsComplete, DOMAIN manifests' = SourceFiles,
         \A f \in SourceFiles :
           \/ manifests'[f] = manifests[f]
           \/ f \in Recorded /\ \E x : manifests'[f] = [manifests[f] EXCEPT !.ingest = x],
         UNCHANGED <<folder, sourceRows, conflicts, selections, scans, undisturbed>>
  PROVE  DirectoryShape' /\ ScanIsComplete' /\ Grow
<1>1. /\ ManifestsShape' /\ Grow /\ Recorded' = Recorded
      /\ \A f \in SourceFiles : SameFields(f) /\ manifests'[f].status = manifests[f].status
  BY ManifestsMarked DEF DirectoryShape
<1>2. ScansShape' /\ ScanningNow' \subseteq ScanningNow
  BY <1>1, ScansStay DEF DirectoryShape, ScanningNow
<1> QED BY <1>1, <1>2, AsideOfScans

(* Every step of the ingest leaves the directory as its invariant says. *)
LEMMA IngestKeepsDirectory ==
  ASSUME DirectoryShape, ScanIsComplete, IsIngest,
         \/ LoadManifests \/ IngestWorkbook \/ StartExams \/ DigestExam \/ OpenExam
         \/ ParseExam \/ RetireRows \/ WriteResult \/ FinishExam \/ MarkExams \/ CrashIngest
         \/ IngestPhotos \/ \E s \in Students : ChangeStudents(s)
  PROVE  DirectoryShape' /\ ScanIsComplete' /\ Grow
<1>1. CASE LoadManifests
  <2> DEFINE s == scans[Ingestor]
             new == [s EXCEPT !.pc = "ingesting"]
  <2>1. ManifestsShape' /\ Grow /\ Recorded' = Recorded
    BY <1>1, ManifestsStay DEF DirectoryShape, LoadManifests
  <2>2. IsScan(s, Recorded)
    BY DirectoryAssumption DEF DirectoryShape, ScansShape
  <2>3. scans' = [scans EXCEPT ![Ingestor] = new]
    BY <1>1 DEF LoadManifests
  <2>4. IsScan(new, Recorded') /\ new.pc = "ingesting"
    <3> HIDE DEF s
    <3>1. new = ScanOf("ingesting", s.todo, s.manifest, s.rows, s.alone)
      BY <2>2, ScanFields
    <3>2. s.todo \subseteq SourceFiles
      BY <2>2 DEF IsScan
    <3>3. IsScan(ScanOf("ingesting", s.todo, s.manifest, s.rows, s.alone), Recorded')
      BY <3>2, ScanIsShaped DEF Under
    <3>4. ScanOf("ingesting", s.todo, s.manifest, s.rows, s.alone).pc = "ingesting"
      BY DEF ScanOf
    <3> QED BY <3>1, <3>3, <3>4
  <2> HIDE DEF new
  <2>5. ScansShape' /\ ScanningNow' \subseteq ScanningNow
    BY <2>1, <2>3, <2>4, IngestorMoves DEF DirectoryShape
  <2>6. \A f \in SourceFiles : SameFields(f) /\ manifests'[f].status = manifests[f].status
    BY <1>1 DEF SameFields, Scanned, LoadManifests
  <2> QED BY <1>1, <2>1, <2>5, <2>6, AsideOfScans DEF LoadManifests
<1>2. CASE IngestWorkbook
  <2> DEFINE f == FirstFile(ingest.todo)
             outcome == IF folder[f] = Blank THEN "FAILED" ELSE folder[f].outcome
  <2>1. \/ manifests' = manifests
        \/ f \in DOMAIN ingest.manifests
             /\ manifests' = [manifests EXCEPT ![f] = [@ EXCEPT !.ingest = outcome]]
    BY <1>2 DEF IngestWorkbook
  <2> HIDE DEF f, outcome
  <2>2. f \in DOMAIN ingest.manifests => f \in Recorded
    BY DEF IsIngest
  <2>3. /\ DOMAIN manifests' = SourceFiles
        /\ \A g \in SourceFiles :
             \/ manifests'[g] = manifests[g]
             \/ g \in Recorded /\ \E x : manifests'[g] = [manifests[g] EXCEPT !.ingest = x]
    BY <2>1, <2>2 DEF DirectoryShape, ManifestsShape
  <2> QED BY <1>2, <2>3, MarkingKeeps DEF IngestWorkbook
<1>3. CASE MarkExams
  <2>1. /\ DOMAIN manifests' = SourceFiles
        /\ \A g \in SourceFiles :
             \/ manifests'[g] = manifests[g]
             \/ g \in Recorded /\ \E x : manifests'[g] = [manifests[g] EXCEPT !.ingest = x]
    BY <1>3 DEF MarkExams, IsIngest
  <2> QED BY <1>3, <2>1, MarkingKeeps DEF MarkExams
<1>4. CASE EndIngest /\ UNCHANGED <<folder, manifests, sourceRows, conflicts, selections,
                                    undisturbed>>
  BY <1>4, IngestorLeaves DEF EndIngest
<1>5. CASE StartExams \/ OpenExam \/ ParseExam \/ RetireRows \/ WriteResult \/ FinishExam
  BY <1>5, DirectoryStays
     DEF StartExams, OpenExam, ParseExam, RetireRows, WriteResult, FinishExam, dirVars
<1>6. CASE DigestExam
  <2>1. CASE UNCHANGED scans
    BY <1>6, <2>1, DirectoryStays DEF DigestExam
  <2>2. CASE EndIngest
    BY <1>4, <1>6, <2>2 DEF DigestExam
  <2> QED BY <1>6, <2>1, <2>2 DEF DigestExam
<1>7. CASE CrashIngest
  BY <1>4, <1>7 DEF CrashIngest
<1>8. CASE IngestPhotos
  BY <1>8, IngestorLeaves DEF IngestPhotos
<1>9. CASE \E s \in Students : ChangeStudents(s)
  BY <1>9, DirectoryStays DEF ChangeStudents
<1> QED BY <1>1, <1>2, <1>3, <1>5, <1>6, <1>7, <1>8, <1>9

-----------------------------------------------------------------------------
(* The exams. *)
LEMMA NoteStays ==
  ASSUME NEW n, NoteIsTrue(n), Live(n.file)' = Live(n.file), torn \subseteq torn',
         ingest'.known = ingest.known, ingest'.manifests = ingest.manifests
  PROVE  NoteIsTrue(n)'
BY DEF NoteIsTrue, Made

(* What a row comes from is asked of files that are not torn only. *)
LEMMA ResultRemains ==
  ASSUME NEW r, IsResult(r), torn \subseteq torn'
  PROVE  IsResult(r)'
<1>1. <<r.file, r.checksum>> \notin torn' => <<r.file, r.checksum>> \notin torn
  OBVIOUS
<1> QED BY <1>1 DEF IsResult

(* What is so of the results alone, and what the notes depend on. *)
LEMMA ResultsStay ==
  ASSUME ResultsShape, ResultsAreKeyed, LiveRowsAgree, UNCHANGED results, torn \subseteq torn'
  PROVE  /\ ResultsShape' /\ ResultsAreKeyed' /\ LiveRowsAgree'
         /\ \A f : Live(f)' = Live(f)
<1>1. ResultsShape'
  BY ResultRemains DEF ResultsShape
<1>2. ResultsAreKeyed'
  BY DEF ResultsAreKeyed
<1>3. LiveRowsAgree'
  BY DEF LiveRowsAgree
<1>4. \A f : Live(f)' = Live(f)
  BY DEF Live
<1> QED BY <1>1, <1>2, <1>3, <1>4

(* Whatever leaves the ingest and the results alone. *)
LEMMA ExamsStay ==
  ASSUME ExamInv, Grow, UNCHANGED <<results, ingest, torn>>
  PROVE  ExamInv'
<1>1. /\ ResultsShape' /\ ResultsAreKeyed' /\ LiveRowsAgree'
      /\ \A f : Live(f)' = Live(f)
  BY ResultsStay DEF ExamInv
<1>2. IsIngest'
  BY DEF ExamInv, IsIngest, RowsOfChecksum, Grow
<1>3. Writing'
  BY <1>1 DEF ExamInv, Writing, Made
<1>4. Noted'
  BY <1>1, NoteStays DEF ExamInv, Noted
<1> QED BY <1>1, <1>2, <1>3, <1>4 DEF ExamInv

(* Steps between the files: the summary stays as it is, and what is left   *)
(* to do holds no file that it speaks of.                                  *)
LEMMA BetweenFiles ==
  ASSUME ExamInv, Grow, UNCHANGED results, torn \subseteq torn', IsIngest',
         ingest'.pc # "writing",
         \/ ingest'.summary = {}
         \/ /\ ingest'.summary = ingest.summary /\ ingest'.todo \subseteq ingest.todo
            /\ ingest'.known = ingest.known /\ ingest'.manifests = ingest.manifests
  PROVE  ExamInv'
<1>1. /\ ResultsShape' /\ ResultsAreKeyed' /\ LiveRowsAgree'
      /\ \A f : Live(f)' = Live(f)
  BY ResultsStay DEF ExamInv
<1>2. Writing'
  BY DEF Writing
<1>3. Noted'
  <2>1. CASE ingest'.summary = {}
    BY <2>1 DEF Noted
  <2>2. CASE /\ ingest'.summary = ingest.summary /\ ingest'.todo \subseteq ingest.todo
             /\ ingest'.known = ingest.known /\ ingest'.manifests = ingest.manifests
    BY <1>1, <2>2, NoteStays DEF ExamInv, Noted
  <2> QED BY <2>1, <2>2
<1> QED BY <1>1, <1>2, <1>3 DEF ExamInv

(* The steps of the ingest that write no result. *)
LEMMA EndIngestKeeps ==
  ASSUME ExamInv, Grow, UNCHANGED <<results, torn>>, ingest' = IdleIngest
  PROVE  ExamInv'
<1>1. /\ DOMAIN ingest' = IngestFields
      /\ ingest'.pc = "idle" /\ ingest'.todo = {} /\ DOMAIN ingest'.manifests = {}
      /\ ingest'.summary = {}
  BY DEF IdleIngest, IngestFields
<1>2. IsIngest'
  BY <1>1 DEF IsIngest
<1> QED BY <1>1, <1>2, BetweenFiles

LEMMA LoadManifestsKeeps ==
  ASSUME ExamInv, Grow, Recorded' = Recorded, LoadManifests
  PROVE  ExamInv'
<1>1. /\ DOMAIN ingest' = IngestFields
      /\ ingest'.pc = "workbooks" /\ ingest'.todo \subseteq SourceFiles
      /\ DOMAIN ingest'.manifests = Recorded
      /\ ingest'.summary = {}
  BY DEF IdleIngest, IngestFields, LoadManifests, Recorded
<1>2. IsIngest'
  BY <1>1 DEF IsIngest
<1> QED BY <1>1, <1>2, BetweenFiles DEF LoadManifests

LEMMA IngestWorkbookKeeps ==
  ASSUME ExamInv, Grow, IngestWorkbook
  PROVE  ExamInv'
<1>1. IsIngest
  BY DEF ExamInv
<1>2. /\ DOMAIN ingest' = IngestFields
      /\ ingest'.pc = "workbooks" /\ ingest'.todo \subseteq ingest.todo
      /\ ingest'.manifests = ingest.manifests
      /\ ingest'.summary = {}
  BY <1>1 DEF IngestWorkbook, IsIngest, IngestFields
<1>3. IsIngest'
  BY <1>1, <1>2 DEF IsIngest, Grow
<1> QED BY <1>2, <1>3, BetweenFiles DEF IngestWorkbook

LEMMA StartExamsKeeps ==
  ASSUME ExamInv, Grow, StartExams
  PROVE  ExamInv'
<1>1. IsIngest
  BY DEF ExamInv
<1>2. /\ DOMAIN ingest' = IngestFields
      /\ ingest'.pc = "exams" /\ ingest'.todo \subseteq SourceFiles
      /\ ingest'.manifests = ingest.manifests
      /\ ingest'.summary = {}
  BY <1>1 DEF StartExams, IsIngest, IngestFields
<1>3. IsIngest'
  BY <1>1, <1>2 DEF IsIngest, Grow
<1> QED BY <1>2, <1>3, BetweenFiles DEF StartExams

LEMMA MarkExamsKeeps ==
  ASSUME ExamInv, Grow, MarkExams
  PROVE  ExamInv'
<1>1. IsIngest
  BY DEF ExamInv
<1>2. /\ DOMAIN ingest' = IngestFields
      /\ ingest'.pc = "photos" /\ ingest'.todo = ingest.todo
      /\ ingest'.manifests = ingest.manifests /\ ingest'.known = ingest.known
      /\ ingest'.summary = ingest.summary
  BY <1>1 DEF MarkExams, IsIngest, IngestFields
<1>3. IsIngest'
  BY <1>1, <1>2 DEF IsIngest, Grow
<1> QED BY <1>2, <1>3, BetweenFiles DEF MarkExams

LEMMA IngestPhotosKeeps ==
  ASSUME ExamInv, Grow, IngestPhotos
  PROVE  ExamInv'
<1>1. IsIngest
  BY DEF ExamInv
<1>2. /\ DOMAIN ingest' = IngestFields
      /\ ingest'.pc = "done" /\ ingest'.todo = ingest.todo
      /\ ingest'.manifests = ingest.manifests /\ ingest'.known = ingest.known
      /\ ingest'.summary = ingest.summary
  BY <1>1 DEF IngestPhotos, IsIngest, IngestFields
<1>3. IsIngest'
  BY <1>1, <1>2 DEF IsIngest, Grow
<1> QED BY <1>2, <1>3, BetweenFiles DEF IngestPhotos

(* A file is done with: its note is true and the others stay so.           *)
LEMMA FileNoted ==
  ASSUME ExamInv, Grow, UNCHANGED <<results, torn>>, IsIngest', ingest'.pc = "exams",
         ingest.todo # {}, NEW note,
         ingest'.todo = ingest.todo \ {FirstFile(ingest.todo)},
         ingest'.summary = ingest.summary \cup {note},
         note.file = FirstFile(ingest.todo), NoteIsTrue(note),
         ingest'.known = ingest.known, ingest'.manifests = ingest.manifests
  PROVE  ExamInv'
<1>1. /\ ResultsShape' /\ ResultsAreKeyed' /\ LiveRowsAgree'
      /\ \A f : Live(f)' = Live(f)
  BY ResultsStay DEF ExamInv
<1>2. Writing'
  BY DEF Writing
<1>3. note.file \in SourceFiles
  BY FirstIsMember DEF ExamInv, IsIngest
<1>4. ASSUME NEW n \in ingest'.summary
      PROVE  n.file \in SourceFiles \ ingest'.todo /\ NoteIsTrue(n)
  BY <1>3 DEF ExamInv, Noted
<1>5. Noted'
  BY <1>1, <1>4, NoteStays DEF Noted
<1> QED BY <1>1, <1>2, <1>5 DEF ExamInv

(* A file that cannot be read is noted, and nothing is said of it.         *)
LEMMA SkipExamKeeps ==
  ASSUME ExamInv, Grow, UNCHANGED <<results, torn>>, ingest.todo # {}, SkipExam
  PROVE  ExamInv'
<1> DEFINE f == FirstFile(ingest.todo)
           note == [file |-> f, checksum |-> ingest.checksum, read |-> FALSE,
                    status |-> "PARTIAL"]
<1>1. IsIngest
  BY DEF ExamInv
<1>2. NoteFile(FALSE, "PARTIAL") = ingest.summary \cup {note} /\ note.file = f /\ ~note.read
  BY DEF NoteFile
<1> HIDE DEF note
<1>3. /\ DOMAIN ingest' = IngestFields
      /\ ingest'.pc = "exams" /\ ingest'.todo = ingest.todo \ {f}
      /\ ingest'.manifests = ingest.manifests /\ ingest'.known = ingest.known
      /\ ingest'.summary = ingest.summary \cup {note}
  BY <1>1, <1>2 DEF IsIngest, IngestFields, SkipExam
<1>4. IsIngest'
  BY <1>1, <1>3 DEF IsIngest, Grow
<1>5. NoteIsTrue(note)
  BY <1>2 DEF NoteIsTrue
<1> QED BY <1>2, <1>3, <1>4, <1>5, FileNoted

LEMMA DigestExamKeeps ==
  ASSUME ExamInv, Grow, DigestExam
  PROVE  ExamInv'
<1> DEFINE content == folder[FirstFile(ingest.todo)]
<1>1. IsIngest /\ ingest.todo # {}
  BY DEF ExamInv, DigestExam
<1>2. CASE content = Blank
  BY <1>2, EndIngestKeeps DEF DigestExam, EndIngest
<1>3. CASE content # Blank
  <2>1. ingest' = [ingest EXCEPT !.pc = "digested", !.checksum = content.checksum]
    BY <1>3 DEF DigestExam
  <2> HIDE DEF content
  <2>2. /\ DOMAIN ingest' = IngestFields
        /\ ingest'.pc = "digested" /\ ingest'.todo = ingest.todo
        /\ ingest'.manifests = ingest.manifests /\ ingest'.known = ingest.known
        /\ ingest'.summary = ingest.summary
    BY <1>1, <2>1 DEF IsIngest, IngestFields
  <2>3. IsIngest'
    BY <1>1, <2>2 DEF IsIngest, Grow
  <2> QED BY <2>2, <2>3, BetweenFiles DEF DigestExam
<1> QED BY <1>2, <1>3

LEMMA OpenExamKeeps ==
  ASSUME DirectoryShape, ExamInv, Grow, OpenExam
  PROVE  ExamInv'
<1> DEFINE f == FirstFile(ingest.todo)
           content == folder[f]
<1>1. IsIngest /\ ingest.todo # {} /\ f \in SourceFiles
  BY FirstIsMember DEF ExamInv, IsIngest, OpenExam
<1>2. CASE Unreadable(content)
  BY <1>1, <1>2, SkipExamKeeps DEF OpenExam
<1>3. CASE ~Unreadable(content)
  <2>1. content \in Contents[f]
    BY <1>1, <1>3 DEF DirectoryShape, FoldersShape, Unreadable
  <2>2. ingest' = [ingest EXCEPT !.pc = "opened", !.content = content]
    BY <1>3 DEF OpenExam
  <2> HIDE DEF content
  <2>3. /\ DOMAIN ingest' = IngestFields
        /\ ingest'.pc = "opened" /\ ingest'.todo = ingest.todo /\ ingest'.content = content
        /\ ingest'.manifests = ingest.manifests /\ ingest'.known = ingest.known
        /\ ingest'.summary = ingest.summary
    BY <1>1, <2>2 DEF IsIngest, IngestFields
  <2>4. IsIngest'
    BY <1>1, <2>1, <2>3 DEF IsIngest, Grow
  <2> QED BY <2>3, <2>4, BetweenFiles DEF OpenExam
<1> QED BY <1>2, <1>3

(* A workbook read twice alike yields its own rows: each row has itself in
   its place, and its cells are those of both readings. *)
LEMMA AlikeRowsAreOwn ==
  ASSUME NEW f \in SourceFiles, NEW c \in Contents[f]
  PROVE  ExamRowsOf(c, c) = c.exam
<1>1. /\ c.exam \in Seq(ExamRows)
      /\ \A i, j \in DOMAIN c.exam : c.exam[i].row = c.exam[j].row => i = j
  BY ExamAssumption
<1>2. \A i \in DOMAIN c.exam : c.exam[i] \in ExamRows
  BY <1>1
<1>3. c.exam = [i \in DOMAIN c.exam |-> c.exam[i]]
  BY <1>1
<1>4. ASSUME NEW row \in ExamRows PROVE WithValues(row, row) = row
  <2>1. row.cells = [d \in DecimalFields \cup IntegerFields |-> row.cells[d]]
    BY DEF ExamRows
  <2>2. row = [row |-> row.row, id |-> row.id, grade |-> row.grade, cells |-> row.cells]
    BY DEF ExamRows
  <2>3. WithValues(row, row) =
          [row |-> row.row, id |-> row.id, grade |-> row.grade,
           cells |-> [d \in DecimalFields \cup IntegerFields |-> row.cells[d]]]
    BY DEF WithValues
  <2> QED BY <2>1, <2>2, <2>3
<1>5. ASSUME NEW i \in DOMAIN c.exam PROVE InPlaceOf(c.exam[i], c) = {c.exam[i]}
  BY <1>1 DEF InPlaceOf, Range
<1>6. ASSUME NEW i \in DOMAIN c.exam
      PROVE  WithValues(c.exam[i], CHOOSE other \in InPlaceOf(c.exam[i], c) : TRUE) = c.exam[i]
  <2>1. (CHOOSE other \in {c.exam[i]} : TRUE) = c.exam[i]
    OBVIOUS
  <2> QED BY <1>2, <1>4, <1>5, <2>1
<1>7. ExamRowsOf(c, c) = [i \in DOMAIN c.exam |-> c.exam[i]]
  BY <1>5, <1>6 DEF ExamRowsOf
<1> QED BY <1>3, <1>7

(* What is parsed are the rows of the checksum's own content, or the file  *)
(* is torn from here on.                                                   *)
LEMMA ParseExamKeeps ==
  ASSUME ExamInv, Grow, ParseExam
  PROVE  ExamInv'
<1> DEFINE f == FirstFile(ingest.todo)
           raw == ingest.content
           evaluated == folder[f]
<1>1. IsIngest /\ ingest.todo # {} /\ f \in SourceFiles /\ raw \in Contents[f]
  BY FirstIsMember DEF ExamInv, IsIngest, ParseExam
<1>2. CASE SkipExam /\ UNCHANGED torn
  BY <1>1, <1>2, SkipExamKeeps DEF ParseExam
<1>3. CASE /\ ingest' = [ingest EXCEPT !.pc = "parsed", !.rows = ExamRowsOf(raw, evaluated),
                                       !.next = 1]
           /\ torn' = IF raw.checksum = ingest.checksum /\ evaluated = raw THEN torn
                      ELSE torn \cup {<<f, ingest.checksum>>}
  <2> DEFINE rows == ExamRowsOf(raw, evaluated)
  <2>1. evaluated = raw => rows = raw.exam
    BY <1>1, AlikeRowsAreOwn
  <2> HIDE DEF f, raw, evaluated, rows
  <2>2. /\ DOMAIN ingest' = IngestFields
        /\ ingest'.pc = "parsed" /\ ingest'.todo = ingest.todo
        /\ ingest'.checksum = ingest.checksum /\ ingest'.rows = rows /\ ingest'.next = 1
        /\ ingest'.manifests = ingest.manifests /\ ingest'.known = ingest.known
        /\ ingest'.summary = ingest.summary
    BY <1>1, <1>3 DEF IsIngest, IngestFields, rows
  <2>3. RowsOfChecksum(FirstFile(ingest.todo), ingest.checksum, ingest.rows)'
    <3> SUFFICES ASSUME <<f, ingest.checksum>> \notin torn'
                 PROVE  \E content \in Contents[f] :
                          content.checksum = ingest.checksum /\ rows = content.exam
      BY <2>2 DEF RowsOfChecksum, f
    <3>1. raw.checksum = ingest.checksum /\ evaluated = raw
      BY <1>3
    <3> QED BY <1>1, <2>1, <3>1
  <2>4. IsIngest'
    BY <1>1, <2>2, <2>3 DEF IsIngest, Grow
  <2>5. torn \subseteq torn'
    BY <1>3
  <2> QED BY <2>2, <2>4, <2>5, BetweenFiles DEF ParseExam
<1> QED BY <1>2, <1>3 DEF ParseExam

(* Retiring a row changes that it is live, and nothing else. *)
LEMMA Retired ==
  ASSUME NEW r, IsResult(r), NEW x, x = [r EXCEPT !.live = FALSE]
  PROVE  /\ IsResult(x) /\ x.live = FALSE
         /\ x.file = r.file /\ x.checksum = r.checksum /\ x.row = r.row
<1>1. /\ DOMAIN x = DOMAIN r /\ x.live = FALSE
      /\ x.file = r.file /\ x.checksum = r.checksum /\ x.row = r.row
  BY DEF IsResult
<1> QED BY <1>1 DEF IsResult

(* Afterwards only rows of the checksum that is written are live. *)
LEMMA RetireRowsKeeps ==
  ASSUME ExamInv, Grow, RetireRows
  PROVE  ExamInv'
<1> DEFINE f == FirstFile(ingest.todo)
           k == ingest.checksum
           Old(r) == r.file = f /\ r.checksum # k
<1>1. /\ IsIngest /\ ResultsShape /\ ResultsAreKeyed /\ LiveRowsAgree /\ Noted
      /\ ingest.pc = "parsed" /\ f \in ingest.todo /\ ingest.next = 1
      /\ RowsOfChecksum(f, k, ingest.rows) /\ f \in SourceFiles
  BY FirstIsMember DEF ExamInv, IsIngest, RetireRows
<1>2. /\ DOMAIN ingest' = IngestFields
      /\ ingest'.pc = "writing" /\ ingest'.todo = ingest.todo
      /\ ingest'.checksum = ingest.checksum /\ ingest'.rows = ingest.rows /\ ingest'.next = 1
      /\ ingest'.manifests = ingest.manifests /\ ingest'.known = ingest.known
      /\ ingest'.summary = ingest.summary
  BY <1>1 DEF IsIngest, IngestFields, RetireRows
<1>14. UNCHANGED torn
  BY DEF RetireRows
<1>3. IsIngest'
  BY <1>1, <1>2, <1>14 DEF IsIngest, RowsOfChecksum, Grow
<1>4. results' = {IF Old(r) THEN [r EXCEPT !.live = FALSE] ELSE r : r \in results}
  BY DEF RetireRows, Retire
<1>15. f' = f /\ k' = k
  BY <1>2
<1> HIDE DEF f, k
<1>5. ASSUME NEW x \in results'
      PROVE  \E r \in results :
               /\ x.file = r.file /\ x.checksum = r.checksum /\ x.row = r.row
               /\ IsResult(x)
               /\ \/ ~Old(r) /\ x = r
                  \/ Old(r) /\ x = [r EXCEPT !.live = FALSE] /\ x.live = FALSE
  <2>1. PICK r \in results : x = IF Old(r) THEN [r EXCEPT !.live = FALSE] ELSE r
    BY <1>4
  <2>2. IsResult(r)
    BY <1>1 DEF ResultsShape
  <2>3. CASE Old(r)
    BY <2>1, <2>2, <2>3, Retired
  <2>4. CASE ~Old(r)
    BY <2>1, <2>2, <2>4
  <2> QED BY <2>3, <2>4
<1>6. ResultsShape'
  BY <1>5, <1>14, ResultRemains DEF ResultsShape
<1>7. ASSUME NEW x \in results', x.live
      PROVE  x \in results /\ ~Old(x)
  BY <1>5, <1>7
<1>8. LiveRowsAgree'
  BY <1>1, <1>7 DEF LiveRowsAgree
<1>9. ResultsAreKeyed'
  <2> SUFFICES ASSUME NEW x \in results', NEW y \in results', SameKey(x, y)
               PROVE  x = y
    BY DEF ResultsAreKeyed
  <2>1. PICK r \in results :
          /\ x.file = r.file /\ x.checksum = r.checksum /\ x.row = r.row
          /\ \/ ~Old(r) /\ x = r
             \/ Old(r) /\ x = [r EXCEPT !.live = FALSE]
    BY <1>5
  <2>2. PICK q \in results :
          /\ y.file = q.file /\ y.checksum = q.checksum /\ y.row = q.row
          /\ \/ ~Old(q) /\ y = q
             \/ Old(q) /\ y = [q EXCEPT !.live = FALSE]
    BY <1>5
  <2>3. SameKey(r, q)
    BY <2>1, <2>2 DEF SameKey
  <2>4. r = q
    BY <1>1, <2>3 DEF ResultsAreKeyed
  <2> HIDE DEF Old
  <2> QED BY <2>1, <2>2, <2>4
<1>10. ASSUME NEW g, g # f PROVE Live(g)' = Live(g)
  <2>1. \A r \in results : r.file = g => r \in results'
    BY <1>4, <1>10
  <2> QED BY <1>7, <2>1 DEF Live
<1>11. Noted'
  <2> SUFFICES ASSUME NEW n \in ingest.summary
               PROVE  n.file \in SourceFiles \ ingest.todo /\ NoteIsTrue(n)'
    BY <1>2 DEF Noted
  <2>1. n.file \in SourceFiles \ ingest.todo /\ NoteIsTrue(n)
    BY <1>1 DEF Noted
  <2> QED BY <1>1, <1>2, <1>10, <1>14, <2>1, NoteStays
<1>12. Writing'
  <2>1. \A r \in Live(f)' : r.checksum = k
    BY <1>7, <1>15 DEF Live
  <2>2. ASSUME <<f, k>> \notin torn PROVE \A i \in DOMAIN ingest.rows : ~(i < 1)
    <3>1. PICK content \in Contents[f] : ingest.rows = content.exam
      BY <1>1, <2>2 DEF RowsOfChecksum
    <3>2. ingest.rows \in Seq(ExamRows)
      BY <1>1, <3>1, ExamAssumption
    <3> QED BY <3>2
  <2> QED BY <1>2, <1>14, <1>15, <2>1, <2>2 DEF Writing, f, k
<1> QED BY <1>3, <1>6, <1>8, <1>9, <1>11, <1>12 DEF ExamInv

(* What a row is keyed by. *)
LEMMA ResultFields ==
  ASSUME NEW f, NEW checksum, NEW row, NEW students, NEW recorded
  PROVE  LET new == Result(f, checksum, row, students, recorded)
         IN  /\ DOMAIN new = {"file", "checksum", "row", "student", "grade", "status",
                              "linked", "live"}
             /\ new.file = f /\ new.checksum = checksum /\ new.row = row.row
             /\ new.live
BY DEF Result

(* The row that is written replaces the one of its key and no other, since
   no two rows of a workbook have the same number. *)
LEMMA WriteResultKeeps ==
  ASSUME ExamInv, Grow, WriteResult
  PROVE  ExamInv'
<1> DEFINE f == FirstFile(ingest.todo)
           k == ingest.checksum
           rows == ingest.rows
           i == ingest.next
           new == Result(f, k, rows[i], ingest.known, ingest.manifests)
<1>1. /\ IsIngest /\ ResultsShape /\ ResultsAreKeyed /\ LiveRowsAgree /\ Noted /\ Writing
      /\ ingest.pc = "writing" /\ f \in ingest.todo /\ i \in Nat \ {0} /\ i \in DOMAIN rows
      /\ RowsOfChecksum(f, k, rows) /\ f \in SourceFiles
  BY FirstIsMember DEF ExamInv, IsIngest, WriteResult
<1>2. /\ DOMAIN ingest' = IngestFields
      /\ ingest'.pc = "writing" /\ ingest'.todo = ingest.todo
      /\ ingest'.checksum = k /\ ingest'.rows = rows /\ ingest'.next = i + 1
      /\ ingest'.manifests = ingest.manifests /\ ingest'.known = ingest.known
      /\ ingest'.summary = ingest.summary
  BY <1>1 DEF IsIngest, IngestFields, WriteResult
<1>14. UNCHANGED torn
  BY DEF WriteResult
<1>3. IsIngest'
  BY <1>1, <1>2, <1>14 DEF IsIngest, RowsOfChecksum, Grow
<1>4. ASSUME <<f, k>> \notin torn
      PROVE  /\ DOMAIN rows \subseteq Nat
             /\ \A j \in DOMAIN rows : rows[j].row = rows[i].row => j = i
             /\ \E content \in Contents[f] : content.checksum = k /\ rows = content.exam
  <2>1. PICK content \in Contents[f] : content.checksum = k /\ rows = content.exam
    BY <1>1, <1>4 DEF RowsOfChecksum
  <2>2. /\ rows \in Seq(ExamRows)
        /\ \A j, l \in DOMAIN rows : rows[j].row = rows[l].row => j = l
    BY <1>1, <2>1, ExamAssumption
  <2> QED BY <1>1, <2>1, <2>2
<1>5. /\ DOMAIN new = {"file", "checksum", "row", "student", "grade", "status", "linked", "live"}
      /\ new.file = f /\ new.checksum = k /\ new.row = rows[i].row /\ new.live
  BY ResultFields
<1>6. results' = IF TooWide(rows[i]) THEN results
                 ELSE {r \in results : ~SameKey(r, new)} \cup {new}
  BY DEF WriteResult
<1>7. /\ \A r \in Live(f) : r.checksum = k
      /\ <<f, k>> \notin torn =>
           \A j \in DOMAIN rows : j < i /\ ~TooWide(rows[j]) => Made(f, k, rows[j]) \in results
  BY <1>1 DEF Writing
<1>15. f' = f /\ k' = k /\ rows' = rows
  BY <1>2
<1>8. \A row : Made(f, k, row)' = Made(f', k', row)
  BY <1>2 DEF Made
<1>9. Made(f, k, rows[i]) = new
  BY DEF Made
<1> HIDE DEF f, k, rows, i, new
<1>16. \A row : Made(f, k, row)' = Made(f, k, row)
  BY <1>8, <1>15
<1>10. CASE TooWide(rows[i])
  <2>1. /\ ResultsShape' /\ ResultsAreKeyed' /\ LiveRowsAgree'
        /\ \A g : Live(g)' = Live(g)
    BY <1>1, <1>6, <1>10, <1>14, ResultsStay
  <2>2. Noted'
    BY <1>1, <1>2, <1>14, <2>1, NoteStays DEF Noted
  <2>3. ASSUME <<f, k>> \notin torn, NEW j \in DOMAIN rows, j < i + 1, ~TooWide(rows[j])
        PROVE  Made(f, k, rows[j]) \in results'
    <3>1. j # i /\ j \in Nat
      BY <1>4, <1>10, <2>3
    <3>2. j < i
      BY <1>1, <2>3, <3>1
    <3> QED BY <1>6, <1>7, <1>10, <2>3, <3>2
  <2>4. Writing'
    BY <1>2, <1>7, <1>14, <1>15, <1>16, <2>1, <2>3 DEF Writing, f, k, rows
  <2> QED BY <1>3, <2>1, <2>2, <2>4 DEF ExamInv
<1>11. CASE ~TooWide(rows[i])
  <2>1. results' = {r \in results : ~SameKey(r, new)} \cup {new}
    BY <1>6, <1>11
  <2>2. IsResult(new)
    <3>1. ASSUME <<f, k>> \notin torn
          PROVE  \E content \in Contents[f] : \E j \in DOMAIN content.exam :
                   /\ content.checksum = k
                   /\ content.exam[j].row = rows[i].row
                   /\ ~TooWide(content.exam[j])
      BY <1>1, <1>4, <1>11, <3>1
    <3> QED BY <1>1, <1>5, <3>1 DEF IsResult
  <2>3. ResultsShape'
    <3>1. \A r \in results' : IsResult(r)
      BY <1>1, <2>1, <2>2 DEF ResultsShape
    <3> QED BY <1>14, <3>1, ResultRemains DEF ResultsShape
  <2>4. ResultsAreKeyed'
    BY <1>1, <2>1 DEF ResultsAreKeyed, SameKey
  <2>5. LiveRowsAgree'
    BY <1>1, <1>5, <1>7, <2>1 DEF LiveRowsAgree, Live
  <2>6. ASSUME NEW g, g # f PROVE Live(g)' = Live(g)
    BY <1>5, <2>1, <2>6 DEF Live, SameKey
  <2>7. Noted'
    <3> SUFFICES ASSUME NEW n \in ingest.summary
                 PROVE  n.file \in SourceFiles \ ingest.todo /\ NoteIsTrue(n)'
      BY <1>2 DEF Noted
    <3>1. n.file \in SourceFiles \ ingest.todo /\ NoteIsTrue(n)
      BY <1>1 DEF Noted
    <3> QED BY <1>1, <1>2, <1>14, <2>6, <3>1, NoteStays
  <2>8. ASSUME <<f, k>> \notin torn, NEW j \in DOMAIN rows, j < i + 1, ~TooWide(rows[j])
        PROVE  Made(f, k, rows[j]) \in results'
    <3>1. CASE j = i
      BY <1>9, <2>1, <3>1
    <3>2. CASE j # i
      <4>1. j < i
        BY <1>1, <1>4, <2>8, <3>2
      <4>2. Made(f, k, rows[j]) \in results
        BY <1>7, <2>8, <4>1
      <4>3. rows[j].row # rows[i].row
        BY <1>4, <2>8, <3>2
      <4>4. Made(f, k, rows[j]).row = rows[j].row
        BY ResultFields DEF Made
      <4>5. ~SameKey(Made(f, k, rows[j]), new)
        BY <1>5, <4>3, <4>4 DEF SameKey
      <4> QED BY <2>1, <4>2, <4>5
    <3> QED BY <3>1, <3>2
  <2>9. \A r \in Live(f)' : r.checksum = k
    BY <1>5, <1>7, <1>15, <2>1 DEF Live
  <2>10. Writing'
    BY <1>2, <1>14, <1>15, <1>16, <2>8, <2>9 DEF Writing, f, k, rows
  <2> QED BY <1>3, <2>3, <2>4, <2>5, <2>7, <2>10 DEF ExamInv
<1> QED BY <1>10, <1>11

(* The live rows are those of the content, no more and no fewer: a row of its
   checksum comes from its own rows, which have all been written. *)
LEMMA FinishExamKeeps ==
  ASSUME ExamInv, Grow, FinishExam
  PROVE  ExamInv'
<1> DEFINE f == FirstFile(ingest.todo)
           k == ingest.checksum
           rows == ingest.rows
           note == [file |-> f, checksum |-> k, read |-> TRUE, status |-> FileStatus(rows)]
           written == {i \in DOMAIN rows : ~TooWide(rows[i])}
<1>1. /\ IsIngest /\ ResultsShape /\ ResultsAreKeyed /\ Writing
      /\ ingest.pc = "writing" /\ f \in ingest.todo /\ ingest.next \in Nat \ {0}
      /\ RowsOfChecksum(f, k, rows) /\ f \in SourceFiles
  BY FirstIsMember DEF ExamInv, IsIngest, FinishExam
<1>2. /\ DOMAIN ingest' = IngestFields
      /\ ingest'.pc = "exams" /\ ingest'.todo = ingest.todo \ {f}
      /\ ingest'.manifests = ingest.manifests /\ ingest'.known = ingest.known
      /\ ingest'.summary = ingest.summary \cup {note}
  BY <1>1 DEF IsIngest, IngestFields, FinishExam, NoteFile
<1>3. IsIngest'
  BY <1>1, <1>2 DEF IsIngest, Grow
<1>4. note.file = f /\ note.checksum = k /\ note.status = FileStatus(rows)
  OBVIOUS
<1>5. /\ \A r \in Live(f) : r.checksum = k
      /\ <<f, k>> \notin torn =>
           \A i \in written : i < ingest.next => Made(f, k, rows[i]) \in results
  BY <1>1 DEF Writing
<1>6. ingest.next \notin DOMAIN rows
  BY DEF FinishExam
<1> HIDE DEF f, k, rows, note
<1>7. ASSUME NEW content \in Contents[f], content.checksum = k, <<f, k>> \notin torn
      PROVE  /\ rows = content.exam
             /\ Live(f) = {Made(f, k, content.exam[i]) : i \in written}
  <2>1. rows = content.exam
    BY <1>1, <1>7, ExamAssumption DEF RowsOfChecksum
  <2>2. \A i \in DOMAIN rows : i < ingest.next
    <3>1. rows \in Seq(ExamRows)
      BY <1>1, <2>1, ExamAssumption
    <3>2. DOMAIN rows = 1..Len(rows) /\ Len(rows) \in Nat
      BY <3>1
    <3> QED BY <1>1, <1>6, <3>2
  <2>3. ASSUME NEW i \in written PROVE Made(f, k, rows[i]) \in Live(f)
    BY <1>5, <1>7, <2>2, ResultFields DEF Made, Live
  <2>4. ASSUME NEW r \in Live(f) PROVE \E i \in written : r = Made(f, k, rows[i])
    <3>1. r \in results /\ r.file = f /\ r.checksum = k /\ IsResult(r)
      BY <1>1, <1>5 DEF Live, ResultsShape
    <3>2. PICK c \in Contents[f] : \E i \in DOMAIN c.exam :
            c.checksum = r.checksum /\ c.exam[i].row = r.row /\ ~TooWide(c.exam[i])
      BY <1>7, <3>1 DEF IsResult
    <3>3. c = content
      BY <1>1, <1>7, <3>1, <3>2, ExamAssumption
    <3>4. PICK i \in written : rows[i].row = r.row
      BY <2>1, <3>2, <3>3
    <3>5. /\ Made(f, k, rows[i]).file = f /\ Made(f, k, rows[i]).row = r.row
          /\ Made(f, k, rows[i]).checksum = k
      BY <3>4, ResultFields DEF Made
    <3>6. SameKey(r, Made(f, k, rows[i])) /\ Made(f, k, rows[i]) \in results
      BY <1>5, <1>7, <2>2, <3>1, <3>5 DEF SameKey
    <3> QED BY <1>1, <3>1, <3>6 DEF ResultsAreKeyed
  <2>5. Live(f) = {Made(f, k, rows[i]) : i \in written}
    BY <2>3, <2>4
  <2> QED BY <2>1, <2>5
<1>8. FileStatus(rows) = "COMPLETED" <=> written = DOMAIN rows
  BY DEF FileStatus
<1>9. NoteIsTrue(note)
  <2> HIDE DEF written
  <2>1. ASSUME NEW content \in Contents[f], content.checksum = k, <<f, k>> \notin torn
        PROVE  LET these == {i \in DOMAIN content.exam : ~TooWide(content.exam[i])}
               IN  /\ Live(f) = {Made(f, k, content.exam[i]) : i \in these}
                   /\ FileStatus(rows) = "COMPLETED" <=> these = DOMAIN content.exam
    <3>1. rows = content.exam /\ Live(f) = {Made(f, k, content.exam[i]) : i \in written}
      BY <1>7, <2>1
    <3>2. written = {i \in DOMAIN content.exam : ~TooWide(content.exam[i])}
      BY <3>1 DEF written
    <3> QED BY <1>8, <3>1, <3>2
  <2> QED BY <1>4, <2>1 DEF NoteIsTrue
<1> QED BY <1>1, <1>2, <1>3, <1>4, <1>9, FileNoted DEF FinishExam, f

-----------------------------------------------------------------------------
(* The invariant holds at the start and is kept by every step. *)
LEMMA FilesBegin == FilesInit => IInvFiles
<1> SUFFICES ASSUME FilesInit PROVE IInvFiles
  OBVIOUS
<1> USE DEF FilesInit, DirInit, ExamInit
<1>1. FoldersShape /\ ManifestsShape /\ RowsShape
  BY DirectoryAssumption DEF FoldersShape, ManifestsShape, RowsShape, Scanned
<1>2. ScansShape
  BY IdleIsScan DEF ScansShape
<1>3. selections \in [Classes -> SourceFiles \cup {Blank}]
  OBVIOUS
<1>4. ScanningNow = {}
  BY IdleIsScan DEF ScanningNow
<1>5. Candidates = {}
  BY DEF Candidates, Scanned
<1>6. Overlaps = {}
  <2>1. \A c : Naming(c) = {}
    BY <1>5 DEF Naming
  <2>2. \A c, s : Placing(c, s) = {}
    BY <1>5 DEF Placing
  <2>3. ~(Cardinality({}) > 1)
    BY FS_EmptySet
  <2>4. ASSUME NEW k \in Overlaps PROVE FALSE
    <3>1. k.files = {} /\ Cardinality(k.files) > 1
      BY <1>5, <2>1, <2>2, <2>4 DEF Overlaps, Conflict
    <3> QED BY <2>3, <3>1
  <2> QED BY <2>4
<1>7. ScanIsComplete
  BY <1>4, <1>5, <1>6 DEF ScanIsComplete
<1>8. IsIngest /\ ingest.pc = "idle" /\ ingest.summary = {}
  BY DEF IsIngest, IngestFields, IdleIngest
<1>9. ExamInv
  BY <1>8 DEF ExamInv, ResultsShape, ResultsAreKeyed, LiveRowsAgree, Writing, Noted
<1> QED BY <1>1, <1>2, <1>3, <1>7, <1>9 DEF IInvFiles, DirectoryShape

(* Every step keeps the invariant.                                         *)
LEMMA FilesGoOn == IInvFiles /\ [FilesNext]_fileVars => IInvFiles'
<1> SUFFICES ASSUME IInvFiles, [FilesNext]_fileVars PROVE IInvFiles'
  OBVIOUS
<1>0. DirectoryShape /\ ScanIsComplete /\ ExamInv /\ IsIngest
  BY DEF IInvFiles, ExamInv
<1>1. CASE DirNext /\ UNCHANGED examVars
  <2>1. DirectoryShape' /\ ScanIsComplete' /\ Grow
    BY <1>0, <1>1, StartScanKeeps, RegisterWorkbookKeeps, ReplaceRowsKeeps, WriteRowsKeeps,
       SaveManifestKeeps, RefreshConflictsKeeps, CrashScanKeeps, ChangeFileKeeps,
       SelectSourceKeeps
       DEF DirNext
  <2>2. ExamInv'
    BY <1>0, <1>1, <2>1, ExamsStay DEF examVars
  <2> QED BY <2>1, <2>2 DEF IInvFiles
<1>2. CASE \/ LoadManifests \/ IngestWorkbook \/ StartExams \/ DigestExam \/ OpenExam
           \/ ParseExam \/ RetireRows \/ WriteResult \/ FinishExam \/ MarkExams \/ CrashIngest
           \/ IngestPhotos \/ \E s \in Students : ChangeStudents(s)
  <2>1. DirectoryShape' /\ ScanIsComplete' /\ Grow
    BY <1>0, <1>2, IngestKeepsDirectory
  <2>2. CASE LoadManifests
    <3>1. Recorded' = Recorded
      BY <2>2 DEF LoadManifests, Recorded, Scanned
    <3> QED BY <1>0, <2>1, <2>2, <3>1, LoadManifestsKeeps DEF IInvFiles
  <2>3. CASE \/ IngestWorkbook \/ StartExams \/ DigestExam \/ OpenExam \/ ParseExam
             \/ MarkExams \/ IngestPhotos
    BY <1>0, <2>1, <2>3, IngestWorkbookKeeps, StartExamsKeeps, DigestExamKeeps, OpenExamKeeps,
       ParseExamKeeps, MarkExamsKeeps, IngestPhotosKeeps
       DEF IInvFiles
  <2>4. CASE RetireRows \/ WriteResult \/ FinishExam
    BY <1>0, <2>1, <2>4, RetireRowsKeeps, WriteResultKeeps, FinishExamKeeps DEF IInvFiles
  <2>5. CASE CrashIngest
    <3>1. UNCHANGED <<results, torn>> /\ ingest' = IdleIngest
      BY <2>5 DEF CrashIngest, EndIngest
    <3> QED BY <1>0, <2>1, <3>1, EndIngestKeeps DEF IInvFiles
  <2>6. CASE \E s \in Students : ChangeStudents(s)
    <3>1. UNCHANGED <<results, ingest, torn>>
      BY <2>6 DEF ChangeStudents
    <3> QED BY <1>0, <2>1, <3>1, ExamsStay DEF IInvFiles
  <2> QED BY <1>2, <2>2, <2>3, <2>4, <2>5, <2>6
<1>3. CASE UNCHANGED fileVars
  <2>1. DirectoryShape' /\ ScanIsComplete' /\ Grow
    BY <1>0, <1>3, DirectoryStays DEF fileVars, dirVars
  <2>2. ExamInv'
    BY <1>0, <1>3, <2>1, ExamsStay DEF fileVars, examVars
  <2> QED BY <2>1, <2>2 DEF IInvFiles
<1> QED BY <1>1, <1>2, <1>3 DEF FilesNext

(* The invariant that all three properties follow from. *)
THEOREM FilesInvariant == FilesSpec => []IInvFiles
BY FilesBegin, FilesGoOn, PTL DEF FilesSpec

(* Two workbooks that name the same class are never left without a warning *)
(* once a scan is complete that no other ran beside (_refresh_conflicts).  *)
THEOREM OverlapsAreFlagged == FilesSpec => []OverlapIsFlagged
<1>1. IInvFiles => OverlapIsFlagged
  <2> SUFFICES ASSUME IInvFiles, undisturbed,
                      NEW f \in Candidates, NEW g \in Candidates, NEW c \in Classes, f # g,
                      c \in manifests[f].classes \cap manifests[g].classes
               PROVE  /\ {manifests[f].status, manifests[g].status}
                           \subseteq {"CONFLICT", "INCOMPLETE"}
                      /\ \E k \in conflicts :
                           k.type = "CLASS_OVERLAP" /\ k.class = c /\ {f, g} \subseteq k.files
    BY DEF OverlapIsFlagged
  <2>1. /\ conflicts = Overlaps
        /\ \A h \in Candidates :
             manifests[h].status = "VALID" => manifests[h].classes \cap Flagged(conflicts) = {}
    BY DEF IInvFiles, ScanIsComplete
  <2>2. \A h \in Candidates : manifests[h].status \in FileStatuses \ {"INVALID"}
    BY DEF IInvFiles, DirectoryShape, ManifestsShape, Candidates, IsManifest
  <2>3. f \in Naming(c) /\ g \in Naming(c) /\ Naming(c) \in SUBSET SourceFiles
    BY DEF Naming, Candidates
  <2>4. Cardinality(Naming(c)) > 1
    BY <2>3, TwoAreMany
  <2> DEFINE k == Conflict("CLASS_OVERLAP", c, Blank, Naming(c))
  <2>5. k.type = "CLASS_OVERLAP" /\ k.class = c /\ k.files = Naming(c)
    BY DEF Conflict
  <2>6. k \in conflicts
    BY <2>1, <2>4, <2>5 DEF Overlaps
  <2> HIDE DEF k
  <2>7. c \in Flagged(conflicts)
    BY <2>5, <2>6, DirectoryAssumption DEF Flagged
  <2>8. manifests[f].status # "VALID" /\ manifests[g].status # "VALID"
    BY <2>1, <2>7
  <2> QED BY <2>2, <2>3, <2>5, <2>6, <2>8 DEF FileStatuses
<1> QED BY <1>1, FilesInvariant, PTL

(* A report names no source of its own choice                              *)
(* (selected_manifest_for_class and its caller).                           *)
THEOREM SourcesAreChosen == FilesSpec => []SourceIsChosen
<1>1. IInvFiles => SourceIsChosen
  <2> SUFFICES ASSUME IInvFiles, undisturbed,
                      NEW c \in Classes, NEW s \in Students, NEW m \in Months
               PROVE  LET source == SourceOf(c, s, m)
                          holding == {r.file : r \in {q \in sourceRows :
                                        q.class = c /\ q.student = s /\ q.month = m}}
                      IN  /\ Cardinality(holding) > 1 /\ source \in SourceFiles
                               => source = selections[c]
                          /\ source = "REFUSED" =>
                               \/ \E k \in conflicts : k.class = c /\ k.student = s
                               \/ \E f \in holding : manifests[f].status = "INVALID"
                               \/ selections[c] \in SourceFiles \ holding
    BY DEF SourceIsChosen
  <2> DEFINE source == SourceOf(c, s, m)
             holding == {r.file : r \in {q \in sourceRows :
                           q.class = c /\ q.student = s /\ q.month = m}}
             selected == SelectedManifest(c)
  <2>1. source = CASE holding = {} -> "NONE"
                   [] holding # {} /\ selected # Blank ->
                        IF selected \in holding THEN selected ELSE "REFUSED"
                   [] holding # {} /\ selected = Blank /\ Cardinality(holding) > 1 -> "REFUSED"
                   [] OTHER -> FirstFile(holding)
    BY DEF SourceOf
  <2>2. holding \in SUBSET SourceFiles /\ \A f \in holding : Scanned(f)
    BY DEF IInvFiles, DirectoryShape, RowsShape, Recorded
  <2>3. selected = Blank \/ (selected = selections[c] /\ selected \in SourceFiles)
    BY DEF SelectedManifest, IInvFiles, DirectoryShape
  <2>4. "NONE" \notin SourceFiles /\ "REFUSED" \notin SourceFiles
    BY DirectoryAssumption
  <2>5. ASSUME Cardinality(holding) > 1, holding \subseteq Candidates
        PROVE  \E k \in conflicts : k.class = c /\ k.student = s
    <3> DEFINE k == Conflict("STUDENT_OVERLAP", c, s, Placing(c, s))
    <3>1. holding \subseteq Placing(c, s) /\ Placing(c, s) \in SUBSET SourceFiles
      BY <2>5 DEF Placing, Candidates
    <3> HIDE DEF holding
    <3>2. Cardinality(Placing(c, s)) > 1
      BY <2>2, <2>5, <3>1, ManyContains
    <3>3. k.class = c /\ k.student = s /\ k.files = Placing(c, s)
      BY DEF Conflict
    <3>4. k \in Overlaps
      BY <3>2, <3>3 DEF Overlaps
    <3> QED BY <3>3, <3>4 DEF IInvFiles, ScanIsComplete
  <2>6. ASSUME Cardinality(holding) > 1, ~(holding \subseteq Candidates)
        PROVE  \E f \in holding : manifests[f].status = "INVALID"
    BY <2>2, <2>6 DEF Candidates
  <2>7. holding # {} => FirstFile(holding) \in SourceFiles
    BY <2>2, FirstIsMember
  <2> HIDE DEF source, holding, selected
  <2>8. Cardinality(holding) > 1 /\ source \in SourceFiles => source = selections[c]
    BY <2>1, <2>3, <2>4
  <2>9. source = "REFUSED" =>
          \/ selected # Blank /\ selected \notin holding
          \/ Cardinality(holding) > 1
    BY <2>1, <2>2, <2>4, <2>7
  <2>10. source = "REFUSED" =>
           \/ \E k \in conflicts : k.class = c /\ k.student = s
           \/ \E f \in holding : manifests[f].status = "INVALID"
           \/ selections[c] \in SourceFiles \ holding
    BY <2>3, <2>5, <2>6, <2>9
  <2> QED BY <2>8, <2>10 DEF source, holding
<1> QED BY <1>1, FilesInvariant, PTL

(* The results of exams: one version of a workbook, whole where the ingest *)
(* says so, whatever was interrupted, replaced and put back, but between   *)
(* the digest and the readings of the file.                                *)
THEOREM ExamsStayWhole == FilesSpec => []ExamsAreWhole
<1>1. IInvFiles => OneVersionIsLive
  <2> SUFFICES ASSUME IInvFiles, NEW s \in Students, NEW grade \in Range(GradeOf),
                      NEW r \in SummerResults(s, grade)
               PROVE  /\ \A q \in SummerResults(s, grade) :
                           r.file = q.file => r.checksum = q.checksum
                      /\ <<r.file, r.checksum>> \notin torn =>
                           \E content \in Contents[r.file] :
                             /\ content.checksum = r.checksum
                             /\ \E row \in Range(content.exam) : row.row = r.row
    BY Zenon DEF OneVersionIsLive
  <2>1. \A q \in SummerResults(s, grade) : r.file = q.file => r.checksum = q.checksum
    BY DEF IInvFiles, ExamInv, LiveRowsAgree, SummerResults
  <2>2. IsResult(r)
    BY DEF IInvFiles, ExamInv, ResultsShape, SummerResults
  <2> QED BY <2>1, <2>2 DEF IsResult, Range
<1>2. IInvFiles => SummaryIsTrue
  BY DEF IInvFiles, ExamInv, Noted, NoteIsTrue, SummaryIsTrue, Live, Made
<1> QED BY <1>1, <1>2, FilesInvariant, PTL DEF ExamsAreWhole
===============================================================================
