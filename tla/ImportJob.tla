------------------------------ MODULE ImportJob ------------------------------
(***************************************************************************)
(* Workbook imports (imports app): the ImportJob row with its partial      *)
(* unique constraint on the file's checksum, the Celery task that claims a *)
(* job, validates the workbook and applies it, and the requests of the     *)
(* viewset: upload, preview, confirm, retry, cancel, update and destroy.   *)
(*                                                                         *)
(* A worker claims, applies and reports under the row lock, one step each; *)
(* it reads and validates the workbook between them without one.  Every    *)
(* request but the upload reads the row without a lock and writes its      *)
(* decision later, whatever the row says by then: a read step and a write  *)
(* step.  The commit of a write can fail on the unique constraint.         *)
(*                                                                         *)
(* The constraint goes by the checksum, which is computed for the upload   *)
(* and never again, while an update puts another file into the row.        *)
(***************************************************************************)
EXTENDS Integers, FiniteSets

CONSTANTS
  Jobs,        \* rows that uploads may create
  Files,       \* what workbooks may hold, each with a checksum of its own
  FileOf,      \* the file each job is uploaded with, which checksum is of
  Workers,     \* Celery worker processes
  Users,       \* web requests running at the same time
  Offered,     \* the requests users make, of those that follow an upload
  MaxRetries,  \* max_retries of process_import_job_task
  MaxQueued,   \* bound: equal messages waiting in the broker
  MaxCrashes,  \* bound: worker or web processes that die
  MaxLost,     \* bound: messages lost
  MaxCalls     \* bound: requests after the uploads

ASSUME ParametersAssumption ==
  /\ FileOf \in [Jobs -> Files]
  /\ Offered \subseteq {"preview", "confirm", "retry", "cancel", "update", "destroy"}
  /\ IsFiniteSet(Workers)
  /\ MaxRetries \in Nat
  /\ MaxQueued \in Nat \ {0}
  /\ MaxCrashes \in Nat
  /\ MaxLost \in Nat
  /\ MaxCalls \in Nat

VARIABLES
  status,       \* ImportJob.status, "absent" before the upload
  stale,        \* jobs whose started_at is older than the processing timeout
  deleted,      \* soft-deleted jobs
  file,         \* ImportJob.source_file
  queue,        \* messages in the broker, by job and retry number
  pc,           \* what each worker is doing
  task,         \* the message each worker is working on
  held,         \* the file of the row each worker has claimed
  request,      \* what each request is about to write, and what it has read
  applied,      \* history: times a job's workbook was applied
  imported,     \* history: the files applied for each job
  executed,     \* history: jobs that ImportExecutor has completed
  overwritten,  \* history: jobs whose claim or completion was overwritten by
                \*   a request, or by a worker that had already given up
  crashes, lost, calls   \* count against the bounds

rowVars   == <<status, stale, deleted, file>>
workVars  == <<pc, task, held>>
ghostVars == <<applied, imported, executed, overwritten>>
bounds    == <<crashes, lost, calls>>
vars == <<rowVars, queue, workVars, request, ghostVars, bounds>>

Statuses == {"absent", "queued", "uploaded", "analyzing", "preview_ready", "confirmed",
             "processing", "completed", "failed", "cancelled"}
Messages == Jobs \X (0 .. MaxRetries)
NoTask == <<"none", 0>>

(* A request: the write it will do, its job, and for an update the status, *)
(* age and file of the copy it has read; once it is validated, its file.   *)
Writes == {"preview", "inspect", "confirm", "execute", "retry", "cancel", "update", "save",
           "destroy"}
NoRequest == [write |-> "none"]
Requests == [write : Writes, job : Jobs, status : Statuses, stale : BOOLEAN,
             file : Files]

TypeOK ==
  /\ status \in [Jobs -> Statuses]
  /\ stale \subseteq Jobs
  /\ deleted \subseteq Jobs
  /\ file \in [Jobs -> Files]
  /\ queue \in [Messages -> 0 .. MaxQueued]
  /\ pc \in [Workers -> {"idle", "loading", "broken", "unreadable"}]
  /\ task \in [Workers -> Messages \cup {NoTask}]
  /\ held \in [Workers -> Files \cup {"none"}]
  /\ request \in [Users -> Requests \cup {NoRequest}]
  /\ applied \in [Jobs -> Nat]
  /\ imported \in [Jobs -> SUBSET Files]
  /\ executed \subseteq Jobs
  /\ overwritten \subseteq Jobs
  /\ crashes \in 0 .. MaxCrashes
  /\ lost \in 0 .. MaxLost
  /\ calls \in 0 .. MaxCalls

Init ==
  /\ status = [j \in Jobs |-> "absent"]
  /\ stale = {}
  /\ deleted = {}
  /\ file = FileOf
  /\ queue = [m \in Messages |-> 0]
  /\ pc = [w \in Workers |-> "idle"]
  /\ task = [w \in Workers |-> NoTask]
  /\ held = [w \in Workers |-> "none"]
  /\ request = [u \in Users |-> NoRequest]
  /\ applied = [j \in Jobs |-> 0]
  /\ imported = [j \in Jobs |-> {}]
  /\ executed = {}
  /\ overwritten = {}
  /\ crashes = 0
  /\ lost = 0
  /\ calls = 0

-----------------------------------------------------------------------------
(* uq_active_import_file_scope: at most one live job of a checksum is in   *)
(* one of these states.  queued, failed and cancelled jobs are outside it.     *)
Active == {"uploaded", "analyzing", "preview_ready", "confirmed", "processing", "completed"}

ActiveOf(f) == {k \in Jobs : FileOf[k] = f /\ k \notin deleted /\ status[k] \in Active}

Rivals(j) == ActiveOf(FileOf[j]) \ {j}

Fits(j, s) == s \in Active /\ j \notin deleted => Rivals(j) = {}

Working(w, j) == pc[w] # "idle" /\ task[w][1] = j
Holds(w, j) == pc[w] \in {"loading", "broken"} /\ task[w][1] = j

FinishTask(w) ==
  /\ pc' = [pc EXCEPT ![w] = "idle"]
  /\ task' = [task EXCEPT ![w] = NoTask]
  /\ held' = [held EXCEPT ![w] = "none"]

(* The upload inserts the row and queues its task at once, without waiting *)
(* for a preview or a confirmation.                                        *)
Upload(j) ==
  /\ status[j] = "absent"
  /\ Fits(j, "uploaded")
  /\ queue[<<j, 0>>] < MaxQueued
  /\ status' = [status EXCEPT ![j] = "uploaded"]
  /\ queue' = [queue EXCEPT ![<<j, 0>>] = @ + 1]
  /\ UNCHANGED <<stale, deleted, file, workVars, request, ghostVars, bounds>>

TakeMessage(w, m) ==
  /\ pc[w] = "idle"
  /\ queue[m] > 0
  /\ queue' = [queue EXCEPT ![m] = @ - 1]

(* Plausible bug: a running job can be claimed.                            *)
ClaimableEvenIfFresh(j) == status[j] \in {"queued", "uploaded", "confirmed", "failed", "processing"}

Claimable(j) ==
  \/ status[j] \in {"queued", "uploaded", "confirmed", "failed"}
  \/ status[j] = "processing" /\ j \in stale

(* Nothing to claim; or the row is deleted (DoesNotExist), or the unique   *)
(* constraint refuses PROCESSING (IntegrityError): the task ends with an   *)
(* exception Celery does not retry.                                        *)
IgnoreTask(w, m) ==
  LET j == m[1] IN
  /\ TakeMessage(w, m)
  /\ j \in deleted \/ ~Claimable(j) \/ ~Fits(j, "processing")
  /\ UNCHANGED <<rowVars, workVars, request, ghostVars, bounds>>

(* What is read afterwards is the file of the row that was locked, which   *)
(* an update leaves where it is.                                           *)
Claim(w, m) ==
  LET j == m[1] IN
  /\ TakeMessage(w, m)
  /\ j \notin deleted /\ Claimable(j) /\ Fits(j, "processing")
  /\ status' = [status EXCEPT ![j] = "processing"]
  /\ stale' = stale \ {j}
  /\ pc' = [pc EXCEPT ![w] = "loading"]
  /\ task' = [task EXCEPT ![w] = m]
  /\ held' = [held EXCEPT ![w] = file[j]]
  /\ UNCHANGED <<deleted, file, request, ghostVars, bounds>>

(* The workbook has been applied in one transaction, which also says so.   *)
Apply(w) ==
  LET j == task[w][1] IN
  /\ pc[w] = "loading"
  /\ j \notin deleted /\ status[j] # "cancelled" /\ Fits(j, "completed")
  /\ status' = [status EXCEPT ![j] = "completed"]
  /\ applied' = [applied EXCEPT ![j] = @ + 1]
  /\ imported' = [imported EXCEPT ![j] = @ \cup {held[w]}]
  /\ FinishTask(w)
  /\ UNCHANGED <<stale, deleted, file, queue, request, executed, overwritten, bounds>>

(* Plausible bug: writing the rows and reporting them in two transactions. *)
RaiseAfterApply(w) ==
  LET j == task[w][1] IN
  /\ pc[w] = "loading"
  /\ pc' = [pc EXCEPT ![w] = "broken"]
  /\ applied' = [applied EXCEPT ![j] = @ + 1]
  /\ imported' = [imported EXCEPT ![j] = @ \cup {held[w]}]
  /\ UNCHANGED <<rowVars, queue, task, held, request, executed, overwritten, bounds>>

(* Validation or application raises; the transaction is rolled back.       *)
Raise(w) ==
  /\ pc[w] = "loading"
  /\ pc' = [pc EXCEPT ![w] = "broken"]
  /\ UNCHANGED <<rowVars, queue, task, held, request, ghostVars, bounds>>

(* The errors of the validation, or the exception, are written down.       *)
RecordFailure(w) ==
  LET j == task[w][1] IN
  /\ pc[w] \in {"loading", "broken"}
  /\ j \notin deleted /\ status[j] # "cancelled"
  /\ status' = [status EXCEPT ![j] = "failed"]
  /\ FinishTask(w)
  /\ UNCHANGED <<stale, deleted, file, queue, request, ghostVars, bounds>>

(* The locked row is cancelled, or gone: the worker gives its work up.     *)
Discard(w) ==
  LET j == task[w][1] IN
  /\ pc[w] \in {"loading", "broken"}
  /\ j \in deleted \/ status[j] = "cancelled"
  /\ FinishTask(w)
  /\ UNCHANGED <<rowVars, queue, request, ghostVars, bounds>>

(* The file cannot be read (OSError): the job goes back to QUEUED, without *)
(* a lock and whatever its status is by now.                               *)
ReadError(w) ==
  LET j == task[w][1] IN
  /\ pc[w] = "loading"
  /\ status' = [status EXCEPT ![j] = "queued"]
  /\ pc' = [pc EXCEPT ![w] = "unreadable"]
  /\ UNCHANGED <<stale, deleted, file, queue, task, held, request, ghostVars, bounds>>

RetryTask(w) ==
  LET j == task[w][1]
      r == task[w][2]
  IN
  /\ pc[w] = "unreadable"
  /\ r < MaxRetries
  /\ queue[<<j, r + 1>>] < MaxQueued
  /\ queue' = [queue EXCEPT ![<<j, r + 1>>] = @ + 1]
  /\ FinishTask(w)
  /\ UNCHANGED <<rowVars, request, ghostVars, bounds>>

(* mark_import_job_failed after the last retry, under the row lock but     *)
(* also when another worker has claimed the job by now.                    *)
MarkFailed(w) ==
  LET j == task[w][1] IN
  /\ pc[w] = "unreadable"
  /\ task[w][2] = MaxRetries
  /\ status' = IF j \in deleted \/ status[j] = "completed"
                 THEN status ELSE [status EXCEPT ![j] = "failed"]
  /\ overwritten' = IF status[j] = "processing" THEN overwritten \cup {j} ELSE overwritten
  /\ FinishTask(w)
  /\ UNCHANGED <<stale, deleted, file, queue, request, applied, imported, executed, bounds>>

(* Thirty minutes after the claim; Celery has killed the task after        *)
(* fifteen, so no worker is still at it.                                   *)
ClaimGoesStale(j) ==
  /\ status[j] = "processing"
  /\ j \notin stale
  /\ \A w \in Workers : ~Working(w, j)
  /\ stale' = stale \cup {j}
  /\ UNCHANGED <<status, deleted, file, queue, workVars, request, ghostVars, bounds>>

Crash(w) ==
  /\ pc[w] # "idle"
  /\ crashes < MaxCrashes
  /\ crashes' = crashes + 1
  /\ FinishTask(w)
  /\ UNCHANGED <<rowVars, queue, request, ghostVars, lost, calls>>

LoseMessage(m) ==
  /\ queue[m] > 0
  /\ lost < MaxLost
  /\ lost' = lost + 1
  /\ queue' = [queue EXCEPT ![m] = @ - 1]
  /\ UNCHANGED <<rowVars, workVars, request, ghostVars, crashes, calls>>

-----------------------------------------------------------------------------
(* Which requests the views accept, by the status they read. *)
Accepted(write, j) ==
  CASE write = "preview" -> status[j] \in {"uploaded", "failed"}
    [] write = "confirm" -> status[j] = "preview_ready"
    [] write = "retry"   -> status[j] \in {"failed", "cancelled"}
    [] write = "cancel"  -> status[j] \in {"queued", "uploaded", "analyzing", "preview_ready",
                                           "confirmed", "processing"}
    [] OTHER             -> TRUE

(* What a request goes on with.  Only the update writes back what it has   *)
(* read; of the others nothing is kept.                                    *)
Copy(write, j) ==
  IF write = "update"
    THEN [write |-> write, job |-> j,
          status |-> status[j], stale |-> j \in stale, file |-> file[j]]
    ELSE [write |-> write, job |-> j,
          status |-> "absent", stale |-> FALSE, file |-> FileOf[j]]

(* A request reads the row, without a lock. *)
Read(u, write, j) ==
  /\ request[u] = NoRequest
  /\ status[j] # "absent" /\ j \notin deleted
  /\ Accepted(write, j)
  /\ calls < MaxCalls
  /\ calls' = calls + 1
  /\ request' = [request EXCEPT ![u] = Copy(write, j)]
  /\ UNCHANGED <<rowVars, queue, workVars, ghostVars, crashes, lost>>

(* Its write puts s into the row, and notes what it has written over.      *)
Put(j, s) ==
  /\ status' = [status EXCEPT ![j] = s]
  /\ overwritten' = IF status[j] \in {"processing", "completed"}
                      THEN overwritten \cup {j} ELSE overwritten

Continue(u, write) == request' = [request EXCEPT ![u].write = write]
Respond(u) == request' = [request EXCEPT ![u] = NoRequest]

(* A write that the unique constraint refuses: preview and the executor    *)
(* report FAILED instead, confirm and update answer with an error.         *)
Preview(u) ==
  LET j == request[u].job IN
  /\ request[u].write = "preview"
  /\ \/ Fits(j, "analyzing") /\ Put(j, "analyzing") /\ Continue(u, "inspect")
     \/ ~Fits(j, "analyzing") /\ Put(j, "failed") /\ Respond(u)
  /\ UNCHANGED <<stale, deleted, file, queue, workVars, applied, imported, executed, bounds>>

Inspect(u) ==
  LET j == request[u].job IN
  /\ request[u].write = "inspect"
  /\ \/ Fits(j, "preview_ready") /\ Put(j, "preview_ready")
     \/ Put(j, "failed")
  /\ Respond(u)
  /\ UNCHANGED <<stale, deleted, file, queue, workVars, applied, imported, executed, bounds>>

Confirm(u) ==
  LET j == request[u].job IN
  /\ request[u].write = "confirm"
  /\ \/ Fits(j, "confirmed") /\ Put(j, "confirmed") /\ Continue(u, "execute")
     \/ ~Fits(j, "confirmed") /\ Respond(u) /\ UNCHANGED <<status, overwritten>>
  /\ UNCHANGED <<stale, deleted, file, queue, workVars, applied, imported, executed, bounds>>

(* ImportExecutor.execute: one transaction from PROCESSING to COMPLETED,   *)
(* whose four writers do nothing.                                          *)
Execute(u) ==
  LET j == request[u].job IN
  /\ request[u].write = "execute"
  /\ \/ Fits(j, "completed") /\ Put(j, "completed") /\ executed' = executed \cup {j}
     \/ ~Fits(j, "completed") /\ Put(j, "failed") /\ UNCHANGED executed
  /\ Respond(u)
  /\ UNCHANGED <<stale, deleted, file, queue, workVars, applied, imported, bounds>>

Retry(u) ==
  LET j == request[u].job IN
  /\ request[u].write = "retry"
  /\ queue[<<j, 0>>] < MaxQueued
  /\ Put(j, "queued")
  /\ queue' = [queue EXCEPT ![<<j, 0>>] = @ + 1]
  /\ Respond(u)
  /\ UNCHANGED <<stale, deleted, file, workVars, applied, imported, executed, bounds>>

Cancel(u) ==
  LET j == request[u].job IN
  /\ request[u].write = "cancel"
  /\ Put(j, "cancelled")
  /\ Respond(u)
  /\ UNCHANGED <<stale, deleted, file, queue, workVars, applied, imported, executed, bounds>>

(* PUT brings a file of its own, refused when a job of that checksum is    *)
(* Active, this one included.                                              *)
Validate(u, f) ==
  /\ request[u].write = "update"
  /\ \/ /\ ActiveOf(f) = {}
        /\ request' = [request EXCEPT ![u].write = "save", ![u].file = f]
     \/ ActiveOf(f) # {} /\ Respond(u)
  /\ UNCHANGED <<rowVars, queue, workVars, ghostVars, bounds>>

(* It saves every column of the copy that was read, also is_deleted, with  *)
(* the new file; the checksum stays that of the upload.                    *)
Save(u) ==
  LET j == request[u].job
      fits == request[u].status \in Active => Rivals(j) = {}
  IN
  /\ request[u].write = "save"
  /\ \/ /\ fits
        /\ Put(j, request[u].status)
        /\ stale' = IF request[u].stale THEN stale \cup {j} ELSE stale \ {j}
        /\ deleted' = deleted \ {j}
        /\ file' = [file EXCEPT ![j] = request[u].file]
     \/ ~fits /\ UNCHANGED <<rowVars, overwritten>>
  /\ Respond(u)
  /\ UNCHANGED <<queue, workVars, applied, imported, executed, bounds>>

(* DELETE: the soft delete.  It was refused when live monthly evaluations  *)
(* point at the job, which those it has written do until another import    *)
(* takes them over or they are deleted: either answer is possible.         *)
Destroy(u) ==
  LET j == request[u].job IN
  /\ request[u].write = "destroy"
  /\ Put(j, status[j])
  /\ deleted' = deleted \cup {j}
  /\ Respond(u)
  /\ UNCHANGED <<stale, file, queue, workVars, applied, imported, executed, bounds>>

(* The web process dies between two writes of one request. *)
Abandon(u) ==
  /\ request[u].write \in {"inspect", "execute"}
  /\ crashes < MaxCrashes
  /\ crashes' = crashes + 1
  /\ Respond(u)
  /\ UNCHANGED <<rowVars, queue, workVars, ghostVars, lost, calls>>

-----------------------------------------------------------------------------
WorkerStep(w) ==
  \/ \E m \in Messages : IgnoreTask(w, m) \/ Claim(w, m)
  \/ Apply(w)
  \/ Raise(w)
  \/ RecordFailure(w)
  \/ Discard(w)
  \/ ReadError(w)
  \/ RetryTask(w)
  \/ MarkFailed(w)

RequestStep(u) ==
  \/ Preview(u)
  \/ Inspect(u)
  \/ Confirm(u)
  \/ Execute(u)
  \/ Retry(u)
  \/ Cancel(u)
  \/ \E f \in Files : Validate(u, f)
  \/ Save(u)
  \/ Destroy(u)

Next ==
  \/ \E w \in Workers : WorkerStep(w) \/ Crash(w)
  \/ \E u \in Users : RequestStep(u) \/ Abandon(u)
  \/ \E u \in Users, write \in Offered, j \in Jobs : Read(u, write, j)
  \/ \E j \in Jobs : Upload(j) \/ ClaimGoesStale(j)
  \/ \E m \in Messages : LoseMessage(m)

Spec == Init /\ [][Next]_vars
-----------------------------------------------------------------------------
(* Two workers read one job's workbook at a time only after its claim was  *)
(* overwritten.                                                            *)
ClaimIsExclusive ==
  \A j \in Jobs \ overwritten :
    \A v, w \in Workers : Holds(v, j) /\ Holds(w, j) => v = w

(* A job is applied once, and two jobs import one file only if the claim   *)
(* or the completion of one of them was overwritten, or one of them had    *)
(* been given the file by an update, under the checksum of another.        *)
FileImportedOnce ==
  \A j \in Jobs \ overwritten :
    /\ applied[j] <= 1
    /\ \A k \in Jobs \ (overwritten \cup {j}) :
         \A f \in imported[j] \cap imported[k] : f # FileOf[j] \/ f # FileOf[k]

(* FAILED means that nothing was written, COMPLETED that the workbook was  *)
(* applied or the executor run, unless the job was overwritten.            *)
OutcomeIsTruthful ==
  \A j \in Jobs \ overwritten :
    /\ status[j] = "failed" => applied[j] = 0
    /\ status[j] = "completed" => applied[j] = 1 \/ j \in executed
=============================================================================
