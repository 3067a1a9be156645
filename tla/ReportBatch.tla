---------------------------- MODULE ReportBatch ------------------------------
(***************************************************************************)
(* A batch of report cards (reports): its items are rendered one after the *)
(* other by one task, each into an archive of its own, and what came out   *)
(* is packed into a zip file.  No transaction spans two of these writes.   *)
(*                                                                         *)
(* Whatever fails for one item, the soft time limit of the task included,  *)
(* is that item's failure.  When the zip file cannot be stored the task is *)
(* retried and renders every item again.  A task is acknowledged when it   *)
(* begins, so that a worker that dies is not followed by another.          *)
(***************************************************************************)
EXTENDS Integers, Sequences, FiniteSets

CONSTANTS
  Items,       \* ACTIVE enrollments of the classes of the batch, in order
  MaxRetries,  \* max_retries of generate_report_batch_task
  MaxDeaths    \* bound: workers that die, messages the broker refuses

ASSUME BatchAssumption ==
  Items \in Seq(STRING) /\ MaxRetries \in Nat /\ MaxDeaths \in Nat

VARIABLES
  batch,   \* the ReportBatch
  item,    \* status and report of each ReportBatchItem
  card,    \* each ReportArchive of the batch: its item, status and release
  task,    \* the task: where it is, and what it has counted
  deaths   \* bound

batchVars == <<batch, item, card, task, deaths>>

Positions == DOMAIN Items
NoTask == [pc |-> "none", at |-> 0, tries |-> 0, done |-> 0, failed |-> 0]
Unlinked == 0

(* ReportBatchCreateSerializer.create, and the message of its commit       *)
BatchInit ==
  /\ batch = [status |-> "queued", done |-> 0, failed |-> 0, zip |-> FALSE]
  /\ item = [i \in Positions |-> [status |-> "queued", report |-> Unlinked]]
  /\ card = <<>>
  /\ task = [NoTask EXCEPT !.pc = "queued"]
  /\ deaths = 0

StartBatch ==
  /\ task.pc = "queued"
  /\ batch' = [batch EXCEPT !.status = "processing"]
  /\ task' = [task EXCEPT !.pc = "next", !.at = 1, !.done = 0, !.failed = 0]
  /\ UNCHANGED <<item, card, deaths>>

(* Plausible bug: a retry leaves out, uncounted, what was rendered before. *)
BeginNextUndone ==
  /\ task.pc = "next" /\ task.at <= Len(Items)
  /\ IF item[task.at].status = "completed"
     THEN /\ task' = [task EXCEPT !.at = @ + 1]
          /\ UNCHANGED item
     ELSE /\ item' = [item EXCEPT ![task.at].status = "processing"]
          /\ task' = [task EXCEPT !.pc = "build"]
  /\ UNCHANGED <<batch, card, deaths>>

BeginItem ==
  /\ task.pc = "next" /\ task.at <= Len(Items)
  /\ item' = [item EXCEPT ![task.at].status = "processing"]
  /\ task' = [task EXCEPT !.pc = "build"]
  /\ UNCHANGED <<batch, card, deaths>>

(* The snapshot is built and an archive holds it.                          *)
CreateCard ==
  /\ task.pc = "build"
  /\ card' = Append(card, [item |-> task.at, status |-> "processing", released |-> FALSE])
  /\ task' = [task EXCEPT !.pc = "render"]
  /\ UNCHANGED <<batch, item, deaths>>

CompleteCard ==
  /\ task.pc = "render"
  /\ card' = [card EXCEPT ![Len(card)].status = "completed"]
  /\ task' = [task EXCEPT !.pc = "pack"]
  /\ UNCHANGED <<batch, item, deaths>>

CompleteItem ==
  /\ task.pc = "pack"
  /\ item' = [item EXCEPT ![task.at] = [status |-> "completed", report |-> Len(card)]]
  /\ task' = [task EXCEPT !.pc = "next", !.at = @ + 1, !.done = @ + 1]
  /\ UNCHANGED <<batch, card, deaths>>

(* An item that fails keeps the report of an earlier try.                  *)
FailItem ==
  /\ task.pc \in {"build", "render", "pack"}
  /\ item' = [item EXCEPT ![task.at].status = "failed"]
  /\ task' = [task EXCEPT !.pc = "next", !.at = @ + 1, !.failed = @ + 1]
  /\ UNCHANGED <<batch, card, deaths>>

Outcome ==
  CASE task.failed = 0 -> "completed"
    [] task.done > 0   -> "partial"
    [] OTHER           -> "failed"

FinishBatch ==
  /\ task.pc = "next" /\ task.at > Len(Items)
  /\ batch' = [status |-> Outcome, done |-> task.done, failed |-> task.failed,
               zip |-> batch.zip \/ task.done > 0]
  /\ task' = NoTask
  /\ UNCHANGED <<item, card, deaths>>

(* Storing the zip file raises OSError: nothing of the batch is written.   *)
RetryBatch ==
  /\ task.pc = "next" /\ task.at > Len(Items) /\ task.done > 0
  /\ task' = IF task.tries = MaxRetries THEN NoTask
             ELSE [NoTask EXCEPT !.pc = "queued", !.tries = task.tries + 1]
  /\ UNCHANGED <<batch, item, card, deaths>>

(* The worker is killed, or the message of the creation is never sent.     *)
LoseBatch ==
  /\ task.pc # "none" /\ deaths < MaxDeaths
  /\ deaths' = deaths + 1
  /\ task' = NoTask
  /\ UNCHANGED <<batch, item, card>>

(* ReportBatchViewSet.release: whatever the status of the batch, the       *)
(* completed archives that its items point at now, in one statement.       *)
ReleaseBatch ==
  LET linked == {item[i].report : i \in Positions}
  IN  /\ card' = [c \in DOMAIN card |->
                    [card[c] EXCEPT !.released =
                       @ \/ (c \in linked /\ card[c].status = "completed")]]
      /\ card' # card
      /\ UNCHANGED <<batch, item, task, deaths>>

BatchNext ==
  \/ StartBatch \/ BeginItem \/ CreateCard \/ CompleteCard \/ CompleteItem
  \/ FailItem \/ FinishBatch \/ RetryBatch \/ LoseBatch \/ ReleaseBatch

-----------------------------------------------------------------------------
(* What a finished batch says of itself holds of its items, whatever was   *)
(* rendered twice by a retry or failed half-way: the counts are those of   *)
(* the items, a completed item has a completed archive of its own, and     *)
(* there is a zip file if and only if something was completed.             *)
BatchTellsTheTruth ==
  LET With(s) == {i \in Positions : item[i].status = s}
  IN  batch.status \in {"completed", "partial", "failed"} =>
        /\ batch.done = Cardinality(With("completed"))
        /\ batch.failed = Cardinality(With("failed"))
        /\ batch.done + batch.failed = Len(Items)
        /\ \A i \in With("completed") :
             /\ item[i].report # Unlinked
             /\ card[item[i].report].item = i
             /\ card[item[i].report].status = "completed"
        /\ batch.zip = (batch.done > 0)
==============================================================================
