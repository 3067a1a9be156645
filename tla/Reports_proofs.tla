--------------------------- MODULE Reports_proofs ---------------------------
(***************************************************************************)
(* Proofs about Reports.                                                   *)
(*                                                                         *)
(* Drafts: a request that renders has a PROCESSING archive of its own, so  *)
(* that no other request completes or fails it (ArchivesInHand); and while *)
(* no late edit was written, what an approver has read is what the draft   *)
(* still holds (ReviewStands).                                             *)
(*                                                                         *)
(* Batches: the task counts what it leaves behind it, also when it begins  *)
(* again from the first item (CountedBehind), and an item that is COMPLETED has  *)
(* the report that was made for it (ItemsHaveCards).                       *)
(*                                                                         *)
(* Cards: what a build has read so far agrees with the marks, the results  *)
(* and the class of the moment, as long as none of them was changed since  *)
(* the request (AveragesAgree, RanksFollow, ListIsRead).  That an average  *)
(* is a number at all and that a list of the class has one order need sums *)
(* and lists of any length; the least element of a set of numbers stands   *)
(* in for the induction (NaturalsAreReached).                              *)
(***************************************************************************)
EXTENDS Reports, FiniteSetTheorems, WellFoundedInduction, TLAPS

(* Whoever renders has a PROCESSING archive that nobody else renders; whoever *)
(* releases has a COMPLETED one; only a COMPLETED one is released or linked.  *)
ArchivesInHand ==
  /\ \A u \in Users :
       /\ request[u].op = "rendering" =>
            request[u].archive # 0 /\ archive[request[u].archive].status = "processing"
       /\ request[u].op = "release" =>
            request[u].archive # 0 /\ archive[request[u].archive].status = "completed"
  /\ \A u, v \in Users :
       /\ request[u].op = "rendering" /\ request[v].op = "rendering"
       /\ request[u].archive = request[v].archive
       => u = v
  /\ \A a \in Archives : archive[a].released => archive[a].status = "completed"
  /\ link # 0 => archive[link].status = "completed"
  /\ status = "rendered" => link # 0

(* Requests begin at the status they need.  Unless an edit that began on a *)
(* DRAFT was written late, the content under review does not change.       *)
ReviewStands ==
  /\ \A u \in Users : request[u].op = "edit" => request[u].status = "draft"
  /\ ~lateEdit =>
       /\ \A u \in Users : request[u].op = "approve" =>
            status # "draft" /\ request[u].content = content
       /\ status = "approved" => content \in approved
       /\ \A a \in Archives : archive[a].status # "absent" => archive[a].content \in approved

DraftInv == TypeOK /\ ArchivesInHand /\ ReviewStands

(* What the variables of a batch hold. *)
ItemRows == [status : {"queued", "processing", "completed", "failed"}, report : Nat]
CardRows == [item : Positions, status : {"processing", "completed"}, released : BOOLEAN]
TaskStates == [pc : {"none", "queued", "next", "build", "render", "pack"},
               at : Nat, tries : Nat, done : Nat, failed : Nat]

BatchShape ==
  /\ batch.status \in {"queued", "processing", "completed", "partial", "failed"}
  /\ item \in [Positions -> ItemRows]
  /\ card \in Seq(CardRows)
  /\ task \in TaskStates

Rendering == {"build", "render", "pack"}
Done(s) == {i \in 1 .. task.at - 1 : item[i].status = s}

(* While the task goes through the items, the ones behind it are counted. *)
CountedBehind ==
  task.pc \in Rendering \cup {"next"} =>
    /\ task.at \in 1 .. Len(Items) + 1
    /\ task.pc # "next" => task.at \in Positions
    /\ \A i \in 1 .. task.at - 1 : item[i].status \in {"completed", "failed"}
    /\ task.done = Cardinality(Done("completed"))
    /\ task.failed = Cardinality(Done("failed"))
    /\ task.done + task.failed = task.at - 1

(* A COMPLETED item has a COMPLETED archive of its own; the last archive   *)
(* is that of the item under way.                                          *)
ItemsHaveCards ==
  /\ \A i \in Positions : item[i].status = "completed" =>
       /\ item[i].report \in DOMAIN card
       /\ card[item[i].report].item = i
       /\ card[item[i].report].status = "completed"
  /\ task.pc \in {"render", "pack"} => Len(card) # 0 /\ card[Len(card)].item = task.at
  /\ task.pc = "pack" => card[Len(card)].status = "completed"

(* A batch with a task has not been finished and has no zip file.          *)
UnfinishedBatch ==
  /\ task.pc # "none" => batch.status \in {"queued", "processing"}
  /\ batch.status \in {"queued", "processing"} => batch.zip = FALSE

(* An item that is COMPLETED has its archive, so that what remains to be   *)
(* said of a finished batch are its counts.                                *)
Totals ==
  LET With(s) == {i \in Positions : item[i].status = s}
  IN  batch.status \in {"completed", "partial", "failed"} =>
        /\ batch.done = Cardinality(With("completed"))
        /\ batch.failed = Cardinality(With("failed"))
        /\ batch.done + batch.failed = Len(Items)
        /\ batch.zip = (batch.done > 0)

BatchInv == BatchShape /\ CountedBehind /\ ItemsHaveCards /\ UnfinishedBatch /\ Totals

(* Cards: what the task has read so far, and what it knows of it as long   *)
(* as nothing it depends on was changed since the request.                 *)

Averages == Int
CardReports ==
  [student : Students, average : Averages, rank : Nat, listed : Averages,
   locked : BOOLEAN, about : Students \cup {Nobody}]
Results == [average : Averages, rank : Nat]
CardArchives ==
  [status : {"absent", "queued", "processing", "completed", "failed"},
   kind : Kinds \cup {"none"}, student : Students \cup {Nobody}, active : BOOLEAN,
   reports : Seq(CardReports)]
Builds ==
  [pc : {"none", "queued", "list", "recalculate", "unrank", "result", "marks", "store"},
   list : Seq(Students), tries : Nat, reports : Seq(CardReports)]
MarkTables == [Assessments -> [Students -> Marks \cup {NoMark}]]

CardTypes ==
  /\ member \in [Students -> {"to come", "active", "left"}]
  /\ assessment \in [Assessments -> {"absent", "draft", "approved", "locked"}]
  /\ mark \in MarkTables
  /\ termResult \in [Students -> Results]
  /\ report \in CardArchives
  /\ build \in Builds

(* How far a build is.                                                     *)
Calculated == {"unrank", "result", "marks", "store"}
Ranked3 == {"result", "marks", "store"}
Listed == {"recalculate"} \cup Calculated

(* A build belongs to a report that is requested and not finished yet.     *)
BuildIsWanted ==
  /\ build.pc # "none" => report.status \notin {"absent", "completed"}
  /\ build.pc = "queued" => report.kind # "draft"
  /\ build.pc = "list" => report.kind # "student"
  /\ report.status # "absent" => report.kind \in Kinds
  /\ report.status # "absent" /\ report.kind = "student" => report.student \in Members
  /\ report.status = "absent" => report.active
  /\ ~report.active => report.kind = "student"
  /\ build.pc = "unrank" => ~report.active

(* What was read is of the list, in its order.                             *)
ListIsRead ==
  /\ build.pc \in Listed =>
       /\ \A i \in DOMAIN build.list : build.list[i] \in Members
       /\ report.kind = "student" => build.list = <<report.student>>
       /\ report.kind # "student" /\ "class" \notin since => build.list \in ClassLists
  /\ build.pc \notin Ranked3 => build.reports = <<>>
  /\ Len(build.reports) =< Len(build.list)
  /\ build.pc = "store" => Len(build.reports) = Len(build.list)
  /\ build.pc = "marks" => Len(build.reports) # 0
  /\ \A i \in DOMAIN build.reports : build.reports[i].student = build.list[i]

(* Averages are those of the marks.                                        *)
Means == [s \in Students |-> AverageOf(s)]

AveragesAgree ==
  "marks" \notin since =>
    /\ build.pc \in Calculated =>
         \A i \in DOMAIN build.list :
           termResult[build.list[i]].average = Means[build.list[i]]
    /\ \A i \in DOMAIN build.reports :
         /\ build.reports[i].average = Means[build.list[i]]
         /\ i < Len(build.reports) \/ build.pc # "marks" =>
              build.reports[i].listed = Means[build.list[i]]

(* Official cards are made of locked assessments.                          *)
AllLocked ==
  report.kind # "draft" /\ "assessments" \notin since =>
    /\ report.status # "absent" => \A a \in Assessments : assessment[a] \in {"absent", "locked"}
    /\ \A i \in DOMAIN build.reports : build.reports[i].locked

(* Who has left loses his rank before it is read.                          *)
LeftIsUnranked ==
  ~report.active /\ "results" \notin since =>
    /\ build.pc \in Ranked3 => termResult[report.student].rank = Unranked
    /\ \A i \in DOMAIN build.reports : build.reports[i].rank = Unranked

(* The ranks x gives to the students of the list q follow its averages.    *)
Ordered(q, x) ==
  \A i, j \in DOMAIN q :
    x[q[i]].rank < x[q[j]].rank /\ x[q[i]].rank # Unranked => x[q[i]].average > x[q[j]].average

RanksFollow ==
  "results" \notin since =>
    /\ report.kind # "student" /\ build.pc \in Ranked3 => Ordered(build.list, termResult)
    /\ \A i \in DOMAIN build.reports :
         /\ build.reports[i].average = termResult[build.list[i]].average
         /\ build.reports[i].rank = termResult[build.list[i]].rank

(* The context that was attached.                                          *)
ContextOfList ==
  build.pc = "store" /\ report.kind # "class" =>
    \/ report.kind = "draft" /\ "class" \in since
    \/ report.kind = "draft" /\ \E i, j \in DOMAIN build.list :
         i # j /\ Surname[build.list[i]] = Surname[build.list[j]]
    \/ \A i \in DOMAIN build.reports : build.reports[i].about = build.reports[i].student

CardInv ==
  /\ CardTypes
  /\ BuildIsWanted
  /\ ListIsRead
  /\ AveragesAgree
  /\ AllLocked
  /\ LeftIsUnranked
  /\ RanksFollow
  /\ ContextOfList
  /\ CardIsTruthful
  /\ ContextIsOwn

-----------------------------------------------------------------------------
(* Drafts. *)

LEMMA DraftTypeNext == TypeOK /\ [Next]_vars => TypeOK'
<1> USE DraftAssumption DEF TypeOK, Statuses, Archives, ArchiveRows, Requests, Ops, draftVars
<1> SUFFICES ASSUME TypeOK, [Next]_vars
             PROVE  TypeOK'
  OBVIOUS
<1>1. ASSUME NEW u \in Users, NEW op \in {"edit", "submit", "approve", "reject", "render"}, Read(u, op)
      PROVE  TypeOK'
  BY <1>1 DEF Read, ReadAt
<1>2. ASSUME NEW u \in Users, NEW c \in Contents, Edit(u, c)
      PROVE  TypeOK'
  BY <1>2 DEF Edit, Respond, Idle
<1>3. ASSUME NEW u \in Users, Submit(u)
      PROVE  TypeOK'
  BY <1>3 DEF Submit, Respond, Idle
<1>4. ASSUME NEW u \in Users, Approve(u)
      PROVE  TypeOK'
  BY <1>4 DEF Approve, Respond, Idle
<1>5. ASSUME NEW u \in Users, Reject(u)
      PROVE  TypeOK'
  BY <1>5 DEF Reject, Respond, Idle
<1>6. ASSUME NEW u \in Users, RefuseRender(u)
      PROVE  TypeOK'
  BY <1>6 DEF RefuseRender, Respond, Idle
<1>7. ASSUME NEW u \in Users, NEW a \in Archives, StartRender(u, a)
      PROVE  TypeOK'
  <2>1. archive' \in [Archives -> ArchiveRows]
    BY <1>7 DEF StartRender
  <2>2. [request[u] EXCEPT !.op = "rendering", !.archive = a] \in Requests
    <3>1. a \in 0 .. MaxArchives
      OBVIOUS
    <3> QED
      BY <3>1, ZenonT(60)
  <2>3. request' \in [Users -> Requests]
    BY <1>7, <2>2 DEF StartRender
  <2> QED
    BY <1>7, <2>1, <2>3 DEF StartRender
<1>8. ASSUME NEW u \in Users, NEW a \in Archives, ReadArchive(u, a)
      PROVE  TypeOK'
  <2>1. archive' \in [Archives -> ArchiveRows]
    BY <1>8 DEF ReadArchive
  <2>2. [Idle EXCEPT !.op = "release", !.archive = a] \in Requests
    <3>1. a \in 0 .. MaxArchives
      OBVIOUS
    <3> QED
      BY <3>1 DEF Idle
  <2>3. request' \in [Users -> Requests]
    BY <1>8, <2>2 DEF ReadArchive
  <2> QED
    BY <1>8, <2>1, <2>3 DEF ReadArchive
<1>9. ASSUME NEW u \in Users, FinishRender(u)
      PROVE  TypeOK'
  <2>1. archive' \in [Archives -> ArchiveRows]
    BY <1>9, ZenonT(60) DEF FinishRender
  <2>2. request' \in [Users -> Requests]
    BY <1>9 DEF FinishRender, Respond, Idle
  <2>3. status' \in Statuses /\ link' \in 0 .. MaxArchives
    BY <1>9 DEF FinishRender
  <2> QED
    BY <1>9, <2>1, <2>2, <2>3 DEF FinishRender
<1>10. ASSUME NEW u \in Users, FailRender(u)
      PROVE  TypeOK'
  <2>1. archive' \in [Archives -> ArchiveRows]
    BY <1>10, ZenonT(60) DEF FailRender
  <2>2. request' \in [Users -> Requests]
    BY <1>10 DEF FailRender, Respond, Idle
  <2>3. status' \in Statuses /\ link' \in 0 .. MaxArchives
    BY <1>10 DEF FailRender
  <2> QED
    BY <1>10, <2>1, <2>2, <2>3 DEF FailRender
<1>11. ASSUME NEW u \in Users, Die(u)
      PROVE  TypeOK'
  BY <1>11 DEF Die, Respond, Idle
<1>12. ASSUME NEW u \in Users, Release(u)
      PROVE  TypeOK'
  <2>1. archive' \in [Archives -> ArchiveRows]
    BY <1>12, ZenonT(60) DEF Release
  <2>2. request' \in [Users -> Requests]
    BY <1>12 DEF Release, Respond, Idle
  <2>3. status' \in Statuses /\ link' \in 0 .. MaxArchives
    BY <1>12 DEF Release
  <2> QED
    BY <1>12, <2>1, <2>2, <2>3 DEF Release
<1>13. CASE UNCHANGED vars
  BY <1>13 DEF vars
<1> QED
  BY <1>1, <1>2, <1>3, <1>4, <1>5, <1>6, <1>7, <1>8, <1>9, <1>10, <1>11,
     <1>12, <1>13 DEF Next

(* No request touches the archive that another one has in hand.            *)
LEMMA ArchivesInHandNext == TypeOK /\ ArchivesInHand /\ [Next]_vars => ArchivesInHand'
<1> USE DraftAssumption DEF TypeOK, ArchivesInHand, Archives, ArchiveRows, Requests, draftVars
<1> SUFFICES ASSUME TypeOK, ArchivesInHand, [Next]_vars
             PROVE  ArchivesInHand'
  OBVIOUS
<1>1. ASSUME NEW u \in Users, NEW op \in {"edit", "submit", "approve", "reject", "render"}, Read(u, op)
      PROVE  ArchivesInHand'
  BY <1>1 DEF Read, ReadAt
<1>2. ASSUME NEW u \in Users, NEW c \in Contents, Edit(u, c)
      PROVE  ArchivesInHand'
  BY <1>2 DEF Edit, Respond, Idle
<1>3. ASSUME NEW u \in Users, Submit(u)
      PROVE  ArchivesInHand'
  BY <1>3 DEF Submit, Respond, Idle
<1>4. ASSUME NEW u \in Users, Approve(u)
      PROVE  ArchivesInHand'
  BY <1>4 DEF Approve, Respond, Idle
<1>5. ASSUME NEW u \in Users, Reject(u)
      PROVE  ArchivesInHand'
  BY <1>5 DEF Reject, Respond, Idle
<1>6. ASSUME NEW u \in Users, RefuseRender(u)
      PROVE  ArchivesInHand'
  BY <1>6 DEF RefuseRender, Respond, Idle
<1>7. ASSUME NEW u \in Users, NEW a \in Archives, StartRender(u, a)
      PROVE  ArchivesInHand'
  BY <1>7 DEF StartRender
<1>8. ASSUME NEW u \in Users, NEW a \in Archives, ReadArchive(u, a)
      PROVE  ArchivesInHand'
  BY <1>8 DEF ReadArchive, Idle
<1>9. ASSUME NEW u \in Users, FinishRender(u)
      PROVE  ArchivesInHand'
  BY <1>9 DEF FinishRender, Respond, Idle
<1>10. ASSUME NEW u \in Users, FailRender(u)
      PROVE  ArchivesInHand'
  BY <1>10 DEF FailRender, Respond, Idle
<1>11. ASSUME NEW u \in Users, Die(u)
      PROVE  ArchivesInHand'
  BY <1>11 DEF Die, Respond, Idle
<1>12. ASSUME NEW u \in Users, Release(u)
      PROVE  ArchivesInHand'
  BY <1>12 DEF Release, Respond, Idle
<1>13. CASE UNCHANGED vars
  BY <1>13 DEF vars
<1> QED
  BY <1>1, <1>2, <1>3, <1>4, <1>5, <1>6, <1>7, <1>8, <1>9, <1>10, <1>11,
     <1>12, <1>13 DEF Next

(* Whoever approves has read what is approved.                             *)
LEMMA ReviewStandsNext == TypeOK /\ ArchivesInHand /\ ReviewStands /\ [Next]_vars => ReviewStands'
<1> USE DraftAssumption DEF TypeOK, ReviewStands, Archives, ArchiveRows, Requests, draftVars
<1> SUFFICES ASSUME TypeOK, ArchivesInHand, ReviewStands, [Next]_vars
             PROVE  ReviewStands'
  OBVIOUS
<1>1. ASSUME NEW u \in Users, NEW op \in {"edit", "submit", "approve", "reject", "render"}, Read(u, op)
      PROVE  ReviewStands'
  BY <1>1 DEF Read, ReadAt, Needs
<1>2. ASSUME NEW u \in Users, NEW c \in Contents, Edit(u, c)
      PROVE  ReviewStands'
  BY <1>2 DEF Edit, Respond, Idle
<1>3. ASSUME NEW u \in Users, Submit(u)
      PROVE  ReviewStands'
  BY <1>3 DEF Submit, Respond, Idle
<1>4. ASSUME NEW u \in Users, Approve(u)
      PROVE  ReviewStands'
  BY <1>4 DEF Approve, Respond, Idle
<1>5. ASSUME NEW u \in Users, Reject(u)
      PROVE  ReviewStands'
  BY <1>5 DEF Reject, Respond, Idle
<1>6. ASSUME NEW u \in Users, RefuseRender(u)
      PROVE  ReviewStands'
  BY <1>6 DEF RefuseRender, Respond, Idle
<1>7. ASSUME NEW u \in Users, NEW a \in Archives, StartRender(u, a)
      PROVE  ReviewStands'
  BY <1>7 DEF StartRender
<1>8. ASSUME NEW u \in Users, NEW a \in Archives, ReadArchive(u, a)
      PROVE  ReviewStands'
  BY <1>8 DEF ReadArchive, Idle
<1>9. ASSUME NEW u \in Users, FinishRender(u)
      PROVE  ReviewStands'
  BY <1>9 DEF FinishRender, Respond, Idle, ArchivesInHand
<1>10. ASSUME NEW u \in Users, FailRender(u)
      PROVE  ReviewStands'
  BY <1>10 DEF FailRender, Respond, Idle, ArchivesInHand
<1>11. ASSUME NEW u \in Users, Die(u)
      PROVE  ReviewStands'
  BY <1>11 DEF Die, Respond, Idle
<1>12. ASSUME NEW u \in Users, Release(u)
      PROVE  ReviewStands'
  BY <1>12 DEF Release, Respond, Idle, ArchivesInHand
<1>13. CASE UNCHANGED vars
  BY <1>13 DEF vars
<1> QED
  BY <1>1, <1>2, <1>3, <1>4, <1>5, <1>6, <1>7, <1>8, <1>9, <1>10, <1>11,
     <1>12, <1>13 DEF Next

(* The invariant of a draft, and what it says of the archives.             *)
LEMMA DraftInvInit == Init => DraftInv
<1> USE DraftAssumption DEF Archives, ArchiveRows, NoArchive, Requests, Idle
<1> SUFFICES ASSUME Init
             PROVE  DraftInv
  OBVIOUS
<1>1. TypeOK
  <2>1. NoArchive \in ArchiveRows
    OBVIOUS
  <2>2. Idle \in Requests
      <3>1. 0 \in 0 .. MaxArchives
        OBVIOUS
      <3> QED
        BY <3>1 DEF Ops, Statuses
  <2>3. archive \in [1 .. MaxArchives -> ArchiveRows] /\ request \in [Users -> Requests]
    BY <2>1, <2>2 DEF Init
  <2>4. status \in Statuses
    BY DEF Init, Statuses
  <2>6. content \in Contents
    BY DEF Init
  <2>7. link \in 0 .. MaxArchives
    BY DEF Init
  <2>5. approved \subseteq Contents /\ lateEdit \in BOOLEAN
    BY DEF Init
  <2>8. crashes \in 0 .. MaxCrashes
    BY DEF Init
  <2> QED
    BY <2>3, <2>4, <2>5, <2>6, <2>7, <2>8 DEF TypeOK
<1>2. ArchivesInHand
  BY DEF Init, ArchivesInHand
<1>3. ReviewStands
  BY DEF Init, ReviewStands
<1> QED
  BY <1>1, <1>2, <1>3 DEF DraftInv

LEMMA DraftInvNext == DraftInv /\ [Next]_vars => DraftInv'
  BY DraftTypeNext, ArchivesInHandNext, ReviewStandsNext DEF DraftInv

LEMMA DraftInvMeans == DraftInv => RenderedAsApproved
<1> SUFFICES ASSUME DraftInv
             PROVE  RenderedAsApproved
  OBVIOUS
<1>1. status = "rendered" => link # 0 /\ archive[link].status = "completed"
  BY DEF DraftInv, ArchivesInHand
<1>2. ~lateEdit => \A a \in Archives :
        archive[a].status # "absent" => archive[a].content \in approved
  BY DEF DraftInv, ReviewStands
<1> QED
  BY <1>1, <1>2 DEF RenderedAsApproved

(* What no step does to an archive. *)
Frozen ==
  \A a \in Archives :
    /\ archive[a].status = "completed" =>
         /\ archive'[a].status = "completed"
         /\ archive'[a].content = archive[a].content
         /\ archive[a].released => archive'[a].released
    /\ archive'[a].released => archive'[a].status = "completed"

LEMMA DraftSteps == DraftInv /\ DraftInv' /\ [Next]_vars => Frozen
<1> USE DraftAssumption DEF DraftInv, TypeOK, ArchivesInHand, Archives, ArchiveRows, Requests, draftVars
<1> SUFFICES ASSUME DraftInv, DraftInv', [Next]_vars
             PROVE  Frozen
  OBVIOUS
<1>0. ASSUME archive' = archive
      PROVE  Frozen
  BY <1>0 DEF Frozen
<1>1. ASSUME NEW u \in Users, NEW op \in {"edit", "submit", "approve", "reject", "render"}, Read(u, op)
      PROVE  Frozen
  BY <1>1, <1>0 DEF Read, ReadAt
<1>2. ASSUME NEW u \in Users, NEW c \in Contents, Edit(u, c)
      PROVE  Frozen
  BY <1>2, <1>0 DEF Edit
<1>3. ASSUME NEW u \in Users, Submit(u)
      PROVE  Frozen
  BY <1>3, <1>0 DEF Submit
<1>4. ASSUME NEW u \in Users, Approve(u)
      PROVE  Frozen
  BY <1>4, <1>0 DEF Approve
<1>5. ASSUME NEW u \in Users, Reject(u)
      PROVE  Frozen
  BY <1>5, <1>0 DEF Reject
<1>6. ASSUME NEW u \in Users, RefuseRender(u)
      PROVE  Frozen
  BY <1>6, <1>0 DEF RefuseRender
<1>7. ASSUME NEW u \in Users, NEW a \in Archives, StartRender(u, a)
      PROVE  Frozen
  BY <1>7 DEF StartRender, Frozen
<1>8. ASSUME NEW u \in Users, NEW a \in Archives, ReadArchive(u, a)
      PROVE  Frozen
  BY <1>8, <1>0 DEF ReadArchive
<1>9. ASSUME NEW u \in Users, FinishRender(u)
      PROVE  Frozen
  BY <1>9 DEF FinishRender, Frozen
<1>10. ASSUME NEW u \in Users, FailRender(u)
      PROVE  Frozen
  BY <1>10 DEF FailRender, Frozen
<1>11. ASSUME NEW u \in Users, Die(u)
      PROVE  Frozen
  BY <1>11, <1>0 DEF Die
<1>12. ASSUME NEW u \in Users, Release(u)
      PROVE  Frozen
  BY <1>12 DEF Release, Frozen
<1>13. CASE UNCHANGED vars
  BY <1>13, <1>0 DEF vars

<1> QED
  BY <1>1, <1>2, <1>3, <1>4, <1>5, <1>6, <1>7, <1>8, <1>9, <1>10, <1>11,
     <1>12, <1>13 DEF Next

-----------------------------------------------------------------------------
(* Batches. *)

LEMMA PositionsAre == Positions = 1 .. Len(Items) /\ Len(Items) \in Nat
  BY BatchAssumption DEF Positions

LEMMA BatchShapeNext == BatchShape /\ CountedBehind /\ [BatchNext]_batchVars => BatchShape'
<1> USE PositionsAre, BatchAssumption DEF BatchShape
<1> SUFFICES ASSUME BatchShape, CountedBehind, [BatchNext]_batchVars
             PROVE  BatchShape'
  OBVIOUS
<1>1. CASE StartBatch
  <2>1. task' \in TaskStates
    BY <1>1 DEF StartBatch, TaskStates
  <2>2. item' \in [Positions -> ItemRows]
    BY <1>1 DEF StartBatch
  <2>3. card' \in Seq(CardRows)
    BY <1>1 DEF StartBatch
  <2> QED
    BY <1>1, <2>1, <2>2, <2>3 DEF StartBatch
<1>2. CASE BeginItem
  <2>1. task' \in TaskStates
    BY <1>2 DEF BeginItem, TaskStates
  <2>2. item' \in [Positions -> ItemRows]
    BY <1>2 DEF BeginItem, ItemRows
  <2>3. card' \in Seq(CardRows)
    BY <1>2 DEF BeginItem
  <2> QED
    BY <1>2, <2>1, <2>2, <2>3 DEF BeginItem
<1>3. CASE CreateCard
  <2>1. task' \in TaskStates
    BY <1>3 DEF CreateCard, TaskStates
  <2>2. item' \in [Positions -> ItemRows]
    BY <1>3 DEF CreateCard
  <2>3. card' \in Seq(CardRows)
    <3>1. [item |-> task.at, status |-> "processing", released |-> FALSE] \in CardRows
      BY <1>3 DEF CreateCard, CountedBehind, Rendering, CardRows
    <3> QED
      BY <1>3, <3>1 DEF CreateCard
  <2> QED
    BY <1>3, <2>1, <2>2, <2>3 DEF CreateCard
<1>4. CASE CompleteCard
  <2>1. task' \in TaskStates
    BY <1>4 DEF CompleteCard, TaskStates
  <2>2. item' \in [Positions -> ItemRows]
    BY <1>4 DEF CompleteCard
  <2>3. card' \in Seq(CardRows)
    <3>1. \A r \in CardRows : [r EXCEPT !.status = "completed"] \in CardRows
      BY DEF CardRows
    <3>2. DOMAIN card = 1 .. Len(card) /\ Len(card) \in Nat /\ card \in [1 .. Len(card) -> CardRows]
      OBVIOUS
    <3>3. card' \in [1 .. Len(card) -> CardRows]
      BY <1>4, <3>1, <3>2 DEF CompleteCard
    <3> QED
      BY <3>2, <3>3
  <2> QED
    BY <1>4, <2>1, <2>2, <2>3 DEF CompleteCard
<1>5. CASE CompleteItem
  <2>1. task' \in TaskStates
    <3>1. task.at + 1 \in Nat /\ task.done + 1 \in Nat /\ task.failed + 1 \in Nat
      BY DEF TaskStates
    <3> QED
      BY <1>5, <3>1 DEF CompleteItem, TaskStates
  <2>2. item' \in [Positions -> ItemRows]
    <3>1. [status |-> "completed", report |-> Len(card)] \in ItemRows
      BY DEF ItemRows
    <3> QED
      BY <1>5, <3>1 DEF CompleteItem
  <2>3. card' \in Seq(CardRows)
    BY <1>5 DEF CompleteItem
  <2> QED
    BY <1>5, <2>1, <2>2, <2>3 DEF CompleteItem
<1>6. CASE FailItem
  <2>1. task' \in TaskStates
    <3>1. task.at + 1 \in Nat /\ task.done + 1 \in Nat /\ task.failed + 1 \in Nat
      BY DEF TaskStates
    <3> QED
      BY <1>6, <3>1 DEF FailItem, TaskStates
  <2>2. item' \in [Positions -> ItemRows]
    BY <1>6 DEF FailItem, ItemRows
  <2>3. card' \in Seq(CardRows)
    BY <1>6 DEF FailItem
  <2> QED
    BY <1>6, <2>1, <2>2, <2>3 DEF FailItem
<1>7. CASE FinishBatch
  <2>1. task' \in TaskStates
    BY <1>7 DEF FinishBatch, NoTask, TaskStates
  <2>2. item' \in [Positions -> ItemRows]
    BY <1>7 DEF FinishBatch
  <2>3. card' \in Seq(CardRows)
    BY <1>7 DEF FinishBatch
  <2> QED
    BY <1>7, <2>1, <2>2, <2>3 DEF FinishBatch, Outcome
<1>8. CASE RetryBatch
  <2>1. task' \in TaskStates
    <3>1. task.tries + 1 \in Nat
      BY DEF TaskStates
    <3>2. task' = NoTask \/ task' = [NoTask EXCEPT !.pc = "queued", !.tries = task.tries + 1]
      BY <1>8 DEF RetryBatch
    <3>3. NoTask \in TaskStates
      BY DEF NoTask, TaskStates
    <3>4. [NoTask EXCEPT !.pc = "queued", !.tries = task.tries + 1] \in TaskStates
      BY <3>1, <3>3 DEF TaskStates
    <3> QED
      BY <3>2, <3>3, <3>4
  <2>2. item' \in [Positions -> ItemRows]
    BY <1>8 DEF RetryBatch
  <2>3. card' \in Seq(CardRows)
    BY <1>8 DEF RetryBatch
  <2> QED
    BY <1>8, <2>1, <2>2, <2>3 DEF RetryBatch
<1>9. CASE LoseBatch
  <2>1. task' \in TaskStates
    BY <1>9 DEF LoseBatch, NoTask, TaskStates
  <2>2. item' \in [Positions -> ItemRows]
    BY <1>9 DEF LoseBatch
  <2>3. card' \in Seq(CardRows)
    BY <1>9 DEF LoseBatch
  <2> QED
    BY <1>9, <2>1, <2>2, <2>3 DEF LoseBatch
<1>10. CASE ReleaseBatch
  <2>1. task' \in TaskStates
    BY <1>10 DEF ReleaseBatch
  <2>2. item' \in [Positions -> ItemRows]
    BY <1>10 DEF ReleaseBatch
  <2>3. card' \in Seq(CardRows)
    <3>1. \A r \in CardRows, b \in BOOLEAN : [r EXCEPT !.released = b] \in CardRows
      BY DEF CardRows
    <3>2. DOMAIN card = 1 .. Len(card) /\ Len(card) \in Nat /\ card \in [1 .. Len(card) -> CardRows]
      OBVIOUS
    <3>4. \A r \in CardRows : r.released \in BOOLEAN
      BY DEF CardRows
    <3>3. card' \in [1 .. Len(card) -> CardRows]
      BY <1>10, <3>1, <3>2, <3>4 DEF ReleaseBatch
    <3> QED
      BY <3>2, <3>3
  <2> QED
    BY <1>10, <2>1, <2>2, <2>3 DEF ReleaseBatch
<1>11. CASE UNCHANGED batchVars
  BY <1>11 DEF batchVars
<1> QED
  BY <1>1, <1>2, <1>3, <1>4, <1>5, <1>6, <1>7, <1>8, <1>9, <1>10, <1>11 DEF BatchNext

(* Counting what is behind the task: one item more, and no item twice.     *)
LEMMA CountsOne ==
  ASSUME NEW n \in Nat, NEW S, NEW T,
         S \subseteq 1 .. n, T \in {S, S \cup {n + 1}}
  PROVE  /\ IsFiniteSet(S) /\ Cardinality(S) \in Nat
         /\ Cardinality(T) = IF n + 1 \in T THEN Cardinality(S) + 1 ELSE Cardinality(S)
<1>1. IsFiniteSet(1 .. n)
  BY FS_Interval
<1>2. IsFiniteSet(S) /\ Cardinality(S) \in Nat
  BY <1>1, FS_Subset, FS_CardinalityType
<1>3. n + 1 \notin S
  OBVIOUS
<1>4. CASE T = S
  BY <1>2, <1>3, <1>4
<1>5. CASE T = S \cup {n + 1}
  BY <1>2, <1>3, <1>5, FS_AddElement
<1> QED
  BY <1>2, <1>4, <1>5

(* An item that is done moves the task on and is counted once, as what it  *)
(* became.                                                                 *)
LEMMA CountedMovesOn ==
  ASSUME BatchShape, BatchShape', CountedBehind, task.pc \in Rendering,
         NEW s \in {"completed", "failed"},
         item'[task.at].status = s,
         \A i \in Positions \ {task.at} : item'[i] = item[i],
         task'.pc = "next", task'.at = task.at + 1,
         task'.done = IF s = "completed" THEN task.done + 1 ELSE task.done,
         task'.failed = IF s = "failed" THEN task.failed + 1 ELSE task.failed
  PROVE  CountedBehind'
<1> USE PositionsAre
<1> DEFINE k == task.at - 1
<1>1. task.at \in Positions /\ task.at \in Nat /\ k \in Nat /\ k + 1 = task.at /\ task'.at - 1 = k + 1
  BY DEF CountedBehind, Rendering
<1>2. \A i \in 1 .. k : i \in Positions \ {task.at} /\ item'[i] = item[i]
  BY <1>1
<1>3. ASSUME NEW r \in {"completed", "failed"}
      PROVE  /\ Done(r) \subseteq 1 .. k
             /\ Done(r)' = IF r = s THEN Done(r) \cup {k + 1} ELSE Done(r)
  <2>1. Done(r) = {i \in 1 .. k : item[i].status = r}
    BY DEF Done
  <2>2. Done(r)' = {i \in 1 .. k + 1 : item'[i].status = r}
    BY <1>1 DEF Done
  <2>3. 1 .. k + 1 = (1 .. k) \cup {k + 1}
    BY <1>1
  <2> QED
    BY <1>1, <1>2, <2>1, <2>2, <2>3
<1>4. ASSUME NEW r \in {"completed", "failed"}
      PROVE  Cardinality(Done(r)') = IF r = s THEN Cardinality(Done(r)) + 1 ELSE Cardinality(Done(r))
  <2>1. Done(r)' \in {Done(r), Done(r) \cup {k + 1}} /\ (k + 1 \in Done(r)' <=> r = s)
    BY <1>1, <1>3
  <2> QED
    BY <1>1, <1>3, <2>1, CountsOne
<1>5. task.done = Cardinality(Done("completed")) /\ task.failed = Cardinality(Done("failed"))
  BY DEF CountedBehind, Rendering
<1>6. task.done \in Nat /\ task.failed \in Nat
  BY DEF BatchShape, TaskStates
<1>7. task'.done = Cardinality(Done("completed")') /\ task'.failed = Cardinality(Done("failed")')
  BY <1>4, <1>5
<1>8. task'.done + task'.failed = task'.at - 1
  <2>1. task.done + task.failed = task.at - 1
    BY DEF CountedBehind, Rendering
  <2>2. CASE s = "completed"
    BY <1>1, <1>6, <2>1, <2>2
  <2>3. CASE s = "failed"
    BY <1>1, <1>6, <2>1, <2>3
  <2> QED
    BY <2>2, <2>3
<1>9. \A i \in 1 .. task'.at - 1 : item'[i].status \in {"completed", "failed"}
  <2>1. \A i \in 1 .. task'.at - 1 : i \in 1 .. k \/ i = task.at
    BY <1>1
  <2> QED
    BY <1>2, <2>1 DEF CountedBehind, Rendering
<1>10. task'.at \in 1 .. Len(Items) + 1
  BY <1>1
<1> QED
  BY <1>7, <1>8, <1>9, <1>10 DEF CountedBehind

(* Behind a task that begins there is nothing.                             *)
LEMMA CountedAtStart ==
  ASSUME task'.at = 1, task'.done = 0, task'.failed = 0, task'.pc = "next"
  PROVE  CountedBehind'
<1>1. Done("completed")' = {} /\ Done("failed")' = {}
  BY DEF Done
<1>2. Cardinality({}) = 0
  BY FS_EmptySet
<1>3. Cardinality(Done("completed")') = 0 /\ Cardinality(Done("failed")') = 0
  BY <1>1, <1>2
<1> QED
  BY <1>3, PositionsAre DEF CountedBehind

(* As long as the task stays where it is, what is behind it stays too.     *)
LEMMA CountedStays ==
  ASSUME BatchShape, CountedBehind,
         task'.at = task.at, task'.done = task.done, task'.failed = task.failed,
         task.pc \in Rendering \cup {"next"}, task'.pc \in Rendering,
         task.at \in Positions,
         \A i \in Positions \ {task.at} : item'[i] = item[i]
  PROVE  CountedBehind'
<1> USE PositionsAre
<1>1. \A i \in 1 .. task.at - 1 : item'[i] = item[i]
  BY DEF BatchShape
<1>2. \A s : Done(s)' = Done(s)
  BY <1>1 DEF Done
<1> QED
  BY <1>1, <1>2 DEF CountedBehind, Rendering

LEMMA CountedNext == BatchShape /\ BatchShape' /\ CountedBehind /\ [BatchNext]_batchVars => CountedBehind'
<1> USE PositionsAre
<1> SUFFICES ASSUME BatchShape, BatchShape', CountedBehind, [BatchNext]_batchVars
             PROVE  CountedBehind'
  OBVIOUS
<1>0. ASSUME task' = task, item' = item
      PROVE  CountedBehind'
  BY <1>0 DEF CountedBehind, Done
<1>1. CASE StartBatch
  BY <1>1, CountedAtStart DEF StartBatch, BatchShape, TaskStates
<1>2. CASE BeginItem
  <2>1. task.at \in Positions
    BY <1>2 DEF BeginItem, CountedBehind
  <2>2. \A i \in Positions \ {task.at} : item'[i] = item[i]
    BY <1>2 DEF BeginItem, BatchShape
  <2>3. /\ task'.at = task.at /\ task'.done = task.done /\ task'.failed = task.failed
        /\ task.pc = "next" /\ task'.pc = "build"
    BY <1>2 DEF BeginItem, BatchShape, TaskStates
  <2> QED
    BY <2>1, <2>2, <2>3, CountedStays DEF Rendering
<1>3. CASE CreateCard
  <2>1. /\ task'.at = task.at /\ task'.done = task.done /\ task'.failed = task.failed
        /\ task.pc = "build" /\ task'.pc = "render" /\ item' = item
    BY <1>3 DEF CreateCard, BatchShape, TaskStates
  <2>2. task.at \in Positions
    BY <2>1 DEF CountedBehind, Rendering
  <2> QED
    BY <2>1, <2>2, CountedStays DEF Rendering
<1>4. CASE CompleteCard
  <2>1. /\ task'.at = task.at /\ task'.done = task.done /\ task'.failed = task.failed
        /\ task.pc = "render" /\ task'.pc = "pack" /\ item' = item
    BY <1>4 DEF CompleteCard, BatchShape, TaskStates
  <2>2. task.at \in Positions
    BY <2>1 DEF CountedBehind, Rendering
  <2> QED
    BY <2>1, <2>2, CountedStays DEF Rendering
<1>5. CASE CompleteItem
  <2>1. /\ task.pc \in Rendering /\ task'.pc = "next" /\ task'.at = task.at + 1
        /\ task'.done = task.done + 1 /\ task'.failed = task.failed
    BY <1>5 DEF CompleteItem, Rendering, BatchShape, TaskStates
  <2>2. task.at \in Positions
    BY <2>1 DEF CountedBehind, Rendering
  <2>3. item'[task.at].status = "completed" /\ \A i \in Positions \ {task.at} : item'[i] = item[i]
    BY <1>5, <2>2 DEF CompleteItem, BatchShape, ItemRows
  <2> QED
    BY <2>1, <2>3, CountedMovesOn
<1>6. CASE FailItem
  <2>1. /\ task.pc \in Rendering /\ task'.pc = "next" /\ task'.at = task.at + 1
        /\ task'.failed = task.failed + 1 /\ task'.done = task.done
    BY <1>6 DEF FailItem, Rendering, BatchShape, TaskStates
  <2>2. task.at \in Positions
    BY <2>1 DEF CountedBehind, Rendering
  <2>3. item'[task.at].status = "failed" /\ \A i \in Positions \ {task.at} : item'[i] = item[i]
    BY <1>6, <2>2 DEF FailItem, BatchShape, ItemRows
  <2> QED
    BY <2>1, <2>3, CountedMovesOn
<1>7. CASE FinishBatch
  BY <1>7 DEF FinishBatch, NoTask, CountedBehind, Rendering
<1>8. CASE RetryBatch
  <2>1. task' = NoTask \/ task' = [NoTask EXCEPT !.pc = "queued", !.tries = task.tries + 1]
    BY <1>8 DEF RetryBatch
  <2>2. task'.pc \in {"none", "queued"}
    <3>1. CASE task' = NoTask
      BY <3>1 DEF NoTask
    <3>2. CASE task' = [NoTask EXCEPT !.pc = "queued", !.tries = task.tries + 1]
      BY <3>2 DEF NoTask
    <3> QED
      BY <2>1, <3>1, <3>2
  <2> QED
    BY <2>2 DEF CountedBehind, Rendering
<1>9. CASE LoseBatch
  BY <1>9 DEF LoseBatch, NoTask, CountedBehind, Rendering
<1>10. CASE ReleaseBatch
  BY <1>10, <1>0 DEF ReleaseBatch
<1>11. CASE UNCHANGED batchVars
  BY <1>11, <1>0 DEF batchVars

<1> QED
  BY <1>1, <1>2, <1>3, <1>4, <1>5, <1>6, <1>7, <1>8, <1>9, <1>10, <1>11 DEF BatchNext

(* Archives are added and completed, never taken away; the last one is the *)
(* one of the item under way.                                              *)
LEMMA ItemsHaveCardsNext ==
  BatchShape /\ BatchShape' /\ CountedBehind /\ ItemsHaveCards /\ [BatchNext]_batchVars => ItemsHaveCards'
<1> USE PositionsAre
<1> SUFFICES ASSUME BatchShape, BatchShape', CountedBehind, ItemsHaveCards, [BatchNext]_batchVars
             PROVE  ItemsHaveCards'
  OBVIOUS
<1> DEFINE Kept == /\ DOMAIN card \subseteq DOMAIN card'
                   /\ \A c \in DOMAIN card :
                        /\ card'[c].item = card[c].item
                        /\ card[c].status = "completed" => card'[c].status = "completed"
<1>a. Len(card) \in Nat /\ DOMAIN card = 1 .. Len(card) /\ DOMAIN card' = 1 .. Len(card')
  BY DEF BatchShape
<1>b. \A c \in DOMAIN card : card[c] \in CardRows /\ DOMAIN card[c] = {"item", "status", "released"}
  <2>1. \A c \in DOMAIN card : card[c] \in CardRows
    BY DEF BatchShape
  <2>2. \A r \in CardRows : DOMAIN r = {"item", "status", "released"}
    BY DEF CardRows
  <2> QED
    BY <2>1, <2>2
<1>c. \A i \in Positions : DOMAIN item[i] = {"status", "report"}
  BY DEF BatchShape, ItemRows
<1>0. ASSUME Kept, NEW i \in Positions, item'[i] = item[i], item[i].status = "completed"
      PROVE  /\ item'[i].report \in DOMAIN card'
             /\ card'[item'[i].report].item = i
             /\ card'[item'[i].report].status = "completed"
  BY <1>0 DEF ItemsHaveCards
<1>1. CASE StartBatch
  <2>1. item' = item /\ card' = card /\ task'.pc \notin {"render", "pack"}
    BY <1>1 DEF StartBatch, BatchShape, TaskStates
  <2> QED
    BY <2>1 DEF ItemsHaveCards
<1>2. CASE BeginItem
  <2>1. task'.pc = "build" /\ card' = card
    BY <1>2 DEF BeginItem, BatchShape, TaskStates
  <2>2. \A i \in Positions : item'[i].status = "completed" => item'[i] = item[i]
    BY <1>2 DEF BeginItem, BatchShape, ItemRows
  <2> QED
    BY <2>1, <2>2, <1>0 DEF ItemsHaveCards
<1>3. CASE CreateCard
  <2>1. task'.pc = "render" /\ task'.at = task.at /\ item' = item
    BY <1>3 DEF CreateCard, BatchShape, TaskStates
  <2> DEFINE r == [item |-> task.at, status |-> "processing", released |-> FALSE]
  <2>2. r \in CardRows /\ card' = Append(card, r)
    BY <1>3 DEF CreateCard, CountedBehind, Rendering, CardRows
  <2>3. Len(card') = Len(card) + 1 /\ card'[Len(card')] = r /\ \A j \in DOMAIN card : card'[j] = card[j]
    BY <2>2, <1>a DEF BatchShape
  <2>4. Kept
    BY <2>3, <1>a
  <2>5. Len(card') # 0 /\ card'[Len(card')].item = task'.at
    BY <2>1, <2>3, <1>a
  <2> QED
    BY <2>1, <2>4, <2>5, <1>0 DEF ItemsHaveCards
<1>4. CASE CompleteCard
  <2>1. task'.pc = "pack" /\ task'.at = task.at /\ item' = item
    BY <1>4 DEF CompleteCard, BatchShape, TaskStates
  <2>2. Len(card) # 0 /\ Len(card) \in DOMAIN card /\ card[Len(card)].item = task.at
    BY <1>4, <1>a DEF CompleteCard, ItemsHaveCards
  <2>3. Len(card') = Len(card)
    BY <1>4 DEF CompleteCard, BatchShape
  <2>4. \A j \in DOMAIN card : card'[j] = IF j = Len(card) THEN [card[j] EXCEPT !.status = "completed"] ELSE card[j]
    BY <1>4, <2>2 DEF CompleteCard, BatchShape
  <2>5. Kept
    BY <2>3, <2>4, <1>a, <1>b
  <2>6. Len(card') # 0 /\ card'[Len(card')].item = task'.at /\ card'[Len(card')].status = "completed"
    BY <2>1, <2>2, <2>3, <2>4, <1>b
  <2> QED
    BY <2>1, <2>5, <2>6, <1>0 DEF ItemsHaveCards
<1>5. CASE CompleteItem
  <2>1. task'.pc = "next" /\ card' = card
    BY <1>5 DEF CompleteItem, BatchShape, TaskStates
  <2>2. /\ Len(card) # 0 /\ Len(card) \in DOMAIN card
        /\ card[Len(card)].item = task.at /\ card[Len(card)].status = "completed"
    BY <1>5, <1>a DEF CompleteItem, ItemsHaveCards
  <2>3. \A i \in Positions :
          item'[i] = IF i = task.at THEN [status |-> "completed", report |-> Len(card)] ELSE item[i]
    BY <1>5 DEF CompleteItem, BatchShape
  <2> QED
    BY <2>1, <2>2, <2>3, <1>0 DEF ItemsHaveCards
<1>6. CASE FailItem
  <2>1. task'.pc = "next" /\ card' = card
    BY <1>6 DEF FailItem, BatchShape, TaskStates
  <2>2. \A i \in Positions : item'[i].status = "completed" => item'[i] = item[i]
    BY <1>6 DEF FailItem, BatchShape, ItemRows
  <2> QED
    BY <2>1, <2>2, <1>0 DEF ItemsHaveCards
<1>7. CASE FinishBatch
  <2>1. item' = item /\ card' = card /\ task'.pc \notin {"render", "pack"}
    BY <1>7 DEF FinishBatch, NoTask
  <2> QED
    BY <2>1 DEF ItemsHaveCards
<1>8. CASE RetryBatch
  <2>1. item' = item /\ card' = card /\ task'.pc \notin {"render", "pack"}
    <3>1. CASE task' = NoTask
      BY <1>8, <3>1 DEF RetryBatch, NoTask
    <3>2. CASE task' = [NoTask EXCEPT !.pc = "queued", !.tries = task.tries + 1]
      BY <1>8, <3>2 DEF RetryBatch, NoTask
    <3> QED
      BY <1>8, <3>1, <3>2 DEF RetryBatch
  <2> QED
    BY <2>1 DEF ItemsHaveCards
<1>9. CASE LoseBatch
  <2>1. item' = item /\ card' = card /\ task'.pc \notin {"render", "pack"}
    BY <1>9 DEF LoseBatch, NoTask
  <2> QED
    BY <2>1 DEF ItemsHaveCards
<1>10. CASE ReleaseBatch
  <2>1. task' = task /\ item' = item
    BY <1>10 DEF ReleaseBatch
  <2>2. /\ DOMAIN card' = DOMAIN card
        /\ \A j \in DOMAIN card : card'[j].item = card[j].item /\ card'[j].status = card[j].status
    BY <1>10, <1>b DEF ReleaseBatch
  <2>3. Len(card') = Len(card)
    BY <2>2, <1>a DEF BatchShape
  <2>4. Kept
    BY <2>2
  <2> QED
    BY <2>1, <2>2, <2>3, <2>4, <1>a, <1>0 DEF ItemsHaveCards
<1>11. CASE UNCHANGED batchVars
  BY <1>11 DEF batchVars, ItemsHaveCards

<1> QED
  BY <1>1, <1>2, <1>3, <1>4, <1>5, <1>6, <1>7, <1>8, <1>9, <1>10, <1>11 DEF BatchNext

(* A batch that is finished has no task any more, so that nothing renders  *)
(* its items again.                                                        *)
LEMMA UnfinishedBatchNext ==
  BatchShape /\ UnfinishedBatch /\ [BatchNext]_batchVars => UnfinishedBatch'
<1> USE DEF UnfinishedBatch
<1> SUFFICES ASSUME BatchShape, UnfinishedBatch, [BatchNext]_batchVars
             PROVE  UnfinishedBatch'
  OBVIOUS
<1>1. CASE StartBatch
  BY <1>1 DEF StartBatch, BatchShape
<1>2. CASE BeginItem
  BY <1>2 DEF BeginItem
<1>3. CASE CreateCard
  BY <1>3 DEF CreateCard
<1>4. CASE CompleteCard
  BY <1>4 DEF CompleteCard
<1>5. CASE CompleteItem
  BY <1>5 DEF CompleteItem
<1>6. CASE FailItem
  BY <1>6 DEF FailItem
<1>7. CASE FinishBatch
  <2>1. task' = NoTask /\ batch'.status \in {"completed", "partial", "failed"}
    BY <1>7 DEF FinishBatch, Outcome
  <2> QED
    BY <2>1 DEF NoTask
<1>8. CASE RetryBatch
  <2>1. batch' = batch /\ task.pc = "next"
    BY <1>8 DEF RetryBatch
  <2> QED
    BY <2>1
<1>9. CASE LoseBatch
  BY <1>9 DEF LoseBatch, NoTask
<1>10. CASE ReleaseBatch
  BY <1>10 DEF ReleaseBatch
<1>11. CASE UNCHANGED batchVars
  BY <1>11 DEF batchVars

<1> QED
  BY <1>1, <1>2, <1>3, <1>4, <1>5, <1>6, <1>7, <1>8, <1>9, <1>10, <1>11 DEF BatchNext

LEMMA TotalsAreTheRest == BatchShape /\ ItemsHaveCards /\ Totals => BatchTellsTheTruth
<1> SUFFICES ASSUME BatchShape, ItemsHaveCards, Totals
             PROVE  BatchTellsTheTruth
  OBVIOUS
<1>1. \A i \in Positions : item[i].status = "completed" =>
        /\ item[i].report # Unlinked
        /\ card[item[i].report].item = i
        /\ card[item[i].report].status = "completed"
  <2>1. 0 \notin DOMAIN card
    BY DEF BatchShape
  <2> QED
    BY <2>1 DEF ItemsHaveCards, Unlinked
<1> QED
  BY <1>1 DEF BatchTellsTheTruth, Totals

LEMMA TotalsNext ==
  BatchShape /\ BatchShape' /\ CountedBehind /\ UnfinishedBatch /\ Totals /\ [BatchNext]_batchVars => Totals'
<1> USE PositionsAre
<1> SUFFICES ASSUME BatchShape, BatchShape', CountedBehind, UnfinishedBatch, Totals, [BatchNext]_batchVars
             PROVE  Totals'
  OBVIOUS
<1>a. ASSUME batch'.status \in {"queued", "processing"}
      PROVE  Totals'
  BY <1>a DEF Totals
<1>b. ASSUME batch' = batch, item' = item
      PROVE  Totals'
  BY <1>b DEF Totals
<1>1. CASE StartBatch
  BY <1>1, <1>a DEF StartBatch, BatchShape
<1>2. CASE BeginItem
  BY <1>2, <1>a DEF BeginItem, UnfinishedBatch
<1>3. CASE CreateCard
  BY <1>3, <1>a DEF CreateCard, UnfinishedBatch
<1>4. CASE CompleteCard
  BY <1>4, <1>a DEF CompleteCard, UnfinishedBatch
<1>5. CASE CompleteItem
  BY <1>5, <1>a DEF CompleteItem, UnfinishedBatch
<1>6. CASE FailItem
  BY <1>6, <1>a DEF FailItem, UnfinishedBatch
<1>7. CASE FinishBatch
  <2>1. /\ task.pc = "next" /\ task.at = Len(Items) + 1 /\ item' = item
        /\ batch' = [status |-> Outcome, done |-> task.done, failed |-> task.failed,
                     zip |-> batch.zip \/ task.done > 0]
    BY <1>7 DEF FinishBatch, CountedBehind
  <2>2. /\ task.done = Cardinality(Done("completed")) /\ task.failed = Cardinality(Done("failed"))
        /\ task.done + task.failed = Len(Items)
    BY <2>1 DEF CountedBehind
  <2>3. \A s : Done(s) = {i \in Positions : item'[i].status = s}
    BY <2>1 DEF Done
  <2>4. batch.zip = FALSE
    BY <2>1 DEF UnfinishedBatch
  <2>5. batch'.zip = (batch'.done > 0) /\ batch'.done = task.done /\ batch'.failed = task.failed
    BY <2>1, <2>4
  <2> QED
    BY <2>2, <2>3, <2>5 DEF Totals
<1>8. CASE RetryBatch
  BY <1>8, <1>b DEF RetryBatch
<1>9. CASE LoseBatch
  BY <1>9, <1>b DEF LoseBatch
<1>10. CASE ReleaseBatch
  BY <1>10, <1>b DEF ReleaseBatch
<1>11. CASE UNCHANGED batchVars
  BY <1>11, <1>b DEF batchVars

<1> QED
  BY <1>1, <1>2, <1>3, <1>4, <1>5, <1>6, <1>7, <1>8, <1>9, <1>10, <1>11 DEF BatchNext

LEMMA BatchInvInit == BatchInit => BatchInv
<1> USE PositionsAre
<1> SUFFICES ASSUME BatchInit
             PROVE  BatchInv
  OBVIOUS
<1>1. BatchShape
  <2>1. [status |-> "queued", report |-> Unlinked] \in ItemRows
    BY DEF ItemRows, Unlinked
  <2>2. item \in [Positions -> ItemRows]
    BY <2>1 DEF BatchInit
  <2>3. card \in Seq(CardRows)
    BY DEF BatchInit
  <2>4. task \in TaskStates
    BY DEF BatchInit, NoTask, TaskStates
  <2>5. batch.status = "queued"
    BY DEF BatchInit
  <2> QED
    BY <2>2, <2>3, <2>4, <2>5 DEF BatchShape
<1>2. task.pc = "queued" /\ batch.status = "queued" /\ batch.zip = FALSE
  BY DEF BatchInit, NoTask
<1>3. \A i \in Positions : item[i].status = "queued"
  BY DEF BatchInit
<1>4. CountedBehind
  BY <1>2 DEF CountedBehind, Rendering
<1>5. ItemsHaveCards
  BY <1>2, <1>3 DEF ItemsHaveCards
<1>6. UnfinishedBatch
  BY <1>2 DEF UnfinishedBatch
<1>7. Totals
  BY <1>2 DEF Totals
<1> QED
  BY <1>1, <1>4, <1>5, <1>6, <1>7 DEF BatchInv

LEMMA BatchInvNext == BatchInv /\ [BatchNext]_batchVars => BatchInv'
<1> SUFFICES ASSUME BatchInv, [BatchNext]_batchVars
             PROVE  BatchInv'
  OBVIOUS
<1> USE DEF BatchInv
<1>1. BatchShape'
  BY BatchShapeNext
<1>2. CountedBehind'
  BY <1>1, CountedNext
<1>3. ItemsHaveCards' /\ UnfinishedBatch'
  BY <1>1, ItemsHaveCardsNext, UnfinishedBatchNext
<1>4. Totals'
  BY <1>1, TotalsNext
<1> QED
  BY <1>1, <1>2, <1>3, <1>4

-----------------------------------------------------------------------------
(* Sums over finite sets.  The least element of a set of naturals stands   *)
(* in for an induction. *)

LEMMA NaturalsAreReached ==
  ASSUME NEW P, 0 \in P, \A n \in Nat : n \in P => n + 1 \in P
  PROVE  Nat \subseteq P
<1> DEFINE Less == {p \in Nat \X Nat : p[1] < p[2]}
           Q == Nat \ P
<1>1. IsWellFoundedOn(Less, Nat)
  BY NatLessThanWellFounded DEF OpToRel
<1>2. SUFFICES ASSUME Q # {} PROVE FALSE
  OBVIOUS
<1>3. PICK n \in Q : \A k \in Q : <<k, n>> \notin Less
  <2> HIDE DEF Less
  <2>1. Q \subseteq Nat
    OBVIOUS
  <2> HIDE DEF Q
  <2> QED BY <1>1, <1>2, <2>1, WFMin
<1>4. n - 1 \in Nat /\ n - 1 \notin Q
  <2>1. n \in Nat /\ n # 0
    OBVIOUS
  <2>2. n - 1 \in Nat /\ <<n - 1, n>> \in Less
    BY <2>1
  <2> QED BY <1>3, <2>2
<1>5. n \in Nat /\ n \notin P /\ n - 1 + 1 = n
  OBVIOUS
<1> QED BY <1>4, <1>5

Pick(t) == CHOOSE x \in t : TRUE

(* One of the functions that sum g over the subsets of S, from each        *)
(* subset's by leaving out one element.                                    *)
Sums(it, g, S) ==
  it = [t \in SUBSET S |-> IF t = {} THEN 0 ELSE g[Pick(t)] + it[t \ {Pick(t)}]]

LEMMA PickedIsLess ==
  ASSUME NEW S, IsFiniteSet(S), NEW t \in SUBSET S, t # {}
  PROVE  /\ Pick(t) \in t /\ Pick(t) \in S /\ t \ {Pick(t)} \in SUBSET S
         /\ Cardinality(t) \in Nat \ {0}
         /\ Cardinality(t \ {Pick(t)}) = Cardinality(t) - 1
<1>1. Pick(t) \in t
  BY DEF Pick
<1>2. IsFiniteSet(t) /\ Cardinality(t) \in Nat
  BY FS_Subset, FS_CardinalityType
<1>3. Cardinality(t) # 0
  BY <1>2, FS_EmptySet
<1> QED BY <1>1, <1>2, <1>3, FS_RemoveElement

LEMMA SumsExist ==
  ASSUME NEW S, IsFiniteSet(S), NEW g, \A a \in S : g[a] \in Int
  PROVE  \E it : Sums(it, g, S)
<1> DEFINE Small(n) == {t \in SUBSET S : Cardinality(t) <= n}
           Right(n, h) == \A t \in Small(n) :
                            h[t] = IF t = {} THEN 0 ELSE g[Pick(t)] + h[t \ {Pick(t)}]
           P == {n \in Nat : \E h \in [Small(n) -> Int] : Right(n, h)}
<1>1. 0 \in P
  <2>1. Small(0) = {{}}
    <3>1. \A t \in SUBSET S : IsFiniteSet(t) /\ Cardinality(t) \in Nat
      BY FS_Subset, FS_CardinalityType
    <3> QED BY <3>1, FS_EmptySet
  <2>2. [t \in Small(0) |-> 0] \in [Small(0) -> Int] /\ Right(0, [t \in Small(0) |-> 0])
    BY <2>1
  <2> QED BY <2>2
<1>2. ASSUME NEW n \in Nat, n \in P
      PROVE  n + 1 \in P
  <2>1. PICK h \in [Small(n) -> Int] : Right(n, h)
    BY <1>2
  <2> DEFINE k == [t \in Small(n + 1) |->
                     IF t = {} THEN 0 ELSE g[Pick(t)] + h[t \ {Pick(t)}]]
  <2>2. ASSUME NEW t \in Small(n + 1), t # {}
        PROVE  g[Pick(t)] \in Int /\ t \ {Pick(t)} \in Small(n)
    BY <2>2, PickedIsLess
  <2>3. k \in [Small(n + 1) -> Int]
    BY <2>1, <2>2
  <2>4. \A t \in Small(n) : t \in Small(n + 1) /\ k[t] = h[t]
    <3>1. ASSUME NEW t \in Small(n) PROVE t \in Small(n + 1)
      BY FS_Subset, FS_CardinalityType
    <3> QED BY <2>1, <3>1
  <2>5. Right(n + 1, k)
    BY <2>2, <2>4
  <2> HIDE DEF k, Small, Right
  <2>6. \E f \in [Small(n + 1) -> Int] : Right(n + 1, f)
    BY <2>3, <2>5
  <2> QED BY <2>6
<1> HIDE DEF P
<1>3. Nat \subseteq P
  BY <1>1, <1>2, NaturalsAreReached
<1>4. Cardinality(S) \in Nat
  BY FS_CardinalityType
<1>5. PICK h \in [Small(Cardinality(S)) -> Int] : Right(Cardinality(S), h)
  BY <1>3, <1>4 DEF P
<1>6. Small(Cardinality(S)) = SUBSET S
  BY FS_Subset
<1>7. h = [t \in SUBSET S |-> IF t = {} THEN 0 ELSE g[Pick(t)] + h[t \ {Pick(t)}]]
  BY <1>5, <1>6
<1> QED BY <1>7 DEF Sums

LEMMA SumsAreIntegers ==
  ASSUME NEW S, IsFiniteSet(S), NEW g, \A a \in S : g[a] \in Int, NEW it, Sums(it, g, S)
  PROVE  it[S] \in Int
<1> DEFINE P == {n \in Nat : \A t \in SUBSET S : Cardinality(t) = n => it[t] \in Int}
<1>1. 0 \in P
  <2>1. ASSUME NEW t \in SUBSET S, Cardinality(t) = 0 PROVE t = {}
    BY <2>1, FS_Subset, FS_EmptySet
  <2> QED BY <2>1 DEF Sums
<1>2. ASSUME NEW n \in Nat, n \in P
      PROVE  n + 1 \in P
  <2>1. ASSUME NEW t \in SUBSET S, Cardinality(t) = n + 1
        PROVE  it[t] \in Int
    <3>1. t # {}
      BY <2>1, FS_EmptySet
    <3>2. Cardinality(t \ {Pick(t)}) = n /\ g[Pick(t)] \in Int /\ t \ {Pick(t)} \in SUBSET S
      BY <2>1, <3>1, PickedIsLess
    <3>3. it[t] = g[Pick(t)] + it[t \ {Pick(t)}]
      BY <3>1 DEF Sums
    <3> QED BY <1>2, <3>2, <3>3
  <2> QED BY <2>1
<1> HIDE DEF P
<1>3. Nat \subseteq P
  BY <1>1, <1>2, NaturalsAreReached
<1>4. Cardinality(S) \in P
  BY <1>3, FS_CardinalityType
<1> QED BY <1>4 DEF P

(* What the averages are made of, with the fold of the library unfolded.   *)
SumOfMarks(m, s, S) ==
  CHOOSE it : it = [t \in SUBSET S |->
                      IF t = {} THEN 0 ELSE 100 * m[Pick(t)][s] + it[t \ {Pick(t)}]]

LEMMA SumOfMarksIsAnInteger ==
  ASSUME NEW S, IsFiniteSet(S), NEW m, NEW s, \A a \in S : m[a][s] \in Int
  PROVE  SumOfMarks(m, s, S)[S] \in Int
<1> DEFINE g == [a \in S |-> 100 * m[a][s]]
           Sum(it) == it = [t \in SUBSET S |->
                              IF t = {} THEN 0 ELSE 100 * m[Pick(t)][s] + it[t \ {Pick(t)}]]
           c == CHOOSE it : Sum(it)
<1>1. SumOfMarks(m, s, S)[S] = c[S]
  BY DEF SumOfMarks
<1>2. \A a \in S : g[a] \in Int
  OBVIOUS
<1>3. ASSUME NEW it PROVE Sum(it) <=> Sums(it, g, S)
  <2>1. ASSUME NEW t \in SUBSET S, t # {} PROVE g[Pick(t)] = 100 * m[Pick(t)][s]
    BY <2>1, PickedIsLess
  <2> QED BY <2>1 DEF Sums
<1> HIDE DEF g
<1>4. \E it : Sum(it)
  BY <1>2, <1>3, SumsExist
<1>5. Sum(c)
  <2> HIDE DEF Sum
  <2> QED BY <1>4
<1> HIDE DEF Sum, c
<1>6. Sums(c, g, S)
  BY <1>3, <1>5
<1> QED BY <1>1, <1>2, <1>6, SumsAreIntegers

-----------------------------------------------------------------------------
(* What the class is told by its averages and its lists. *)

LEMMA AveragesAreNumbers ==
  ASSUME mark \in MarkTables, NEW s \in Students
  PROVE  AverageOf(s) \in Int
<1>1. IsFiniteSet(Counting(s)) /\ Cardinality(Counting(s)) \in Nat
  <2>1. Counting(s) \subseteq Assessments
    BY DEF Counting
  <2>2. IsFiniteSet(Assessments)
    BY CardAssumption
  <2> QED BY <2>1, <2>2, FS_Subset, FS_CardinalityType
<1>2. \A a \in Counting(s) : mark[a][s] \in Int
  <2> TAKE a \in Counting(s)
  <2>1. a \in Assessments
    BY DEF Counting
  <2>2. mark[a][s] \in Marks \cup {-1}
    BY <2>1 DEF MarkTables, NoMark
  <2>3. Marks \subseteq 0 .. 20
    BY CardAssumption
  <2>4. \A x \in Marks \cup {-1} : x \in Int
    BY <2>3
  <2> HIDE DEF Counting
  <2> QED BY <2>2, <2>4
<1>3. MapThenSumSet(LAMBDA a : 100 * mark[a][s], Counting(s)) \in Int
  <2>1. MapThenSumSet(LAMBDA a : 100 * mark[a][s], Counting(s))
          = SumOfMarks(mark, s, Counting(s))[Counting(s)]
    BY DEF MapThenSumSet, MapThenFoldSet, SumOfMarks, Pick
  <2>2. SumOfMarks(mark, s, Counting(s))[Counting(s)] \in Int
    BY <1>1, <1>2, SumOfMarksIsAnInteger
  <2> QED BY <2>1, <2>2
<1>4. CASE Counting(s) = {}
  <2>1. AverageOf(s) = NoAverage
    BY <1>4, Zenon DEF AverageOf
  <2>2. NoAverage \in Int
    BY DEF NoAverage
  <2> QED BY <2>1, <2>2
<1>5. CASE Counting(s) # {}
  <2>1. Cardinality(Counting(s)) \in Nat \ {0}
    BY <1>1, <1>5, FS_EmptySet
  <2>2. \A x \in Int, n \in Nat \ {0} : x \div n \in Int
    OBVIOUS
  <2>3. AverageOf(s) =
          MapThenSumSet(LAMBDA a : 100 * mark[a][s], Counting(s)) \div Cardinality(Counting(s))
    BY <1>5 DEF AverageOf
  <2> QED BY <1>3, <2>1, <2>2, <2>3
<1> QED BY <1>4, <1>5

(* The averages that are better than x. *)
Better(x) == {AverageOf(t) : t \in {u \in Members : AverageOf(u) > x}}

LEMMA BetterIsFinite ==
  ASSUME NEW x
  PROVE  IsFiniteSet(Better(x)) /\ Cardinality(Better(x)) \in Nat
<1> DEFINE S == {u \in Members : AverageOf(u) > x}
           f == [u \in S |-> AverageOf(u)]
<1>1. IsFiniteSet(S)
  BY CardAssumption, FS_Subset DEF Members
<1>2. f \in Surjection(S, Better(x))
  BY DEF Surjection, Better
<1> QED BY <1>1, <1>2, FS_Surjection, FS_CardinalityType

(* recalculate_class_term: a better rank is a better average. *)
LEMMA RecalculatedIs ==
  ASSUME mark \in MarkTables, NEW rows \in [Students -> Results]
  PROVE  /\ Recalculated(rows) \in [Students -> Results]
         /\ \A s \in Members : Recalculated(rows)[s].average = AverageOf(s)
         /\ \A s, t \in Members :
              LET a == Recalculated(rows)[s]
                  b == Recalculated(rows)[t]
              IN  a.rank < b.rank /\ a.rank # Unranked => a.average > b.average
<1> DEFINE new == Recalculated(rows)
           rank(s) == IF AverageOf(s) = NoAverage THEN Unranked
                      ELSE 1 + Cardinality(Better(AverageOf(s)))
<1>1. new = [s \in Students |->
               IF s \notin Members THEN rows[s] ELSE [average |-> AverageOf(s), rank |-> rank(s)]]
  BY DEF Recalculated, Better
<1>2. \A s \in Students : AverageOf(s) \in Int /\ rank(s) \in Nat
  BY AveragesAreNumbers, BetterIsFinite DEF Unranked
<1>3. Members \subseteq Students
  BY DEF Members
<1>4. ASSUME NEW s \in Members, NEW t \in Members, rank(s) < rank(t), rank(s) # Unranked
      PROVE  AverageOf(s) > AverageOf(t)
  <2>1. AverageOf(s) # NoAverage /\ AverageOf(t) # NoAverage
    BY <1>2, <1>3, <1>4 DEF Unranked
  <2>2. Cardinality(Better(AverageOf(s))) < Cardinality(Better(AverageOf(t)))
    BY <1>4, <2>1, BetterIsFinite
  <2> DEFINE x == AverageOf(s)
             y == AverageOf(t)
  <2>0. x \in Int /\ y \in Int
    BY <1>2, <1>3
  <2>3. SUFFICES ASSUME x <= y PROVE FALSE
    <3> HIDE DEF x, y
    <3>1. (x <= y) \/ x > y
      BY <2>0
    <3> QED BY <3>1 DEF x, y
  <2>4. Better(AverageOf(t)) \subseteq Better(AverageOf(s))
    <3> SUFFICES ASSUME NEW u \in Members, AverageOf(u) > y PROVE AverageOf(u) > x
      BY DEF Better
    <3> QED BY <1>2, <1>3, <2>0, <2>3
  <2>5. Cardinality(Better(AverageOf(t))) <= Cardinality(Better(AverageOf(s)))
    BY <2>4, BetterIsFinite, FS_Subset
  <2> QED BY <2>2, <2>5, BetterIsFinite
<1> HIDE DEF new, rank
<1>5. \A s \in Members : new[s].average = AverageOf(s) /\ new[s].rank = rank(s)
  BY <1>1, <1>3
<1>6. new \in [Students -> Results]
  BY <1>1, <1>2 DEF Results, Averages
<1> QED BY <1>4, <1>5, <1>6 DEF new

(* An order of the class without ties.                                     *)
LEMMA PlacesAreCounted ==
  ASSUME NEW M, IsFiniteSet(M), M \subseteq Students,
         \A s, t \in M : s # t => Surname[s] # Surname[t],
         NEW q \in [1 .. Cardinality(M) -> M],
         \A i, j \in 1 .. Cardinality(M) : i < j => Surname[q[i]] <= Surname[q[j]],
         \A i, j \in 1 .. Cardinality(M) : i # j => q[i] # q[j],
         NEW i \in 1 .. Cardinality(M)
  PROVE  Cardinality({t \in M : Surname[t] <= Surname[q[i]]}) = i
<1> DEFINE n == Cardinality(M)
           B == {t \in M : Surname[t] <= Surname[q[i]]}
           f == [j \in 1 .. i |-> q[j]]
<1>1. n \in Nat /\ \A s \in M : Surname[s] \in Nat
  BY CardAssumption, FS_CardinalityType
<1>2. \A t \in M : \E j \in 1 .. n : q[j] = t
  <2>1. q \in Injection(1 .. n, M)
    BY DEF Injection, IsInjective
  <2>2. Cardinality(1 .. n) = Cardinality(M)
    BY <1>1, FS_Interval
  <2> HIDE DEF n
  <2>3. q \in Surjection(1 .. n, M)
    BY <2>1, <2>2, FS_Injection
  <2> QED BY <2>3 DEF Surjection
<1>3. ASSUME NEW j \in 1 .. i
      PROVE  j \in 1 .. n /\ q[j] \in B
  <2>1. j \in 1 .. n
    BY <1>1
  <2>2. j = i \/ j < i
    OBVIOUS
  <2> QED BY <1>1, <2>1, <2>2
<1>4. ASSUME NEW t \in B
      PROVE  \E j \in 1 .. i : q[j] = t
  <2>1. PICK j \in 1 .. n : q[j] = t
    BY <1>2
  <2>2. CASE j > i
    <3>1. Surname[q[i]] <= Surname[q[j]] /\ q[i] # q[j]
      BY <2>2
    <3>2. Surname[q[i]] = Surname[q[j]]
      BY <1>1, <2>1, <3>1
    <3> QED BY <3>1, <3>2
  <2> QED BY <2>1, <2>2
<1>5. f \in Bijection(1 .. i, B)
  <2>1. f \in [1 .. i -> B]
    BY <1>3
  <2>2. IsInjective(f)
    BY <1>3 DEF IsInjective
  <2>3. \A t \in B : \E j \in 1 .. i : f[j] = t
    BY <1>4
  <2> HIDE DEF f, B
  <2> QED BY <2>1, <2>2, <2>3 DEF Bijection, Injection, Surjection
<1>6. IsFiniteSet(1 .. i) /\ Cardinality(1 .. i) = i
  BY <1>1, FS_Interval
<1> HIDE DEF B, f
<1>7. Cardinality(B) = Cardinality(1 .. i)
  BY <1>5, <1>6, FS_Bijection DEF ExistsBijection
<1> QED BY <1>6, <1>7 DEF B

(* Two queries of the class give one order when no last name is shared. *)
LEMMA ListsAgree ==
  ASSUME NEW p \in ClassLists, NEW q \in ClassLists,
         \A i, j \in DOMAIN p : i # j => Surname[p[i]] # Surname[p[j]]
  PROVE  p = q
<1> DEFINE n == Cardinality(Members)
<1>1. Members \subseteq Students /\ IsFiniteSet(Members) /\ n \in Nat
  BY CardAssumption, FS_Subset, FS_CardinalityType DEF Members
<1>2. /\ p \in [1 .. n -> Members] /\ q \in [1 .. n -> Members]
      /\ \A i, j \in 1 .. n : i # j => p[i] # p[j] /\ q[i] # q[j]
      /\ \A i, j \in 1 .. n : i < j => /\ Surname[p[i]] <= Surname[p[j]]
                                       /\ Surname[q[i]] <= Surname[q[j]]
  BY DEF ClassLists, SetToSeqs
<1>3. \A t \in Members : (\E j \in 1 .. n : p[j] = t) /\ (\E j \in 1 .. n : q[j] = t)
  <2>1. p \in Injection(1 .. n, Members) /\ q \in Injection(1 .. n, Members)
    BY <1>2 DEF Injection, IsInjective
  <2>2. Cardinality(1 .. n) = n
    BY <1>1, FS_Interval
  <2>3. p \in Surjection(1 .. n, Members) /\ q \in Surjection(1 .. n, Members)
    BY <1>1, <2>1, <2>2, FS_Injection
  <2> QED BY <2>3 DEF Surjection
<1>4. \A s, t \in Members : s # t => Surname[s] # Surname[t]
  BY <1>2, <1>3
<1> DEFINE place(s) == Cardinality({t \in Members : Surname[t] <= Surname[s]})
<1>5. \A i \in 1 .. n : place(p[i]) = i /\ place(q[i]) = i
  BY <1>1, <1>2, <1>4, PlacesAreCounted
<1> HIDE DEF place, n
<1>6. \A i \in 1 .. n : p[i] = q[i]
  <2> TAKE i \in 1 .. n
  <2>1. PICK j \in 1 .. n : q[j] = p[i]
    BY <1>2, <1>3
  <2>2. place(p[i]) = i /\ place(q[j]) = j
    BY <1>5
  <2>3. place(q[j]) = place(p[i])
    BY <2>1 DEF place
  <2>4. j = i
    BY <2>2, <2>3
  <2> QED BY <2>1, <2>4
<1>7. p \in [1 .. n -> Members] /\ q \in [1 .. n -> Members]
  BY <1>2
<1> DEFINE D == 1 .. n
<1>8. p \in [D -> Members] /\ q \in [D -> Members] /\ \A i \in D : p[i] = q[i]
  BY <1>6, <1>7
<1> HIDE DEF D
<1> QED BY ONLY <1>8

-----------------------------------------------------------------------------
(* What a step that leaves marks and class alone leaves alone with them.   *)

LEMMA MeansAreNumbers == CardTypes => Means \in [Students -> Int]
BY AveragesAreNumbers DEF Means, CardTypes

LEMMA MeansStay ==
  mark' = mark /\ (\A s \in Students : Counting(s)' = Counting(s)) => Means' = Means
<1> SUFFICES ASSUME mark' = mark, \A s \in Students : Counting(s)' = Counting(s)
             PROVE  Means' = Means
  OBVIOUS
<1> DEFINE Sum(m, s, S) == SumOfMarks(m, s, S)[S]
<1>1. \A s \in Students : AverageOf(s) =
        IF Counting(s) = {} THEN NoAverage
        ELSE Sum(mark, s, Counting(s)) \div Cardinality(Counting(s))
  BY DEF AverageOf, MapThenSumSet, MapThenFoldSet, SumOfMarks, Pick
<1>2. \A s \in Students : AverageOf(s)' =
        IF Counting(s)' = {} THEN NoAverage
        ELSE Sum(mark', s, Counting(s)') \div Cardinality(Counting(s)')
  BY DEF AverageOf, MapThenSumSet, MapThenFoldSet, SumOfMarks, Pick
<1> HIDE DEF Sum
<1>3. \A s \in Students : AverageOf(s)' = AverageOf(s)
  BY <1>1, <1>2
<1> QED BY <1>3 DEF Means

(* Steps of the task and of the request. *)
LEMMA OwnStepsKeep ==
  UNCHANGED <<member, assessment, mark, since>> =>
    Members' = Members /\ ClassLists' = ClassLists /\ Means' = Means
<1> SUFFICES ASSUME UNCHANGED <<member, assessment, mark, since>>
             PROVE  Members' = Members /\ ClassLists' = ClassLists /\ Means' = Means
  OBVIOUS
<1>1. Members' = Members /\ ClassLists' = ClassLists
  BY DEF Members, ClassLists
<1>2. \A s \in Students : Counting(s)' = Counting(s)
  BY DEF Counting
<1> QED BY <1>1, <1>2, MeansStay

(* Steps of others leave the report and its build alone; what they change  *)
(* is remembered.                                                          *)
Aside ==
  /\ UNCHANGED <<report, build>>
  /\ since \subseteq since'
  /\ Members \subseteq Members'
  /\ report.status # "absent" =>
       /\ "class" \notin since' => ClassLists' = ClassLists
       /\ "marks" \notin since' => Means' = Means
       /\ "results" \notin since' => termResult' = termResult
       /\ \A s \in Members : \/ termResult'[s] = termResult[s]
                             \/ termResult'[s].average = Means[s]
       /\ "assessments" \notin since' /\ (\A a \in Assessments : assessment[a] \in {"absent", "locked"})
            => assessment' = assessment

LEMMA MembersAre == Members \subseteq Students /\ (CardTypes => \A s \in Members : Means[s] = AverageOf(s))
BY DEF Members, Means

LEMMA AsideKeeps == CardInv /\ CardTypes' /\ Aside => CardInv'
<1> SUFFICES ASSUME CardInv, CardTypes', Aside PROVE CardInv'
  OBVIOUS
<1> USE DEF CardInv
<1>1. report' = report /\ build' = build /\ since \subseteq since' /\ Members \subseteq Members'
  BY DEF Aside
<1>2. BuildIsWanted'
  BY <1>1 DEF BuildIsWanted
<1>3. build.pc # "none" => report.status # "absent"
  BY DEF BuildIsWanted
<1>4. build.reports # <<>> => build.pc # "none"
  BY DEF ListIsRead, Ranked3
<1>5. ListIsRead'
  <2>1. build.pc \in Listed => build.pc # "none"
    BY DEF Listed, Calculated
  <2> QED BY <1>1, <1>3, <2>1 DEF ListIsRead, Aside
<1>6. AveragesAgree'
  <2>1. CASE "marks" \in since'
    BY <2>1 DEF AveragesAgree
  <2>2. CASE build.pc = "none"
    <3>1. build.reports = <<>> /\ build.pc \notin Calculated
      BY <1>4, <2>2 DEF Calculated
    <3> QED BY <1>1, <3>1 DEF AveragesAgree
  <2>3. CASE "marks" \notin since' /\ build.pc # "none"
    <3>1. "marks" \notin since /\ Means' = Means /\ report.status # "absent"
      BY <1>1, <1>3, <2>3 DEF Aside
    <3>2. ASSUME NEW i \in DOMAIN build.list, build.pc \in Calculated
          PROVE  termResult'[build.list[i]].average = Means[build.list[i]]
      <4>1. build.list[i] \in Members
        BY <3>2 DEF ListIsRead, Listed
      <4>2. termResult[build.list[i]].average = Means[build.list[i]]
        BY <3>1, <3>2 DEF AveragesAgree
      <4> QED BY <3>1, <4>1, <4>2 DEF Aside
    <3> QED BY <1>1, <3>1, <3>2 DEF AveragesAgree
  <2> QED BY <2>1, <2>2, <2>3
<1>7. AllLocked'
  BY <1>1, <1>3, <1>4 DEF AllLocked, Aside
<1>8. LeftIsUnranked'
  <2>1. CASE "results" \in since'
    BY <2>1 DEF LeftIsUnranked
  <2>2. CASE build.pc = "none"
    BY <1>1, <1>4, <2>2 DEF LeftIsUnranked, Ranked3
  <2>3. CASE "results" \notin since' /\ build.pc # "none"
    <3>1. "results" \notin since /\ termResult' = termResult
      BY <1>1, <1>3, <2>3 DEF Aside
    <3> QED BY <1>1, <3>1 DEF LeftIsUnranked
  <2> QED BY <2>1, <2>2, <2>3
<1>9. RanksFollow'
  <2>1. CASE "results" \in since'
    BY <2>1 DEF RanksFollow
  <2>2. CASE build.pc = "none"
    BY <1>1, <1>4, <2>2 DEF RanksFollow, Ranked3
  <2>3. CASE "results" \notin since' /\ build.pc # "none"
    <3>1. "results" \notin since /\ termResult' = termResult
      BY <1>1, <1>3, <2>3 DEF Aside
    <3> QED BY <1>1, <3>1 DEF RanksFollow, Ordered
  <2> QED BY <2>1, <2>2, <2>3
<1>10. ContextOfList'
  BY <1>1 DEF ContextOfList
<1>11. CardIsTruthful' /\ ContextIsOwn'
  BY <1>1 DEF CardIsTruthful, ContextIsOwn
<1> QED BY <1>2, <1>5, <1>6, <1>7, <1>8, <1>9, <1>10, <1>11

LEMMA OthersStepAside ==
  ASSUME CardTypes,
         \/ \E a \in Assessments :
              \/ AddAssessment(a) \/ ApproveMarks(a) \/ LockMarks(a)
              \/ \E s \in Students, v \in Marks : CorrectMark(a, s, v)
         \/ \E s \in Students : JoinClass(s) \/ LeaveClass(s) \/ OthersUnrank(s)
         \/ OthersRecalculate
  PROVE  Aside /\ CardTypes'
<1> DEFINE Locked == \A a \in Assessments : assessment[a] \in {"absent", "locked"}
           Same(what) == what \notin since' /\ report.status # "absent"
<1>1. ASSUME NEW what, Meanwhile(what)
      PROVE  /\ report' = report /\ build' = build /\ since \subseteq since'
             /\ report.status # "absent" => what \in since'
  BY <1>1 DEF Meanwhile
<1>2. report' = report /\ build' = build =>
        (report \in CardArchives /\ build \in Builds)'
  BY DEF CardTypes, CardArchives, Builds, CardReports, Averages
<1>3. ASSUME NEW a \in Assessments, AddAssessment(a) PROVE Aside /\ CardTypes'
  <2>1. Meanwhile("assessments") /\ member' = member /\ mark' = mark /\ termResult' = termResult
        /\ assessment[a] = "absent" /\ assessment' = [assessment EXCEPT ![a] = "draft"]
    BY <1>3 DEF AddAssessment
  <2>2. \A s \in Students : Counting(s)' = Counting(s)
    BY <2>1 DEF Counting, CardTypes
  <2>3. Means' = Means /\ Members' = Members /\ ClassLists' = ClassLists
    BY <2>1, <2>2, MeansStay DEF Members, ClassLists
  <2>4. CardTypes'
    BY <1>1, <1>2, <2>1 DEF CardTypes, MarkTables, Results, Averages
  <2> QED BY <1>1, <2>1, <2>3, <2>4 DEF Aside
<1>4. ASSUME NEW a \in Assessments, ApproveMarks(a) PROVE Aside /\ CardTypes'
  <2>1. Meanwhile("marks") /\ member' = member /\ termResult' = termResult
        /\ assessment[a] = "draft" /\ assessment' = [assessment EXCEPT ![a] = "approved"]
    BY <1>4 DEF ApproveMarks
  <2>2. PICK f \in [{s \in Students : member[s] = "active"} -> Marks] :
          mark' = [mark EXCEPT ![a] = [s \in Students |->
                     IF member[s] = "active" THEN f[s] ELSE mark[a][s]]]
    BY <1>4 DEF ApproveMarks
  <2>3. mark' \in MarkTables
    <3>1. mark \in MarkTables
      BY DEF CardTypes
    <3>2. [s \in Students |-> IF member[s] = "active" THEN f[s] ELSE mark[a][s]]
            \in [Students -> Marks \cup {NoMark}]
      BY <3>1 DEF MarkTables
    <3> QED BY <2>2, <3>1, <3>2 DEF MarkTables
  <2>4. Members' = Members /\ ClassLists' = ClassLists
    BY <2>1 DEF Members, ClassLists
  <2>5. CardTypes'
    BY <1>1, <1>2, <2>1, <2>3 DEF CardTypes, MarkTables, Results, Averages
  <2> QED BY <1>1, <2>1, <2>4, <2>5 DEF Aside
<1>5. ASSUME NEW a \in Assessments, LockMarks(a) PROVE Aside /\ CardTypes'
  <2>1. Meanwhile("status") /\ member' = member /\ mark' = mark /\ termResult' = termResult
        /\ assessment[a] = "approved" /\ assessment' = [assessment EXCEPT ![a] = "locked"]
    BY <1>5 DEF LockMarks
  <2>2. \A s \in Students : Counting(s)' = Counting(s)
    BY <2>1 DEF Counting, CardTypes
  <2>3. Means' = Means /\ Members' = Members /\ ClassLists' = ClassLists
    BY <2>1, <2>2, MeansStay DEF Members, ClassLists
  <2>4. CardTypes'
    BY <1>1, <1>2, <2>1 DEF CardTypes, MarkTables, Results, Averages
  <2> QED BY <1>1, <2>1, <2>3, <2>4 DEF Aside
<1>6. ASSUME NEW a \in Assessments, NEW s \in Students, NEW v \in Marks, CorrectMark(a, s, v)
      PROVE  Aside /\ CardTypes'
  <2>1. Meanwhile("marks") /\ member' = member /\ termResult' = termResult
        /\ assessment' = assessment /\ mark' = [mark EXCEPT ![a][s] = v]
    BY <1>6 DEF CorrectMark
  <2>2. mark' \in MarkTables
    <3>1. mark \in MarkTables
      BY DEF CardTypes
    <3>2. [mark[a] EXCEPT ![s] = v] \in [Students -> Marks \cup {NoMark}]
      BY <3>1 DEF MarkTables
    <3> QED BY <2>1, <3>1, <3>2 DEF MarkTables
  <2>3. Members' = Members /\ ClassLists' = ClassLists
    BY <2>1 DEF Members, ClassLists
  <2>4. CardTypes'
    BY <1>1, <1>2, <2>1, <2>2 DEF CardTypes, MarkTables, Results, Averages
  <2> QED BY <1>1, <2>1, <2>3, <2>4 DEF Aside
<1>7. ASSUME NEW s \in Students, JoinClass(s) \/ LeaveClass(s) PROVE Aside /\ CardTypes'
  <2>1. Meanwhile("class") /\ mark' = mark /\ termResult' = termResult
        /\ assessment' = assessment
        /\ \E m \in {"active", "left"} : member' = [member EXCEPT ![s] = m]
    BY <1>7 DEF JoinClass, LeaveClass
  <2>2. \A t \in Students : Counting(t)' = Counting(t)
    BY <2>1 DEF Counting
  <2>3. Means' = Means
    BY <2>1, <2>2, MeansStay
  <2>4. Members \subseteq Members'
    BY <2>1 DEF Members, CardTypes
  <2>5. CardTypes'
    BY <1>1, <1>2, <2>1 DEF CardTypes, MarkTables, Results, Averages
  <2> QED BY <1>1, <2>1, <2>3, <2>4, <2>5 DEF Aside
<1>8. ASSUME Meanwhile("results"), UNCHANGED <<member, assessment, mark>>,
             termResult' \in [Students -> Results],
             \A s \in Members : \/ termResult'[s] = termResult[s]
                                \/ termResult'[s].average = AverageOf(s)
      PROVE  Aside /\ CardTypes'
  <2>1. \A t \in Students : Counting(t)' = Counting(t)
    BY <1>8 DEF Counting
  <2>2. Means' = Means
    BY <1>8, <2>1, MeansStay
  <2>3. Members' = Members /\ ClassLists' = ClassLists
    BY <1>8 DEF Members, ClassLists
  <2>4. CardTypes'
    BY <1>1, <1>2, <1>8 DEF CardTypes, MarkTables, Results, Averages
  <2>5. \A s \in Members : Means[s] = AverageOf(s)
    BY MembersAre
  <2> QED BY <1>1, <1>8, <2>2, <2>3, <2>4, <2>5 DEF Aside
<1>9. ASSUME NEW s \in Students, OthersUnrank(s) PROVE Aside /\ CardTypes'
  <2>1. [average |-> AverageOf(s), rank |-> Unranked] \in Results
    BY AveragesAreNumbers DEF CardTypes, Results, Averages, Unranked
  <2>2. termResult \in [Students -> Results] /\ Members \subseteq Students
    BY MembersAre DEF CardTypes
  <2>3. termResult' = [termResult EXCEPT ![s] = [average |-> AverageOf(s), rank |-> Unranked]]
        /\ Meanwhile("results") /\ UNCHANGED <<member, assessment, mark>>
    BY <1>9 DEF OthersUnrank
  <2> QED BY <1>8, <2>1, <2>2, <2>3
<1>10. ASSUME OthersRecalculate PROVE Aside /\ CardTypes'
  <2>1. termResult \in [Students -> Results] /\ mark \in MarkTables
    BY DEF CardTypes
  <2>2. termResult' = Recalculated(termResult)
        /\ Meanwhile("results") /\ UNCHANGED <<member, assessment, mark>>
    BY <1>10 DEF OthersRecalculate
  <2> QED BY <1>8, <2>1, <2>2, RecalculatedIs
<1> QED BY <1>3, <1>4, <1>5, <1>6, <1>7, <1>9, <1>10

LEMMA BuildIs ==
  ASSUME NEW pc \in {"none", "queued", "list", "recalculate", "unrank", "result", "marks", "store"},
         NEW list \in Seq(Students), NEW tries \in Nat, NEW reports \in Seq(CardReports),
         build' = [pc |-> pc, list |-> list, tries |-> tries, reports |-> reports]
  PROVE  build' \in Builds
BY DEF Builds

(* What the build knows does not depend on how the report is called.       *)
LEMMA RequestKeeps ==
  ASSUME CardInv, NEW kind \in Kinds, NEW s \in Students \cup {Nobody}, RequestReport(kind, s)
  PROVE  CardInv'
<1> USE DEF CardInv
<1>1. /\ report.status = "absent" /\ report.active
      /\ kind = "student" => s \in Members
      /\ kind # "draft" => \A a \in Assessments : assessment[a] \in {"absent", "locked"}
  BY DEF RequestReport, Ready, BuildIsWanted, Nobody
<1>2. /\ report' = [report EXCEPT !.status = "queued", !.kind = kind, !.student = s]
      /\ build' = [NoBuild EXCEPT !.pc = IF kind = "draft" THEN "list" ELSE "queued"]
      /\ UNCHANGED <<member, assessment, mark, termResult, since>>
  BY DEF RequestReport
<1>3. Members' = Members
  BY <1>2, OwnStepsKeep
<1>4. /\ build'.pc = IF kind = "draft" THEN "list" ELSE "queued"
      /\ build'.list = <<>> /\ build'.reports = <<>>
      /\ build' \in Builds
  <2>1. build' = [pc |-> IF kind = "draft" THEN "list" ELSE "queued", list |-> <<>>,
                  tries |-> 0, reports |-> <<>>]
    BY <1>2 DEF NoBuild
  <2>2. <<>> \in Seq(Students) /\ <<>> \in Seq(CardReports)
    OBVIOUS
  <2> QED BY <2>1, <2>2, BuildIs
<1>5. /\ report'.status = "queued" /\ report'.kind = kind /\ report'.student = s
      /\ report'.active /\ report' \in CardArchives
  BY <1>1, <1>2 DEF CardTypes, CardArchives
<1> HIDE DEF CardInv
<1>6. CardTypes'
  BY <1>2, <1>4, <1>5 DEF CardInv, CardTypes, MarkTables, Results, Averages
<1>7. BuildIsWanted'
  BY <1>1, <1>3, <1>4, <1>5 DEF BuildIsWanted
<1>8. ListIsRead' /\ AveragesAgree'
  BY <1>4 DEF ListIsRead, AveragesAgree, Listed, Calculated, Ranked3
<1>9. AllLocked' /\ LeftIsUnranked' /\ RanksFollow' /\ ContextOfList'
  BY <1>1, <1>2, <1>4, <1>5 DEF AllLocked, LeftIsUnranked, RanksFollow, ContextOfList, Ranked3
<1>10. CardIsTruthful' /\ ContextIsOwn'
  BY <1>5 DEF CardIsTruthful, ContextIsOwn
<1> QED BY <1>6, <1>7, <1>8, <1>9, <1>10 DEF CardInv

(* A build that is given up, and perhaps tried again.                      *)
LEMMA GivingUpKeeps ==
  ASSUME CardInv, FailReport \/ LoseReport
  PROVE  CardInv'
<1> USE DEF CardInv
<1>1. /\ build.pc # "none" /\ report.status \notin {"absent", "completed"}
      /\ UNCHANGED <<member, assessment, mark, termResult, since>>
  BY DEF FailReport, LoseReport, BuildIsWanted
<1>2. report' = report \/ report' = [report EXCEPT !.status = "failed", !.active = TRUE]
  BY DEF FailReport, LoseReport
<1>3. \/ build' = NoBuild
      \/ report.kind # "draft" /\ build' = [NoBuild EXCEPT !.pc = "queued", !.tries = build.tries + 1]
  BY DEF FailReport, LoseReport
<1>4. Members' = Members
  BY <1>1, OwnStepsKeep
<1>5. /\ build'.pc \in {"none", "queued"} /\ (build'.pc = "queued" => report.kind # "draft")
      /\ build'.list = <<>> /\ build'.reports = <<>> /\ build' \in Builds
  <2>1. PICK pc \in {"none", "queued"}, tries \in Nat :
          /\ build' = [pc |-> pc, list |-> <<>>, tries |-> tries, reports |-> <<>>]
          /\ pc = "queued" => report.kind # "draft"
    <3>1. build.tries \in Nat
      BY DEF CardTypes, Builds
    <3>2. CASE build' = NoBuild
      BY <3>2 DEF NoBuild
    <3>3. CASE /\ report.kind # "draft"
               /\ build' = [NoBuild EXCEPT !.pc = "queued", !.tries = build.tries + 1]
      <4> DEFINE n == build.tries + 1
      <4>1. n \in Nat
        BY <3>1
      <4>2. build' = [pc |-> "queued", list |-> <<>>, tries |-> n, reports |-> <<>>]
        BY <3>3 DEF NoBuild
      <4> HIDE DEF n
      <4> QED BY <3>3, <4>1, <4>2
    <3> QED BY <1>3, <3>2, <3>3
  <2>2. <<>> \in Seq(Students) /\ <<>> \in Seq(CardReports)
    OBVIOUS
  <2> QED BY <2>1, <2>2, BuildIs
<1>6. /\ report'.status \notin {"absent", "completed"} /\ report'.kind = report.kind
      /\ report'.student = report.student /\ (report'.active = report.active \/ report'.active)
      /\ report' \in CardArchives
  BY <1>1, <1>2 DEF CardTypes, CardArchives
<1>7. CardTypes'
  BY <1>1, <1>5, <1>6 DEF CardTypes, MarkTables, Results, Averages
<1>8. BuildIsWanted'
  BY <1>1, <1>4, <1>5, <1>6 DEF BuildIsWanted
<1>9. ListIsRead' /\ AveragesAgree'
  BY <1>5 DEF ListIsRead, AveragesAgree, Listed, Calculated, Ranked3
<1>10. AllLocked' /\ LeftIsUnranked' /\ RanksFollow' /\ ContextOfList'
  BY <1>1, <1>5, <1>6 DEF AllLocked, LeftIsUnranked, RanksFollow, ContextOfList, Ranked3
<1>11. CardIsTruthful' /\ ContextIsOwn'
  BY <1>6 DEF CardIsTruthful, ContextIsOwn
<1> QED BY <1>7, <1>8, <1>9, <1>10, <1>11

(* A build that begins has read nothing yet.                               *)
LEMMA BeginningKeeps ==
  ASSUME CardInv, ClaimReport \/ ListClass
  PROVE  CardInv'
<1> USE DEF CardInv
<1>1. UNCHANGED <<member, assessment, mark, termResult, since>>
  BY DEF ClaimReport, ListClass
<1>2. Members' = Members /\ ClassLists' = ClassLists /\ Means' = Means
  BY <1>1, OwnStepsKeep
<1>3. ASSUME NEW q \in ClassLists
      PROVE  q \in Seq(Students) /\ \A i \in DOMAIN q : q[i] \in Members
  <2>1. q \in [1 .. Cardinality(Members) -> Members]
    BY DEF ClassLists, SetToSeqs
  <2>2. Cardinality(Members) \in Nat /\ Members \subseteq Students
    BY MembersAre, CardAssumption, FS_Subset, FS_CardinalityType
  <2> QED BY <2>1, <2>2
<1>4. build.reports = <<>> /\ build \in Builds /\ report \in CardArchives
  BY DEF ClaimReport, ListClass, ListIsRead, Ranked3, CardTypes
<1>5. CASE ClaimReport
  <2>1. build.pc = "queued" /\ report.status \notin {"absent", "completed"} /\ report.kind \in {"student", "class"}
        /\ (report.kind = "student" => report.student \in Members /\ report.student \in Students)
    BY <1>5, MembersAre DEF ClaimReport, BuildIsWanted, Kinds
  <2>2. /\ report'.status = "processing" /\ report'.kind = report.kind
        /\ report'.student = report.student /\ report' \in CardArchives
        /\ ~report'.active => report.kind = "student"
    BY <1>4, <1>5 DEF ClaimReport, CardArchives
  <2>3. /\ build'.pc = IF report.kind = "student" THEN "recalculate" ELSE "list"
        /\ build'.list = IF report.kind = "student" THEN <<report.student>> ELSE <<>>
        /\ build'.reports = <<>> /\ build' \in Builds
    <3> DEFINE pc == IF report.kind = "student" THEN "recalculate" ELSE "list"
               list == IF report.kind = "student" THEN <<report.student>> ELSE <<>>
    <3>1. build' = [pc |-> pc, list |-> list, tries |-> build.tries, reports |-> <<>>]
      BY <1>4, <1>5 DEF ClaimReport, Builds
    <3>2. list \in Seq(Students) /\ <<>> \in Seq(CardReports) /\ build.tries \in Nat
      BY <1>4, <2>1 DEF Builds
    <3> QED BY <3>1, <3>2, BuildIs
  <2>4. CardTypes'
    BY <1>1, <2>2, <2>3 DEF CardTypes, MarkTables, Results, Averages
  <2>5. BuildIsWanted'
    BY <1>2, <2>1, <2>2, <2>3 DEF BuildIsWanted, Kinds
  <2>6. ListIsRead' /\ AveragesAgree'
    BY <1>2, <2>1, <2>2, <2>3 DEF ListIsRead, AveragesAgree, Listed, Calculated, Ranked3
  <2>7. AllLocked' /\ LeftIsUnranked' /\ RanksFollow' /\ ContextOfList'
    BY <1>1, <2>1, <2>2, <2>3 DEF AllLocked, LeftIsUnranked, RanksFollow, ContextOfList, Ranked3
  <2>8. CardIsTruthful' /\ ContextIsOwn'
    BY <2>2 DEF CardIsTruthful, ContextIsOwn
  <2> QED BY <2>4, <2>5, <2>6, <2>7, <2>8
<1>6. CASE ListClass
  <2>1. build.pc = "list" /\ report.kind # "student" /\ report' = report
        /\ report.status # "completed"
    BY <1>6 DEF ListClass, BuildIsWanted
  <2>2. PICK q \in ClassLists : build' = [build EXCEPT !.pc = "recalculate", !.list = q]
    BY <1>6 DEF ListClass
  <2>3. build'.pc = "recalculate" /\ build'.list = q /\ build'.reports = <<>> /\ build' \in Builds
    BY <1>3, <1>4, <2>2 DEF Builds
  <2>4. CardTypes'
    BY <1>1, <2>1, <2>3 DEF CardTypes, MarkTables, Results, Averages
  <2>5. BuildIsWanted'
    BY <1>2, <2>1, <2>3 DEF BuildIsWanted
  <2>6. Len(q) \in Nat
    BY <1>3
  <2>7. ListIsRead' /\ AveragesAgree'
    BY <1>2, <1>3, <2>1, <2>3, <2>6 DEF ListIsRead, AveragesAgree, Listed, Calculated, Ranked3
  <2>8. AllLocked' /\ LeftIsUnranked' /\ RanksFollow' /\ ContextOfList'
    BY <1>1, <2>1, <2>3 DEF AllLocked, LeftIsUnranked, RanksFollow, ContextOfList, Ranked3
  <2>9. CardIsTruthful' /\ ContextIsOwn'
    BY <2>1 DEF CardIsTruthful, ContextIsOwn
  <2> QED BY <2>4, <2>5, <2>7, <2>8, <2>9
<1> QED BY <1>5, <1>6

(* The results are written again: for the class, or for the one who left.  *)
LEMMA RecalculatingKeeps ==
  ASSUME CardInv, Recalculate \/ Unrank
  PROVE  CardInv'
<1> USE DEF CardInv
<1>1. UNCHANGED <<member, assessment, mark, report, since>>
  BY DEF Recalculate, Unrank
<1>2. Members' = Members /\ ClassLists' = ClassLists /\ Means' = Means
  BY <1>1, OwnStepsKeep
<1>3. /\ build.pc \in {"recalculate", "unrank"}
      /\ build.reports = <<>> /\ build \in Builds /\ report \in CardArchives
      /\ report.status \notin {"absent", "completed"}
      /\ \A i \in DOMAIN build.list : build.list[i] \in Members
  BY DEF Recalculate, Unrank, ListIsRead, Ranked3, Listed, Calculated, CardTypes, BuildIsWanted
<1>4. /\ termResult \in [Students -> Results] /\ Members \subseteq Students
      /\ \A s \in Members : Means[s] = AverageOf(s)
      /\ Means \in [Students -> Int] /\ mark \in MarkTables
  BY MembersAre, MeansAreNumbers DEF CardTypes
<1>5. ASSUME build' = [build EXCEPT !.pc = build'.pc], build'.pc \in {"unrank", "result"},
             termResult' \in [Students -> Results],
             build'.pc = "unrank" => ~report.active,
             "marks" \notin since =>
               \A i \in DOMAIN build.list : termResult'[build.list[i]].average = Means[build.list[i]],
             ~report.active /\ build'.pc = "result" => termResult'[report.student].rank = Unranked,
             report.kind # "student" => Ordered(build.list, termResult')
      PROVE  CardInv'
  <2>1. build'.list = build.list /\ build'.reports = <<>> /\ build' \in Builds
    BY <1>3, <1>5 DEF Builds
  <2> HIDE DEF CardInv
  <2>2. CardTypes'
    BY <1>1, <1>3, <1>5, <2>1 DEF CardInv, CardTypes, MarkTables
  <2>3. BuildIsWanted'
    BY <1>1, <1>2, <1>3, <1>5, <2>1 DEF CardInv, BuildIsWanted
  <2>4. Len(build.list) \in Nat
    BY <1>3 DEF Builds
  <2>5. ListIsRead'
    BY <1>1, <1>2, <1>3, <1>5, <2>1, <2>4 DEF CardInv, ListIsRead, Listed, Calculated, Ranked3
  <2>6. AveragesAgree'
    BY <1>1, <1>2, <1>3, <1>5, <2>1 DEF CardInv, AveragesAgree, Calculated
  <2>7. AllLocked' /\ ContextOfList' /\ CardIsTruthful' /\ ContextIsOwn'
    BY <1>1, <1>3, <1>5, <2>1 DEF CardInv, AllLocked, ContextOfList, CardIsTruthful, ContextIsOwn
  <2>8. LeftIsUnranked' /\ RanksFollow'
    BY <1>1, <1>3, <1>5, <2>1 DEF CardInv, LeftIsUnranked, RanksFollow, Ranked3
  <2> QED BY <2>2, <2>3, <2>5, <2>6, <2>7, <2>8 DEF CardInv
<1>6. CASE Recalculate /\ report.active
  <2>1. termResult' = Recalculated(termResult) /\ build' = [build EXCEPT !.pc = "result"]
    BY <1>6 DEF Recalculate
  <2>2. build'.pc = "result"
    BY <1>3, <2>1 DEF Builds
  <2>3. \A i \in DOMAIN build.list : termResult'[build.list[i]].average = Means[build.list[i]]
    BY <1>3, <1>4, <2>1, RecalculatedIs
  <2>4. Ordered(build.list, termResult')
    <3> SUFFICES ASSUME NEW i \in DOMAIN build.list, NEW j \in DOMAIN build.list,
                        termResult'[build.list[i]].rank < termResult'[build.list[j]].rank,
                        termResult'[build.list[i]].rank # Unranked
                 PROVE  termResult'[build.list[i]].average > termResult'[build.list[j]].average
      BY DEF Ordered
    <3>1. build.list[i] \in Members /\ build.list[j] \in Members
      BY <1>3
    <3> QED BY <1>4, <2>1, <3>1, RecalculatedIs
  <2>5. termResult' \in [Students -> Results]
    BY <1>4, <2>1, RecalculatedIs
  <2> QED BY <1>5, <1>6, <2>1, <2>2, <2>3, <2>4, <2>5
<1>7. CASE ~report.active
  <2>1. /\ report.kind = "student" /\ report.student \in Members
        /\ build.list = <<report.student>>
    BY <1>3, <1>7 DEF BuildIsWanted, ListIsRead, Listed, Calculated
  <2> DEFINE s == report.student
  <2>2. /\ s \in Students /\ Means[s] \in Int /\ Means[s] = AverageOf(s)
        /\ \A i \in DOMAIN build.list : build.list[i] = s
    BY <1>4, <2>1
  <2>3. CASE Recalculate
    <3>1. /\ termResult' = [termResult EXCEPT ![s].average = AverageOf(s)]
          /\ build' = [build EXCEPT !.pc = IF termResult[s].rank = Unranked
                                           THEN "result" ELSE "unrank"]
      BY <1>7, <2>3 DEF Recalculate
    <3>2. /\ build'.pc = IF termResult[s].rank = Unranked THEN "result" ELSE "unrank"
      BY <1>3, <3>1 DEF Builds
    <3>3. /\ termResult' \in [Students -> Results]
          /\ termResult'[s].average = Means[s] /\ termResult'[s].rank = termResult[s].rank
      BY <1>4, <2>2, <3>1 DEF Results, Averages
    <3> QED BY <1>5, <1>7, <2>1, <2>2, <3>1, <3>2, <3>3
  <2>4. CASE Unrank
    <3>1. /\ termResult' = [termResult EXCEPT ![s].rank = Unranked]
          /\ build' = [build EXCEPT !.pc = "result"] /\ build.pc = "unrank"
      BY <2>4 DEF Unrank
    <3>2. build'.pc = "result"
      BY <1>3, <3>1 DEF Builds
    <3>3. /\ termResult' \in [Students -> Results]
          /\ termResult'[s].average = termResult[s].average /\ termResult'[s].rank = Unranked
      BY <1>4, <2>2, <3>1 DEF Results, Averages, Unranked
    <3>4. "marks" \notin since =>
            \A i \in DOMAIN build.list : termResult[build.list[i]].average = Means[build.list[i]]
      BY <3>1 DEF AveragesAgree, Calculated
    <3> QED BY <1>5, <1>7, <2>1, <2>2, <3>1, <3>2, <3>3, <3>4
  <2> QED BY <2>3, <2>4
<1>8. Unrank => ~report.active
  BY DEF Unrank, BuildIsWanted
<1> QED BY <1>6, <1>7, <1>8

(* What was read of the students so far stays, and one more is read.       *)
LEMMA ReadingResultKeeps == CardInv /\ ReadResult => CardInv'
<1> SUFFICES ASSUME CardInv, ReadResult PROVE CardInv'
  OBVIOUS
<1> USE DEF CardInv
<1> DEFINE n == Len(build.reports)
           s == build.list[n + 1]
           r == [student |-> s, average |-> termResult[s].average, rank |-> termResult[s].rank,
                 listed |-> NoAverage, locked |-> TRUE, about |-> Nobody]
<1>1. UNCHANGED <<member, assessment, mark, termResult, report, since>>
  BY DEF ReadResult
<1>2. Members' = Members /\ ClassLists' = ClassLists /\ Means' = Means
  BY <1>1, OwnStepsKeep
<1>3. /\ build \in Builds /\ report \in CardArchives
      /\ build.pc = "result" /\ n < Len(build.list)
      /\ report.status \notin {"absent", "completed"}
      /\ build' = [build EXCEPT !.pc = "marks", !.reports = Append(@, r)]
  BY DEF ReadResult, CardTypes, BuildIsWanted
<1>4. /\ build.list \in Seq(Students) /\ build.reports \in Seq(CardReports)
      /\ n \in Nat /\ Len(build.list) \in Nat /\ n + 1 \in DOMAIN build.list /\ s \in Students
  BY <1>3 DEF Builds
<1>5. r \in CardReports
  <2>1. termResult[s] \in Results
    BY <1>4 DEF CardTypes
  <2> QED BY <1>4, <2>1 DEF CardReports, Results, Averages, NoAverage
<1>6. /\ build'.pc = "marks" /\ build'.list = build.list
      /\ build'.reports = Append(build.reports, r) /\ build' \in Builds
  <2> HIDE DEF r
  <2>1. /\ build' = [pc |-> "marks", list |-> build.list, tries |-> build.tries,
                     reports |-> Append(build.reports, r)]
        /\ build.tries \in Nat
    BY <1>3 DEF Builds
  <2>2. Append(build.reports, r) \in Seq(CardReports)
    BY <1>4, <1>5
  <2> QED BY <1>4, <2>1, <2>2, BuildIs
<1>7. /\ Len(build'.reports) = n + 1
      /\ \A i \in DOMAIN build'.reports :
           \/ i \in DOMAIN build.reports /\ i # n + 1 /\ build'.reports[i] = build.reports[i]
           \/ i = n + 1 /\ build'.reports[i] = r
  BY <1>4, <1>5, <1>6
<1>8. CardTypes'
  BY <1>1, <1>3, <1>6 DEF CardTypes, MarkTables, Results, Averages
<1>9. BuildIsWanted'
  BY <1>1, <1>2, <1>3, <1>6 DEF BuildIsWanted
<1>10. r.student = s /\ r.average = termResult[s].average /\ r.rank = termResult[s].rank /\ r.locked
  OBVIOUS
<1> HIDE DEF n, s, r, CardInv
<1>11. ListIsRead'
  <2>1. \A i \in DOMAIN build'.reports : build'.reports[i].student = build.list[i]
    BY <1>7, <1>10 DEF ListIsRead, CardInv, s
  <2>2. n + 1 =< Len(build.list) /\ n + 1 # 0
    BY <1>3, <1>4 
  <2> QED BY <1>1, <1>2, <1>3, <1>6, <1>7, <2>1, <2>2 DEF CardInv, ListIsRead, Listed, Calculated, Ranked3
<1>12. AveragesAgree'
  <2>1. CASE "marks" \in since
    BY <1>1, <2>1 DEF AveragesAgree
  <2>2. CASE "marks" \notin since
    <3>1. \A i \in DOMAIN build.list : termResult[build.list[i]].average = Means[build.list[i]]
      BY <1>3, <2>2 DEF AveragesAgree, CardInv, Calculated
    <3>2. \A i \in DOMAIN build.reports :
            /\ build.reports[i].average = Means[build.list[i]]
            /\ build.reports[i].listed = Means[build.list[i]]
      BY <1>3, <2>2 DEF AveragesAgree, CardInv
    <3>3. r.average = Means[build.list[n + 1]]
      BY <1>4, <1>10, <3>1 DEF s
    <3>4. \A i \in DOMAIN build'.reports :
            /\ build'.reports[i].average = Means[build.list[i]]
            /\ i < Len(build'.reports) => build'.reports[i].listed = Means[build.list[i]]
      BY <1>4, <1>7, <3>2, <3>3
    <3> QED BY <1>1, <1>2, <1>6, <3>1, <3>4 DEF AveragesAgree, Calculated
  <2> QED BY <2>1, <2>2
<1>13. AllLocked'
  BY <1>1, <1>7, <1>10 DEF AllLocked, CardInv
<1>14. LeftIsUnranked'
  <2>1. ~report.active => s = report.student
    <3>1. ~report.active => build.list = <<report.student>>
      BY <1>3 DEF CardInv, BuildIsWanted, ListIsRead, Listed, Calculated
    <3> QED BY <1>4, <3>1 DEF s
  <2> QED BY <1>1, <1>3, <1>7, <1>10, <2>1 DEF LeftIsUnranked, CardInv, Ranked3
<1>15. RanksFollow'
  BY <1>1, <1>3, <1>6, <1>7, <1>10 DEF RanksFollow, CardInv, Ranked3, s
<1>16. ContextOfList' /\ CardIsTruthful' /\ ContextIsOwn'
  BY <1>1, <1>3, <1>6 DEF ContextOfList, CardIsTruthful, ContextIsOwn
<1> QED BY <1>8, <1>9, <1>11, <1>12, <1>13, <1>14, <1>15, <1>16 DEF CardInv

(* The marks are read for the last student.                                *)
LEMMA ReadingMarksKeeps == CardInv /\ ReadMarks => CardInv'
<1> SUFFICES ASSUME CardInv, ReadMarks PROVE CardInv'
  OBVIOUS
<1> USE DEF CardInv
<1> DEFINE n == Len(build.reports)
           s == build.list[n]
           locked == \A a \in Counting(s) : assessment[a] = "locked"
           r == [build.reports[n] EXCEPT !.listed = AverageOf(s), !.locked = locked]
<1>1. UNCHANGED <<member, assessment, mark, termResult, report, since>>
  BY DEF ReadMarks
<1>2. Members' = Members /\ ClassLists' = ClassLists /\ Means' = Means
  BY <1>1, OwnStepsKeep
<1>3. /\ build \in Builds /\ report \in CardArchives
      /\ build.pc = "marks" /\ n # 0 /\ n =< Len(build.list)
      /\ report.status \notin {"absent", "completed"}
      /\ build' = [build EXCEPT !.pc = "result", !.reports[n].listed = AverageOf(s),
                                !.reports[n].locked = locked]
  BY DEF ReadMarks, CardTypes, BuildIsWanted, ListIsRead
<1>4. /\ build.list \in Seq(Students) /\ build.reports \in Seq(CardReports)
      /\ n \in Nat /\ Len(build.list) \in Nat /\ n \in DOMAIN build.list
      /\ n \in DOMAIN build.reports /\ s \in Students
  BY <1>3 DEF Builds
<1>5. /\ AverageOf(s) \in Int /\ AverageOf(s) = Means[s]
      /\ build.reports[n] \in CardReports /\ locked \in BOOLEAN
  <2>1. mark \in MarkTables
    BY DEF CardTypes
  <2> QED BY <1>4, <2>1, AveragesAreNumbers DEF Means
<1> DEFINE x == AverageOf(s)
<1> HIDE DEF locked, x, s, n, CardInv
<1>6. /\ r \in CardReports /\ r.student = build.reports[n].student
      /\ r.average = build.reports[n].average /\ r.rank = build.reports[n].rank
      /\ r.listed = x /\ r.locked = locked
  BY <1>5 DEF CardReports, Averages, x
<1>7. /\ build'.pc = "result" /\ build'.list = build.list
      /\ build'.reports = [build.reports EXCEPT ![n] = r] /\ build' \in Builds
  <2> DEFINE new == [build.reports EXCEPT ![n] = r]
  <2>1. new \in Seq(CardReports)
    <3> HIDE DEF r
    <3> QED BY <1>4, <1>6
  <2>2. /\ build' = [pc |-> "result", list |-> build.list, tries |-> build.tries, reports |-> new]
        /\ build.tries \in Nat
    BY <1>3 DEF Builds, x
  <2> HIDE DEF new
  <2>3. build' \in Builds
    BY <1>4, <2>1, <2>2, BuildIs
  <2> QED BY <2>2, <2>3 DEF new
<1> HIDE DEF r
<1>8. /\ Len(build'.reports) = n
      /\ DOMAIN build'.reports = DOMAIN build.reports
      /\ \A i \in DOMAIN build.reports :
           build'.reports[i] = IF i = n THEN r ELSE build.reports[i]
  BY <1>4, <1>6, <1>7 DEF n
<1>9. CardTypes'
  BY <1>1, <1>3, <1>7 DEF CardInv, CardTypes, MarkTables, Results, Averages
<1>10. BuildIsWanted'
  BY <1>1, <1>2, <1>3, <1>7 DEF CardInv, BuildIsWanted
<1>11. ListIsRead'
  <2>1. \A i \in DOMAIN build'.reports : build'.reports[i].student = build.list[i]
    BY <1>6, <1>8 DEF ListIsRead, CardInv
  <2> QED BY <1>1, <1>2, <1>3, <1>7, <1>8, <2>1 DEF CardInv, ListIsRead, Listed, Calculated, Ranked3
<1>12. AveragesAgree'
  <2>1. CASE "marks" \in since
    BY <1>1, <2>1 DEF AveragesAgree
  <2>2. CASE "marks" \notin since
    <3>1. \A i \in DOMAIN build.list : termResult[build.list[i]].average = Means[build.list[i]]
      BY <1>3, <2>2 DEF AveragesAgree, CardInv, Calculated
    <3>2. \A i \in DOMAIN build.reports :
            /\ build.reports[i].average = Means[build.list[i]]
            /\ i < n => build.reports[i].listed = Means[build.list[i]]
      BY <1>3, <2>2 DEF AveragesAgree, CardInv, n
    <3>3. \A i \in DOMAIN build.reports : i # n => i < n
      BY <1>4 DEF n
    <3>4. \A i \in DOMAIN build'.reports :
            /\ build'.reports[i].average = Means[build.list[i]]
            /\ build'.reports[i].listed = Means[build.list[i]]
      BY <1>4, <1>5, <1>6, <1>8, <3>2, <3>3 DEF s, x
    <3> QED BY <1>1, <1>2, <1>7, <3>1, <3>4 DEF AveragesAgree, Calculated
  <2> QED BY <2>1, <2>2
<1>13. AllLocked'
  <2>1. (\A a \in Assessments : assessment[a] \in {"absent", "locked"}) => locked
    BY DEF locked, Counting
  <2>2. report.status # "absent"
    BY <1>3
  <2> QED BY <1>1, <1>6, <1>8, <2>1, <2>2 DEF AllLocked, CardInv
<1>14. LeftIsUnranked'
  BY <1>1, <1>3, <1>4, <1>6, <1>8 DEF LeftIsUnranked, CardInv, Ranked3
<1>15. RanksFollow'
  BY <1>1, <1>3, <1>4, <1>6, <1>7, <1>8 DEF RanksFollow, CardInv, Ranked3
<1>16. ContextOfList' /\ CardIsTruthful' /\ ContextIsOwn'
  BY <1>1, <1>3, <1>7 DEF ContextOfList, CardIsTruthful, ContextIsOwn
<1> QED BY <1>9, <1>10, <1>11, <1>12, <1>13, <1>14, <1>15, <1>16 DEF CardInv

(* The context goes to the students of the list: it is their own when the  *)
(* second list is the first.                                               *)
LEMMA ReadingContextKeeps == CardInv /\ ReadContext => CardInv'
<1> SUFFICES ASSUME CardInv, ReadContext PROVE CardInv'
  OBVIOUS
<1> USE DEF CardInv
<1> DEFINE n == Len(build.reports)
           With(q) == [i \in DOMAIN build.reports |-> [build.reports[i] EXCEPT !.about = q[i]]]
<1>1. UNCHANGED <<member, assessment, mark, termResult, report, since>>
  BY DEF ReadContext
<1>2. Members' = Members /\ ClassLists' = ClassLists /\ Means' = Means
  BY <1>1, OwnStepsKeep
<1>3. /\ build \in Builds /\ report \in CardArchives
      /\ build.pc = "result" /\ n = Len(build.list)
      /\ report.status \notin {"absent", "completed"} /\ report.kind \in Kinds
      /\ report.kind = "student" => build.list = <<report.student>>
  BY DEF ReadContext, AllRead, CardTypes, BuildIsWanted, ListIsRead, Listed, Calculated
<1>4. /\ build.list \in Seq(Students) /\ build.reports \in Seq(CardReports)
      /\ n \in Nat /\ DOMAIN build.reports = 1 .. n /\ DOMAIN build.list = 1 .. n
  BY <1>3 DEF Builds
<1>5. \A q \in ClassLists : q \in Seq(Students)
  <2>1. Cardinality(Members) \in Nat /\ Members \subseteq Students
    BY MembersAre, CardAssumption, FS_Subset, FS_CardinalityType
  <2> QED BY <2>1 DEF ClassLists, SetToSeqs
<1>6. ASSUME NEW q \in Seq(Students), Len(q) = n
      PROVE  /\ With(q) \in Seq(CardReports) /\ Len(With(q)) = n
             /\ \A i \in 1 .. n : /\ With(q)[i].student = build.reports[i].student
                                  /\ With(q)[i].average = build.reports[i].average
                                  /\ With(q)[i].rank = build.reports[i].rank
                                  /\ With(q)[i].listed = build.reports[i].listed
                                  /\ With(q)[i].locked = build.reports[i].locked
                                  /\ With(q)[i].about = q[i]
  <2>1. ASSUME NEW i \in 1 .. n
        PROVE  /\ With(q)[i] \in CardReports
               /\ With(q)[i].student = build.reports[i].student
               /\ With(q)[i].average = build.reports[i].average
               /\ With(q)[i].rank = build.reports[i].rank
               /\ With(q)[i].listed = build.reports[i].listed
               /\ With(q)[i].locked = build.reports[i].locked
               /\ With(q)[i].about = q[i]
    <3>1. build.reports[i] \in CardReports /\ q[i] \in Students
      BY <1>4, <1>6
    <3>2. With(q)[i] = [build.reports[i] EXCEPT !.about = q[i]]
      BY <1>4
    <3> HIDE DEF With
    <3> QED BY <3>1, <3>2 DEF CardReports
  <2>2. With(q) = [i \in 1 .. n |-> With(q)[i]]
    BY <1>4
  <2> HIDE DEF With, n
  <2>3. With(q) \in Seq(CardReports) /\ Len(With(q)) = n
    BY <1>4, <2>1, <2>2
  <2> QED BY <2>1, <2>3
(* What the reports are built of, whatever was attached. *)
<1>7. ASSUME NEW reports \in Seq(CardReports), Len(reports) = n,
             build' = [build EXCEPT !.pc = "store", !.reports = reports],
             \A i \in 1 .. n : /\ reports[i].student = build.reports[i].student
                               /\ reports[i].average = build.reports[i].average
                               /\ reports[i].rank = build.reports[i].rank
                               /\ reports[i].listed = build.reports[i].listed
                               /\ reports[i].locked = build.reports[i].locked,
             report.kind # "class" =>
               \/ report.kind = "draft" /\ "class" \in since
               \/ report.kind = "draft" /\ \E i, j \in DOMAIN build.list :
                    i # j /\ Surname[build.list[i]] = Surname[build.list[j]]
               \/ \A i \in 1 .. n : reports[i].about = reports[i].student
      PROVE  CardInv'
  <2>1. build'.pc = "store" /\ build'.list = build.list /\ build'.reports = reports /\ build' \in Builds
    <3>1. /\ build' = [pc |-> "store", list |-> build.list, tries |-> build.tries, reports |-> reports]
          /\ build.tries \in Nat
      BY <1>3, <1>7 DEF Builds
    <3> QED BY <1>4, <1>7, <3>1, BuildIs
  <2> HIDE DEF n, CardInv
  <2>2. DOMAIN reports = 1 .. n
    BY <1>4, <1>7
  <2>3. CardTypes'
    BY <1>1, <1>3, <2>1 DEF CardInv, CardTypes, MarkTables, Results, Averages
  <2>4. BuildIsWanted'
    BY <1>1, <1>2, <1>3, <2>1 DEF CardInv, BuildIsWanted
  <2>5. ListIsRead'
    <3>1. \A i \in 1 .. n : reports[i].student = build.list[i]
      BY <1>4, <1>7 DEF CardInv, ListIsRead
    <3> QED BY <1>1, <1>2, <1>3, <1>4, <1>7, <2>1, <2>2, <3>1
        DEF CardInv, ListIsRead, Listed, Calculated, Ranked3
  <2>6. AveragesAgree'
    <3>1. CASE "marks" \in since
      BY <1>1, <3>1 DEF AveragesAgree
    <3>2. CASE "marks" \notin since
      <4>1. \A i \in DOMAIN build.list : termResult[build.list[i]].average = Means[build.list[i]]
        BY <1>3, <3>2 DEF AveragesAgree, CardInv, Calculated
      <4>2. \A i \in 1 .. n : /\ build.reports[i].average = Means[build.list[i]]
                              /\ build.reports[i].listed = Means[build.list[i]]
        BY <1>3, <1>4, <3>2 DEF AveragesAgree, CardInv
      <4> QED BY <1>1, <1>2, <1>7, <2>1, <2>2, <4>1, <4>2 DEF AveragesAgree
    <3> QED BY <3>1, <3>2
  <2>7. AllLocked'
    BY <1>1, <1>4, <1>7, <2>1, <2>2 DEF CardInv, AllLocked
  <2>8. LeftIsUnranked'
    BY <1>1, <1>3, <1>4, <1>7, <2>1, <2>2 DEF CardInv, LeftIsUnranked, Ranked3
  <2>9. RanksFollow'
    BY <1>1, <1>3, <1>4, <1>7, <2>1, <2>2 DEF CardInv, RanksFollow, Ranked3
  <2>10. ContextOfList'
    BY <1>1, <1>7, <2>1, <2>2 DEF ContextOfList
  <2>11. CardIsTruthful' /\ ContextIsOwn'
    BY <1>1, <1>3 DEF CardIsTruthful, ContextIsOwn
  <2> QED BY <2>3, <2>4, <2>5, <2>6, <2>7, <2>8, <2>9, <2>10, <2>11 DEF CardInv
<1>8. \A i \in 1 .. n : build.reports[i].student = build.list[i]
  BY <1>4 DEF ListIsRead
<1>9. CASE report.kind = "class"
  <2>1. build' = [build EXCEPT !.pc = "store"]
    BY <1>9 DEF ReadContext
  <2>2. build' = [build EXCEPT !.pc = "store", !.reports = build.reports]
    BY <1>3, <2>1 DEF Builds
  <2> QED BY <1>4, <1>7, <1>9, <2>2
<1>10. ASSUME NEW q \in Seq(Students), Len(q) = n, Attach(q),
              \/ report.kind = "draft" /\ "class" \in since
              \/ report.kind = "draft" /\ \E i, j \in DOMAIN build.list :
                   i # j /\ Surname[build.list[i]] = Surname[build.list[j]]
              \/ q = build.list
       PROVE  CardInv'
  <2>1. build' = [build EXCEPT !.pc = "store", !.reports = With(q)]
    BY <1>10 DEF Attach
  <2>2. /\ With(q) \in Seq(CardReports) /\ Len(With(q)) = n
        /\ \A i \in 1 .. n : /\ With(q)[i].student = build.reports[i].student
                             /\ With(q)[i].average = build.reports[i].average
                             /\ With(q)[i].rank = build.reports[i].rank
                             /\ With(q)[i].listed = build.reports[i].listed
                             /\ With(q)[i].locked = build.reports[i].locked
                             /\ With(q)[i].about = q[i]
    BY <1>6, <1>10
  <2> HIDE DEF With, n, CardInv
  <2>3. q = build.list => \A i \in 1 .. n : With(q)[i].about = With(q)[i].student
    BY <1>8, <2>2
  <2> QED BY <1>7, <1>10, <2>1, <2>2, <2>3
<1>11. CASE report.kind = "student"
  <2>1. Attach(build.list)
    BY <1>11 DEF ReadContext
  <2> QED BY <1>3, <1>4, <1>10, <2>1
<1>12. CASE report.kind = "draft"
  <2>1. PICK q \in ClassLists : Len(q) = n /\ Attach(q)
    <3>1. \E q \in ClassLists : Len(q) = Len(build.list) /\ Attach(q)
      <4> HIDE DEF CardInv, n
      <4> QED BY <1>12 DEF ReadContext, SecondLists
    <3> QED BY <1>3, <3>1
  <2>2. "class" \notin since => build.list \in ClassLists
    BY <1>3, <1>12 DEF ListIsRead, Listed, Calculated
  <2>3. \/ "class" \in since
        \/ \E i, j \in DOMAIN build.list :
             i # j /\ Surname[build.list[i]] = Surname[build.list[j]]
        \/ q = build.list
    BY <2>2, ListsAgree
  <2> QED BY <1>5, <1>10, <1>12, <2>1, <2>3
<1> QED BY <1>3, <1>9, <1>11, <1>12 DEF Kinds

(* What is stored is what was read.                                        *)
LEMMA StoringKeeps == CardInv /\ StoreReport => CardInv'
<1> SUFFICES ASSUME CardInv, StoreReport PROVE CardInv'
  OBVIOUS
<1> USE DEF CardInv
<1>1. UNCHANGED <<member, assessment, mark, termResult, since>>
  BY DEF StoreReport
<1>2. Members' = Members
  BY <1>1, OwnStepsKeep
<1>3. /\ build \in Builds /\ report \in CardArchives /\ build.pc = "store"
      /\ report.status \notin {"absent", "completed"}
      /\ report' = [report EXCEPT !.status = "completed", !.reports = build.reports]
      /\ build' = NoBuild
  BY DEF StoreReport, CardTypes, BuildIsWanted
<1>4. /\ build.list \in Seq(Students) /\ build.reports \in Seq(CardReports)
      /\ Len(build.reports) = Len(build.list) /\ DOMAIN build.reports = DOMAIN build.list
      /\ \A i \in DOMAIN build.reports : build.reports[i].student = build.list[i]
  BY <1>3 DEF Builds, ListIsRead
<1>5. /\ report'.status = "completed" /\ report'.kind = report.kind
      /\ report'.student = report.student /\ report'.active = report.active
      /\ report'.reports = build.reports /\ report' \in CardArchives
  BY <1>3, <1>4 DEF CardArchives
<1>6. build'.pc = "none" /\ build'.list = <<>> /\ build'.reports = <<>> /\ build' \in Builds
  <2>1. build' = [pc |-> "none", list |-> <<>>, tries |-> 0, reports |-> <<>>]
    BY <1>3 DEF NoBuild
  <2>2. <<>> \in Seq(Students) /\ <<>> \in Seq(CardReports)
    OBVIOUS
  <2> QED BY <2>1, <2>2, BuildIs
<1> HIDE DEF CardInv
<1>7. CardTypes'
  BY <1>1, <1>5, <1>6 DEF CardInv, CardTypes, MarkTables, Results, Averages
<1>8. BuildIsWanted'
  BY <1>2, <1>3, <1>5, <1>6 DEF CardInv, BuildIsWanted
<1>9. ListIsRead' /\ AveragesAgree'
  BY <1>6 DEF ListIsRead, AveragesAgree, Listed, Calculated, Ranked3
<1>10. AllLocked' /\ LeftIsUnranked' /\ RanksFollow' /\ ContextOfList'
  BY <1>1, <1>3, <1>5, <1>6 DEF CardInv, AllLocked, LeftIsUnranked, RanksFollow, ContextOfList, Ranked3
<1>11. CardIsTruthful'
  <2> SUFFICES ASSUME NEW i \in DOMAIN build.reports
               PROVE  LET r == build.reports[i] IN
        /\ "marks" \notin since => r.average = r.listed
        /\ report.kind # "draft" /\ "assessments" \notin since => r.locked
        /\ ~report.active /\ "results" \notin since => r.rank = Unranked
        /\ report.kind # "student" /\ since \cap {"marks", "results"} = {} =>
             \A j \in DOMAIN build.reports :
               r.rank < build.reports[j].rank /\ r.rank # Unranked =>
                 r.average > build.reports[j].average
    BY <1>1, <1>5 DEF CardIsTruthful
  <2>1. "marks" \notin since => build.reports[i].average = build.reports[i].listed
    BY <1>3 DEF CardInv, AveragesAgree
  <2>2. report.kind # "draft" /\ "assessments" \notin since => build.reports[i].locked
    BY DEF CardInv, AllLocked
  <2>3. ~report.active /\ "results" \notin since => build.reports[i].rank = Unranked
    BY DEF CardInv, LeftIsUnranked
  <2>4. ASSUME report.kind # "student", "results" \notin since, NEW j \in DOMAIN build.reports,
               build.reports[i].rank < build.reports[j].rank, build.reports[i].rank # Unranked
        PROVE  build.reports[i].average > build.reports[j].average
    <3>1. Ordered(build.list, termResult)
      BY <1>3, <2>4 DEF CardInv, RanksFollow, Ranked3
    <3>2. /\ build.reports[i].average = termResult[build.list[i]].average
          /\ build.reports[i].rank = termResult[build.list[i]].rank
          /\ build.reports[j].average = termResult[build.list[j]].average
          /\ build.reports[j].rank = termResult[build.list[j]].rank
      BY <2>4 DEF CardInv, RanksFollow
    <3> QED BY <1>4, <2>4, <3>1, <3>2 DEF Ordered
  <2> QED BY <2>1, <2>2, <2>3, <2>4
<1>12. ContextIsOwn'
  BY <1>1, <1>3, <1>4, <1>5 DEF CardInv, ContextOfList, ContextIsOwn
<1> QED BY <1>7, <1>8, <1>9, <1>10, <1>11, <1>12 DEF CardInv

LEMMA CardInvInit == CardInit => CardInv
<1> SUFFICES ASSUME CardInit PROVE CardInv
  OBVIOUS
<1>1. /\ member \in [Students -> {"to come", "active", "left"}]
      /\ termResult = Recalculated([s \in Students |-> NoResult])
      /\ report = [status |-> "absent", kind |-> "none", student |-> Nobody,
                   active |-> TRUE, reports |-> <<>>]
      /\ build = NoBuild /\ since = {}
  BY DEF CardInit
<1>2. assessment \in [Assessments -> {"absent", "draft", "approved", "locked"}] /\ mark \in MarkTables
  <2> DEFINE a == CHOOSE b \in Assessments : TRUE
  <2>1. PICK st \in {"approved", "locked"}, f \in [Members -> Marks] :
          /\ assessment = [[b \in Assessments |-> "absent"] EXCEPT ![a] = st]
          /\ mark = [b \in Assessments |-> [s \in Students |->
                       IF b = a /\ s \in Members THEN f[s] ELSE NoMark]]
    BY DEF CardInit
  <2> HIDE DEF a
  <2> QED BY <2>1 DEF MarkTables
<1>3. report \in CardArchives /\ build \in Builds
  <2>1. <<>> \in Seq(Students) /\ <<>> \in Seq(CardReports)
    OBVIOUS
  <2> QED BY <1>1, <2>1 DEF CardArchives, Builds, NoBuild
<1>4. termResult \in [Students -> Results]
  <2> DEFINE rows == [s \in Students |-> NoResult]
  <2>1. rows \in [Students -> Results]
    BY DEF NoResult, Results, Averages, NoAverage, Unranked
  <2> HIDE DEF rows
  <2>2. Recalculated(rows) \in [Students -> Results]
    BY <1>2, <2>1, RecalculatedIs
  <2> QED BY <1>1, <2>2 DEF rows
<1>5. CardTypes
  BY <1>1, <1>2, <1>3, <1>4 DEF CardTypes
<1>6. /\ build.pc = "none" /\ build.list = <<>> /\ build.reports = <<>>
      /\ report.status = "absent" /\ report.active
  BY <1>1 DEF NoBuild
<1>7. BuildIsWanted /\ ListIsRead /\ AveragesAgree
  BY <1>6 DEF BuildIsWanted, ListIsRead, AveragesAgree, Listed, Calculated, Ranked3
<1>8. AllLocked /\ LeftIsUnranked /\ RanksFollow /\ ContextOfList
  BY <1>6 DEF AllLocked, LeftIsUnranked, RanksFollow, ContextOfList, Ranked3
<1>9. CardIsTruthful /\ ContextIsOwn
  BY <1>6 DEF CardIsTruthful, ContextIsOwn
<1> QED BY <1>5, <1>7, <1>8, <1>9 DEF CardInv

LEMMA CardInvNext == CardInv /\ [CardNext]_cardVars => CardInv'
<1> SUFFICES ASSUME CardInv, [CardNext]_cardVars PROVE CardInv'
  OBVIOUS
<1>1. CASE \E kind \in Kinds, s \in Students \cup {Nobody} : RequestReport(kind, s)
  BY <1>1, RequestKeeps
<1>2. CASE ClaimReport \/ ListClass
  BY <1>2, BeginningKeeps
<1>3. CASE Recalculate \/ Unrank
  BY <1>3, RecalculatingKeeps
<1>4. CASE ReadResult \/ ReadMarks
  BY <1>4, ReadingResultKeeps, ReadingMarksKeeps
<1>5. CASE ReadContext \/ StoreReport
  BY <1>5, ReadingContextKeeps, StoringKeeps
<1>6. CASE FailReport \/ LoseReport
  BY <1>6, GivingUpKeeps
<1>7. CASE \/ \E a \in Assessments :
                \/ AddAssessment(a) \/ ApproveMarks(a) \/ LockMarks(a)
                \/ \E s \in Students, v \in Marks : CorrectMark(a, s, v)
           \/ \E s \in Students : JoinClass(s) \/ LeaveClass(s) \/ OthersUnrank(s)
           \/ OthersRecalculate
  <2>1. CardTypes
    BY DEF CardInv
  <2>2. Aside /\ CardTypes'
    BY <1>7, <2>1, OthersStepAside
  <2> QED BY <2>2, AsideKeeps
<1>8. CASE UNCHANGED cardVars
  <2>1. UNCHANGED <<member, assessment, mark, termResult, report, build, since>>
    BY <1>8 DEF cardVars
  <2>2. Members' = Members /\ ClassLists' = ClassLists /\ Means' = Means
    BY <2>1, OwnStepsKeep
  <2>3. Aside
    BY <2>1, <2>2 DEF Aside
  <2>4. CardTypes'
    BY <2>1 DEF CardInv, CardTypes, MarkTables, Results, Averages
  <2> QED BY <2>3, <2>4, AsideKeeps
<1> QED BY <1>1, <1>2, <1>3, <1>4, <1>5, <1>6, <1>7, <1>8 DEF CardNext

-----------------------------------------------------------------------------
(* The reports as a whole: each behaviour is about one of its parts. *)

LEMMA ReportsSteps ==
  [ReportsNext]_reportVars =>
    [Next]_vars /\ [BatchNext]_batchVars /\ [CardNext]_cardVars
<1> SUFFICES ASSUME [ReportsNext]_reportVars
             PROVE  [Next]_vars /\ [BatchNext]_batchVars /\ [CardNext]_cardVars
  OBVIOUS
<1>1. CASE Draft /\ UNCHANGED <<batchVars, cardVars, analyticsVars, about>>
  BY <1>1 DEF Draft
<1>2. CASE Batch /\ UNCHANGED <<vars, cardVars, analyticsVars, about>>
  BY <1>2 DEF Batch
<1>3. CASE Card /\ UNCHANGED <<vars, batchVars, analyticsVars, about>>
  BY <1>3 DEF Card
<1>4. CASE UNCHANGED <<vars, batchVars, cardVars>>
  BY <1>4
<1> QED
  BY <1>1, <1>2, <1>3, <1>4 DEF ReportsNext, reportVars

(* The inductive invariants of a draft, of a batch and of a card.          *)
LEMMA ReportsInvariant == ReportsSpec => [](DraftInv /\ BatchInv /\ CardInv)
<1>1. ReportsInit => DraftInv /\ BatchInv /\ CardInv
  BY DraftInvInit, BatchInvInit, CardInvInit DEF ReportsInit
<1>2. DraftInv /\ BatchInv /\ CardInv /\ [ReportsNext]_reportVars
        => (DraftInv /\ BatchInv /\ CardInv)'
  BY ReportsSteps, DraftInvNext, BatchInvNext, CardInvNext
<1> QED
  BY <1>1, <1>2, PTL DEF ReportsSpec

(* A RENDERED draft points at an archive that was completed, whatever      *)
(* renders overlapped or failed, and what is in an archive is what an      *)
(* approving reviewer had read, unless an edit that began on a DRAFT was   *)
(* written after its submission.                                           *)
THEOREM WhatIsRenderedWasApproved == ReportsSpec => []RenderedAsApproved
<1>1. DraftInv => RenderedAsApproved
  BY DraftInvMeans
<1> QED
  BY <1>1, ReportsInvariant, PTL

(* A completed archive keeps its status, its content and its release, and  *)
(* only a completed one is ever released.                                  *)
THEOREM ArchivesStayFrozen == ReportsSpec => ArchiveIsFrozen
<1>1. DraftInv /\ DraftInv' /\ [ReportsNext]_reportVars => [Frozen]_vars
  BY ReportsSteps, DraftSteps
<1> QED
  BY <1>1, ReportsInvariant, PTL DEF ArchiveIsFrozen, Frozen, ReportsSpec

(* What a finished batch says of itself holds of its items, whatever was   *)
(* rendered again by a retry, failed half-way or lost its worker.          *)
THEOREM FinishedBatchIsTruthful == ReportsSpec => []BatchTellsTheTruth
<1>1. BatchInv => BatchTellsTheTruth
  BY TotalsAreTheRest DEF BatchInv
<1> QED
  BY <1>1, ReportsInvariant, PTL

(* A finished report is one picture of the class, although its build read  *)
(* and wrote results, marks and assessments in transactions of their own,  *)
(* was retried or lost its worker.                                         *)
THEOREM ReportsTellOneStory == ReportsSpec => []CardIsTruthful
<1>1. CardInv => CardIsTruthful
  BY DEF CardInv
<1> QED
  BY <1>1, ReportsInvariant, PTL

(* The context beside a student in a draft is about that student, although *)
(* the class was listed twice: equal queries give one order as long as no  *)
(* last name is shared and the class stays the same.                       *)
THEOREM ContextStaysWithItsStudent == ReportsSpec => []ContextIsOwn
<1>1. CardInv => ContextIsOwn
  BY DEF CardInv
<1> QED
  BY <1>1, ReportsInvariant, PTL
=============================================================================
