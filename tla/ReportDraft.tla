----------------------------- MODULE ReportDraft -----------------------------
(***************************************************************************)
(* One report draft and the archives that are rendered from it (reports    *)
(* app): edit, submit, approve, reject and render, and the release of an   *)
(* archive to the family.                                                  *)
(*                                                                         *)
(* Every request but the inside of render reads its row without a lock,    *)
(* refuses it by the status it read, and writes later: a read step and a   *)
(* write step, each write naming its own columns only.  render holds the   *)
(* row lock twice, before and after the rendering itself.                  *)
(***************************************************************************)
EXTENDS Integers

CONSTANTS
  Users,        \* web requests running at the same time
  Contents,     \* values of content_overrides
  Blank,        \* the one a draft is created with
  MaxArchives,  \* bound: archives rendered from the draft
  MaxCrashes    \* bound: web processes that die while rendering

ASSUME DraftAssumption ==
  /\ Blank \in Contents
  /\ MaxArchives \in Nat \ {0}
  /\ MaxCrashes \in Nat

VARIABLES
  status,     \* ReportDraft.status
  content,    \* ReportDraft.content_overrides
  link,       \* ReportDraft.archive, 0 when null
  archive,    \* ReportArchive rows, in the order of their creation
  request,    \* what each request will do next, and what it has read
  approved,   \* history: contents that an approving reviewer had read
  lateEdit,   \* history: an edit that had read DRAFT was written after it
  crashes     \* counts against the bound

draftVars == <<status, content, link>>
vars == <<draftVars, archive, request, approved, lateEdit, crashes>>

Statuses == {"draft", "submitted", "approved", "rejected", "rendered"}
Archives == 1 .. MaxArchives

NoArchive == [status |-> "absent", content |-> Blank, released |-> FALSE]
ArchiveRows == [status : {"absent", "processing", "completed", "failed"},
                content : Contents, released : BOOLEAN]

Idle == [op |-> "none", status |-> "draft", content |-> Blank, archive |-> 0]
Ops == {"none", "edit", "submit", "approve", "reject", "render", "rendering", "release"}
Requests == [op : Ops, status : Statuses, content : Contents, archive : 0 .. MaxArchives]

TypeOK ==
  /\ status \in Statuses
  /\ content \in Contents
  /\ link \in 0 .. MaxArchives
  /\ archive \in [Archives -> ArchiveRows]
  /\ request \in [Users -> Requests]
  /\ approved \subseteq Contents
  /\ lateEdit \in BOOLEAN
  /\ crashes \in 0 .. MaxCrashes

Init ==
  /\ status = "draft"
  /\ content = Blank
  /\ link = 0
  /\ archive = [a \in Archives |-> NoArchive]
  /\ request = [u \in Users |-> Idle]
  /\ approved = {}
  /\ lateEdit = FALSE
  /\ crashes = 0

-----------------------------------------------------------------------------
(* The status a request must have read, or it is refused. *)
Needs(op) ==
  CASE op \in {"edit", "submit"}    -> "draft"
    [] op \in {"approve", "reject"} -> "submitted"
    [] op = "render"                -> "approved"

(* get_object, for a request which read status s of the draft. *)
ReadAt(u, op, s) ==
  /\ request[u].op = "none"
  /\ status = s
  /\ request' = [request EXCEPT ![u] = [op |-> op, status |-> status,
                                        content |-> content, archive |-> 0]]
  /\ UNCHANGED <<draftVars, archive, approved, lateEdit, crashes>>

(* Plausible bug: a draft may still be edited while it is under review. *)
ReadEvenUnderReview(u, op) ==
  \/ ReadAt(u, op, Needs(op))
  \/ op = "edit" /\ ReadAt(u, op, "submitted")

Read(u, op) == ReadAt(u, op, Needs(op))

Respond(u) == request' = [request EXCEPT ![u] = Idle]

(* partial_update: content_overrides is the only column written. *)
Edit(u, c) ==
  /\ request[u].op = "edit"
  /\ content' = c
  /\ lateEdit' = (lateEdit \/ (request[u].status = "draft" /\ status # "draft"))
  /\ Respond(u)
  /\ UNCHANGED <<status, link, archive, approved, crashes>>

Submit(u) ==
  /\ request[u].op = "submit"
  /\ status' = "submitted"
  /\ Respond(u)
  /\ UNCHANGED <<content, link, archive, approved, lateEdit, crashes>>

Approve(u) ==
  /\ request[u].op = "approve"
  /\ status' = "approved"
  /\ approved' = approved \cup {request[u].content}
  /\ Respond(u)
  /\ UNCHANGED <<content, link, archive, lateEdit, crashes>>

Reject(u) ==
  /\ request[u].op = "reject"
  /\ status' = "rejected"
  /\ Respond(u)
  /\ UNCHANGED <<content, link, archive, approved, lateEdit, crashes>>

(* Under the row lock the draft is rendered already, or not approved after *)
(* all: render answers without an archive.                                 *)
RefuseRender(u) ==
  /\ request[u].op = "render"
  /\ status # "approved"
  /\ Respond(u)
  /\ UNCHANGED <<draftVars, archive, approved, lateEdit, crashes>>

(* The first transaction of render_report_draft: an archive with a copy of *)
(* the content is PROCESSING; the draft stays APPROVED.                    *)
StartRender(u, a) ==
  /\ request[u].op = "render"
  /\ status = "approved"
  /\ archive[a].status = "absent"
  /\ \A b \in 1 .. a - 1 : archive[b].status # "absent"
  /\ archive' = [archive EXCEPT ![a] = [status |-> "processing", content |-> content,
                                        released |-> FALSE]]
  /\ request' = [request EXCEPT ![u].op = "rendering", ![u].archive = a]
  /\ UNCHANGED <<draftVars, approved, lateEdit, crashes>>

(* Plausible bug: a third transaction for the draft, which can still fail. *)
FinishArchiveFirst(u) ==
  /\ request[u].op = "rendering"
  /\ archive' = [archive EXCEPT ![request[u].archive].status = "completed"]
  /\ UNCHANGED <<draftVars, request, approved, lateEdit, crashes>>

(* The file is stored; the second transaction completes the archive and    *)
(* the draft, whatever the draft's status is by now.                       *)
FinishRender(u) ==
  LET a == request[u].archive IN
  /\ request[u].op = "rendering"
  /\ archive' = [archive EXCEPT ![a].status = "completed"]
  /\ status' = "rendered"
  /\ link' = a
  /\ Respond(u)
  /\ UNCHANGED <<content, approved, lateEdit, crashes>>

(* Rendering, storing or the second transaction raises. *)
FailRender(u) ==
  /\ request[u].op = "rendering"
  /\ archive' = [archive EXCEPT ![request[u].archive].status = "failed"]
  /\ Respond(u)
  /\ UNCHANGED <<draftVars, approved, lateEdit, crashes>>

(* The web process dies: the archive stays PROCESSING. *)
Die(u) ==
  /\ request[u].op = "rendering"
  /\ crashes < MaxCrashes
  /\ crashes' = crashes + 1
  /\ Respond(u)
  /\ UNCHANGED <<draftVars, archive, approved, lateEdit>>

(* ReportArchiveViewSet.release, of an archive read as COMPLETED. *)
ReadArchive(u, a) ==
  /\ request[u].op = "none"
  /\ archive[a].status = "completed" /\ ~archive[a].released
  /\ request' = [request EXCEPT ![u] = [Idle EXCEPT !.op = "release", !.archive = a]]
  /\ UNCHANGED <<draftVars, archive, approved, lateEdit, crashes>>

Release(u) ==
  /\ request[u].op = "release"
  /\ archive' = [archive EXCEPT ![request[u].archive].released = TRUE]
  /\ Respond(u)
  /\ UNCHANGED <<draftVars, approved, lateEdit, crashes>>

Next ==
  \E u \in Users :
    \/ \E op \in {"edit", "submit", "approve", "reject", "render"} : Read(u, op)
    \/ \E c \in Contents : Edit(u, c)
    \/ Submit(u)
    \/ Approve(u)
    \/ Reject(u)
    \/ RefuseRender(u)
    \/ \E a \in Archives : StartRender(u, a) \/ ReadArchive(u, a)
    \/ FinishRender(u)
    \/ FailRender(u)
    \/ Die(u)
    \/ Release(u)

Spec == Init /\ [][Next]_vars
-----------------------------------------------------------------------------
(* A RENDERED draft points at an archive that was completed, also when     *)
(* several renders of it overlap and some of them fail; and what goes into *)
(* an archive is what some approving reviewer had read, unless an edit     *)
(* that began on a DRAFT was written after its submission.                 *)
RenderedAsApproved ==
  /\ status = "rendered" => link # 0 /\ archive[link].status = "completed"
  /\ ~lateEdit => \A a \in Archives :
       archive[a].status # "absent" => archive[a].content \in approved

(* A completed archive keeps its status, its content and its release, and  *)
(* only a completed one is ever released.                                  *)
ArchiveIsFrozen ==
  [][\A a \in Archives :
       /\ archive[a].status = "completed" =>
            /\ archive'[a].status = "completed"
            /\ archive'[a].content = archive[a].content
            /\ archive[a].released => archive'[a].released
       /\ archive'[a].released => archive'[a].status = "completed"]_vars
=============================================================================
