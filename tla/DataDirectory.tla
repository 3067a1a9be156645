--------------------------- MODULE DataDirectory ---------------------------
(***************************************************************************)
(* The directory of workbooks, what the scanner keeps of it, and which     *)
(* workbook a report names as its source.  A scan visits the files one     *)
(* after the other in transactions of its own: the manifest is reset, its  *)
(* rows are deleted, the file is read, the rows are written and the        *)
(* manifest is saved; the overlaps between the files are computed again at *)
(* the end.  The scanners are requests of the API and the first phase of   *)
(* the ingest; each may die anywhere.  Files are replaced and removed at   *)
(* any time.                                                               *)
(***************************************************************************)
EXTENDS Naturals, FiniteSets, SequencesExt

CONSTANTS FileOrder,    \* the names, in the order in which the files are visited
          Contents,     \* what each of them may hold, see below
          Scanners,     \* requests and commands that scan
          Ingestor,     \* the scanner that goes on to ingest, see SubjectExam
          Classes, Students, Months,
          Blank,        \* an empty cell, no file, no selection
          MaxScans,     \* bound on the scans started
          MaxChanges    \* bound on the changes of files, students and selections

(* A workbook is [checksum, readable, kind, lines, exam, outcome]: whether *)
(* every sheet can be read, the lines of those that can, each              *)
(* [row, class, id, month, classified], and what the ingest makes of it.   *)

VARIABLES
  folder,       \* what each file holds now
  manifests,    \* what is recorded of each file, at most one record of each
  sourceRows,   \* the rows kept of the files
  conflicts,    \* the open conflicts: [type, class, student, files]
  selections,   \* the file a person has chosen for each class
  scans,        \* how far each scanner is
  undisturbed,  \* whether the last scan begun is complete and ran alone
  counts        \* scans started and changes made, bounded

dirVars == <<folder, manifests, sourceRows, conflicts, selections, scans,
             undisturbed, counts>>

SourceFiles == Range(FileOrder)
FirstFile(files) == FileOrder[CHOOSE i \in DOMAIN FileOrder :
                                /\ FileOrder[i] \in files
                                /\ \A j \in 1..(i - 1) : FileOrder[j] \notin files]

(* The files and classes are told apart from an empty cell and from what   *)
(* SourceOf says when it names no file; every file can hold something.     *)
ASSUME DirectoryAssumption ==
  /\ FileOrder \in Seq(SourceFiles)
  /\ SourceFiles \cap {Blank, "NONE", "REFUSED"} = {}
  /\ Blank \notin Classes
  /\ Ingestor \in Scanners
  /\ \A f \in SourceFiles : Contents[f] # {} /\ Blank \notin Contents[f]

(* A scan: the files it has still to visit, in their order, and the        *)
(* manifest and the rows it has in memory of the first of them.            *)
NoManifest == [status |-> "none"]
IdleScan == [pc |-> "idle", todo |-> {}, manifest |-> NoManifest, rows |-> {}, alone |-> TRUE]
NextFile(files, alone) ==
  [pc |-> "next", todo |-> files, manifest |-> NoManifest, rows |-> {}, alone |-> alone]
Scanned(f) == manifests[f] # NoManifest

DirInit ==
  /\ folder = [f \in SourceFiles |-> CHOOSE content \in Contents[f] : TRUE]
  /\ manifests = [f \in SourceFiles |-> NoManifest]
  /\ sourceRows = {}
  /\ conflicts = {}
  /\ selections = [c \in Classes |-> Blank]
  /\ scans = [p \in Scanners |-> IdleScan]
  /\ undisturbed = TRUE
  /\ counts = [scans |-> 0, changes |-> 0]

-----------------------------------------------------------------------------
(* Reading. *)

(* Nine digits are an identity that has lost its zero; ten are one. *)
NationalId(id) == IF id # Blank /\ id.digits \in {9, 10} THEN id.student ELSE Blank

RowKind(line) ==
  CASE NationalId(line.id) # Blank /\ line.month # Blank -> "evaluation"
    [] NationalId(line.id) # Blank /\ line.month = Blank -> "student"
    [] NationalId(line.id) = Blank /\ (line.class # Blank \/ line.classified) -> "class"
    [] OTHER -> "other"

RowsRead(f, content) ==
  {[file |-> f, row |-> line.row, kind |-> RowKind(line), class |-> line.class,
    student |-> NationalId(line.id),
    month |-> IF line.month \in Months THEN line.month ELSE Blank] : line \in content.lines}

Detected(content) == {line.class : line \in content.lines} \ {Blank}
Defined(content) == {line.class : line \in {l \in content.lines : l.classified}} \ {Blank}

(* A file that cannot be read to its end is INVALID and keeps the rows of  *)
(* the sheets before; one that classifies nobody is INCOMPLETE.            *)
ReadStatus(content) ==
  CASE content = Blank \/ ~content.readable -> "INVALID"
    [] content # Blank /\ content.readable /\ Defined(content) = {} -> "INCOMPLETE"
    [] OTHER -> "VALID"

-----------------------------------------------------------------------------
(* The scan. *)

ScanningNow == {p \in Scanners : scans[p].pc \in {"next", "registered", "read", "written"}}

StartScan(p) ==
  /\ scans[p].pc = "idle" /\ counts.scans < MaxScans
  /\ scans' = [q \in Scanners |->
       IF q = p
       THEN NextFile({f \in SourceFiles : folder[f] # Blank}, ScanningNow = {})
       ELSE [scans[q] EXCEPT !.alone = FALSE]]
  /\ undisturbed' = FALSE
  /\ counts' = [counts EXCEPT !.scans = @ + 1]
  /\ UNCHANGED <<folder, manifests, sourceRows, conflicts, selections>>

(* A request that raises ends here, and so does one whose worker dies. *)
AbandonScan(p) == scans' = [scans EXCEPT ![p] = IdleScan]

(* _scan_workbook: the digest, and the manifest reset.  A file that has    *)
(* gone raises.                                                            *)
RegisterWorkbook(p) ==
  /\ scans[p].pc = "next" /\ scans[p].todo # {}
  /\ LET f == FirstFile(scans[p].todo)
         reset == [status |-> "VALID", checksum |-> folder[f].checksum, classes |-> {},
                   count |-> 0,
                   ingest |-> IF Scanned(f) THEN manifests[f].ingest ELSE "NOT_PROCESSED"]
     IN  IF folder[f] = Blank
         THEN AbandonScan(p) /\ UNCHANGED manifests
         ELSE /\ manifests' = [manifests EXCEPT ![f] = reset]
              /\ scans' = [scans EXCEPT
                   ![p] = [@ EXCEPT !.pc = "registered", !.manifest = reset]]
  /\ UNCHANGED <<folder, sourceRows, conflicts, selections, undisturbed, counts>>

(* The rows of the file are deleted; it is read as it is now.  What was    *)
(* read is in memory only.                                                 *)
ReplaceRows(p) ==
  /\ scans[p].pc = "registered"
  /\ LET f == FirstFile(scans[p].todo)
         content == folder[f]
         rows == IF content = Blank THEN {} ELSE RowsRead(f, content)
         read == [status |-> ReadStatus(content), checksum |-> scans[p].manifest.checksum,
                  classes |-> IF content = Blank THEN {} ELSE Detected(content),
                  count |-> Cardinality(rows), ingest |-> scans[p].manifest.ingest]
     IN  /\ sourceRows' = {r \in sourceRows : r.file # f}
         /\ scans' = [scans EXCEPT ![p] = [pc |-> "read", todo |-> @.todo, manifest |-> read,
                                          rows |-> rows, alone |-> @.alone]]
  /\ UNCHANGED <<folder, manifests, conflicts, selections, undisturbed, counts>>

(* bulk_create: all the rows, or none and an error when one of them is     *)
(* there already.                                                          *)
WriteRows(p) ==
  /\ scans[p].pc = "read"
  /\ IF \E r \in sourceRows, n \in scans[p].rows : r.file = n.file /\ r.row = n.row
     THEN AbandonScan(p) /\ UNCHANGED sourceRows
     ELSE /\ sourceRows' = sourceRows \cup scans[p].rows
          /\ scans' = [scans EXCEPT ![p] = [@ EXCEPT !.pc = "written"]]
  /\ UNCHANGED <<folder, manifests, conflicts, selections, undisturbed, counts>>

(* manifest.save(): every field, as this scan has it in memory. *)
SaveManifest(p) ==
  /\ scans[p].pc = "written"
  /\ LET f == FirstFile(scans[p].todo)
     IN  IF folder[f] = Blank
         THEN AbandonScan(p) /\ UNCHANGED manifests
         ELSE /\ manifests' = [manifests EXCEPT ![f] = scans[p].manifest]
              /\ scans' = [scans EXCEPT ![p] = NextFile(@.todo \ {f}, @.alone)]
  /\ UNCHANGED <<folder, sourceRows, conflicts, selections, undisturbed, counts>>

(* _refresh_conflicts, one transaction.  Files with the same content,      *)
(* classes that several files name and students that several files name in *)
(* the same class; files that cannot be read are left out.                 *)
Candidates == {f \in SourceFiles : Scanned(f) /\ manifests[f].status # "INVALID"}

Conflict(type, class, student, files) ==
  [type |-> type, class |-> class, student |-> student, files |-> files]

SameContent(f) == {g \in Candidates : manifests[g].checksum = manifests[f].checksum}
Naming(c) == {f \in Candidates : c \in manifests[f].classes}
Placing(c, s) ==
  {r.file : r \in {q \in sourceRows : q.file \in Candidates /\ q.class = c /\ q.student = s}}

Overlaps ==
  {k \in {Conflict("DUPLICATE_FILE", Blank, Blank, SameContent(f)) : f \in Candidates}
           \cup {Conflict("CLASS_OVERLAP", c, Blank, Naming(c)) : c \in Classes}
           \cup {Conflict("STUDENT_OVERLAP", c, s, Placing(c, s)) :
                   c \in Classes \cup {Blank}, s \in Students} :
     Cardinality(k.files) > 1}

Flagged(overlaps) ==
  {k.class : k \in {o \in overlaps : o.type # "DUPLICATE_FILE"}} \ {Blank}

(* Plausible bug: manifests keep the status their validation gave them.    *)
KeepStatuses(overlaps) == {}
RefreshStatuses(overlaps) ==
  {f \in Candidates : /\ manifests[f].status = "VALID"
                      /\ manifests[f].classes \cap Flagged(overlaps) # {}}

RefreshConflicts(p) ==
  /\ scans[p].pc = "next" /\ scans[p].todo = {}
  /\ conflicts' = Overlaps
  /\ manifests' = [f \in SourceFiles |-> IF f \in RefreshStatuses(Overlaps)
                                         THEN [manifests[f] EXCEPT !.status = "CONFLICT"]
                                         ELSE manifests[f]]
  /\ scans' = [scans EXCEPT ![p] = IF p = Ingestor THEN [IdleScan EXCEPT !.pc = "scanned"]
                                   ELSE IdleScan]
  /\ undisturbed' = (scans[p].alone /\ ScanningNow = {p})
  /\ UNCHANGED <<folder, sourceRows, selections, counts>>

CrashScan(p) ==
  /\ p \in ScanningNow
  /\ AbandonScan(p)
  /\ UNCHANGED <<folder, manifests, sourceRows, conflicts, selections, undisturbed,
                 counts>>

-----------------------------------------------------------------------------
(* The people: files are put into the directory, replaced and removed, and *)
(* a manager chooses the source of a class.                                *)
ChangeFile(f, content) ==
  /\ counts.changes < MaxChanges
  /\ folder[f] # content
  /\ folder' = [folder EXCEPT ![f] = content]
  /\ counts' = [counts EXCEPT !.changes = @ + 1]
  /\ UNCHANGED <<manifests, sourceRows, conflicts, selections, scans, undisturbed>>

(* ClassSourceSelectionSerializer.validate *)
MayBeSelected(c, f) ==
  /\ Scanned(f)
  /\ manifests[f].status \notin {"INVALID", "INCOMPLETE"}
  /\ c \in manifests[f].classes

SelectSource(c, f) ==
  /\ counts.changes < MaxChanges
  /\ f # Blank => MayBeSelected(c, f)
  /\ selections' = [selections EXCEPT ![c] = f]
  /\ selections' # selections
  /\ counts' = [counts EXCEPT !.changes = @ + 1]
  /\ UNCHANGED <<folder, manifests, sourceRows, conflicts, scans, undisturbed>>

(* selected_manifest_for_class *)
SelectedManifest(c) ==
  IF selections[c] = Blank \/ manifests[selections[c]].status \in {"INVALID", "INCOMPLETE"}
  THEN Blank ELSE selections[c]

(* Plausible bug: the first file that holds the month is the source.       *)
SourceOfTheFirst(c, s, m) ==
  LET files == {r.file : r \in {q \in sourceRows : q.class = c /\ q.student = s /\ q.month = m}}
  IN  IF files = {} THEN "NONE" ELSE FirstFile(files)

(* _monthly_source_provenance, what a report made now names as its source: *)
(* "NONE" leaves it with the file of its import job, "REFUSED" is the      *)
(* conflict the caller is told of.                                         *)
SourceOf(c, s, m) ==
  LET files == {r.file : r \in {q \in sourceRows : q.class = c /\ q.student = s /\ q.month = m}}
      selected == SelectedManifest(c)
  IN  CASE files = {} -> "NONE"
        [] files # {} /\ selected # Blank -> IF selected \in files THEN selected ELSE "REFUSED"
        [] files # {} /\ selected = Blank /\ Cardinality(files) > 1 -> "REFUSED"
        [] OTHER -> FirstFile(files)

DirNext ==
  \/ \E p \in Scanners : \/ StartScan(p) \/ RegisterWorkbook(p) \/ ReplaceRows(p)
                         \/ WriteRows(p) \/ SaveManifest(p) \/ RefreshConflicts(p) \/ CrashScan(p)
  \/ \E f \in SourceFiles : \E content \in Contents[f] \cup {Blank} : ChangeFile(f, content)
  \/ \E c \in Classes, f \in {Blank} \cup SourceFiles : SelectSource(c, f)
=============================================================================
