---------------------------- MODULE SourceFiles ----------------------------
(***************************************************************************)
(* The directory of source files with what reads it: the scans and the     *)
(* ingest of the exams.                                                    *)
(***************************************************************************)
EXTENDS SubjectExam

fileVars == <<dirVars, examVars>>

FilesInit == DirInit /\ ExamInit

(* The last phase of the ingest, in which the photos are saved.            *)
IngestPhotos ==
  /\ ingest.pc = "photos"
  /\ ingest' = [ingest EXCEPT !.pc = "done"]
  /\ scans' = [scans EXCEPT ![Ingestor] = IdleScan]
  /\ UNCHANGED <<folder, manifests, sourceRows, conflicts, selections, undisturbed, counts,
                 known, results, torn>>

FilesNext ==
  \/ DirNext /\ UNCHANGED examVars
  \/ LoadManifests \/ IngestWorkbook
  \/ StartExams \/ DigestExam \/ OpenExam \/ ParseExam \/ RetireRows \/ WriteResult
  \/ FinishExam \/ MarkExams \/ IngestPhotos \/ CrashIngest
  \/ \E s \in Students : ChangeStudents(s)

FilesSpec == FilesInit /\ [][FilesNext]_fileVars

-----------------------------------------------------------------------------
(* Properties. *)

(* Two workbooks that name the same class are never left without a warning *)
(* once a scan is complete that no other scan ran beside: the conflict is  *)
(* open and names them both, and neither is simply VALID, whatever was     *)
(* replaced, removed, scanned before or interrupted (_refresh_conflicts).  *)
OverlapIsFlagged ==
  undisturbed =>
    \A f, g \in Candidates, c \in Classes :
      f # g /\ c \in manifests[f].classes \cap manifests[g].classes =>
        /\ {manifests[f].status, manifests[g].status} \subseteq {"CONFLICT", "INCOMPLETE"}
        /\ \E k \in conflicts : k.type = "CLASS_OVERLAP" /\ k.class = c /\ {f, g} \subseteq k.files

(* A report names no source of its own choice: where two workbooks hold    *)
(* the month of a student, it names the one a person has selected or is    *)
(* refused, and it is refused only with something to point at, an open     *)
(* conflict, a file that could not be read or a selection that does not    *)
(* have the student (selected_manifest_for_class and its caller).          *)
SourceIsChosen ==
  undisturbed =>
    \A c \in Classes, s \in Students, m \in Months :
      LET source == SourceOf(c, s, m)
          holding == {r.file : r \in {q \in sourceRows : q.class = c /\ q.student = s /\ q.month = m}}
      IN  /\ Cardinality(holding) > 1 /\ source \in SourceFiles => source = selections[c]
          /\ source = "REFUSED" =>
               \/ \E k \in conflicts : k.class = c /\ k.student = s
               \/ \E f \in holding : manifests[f].status = "INVALID"
               \/ selections[c] \in SourceFiles \ holding

(* Whatever was interrupted, and however often a workbook was replaced by  *)
(* another and back, a report never shows rows of two versions of it: a    *)
(* student is not counted twice (the retirement of the rows of another     *)
(* checksum before the first row is written).  They bear one checksum, and *)
(* are rows of the version it is of, unless another one was read under it. *)
OneVersionIsLive ==
  \A s \in Students, grade \in Range(GradeOf) :
    \A r \in SummerResults(s, grade) :
      /\ \A q \in SummerResults(s, grade) : r.file = q.file => r.checksum = q.checksum
      /\ <<r.file, r.checksum>> \notin torn =>
           \E content \in Contents[r.file] :
             content.checksum = r.checksum /\ \E row \in Range(content.exam) : row.row = r.row

(* A file that the ingest calls COMPLETED is there row by row, as the      *)
(* version its checksum is of has it, with the students of the time, and   *)
(* no other row of it is; of a PARTIAL one that could be read, all rows    *)
(* are but those that do not fit.  Nothing is said of a file that was      *)
(* replaced between the digest and the last reading.                       *)
SummaryIsTrue ==
  ingest.pc = "done" =>
    \A n \in ingest.summary : \A content \in Contents[n.file] :
      n.read /\ content.checksum = n.checksum /\ <<n.file, n.checksum>> \notin torn =>
        LET written == {i \in DOMAIN content.exam : ~TooWide(content.exam[i])}
        IN  /\ {r \in results : r.live /\ r.file = n.file}
                 = {Result(n.file, n.checksum, content.exam[i], ingest.known, ingest.manifests) :
                      i \in written}
            /\ n.status = "COMPLETED" <=> written = DOMAIN content.exam

(* The results of exams: one version of a workbook, whole where the ingest *)
(* says so.                                                                *)
ExamsAreWhole == OneVersionIsLive /\ SummaryIsTrue
=============================================================================
