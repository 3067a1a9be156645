--------------------------- MODULE MCSourceFiles ---------------------------
(* Constants of SourceFiles for TLC: two school workbooks that overlap in  *)
(* some of their versions, and one exam workbook with three versions.      *)
EXTENDS SourceFiles

Order == <<"w1", "w2", "exam">>
OneClass == {"c"}
Id(s, digits) == [student |-> s, digits |-> digits]
Line(row, class, id, month, classified) ==
  [row |-> row, class |-> class, id |-> id, month |-> month, classified |-> classified]
Workbook(checksum, readable, lines, outcome) ==
  [checksum |-> checksum, readable |-> readable, kind |-> "comprehensive", lines |-> lines,
   exam |-> <<>>, outcome |-> outcome]

(* A class and a student with a month in it; the same without the sheet of *)
(* the classes; the same with a sheet that cannot be read.                 *)
Classified == Line(2, "c", Blank, Blank, TRUE)
Evaluated(row) == Line(row, "c", Id("s1", 9), "m", FALSE)
Full == Workbook("k1", TRUE, {Classified, Evaluated(3)}, "COMPLETED")
Unclassified == Workbook("k2", TRUE, {Evaluated(3)}, "PARTIAL")
Damaged == Workbook("k3", FALSE, {Evaluated(4)}, "FAILED")

Number(value, places, digits) ==
  [kind |-> "number", value |-> value, places |-> places, digits |-> digits]
Cells(score, tScore, rank) ==
  [percentage |-> Number(50, 0, 2), t_score |-> tScore, score |-> score,
   question_count |-> Number(5, 0, 1), rank |-> rank]
ExamRow(row, id, grade, cells) == [row |-> row, id |-> id, grade |-> grade, cells |-> cells]
Good == Cells(Number(16, 2, 4), Number(6000, 0, 4), Number(1, 0, 1))
Exam(checksum, readable, rows) ==
  [checksum |-> checksum, readable |-> readable, kind |-> "exam", lines |-> {}, exam |-> rows,
   outcome |-> "PARTIAL"]

ExamA == Exam("a", TRUE, <<ExamRow(2, Id("s1", 10), Blank, Good), ExamRow(3, Id("s1", 10), Blank, Good)>>)
(* A score beyond the maximum and a rank that is not whole; a row of       *)
(* another number, for another grade; one that passes every check but does *)
(* not fit its column.                                                     *)
ExamB == Exam("b", TRUE,
  <<ExamRow(2, Id("s1", 9), Blank, Cells(Number(21, 0, 2), Number(1, 0, 1), Number(1, 1, 2))),
    ExamRow(4, Id("s1", 10), 8, Good),
    ExamRow(5, Id("s1", 8), Blank, Cells(Number(16, 0, 2), Number(100000000, 0, 9), Number(1, 0, 1)))>>)
ExamDamaged == Exam("d", FALSE, <<>>)

Versions == [w1 |-> {Full, Damaged}, w2 |-> {Full, Unclassified},
             exam |-> {ExamA, ExamB, ExamDamaged}]
Grades == [exam |-> 9]

(* While the second scan is under way there is one change at most.         *)
OneChangeAtOnce == counts.scans = MaxScans /\ ScanningNow # {} => counts.changes <= 1
=============================================================================
