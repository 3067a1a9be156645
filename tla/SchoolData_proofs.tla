-------------------------- MODULE SchoolData_proofs --------------------------
(***************************************************************************)
(* Proofs about SchoolData, for every number of schools, students, classes *)
(* and workbooks, every length of their sheets and every order of imports, *)
(* ingests and requests.                                                   *)
(*                                                                         *)
(* RowsInv says that the ids of enrollments are their own, that a student  *)
(* has at most one active enrollment, and that what an ingest keeps in     *)
(* memory belongs to the student it is kept for.  The last is what needs   *)
(* care: the memory outlives a file that was rolled back, and imports and  *)
(* requests write the table while the run goes on.                         *)
(***************************************************************************)
EXTENDS SchoolData, FiniteSetTheorems, WellFoundedInduction, TLAPS

-----------------------------------------------------------------------------
(***************************************************************************)
(* Folds. A sheet is folded from its first line to its last. In Folded(it, *)
(* n, ...), it is the function by which MapThenFoldSet, and so FoldLeft,   *)
(* is defined; in Trace(f, n, ...), f[i] is what the first i lines leave   *)
(* of base. A recursive function is known to exist only once it is shown   *)
(* to, by induction on the number of lines (FoldsExist); then every fold   *)
(* of the model has a trace, and what holds at its start and is kept by    *)
(* each line holds at its end (LastIsReached).                             *)
(***************************************************************************)

(* Induction, for a set. *)
LEMMA NaturalsAreReached ==
  ASSUME NEW Reached, 0 \in Reached, \A n \in Nat : n \in Reached => n + 1 \in Reached
  PROVE  Nat \subseteq Reached
<1> DEFINE Less == {p \in Nat \X Nat : p[1] < p[2]}
           Q == Nat \ Reached
<1>1. IsWellFoundedOn(Less, Nat)
  BY NatLessThanWellFounded DEF OpToRel
<1>2. SUFFICES ASSUME Q # {} PROVE FALSE
  OBVIOUS
<1>3. PICK n \in Q : \A k \in Q : <<k, n>> \notin Less
  <2> HIDE DEF Less
  <2>1. Q \subseteq Nat
    OBVIOUS
  <2> HIDE DEF Q
  <2> QED BY <1>1, <1>2, <2>1, WFMin
<1>4. n - 1 \in Nat /\ n - 1 \notin Q
  <2>1. n \in Nat /\ n # 0
    OBVIOUS
  <2>2. n - 1 \in Nat /\ <<n - 1, n>> \in Less
    BY <2>1
  <2> QED BY <1>3, <2>2
<1>5. n \in Nat /\ n \notin Reached /\ n - 1 + 1 = n
  OBVIOUS
<1> QED BY <1>4, <1>5

(* A finite set of numbers has a greatest and a least element. *)
LEMMA BoundsAreReached ==
  ASSUME NEW S \in SUBSET Int, IsFiniteSet(S), S # {}
  PROVE  /\ Max(S) \in S /\ \A y \in S : Max(S) >= y
         /\ Min(S) \in S /\ \A y \in S : Min(S) <= y
<1> DEFINE Bounded(T) == /\ \E x \in T : \A y \in T : x >= y
                         /\ \E x \in T : \A y \in T : x <= y
           Reached == {n \in Nat : \A T \in SUBSET S : Cardinality(T) = n + 1 => Bounded(T)}
<1>1. 0 \in Reached
  <2>1. ASSUME NEW T \in SUBSET S, Cardinality(T) = 1 PROVE Bounded(T)
    <3>1. PICK x : T = {x}
      BY <2>1, FS_Subset, FS_Singleton
    <3> QED BY <3>1
  <2> QED BY <2>1
<1>2. ASSUME NEW n \in Nat, n \in Reached PROVE n + 1 \in Reached
  <2>1. ASSUME NEW T \in SUBSET S, Cardinality(T) = n + 2 PROVE Bounded(T)
    <3>1. PICK z : z \in T
      BY <2>1, FS_EmptySet
    <3>2. T \ {z} \in SUBSET S /\ Cardinality(T \ {z}) = n + 1
      <4>1. IsFiniteSet(T)
        BY FS_Subset
      <4>2. Cardinality(T \ {z}) = Cardinality(T) - 1
        BY <3>1, <4>1, FS_RemoveElement
      <4>3. T \ {z} \in SUBSET S
        OBVIOUS
      <4>4. n + 2 - 1 = n + 1
        OBVIOUS
      <4> QED BY <2>1, <4>2, <4>3, <4>4
    <3>3. Bounded(T \ {z})
      BY <1>2, <3>2
    <3>4. PICK a \in T \ {z} : \A y \in T \ {z} : a >= y
      BY <3>3
    <3>5. PICK b \in T \ {z} : \A y \in T \ {z} : b <= y
      BY <3>3
    <3>6. a \in Int /\ b \in Int /\ z \in Int /\ \A y \in T : y \in Int
      BY <3>1
    <3>7. \E x \in T : \A y \in T : x >= y
      BY <3>1, <3>4, <3>6
    <3>8. \E x \in T : \A y \in T : x <= y
      BY <3>1, <3>5, <3>6
    <3> QED BY <3>7, <3>8
  <2> QED BY <2>1
<1> HIDE DEF Reached
<1>3. Nat \subseteq Reached
  BY <1>1, <1>2, NaturalsAreReached
<1>4. Cardinality(S) \in Nat /\ Cardinality(S) # 0
  BY FS_CardinalityType, FS_EmptySet
<1>5. Cardinality(S) - 1 \in Reached
  BY <1>3, <1>4
<1>6. Bounded(S)
  BY <1>4, <1>5 DEF Reached
<1> QED BY <1>6 DEF Max, Min

(* The parts of sheets up to a row, and what is left of one without its    *)
(* last row.                                                               *)
LEMMA LastIsTakenOff ==
  ASSUME NEW n \in Nat, NEW t \in SUBSET (1 .. n + 1), t # {}
  PROVE  Max(t) \in t /\ t \ {Max(t)} \in SUBSET (1 .. n)
<1>1. IsFiniteSet(t) /\ t \subseteq Int
  <2>1. IsFiniteSet(1 .. n + 1)
    BY FS_Interval
  <2>2. IsFiniteSet(t)
    BY <2>1, FS_Subset
  <2> QED BY <2>2
<1>2. Max(t) \in t /\ \A y \in t : Max(t) >= y
  BY <1>1, BoundsAreReached
<1>3. ASSUME NEW y \in t, y # Max(t) PROVE y \in 1 .. n
  <2>1. y \in 1 .. n + 1 /\ Max(t) \in 1 .. n + 1 /\ Max(t) >= y
    BY <1>2
  <2> HIDE <1>2
  <2> QED BY <1>3, <2>1
<1> QED BY <1>2, <1>3

LEMMA LastOfAll ==
  ASSUME NEW n \in Nat
  PROVE  Max(1 .. n + 1) = n + 1 /\ (1 .. n + 1) \ {n + 1} = 1 .. n
<1> DEFINE t == 1 .. n + 1
<1>1. t \in SUBSET Int /\ t # {} /\ IsFiniteSet(t) /\ n + 1 \in t
  <2>1. IsFiniteSet(t)
    BY FS_Interval
  <2>2. t \in SUBSET Int /\ n + 1 \in t
    OBVIOUS
  <2> QED BY <2>1, <2>2
<1>2. Max(t) \in t /\ Max(t) >= n + 1
  <2> HIDE DEF t
  <2> QED BY <1>1, BoundsAreReached
<1>3. Max(t) = n + 1
  <2> DEFINE m == Max(t)
  <2>1. m \in 1 .. n + 1 /\ m >= n + 1
    BY <1>2
  <2> HIDE DEF m
  <2> QED BY <2>1 DEF m
<1> QED BY <1>3

(* The steps of all the folds. *)
Step(step, a, acc, x) ==
  CASE step = "class_line" -> ClassStep(acc, x)
    [] step = "student_line" -> StudentStep(a, acc, x)
    [] step = "evaluation_line" -> EvaluationStep(a[1], a[2], acc, x)
    [] step = "class" -> ApplyClass(a, acc, x)
    [] step = "student" -> ApplyStudent(acc, x)
    [] step = "enrollment" -> ApplyEnrollment(a, acc, x)
    [] step = "evaluation" -> ApplyEvaluation(a, acc, x)
    [] step = "class_row" -> IngestClass(a, acc, x)
    [] step = "student_row" -> IngestStudentRow(a, acc, x)
    [] step = "evaluation_row" -> IngestEvaluation(a, acc, x)

Folded(it, n, step, a, base, rows) ==
  it = [t \in SUBSET (1 .. n) |->
          IF t = {} THEN base ELSE Step(step, a, it[t \ {Max(t)}], rows[Max(t)])]

LEMMA FoldsExist ==
  ASSUME NEW n \in Nat, NEW step, NEW a, NEW base, NEW rows
  PROVE  \E it : Folded(it, n, step, a, base, rows)
<1> DEFINE Reached == {k \in Nat : \E it : Folded(it, k, step, a, base, rows)}
<1>1. 0 \in Reached
  <2> DEFINE it == [t \in SUBSET (1 .. 0) |-> base]
  <2>1. Folded(it, 0, step, a, base, rows)
    BY DEF Folded
  <2> QED BY <2>1
<1>2. ASSUME NEW k \in Nat, k \in Reached PROVE k + 1 \in Reached
  <2>1. PICK h : Folded(h, k, step, a, base, rows)
    BY <1>2
  <2> DEFINE G(f) == [t \in SUBSET (1 .. k + 1) |->
                        IF t = {} THEN base
                        ELSE Step(step, a, f[t \ {Max(t)}], rows[Max(t)])]
             it == G(h)
  <2>2. ASSUME NEW t \in SUBSET (1 .. k) PROVE it[t] = h[t]
    <3>1. t \in SUBSET (1 .. k + 1)
      OBVIOUS
    <3> QED BY <2>1, <3>1 DEF Folded
  <2>3. ASSUME NEW t \in SUBSET (1 .. k + 1), t # {}
        PROVE  it[t \ {Max(t)}] = h[t \ {Max(t)}]
    BY <2>2, <2>3, LastIsTakenOff
  <2>4. it = G(it)
    BY <2>3
  <2> HIDE DEF it
  <2>5. Folded(it, k + 1, step, a, base, rows)
    BY <2>4 DEF Folded
  <2> QED BY <2>5
<1> HIDE DEF Reached
<1>3. n \in Reached
  BY <1>1, <1>2, NaturalsAreReached
<1> QED BY <1>3 DEF Reached

(* What is left of base after each row. *)
Trace(f, n, step, a, base, rows) ==
  /\ f[0] = base
  /\ \A i \in 1 .. n : f[i] = Step(step, a, f[i - 1], rows[i])

LEMMA FoldsAreTraced ==
  ASSUME NEW n \in Nat, NEW step, NEW a, NEW base, NEW rows, NEW it,
         Folded(it, n, step, a, base, rows)
  PROVE  \E f : Trace(f, n, step, a, base, rows) /\ f[n] = it[1 .. n]
<1> DEFINE f == [i \in 0 .. n |-> it[1 .. i]]
<1>1. f[0] = base
  BY DEF Folded
<1>2. ASSUME NEW i \in 1 .. n PROVE f[i] = Step(step, a, f[i - 1], rows[i])
  <2>1. i - 1 \in Nat /\ i - 1 + 1 = i /\ 1 .. i \in SUBSET (1 .. n) /\ 1 .. i # {}
    OBVIOUS
  <2>2. Max(1 .. i) = i /\ (1 .. i) \ {i} = 1 .. i - 1
    BY <2>1, LastOfAll
  <2>3. it[1 .. i] = Step(step, a, it[1 .. i - 1], rows[i])
    BY <2>1, <2>2 DEF Folded
  <2> QED BY <2>3
<1> HIDE DEF f
<1>3. f[n] = it[1 .. n]
  BY DEF f
<1> QED BY <1>1, <1>2, <1>3 DEF Trace

(* The folds of the model. *)
LEMMA ClassesAreTraced ==
  ASSUME NEW s, NEW base, NEW rows, NEW n \in Nat, DOMAIN rows = 1 .. n
  PROVE  \E f : /\ Trace(f, n, "class", s, base, rows)
                /\ f[n] = ApplyClasses(s, base, rows)
<1> DEFINE It(it) == it = [t \in SUBSET (1 .. n) |->
                        IF t = {} THEN base
                        ELSE ApplyClass(s, it[t \ {Max(t)}], rows[Max(t)])]
           c == CHOOSE it : It(it)
<1>1. ApplyClasses(s, base, rows) = c[1 .. n]
  BY DEF ApplyClasses, FoldLeft, MapThenFoldSet
<1>2. ASSUME NEW it PROVE It(it) <=> Folded(it, n, "class", s, base, rows)
  BY DEF Folded, Step
<1> HIDE DEF It
<1>3. It(c)
  BY <1>2, FoldsExist
<1>4. Folded(c, n, "class", s, base, rows)
  BY <1>2, <1>3
<1> HIDE DEF c
<1> QED BY <1>1, <1>4, FoldsAreTraced

LEMMA StudentsAreTraced ==
  ASSUME NEW a, NEW base, NEW rows, NEW n \in Nat, DOMAIN rows = 1 .. n
  PROVE  \E f : /\ Trace(f, n, "student", a, base, rows)
                /\ f[n] = ApplyStudents(base, rows)
<1> DEFINE It(it) == it = [t \in SUBSET (1 .. n) |->
                        IF t = {} THEN base
                        ELSE ApplyStudent(it[t \ {Max(t)}], rows[Max(t)])]
           c == CHOOSE it : It(it)
<1>1. ApplyStudents(base, rows) = c[1 .. n]
  BY DEF ApplyStudents, FoldLeft, MapThenFoldSet
<1>2. ASSUME NEW it PROVE It(it) <=> Folded(it, n, "student", a, base, rows)
  BY DEF Folded, Step
<1> HIDE DEF It
<1>3. It(c)
  BY <1>2, FoldsExist
<1>4. Folded(c, n, "student", a, base, rows)
  BY <1>2, <1>3
<1> HIDE DEF c
<1> QED BY <1>1, <1>4, FoldsAreTraced

LEMMA EnrollmentsAreTraced ==
  ASSUME NEW s, NEW base, NEW rows, NEW n \in Nat, DOMAIN rows = 1 .. n
  PROVE  \E f : /\ Trace(f, n, "enrollment", s, base, rows)
                /\ f[n] = ApplyEnrollments(s, base, rows)
<1> DEFINE It(it) == it = [t \in SUBSET (1 .. n) |->
                        IF t = {} THEN base
                        ELSE ApplyEnrollment(s, it[t \ {Max(t)}], rows[Max(t)])]
           c == CHOOSE it : It(it)
<1>1. ApplyEnrollments(s, base, rows) = c[1 .. n]
  BY DEF ApplyEnrollments, FoldLeft, MapThenFoldSet
<1>2. ASSUME NEW it PROVE It(it) <=> Folded(it, n, "enrollment", s, base, rows)
  BY DEF Folded, Step
<1> HIDE DEF It
<1>3. It(c)
  BY <1>2, FoldsExist
<1>4. Folded(c, n, "enrollment", s, base, rows)
  BY <1>2, <1>3
<1> HIDE DEF c
<1> QED BY <1>1, <1>4, FoldsAreTraced

LEMMA EvaluationsAreTraced ==
  ASSUME NEW p, NEW base, NEW n \in Nat, DOMAIN p.evaluations = 1 .. n
  PROVE  \E f : /\ Trace(f, n, "evaluation", p, base, p.evaluations)
                /\ f[n] = ApplyEvaluations(p, base)
<1> DEFINE It(it) == it = [t \in SUBSET (1 .. n) |->
                        IF t = {} THEN base
                        ELSE ApplyEvaluation(p, it[t \ {Max(t)}], p.evaluations[Max(t)])]
           c == CHOOSE it : It(it)
<1>1. ApplyEvaluations(p, base) = c[1 .. n]
  BY DEF ApplyEvaluations, FoldLeft, MapThenFoldSet
<1>2. ASSUME NEW it PROVE It(it) <=> Folded(it, n, "evaluation", p, base, p.evaluations)
  BY DEF Folded, Step
<1> HIDE DEF It
<1>3. It(c)
  BY <1>2, FoldsExist
<1>4. Folded(c, n, "evaluation", p, base, p.evaluations)
  BY <1>2, <1>3
<1> HIDE DEF c
<1> QED BY <1>1, <1>4, FoldsAreTraced

LEMMA ClassRowsAreTraced ==
  ASSUME NEW s, NEW base, NEW rows, NEW n \in Nat, DOMAIN rows = 1 .. n
  PROVE  \E f : /\ Trace(f, n, "class_row", s, base, rows)
                /\ f[n] = IngestClasses(s, base, rows)
<1> DEFINE It(it) == it = [t \in SUBSET (1 .. n) |->
                        IF t = {} THEN base
                        ELSE IngestClass(s, it[t \ {Max(t)}], rows[Max(t)])]
           c == CHOOSE it : It(it)
<1>1. IngestClasses(s, base, rows) = c[1 .. n]
  BY DEF IngestClasses, FoldLeft, MapThenFoldSet
<1>2. ASSUME NEW it PROVE It(it) <=> Folded(it, n, "class_row", s, base, rows)
  BY DEF Folded, Step
<1> HIDE DEF It
<1>3. It(c)
  BY <1>2, FoldsExist
<1>4. Folded(c, n, "class_row", s, base, rows)
  BY <1>2, <1>3
<1> HIDE DEF c
<1> QED BY <1>1, <1>4, FoldsAreTraced

LEMMA StudentRowsAreTraced ==
  ASSUME NEW s, NEW base, NEW rows, NEW n \in Nat, DOMAIN rows = 1 .. n
  PROVE  \E f : /\ Trace(f, n, "student_row", s, base, rows)
                /\ f[n] = IngestStudents(s, base, rows)
<1> DEFINE It(it) == it = [t \in SUBSET (1 .. n) |->
                        IF t = {} THEN base
                        ELSE IngestStudentRow(s, it[t \ {Max(t)}], rows[Max(t)])]
           c == CHOOSE it : It(it)
<1>1. IngestStudents(s, base, rows) = c[1 .. n]
  BY DEF IngestStudents, FoldLeft, MapThenFoldSet
<1>2. ASSUME NEW it PROVE It(it) <=> Folded(it, n, "student_row", s, base, rows)
  BY DEF Folded, Step
<1> HIDE DEF It
<1>3. It(c)
  BY <1>2, FoldsExist
<1>4. Folded(c, n, "student_row", s, base, rows)
  BY <1>2, <1>3
<1> HIDE DEF c
<1> QED BY <1>1, <1>4, FoldsAreTraced

LEMMA EvaluationRowsAreTraced ==
  ASSUME NEW d, NEW base, NEW rows, NEW n \in Nat, DOMAIN rows = 1 .. n
  PROVE  \E f : /\ Trace(f, n, "evaluation_row", d, base, rows)
                /\ f[n] = IngestEvaluations(d, base, rows)
<1> DEFINE It(it) == it = [t \in SUBSET (1 .. n) |->
                        IF t = {} THEN base
                        ELSE IngestEvaluation(d, it[t \ {Max(t)}], rows[Max(t)])]
           c == CHOOSE it : It(it)
<1>1. IngestEvaluations(d, base, rows) = c[1 .. n]
  BY DEF IngestEvaluations, FoldLeft, MapThenFoldSet
<1>2. ASSUME NEW it PROVE It(it) <=> Folded(it, n, "evaluation_row", d, base, rows)
  BY DEF Folded, Step
<1> HIDE DEF It
<1>3. It(c)
  BY <1>2, FoldsExist
<1>4. Folded(c, n, "evaluation_row", d, base, rows)
  BY <1>2, <1>3
<1> HIDE DEF c
<1> QED BY <1>1, <1>4, FoldsAreTraced

LEMMA ClassLinesAreTraced ==
  ASSUME NEW w, NEW n \in Nat, DOMAIN w.classes = 1 .. n
  PROVE  \E f : /\ Trace(f, n, "class_line", 0,
                         [codes |-> {}, errors |-> {}, rows |-> <<>>], w.classes)
                /\ f[n] = ValidClasses(w)
<1> DEFINE base == [codes |-> {}, errors |-> {}, rows |-> <<>>]
           It(it) == it = [t \in SUBSET (1 .. n) |->
                        IF t = {} THEN base
                        ELSE ClassStep(it[t \ {Max(t)}], w.classes[Max(t)])]
           c == CHOOSE it : It(it)
<1>1. ValidClasses(w) = c[1 .. n]
  BY DEF ValidClasses, FoldLeft, MapThenFoldSet
<1> HIDE DEF base
<1>2. ASSUME NEW it PROVE It(it) <=> Folded(it, n, "class_line", 0, base, w.classes)
  BY DEF Folded, Step
<1> HIDE DEF It
<1>3. It(c)
  BY <1>2, FoldsExist
<1>4. Folded(c, n, "class_line", 0, base, w.classes)
  BY <1>2, <1>3
<1> HIDE DEF c
<1>5. \E f : Trace(f, n, "class_line", 0, base, w.classes) /\ f[n] = ValidClasses(w)
  BY <1>1, <1>4, FoldsAreTraced
<1> QED BY <1>5 DEF base

LEMMA StudentLinesAreTraced ==
  ASSUME NEW w, NEW codes, NEW n \in Nat, DOMAIN w.students = 1 .. n
  PROVE  \E f : /\ Trace(f, n, "student_line", codes,
                         [seen |-> 0, errors |-> {}, rows |-> <<>>], w.students)
                /\ f[n] = ValidStudents(w, codes)
<1> DEFINE base == [seen |-> 0, errors |-> {}, rows |-> <<>>]
           It(it) == it = [t \in SUBSET (1 .. n) |->
                        IF t = {} THEN base
                        ELSE StudentStep(codes, it[t \ {Max(t)}], w.students[Max(t)])]
           c == CHOOSE it : It(it)
<1>1. ValidStudents(w, codes) = c[1 .. n]
  BY DEF ValidStudents, FoldLeft, MapThenFoldSet
<1> HIDE DEF base
<1>2. ASSUME NEW it PROVE It(it)
                          <=> Folded(it, n, "student_line", codes, base, w.students)
  BY DEF Folded, Step
<1> HIDE DEF It
<1>3. It(c)
  BY <1>2, FoldsExist
<1>4. Folded(c, n, "student_line", codes, base, w.students)
  BY <1>2, <1>3
<1> HIDE DEF c
<1>5. \E f : /\ Trace(f, n, "student_line", codes, base, w.students)
             /\ f[n] = ValidStudents(w, codes)
  BY <1>1, <1>4, FoldsAreTraced
<1> QED BY <1>5 DEF base

LEMMA EvaluationLinesAreTraced ==
  ASSUME NEW w, NEW version, NEW students, NEW n \in Nat, DOMAIN w.evaluations = 1 .. n
  PROVE  \E f : /\ Trace(f, n, "evaluation_line", <<version, students>>,
                         [errors |-> {}, rows |-> <<>>], w.evaluations)
                /\ f[n] = ValidEvaluations(w, version, students)
<1> DEFINE base == [errors |-> {}, rows |-> <<>>]
           It(it) == it = [t \in SUBSET (1 .. n) |->
                        IF t = {} THEN base
                        ELSE EvaluationStep(version, students, it[t \ {Max(t)}], w.evaluations[Max(t)])]
           c == CHOOSE it : It(it)
<1>1. ValidEvaluations(w, version, students) = c[1 .. n]
  BY DEF ValidEvaluations, FoldLeft, MapThenFoldSet
<1> HIDE DEF base
<1>2. ASSUME NEW it PROVE It(it)
                          <=> Folded(it, n, "evaluation_line", <<version, students>>, base, w.evaluations)
  BY DEF Folded, Step
<1> HIDE DEF It
<1>3. It(c)
  BY <1>2, FoldsExist
<1>4. Folded(c, n, "evaluation_line", <<version, students>>, base, w.evaluations)
  BY <1>2, <1>3
<1> HIDE DEF c
<1>5. \E f : /\ Trace(f, n, "evaluation_line", <<version, students>>, base, w.evaluations)
             /\ f[n] = ValidEvaluations(w, version, students)
  BY <1>1, <1>4, FoldsAreTraced
<1> QED BY <1>5 DEF base

-----------------------------------------------------------------------------
(***************************************************************************)
(* The table of enrollments: rows that each have their own id. What        *)
(* finding, saving and taking out a row make of it.                        *)
(***************************************************************************)

RowFields == {"id", "student", "school", "class", "grade", "number", "status"}
IsRow(e) == DOMAIN e = RowFields /\ e.id \in Int \ {0}

IsTable(rows) ==
  /\ IsSheet(rows)
  /\ \A e \in ToSet(rows) : IsRow(e)
  /\ \A i, j \in DOMAIN rows : rows[i].id = rows[j].id => i = j

IsTables(t) ==
  /\ DOMAIN t = {"class", "student", "enrollment", "evaluation"}
  /\ IsTable(t.enrollment)

LEMMA SheetHasRows ==
  ASSUME NEW rows, IsSheet(rows)
  PROVE  /\ Len(rows) \in Nat /\ DOMAIN rows = 1 .. Len(rows)
         /\ \A i \in DOMAIN rows : rows[i] \in ToSet(rows)
         /\ \A x \in ToSet(rows) : \E i \in DOMAIN rows : rows[i] = x
<1>1. rows \in Seq(ToSet(rows))
  BY DEF IsSheet
<1>2. Len(rows) \in Nat /\ DOMAIN rows = 1 .. Len(rows)
  BY <1>1
<1> QED BY <1>2 DEF ToSet

LEMMA OneRowMore ==
  ASSUME NEW rows, IsSheet(rows), NEW e
  PROVE  LET more == Append(rows, e)
             n == Len(rows)
         IN  /\ IsSheet(more) /\ ToSet(more) = ToSet(rows) \cup {e}
             /\ DOMAIN more = 1 .. n + 1
             /\ more[n + 1] = e /\ \A i \in 1 .. n : more[i] = rows[i]
<1> DEFINE more == Append(rows, e)
           n == Len(rows)
<1>1. rows \in Seq(ToSet(rows)) /\ n \in Nat /\ DOMAIN rows = 1 .. n
  BY SheetHasRows DEF IsSheet
<1>2. /\ more \in Seq(ToSet(rows) \cup {e}) /\ DOMAIN more = 1 .. n + 1
      /\ more[n + 1] = e /\ \A i \in 1 .. n : more[i] = rows[i]
  BY <1>1
<1> HIDE DEF more, n
<1>3. ToSet(more) = ToSet(rows) \cup {e}
  <2>1. ASSUME NEW i \in DOMAIN more PROVE more[i] \in ToSet(rows) \cup {e}
    BY <1>1, <1>2, <2>1 DEF ToSet
  <2>2. \A x \in ToSet(rows) \cup {e} : \E i \in DOMAIN more : more[i] = x
    <3>1. ASSUME NEW x \in ToSet(rows) PROVE \E i \in DOMAIN more : more[i] = x
      <4>1. PICK i \in 1 .. n : rows[i] = x
        BY <1>1 DEF ToSet
      <4>2. i \in DOMAIN more
        BY <1>1, <1>2
      <4> QED BY <1>2, <4>1, <4>2
    <3>2. n + 1 \in DOMAIN more
      BY <1>1, <1>2
    <3> QED BY <1>2, <3>1, <3>2
  <2> QED BY <2>1, <2>2 DEF ToSet
<1>4. IsSheet(more)
  BY <1>2, <1>3 DEF IsSheet
<1> QED BY <1>2, <1>3, <1>4 DEF more, n

LEMMA Concatenated ==
  ASSUME NEW S, NEW a \in Seq(S), NEW b \in Seq(S)
  PROVE  a \o b \in Seq(S) /\ Len(a \o b) = Len(a) + Len(b)
  OBVIOUS

LEMMA OneIsRemoved ==
  ASSUME NEW S, NEW s \in Seq(S), NEW k \in 1 .. Len(s)
  PROVE  /\ RemoveAt(s, k) \in Seq(S)
         /\ Len(RemoveAt(s, k)) = Len(s) - 1
         /\ \A i \in 1 .. Len(s) - 1 : RemoveAt(s, k)[i] = s[IF i < k THEN i ELSE i + 1]
<1> DEFINE n == Len(s)
           a == SubSeq(s, 1, k - 1)
           b == SubSeq(s, k + 1, n)
<1>1. n \in Nat /\ k \in 1 .. n
  OBVIOUS
<1>2. a \in Seq(S) /\ Len(a) = k - 1 /\ \A i \in 1 .. k - 1 : a[i] = s[i]
  BY <1>1
<1>3. b \in Seq(S) /\ Len(b) = n - k /\ \A i \in 1 .. n - k : b[i] = s[k + i]
  BY <1>1
<1> HIDE DEF n, a, b
<1>4. a \o b \in Seq(S) /\ Len(a \o b) = n - 1
  <2>1. a \o b \in Seq(S) /\ Len(a \o b) = Len(a) + Len(b)
    BY <1>2, <1>3, Concatenated
  <2>2. k - 1 + (n - k) = n - 1
    BY <1>1
  <2> QED BY <1>2, <1>3, <2>1, <2>2
<1>5. ASSUME NEW i \in 1 .. n - 1 PROVE (a \o b)[i] = s[IF i < k THEN i ELSE i + 1]
  <2>1. CASE i < k
    BY <1>1, <1>2, <1>3, <2>1
  <2>2. CASE ~(i < k)
    <3>1. i - (k - 1) \in 1 .. n - k /\ k + (i - (k - 1)) = i + 1
      BY <1>1, <2>2
    <3>2. (a \o b)[i] = b[i - (k - 1)]
      BY <1>1, <1>2, <1>3, <2>2
    <3> QED BY <1>3, <2>2, <3>1, <3>2
  <2> QED BY <2>1, <2>2
<1> QED BY <1>4, <1>5 DEF RemoveAt, n, a, b

(* What is left when the row with an id is taken out. *)
LEMMA WithoutIsTheRest ==
  ASSUME NEW rows, IsTable(rows), NEW id
  PROVE  /\ IsTable(Without(rows, id))
         /\ ToSet(Without(rows, id)) = {x \in ToSet(rows) : x.id # id}
<1> DEFINE at == {i \in DOMAIN rows : rows[i].id = id}
           k == CHOOSE i \in at : TRUE
           n == Len(rows)
           rest == RemoveAt(rows, k)
<1>1. /\ n \in Nat /\ DOMAIN rows = 1 .. n /\ rows \in Seq(ToSet(rows))
      /\ \A i \in DOMAIN rows : rows[i] \in ToSet(rows)
      /\ \A x \in ToSet(rows) : \E i \in DOMAIN rows : rows[i] = x
  BY SheetHasRows DEF IsTable, IsSheet
<1>2. CASE at = {}
  <2>1. Without(rows, id) = rows
    BY <1>2 DEF Without
  <2> QED BY <1>1, <1>2, <2>1
<1>3. CASE at # {}
  <2>1. k \in at /\ k \in 1 .. n /\ rows[k].id = id
    BY <1>1, <1>3
  <2>2. Without(rows, id) = rest
    BY <1>3 DEF Without
  <2>3. /\ rest \in Seq(ToSet(rows)) /\ Len(rest) = n - 1
        /\ \A i \in 1 .. n - 1 : rest[i] = rows[IF i < k THEN i ELSE i + 1]
    BY <1>1, <2>1, OneIsRemoved
  <2> HIDE DEF at, k, n, rest
  <2> DEFINE to(i) == IF i < k THEN i ELSE i + 1
  <2>4. DOMAIN rest = 1 .. n - 1
    BY <1>1, <2>3
  <2>5. \A i \in 1 .. n - 1 : to(i) \in 1 .. n /\ to(i) # k /\ rest[i] = rows[to(i)]
    BY <1>1, <2>1, <2>3
  <2>6. \A i, j \in 1 .. n - 1 : to(i) = to(j) => i = j
    BY <1>1, <2>1
  <2>7. \A i \in 1 .. n : i # k => \E j \in 1 .. n - 1 : to(j) = i
    <3>1. ASSUME NEW i \in 1 .. n, i # k PROVE \E j \in 1 .. n - 1 : to(j) = i
      <4>1. CASE i < k
        BY <1>1, <2>1, <4>1
      <4>2. CASE i > k
        <5>1. i - 1 \in 1 .. n - 1 /\ to(i - 1) = i
          BY <1>1, <2>1, <4>2
        <5> QED BY <5>1
      <4> QED BY <1>1, <2>1, <3>1, <4>1, <4>2
    <3> QED BY <3>1
  <2> HIDE DEF to
  <2>8. ToSet(rest) = {x \in ToSet(rows) : x.id # id}
    <3>1. ASSUME NEW i \in DOMAIN rest PROVE rest[i] \in ToSet(rows) /\ rest[i].id # id
      <4>1. to(i) \in DOMAIN rows /\ to(i) # k /\ rest[i] = rows[to(i)]
        BY <1>1, <2>4, <2>5
      <4> QED BY <1>1, <2>1, <4>1 DEF IsTable
    <3>2. ASSUME NEW x \in ToSet(rows), x.id # id PROVE \E i \in DOMAIN rest : rest[i] = x
      <4>1. PICK i \in 1 .. n : rows[i] = x
        BY <1>1
      <4>2. PICK j \in 1 .. n - 1 : to(j) = i
        BY <2>1, <2>7, <3>2, <4>1
      <4> QED BY <2>4, <2>5, <4>1, <4>2
    <3> QED BY <3>1, <3>2 DEF ToSet
  <2>9. rest \in Seq(ToSet(rest))
    <3>1. rest = [i \in 1 .. n - 1 |-> rest[i]]
      BY <2>3, <2>4
    <3>2. \A i \in 1 .. n - 1 : rest[i] \in ToSet(rest)
      BY <2>4 DEF ToSet
    <3>3. n - 1 \in Nat
      BY <1>1, <2>1
    <3> QED BY <3>1, <3>2, <3>3
  <2>10. \A i, j \in DOMAIN rest : rest[i].id = rest[j].id => i = j
    BY <1>1, <2>4, <2>5, <2>6 DEF IsTable
  <2> QED BY <2>2, <2>8, <2>9, <2>10 DEF IsTable, IsSheet
<1> QED BY <1>2, <1>3

(* Saving a row. *)
LEMMA SavedEnrollment ==
  ASSUME NEW t, IsTables(t), NEW e, IsRow(e)
  PROVE  LET u == SaveEnrollment(t, e)
         IN  /\ IsTables(u)
             /\ u.evaluation = t.evaluation /\ u.class = t.class /\ u.student = t.student
             /\ Enrollments(u) = {x \in Enrollments(t) : x.id # e.id} \cup {e}
<1> DEFINE u == SaveEnrollment(t, e)
           rest == Without(t.enrollment, e.id)
<1>1. /\ DOMAIN u = DOMAIN t /\ u.enrollment = Append(rest, e)
      /\ u.evaluation = t.evaluation /\ u.class = t.class /\ u.student = t.student
  BY DEF SaveEnrollment, IsTables
<1>2. IsTable(rest) /\ ToSet(rest) = {x \in Enrollments(t) : x.id # e.id}
  BY WithoutIsTheRest DEF IsTables, Enrollments
<1> DEFINE n == Len(rest)
           more == Append(rest, e)
<1>3. /\ n \in Nat /\ DOMAIN rest = 1 .. n /\ IsSheet(more)
      /\ ToSet(more) = ToSet(rest) \cup {e}
      /\ DOMAIN more = 1 .. n + 1
      /\ more[n + 1] = e /\ \A i \in 1 .. n : more[i] = rest[i]
  BY <1>2, SheetHasRows, OneRowMore DEF IsTable
<1> HIDE DEF u, rest, more, n
<1>6. \A x \in ToSet(more) : IsRow(x)
  BY <1>2, <1>3 DEF IsTable
<1>7. ASSUME NEW i \in DOMAIN more, NEW j \in DOMAIN more, more[i].id = more[j].id
      PROVE  i = j
  <2>1. \A m \in 1 .. n : rest[m].id # e.id
    BY <1>2, <1>3 DEF ToSet
  <2>2. CASE i \in 1 .. n /\ j \in 1 .. n
    BY <1>2, <1>3, <1>7, <2>2 DEF IsTable
  <2>3. CASE i = n + 1 /\ j = n + 1
    BY <2>3
  <2>4. CASE i = n + 1 /\ j \in 1 .. n
    BY <1>3, <1>7, <2>1, <2>4
  <2>5. CASE i \in 1 .. n /\ j = n + 1
    BY <1>3, <1>7, <2>1, <2>5
  <2> QED BY <1>3, <2>2, <2>3, <2>4, <2>5
<1>8. IsTable(more)
  BY <1>3, <1>6, <1>7 DEF IsTable
<1>9. IsTables(u)
  BY <1>1, <1>8 DEF IsTables, more
<1> QED BY <1>1, <1>2, <1>3, <1>9 DEF Enrollments, u, more

LEMMA IdsAreTheirOwn ==
  ASSUME NEW t, IsTables(t)
  PROVE  /\ \A x \in Enrollments(t) : IsRow(x)
         /\ \A x, y \in Enrollments(t) : x.id = y.id => x = y
<1> DEFINE rows == t.enrollment
<1>1. IsTable(rows) /\ Enrollments(t) = ToSet(rows)
  BY DEF IsTables, Enrollments
<1>2. \A x \in ToSet(rows) : \E i \in DOMAIN rows : rows[i] = x
  BY <1>1, SheetHasRows DEF IsTable
<1> HIDE DEF rows
<1> QED BY <1>1, <1>2 DEF IsTable

LEMMA NewestIsOf ==
  ASSUME NEW t, IsTables(t), NEW n, Of(t, n) # {}
  PROVE  NewestOf(t, n) \in Of(t, n)
<1> DEFINE rows == t.enrollment
           at == {i \in DOMAIN rows : rows[i].student = n}
<1>1. /\ DOMAIN rows = 1 .. Len(rows) /\ Len(rows) \in Nat
      /\ \A i \in DOMAIN rows : rows[i] \in ToSet(rows)
      /\ \A x \in ToSet(rows) : \E i \in DOMAIN rows : rows[i] = x
  BY SheetHasRows DEF IsTables, IsTable
<1>2. at # {}
  BY <1>1 DEF Of, Enrollments
<1>3. IsFiniteSet(at) /\ at \in SUBSET Int
  <2>1. IsFiniteSet(1 .. Len(rows)) /\ at \in SUBSET (1 .. Len(rows))
    BY <1>1, FS_Interval
  <2> QED BY <2>1, FS_Subset
<1>4. Max(at) \in at
  <2> HIDE DEF at
  <2> QED BY <1>2, <1>3, BoundsAreReached
<1>5. NewestOf(t, n) = rows[Max(at)]
  BY DEF NewestOf
<1>6. rows[Max(at)].student = n /\ rows[Max(at)] \in ToSet(rows)
  BY <1>1, <1>4
<1> QED BY <1>5, <1>6 DEF Of, Enrollments

LEMMA RowsAreFinite ==
  ASSUME NEW t, IsTables(t)
  PROVE  IsFiniteSet(Enrollments(t))
<1> DEFINE rows == t.enrollment
           n == Len(rows)
           f == [i \in 1 .. n |-> rows[i]]
<1>1. /\ DOMAIN rows = 1 .. n /\ n \in Nat
      /\ \A i \in DOMAIN rows : rows[i] \in ToSet(rows)
      /\ \A x \in ToSet(rows) : \E i \in DOMAIN rows : rows[i] = x
  BY SheetHasRows DEF IsTables, IsTable
<1>2. f \in Surjection(1 .. n, ToSet(rows))
  BY <1>1 DEF Surjection
<1>3. IsFiniteSet(1 .. n)
  BY <1>1, FS_Interval
<1> HIDE DEF f
<1> QED BY <1>2, <1>3, FS_Surjection DEF Enrollments

LEMMA IdsAreFinite ==
  ASSUME NEW t, IsTables(t)
  PROVE  IsFiniteSet(Ids(t)) /\ Ids(t) \in SUBSET Int
<1> DEFINE f == [e \in Enrollments(t) |-> e.id]
<1>1. f \in Surjection(Enrollments(t), Ids(t))
  BY DEF Surjection, Ids
<1> HIDE DEF f
<1>2. IsFiniteSet(Ids(t))
  BY <1>1, RowsAreFinite, FS_Surjection
<1>3. \A x \in Enrollments(t) : x.id \in Int
  BY IdsAreTheirOwn DEF IsRow
<1> QED BY <1>2, <1>3 DEF Ids

LEMMA NewIdIsNew ==
  ASSUME NEW t, IsTables(t)
  PROVE  NewId(t) \in Int /\ NewId(t) > 0 /\ \A x \in Enrollments(t) : x.id < NewId(t)
<1> DEFINE S == {0} \cup Ids(t)
<1>1. IsFiniteSet(S) /\ S \in SUBSET Int /\ S # {}
  <2>1. IsFiniteSet({0}) /\ IsFiniteSet(Ids(t)) /\ Ids(t) \in SUBSET Int
    BY IdsAreFinite, FS_Singleton
  <2>2. IsFiniteSet(S)
    BY <2>1, FS_Union
  <2> QED BY <2>1, <2>2
<1>2. 0 \in S /\ \A x \in Enrollments(t) : x.id \in S
  BY DEF Ids
<1>3. NewId(t) = Max(S) + 1
  BY DEF NewId
<1> HIDE DEF S
<1>4. Max(S) \in S /\ \A y \in S : Max(S) >= y
  BY <1>1, BoundsAreReached
<1> DEFINE m == Max(S)
<1>5. m \in Int /\ NewId(t) = m + 1 /\ \A y \in S : y \in Int /\ m >= y
  BY <1>1, <1>3, <1>4
<1> HIDE DEF m
<1>6. m >= 0 /\ \A x \in Enrollments(t) : x.id \in Int /\ m >= x.id
  BY <1>2, <1>5
<1> QED BY <1>5, <1>6

-----------------------------------------------------------------------------
(***************************************************************************)
(* What the validation of a workbook lets through (_validate_dataset):     *)
(* classes with seats, students who differ, evaluations of these students. *)
(***************************************************************************)

(* What holds at the start of a trace and is kept by each line. *)
LEMMA LastIsReached ==
  ASSUME NEW n \in Nat, NEW Reached, 0 \in Reached, \A i \in 1 .. n : i - 1 \in Reached => i \in Reached
  PROVE  n \in Reached
<1> DEFINE Q == {i \in Nat : i <= n => i \in Reached}
<1>1. 0 \in Q
  OBVIOUS
<1>2. ASSUME NEW i \in Nat, i \in Q PROVE i + 1 \in Q
  <2>1. SUFFICES ASSUME i + 1 <= n PROVE i + 1 \in Reached
    OBVIOUS
  <2>2. i + 1 \in 1 .. n /\ i + 1 - 1 = i /\ i \in Reached
    BY <1>2, <2>1
  <2> QED BY <2>2
<1> HIDE DEF Q
<1>3. n \in Q
  BY <1>1, <1>2, NaturalsAreReached
<1> QED BY <1>3 DEF Q

(* What validation lets through. *)
LEMMA NothingIsASheet == IsSheet(<<>>) /\ ToSet(<<>>) = {} /\ DOMAIN <<>> = {}
<1>1. ToSet(<<>>) = {}
  BY DEF ToSet
<1> QED BY <1>1 DEF IsSheet

LEMMA ValidClassesHaveSeats ==
  ASSUME NEW w, IsWorkbook(w)
  PROVE  /\ IsSheet(ValidClasses(w).rows)
         /\ \A x \in ToSet(ValidClasses(w).rows) : x.capacity \in 1 .. 1000
<1> DEFINE n == Len(w.classes)
           base == [codes |-> {}, errors |-> {}, rows |-> <<>>]
           Good(acc) == IsSheet(acc.rows) /\ \A x \in ToSet(acc.rows) : x.capacity \in 1 .. 1000
<1>1. /\ n \in Nat /\ DOMAIN w.classes = 1 .. n
      /\ \A i \in 1 .. n : w.classes[i] \in ToSet(w.classes)
  BY SheetHasRows DEF IsWorkbook
<1>2. PICK f : Trace(f, n, "class_line", 0, base, w.classes) /\ f[n] = ValidClasses(w)
  BY <1>1, ClassLinesAreTraced
<1> HIDE DEF n
<1> DEFINE Reached == {i \in 0 .. n : Good(f[i])}
<1>3. 0 \in Reached
  BY <1>1, <1>2, NothingIsASheet DEF Trace
<1>4. ASSUME NEW i \in 1 .. n, i - 1 \in Reached PROVE i \in Reached
  <2> DEFINE found == f[i - 1]
             row == w.classes[i]
             titled == [row EXCEPT !.title = IF @ = Empty THEN row.code ELSE @]
  <2>1. f[i] = ClassStep(found, row)
    BY <1>2 DEF Trace, Step
  <2>2. row \in ToSet(w.classes) /\ DOMAIN row = {"code", "title", "grade", "capacity"}
    BY <1>1 DEF IsWorkbook
  <2>3. f[i].rows = found.rows \/ (f[i].rows = Append(found.rows, titled) /\ row.capacity \in 1 .. 1000)
    <3> DEFINE wrong ==
                 (IF row.code = Empty \/ row.code \in found.codes THEN {"class"} ELSE {})
                 \cup (IF row.grade \in Grades THEN {} ELSE {"grade"})
                 \cup (IF row.capacity \in 1 .. 1000 THEN {} ELSE {"capacity"})
    <3>1. ClassStep(found, row).rows = IF wrong # {} THEN found.rows ELSE Append(found.rows, titled)
      BY DEF ClassStep
    <3>2. row.capacity \notin 1 .. 1000 => "capacity" \in wrong
      OBVIOUS
    <3> HIDE DEF wrong, titled, found, row
    <3> QED BY <2>1, <3>1, <3>2
  <2>4. titled.capacity = row.capacity
    BY <2>2
  <2>5. Good(found)
    BY <1>4
  <2> HIDE DEF found, titled, row
  <2>6. CASE f[i].rows = found.rows
    BY <2>5, <2>6
  <2>7. CASE f[i].rows = Append(found.rows, titled) /\ row.capacity \in 1 .. 1000
    <3> DEFINE more == Append(found.rows, titled)
    <3>1. IsSheet(more) /\ ToSet(more) = ToSet(found.rows) \cup {titled}
      BY <2>5, OneRowMore
    <3>2. f[i].rows = more
      BY <2>7
    <3> HIDE DEF more
    <3>3. \A x \in ToSet(more) : x.capacity \in 1 .. 1000
      <4>1. titled.capacity \in 1 .. 1000
        BY <2>4, <2>7, Zenon
      <4>2. \A x \in ToSet(found.rows) : x.capacity \in 1 .. 1000
        BY <2>5
      <4>3. ASSUME NEW x \in ToSet(more) PROVE x.capacity \in 1 .. 1000
        <5>1. x \in ToSet(found.rows) \/ x = titled
          BY <3>1
        <5>2. CASE x = titled
          BY <4>1, <5>2
        <5>3. CASE x \in ToSet(found.rows)
          BY <4>2, <5>3
        <5> QED BY <5>1, <5>2, <5>3
      <4> QED BY <4>3
    <3> QED BY <3>1, <3>2, <3>3
  <2> HIDE DEF Good
  <2> QED BY <2>3, <2>6, <2>7
<1> HIDE DEF Reached
<1>5. n \in Reached
  BY <1>1, <1>3, <1>4, LastIsReached
<1> QED BY <1>2, <1>5 DEF Reached

LEMMA ValidStudentsDiffer ==
  ASSUME NEW w, IsWorkbook(w), NEW codes
  PROVE  LET rows == ValidStudents(w, codes).rows
         IN  /\ IsSheet(rows)
             /\ \A i, j \in DOMAIN rows : rows[i].nid = rows[j].nid => i = j
<1> DEFINE n == Len(w.students)
           base == [seen |-> 0, errors |-> {}, rows |-> <<>>]
           Differ(rows) == IsSheet(rows) /\ \A i, j \in DOMAIN rows : rows[i].nid = rows[j].nid => i = j
<1>1. /\ n \in Nat /\ DOMAIN w.students = 1 .. n
      /\ \A i \in 1 .. n : w.students[i] \in ToSet(w.students)
  BY SheetHasRows DEF IsWorkbook
<1>2. PICK f : Trace(f, n, "student_line", codes, base, w.students) /\ f[n] = ValidStudents(w, codes)
  BY <1>1, StudentLinesAreTraced
<1> HIDE DEF n
<1> DEFINE Reached == {i \in 0 .. n : Differ(f[i].rows)}
<1>3. 0 \in Reached
  BY <1>1, <1>2, NothingIsASheet DEF Trace
<1>4. ASSUME NEW i \in 1 .. n, i - 1 \in Reached PROVE i \in Reached
  <2> DEFINE found == f[i - 1]
             row == w.students[i]
             rows == found.rows
  <2>1. f[i] = StudentStep(codes, found, row)
    BY <1>2 DEF Trace, Step
  <2>2. DOMAIN row = {"local", "nid", "number", "person", "class"}
    BY <1>1 DEF IsWorkbook
  <2>3. \/ f[i].rows = rows
        \/ \E local, number :
             /\ f[i].rows = Append(rows, [row EXCEPT !.local = local, !.number = number])
             /\ row.nid \notin {x.nid : x \in ToSet(rows)}
    <3> DEFINE local == IF row.local = 0 THEN found.seen + 5 ELSE row.local
               number == StudentNumber(row, local, {x.number : x \in ToSet(rows)})
               isWrong ==
                 \/ local \in {x.local : x \in ToSet(rows)}
                 \/ row.nid = Unreadable
                 \/ row.nid \in {x.nid : x \in ToSet(rows)}
                 \/ row.person = Unreadable
                 \/ row.class \notin codes
    <3>1. StudentStep(codes, found, row).rows =
            IF isWrong THEN rows
            ELSE Append(rows, [row EXCEPT !.local = local, !.number = number])
      BY DEF StudentStep
    <3>2. row.nid \in {x.nid : x \in ToSet(rows)} => isWrong
      OBVIOUS
    <3> HIDE DEF local, number, isWrong
    <3> QED BY <2>1, <3>1, <3>2
  <2>4. CASE f[i].rows = rows
    BY <1>4, <2>4
  <2>5. ASSUME NEW local, NEW number,
               f[i].rows = Append(rows, [row EXCEPT !.local = local, !.number = number]),
               row.nid \notin {x.nid : x \in ToSet(rows)}
        PROVE  i \in Reached
    <3> DEFINE e == [row EXCEPT !.local = local, !.number = number]
               m == Len(rows)
               more == Append(rows, e)
    <3>1. e.nid = row.nid
      BY <2>2
    <3>2. /\ m \in Nat /\ DOMAIN rows = 1 .. m /\ IsSheet(more)
          /\ DOMAIN more = 1 .. m + 1
          /\ more[m + 1] = e /\ \A j \in 1 .. m : more[j] = rows[j]
          /\ \A j \in 1 .. m : rows[j] \in ToSet(rows)
          /\ \A j, k \in 1 .. m : rows[j].nid = rows[k].nid => j = k
      BY <1>4, OneRowMore, SheetHasRows
    <3> HIDE DEF e, m, more, rows
    <3>3. \A j \in 1 .. m : rows[j].nid # e.nid
      BY <2>5, <3>1, <3>2
    <3>4. ASSUME NEW j \in DOMAIN more, NEW k \in DOMAIN more, more[j].nid = more[k].nid
          PROVE  j = k
      <4>1. (j \in 1 .. m \/ j = m + 1) /\ (k \in 1 .. m \/ k = m + 1)
        BY <3>2
      <4> QED BY <3>2, <3>3, <3>4, <4>1
    <3>5. Differ(f[i].rows)
      BY <2>5, <3>2, <3>4 DEF e, more, rows
    <3> QED BY <3>5
  <2> QED BY <2>3, <2>4, <2>5
<1> HIDE DEF Reached
<1>5. n \in Reached
  BY <1>1, <1>3, <1>4, LastIsReached
<1> QED BY <1>2, <1>5 DEF Reached

LEMMA ValidEvaluationsHaveOwners ==
  ASSUME NEW w, IsWorkbook(w), NEW version, NEW students
  PROVE  LET rows == ValidEvaluations(w, version, students).rows
         IN  /\ IsSheet(rows)
             /\ \A x \in ToSet(rows) : \E y \in students : y.local = x.local
<1> DEFINE n == Len(w.evaluations)
           base == [errors |-> {}, rows |-> <<>>]
           Good(acc) == /\ DOMAIN acc = {"errors", "rows"} /\ IsSheet(acc.rows)
                        /\ \A x \in ToSet(acc.rows) : \E y \in students : y.local = x.local
<1>1. n \in Nat /\ DOMAIN w.evaluations = 1 .. n
  BY SheetHasRows DEF IsWorkbook
<1>2. PICK f : /\ Trace(f, n, "evaluation_line", <<version, students>>, base, w.evaluations)
               /\ f[n] = ValidEvaluations(w, version, students)
  BY <1>1, EvaluationLinesAreTraced
<1> HIDE DEF n
<1> DEFINE Reached == {i \in 0 .. n : Good(f[i])}
<1>3. 0 \in Reached
  BY <1>1, <1>2, NothingIsASheet DEF Trace
<1>4. ASSUME NEW i \in 1 .. n, i - 1 \in Reached PROVE i \in Reached
  <2> DEFINE found == f[i - 1]
             row == w.evaluations[i]
  <2>1. f[i] = EvaluationStep(version, students, found, row)
    BY <1>2 DEF Trace, Step
  <2>2. Good(found)
    BY <1>4
  <2>3. /\ DOMAIN f[i] = {"errors", "rows"}
        /\ \/ f[i].rows = found.rows
           \/ \E e : /\ f[i].rows = Append(found.rows, e)
                     /\ \E y \in students : y.local = e.local
    <3> DEFINE local == LocalCode(row)
               owner == {x \in students : x.local = local}
    <3>1. CASE owner = {} \/ ~IsRecorded(row)
      <4>1. f[i] = found \/ \E errors : f[i] = [found EXCEPT !.errors = errors]
        BY <2>1, <3>1, Zenon DEF EvaluationStep
      <4> QED BY <2>2, <4>1
    <3>2. CASE owner # {} /\ IsRecorded(row)
      <4>1. \E errors, month, note, scores :
              \/ f[i] = [errors |-> errors, rows |-> found.rows]
              \/ f[i] = [errors |-> errors,
                         rows |-> Append(found.rows,
                                    [local |-> local, month |-> month, note |-> note, scores |-> scores])]
        BY <2>1, <3>2, Zenon DEF EvaluationStep
      <4>2. PICK y \in students : y.local = local
        BY <3>2
      <4> HIDE DEF local
      <4> QED BY <4>1, <4>2
    <3> QED BY <3>1, <3>2
  <2> HIDE DEF found, row
  <2>4. CASE f[i].rows = found.rows
    BY <2>2, <2>3, <2>4
  <2>5. ASSUME NEW e, f[i].rows = Append(found.rows, e), \E y \in students : y.local = e.local
        PROVE  Good(f[i])
    <3> DEFINE more == Append(found.rows, e)
    <3>1. IsSheet(more) /\ ToSet(more) = ToSet(found.rows) \cup {e}
      BY <2>2, OneRowMore
    <3> HIDE DEF more
    <3> QED BY <2>2, <2>3, <2>5, <3>1 DEF more
  <2> QED BY <2>3, <2>4, <2>5
<1> HIDE DEF Reached
<1>5. n \in Reached
  BY <1>1, <1>3, <1>4, LastIsReached
<1> QED BY <1>2, <1>5 DEF Reached

(* What the application of a workbook relies on. *)
IsValidated(p) ==
  /\ IsSheet(p.classes) /\ \A x \in ToSet(p.classes) : x.capacity \in 1 .. 1000
  /\ IsSheet(p.students)
  /\ \A i, j \in DOMAIN p.students : p.students[i].nid = p.students[j].nid => i = j
  /\ IsSheet(p.evaluations)
  /\ \A x \in ToSet(p.evaluations) : \E y \in ToSet(p.students) : y.local = x.local

LEMMA ValidatedIsValidated ==
  ASSUME NEW w, IsWorkbook(w)
  PROVE  IsValidated(Validated(w))
<1> DEFINE classes == ValidClasses(w)
           codes == {x.code : x \in ToSet(classes.rows)}
           students == ValidStudents(w, codes)
           version == CHOOSE v \in FrameworkOf(w.headers) : TRUE
           evaluations == ValidEvaluations(w, version, ToSet(students.rows))
           p == Validated(w)
<1>1. p.classes = classes.rows /\ p.students = students.rows /\ p.evaluations = evaluations.rows
  BY DEF Validated
<1> HIDE DEF p
<1>2. IsSheet(classes.rows) /\ \A x \in ToSet(classes.rows) : x.capacity \in 1 .. 1000
  BY ValidClassesHaveSeats
<1> HIDE DEF classes
<1>3. /\ IsSheet(students.rows)
      /\ \A i, j \in DOMAIN students.rows : students.rows[i].nid = students.rows[j].nid => i = j
  BY ValidStudentsDiffer
<1> HIDE DEF students
<1>4. /\ IsSheet(evaluations.rows)
      /\ \A x \in ToSet(evaluations.rows) : \E y \in ToSet(students.rows) : y.local = x.local
  BY ValidEvaluationsHaveOwners
<1> HIDE DEF evaluations
<1> QED BY <1>1, <1>2, <1>3, <1>4 DEF IsValidated, p

-----------------------------------------------------------------------------
(***************************************************************************)
(* The import of a workbook (apply_comprehensive_import), line by line.    *)
(***************************************************************************)

(* What a fold of the application holds. *)
Refusals == {"no", "elsewhere", "unique", "capacity"}
IsApplying(acc) ==
  DOMAIN acc = {"t", "refused", "counts"} /\ IsTables(acc.t) /\ acc.refused \in Refusals

Told(t, id) == {v \in t.evaluation : v.enrollment = id}

HasRow(t, n) == Of(t, n) # {}

(* Only what is told of one student changes. *)
OnlyOf(t, u, n) ==
  \A e \in Enrollments(t) : e.student # n => Told(u, e.id) = Told(t, e.id)

(* Nothing is removed or given to another student, and what is new has an  *)
(* id of its own.                                                          *)
Grown(t, u) ==
  /\ \A e \in Enrollments(t) : \E x \in Enrollments(u) : x.id = e.id /\ x.student = e.student
  /\ \A x \in Enrollments(u) :
       \/ \E e \in Enrollments(t) : e.id = x.id /\ e.student = x.student
       \/ x.id > 0 /\ \A e \in Enrollments(t) : e.id # x.id

(* The active enrollments of other schools. *)
ElsewhereStays(t, u, s) ==
  \A e \in Enrollments(t) :
    IsActive(e) /\ e.school # s => e \in Enrollments(u) /\ Told(u, e.id) = Told(t, e.id)

(* uq_active_enrollment_student_year *)
OneActive(t) ==
  \A e, o \in Enrollments(t) : e.student = o.student /\ IsActive(e) /\ IsActive(o) => e = o

(* A line of the sheet of students has its one active enrollment. *)
IsListed(t, x, s) ==
  \E e \in Enrollments(t) :
    /\ e.student = x.nid /\ e.school = s /\ e.class = x.class /\ IsActive(e)
    /\ \A o \in Enrollments(t) : o.student = x.nid /\ IsActive(o) => o = e

LEMMA SameIsGrown ==
  ASSUME NEW t, NEW u, Enrollments(u) = Enrollments(t)
  PROVE  Grown(t, u)
  BY DEF Grown

LEMMA GrownTwice ==
  ASSUME NEW t, NEW u, NEW v, Grown(t, u), Grown(u, v)
  PROVE  Grown(t, v)
<1>1. ASSUME NEW e \in Enrollments(t)
      PROVE  \E x \in Enrollments(v) : x.id = e.id /\ x.student = e.student
  BY DEF Grown
<1>2. ASSUME NEW x \in Enrollments(v)
      PROVE  \/ \E e \in Enrollments(t) : e.id = x.id /\ e.student = x.student
             \/ x.id > 0 /\ \A e \in Enrollments(t) : e.id # x.id
  <2>1. CASE \E y \in Enrollments(u) : y.id = x.id /\ y.student = x.student
    BY <2>1 DEF Grown
  <2>2. CASE x.id > 0 /\ \A y \in Enrollments(u) : y.id # x.id
    BY <2>2 DEF Grown
  <2> QED BY <2>1, <2>2 DEF Grown
<1> QED BY <1>1, <1>2 DEF Grown

(* The only active row of its student is written, or one that is not.      *)
LEMMA OneStaysActive ==
  ASSUME NEW t, IsTables(t), OneActive(t), NEW e, IsRow(e),
         ~IsActive(e) \/ ~StudentIsTaken(t, e)
  PROVE  OneActive(SaveEnrollment(t, e))
<1> DEFINE u == SaveEnrollment(t, e)
<1>1. Enrollments(u) = {x \in Enrollments(t) : x.id # e.id} \cup {e}
  BY SavedEnrollment
<1>2. IsActive(e) =>
        \A o \in Enrollments(t) : o.id # e.id /\ IsActive(o) => o.student # e.student
  BY DEF StudentIsTaken
<1> HIDE DEF u
<1>3. OneActive(u)
  BY <1>1, <1>2 DEF OneActive
<1> QED BY <1>3 DEF u

LEMMA RowWritten ==
  ASSUME NEW t, IsTables(t), NEW e, IsRow(e),
         \/ e.id = NewId(t)
         \/ \E r \in Enrollments(t) : r.id = e.id /\ r.student = e.student
  PROVE  Grown(t, SaveEnrollment(t, e))
<1> DEFINE u == SaveEnrollment(t, e)
<1>1. Enrollments(u) = {x \in Enrollments(t) : x.id # e.id} \cup {e}
  BY SavedEnrollment
<1>2. \A x, y \in Enrollments(t) : x.id = y.id => x = y
  BY IdsAreTheirOwn
<1>3. e.id = NewId(t) => e.id > 0 /\ \A x \in Enrollments(t) : x.id # e.id
  <2>1. \A x \in Enrollments(t) : x.id \in Int
    BY IdsAreTheirOwn DEF IsRow
  <2> QED BY <2>1, NewIdIsNew
<1> HIDE DEF u
<1>4. ASSUME NEW r \in Enrollments(t) PROVE \E x \in Enrollments(u) : x.id = r.id /\ x.student = r.student
  BY <1>1, <1>2, <1>3
<1>5. ASSUME NEW x \in Enrollments(u)
      PROVE  \/ \E r \in Enrollments(t) : r.id = x.id /\ r.student = x.student
             \/ x.id > 0 /\ \A r \in Enrollments(t) : r.id # x.id
  BY <1>1, <1>3
<1> QED BY <1>4, <1>5 DEF Grown, u

-----------------------------------------------------------------------------
(* Each line. *)
LEMMA ClassApplied ==
  ASSUME NEW s, NEW acc, IsApplying(acc), NEW x
  PROVE  LET b == ApplyClass(s, acc, x)
         IN  /\ IsApplying(b) /\ b.refused = acc.refused
             /\ b.t.enrollment = acc.t.enrollment /\ b.t.evaluation = acc.t.evaluation
<1> DEFINE b == ApplyClass(s, acc, x)
<1>1. \E tally, classes : b = [[acc EXCEPT !.counts = tally] EXCEPT !.t = [@ EXCEPT !.class = classes]]
  BY DEF ApplyClass, Counted
<1> HIDE DEF b
<1>2. /\ DOMAIN b = DOMAIN acc /\ DOMAIN b.t = DOMAIN acc.t /\ b.refused = acc.refused
      /\ b.t.enrollment = acc.t.enrollment /\ b.t.evaluation = acc.t.evaluation
  BY <1>1 DEF IsApplying, IsTables
<1> QED BY <1>2 DEF IsApplying, IsTables, b

LEMMA StudentApplied ==
  ASSUME NEW acc, IsApplying(acc), NEW x
  PROVE  LET b == ApplyStudent(acc, x)
         IN  /\ IsApplying(b) /\ b.refused = acc.refused
             /\ b.t.enrollment = acc.t.enrollment /\ b.t.evaluation = acc.t.evaluation
<1> DEFINE b == ApplyStudent(acc, x)
<1>1. \E tally, students : b = [[acc EXCEPT !.counts = tally] EXCEPT !.t = [@ EXCEPT !.student = students]]
  BY DEF ApplyStudent, Counted
<1> HIDE DEF b
<1>2. /\ DOMAIN b = DOMAIN acc /\ DOMAIN b.t = DOMAIN acc.t /\ b.refused = acc.refused
      /\ b.t.enrollment = acc.t.enrollment /\ b.t.evaluation = acc.t.evaluation
  BY <1>1 DEF IsApplying, IsTables
<1> QED BY <1>2 DEF IsApplying, IsTables, b

(* The row that a line of the sheet of students writes: the student's, or  *)
(* a new one, and not the active one of another school.                    *)
LEMMA EnrollmentApplied ==
  ASSUME NEW s, NEW acc, IsApplying(acc), NEW x
  PROVE  LET b == ApplyEnrollment(s, acc, x)
         IN  /\ IsApplying(b)
             /\ \/ b.t = acc.t /\ b.refused # "no"
                \/ \E row :
                     /\ acc.refused = "no" /\ b.refused = "no"
                     /\ b.t = SaveEnrollment(acc.t, row)
                     /\ IsRow(row) /\ IsActive(row)
                     /\ row.student = x.nid /\ row.school = s /\ row.class = x.class
                     /\ ~StudentIsTaken(acc.t, row)
                     /\ \/ row.id = NewId(acc.t)
                        \/ \E r \in Of(acc.t, x.nid) : r.id = row.id /\ ~IsElsewhere(r, s)
<1> DEFINE b == ApplyEnrollment(s, acc, x)
           isNew == Of(acc.t, x.nid) = {}
           newest == NewestOf(acc.t, x.nid)
           row == [id |-> IF isNew THEN NewId(acc.t) ELSE newest.id,
                   student |-> x.nid, school |-> s, class |-> x.class,
                   grade |-> acc.t.class[<<s, x.class>>].grade,
                   number |-> x.number, status |-> "active"]
           how == IF isNew THEN "created" ELSE "updated"
           saved == [Counted(acc, "enrollment", how) EXCEPT !.t = SaveEnrollment(@, row)]
<1>1. IsRow(row) /\ IsActive(row) /\ row.student = x.nid /\ row.school = s /\ row.class = x.class
  <2>1. isNew => NewId(acc.t) \in Int \ {0}
    BY NewIdIsNew DEF IsApplying
  <2>2. ~isNew => newest.id \in Int \ {0}
    BY NewestIsOf, IdsAreTheirOwn DEF IsApplying, IsRow, Of
  <2> HIDE DEF isNew, newest
  <2>3. row.id \in Int \ {0}
    BY <2>1, <2>2
  <2> QED BY <2>3 DEF IsRow, RowFields, IsActive
<1>2. \/ row.id = NewId(acc.t)
      \/ ~isNew /\ newest \in Of(acc.t, x.nid) /\ newest.id = row.id
  BY NewestIsOf DEF IsApplying
<1>3. \/ b = acc /\ acc.refused # "no"
      \/ b = Refused(acc, "elsewhere")
      \/ b = Refused(acc, "unique")
      \/ /\ b = saved /\ acc.refused = "no" /\ ~StudentIsTaken(acc.t, row)
         /\ ~(~isNew /\ IsElsewhere(newest, s))
  BY DEF ApplyEnrollment
<1>4. CASE b = acc /\ acc.refused # "no"
  BY <1>4
<1>5. CASE \E why \in {"elsewhere", "unique"} : b = Refused(acc, why)
  <2> HIDE DEF b
  <2>1. DOMAIN b = DOMAIN acc /\ b.t = acc.t /\ b.refused \in Refusals \ {"no"}
    BY <1>5 DEF Refused, IsApplying, Refusals
  <2> QED BY <2>1 DEF IsApplying, b
<1>6. CASE /\ b = saved /\ acc.refused = "no" /\ ~StudentIsTaken(acc.t, row)
           /\ ~(~isNew /\ IsElsewhere(newest, s))
  <2> HIDE DEF b, row, how, isNew, newest
  <2>1. DOMAIN b = DOMAIN acc /\ b.t = SaveEnrollment(acc.t, row) /\ b.refused = "no"
    BY <1>6 DEF IsApplying, Counted
  <2>2. IsTables(b.t)
    BY <1>1, <2>1, SavedEnrollment DEF IsApplying
  <2>3. IsApplying(b)
    BY <2>1, <2>2 DEF IsApplying, Refusals
  <2>4. row.id = NewId(acc.t) \/ \E r \in Of(acc.t, x.nid) : r.id = row.id /\ ~IsElsewhere(r, s)
    BY <1>2, <1>6
  <2> QED BY <1>1, <1>6, <2>1, <2>3, <2>4 DEF b
<1> QED BY <1>3, <1>4, <1>5, <1>6

(* The line of the sheet of students that an evaluation belongs to. *)
Owner(p, x) == CHOOSE z \in ToSet(p.students) : z.local = x.local

(* An evaluation of the student whose line has its local code. *)
LEMMA EvaluationApplied ==
  ASSUME NEW p, NEW acc, IsApplying(acc), NEW x,
         HasRow(acc.t, Owner(p, x).nid)
  PROVE  LET b == ApplyEvaluation(p, acc, x)
         IN  /\ IsApplying(b) /\ b.refused = acc.refused /\ b.t.enrollment = acc.t.enrollment
             /\ OnlyOf(acc.t, b.t, Owner(p, x).nid)
<1> DEFINE b == ApplyEvaluation(p, acc, x)
           n == Owner(p, x).nid
           r == NewestOf(acc.t, n)
           old == LiveEvaluations(acc.t, r, x.month, p.version)
<1>1. r \in Enrollments(acc.t) /\ r.student = n
  BY NewestIsOf DEF IsApplying, Of, HasRow
<1>2. \A v \in old : v.enrollment = r.id
  BY DEF LiveEvaluations
<1>3. \/ b = acc
      \/ \E tally, new :
           /\ b = [[acc EXCEPT !.counts = tally] EXCEPT !.t = Replace(@, old, new)]
           /\ new.enrollment = r.id
  <2> DEFINE had == IF old = {} THEN NoScores ELSE (CHOOSE v \in old : TRUE).scores
             new == [enrollment |-> r.id, month |-> x.month, version |-> p.version, live |-> TRUE,
                     note |-> x.note, scores |-> Scored(had, x.scores)]
             how == IF old = {} THEN "created" ELSE "updated"
  <2>1. b = IF acc.refused # "no" THEN acc
            ELSE [Counted(acc, "evaluation", how) EXCEPT !.t = Replace(@, old, new)]
    BY DEF ApplyEvaluation, Owner
  <2>2. \E tally : Counted(acc, "evaluation", how) = [acc EXCEPT !.counts = tally]
    BY DEF Counted
  <2>3. new.enrollment = r.id
    OBVIOUS
  <2> HIDE DEF b, new, old, how
  <2> QED BY <2>1, <2>2, <2>3
<1> HIDE DEF b, r, n, old
<1>4. CASE b = acc
  BY <1>4 DEF b, n, OnlyOf
<1>5. ASSUME NEW tally, NEW new,
             b = [[acc EXCEPT !.counts = tally] EXCEPT !.t = Replace(@, old, new)],
             new.enrollment = r.id
      PROVE  /\ IsApplying(b) /\ b.refused = acc.refused /\ b.t.enrollment = acc.t.enrollment
             /\ OnlyOf(acc.t, b.t, n)
  <2>1. DOMAIN b = DOMAIN acc /\ b.refused = acc.refused /\ b.t = Replace(acc.t, old, new)
    BY <1>5 DEF IsApplying
  <2>2. /\ DOMAIN b.t = DOMAIN acc.t /\ b.t.enrollment = acc.t.enrollment
        /\ b.t.evaluation = (acc.t.evaluation \ old) \cup {new}
    BY <2>1 DEF Replace, IsApplying, IsTables
  <2>3. ASSUME NEW e \in Enrollments(acc.t), e.student # n
        PROVE  Told(b.t, e.id) = Told(acc.t, e.id)
    <3>1. e.id # r.id
      BY <1>1, <2>3, IdsAreTheirOwn DEF IsApplying
    <3> QED BY <1>2, <1>5, <2>2, <3>1 DEF Told
  <2> QED BY <2>1, <2>2, <2>3 DEF IsApplying, IsTables, OnlyOf
<1> QED BY <1>3, <1>4, <1>5 DEF b, n

(* The sheets, line by line. *)
LEMMA ClassesApplied ==
  ASSUME NEW s, NEW base, IsApplying(base), NEW rows, IsSheet(rows)
  PROVE  LET b == ApplyClasses(s, base, rows)
         IN  /\ IsApplying(b) /\ b.refused = base.refused
             /\ b.t.enrollment = base.t.enrollment /\ b.t.evaluation = base.t.evaluation
<1> DEFINE n == Len(rows)
           Kept(b) == /\ IsApplying(b) /\ b.refused = base.refused
                      /\ b.t.enrollment = base.t.enrollment /\ b.t.evaluation = base.t.evaluation
<1>1. n \in Nat /\ DOMAIN rows = 1 .. n
  BY SheetHasRows
<1>2. PICK f : Trace(f, n, "class", s, base, rows) /\ f[n] = ApplyClasses(s, base, rows)
  BY <1>1, ClassesAreTraced
<1> HIDE DEF n
<1> DEFINE Reached == {i \in 0 .. n : Kept(f[i])}
<1>3. 0 \in Reached
  BY <1>1, <1>2 DEF Trace
<1>4. ASSUME NEW i \in 1 .. n, i - 1 \in Reached PROVE i \in Reached
  <2>1. f[i] = ApplyClass(s, f[i - 1], rows[i])
    BY <1>2 DEF Trace, Step
  <2>2. Kept(f[i])
    BY <1>4, <2>1, ClassApplied
  <2> QED BY <2>2
<1> HIDE DEF Reached
<1>5. n \in Reached
  BY <1>1, <1>3, <1>4, LastIsReached
<1> QED BY <1>2, <1>5 DEF Reached

LEMMA StudentsApplied ==
  ASSUME NEW base, IsApplying(base), NEW rows, IsSheet(rows)
  PROVE  LET b == ApplyStudents(base, rows)
         IN  /\ IsApplying(b) /\ b.refused = base.refused
             /\ b.t.enrollment = base.t.enrollment /\ b.t.evaluation = base.t.evaluation
<1> DEFINE n == Len(rows)
           Kept(b) == /\ IsApplying(b) /\ b.refused = base.refused
                      /\ b.t.enrollment = base.t.enrollment /\ b.t.evaluation = base.t.evaluation
<1>1. n \in Nat /\ DOMAIN rows = 1 .. n
  BY SheetHasRows
<1>2. PICK f : Trace(f, n, "student", 0, base, rows) /\ f[n] = ApplyStudents(base, rows)
  BY <1>1, StudentsAreTraced
<1> HIDE DEF n
<1> DEFINE Reached == {i \in 0 .. n : Kept(f[i])}
<1>3. 0 \in Reached
  BY <1>1, <1>2 DEF Trace
<1>4. ASSUME NEW i \in 1 .. n, i - 1 \in Reached PROVE i \in Reached
  <2>1. f[i] = ApplyStudent(f[i - 1], rows[i])
    BY <1>2 DEF Trace, Step
  <2>2. Kept(f[i])
    BY <1>4, <2>1, StudentApplied
  <2> QED BY <2>2
<1> HIDE DEF Reached
<1>5. n \in Reached
  BY <1>1, <1>3, <1>4, LastIsReached
<1> QED BY <1>2, <1>5 DEF Reached

(* One line of the sheet of students: the rows of other students, and what *)
(* is active in other schools, stay; the student has one active row.       *)
LEMMA OneIsEnrolled ==
  ASSUME NEW s, NEW acc, IsApplying(acc), NEW x
  PROVE  LET b == ApplyEnrollment(s, acc, x)
         IN  /\ IsApplying(b) /\ b.t.evaluation = acc.t.evaluation
             /\ Grown(acc.t, b.t) /\ (OneActive(acc.t) => OneActive(b.t))
             /\ \A e \in Enrollments(acc.t) : IsActive(e) /\ e.school # s => e \in Enrollments(b.t)
             /\ b.refused = "no" =>
                  /\ acc.refused = "no"
                  /\ IsListed(b.t, x, s)
                  /\ \A y : y.nid # x.nid /\ IsListed(acc.t, y, s) => IsListed(b.t, y, s)
<1> DEFINE b == ApplyEnrollment(s, acc, x)
           t == acc.t
<1>1. IsApplying(b)
  BY EnrollmentApplied
<1>2. CASE b.t = t /\ b.refused # "no"
  BY <1>1, <1>2, SameIsGrown
<1>3. ASSUME NEW row,
             acc.refused = "no" /\ b.refused = "no",
             b.t = SaveEnrollment(t, row),
             IsRow(row) /\ IsActive(row),
             row.student = x.nid /\ row.school = s /\ row.class = x.class,
             ~StudentIsTaken(t, row),
             \/ row.id = NewId(t)
             \/ \E r \in Of(t, x.nid) : r.id = row.id /\ ~IsElsewhere(r, s)
      PROVE  /\ b.t.evaluation = t.evaluation
             /\ Grown(t, b.t) /\ (OneActive(t) => OneActive(b.t))
             /\ \A e \in Enrollments(t) : IsActive(e) /\ e.school # s => e \in Enrollments(b.t)
             /\ IsListed(b.t, x, s)
             /\ \A y : y.nid # x.nid /\ IsListed(t, y, s) => IsListed(b.t, y, s)
  <2> HIDE DEF b
  <2>1. IsTables(t)
    BY DEF IsApplying
  <2> HIDE DEF t
  <2>2. /\ b.t.evaluation = t.evaluation
        /\ Enrollments(b.t) = {e \in Enrollments(t) : e.id # row.id} \cup {row}
    BY <1>3, <2>1, SavedEnrollment
  <2>3. \A e, r \in Enrollments(t) : e.id = r.id => e = r
    BY <2>1, IdsAreTheirOwn
  <2>4. \/ \A e \in Enrollments(t) : e.id # row.id
        \/ \E r \in Enrollments(t) : r.id = row.id /\ r.student = x.nid /\ ~IsElsewhere(r, s)
    <3>1. \A e \in Enrollments(t) : e.id \in Int
      BY <2>1, IdsAreTheirOwn DEF IsRow
    <3> QED BY <1>3, <2>1, <3>1, NewIdIsNew DEF Of
  <2>5. Grown(t, b.t)
    BY <1>3, <2>1, RowWritten DEF Of
  <2>6. ASSUME NEW e \in Enrollments(t), IsActive(e) /\ e.school # s
        PROVE  e \in Enrollments(b.t)
    <3>1. e.id # row.id
      BY <2>3, <2>4, <2>6 DEF IsElsewhere
    <3> QED BY <2>2, <3>1
  <2>7. IsListed(b.t, x, s)
    <3>1. ASSUME NEW o \in Enrollments(b.t), o.student = x.nid /\ IsActive(o) PROVE o = row
      BY <1>3, <2>2, <3>1 DEF StudentIsTaken
    <3> QED BY <1>3, <2>2, <3>1 DEF IsListed
  <2>8. ASSUME NEW y, y.nid # x.nid, IsListed(t, y, s) PROVE IsListed(b.t, y, s)
    <3>1. PICK e \in Enrollments(t) :
            /\ e.student = y.nid /\ e.school = s /\ e.class = y.class /\ IsActive(e)
            /\ \A o \in Enrollments(t) : o.student = y.nid /\ IsActive(o) => o = e
      BY <2>8 DEF IsListed
    <3>2. e \in Enrollments(b.t)
      BY <2>2, <2>3, <2>4, <2>8, <3>1
    <3>3. ASSUME NEW o \in Enrollments(b.t), o.student = y.nid /\ IsActive(o) PROVE o = e
      BY <1>3, <2>2, <2>8, <3>1, <3>3
    <3> QED BY <3>1, <3>2, <3>3 DEF IsListed
  <2>9. OneActive(t) => OneActive(b.t)
    BY <1>3, <2>1, OneStaysActive
  <2> QED BY <2>2, <2>5, <2>6, <2>7, <2>8, <2>9
<1> QED BY <1>1, <1>2, <1>3, EnrollmentApplied

LEMMA EnrollmentsApplied ==
  ASSUME NEW s, NEW base, IsApplying(base), NEW rows, IsSheet(rows),
         \A i, j \in DOMAIN rows : rows[i].nid = rows[j].nid => i = j
  PROVE  LET b == ApplyEnrollments(s, base, rows)
         IN  /\ IsApplying(b) /\ b.t.evaluation = base.t.evaluation
             /\ Grown(base.t, b.t) /\ (OneActive(base.t) => OneActive(b.t))
             /\ \A e \in Enrollments(base.t) :
                  IsActive(e) /\ e.school # s => e \in Enrollments(b.t)
             /\ b.refused = "no" => \A x \in ToSet(rows) : IsListed(b.t, x, s)
<1> DEFINE n == Len(rows)
           Good(b, i) == /\ IsApplying(b) /\ b.t.evaluation = base.t.evaluation
                         /\ Grown(base.t, b.t) /\ (OneActive(base.t) => OneActive(b.t))
                         /\ \A e \in Enrollments(base.t) :
                              IsActive(e) /\ e.school # s => e \in Enrollments(b.t)
                         /\ b.refused = "no" => \A j \in 1 .. i : IsListed(b.t, rows[j], s)
<1>1. n \in Nat /\ DOMAIN rows = 1 .. n /\ \A x \in ToSet(rows) : \E i \in 1 .. n : rows[i] = x
  BY SheetHasRows
<1>2. PICK f : Trace(f, n, "enrollment", s, base, rows) /\ f[n] = ApplyEnrollments(s, base, rows)
  BY <1>1, EnrollmentsAreTraced
<1> HIDE DEF n
<1> DEFINE Reached == {i \in 0 .. n : Good(f[i], i)}
<1>3. 0 \in Reached
  BY <1>1, <1>2, SameIsGrown DEF Trace
<1>4. ASSUME NEW i \in 1 .. n, i - 1 \in Reached PROVE i \in Reached
  <2> DEFINE acc == f[i - 1]
             x == rows[i]
             b == f[i]
  <2>1. b = ApplyEnrollment(s, acc, x)
    BY <1>2 DEF Trace, Step
  <2>2. Good(acc, i - 1)
    BY <1>4
  <2> HIDE DEF acc, b
  <2>3. /\ IsApplying(b) /\ b.t.evaluation = acc.t.evaluation
        /\ Grown(acc.t, b.t) /\ (OneActive(acc.t) => OneActive(b.t))
        /\ \A e \in Enrollments(acc.t) : IsActive(e) /\ e.school # s => e \in Enrollments(b.t)
        /\ b.refused = "no" =>
             /\ acc.refused = "no"
             /\ IsListed(b.t, x, s)
             /\ \A y : y.nid # x.nid /\ IsListed(acc.t, y, s) => IsListed(b.t, y, s)
    BY <2>1, <2>2, OneIsEnrolled
  <2>4. Grown(base.t, b.t)
    BY <2>2, <2>3, GrownTwice
  <2>5. ASSUME b.refused = "no", NEW j \in 1 .. i PROVE IsListed(b.t, rows[j], s)
    <3>1. CASE j = i
      BY <2>3, <2>5, <3>1
    <3>2. CASE j # i
      <4>1. j \in 1 .. i - 1 /\ j \in DOMAIN rows /\ i \in DOMAIN rows
        BY <1>1, <3>2
      <4>2. rows[j].nid # x.nid
        BY <3>2, <4>1
      <4>3. IsListed(acc.t, rows[j], s)
        BY <2>2, <2>3, <2>5, <4>1
      <4> HIDE DEF x
      <4> QED BY <2>3, <2>5, <4>2, <4>3
    <3> QED BY <3>1, <3>2
  <2>6. Good(b, i)
    BY <2>2, <2>3, <2>4, <2>5
  <2> QED BY <2>6 DEF b
<1> HIDE DEF Reached
<1>5. n \in Reached
  BY <1>1, <1>3, <1>4, LastIsReached
<1> QED BY <1>1, <1>2, <1>5 DEF Reached

LEMMA EvaluationsApplied ==
  ASSUME NEW p, IsValidated(p), NEW base, IsApplying(base),
         base.refused = "no" => \A x \in ToSet(p.students) : Of(base.t, x.nid) # {}
  PROVE  LET b == ApplyEvaluations(p, base)
         IN  /\ IsApplying(b) /\ b.refused = base.refused
             /\ b.t.enrollment = base.t.enrollment
             /\ base.refused = "no" =>
                  \A e \in Enrollments(base.t) :
                    (\A x \in ToSet(p.students) : e.student # x.nid)
                      => Told(b.t, e.id) = Told(base.t, e.id)
<1> DEFINE rows == p.evaluations
           n == Len(rows)
           Good(b) == /\ IsApplying(b) /\ b.refused = base.refused
                      /\ b.t.enrollment = base.t.enrollment
                      /\ base.refused = "no" =>
                           \A e \in Enrollments(base.t) :
                             (\A x \in ToSet(p.students) : e.student # x.nid)
                               => Told(b.t, e.id) = Told(base.t, e.id)
<1>1. /\ n \in Nat /\ DOMAIN rows = 1 .. n
      /\ \A i \in 1 .. n : rows[i] \in ToSet(rows)
  BY SheetHasRows DEF IsValidated
<1>2. PICK f : Trace(f, n, "evaluation", p, base, rows) /\ f[n] = ApplyEvaluations(p, base)
  BY <1>1, EvaluationsAreTraced
<1> HIDE DEF n
<1> DEFINE Reached == {i \in 0 .. n : Good(f[i])}
<1>3. 0 \in Reached
  BY <1>1, <1>2 DEF Trace
<1>4. ASSUME NEW i \in 1 .. n, i - 1 \in Reached PROVE i \in Reached
  <2> DEFINE acc == f[i - 1]
             x == rows[i]
             b == f[i]
             y == Owner(p, x)
  <2>1. b = ApplyEvaluation(p, acc, x)
    BY <1>2 DEF Trace, Step
  <2>2. Good(acc)
    BY <1>4
  <2>3. y \in ToSet(p.students)
    BY <1>1 DEF IsValidated, Owner
  <2>4. CASE base.refused # "no"
    <3>1. b = acc
      BY <2>1, <2>2, <2>4 DEF ApplyEvaluation
    <3> QED BY <2>2, <3>1
  <2>5. CASE base.refused = "no"
    <3>1. Of(acc.t, y.nid) # {}
      BY <2>2, <2>3, <2>5 DEF Of, Enrollments
    <3>5. IsApplying(acc) /\ HasRow(acc.t, Owner(p, x).nid)
      BY <2>2, <3>1 DEF HasRow
    <3> HIDE DEF acc, x, b
    <3>2. /\ IsApplying(b) /\ b.refused = acc.refused /\ b.t.enrollment = acc.t.enrollment
          /\ OnlyOf(acc.t, b.t, y.nid)
      BY <2>1, <3>5, EvaluationApplied
    <3>3. Enrollments(acc.t) = Enrollments(base.t)
      BY <2>2 DEF Enrollments
    <3>4. Good(b)
      BY <2>2, <2>3, <3>2, <3>3 DEF OnlyOf
    <3> QED BY <3>4 DEF b
  <2> QED BY <2>4, <2>5
<1> HIDE DEF Reached
<1>5. n \in Reached
  BY <1>1, <1>3, <1>4, LastIsReached
<1> QED BY <1>2, <1>5 DEF Reached

(* What a workbook that is not refused makes of the tables. *)
IsWellApplied(t, p, s, u) ==
  /\ IsTables(u) /\ Grown(t, u) /\ (OneActive(t) => OneActive(u)) /\ ElsewhereStays(t, u, s)
  /\ \A x \in ToSet(p.students) : IsListed(u, x, s)
  /\ \A x \in ToSet(p.classes) : Cardinality(ActiveIn(u, s, x.code)) <= x.capacity

LEMMA WorkbookApplied ==
  ASSUME NEW t, IsTables(t), NEW p, IsValidated(p), NEW s
  PROVE  /\ Applied(t, p, s).refused \in Refusals
         /\ Applied(t, p, s).refused = "no" => IsWellApplied(t, p, s, Applied(t, p, s).t)
<1> DEFINE begin == [t |-> t, refused |-> "no",
                     counts |-> [k \in Kinds |-> [created |-> 0, updated |-> 0]]]
           classes == ApplyClasses(s, begin, p.classes)
           students == ApplyStudents(classes, p.students)
           enrolled == ApplyEnrollments(s, students, p.students)
           fitting == CheckCapacity(s, ToSet(p.classes), enrolled)
           result == ApplyEvaluations(p, fitting)
<1>1. Applied(t, p, s) = result
  BY DEF Applied
<1>2. IsApplying(begin) /\ begin.t = t
  BY DEF IsApplying, Refusals
<1>3. /\ IsApplying(classes)
      /\ classes.t.enrollment = t.enrollment /\ classes.t.evaluation = t.evaluation
  BY <1>2, ClassesApplied DEF IsValidated
<1> HIDE DEF classes
<1>4. /\ IsApplying(students)
      /\ students.t.enrollment = t.enrollment /\ students.t.evaluation = t.evaluation
  BY <1>3, StudentsApplied DEF IsValidated
<1> HIDE DEF students
<1>5. Enrollments(students.t) = Enrollments(t)
  BY <1>4 DEF Enrollments
<1>6. /\ IsApplying(enrolled) /\ enrolled.t.evaluation = t.evaluation
      /\ Grown(students.t, enrolled.t) /\ (OneActive(students.t) => OneActive(enrolled.t))
      /\ \A e \in Enrollments(t) : IsActive(e) /\ e.school # s => e \in Enrollments(enrolled.t)
      /\ enrolled.refused = "no" => \A x \in ToSet(p.students) : IsListed(enrolled.t, x, s)
  BY <1>4, <1>5, EnrollmentsApplied DEF IsValidated
<1> HIDE DEF enrolled
<1>7. /\ IsApplying(fitting) /\ fitting.t = enrolled.t
      /\ fitting.refused = "no" =>
           /\ enrolled.refused = "no"
           /\ \A x \in ToSet(p.classes) : ~(Cardinality(ActiveIn(enrolled.t, s, x.code)) > x.capacity)
  BY <1>6 DEF CheckCapacity, Refused, IsApplying, Refusals
<1> HIDE DEF fitting
<1>8. fitting.refused = "no" => \A x \in ToSet(p.students) : Of(fitting.t, x.nid) # {}
  BY <1>6, <1>7 DEF IsListed, Of
<1>9. /\ IsApplying(result) /\ result.refused = fitting.refused
      /\ result.t.enrollment = fitting.t.enrollment
      /\ fitting.refused = "no" =>
           \A e \in Enrollments(fitting.t) :
             (\A x \in ToSet(p.students) : e.student # x.nid)
               => Told(result.t, e.id) = Told(fitting.t, e.id)
  BY <1>7, <1>8, EvaluationsApplied
<1> HIDE DEF result
<1>16. result.refused \in Refusals
  BY <1>9 DEF IsApplying
<1>17. SUFFICES ASSUME result.refused = "no" PROVE IsWellApplied(t, p, s, result.t)
  BY <1>1, <1>16
<1>10. fitting.refused = "no" /\ enrolled.refused = "no"
  BY <1>7, <1>9, <1>17
<1>11. Enrollments(result.t) = Enrollments(enrolled.t)
  BY <1>7, <1>9 DEF Enrollments
<1>12. IsTables(result.t) /\ Grown(t, result.t) /\ (OneActive(t) => OneActive(result.t))
  BY <1>5, <1>6, <1>9, <1>11 DEF IsApplying, Grown, OneActive
<1>13. ElsewhereStays(t, result.t, s)
  <2>1. ASSUME NEW e \in Enrollments(t), IsActive(e) /\ e.school # s
        PROVE  e \in Enrollments(result.t) /\ Told(result.t, e.id) = Told(t, e.id)
    <3>1. e \in Enrollments(enrolled.t)
      BY <1>6, <2>1
    <3>2. \A x \in ToSet(p.students) : e.student # x.nid
      BY <1>6, <1>10, <2>1, <3>1 DEF IsListed
    <3>3. Told(result.t, e.id) = Told(enrolled.t, e.id)
      BY <1>7, <1>9, <1>10, <3>1, <3>2
    <3> QED BY <1>6, <1>11, <3>1, <3>3 DEF Told
  <2> QED BY <2>1 DEF ElsewhereStays
<1>14. \A x \in ToSet(p.students) : IsListed(result.t, x, s)
  BY <1>6, <1>10, <1>11 DEF IsListed
<1>15. ASSUME NEW x \in ToSet(p.classes)
       PROVE  Cardinality(ActiveIn(result.t, s, x.code)) <= x.capacity
  <2> DEFINE seats == ActiveIn(result.t, s, x.code)
  <2>1. seats = ActiveIn(enrolled.t, s, x.code)
    BY <1>11 DEF ActiveIn
  <2>2. ~(Cardinality(seats) > x.capacity) /\ x.capacity \in 1 .. 1000
    BY <1>7, <1>10, <2>1 DEF IsValidated
  <2>3. IsFiniteSet(seats)
    <3>1. IsFiniteSet(Enrollments(result.t)) /\ seats \in SUBSET Enrollments(result.t)
      BY <1>12, RowsAreFinite DEF ActiveIn
    <3> HIDE DEF seats
    <3> QED BY <3>1, FS_Subset
  <2>4. Cardinality(seats) \in Nat
    BY <2>3, FS_CardinalityType
  <2> QED BY <2>2, <2>4
<1> QED BY <1>12, <1>13, <1>14, <1>15 DEF IsWellApplied

-----------------------------------------------------------------------------
(***************************************************************************)
(* The ingest of a file of the directory, row by row. It saves the rows it *)
(* keeps in memory over the table, whatever happened to the table since.   *)
(***************************************************************************)

(* What the ingest keeps in memory of the enrollments: rows of their       *)
(* students, whose ids are no one else's.                                  *)
IsMemory(t, m) ==
  /\ DOMAIN m = NationalIds
  /\ \A n \in NationalIds : m[n] = NoRow \/ (IsRow(m[n]) /\ m[n].student = n)
  /\ \A n \in NationalIds : m[n] # NoRow =>
       /\ \A e \in Enrollments(t) : e.id = m[n].id => e.student = n
       /\ m[n].id > 0 => \E e \in Enrollments(t) : e.id = m[n].id
       /\ \A k \in NationalIds : m[k] # NoRow /\ m[k].id = m[n].id => k = n

IsIngesting(w, acc) ==
  /\ DOMAIN acc = {"t", "cache", "failed", "issues", "local"}
  /\ DOMAIN acc.cache = {"class", "student", "enrollment"}
  /\ DOMAIN acc.local = LocalCodes(w)
  /\ IsTables(acc.t)
  /\ IsMemory(acc.t, acc.cache.enrollment)

(* The row of a student that the ingest starts from. *)
Remembered(t, m, n) == IF m[n] # NoRow THEN {m[n]} ELSE Of(t, n)

(* Nothing is done to enrollments and evaluations. *)
SameRows(acc, b) ==
  /\ b.t.enrollment = acc.t.enrollment /\ b.t.evaluation = acc.t.evaluation
  /\ b.cache.enrollment = acc.cache.enrollment /\ b.local = acc.local

LEMMA FreshIdIsFresh ==
  ASSUME NEW w, NEW acc, IsIngesting(w, acc)
  PROVE  /\ FreshId(acc) \in Int /\ FreshId(acc) < 0
         /\ \A e \in Enrollments(acc.t) : e.id # FreshId(acc)
         /\ \A n \in NationalIds : acc.cache.enrollment[n].id # FreshId(acc)
<1> DEFINE m == acc.cache.enrollment
           M == {m[n].id : n \in NationalIds}
           S == {0} \cup Ids(acc.t) \cup M
           f == [n \in NationalIds |-> m[n].id]
<1>1. IsFiniteSet(M) /\ M \in SUBSET Int
  <2>1. f \in Surjection(NationalIds, M)
    BY DEF Surjection
  <2>2. IsFiniteSet(NationalIds)
    BY SchoolRecordsAssumption
  <2>3. \A n \in NationalIds : m[n].id \in Int
    BY DEF IsIngesting, IsMemory, IsRow, NoRow
  <2> HIDE DEF f, m
  <2>4. M \in SUBSET Int
    BY <2>3
  <2> HIDE DEF M
  <2> QED BY <2>1, <2>2, <2>4, FS_Surjection
<1>2. IsFiniteSet(Ids(acc.t)) /\ Ids(acc.t) \in SUBSET Int
  BY IdsAreFinite DEF IsIngesting
<1>3. /\ \A e \in Enrollments(acc.t) : e.id \in S
      /\ \A n \in NationalIds : m[n].id \in S
  BY DEF Ids
<1>4. FreshId(acc) = Min(S) - 1
  BY DEF FreshId
<1> HIDE DEF M, m
<1>5. IsFiniteSet(S) /\ S \in SUBSET Int /\ S # {} /\ 0 \in S
  <2>1. IsFiniteSet({0}) /\ IsFiniteSet({0} \cup Ids(acc.t))
    BY <1>2, FS_Singleton, FS_Union
  <2>2. IsFiniteSet(S)
    BY <1>1, <2>1, FS_Union
  <2>3. 0 \in S /\ \A y \in S : y \in Int
    BY <1>1, <1>2
  <2> HIDE DEF S
  <2>4. S \in SUBSET Int
    BY <2>3
  <2> QED BY <2>2, <2>3, <2>4
<1> HIDE DEF S
<1>6. Min(S) \in S /\ \A y \in S : Min(S) <= y
  BY <1>5, BoundsAreReached
<1> DEFINE k == Min(S)
<1>7. k \in Int /\ FreshId(acc) = k - 1 /\ \A y \in S : y \in Int /\ k <= y
  BY <1>4, <1>5, <1>6
<1> HIDE DEF k
<1>8. FreshId(acc) \in Int /\ FreshId(acc) < 0 /\ \A y \in S : y # FreshId(acc)
  BY <1>5, <1>7
<1> QED BY <1>3, <1>8 DEF m

LEMMA SameIsIngesting ==
  ASSUME NEW w, NEW acc, IsIngesting(w, acc), NEW b,
         DOMAIN b = DOMAIN acc, DOMAIN b.cache = DOMAIN acc.cache, DOMAIN b.t = DOMAIN acc.t,
         SameRows(acc, b)
  PROVE  IsIngesting(w, b)
<1>1. Enrollments(b.t) = Enrollments(acc.t)
  BY DEF SameRows, Enrollments
<1>2. IsMemory(b.t, b.cache.enrollment)
  BY <1>1 DEF SameRows, IsIngesting, IsMemory
<1> QED BY <1>2 DEF SameRows, IsIngesting, IsTables

-----------------------------------------------------------------------------
(* Noting an issue. *)
IsNoted(acc, c) ==
  /\ DOMAIN c = DOMAIN acc /\ c.t = acc.t /\ c.cache = acc.cache
  /\ c.local = acc.local /\ c.failed = acc.failed

LEMMA IssuesAreNoted ==
  ASSUME NEW w, NEW acc, IsIngesting(w, acc), NEW code, NEW isSo
  PROVE  IsNoted(acc, Issue(acc, code)) /\ IsNoted(acc, IssueIf(acc, isSo, code))
<1>1. IsNoted(acc, Issue(acc, code)) /\ IsNoted(acc, acc)
  BY DEF IsNoted, Issue, IsIngesting
<1> QED BY <1>1 DEF IssueIf

LEMMA NotedIsIngesting ==
  ASSUME NEW w, NEW acc, IsIngesting(w, acc), NEW c, IsNoted(acc, c)
  PROVE  IsIngesting(w, c) /\ SameRows(acc, c)
  BY DEF IsNoted, IsIngesting, SameRows

LEMMA BrokenIsIngesting ==
  ASSUME NEW w, NEW acc, IsIngesting(w, acc)
  PROVE  IsIngesting(w, Broken(acc)) /\ SameRows(acc, Broken(acc)) /\ Broken(acc).failed
<1>1. /\ DOMAIN Broken(acc) = DOMAIN acc /\ Broken(acc).t = acc.t /\ Broken(acc).cache = acc.cache
      /\ Broken(acc).local = acc.local /\ Broken(acc).failed
  BY DEF Broken, IsIngesting
<1> QED BY <1>1 DEF IsIngesting, SameRows

-----------------------------------------------------------------------------
(* Each row. *)
LEMMA ClassIngested ==
  ASSUME NEW w, NEW s, NEW acc, IsIngesting(w, acc), NEW x
  PROVE  IsIngesting(w, IngestClass(s, acc, x)) /\ SameRows(acc, IngestClass(s, acc, x))
<1> DEFINE b == IngestClass(s, acc, x)
           noted == IssueIf(acc, x.capacity = NotANumber, "class_capacity")
           Differing(d) == IssueIf(noted, d, "class_conflict")
<1>1. \E d, code, class, kept :
        \/ b = acc \/ b = Issue(acc, code)
        \/ b = [[noted EXCEPT !.t = [@ EXCEPT !.class = class]]
                  EXCEPT !.cache = [@ EXCEPT !.class = kept]]
        \/ b = Broken(Differing(d))
        \/ b = [[Differing(d) EXCEPT !.t = [@ EXCEPT !.class = class]]
                  EXCEPT !.cache = [@ EXCEPT !.class = kept]]
  <2> DEFINE key == <<s, x.code>>
             stored == acc.t.class[key]
             existing == Found(acc.cache.class[x.code], stored)
             capacity == IF x.capacity = NotANumber THEN 30 ELSE IF x.capacity < 1 THEN 1 ELSE x.capacity
             differs == \/ existing.grade # x.grade
                        \/ x.title # Empty /\ existing.title # x.title
                        \/ existing.capacity # capacity
             new == [live |-> TRUE, grade |-> x.grade, capacity |-> capacity,
                     title |-> IF x.title = Empty THEN x.code ELSE x.title]
  <2>1. \/ b = acc \/ b = Issue(acc, "class_reference")
        \/ b = [noted EXCEPT !.t.class[key] = new, !.cache.class[x.code] = new]
        \/ b = Broken(Differing(differs))
        \/ b = [Differing(differs) EXCEPT !.t.class[key].live = TRUE,
                     !.cache.class[x.code] = [existing EXCEPT !.live = TRUE]]
    BY Zenon DEF IngestClass
  <2> HIDE DEF b, noted, Differing, differs, new, existing, key
  <2>2. CASE b = acc \/ b = Issue(acc, "class_reference") \/ b = Broken(Differing(differs))
    BY <2>2, Zenon
  <2>3. CASE b = [noted EXCEPT !.t.class[key] = new, !.cache.class[x.code] = new]
    BY <2>3
  <2>4. CASE b = [Differing(differs) EXCEPT !.t.class[key].live = TRUE,
                     !.cache.class[x.code] = [existing EXCEPT !.live = TRUE]]
    BY <2>4
  <2> QED BY <2>1, <2>2, <2>3, <2>4
<1> HIDE DEF b
<1>2. IsIngesting(w, noted) /\ SameRows(acc, noted)
  BY IssuesAreNoted, NotedIsIngesting
<1> HIDE DEF noted
<1>3. ASSUME NEW d PROVE IsIngesting(w, Differing(d)) /\ SameRows(acc, Differing(d))
  <2>1. IsIngesting(w, Differing(d)) /\ SameRows(noted, Differing(d))
    BY <1>2, IssuesAreNoted, NotedIsIngesting
  <2> HIDE DEF Differing
  <2> QED BY <1>2, <2>1 DEF SameRows
<1> HIDE DEF Differing
<1>4. ASSUME NEW c, IsIngesting(w, c), SameRows(acc, c), NEW class, NEW kept,
             b = [[c EXCEPT !.t = [@ EXCEPT !.class = class]]
                   EXCEPT !.cache = [@ EXCEPT !.class = kept]]
      PROVE  IsIngesting(w, b) /\ SameRows(acc, b)
  <2>1. /\ DOMAIN b = DOMAIN c /\ DOMAIN b.cache = DOMAIN c.cache /\ DOMAIN b.t = DOMAIN c.t
        /\ SameRows(c, b)
    BY <1>4 DEF IsIngesting, IsTables, SameRows
  <2>2. IsIngesting(w, b)
    BY <1>4, <2>1, SameIsIngesting
  <2> QED BY <1>4, <2>1, <2>2 DEF SameRows
<1>5. ASSUME NEW code, b = Issue(acc, code) PROVE IsIngesting(w, b) /\ SameRows(acc, b)
  BY <1>5, IssuesAreNoted, NotedIsIngesting
<1>6. ASSUME NEW d, b = Broken(Differing(d)) PROVE IsIngesting(w, b) /\ SameRows(acc, b)
  <2>1. IsIngesting(w, b) /\ SameRows(Differing(d), b)
    BY <1>3, <1>6, BrokenIsIngesting
  <2> QED BY <1>3, <2>1 DEF SameRows
<1>7. b = acc => IsIngesting(w, b) /\ SameRows(acc, b)
  BY DEF SameRows
<1>8. IsIngesting(w, b) /\ SameRows(acc, b)
  BY <1>1, <1>2, <1>3, <1>4, <1>5, <1>6, <1>7
<1> QED BY <1>8 DEF b

LEMMA StudentIngested ==
  ASSUME NEW w, NEW acc, IsIngesting(w, acc), NEW x
  PROVE  IsIngesting(w, IngestStudent(acc, x)) /\ SameRows(acc, IngestStudent(acc, x))
<1> DEFINE b == IngestStudent(acc, x)
           stored == acc.t.student[x.nid]
           existing == Found(acc.cache.student[x.nid], stored)
           noted == IssueIf(acc, x.person # existing.person, "student_conflict")
           new == [live |-> TRUE, person |-> x.person, active |-> TRUE]
<1>1. \/ \E code : b = Issue(acc, code)
      \/ b = Broken(noted)
      \/ \E c \in {acc, noted} : \E student, kept :
            b = [[c EXCEPT !.t = [@ EXCEPT !.student = student]]
                  EXCEPT !.cache = [@ EXCEPT !.student = kept]]
  <2>1. \/ \E code : b = Issue(acc, code)
        \/ b = [acc EXCEPT !.t.student[x.nid] = new, !.cache.student[x.nid] = new]
        \/ b = Broken(noted)
        \/ b = [noted EXCEPT !.t.student[x.nid] = [stored EXCEPT !.live = TRUE, !.active = TRUE],
                         !.cache.student[x.nid] = [existing EXCEPT !.live = TRUE, !.active = TRUE]]
    BY Zenon DEF IngestStudent
  <2> HIDE DEF b, noted, new, existing, stored
  <2>4. CASE b = [acc EXCEPT !.t.student[x.nid] = new, !.cache.student[x.nid] = new]
    BY <2>4
  <2>5. CASE b = [noted EXCEPT !.t.student[x.nid] = [stored EXCEPT !.live = TRUE, !.active = TRUE],
                         !.cache.student[x.nid] = [existing EXCEPT !.live = TRUE, !.active = TRUE]]
    BY <2>5
  <2> QED BY <2>1, <2>4, <2>5
<1> HIDE DEF b
<1>2. IsIngesting(w, noted) /\ SameRows(acc, noted)
  BY IssuesAreNoted, NotedIsIngesting
<1> HIDE DEF noted
<1>3. SameRows(acc, acc)
  BY DEF SameRows
<1>4. ASSUME NEW c \in {acc, noted}, NEW student, NEW kept,
             b = [[c EXCEPT !.t = [@ EXCEPT !.student = student]]
                   EXCEPT !.cache = [@ EXCEPT !.student = kept]]
      PROVE  IsIngesting(w, b) /\ SameRows(acc, b)
  <2>1. IsIngesting(w, c) /\ SameRows(acc, c)
    BY <1>2, <1>3
  <2>2. /\ DOMAIN b = DOMAIN c /\ DOMAIN b.cache = DOMAIN c.cache /\ DOMAIN b.t = DOMAIN c.t
        /\ SameRows(c, b)
    BY <1>4, <2>1 DEF IsIngesting, IsTables, SameRows
  <2>3. IsIngesting(w, b)
    BY <2>1, <2>2, SameIsIngesting
  <2> QED BY <2>1, <2>2, <2>3 DEF SameRows
<1>5. ASSUME NEW code, b = Issue(acc, code) PROVE IsIngesting(w, b) /\ SameRows(acc, b)
  BY <1>5, IssuesAreNoted, NotedIsIngesting
<1>6. ASSUME b = Broken(noted) PROVE IsIngesting(w, b) /\ SameRows(acc, b)
  <2>1. IsIngesting(w, b) /\ SameRows(noted, b)
    BY <1>2, <1>6, BrokenIsIngesting
  <2> QED BY <1>2, <2>1 DEF SameRows
<1>7. IsIngesting(w, b) /\ SameRows(acc, b)
  BY <1>1, <1>4, <1>5, <1>6
<1> QED BY <1>7 DEF b

(* The rows that an enrollment row keeps, or writes and keeps. *)
IsKept(acc, b, x, e) ==
  /\ b.cache.enrollment = [acc.cache.enrollment EXCEPT ![x.nid] = e]
  /\ b.local = [acc.local EXCEPT ![x.local] = e]
  /\ IsRow(e) /\ IsActive(e) /\ e.student = x.nid

IsUsed(acc, b, x, e) ==
  /\ IsKept(acc, b, x, e)
  /\ b.t = acc.t
  /\ e \in Remembered(acc.t, acc.cache.enrollment, x.nid)

IsRewritten(s, acc, b, x, e) ==
  /\ IsKept(acc, b, x, e)
  /\ b.t = SaveEnrollment(acc.t, e)
  /\ ~StudentIsTaken(acc.t, e)
  /\ \/ /\ Remembered(acc.t, acc.cache.enrollment, x.nid) = {}
        /\ e.id = FreshId(acc)
     \/ \E r \in Remembered(acc.t, acc.cache.enrollment, x.nid) :
          r.id = e.id /\ ~(IsActive(r) /\ r.school # s)

LEMMA EnrollmentIngested ==
  ASSUME NEW w, NEW s, NEW acc, IsIngesting(w, acc), NEW x, x.nid \in NationalIds,
         x.local \in LocalCodes(w)
  PROVE  LET b == IngestEnrollment(s, acc, x)
         IN  /\ DOMAIN b = DOMAIN acc /\ DOMAIN b.cache = DOMAIN acc.cache
             /\ \/ SameRows(acc, b) /\ b.t = acc.t
                \/ \E e : IsUsed(acc, b, x, e)
                \/ \E e : IsRewritten(s, acc, b, x, e)
<1> DEFINE b == IngestEnrollment(s, acc, x)
           n == x.nid
           m == acc.cache.enrollment
           section == acc.cache.class[x.class]
           cached == m[n]
           isKnown == cached # NoRow \/ Of(acc.t, n) # {}
           existing == IF cached # NoRow THEN cached ELSE NewestOf(acc.t, n)
           isElsewhere == isKnown /\ IsActive(existing)
                          /\ <<existing.school, existing.class>> # <<s, x.class>>
           written == [id |-> IF isKnown THEN existing.id ELSE FreshId(acc), student |-> n,
                       school |-> s, class |-> x.class, grade |-> section.grade,
                       number |-> IF x.number = <<>> THEN <<n>> ELSE x.number,
                       status |-> "active"]
           used(a, e) == [a EXCEPT !.cache.enrollment[n] = e, !.local[x.local] = e]
           saved == [acc EXCEPT !.t = SaveEnrollment(@, written)]
<1>1. \/ \E code : b = Issue(acc, code)
      \/ isElsewhere /\ b = used(Issue(acc, "enrollment_conflict"), existing)
      \/ ~isElsewhere /\ ~StudentIsTaken(acc.t, written) /\ b = used(saved, written)
  BY Zenon DEF IngestEnrollment
<1>2. isKnown => existing \in Remembered(acc.t, m, n)
  BY NewestIsOf DEF Remembered, IsIngesting
<1>3. \A r \in Remembered(acc.t, m, n) : IsRow(r) /\ r.student = n
  BY IdsAreTheirOwn DEF Remembered, IsIngesting, IsMemory, Of
<1>4. ~isKnown => Remembered(acc.t, m, n) = {}
  BY DEF Remembered
<1>5. IsRow(written) /\ IsActive(written) /\ written.student = n
  <2>1. isKnown => existing.id \in Int \ {0}
    BY <1>2, <1>3 DEF IsRow
  <2>2. FreshId(acc) \in Int \ {0}
    BY FreshIdIsFresh
  <2> HIDE DEF isKnown, existing
  <2>3. written.id \in Int \ {0}
    BY <2>1, <2>2
  <2> QED BY <2>3 DEF IsRow, RowFields, IsActive
<1>6. ASSUME NEW a, NEW e, IsIngesting(w, a), b = used(a, e)
      PROVE  /\ DOMAIN b = DOMAIN a /\ DOMAIN b.cache = DOMAIN a.cache
             /\ b.cache.enrollment = [a.cache.enrollment EXCEPT ![n] = e]
             /\ b.local = [a.local EXCEPT ![x.local] = e]
             /\ b.t = a.t
  <2> HIDE DEF b
  <2> QED BY <1>6 DEF IsIngesting
<1>7. CASE \E code : b = Issue(acc, code)
  <2>1. PICK code : b = Issue(acc, code)
    BY <1>7
  <2> QED BY <2>1, IssuesAreNoted DEF IsNoted, SameRows
<1>8. CASE isElsewhere /\ b = used(Issue(acc, "enrollment_conflict"), existing)
  <2> DEFINE a == Issue(acc, "enrollment_conflict")
  <2>1. IsIngesting(w, a) /\ IsNoted(acc, a)
    BY IssuesAreNoted, NotedIsIngesting
  <2> HIDE DEF a, b, existing
  <2>2. /\ DOMAIN b = DOMAIN a /\ DOMAIN b.cache = DOMAIN a.cache
        /\ b.cache.enrollment = [a.cache.enrollment EXCEPT ![n] = existing]
        /\ b.local = [a.local EXCEPT ![x.local] = existing]
        /\ b.t = a.t
    BY <1>6, <1>8, <2>1 DEF a
  <2>3. IsUsed(acc, b, x, existing)
    BY <1>2, <1>3, <1>8, <2>1, <2>2 DEF IsUsed, IsKept, IsNoted
  <2> QED BY <2>1, <2>2, <2>3 DEF IsNoted, b
<1>9. CASE ~isElsewhere /\ ~StudentIsTaken(acc.t, written) /\ b = used(saved, written)
  <2> HIDE DEF b, written
  <2>2. /\ DOMAIN b = DOMAIN acc /\ DOMAIN b.cache = DOMAIN acc.cache
        /\ b.cache.enrollment = [acc.cache.enrollment EXCEPT ![n] = written]
        /\ b.local = [acc.local EXCEPT ![x.local] = written]
        /\ b.t = SaveEnrollment(acc.t, written)
    BY <1>9 DEF IsIngesting
  <2>3. \/ Remembered(acc.t, m, n) = {} /\ written.id = FreshId(acc)
        \/ \E r \in Remembered(acc.t, m, n) : r.id = written.id /\ ~(IsActive(r) /\ r.school # s)
    <3>1. written.id = IF isKnown THEN existing.id ELSE FreshId(acc)
      BY DEF written
    <3> HIDE DEF existing, m
    <3>2. CASE ~isKnown
      BY <1>4, <3>1, <3>2
    <3>3. CASE isKnown
      BY <1>2, <1>9, <3>1, <3>3
    <3> QED BY <3>2, <3>3
  <2>4. IsRewritten(s, acc, b, x, written)
    BY <1>5, <1>9, <2>2, <2>3 DEF IsRewritten, IsKept
  <2> QED BY <2>2, <2>4 DEF b
<1> QED BY <1>1, <1>7, <1>8, <1>9

(* No row is removed or given to another student, and new ones are below   *)
(* zero.                                                                   *)
Persists(t, u) ==
  /\ \A e \in Enrollments(t) : \E x \in Enrollments(u) : x.id = e.id /\ x.student = e.student
  /\ \A x \in Enrollments(u) : x.id > 0 => \E e \in Enrollments(t) : e.id = x.id

(* A row that is safe: active in another school, and not shadowed by an    *)
(* older copy of a row of its student.                                     *)
IsSafe(s, m, e) ==
  /\ IsActive(e) /\ e.school # s
  /\ e.student \in NationalIds => m[e.student] \in {NoRow, e}

(* What a file that school s reads has done so far to the tables t and the *)
(* memory m it found.                                                      *)
HasRead(w, s, t, m, acc) ==
  /\ IsIngesting(w, acc)
  /\ OneActive(acc.t)
  /\ Persists(t, acc.t)
  /\ \A e \in Enrollments(t) :
       IsSafe(s, m, e) => e \in Enrollments(acc.t) /\ IsSafe(s, acc.cache.enrollment, e)
  /\ \A e \in Enrollments(t) : e.student \notin Named(w) => Told(acc.t, e.id) = Told(t, e.id)
  /\ \A i \in LocalCodes(w) : acc.local[i] # NoRow =>
       \E n \in NationalIds \cap Named(w) :
         /\ acc.cache.enrollment[n] # NoRow
         /\ acc.local[i].id = acc.cache.enrollment[n].id

LEMMA SameIsRead ==
  ASSUME NEW w, NEW s, NEW t, NEW m, NEW acc, HasRead(w, s, t, m, acc),
         NEW b, IsIngesting(w, b), SameRows(acc, b)
  PROVE  HasRead(w, s, t, m, b)
<1>1. /\ Enrollments(b.t) = Enrollments(acc.t) /\ b.t.evaluation = acc.t.evaluation
      /\ b.cache.enrollment = acc.cache.enrollment /\ b.local = acc.local
  BY DEF SameRows, Enrollments
<1>2. \A id : Told(b.t, id) = Told(acc.t, id)
  BY <1>1 DEF Told
<1> QED BY <1>1, <1>2 DEF HasRead, OneActive, Persists

(* The memory after a row has been kept. *)
LEMMA KeptIsLocal ==
  ASSUME NEW w, NEW acc, IsIngesting(w, acc), NEW b, NEW x, NEW e, IsKept(acc, b, x, e),
         x.nid \in NationalIds \cap Named(w), x.local \in LocalCodes(w),
         \A n \in NationalIds : acc.cache.enrollment[n] # NoRow =>
           b.cache.enrollment[n].id = acc.cache.enrollment[n].id,
         \A i \in LocalCodes(w) : acc.local[i] # NoRow =>
           \E n \in NationalIds \cap Named(w) :
             /\ acc.cache.enrollment[n] # NoRow
             /\ acc.local[i].id = acc.cache.enrollment[n].id
  PROVE  \A i \in LocalCodes(w) : b.local[i] # NoRow =>
           \E n \in NationalIds \cap Named(w) :
             /\ b.cache.enrollment[n] # NoRow
             /\ b.local[i].id = b.cache.enrollment[n].id
<1> DEFINE m == acc.cache.enrollment
           k == b.cache.enrollment
<1>1. DOMAIN m = NationalIds /\ DOMAIN acc.local = LocalCodes(w)
  BY DEF IsIngesting, IsMemory
<1>2. /\ k[x.nid] = e /\ \A n \in NationalIds : n # x.nid => k[n] = m[n]
      /\ b.local[x.local] = e /\ \A i \in LocalCodes(w) : i # x.local => b.local[i] = acc.local[i]
  BY <1>1 DEF IsKept
<1>3. e # NoRow
  BY DEF IsKept, IsRow, NoRow
<1> HIDE DEF m, k
<1>4. ASSUME NEW i \in LocalCodes(w), b.local[i] # NoRow
      PROVE  \E n \in NationalIds \cap Named(w) : k[n] # NoRow /\ b.local[i].id = k[n].id
  <2>1. CASE i = x.local
    BY <1>2, <1>3, <2>1
  <2>2. CASE i # x.local
    <3>1. PICK n \in NationalIds \cap Named(w) : m[n] # NoRow /\ acc.local[i].id = m[n].id
      BY <1>2, <1>4, <2>2 DEF m
    <3>2. k[n].id = m[n].id
      BY <3>1 DEF k, m
    <3>3. k[n] # NoRow
      BY <1>2, <1>3, <3>1
    <3> QED BY <1>2, <2>2, <3>1, <3>2, <3>3
  <2> QED BY <2>1, <2>2
<1> QED BY <1>4 DEF k

LEMMA UsedIsRead ==
  ASSUME NEW w, NEW s, NEW t, NEW m, NEW acc, HasRead(w, s, t, m, acc),
         NEW b, DOMAIN b = DOMAIN acc, DOMAIN b.cache = DOMAIN acc.cache,
         NEW x, x.nid \in NationalIds \cap Named(w), x.local \in LocalCodes(w),
         NEW e, IsUsed(acc, b, x, e)
  PROVE  HasRead(w, s, t, m, b)
<1> DEFINE n == x.nid
           c == acc.cache.enrollment
           k == b.cache.enrollment
<1>1. IsIngesting(w, acc) /\ IsMemory(acc.t, c) /\ IsTables(acc.t)
  BY DEF HasRead, IsIngesting
<1>2. k = [c EXCEPT ![n] = e] /\ IsRow(e) /\ IsActive(e) /\ e.student = n /\ b.t = acc.t
  BY DEF IsUsed, IsKept
<1>3. e \in Remembered(acc.t, c, n)
  BY DEF IsUsed
<1>4. /\ DOMAIN k = NationalIds /\ k[n] = e /\ n \in NationalIds
      /\ \A j \in NationalIds : j # n => k[j] = c[j]
  BY <1>1, <1>2 DEF IsMemory
<1>5. c[n] # NoRow => e = c[n]
  BY <1>3 DEF Remembered
<1>6. c[n] = NoRow => e \in Enrollments(acc.t)
  BY <1>3 DEF Remembered, Of
<1> HIDE DEF n, c, k
<1>7. IsMemory(acc.t, k)
  <2>1. CASE c[n] # NoRow
    <3>1. \A j \in NationalIds : k[j] = c[j]
      BY <1>4, <1>5, <2>1
    <3> QED BY <1>1, <1>4, <3>1 DEF IsMemory
  <2>2. CASE c[n] = NoRow
    <3>1. \A o \in Enrollments(acc.t) : o.id = e.id => o = e
      BY <1>1, <1>6, <2>2, IdsAreTheirOwn
    <3>2. \A j \in NationalIds : c[j] # NoRow /\ c[j].id = e.id => j = n
      BY <1>1, <1>2, <1>6, <2>2 DEF IsMemory
    <3>3. \A j \in NationalIds : k[j] = NoRow \/ (IsRow(k[j]) /\ k[j].student = j)
      BY <1>1, <1>2, <1>4 DEF IsMemory
    <3>4. ASSUME NEW j \in NationalIds, k[j] # NoRow
          PROVE  /\ \A o \in Enrollments(acc.t) : o.id = k[j].id => o.student = j
                 /\ k[j].id > 0 => \E o \in Enrollments(acc.t) : o.id = k[j].id
                 /\ \A i \in NationalIds : k[i] # NoRow /\ k[i].id = k[j].id => i = j
      <4>1. CASE j = n
        BY <1>2, <1>4, <1>6, <2>2, <3>1, <3>2, <4>1
      <4>2. CASE j # n
        <5>1. k[j] = c[j] /\ c[j] # NoRow
          BY <1>4, <3>4, <4>2
        <5>2. ASSUME NEW i \in NationalIds, k[i] # NoRow /\ k[i].id = k[j].id PROVE i = j
          BY <1>1, <1>4, <3>2, <4>2, <5>1, <5>2 DEF IsMemory
        <5> QED BY <1>1, <5>1, <5>2 DEF IsMemory
      <4> QED BY <4>1, <4>2
    <3> QED BY <1>4, <3>3, <3>4 DEF IsMemory
  <2> QED BY <2>1, <2>2
<1>8. DOMAIN b.local = LocalCodes(w)
  BY <1>1 DEF IsIngesting, IsUsed, IsKept
<1>9. IsIngesting(w, b)
  BY <1>1, <1>2, <1>7, <1>8 DEF IsIngesting, k
<1>10. ASSUME NEW o \in Enrollments(t), IsSafe(s, m, o)
       PROVE  o \in Enrollments(b.t) /\ IsSafe(s, k, o)
  <2>1. o \in Enrollments(acc.t) /\ IsSafe(s, c, o)
    BY <1>10 DEF HasRead, c
  <2>2. CASE o.student = n
    <3>1. c[n] \in {NoRow, o} /\ IsActive(o)
      BY <1>4, <2>1, <2>2 DEF IsSafe
    <3>2. o = e
      <4>1. CASE c[n] # NoRow
        BY <1>5, <3>1, <4>1
      <4>2. CASE c[n] = NoRow
        BY <1>2, <1>6, <2>1, <2>2, <3>1, <4>2 DEF HasRead, OneActive
      <4> QED BY <4>1, <4>2
    <3> QED BY <1>2, <1>4, <2>1, <3>2 DEF IsSafe
  <2>3. CASE o.student # n
    BY <1>2, <1>4, <2>1, <2>3 DEF IsSafe
  <2> QED BY <2>2, <2>3
<1>11. \A j \in NationalIds : c[j] # NoRow => k[j].id = c[j].id
  BY <1>4, <1>5
<1>12. \A i \in LocalCodes(w) : b.local[i] # NoRow =>
         \E j \in NationalIds \cap Named(w) : k[j] # NoRow /\ b.local[i].id = k[j].id
  BY <1>1, <1>11, KeptIsLocal DEF HasRead, IsUsed, k, c
<1> QED BY <1>2, <1>9, <1>10, <1>12 DEF HasRead, k

(* An evaluation row may rewrite the enrollment that it keeps in memory. *)
LEMMA RewrittenIsRead ==
  ASSUME NEW w, NEW s, NEW t, NEW m, NEW acc, HasRead(w, s, t, m, acc),
         NEW b, DOMAIN b = DOMAIN acc, DOMAIN b.cache = DOMAIN acc.cache,
         NEW x, x.nid \in NationalIds \cap Named(w), x.local \in LocalCodes(w),
         NEW e, IsRewritten(s, acc, b, x, e)
  PROVE  HasRead(w, s, t, m, b)
<1> DEFINE n == x.nid
           u == acc.t
           c == acc.cache.enrollment
           k == b.cache.enrollment
<1>1. IsIngesting(w, acc) /\ IsMemory(u, c) /\ IsTables(u)
  BY DEF HasRead, IsIngesting
<1>2. /\ k = [c EXCEPT ![n] = e] /\ IsRow(e) /\ IsActive(e) /\ e.student = n
      /\ b.t = SaveEnrollment(u, e) /\ ~StudentIsTaken(u, e)
  BY DEF IsRewritten, IsKept
<1>3. /\ IsTables(b.t) /\ b.t.evaluation = u.evaluation
      /\ Enrollments(b.t) = {o \in Enrollments(u) : o.id # e.id} \cup {e}
  BY <1>1, <1>2, SavedEnrollment
<1>4. /\ DOMAIN k = NationalIds /\ k[n] = e /\ n \in NationalIds
      /\ \A j \in NationalIds : j # n => k[j] = c[j]
  BY <1>1, <1>2 DEF IsMemory
<1>5. \/ /\ Remembered(u, c, n) = {} /\ e.id < 0
         /\ \A o \in Enrollments(u) : o.id # e.id
         /\ \A j \in NationalIds : c[j].id # e.id
      \/ \E r \in Remembered(u, c, n) : r.id = e.id /\ ~(IsActive(r) /\ r.school # s)
  BY <1>1, FreshIdIsFresh DEF IsRewritten
<1>6. \A o, r \in Enrollments(u) : o.id = r.id => o = r
  BY <1>1, IdsAreTheirOwn
<1> HIDE DEF n, u, c, k
<1>7. \/ /\ c[n] = NoRow /\ e.id < 0
         /\ \A o \in Enrollments(u) : o.id # e.id
         /\ \A j \in NationalIds : c[j].id # e.id
      \/ c[n] # NoRow /\ c[n].id = e.id /\ ~(IsActive(c[n]) /\ c[n].school # s)
      \/ /\ c[n] = NoRow
         /\ \E r \in Enrollments(u) :
              r.id = e.id /\ r.student = n /\ ~(IsActive(r) /\ r.school # s)
  BY <1>5 DEF Remembered, Of
<1>8. \A o \in Enrollments(u) : o.id = e.id => o.student = n
  BY <1>1, <1>4, <1>6, <1>7 DEF IsMemory
<1>9. \A j \in NationalIds : c[j] # NoRow /\ c[j].id = e.id => j = n
  BY <1>1, <1>4, <1>7 DEF IsMemory
<1>10. e.id > 0 => \E o \in Enrollments(u) : o.id = e.id
  <2>1. e.id \in Int
    BY <1>2 DEF IsRow
  <2> QED BY <1>1, <1>4, <1>7, <2>1 DEF IsMemory
<1>11. c[n] # NoRow => e.id = c[n].id
  BY <1>7
<1>12. IsMemory(b.t, k)
  <2>1. \A j \in NationalIds : k[j] = NoRow \/ (IsRow(k[j]) /\ k[j].student = j)
    BY <1>1, <1>2, <1>4 DEF IsMemory
  <2>2. ASSUME NEW j \in NationalIds, k[j] # NoRow
        PROVE  /\ \A o \in Enrollments(b.t) : o.id = k[j].id => o.student = j
               /\ k[j].id > 0 => \E o \in Enrollments(b.t) : o.id = k[j].id
               /\ \A i \in NationalIds : k[i] # NoRow /\ k[i].id = k[j].id => i = j
    <3>1. CASE j = n
      <4>1. \A o \in Enrollments(b.t) : o.id = k[j].id => o.student = j
        BY <1>2, <1>3, <1>4, <3>1
      <4>2. \E o \in Enrollments(b.t) : o.id = k[j].id
        BY <1>3, <1>4, <3>1
      <4>3. ASSUME NEW i \in NationalIds, k[i] # NoRow /\ k[i].id = k[j].id PROVE i = j
        BY <1>4, <1>9, <3>1, <4>3
      <4> QED BY <4>1, <4>2, <4>3
    <3>2. CASE j # n
      <4>1. k[j] = c[j] /\ c[j] # NoRow /\ c[j].id # e.id
        BY <1>4, <1>9, <2>2, <3>2
      <4>2. \A o \in Enrollments(b.t) : o.id = k[j].id => o.student = j
        BY <1>1, <1>3, <4>1 DEF IsMemory
      <4>3. k[j].id > 0 => \E o \in Enrollments(b.t) : o.id = k[j].id
        BY <1>1, <1>3, <4>1 DEF IsMemory
      <4>4. ASSUME NEW i \in NationalIds, k[i] # NoRow /\ k[i].id = k[j].id PROVE i = j
        BY <1>1, <1>4, <4>1, <4>4 DEF IsMemory
      <4> QED BY <4>2, <4>3, <4>4
    <3> QED BY <3>1, <3>2
  <2> QED BY <1>4, <2>1, <2>2 DEF IsMemory
<1>13. DOMAIN b.local = LocalCodes(w)
  BY <1>1 DEF IsIngesting, IsRewritten, IsKept
<1>14. IsIngesting(w, b)
  BY <1>1, <1>3, <1>12, <1>13 DEF IsIngesting, k
<1>15. OneActive(b.t)
  <2>1. \A o \in Enrollments(u) : o.id # e.id /\ IsActive(o) => o.student # n
    BY <1>2 DEF StudentIsTaken
  <2>2. OneActive(u)
    BY DEF HasRead, u
  <2> QED BY <1>2, <1>3, <2>1, <2>2 DEF OneActive
<1>16. Persists(t, b.t)
  <2>1. Persists(t, u)
    BY DEF HasRead, u
  <2>2. ASSUME NEW o \in Enrollments(t)
        PROVE  \E r \in Enrollments(b.t) : r.id = o.id /\ r.student = o.student
    <3>1. PICK r \in Enrollments(u) : r.id = o.id /\ r.student = o.student
      BY <2>1 DEF Persists
    <3> QED BY <1>2, <1>3, <1>8, <3>1
  <2>3. ASSUME NEW o \in Enrollments(b.t), o.id > 0 PROVE \E r \in Enrollments(t) : r.id = o.id
    <3>1. PICK r \in Enrollments(u) : r.id = o.id
      BY <1>3, <1>10, <2>3
    <3> QED BY <2>1, <2>3, <3>1 DEF Persists
  <2> QED BY <2>2, <2>3 DEF Persists
<1>17. ASSUME NEW o \in Enrollments(t), IsSafe(s, m, o)
       PROVE  o \in Enrollments(b.t) /\ IsSafe(s, k, o)
  <2>1. o \in Enrollments(u) /\ IsSafe(s, c, o)
    BY <1>17 DEF HasRead, c, u
  <2>2. o.student # n
    <3>1. SUFFICES ASSUME o.student = n PROVE FALSE
      OBVIOUS
    <3>2. c[n] \in {NoRow, o} /\ IsActive(o) /\ o.school # s
      BY <1>4, <2>1, <3>1 DEF IsSafe
    <3>3. o.id = e.id
      BY <1>2, <2>1, <3>1, <3>2 DEF StudentIsTaken
    <3> QED BY <1>6, <1>7, <2>1, <3>2, <3>3
  <2>3. o.id # e.id
    BY <1>8, <2>1, <2>2
  <2>4. o \in Enrollments(b.t)
    BY <1>3, <2>1, <2>3
  <2>5. IsSafe(s, k, o)
    BY <1>4, <2>1, <2>2 DEF IsSafe
  <2> QED BY <2>4, <2>5
<1>18. \A id : Told(b.t, id) = Told(u, id)
  BY <1>3 DEF Told
<1>19. \A j \in NationalIds : c[j] # NoRow => k[j].id = c[j].id
  BY <1>4, <1>11
<1>20. \A i \in LocalCodes(w) : b.local[i] # NoRow =>
         \E j \in NationalIds \cap Named(w) : k[j] # NoRow /\ b.local[i].id = k[j].id
  BY <1>1, <1>19, KeptIsLocal DEF HasRead, IsRewritten, k, c
<1> QED BY <1>14, <1>15, <1>16, <1>17, <1>18, <1>20 DEF HasRead, k, u

(* A row of the sheet of students. *)
LEMMA StudentRowIsRead ==
  ASSUME NEW w, NEW s, NEW t, NEW m, NEW acc, HasRead(w, s, t, m, acc), IsWorkbook(w),
         NEW x \in ToSet(w.students)
  PROVE  HasRead(w, s, t, m, IngestStudentRow(s, acc, x))
<1> DEFINE found == IngestStudent(acc, x)
           b == IngestEnrollment(s, found, x)
<1>1. HasRead(w, s, t, m, found)
  BY StudentIngested, SameIsRead DEF HasRead
<1>2. x.nid \in NationalIds \cup {Unreadable} /\ x.nid \in Named(w) /\ x.local \in LocalCodes(w)
  BY DEF IsWorkbook, Named, LocalCodes
<1> HIDE DEF found
<1>3. ASSUME x.nid # Unreadable PROVE HasRead(w, s, t, m, b)
  <2>1. x.nid \in NationalIds \cap Named(w) /\ IsIngesting(w, found)
    BY <1>1, <1>2, <1>3 DEF HasRead
  <2>2. /\ DOMAIN b = DOMAIN found /\ DOMAIN b.cache = DOMAIN found.cache
        /\ \/ SameRows(found, b) /\ b.t = found.t
           \/ \E e : IsUsed(found, b, x, e)
           \/ \E e : IsRewritten(s, found, b, x, e)
    BY <1>2, <2>1, EnrollmentIngested
  <2> HIDE DEF b
  <2>3. CASE SameRows(found, b) /\ b.t = found.t
    <3>1. IsIngesting(w, b)
      BY <2>1, <2>2, <2>3, SameIsIngesting
    <3> QED BY <1>1, <2>3, <3>1, SameIsRead
  <2>4. CASE \E e : IsUsed(found, b, x, e)
    BY <1>1, <1>2, <2>1, <2>2, <2>4, UsedIsRead
  <2>5. CASE \E e : IsRewritten(s, found, b, x, e)
    BY <1>1, <1>2, <2>1, <2>2, <2>5, RewrittenIsRead
  <2> QED BY <2>2, <2>3, <2>4, <2>5
<1>4. \/ IngestStudentRow(s, acc, x) = acc
      \/ IngestStudentRow(s, acc, x) = found
      \/ x.nid # Unreadable /\ IngestStudentRow(s, acc, x) = b
  BY DEF IngestStudentRow, IsWritten, found
<1> QED BY <1>1, <1>3, <1>4

(* The rows that evaluations are written to belong to students whom the    *)
(* file names.                                                             *)
LEMMA ToldAreNamed ==
  ASSUME NEW w, NEW s, NEW t, NEW m, NEW acc, HasRead(w, s, t, m, acc),
         NEW e, e # NoRow,
         \/ \E n \in NationalIds \cap Named(w) : e = acc.cache.enrollment[n]
         \/ \E i \in LocalCodes(w) : e = acc.local[i]
  PROVE  \A o \in Enrollments(t) : o.id = e.id => o.student \in Named(w)
<1> DEFINE c == acc.cache.enrollment
<1>1. PICK n \in NationalIds \cap Named(w) : c[n] # NoRow /\ e.id = c[n].id
  BY DEF HasRead
<1>2. IsMemory(acc.t, c) /\ Persists(t, acc.t)
  BY DEF HasRead, IsIngesting
<1> HIDE DEF c
<1>3. ASSUME NEW o \in Enrollments(t), o.id = e.id PROVE o.student \in Named(w)
  <2>1. PICK r \in Enrollments(acc.t) : r.id = o.id /\ r.student = o.student
    BY <1>2 DEF Persists
  <2>2. r.student = n
    BY <1>1, <1>2, <1>3, <2>1 DEF IsMemory
  <2> QED BY <1>1, <2>1, <2>2
<1> QED BY <1>3

LEMMA EvaluationRowIsRead ==
  ASSUME NEW w, NEW s, NEW t, NEW m, NEW acc, HasRead(w, s, t, m, acc),
         NEW how, NEW x \in ToSet(w.evaluations)
  PROVE  HasRead(w, s, t, m, IngestEvaluation(how, acc, x))
<1> DEFINE b == IngestEvaluation(how, acc, x)
           cached == IF x.nid \in NationalIds /\ acc.cache.student[x.nid] # Absent
                       THEN acc.cache.enrollment[x.nid] ELSE NoRow
           e == IF cached # NoRow THEN cached
                ELSE IF x.local = 0 THEN NoRow ELSE acc.local[x.local]
           coded == {y \in DOMAIN x.metrics : y \in Metrics(Current)}
           usable == {y \in coded : Normalized(x.metrics[y]) # {}}
           noted == IssueIf(IssueIf(acc, coded # DOMAIN x.metrics, "metric_code"),
                            usable # coded, "metric_value")
           scores == [y \in usable |-> CHOOSE v \in Normalized(x.metrics[y]) : TRUE]
           rows == {v \in acc.t.evaluation :
                      v.enrollment = e.id /\ v.month = x.month /\ v.version = Current}
           live == {v \in rows : v.live}
           first == IF (how.pickDeleted /\ rows # live) \/ live = {} THEN rows \ live ELSE live
           row(had) == [enrollment |-> e.id, month |-> x.month,
                        version |-> Current, live |-> TRUE,
                        note |-> x.note, scores |-> Scored(had, scores)]
           saved(old, had) == [noted EXCEPT !.t = Replace(@, old, row(had))]
           one == CHOOSE y \in first : TRUE
<1>1. \/ b = acc
      \/ \E code : b = Issue(acc, code)
      \/ b = Broken(noted)
      \/ e # NoRow /\ rows = {} /\ b = saved({}, NoScores)
      \/ e # NoRow /\ rows # {} /\ b = saved({one}, one.scores)
  BY Zenon DEF IngestEvaluation
<1>2. rows # {} => one \in rows
  <2>1. rows # {} => first # {} /\ first \subseteq rows
    OBVIOUS
  <2> HIDE DEF rows, first
  <2> QED BY <2>1
<1>3. \A v \in rows : v.enrollment = e.id
  OBVIOUS
<1>4. e # NoRow =>
        \/ \E n \in NationalIds \cap Named(w) : e = acc.cache.enrollment[n]
        \/ \E i \in LocalCodes(w) : e = acc.local[i]
  <2>1. x.nid \in Named(w) /\ x.local \in LocalCodes(w)
    BY DEF Named, LocalCodes
  <2>2. e \in {cached, NoRow, acc.local[x.local]}
    OBVIOUS
  <2>3. cached # NoRow => x.nid \in NationalIds /\ cached = acc.cache.enrollment[x.nid]
    OBVIOUS
  <2> HIDE DEF e, cached
  <2> QED BY <2>1, <2>2, <2>3
<1>5. IsIngesting(w, acc)
  BY DEF HasRead
<1>6. IsIngesting(w, noted) /\ IsNoted(acc, noted)
  <2> DEFINE begun == IssueIf(acc, coded # DOMAIN x.metrics, "metric_code")
  <2>1. IsNoted(acc, begun) /\ IsIngesting(w, begun)
    BY <1>5, IssuesAreNoted, NotedIsIngesting
  <2> HIDE DEF begun, usable, coded
  <2>2. IsNoted(begun, IssueIf(begun, usable # coded, "metric_value"))
    BY <2>1, IssuesAreNoted
  <2>3. IsNoted(begun, noted)
    BY <2>2 DEF begun
  <2> HIDE DEF noted
  <2>4. IsNoted(acc, noted)
    BY <2>1, <2>3 DEF IsNoted
  <2> QED BY <1>5, <2>4, NotedIsIngesting
<1> HIDE DEF b, e, rows, noted, one, scores
<1>7. CASE b = acc \/ \E code : b = Issue(acc, code)
  <2>1. IsIngesting(w, b) /\ SameRows(acc, b)
    BY <1>5, <1>7, IssuesAreNoted, NotedIsIngesting DEF SameRows
  <2> QED BY <2>1, SameIsRead DEF b
<1>8. CASE b = Broken(noted)
  <2>1. IsIngesting(w, b) /\ SameRows(noted, b)
    BY <1>6, <1>8, BrokenIsIngesting
  <2>2. SameRows(acc, b)
    BY <1>6, <2>1 DEF SameRows, IsNoted
  <2> QED BY <2>1, <2>2, SameIsRead DEF b
<1>9. ASSUME NEW old, NEW new, b = [noted EXCEPT !.t = Replace(@, old, new)],
             new.enrollment = e.id, \A v \in old : v.enrollment = e.id, e # NoRow
      PROVE  HasRead(w, s, t, m, b)
  <2>1. /\ DOMAIN b = DOMAIN acc /\ b.cache = acc.cache /\ b.local = acc.local
        /\ b.t = Replace(acc.t, old, new)
    BY <1>6, <1>9 DEF IsNoted, IsIngesting
  <2>2. /\ DOMAIN b.t = DOMAIN acc.t /\ b.t.enrollment = acc.t.enrollment
        /\ b.t.evaluation = (acc.t.evaluation \ old) \cup {new}
    BY <1>5, <2>1 DEF Replace, IsIngesting, IsTables
  <2>3. Enrollments(b.t) = Enrollments(acc.t)
    BY <2>2 DEF Enrollments
  <2>4. IsIngesting(w, b)
    BY <1>5, <2>1, <2>2, <2>3 DEF IsIngesting, IsTables, IsMemory
  <2>5. \A o \in Enrollments(t) : o.id = e.id => o.student \in Named(w)
    BY <1>4, <1>9, ToldAreNamed
  <2>6. ASSUME NEW o \in Enrollments(t), o.student \notin Named(w)
        PROVE  Told(b.t, o.id) = Told(t, o.id)
    <3>1. Told(acc.t, o.id) = Told(t, o.id)
      BY <2>6 DEF HasRead
    <3>2. o.id # e.id
      BY <2>5, <2>6
    <3>3. Told(b.t, o.id) = Told(acc.t, o.id)
      BY <1>9, <2>2, <3>2 DEF Told
    <3> QED BY <3>1, <3>3
  <2> QED BY <2>1, <2>3, <2>4, <2>6 DEF HasRead, OneActive, Persists
<1>10. CASE e # NoRow /\ rows = {} /\ b = saved({}, NoScores)
  <2> DEFINE new == row(NoScores)
  <2>1. new.enrollment = e.id
    OBVIOUS
  <2> HIDE DEF new
  <2>2. b = [noted EXCEPT !.t = Replace(@, {}, new)]
    BY <1>10 DEF new
  <2> QED BY <1>9, <1>10, <2>1, <2>2 DEF b
<1>11. CASE e # NoRow /\ rows # {} /\ b = saved({one}, one.scores)
  <2> DEFINE new == row(one.scores)
             old == {one}
  <2>1. new.enrollment = e.id /\ \A v \in old : v.enrollment = e.id
    BY <1>2, <1>3, <1>11
  <2> HIDE DEF new, old
  <2>2. b = [noted EXCEPT !.t = Replace(@, old, new)]
    BY <1>11 DEF new, old
  <2> QED BY <1>9, <1>11, <2>1, <2>2 DEF b
<1> QED BY <1>1, <1>7, <1>8, <1>10, <1>11

-----------------------------------------------------------------------------
(* The sheets, row by row. *)
LEMMA ClassRowsAreRead ==
  ASSUME NEW w, NEW s, NEW t, NEW m, NEW base, HasRead(w, s, t, m, base), IsWorkbook(w)
  PROVE  HasRead(w, s, t, m, IngestClasses(s, base, w.classes))
<1> DEFINE rows == w.classes
           n == Len(rows)
<1>1. n \in Nat /\ DOMAIN rows = 1 .. n
  BY SheetHasRows DEF IsWorkbook
<1>2. PICK f : Trace(f, n, "class_row", s, base, rows) /\ f[n] = IngestClasses(s, base, rows)
  BY <1>1, ClassRowsAreTraced
<1> HIDE DEF n
<1> DEFINE Reached == {i \in 0 .. n : HasRead(w, s, t, m, f[i])}
<1>3. 0 \in Reached
  BY <1>1, <1>2 DEF Trace
<1>4. ASSUME NEW i \in 1 .. n, i - 1 \in Reached PROVE i \in Reached
  <2>1. f[i] = IngestClass(s, f[i - 1], rows[i])
    BY <1>2 DEF Trace, Step
  <2>2. HasRead(w, s, t, m, f[i - 1]) /\ IsIngesting(w, f[i - 1])
    BY <1>4 DEF HasRead
  <2>3. IsIngesting(w, f[i]) /\ SameRows(f[i - 1], f[i])
    BY <2>1, <2>2, ClassIngested
  <2>4. HasRead(w, s, t, m, f[i])
    BY <2>2, <2>3, SameIsRead
  <2> QED BY <2>4
<1> HIDE DEF Reached
<1>5. n \in Reached
  BY <1>1, <1>3, <1>4, LastIsReached
<1> QED BY <1>2, <1>5 DEF Reached

LEMMA StudentRowsAreRead ==
  ASSUME NEW w, NEW s, NEW t, NEW m, NEW base, HasRead(w, s, t, m, base), IsWorkbook(w)
  PROVE  HasRead(w, s, t, m, IngestStudents(s, base, w.students))
<1> DEFINE rows == w.students
           n == Len(rows)
<1>1. n \in Nat /\ DOMAIN rows = 1 .. n /\ \A i \in 1 .. n : rows[i] \in ToSet(rows)
  BY SheetHasRows DEF IsWorkbook
<1>2. PICK f : Trace(f, n, "student_row", s, base, rows) /\ f[n] = IngestStudents(s, base, rows)
  BY <1>1, StudentRowsAreTraced
<1> HIDE DEF n
<1> DEFINE Reached == {i \in 0 .. n : HasRead(w, s, t, m, f[i])}
<1>3. 0 \in Reached
  BY <1>1, <1>2 DEF Trace
<1>4. ASSUME NEW i \in 1 .. n, i - 1 \in Reached PROVE i \in Reached
  <2>1. f[i] = IngestStudentRow(s, f[i - 1], rows[i])
    BY <1>2 DEF Trace, Step
  <2>2. HasRead(w, s, t, m, f[i])
    BY <1>1, <1>4, <2>1, StudentRowIsRead
  <2> QED BY <2>2
<1> HIDE DEF Reached
<1>5. n \in Reached
  BY <1>1, <1>3, <1>4, LastIsReached
<1> QED BY <1>2, <1>5 DEF Reached

LEMMA EvaluationRowsAreRead ==
  ASSUME NEW w, NEW s, NEW t, NEW m, NEW base, HasRead(w, s, t, m, base), IsWorkbook(w),
         NEW how
  PROVE  HasRead(w, s, t, m, IngestEvaluations(how, base, w.evaluations))
<1> DEFINE rows == w.evaluations
           n == Len(rows)
<1>1. n \in Nat /\ DOMAIN rows = 1 .. n /\ \A i \in 1 .. n : rows[i] \in ToSet(rows)
  BY SheetHasRows DEF IsWorkbook
<1>2. PICK f : /\ Trace(f, n, "evaluation_row", how, base, rows)
               /\ f[n] = IngestEvaluations(how, base, rows)
  BY <1>1, EvaluationRowsAreTraced
<1> HIDE DEF n
<1> DEFINE Reached == {i \in 0 .. n : HasRead(w, s, t, m, f[i])}
<1>3. 0 \in Reached
  BY <1>1, <1>2 DEF Trace
<1>4. ASSUME NEW i \in 1 .. n, i - 1 \in Reached PROVE i \in Reached
  <2>1. f[i] = IngestEvaluation(how, f[i - 1], rows[i])
    BY <1>2 DEF Trace, Step
  <2>2. HasRead(w, s, t, m, f[i])
    BY <1>1, <1>4, <2>1, EvaluationRowIsRead
  <2> QED BY <2>2
<1> HIDE DEF Reached
<1>5. n \in Reached
  BY <1>1, <1>3, <1>4, LastIsReached
<1> QED BY <1>2, <1>5 DEF Reached

(* A file. *)
LEMMA FileIsRead ==
  ASSUME NEW t, IsTables(t), OneActive(t), NEW cache,
         DOMAIN cache = {"class", "student", "enrollment"}, IsMemory(t, cache.enrollment),
         NEW s, NEW w, IsWorkbook(w), NEW how
  PROVE  HasRead(w, s, t, cache.enrollment, Ingested(t, cache, s, w, how))
<1> DEFINE begin == [t |-> t, cache |-> cache, failed |-> FALSE, issues |-> {},
                     local |-> [i \in LocalCodes(w) |-> NoRow]]
           m == cache.enrollment
           classes == IngestClasses(s, begin, w.classes)
           students == IngestStudents(s, classes, w.students)
<1>1. HasRead(w, s, t, m, begin)
  <2>1. IsIngesting(w, begin)
    BY DEF IsIngesting
  <2>2. Persists(t, t)
    BY DEF Persists
  <2> QED BY <2>1, <2>2 DEF HasRead
<1>2. HasRead(w, s, t, m, classes)
  BY <1>1, ClassRowsAreRead
<1> HIDE DEF classes
<1>3. HasRead(w, s, t, m, students)
  BY <1>2, StudentRowsAreRead
<1>4. Ingested(t, cache, s, w, how) = IngestEvaluations(how, students, w.evaluations)
  BY DEF Ingested, classes
<1> HIDE DEF students
<1> QED BY <1>3, <1>4, EvaluationRowsAreRead

-----------------------------------------------------------------------------
(***************************************************************************)
(* The steps of the specification.                                         *)
(***************************************************************************)

(* The memory of a run that is under way stands whatever the others do.    *)
LEMMA MemoryStands ==
  ASSUME NEW t, NEW u, NEW m, Grown(t, u), IsMemory(t, m), IsTables(t), IsTables(u)
  PROVE  IsMemory(u, m)
<1>1. ASSUME NEW n \in NationalIds, m[n] # NoRow
      PROVE  /\ \A e \in Enrollments(u) : e.id = m[n].id => e.student = n
             /\ m[n].id > 0 => \E e \in Enrollments(u) : e.id = m[n].id
             /\ \A k \in NationalIds : m[k] # NoRow /\ m[k].id = m[n].id => k = n
  BY <1>1 DEF Grown, IsMemory
<1> QED BY <1>1 DEF IsMemory

(* It stands after a file that was rolled back, too. *)
LEMMA MemoryStandsBack ==
  ASSUME NEW t, NEW u, NEW m, Persists(t, u), IsMemory(u, m)
  PROVE  IsMemory(t, m)
<1>1. ASSUME NEW n \in NationalIds, m[n] # NoRow
      PROVE  /\ \A e \in Enrollments(t) : e.id = m[n].id => e.student = n
             /\ m[n].id > 0 => \E e \in Enrollments(t) : e.id = m[n].id
             /\ \A k \in NationalIds : m[k] # NoRow /\ m[k].id = m[n].id => k = n
  BY <1>1 DEF Persists, IsMemory
<1> QED BY <1>1 DEF IsMemory

-----------------------------------------------------------------------------
(* The inductive invariant: rows with ids of their own, at most one active *)
(* for each student, and a memory of the ingest that fits them.            *)
IsRun(r) ==
  /\ DOMAIN r = {"school", "hasActor", "files", "cache", "last"}
  /\ r.files \in Seq(DOMAIN Workbooks)
  /\ DOMAIN r.cache = {"class", "student", "enrollment"}

IsJob(c) ==
  /\ DOMAIN c = {"file", "school", "overtaken", "unchanged"}
  /\ c.file \in Uploads /\ c.school \in Schools

RowsInv ==
  /\ IsTables(db) /\ OneActive(db)
  /\ \A c \in compared : IsJob(c)
  /\ IsRun(run) /\ IsMemory(db, run.cache.enrollment)

LEMMA RowsInitially ==
  ASSUME DataInit PROVE RowsInv
<1>1. /\ Enrollments(EmptyTables) = {} /\ IsTables(EmptyTables)
  <2>1. EmptyTables.enrollment = <<>> /\ DOMAIN EmptyTables = {"class", "student", "enrollment", "evaluation"}
    BY DEF EmptyTables
  <2> QED BY <2>1, NothingIsASheet DEF Enrollments, IsTables, IsTable
<1>2. OneActive(db) /\ IsTables(db)
  BY <1>1 DEF DataInit, OneActive
<1>3. IsRun(NoIngest) /\ IsMemory(db, NoIngest.cache.enrollment)
  BY DEF IsRun, NoIngest, EmptyCache, IsMemory
<1> QED BY <1>2, <1>3 DEF DataInit, RowsInv

LEMMA IngestBegins ==
  ASSUME NEW t PROVE IsRun(NoIngest) /\ IsMemory(t, NoIngest.cache.enrollment)
  BY DEF IsRun, NoIngest, EmptyCache, IsMemory

(* Imports. *)
LEMMA JobsAreOvertaken ==
  ASSUME NEW jobs, \A c \in jobs : IsJob(c)
  PROVE  \A c \in Overtake(jobs) : IsJob(c)
  BY DEF Overtake, IsJob

LEMMA ImportSteps ==
  ASSUME RowsInv, Import
  PROVE  /\ IsTables(db') /\ OneActive(db') /\ Grown(db, db')
         /\ \A c \in compared' : IsJob(c)
         /\ \/ db' = db /\ report'.outcome # "completed"
            \/ \E f \in Uploads, s \in Schools :
                 /\ report'.file = f /\ report'.school = s
                 /\ IsWellApplied(db, ValidatedFile[f], s, db')
<1>1. CASE db' = db /\ report'.outcome # "completed" /\ \A c \in compared' : IsJob(c)
  BY <1>1, SameIsGrown DEF RowsInv
<1>2. CASE Refuse
  BY <1>1, <1>2 DEF Refuse, Reports, RowsInv
<1>3. CASE Compare
  <2>1. PICK f \in Uploads, s \in Schools :
          compared' = compared \cup
            {[file |-> f, school |-> s, overtaken |-> {},
              unchanged |-> Unchanged(db, ValidatedFile[f], s)]}
    BY <1>3 DEF Compare
  <2>2. \A c \in compared' : IsJob(c)
    BY <2>1 DEF RowsInv, IsJob
  <2> QED BY <1>1, <1>3, <2>2 DEF Compare, NoReport
<1>4. CASE Die
  BY <1>1, <1>4 DEF Die, NoReport, RowsInv
<1>5. CASE Apply
  <2>1. PICK c \in compared :
          LET result == Applied(db, ValidatedFile[c.file], c.school)
          IN  /\ \/ /\ result.refused # "no"
                   /\ Reports(c.file, c.school, result.refused, NoSummary)
                   /\ UNCHANGED db
                \/ /\ result.refused = "no"
                   /\ db' = result.t
                   /\ Reports(c.file, c.school, "completed", Summary(c.unchanged, result.counts))
              /\ compared' = Overtake(compared \ {c})
    BY <1>5, Zenon DEF Apply
  <2> DEFINE f == c.file
             s == c.school
             p == ValidatedFile[f]
             result == Applied(db, p, s)
  <2>2. f \in Uploads /\ s \in Schools
    BY DEF RowsInv, IsJob
  <2>3. \A k \in compared' : IsJob(k)
    BY <2>1, JobsAreOvertaken DEF RowsInv
  <2>4. IsValidated(p)
    BY <2>2, ValidatedIsValidated, SchoolRecordsAssumption, UploadsAssumption DEF ValidatedFile
  <2> HIDE DEF p
  <2>5. /\ result.refused \in Refusals
        /\ result.refused = "no" => IsWellApplied(db, p, s, result.t)
    BY <2>4, WorkbookApplied DEF RowsInv
  <2>6. \/ result.refused # "no" /\ report'.outcome = result.refused /\ db' = db
        \/ /\ result.refused = "no" /\ db' = result.t
           /\ report'.file = f /\ report'.school = s
    BY <2>1 DEF Reports, p
  <2> HIDE DEF result
  <2>7. CASE result.refused # "no" /\ report'.outcome = result.refused /\ db' = db
    BY <1>1, <2>3, <2>5, <2>7 DEF Refusals
  <2>8. CASE /\ result.refused = "no" /\ db' = result.t
             /\ report'.file = f /\ report'.school = s
    <3>1. IsWellApplied(db, p, s, db')
      BY <2>5, <2>8
    <3>2. IsTables(db') /\ OneActive(db') /\ Grown(db, db')
      BY <3>1 DEF RowsInv, IsWellApplied
    <3> QED BY <2>2, <2>3, <2>8, <3>1, <3>2 DEF p
  <2> QED BY <2>6, <2>7, <2>8
<1> QED BY <1>2, <1>3, <1>4, <1>5 DEF Import

(* Requests. *)
LEMMA RequestSteps ==
  ASSUME RowsInv, SchoolRequests
  PROVE  IsTables(db') /\ OneActive(db') /\ Grown(db, db')
<1>1. IsTables(db) /\ OneActive(db)
  BY DEF RowsInv
<1>2. ASSUME NEW t, IsTables(t), OneActive(t), Grown(db, t),
             DOMAIN db' = DOMAIN t, db'.enrollment = t.enrollment
      PROVE  IsTables(db') /\ OneActive(db') /\ Grown(db, db')
  <2>1. Enrollments(db') = Enrollments(t)
    BY <1>2 DEF Enrollments
  <2> QED BY <1>2, <2>1 DEF IsTables, OneActive, Grown
<1>3. Grown(db, db)
  BY SameIsGrown
<1>4. ASSUME NEW e \in Enrollments(db)
      PROVE  /\ IsTables(Closed(db, e)) /\ OneActive(Closed(db, e)) /\ Grown(db, Closed(db, e))
             /\ Enrollments(Closed(db, e)) =
                  {x \in Enrollments(db) : x.id # e.id} \cup {[e EXCEPT !.status = "closed"]}
  <2> DEFINE c == [e EXCEPT !.status = "closed"]
  <2>1. IsRow(e)
    BY <1>1, IdsAreTheirOwn
  <2>2. IsRow(c) /\ ~IsActive(c) /\ c.id = e.id /\ c.student = e.student
    BY <2>1 DEF IsRow, RowFields, IsActive
  <2> HIDE DEF c
  <2>3. /\ IsTables(SaveEnrollment(db, c)) /\ OneActive(SaveEnrollment(db, c))
        /\ Grown(db, SaveEnrollment(db, c))
        /\ Enrollments(SaveEnrollment(db, c)) = {x \in Enrollments(db) : x.id # e.id} \cup {c}
    BY <1>1, <2>2, SavedEnrollment, OneStaysActive, RowWritten
  <2> QED BY <2>3 DEF Closed, c
<1>5. CASE Leave
  <2>1. PICK e \in Enrollments(db) : db' = [Closed(db, e) EXCEPT !.student[e.student].active = FALSE]
    BY <1>5 DEF Leave, Request
  <2> DEFINE t == Closed(db, e)
  <2>2. IsTables(t) /\ OneActive(t) /\ Grown(db, t)
    BY <1>4
  <2> HIDE DEF t
  <2>3. \E students : db' = [t EXCEPT !.student = students]
    BY <2>1 DEF t
  <2>4. DOMAIN db' = DOMAIN t /\ db'.enrollment = t.enrollment
    BY <2>2, <2>3 DEF IsTables
  <2> QED BY <1>2, <2>2, <2>4
<1>6. CASE MoveTo
  <2>1. PICK e \in Enrollments(db), s \in Schools, c \in Codes :
          LET class == db.class[<<s, c>>]
              opened == [e EXCEPT !.id = NewId(db), !.school = s, !.class = c, !.grade = class.grade]
          IN  IsActive(e) /\ db' = SaveEnrollment(Closed(db, e), opened)
    BY <1>6 DEF MoveTo, Request
  <2> DEFINE t == Closed(db, e)
             o == [e EXCEPT !.id = NewId(db), !.school = s, !.class = c,
                            !.grade = db.class[<<s, c>>].grade]
             closed == [e EXCEPT !.status = "closed"]
  <2>2. /\ IsTables(t) /\ OneActive(t) /\ Grown(db, t)
        /\ Enrollments(t) = {x \in Enrollments(db) : x.id # e.id} \cup {closed}
    BY <1>4
  <2>3. IsRow(e) /\ IsActive(e)
    BY <1>1, <2>1, IdsAreTheirOwn
  <2>4. NewId(db) \in Int \ {0}
    BY <1>1, NewIdIsNew
  <2>5. IsRow(o) /\ o.id = NewId(db) /\ o.student = e.student
    BY <2>3, <2>4 DEF IsRow, RowFields
  <2>6. ~IsActive(closed) /\ closed.id = e.id
    BY <2>3 DEF IsRow, RowFields, IsActive
  <2>7. db' = SaveEnrollment(t, o)
    BY <2>1
  <2> HIDE DEF t, o, closed
  <2>8. NewId(t) = NewId(db)
    <3>1. Ids(t) = Ids(db)
      BY <2>2, <2>6 DEF Ids
    <3> QED BY <3>1 DEF NewId
  <2>9. Grown(t, db')
    BY <2>2, <2>5, <2>7, <2>8, RowWritten
  <2>10. ~StudentIsTaken(t, o)
    BY <1>1, <2>2, <2>3, <2>5, <2>6 DEF StudentIsTaken, OneActive
  <2>11. IsTables(db') /\ OneActive(db')
    BY <2>2, <2>5, <2>7, <2>10, SavedEnrollment, OneStaysActive
  <2> QED BY <2>2, <2>9, <2>11, GrownTwice
<1>7. CASE RemoveClass
  <2>1. \E classes : db' = [db EXCEPT !.class = classes]
    BY <1>7 DEF RemoveClass, Request
  <2>2. DOMAIN db' = DOMAIN db /\ db'.enrollment = db.enrollment
    BY <1>1, <2>1 DEF IsTables
  <2> QED BY <1>1, <1>2, <1>3, <2>2
<1>8. CASE EnterByHand \/ DeleteEvaluation
  <2>1. \E old, new : db' = Replace(db, old, new)
    <3>1. CASE DeleteEvaluation
      BY <3>1 DEF DeleteEvaluation, Request
    <3>2. CASE EnterByHand
      BY <1>8, <3>2 DEF EnterByHand, Request
    <3> QED BY <1>8, <3>1, <3>2
  <2>2. DOMAIN db' = DOMAIN db /\ db'.enrollment = db.enrollment
    BY <1>1, <2>1 DEF IsTables, Replace
  <2> QED BY <1>1, <1>2, <1>3, <2>2
<1>9. CASE ChangeFirstClass
  <2>1. PICK e \in Enrollments(db), c \in Codes :
          IsActive(e) /\ db' = SaveEnrollment(db, [e EXCEPT !.class = c])
    BY <1>9 DEF ChangeFirstClass, Request
  <2> DEFINE o == [e EXCEPT !.class = c]
  <2>2. IsRow(e)
    BY <1>1, <2>1, IdsAreTheirOwn
  <2>3. IsRow(o) /\ o.id = e.id /\ o.student = e.student
    BY <2>2 DEF IsRow, RowFields
  <2>4. db' = SaveEnrollment(db, o)
    BY <2>1
  <2> HIDE DEF o
  <2>5. ~StudentIsTaken(db, o)
    BY <1>1, <2>1, <2>3 DEF StudentIsTaken, OneActive
  <2>6. IsTables(db') /\ OneActive(db') /\ Grown(db, db')
    BY <1>1, <2>1, <2>3, <2>4, <2>5, SavedEnrollment, OneStaysActive, RowWritten
  <2> QED BY <2>6
<1> QED BY <1>5, <1>6, <1>7, <1>8, <1>9 DEF SchoolRequests

(* A file of the ingest. *)
LEMMA FileSteps ==
  ASSUME RowsInv, IngestFile, \A c \in compared' : IsJob(c)
  PROVE  /\ RowsInv'
         /\ \/ db' = db
            \/ \E w, acc :
                 /\ w = Workbooks[run'.last.file] /\ db' = acc.t
                 /\ HasRead(w, run.school, db, run.cache.enrollment, acc)
<1> DEFINE f == Head(run.files)
           w == Workbooks[f]
<1>1. PICK pickDeleted \in BOOLEAN :
        LET how == [pickDeleted |-> pickDeleted, hasActor |-> run.hasActor]
            result == Ingested(db, run.cache, run.school, w, how)
            end == IF ~Commits(result) THEN "failed"
                   ELSE IF result.issues = {} THEN "completed" ELSE "partial"
        IN  /\ db' = IF end = "failed" THEN db ELSE result.t
            /\ run' = [run EXCEPT
                 !.files = Tail(@), !.cache = result.cache,
                 !.last = [file |-> f, status |-> end]]
  BY DEF IngestFile
<1> DEFINE how == [pickDeleted |-> pickDeleted, hasActor |-> run.hasActor]
           result == Ingested(db, run.cache, run.school, w, how)
           m == run.cache.enrollment
<1>2. f \in DOMAIN Workbooks /\ Tail(run.files) \in Seq(DOMAIN Workbooks)
  BY DEF IngestFile, RowsInv, IsRun
<1>3. IsWorkbook(w)
  BY <1>2, SchoolRecordsAssumption
<1> HIDE DEF f, w
<1>4. HasRead(w, run.school, db, m, result)
  BY <1>3, FileIsRead DEF RowsInv, IsRun
<1>5. PICK end : /\ db' = db \/ db' = result.t
                 /\ run' = [run EXCEPT !.files = Tail(@), !.cache = result.cache,
                                       !.last = [file |-> f, status |-> end]]
  BY <1>1
<1> HIDE DEF result
<1>6. /\ DOMAIN run' = DOMAIN run /\ run'.files = Tail(run.files) /\ run'.cache = result.cache
      /\ run'.last.file = f
  BY <1>5 DEF RowsInv, IsRun
<1>7. IsRun(run')
  BY <1>2, <1>4, <1>6 DEF RowsInv, IsRun, HasRead, IsIngesting
<1>8. CASE db' = db
  <2>1. IsMemory(db, result.cache.enrollment)
    BY <1>4, MemoryStandsBack DEF HasRead, IsIngesting
  <2>2. IsTables(db') /\ OneActive(db') /\ IsMemory(db', run'.cache.enrollment)
    BY <1>6, <1>8, <2>1 DEF RowsInv
  <2> QED BY <1>7, <1>8, <2>2 DEF RowsInv
<1>9. CASE db' = result.t
  <2>1. IsTables(db') /\ OneActive(db') /\ IsMemory(db', run'.cache.enrollment)
    BY <1>4, <1>6, <1>9 DEF HasRead, IsIngesting
  <2>2. w = Workbooks[run'.last.file]
    BY <1>6 DEF w
  <2> QED BY <1>4, <1>7, <1>9, <2>1, <2>2 DEF RowsInv
<1> QED BY <1>5, <1>8, <1>9

LEMMA RowsStay ==
  ASSUME RowsInv, [DataNext]_dataVars
  PROVE  RowsInv'
<1>0. ASSUME OtherThanImports PROVE \A c \in compared' : IsJob(c)
  BY <1>0, JobsAreOvertaken DEF OtherThanImports, RowsInv
<1>1. CASE Import /\ UNCHANGED run
  <2>1. /\ IsTables(db') /\ OneActive(db') /\ Grown(db, db')
        /\ \A c \in compared' : IsJob(c)
    BY <1>1, ImportSteps
  <2> QED BY <1>1, <2>1, MemoryStands DEF RowsInv
<1>2. CASE StartIngest /\ OtherThanImports
  <2>1. \E s \in Schools, files \in Directories :
          \E hasActor \in BOOLEAN :
            run' = [NoIngest EXCEPT !.school = s, !.hasActor = hasActor, !.files = files]
    BY <1>2 DEF StartIngest
  <2>2. IsRun(NoIngest) /\ IsMemory(db, NoIngest.cache.enrollment)
    BY IngestBegins
  <2>3. IsRun(run') /\ run'.cache = NoIngest.cache
    BY <2>1, <2>2, DirectoriesAssumption DEF IsRun
  <2> QED BY <1>2, <1>0, <2>2, <2>3 DEF RowsInv, StartIngest
<1>3. CASE IngestFile /\ OtherThanImports
  BY <1>3, <1>0, FileSteps
<1>4. CASE EndRun /\ OtherThanImports
  BY <1>4, <1>0, IngestBegins DEF EndRun, RowsInv
<1>5. CASE SchoolRequests /\ UNCHANGED run /\ OtherThanImports
  <2>1. IsTables(db') /\ OneActive(db') /\ Grown(db, db')
    BY <1>5, RequestSteps
  <2> QED BY <1>5, <1>0, <2>1, MemoryStands DEF RowsInv
<1>6. CASE UNCHANGED dataVars
  BY <1>6 DEF dataVars, RowsInv
<1> QED BY <1>1, <1>2, <1>3, <1>4, <1>5, <1>6 DEF DataNext, OtherThanImports

(* Whatever imports, ingests and requests follow each other: enrollments   *)
(* keep ids of their own, a student has at most one active enrollment, and *)
(* what an ingest keeps in memory are rows of the students it keeps them   *)
(* for.                                                                    *)
THEOREM RowsAreInvariant == DataSpec => []RowsInv
<1>1. DataInit => RowsInv
  BY RowsInitially
<1>2. RowsInv /\ [DataNext]_dataVars => RowsInv'
  BY RowsStay
<1> QED BY <1>1, <1>2, PTL DEF DataSpec

(* Only an import leaves a report. *)
LEMMA OnlyImportsReport ==
  ASSUME [DataNext]_dataVars, ~UNCHANGED dataVars, IsImport
  PROVE  Import /\ run' = run
  BY DEF DataNext, OtherThanImports, IsImport, NoReport

(* apply_comprehensive_import: when an import completes, each line of the  *)
(* sheet of students that was accepted has its student enrolled in this    *)
(* school's class by the one active enrollment he has, and no class has    *)
(* more students than seats.                                               *)
THEOREM EveryListedIsEnrolled == DataSpec => ListedAreEnrolled
<1> DEFINE Good == IsImport /\ IsCompleted =>
             LET p == ValidatedFile[report'.file]
             IN  /\ \A x \in ToSet(p.students) :
                      \E e \in Of(db', x.nid) :
                        /\ {o \in Of(db', x.nid) : IsActive(o)} = {e}
                        /\ <<e.school, e.class>> = <<report'.school, x.class>>
                 /\ \A x \in ToSet(p.classes) :
                      Cardinality(ActiveIn(db', report'.school, x.code)) <= x.capacity
<1>1. ASSUME RowsInv, [DataNext]_dataVars, ~UNCHANGED dataVars PROVE Good
  <2>1. SUFFICES ASSUME IsImport, IsCompleted PROVE Good
    OBVIOUS
  <2>2. Import
    BY <1>1, <2>1, OnlyImportsReport
  <2>3. PICK f \in Uploads, s \in Schools :
          /\ report'.file = f /\ report'.school = s
          /\ IsWellApplied(db, ValidatedFile[f], s, db')
    BY <1>1, <2>1, <2>2, ImportSteps DEF IsCompleted
  <2> DEFINE p == ValidatedFile[f]
  <2>4. ASSUME NEW x \in ToSet(p.students)
        PROVE  \E e \in Of(db', x.nid) :
                 /\ {o \in Of(db', x.nid) : IsActive(o)} = {e}
                 /\ <<e.school, e.class>> = <<s, x.class>>
    <3>1. IsListed(db', x, s)
      BY <2>3, <2>4 DEF IsWellApplied
    <3> QED BY <3>1 DEF IsListed, Of
  <2>5. \A x \in ToSet(p.classes) : Cardinality(ActiveIn(db', s, x.code)) <= x.capacity
    BY <2>3 DEF IsWellApplied
  <2> HIDE DEF p
  <2> QED BY <2>3, <2>4, <2>5 DEF p
<1>2. RowsInv /\ [DataNext]_dataVars => [Good]_dataVars
  BY <1>1
<1>3. DataSpec => [][Good]_dataVars
  BY <1>2, RowsAreInvariant, PTL DEF DataSpec
<1> QED BY <1>3 DEF ListedAreEnrolled

(* Neither an import into one school nor the ingest of its directory       *)
(* touches an active enrollment of another school or its evaluations.      *)
THEOREM NothingElsewhereIsTouched == DataSpec => ElsewhereIsUntouched
<1>1. ASSUME RowsInv, [DataNext]_dataVars, ~UNCHANGED dataVars PROVE StaysElsewhere
  <2>1. CASE db' = db
    BY <2>1 DEF StaysElsewhere
  <2>2. CASE Import /\ run' = run /\ db' # db
    <3>1. ~IsIngested
      <4>1. Len(run.files) \in Nat
        BY <1>1 DEF RowsInv, IsRun
      <4> QED BY <2>2, <4>1 DEF IsIngested
    <3>2. PICK f \in Uploads, s \in Schools :
            /\ report'.school = s /\ IsWellApplied(db, ValidatedFile[f], s, db')
      BY <1>1, <2>2, ImportSteps
    <3>3. ElsewhereStays(db, db', s)
      BY <3>2 DEF IsWellApplied
    <3> QED BY <3>1, <3>2, <3>3 DEF ElsewhereStays, Told, StaysElsewhere
  <2>3. CASE IngestFile /\ OtherThanImports /\ db' # db
    <3>1. PICK w, acc :
            /\ w = Workbooks[run'.last.file] /\ db' = acc.t
            /\ HasRead(w, run.school, db, run.cache.enrollment, acc)
      <4>1. \A c \in compared' : IsJob(c)
        BY <1>1, <2>3, JobsAreOvertaken DEF OtherThanImports, RowsInv
      <4> QED BY <1>1, <2>3, <4>1, FileSteps
    <3>2. IsIngested
      <4>1. run'.files = Tail(run.files) /\ run.files # <<>> /\ run.files \in Seq(DOMAIN Workbooks)
        BY <1>1, <2>3 DEF IngestFile, RowsInv, IsRun
      <4> QED BY <4>1 DEF IsIngested
    <3>3. ASSUME NEW e \in Enrollments(db), IsActive(e), e.school # run.school
          PROVE  /\ e \in Enrollments(db') \/ IsRemembered(e)
                 /\ Told(db', e.id) = Told(db, e.id) \/ e.student \in Named(w)
      <4>1. ~IsRemembered(e) => IsSafe(run.school, run.cache.enrollment, e)
        BY <3>3 DEF IsRemembered, IsSafe
      <4> QED BY <3>1, <4>1 DEF HasRead
    <3> QED BY <3>1, <3>2, <3>3 DEF Told, StaysElsewhere
  <2>4. CASE SchoolRequests /\ run' = run /\ report' = NoReport
    <3>1. ~IsImport
      BY <2>4 DEF IsImport, NoReport
    <3>2. ~IsIngested
      <4>1. Len(run.files) \in Nat
        BY <1>1 DEF RowsInv, IsRun
      <4> QED BY <2>4, <4>1 DEF IsIngested
    <3> QED BY <3>1, <3>2 DEF StaysElsewhere
  <2>5. \/ db' = db
        \/ Import /\ run' = run
        \/ IngestFile /\ OtherThanImports
        \/ SchoolRequests /\ run' = run /\ report' = NoReport
    <3>1. StartIngest \/ EndRun => db' = db
      BY DEF StartIngest, EndRun
    <3> QED BY <1>1, <3>1 DEF DataNext, OtherThanImports
  <2> QED BY <2>1, <2>2, <2>3, <2>4, <2>5
<1>2. RowsInv /\ [DataNext]_dataVars => [StaysElsewhere]_dataVars
  BY <1>1
<1>3. DataSpec => [][StaysElsewhere]_dataVars
  BY <1>2, RowsAreInvariant, PTL DEF DataSpec
<1> QED BY <1>3 DEF ElsewhereIsUntouched
=============================================================================
