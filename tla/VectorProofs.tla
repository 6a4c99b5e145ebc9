---------------------------- MODULE VectorProofs ----------------------------
(***************************************************************************)
(* The vector of vector.c for any number of vectors, elements and sizes,   *)
(* with malloc() failing or not: blocks fit, faults have a cause, blocks   *)
(* have owners, and the vectors are sequences.                             *)
(***************************************************************************)
EXTENDS VectorHistory, FiniteSetTheorems, SequenceTheorems, TLAPS

Contents == Elems \cup {Junk}

(* A Vector structure. *)
IsVector(w) ==
  /\ w \in [size : Nat, capacity : Nat, data : Seq(Contents) \cup {Null}]
  /\ w.data # Null => /\ w.size = Len(w.data) /\ w.size <= w.capacity
                      /\ w.capacity >= VECTOR_MINIMUM_CAPACITY

(* What becomes of the elements d of a vector in a call that makes t of    *)
(* them, or fresh of a vector without any; ok says what malloc() answers.  *)
Gave(d, t, fresh, c, ok) ==
  \/ d # Null /\ c = t
  \/ d # Null /\ ~ok /\ c = Null
  \/ d = Null /\ ok /\ c = fresh
  \/ d = Null /\ c = Null

BlockOf(d) == IF d = Null THEN 0 ELSE 1

(* What every function of vector.c guarantees when it is called on w with  *)
(* malloc() answering ok and leaves r: a vector; blocks counted as they    *)
(* are gained and lost, but for a reallocation that fails; no access       *)
(* outside the block of a vector that has one; an error if its elements    *)
(* are lost, but for a removal.                                            *)
Sound(w, r, ok) ==
  /\ IsVector(r.vec) /\ r.ret \in {"SUCCESS", "ERROR", "FAULT"}
  /\ r.ret = "ERROR" => r.vec.data = Null
  /\ \/ r.blocks = BlockOf(r.vec.data) - BlockOf(w.data)
     \/ w.data # Null /\ r.vec.data = Null /\ ~ok /\ r.blocks = 0
  /\ w.data # Null => /\ r.ret # "FAULT"
                      /\ r.ret = "SUCCESS" /\ r.vec.data = Null =>
                           ~ok /\ r.vec.size = w.size - 1

(* It also makes t of the elements. *)
Correct(w, r, ok, t, fresh) == Sound(w, r, ok) /\ Gave(w.data, t, fresh, r.vec.data, ok)

-----------------------------------------------------------------------------
(* Sequences. *)

LEMMA InsertAtFacts ==
  ASSUME NEW s \in Seq(Contents), NEW i \in 1 .. Len(s) + 1, NEW e \in Contents
  PROVE  /\ InsertAt(s, i, e) \in Seq(Contents)
         /\ Len(InsertAt(s, i, e)) = Len(s) + 1
<1> DEFINE a == SubSeq(s, 1, i - 1)
           b == SubSeq(s, i, Len(s))
<1>1. a \in Seq(Contents) /\ Len(a) = i - 1
  BY SubSeqProperties
<1>2. b \in Seq(Contents) /\ Len(b) = Len(s) - i + 1
  BY SubSeqProperties
<1>3. InsertAt(s, i, e) = (a \o <<e>>) \o b
  BY DEF InsertAt
<1> HIDE DEF a, b
<1>4. a \o <<e>> \in Seq(Contents) /\ Len(a \o <<e>>) = i
  BY <1>1
<1>5. /\ (a \o <<e>>) \o b \in Seq(Contents)
      /\ Len((a \o <<e>>) \o b) = Len(a \o <<e>>) + Len(b)
  BY <1>2, <1>4, ConcatProperties, Zenon
<1>6. Len(InsertAt(s, i, e)) = Len(a \o <<e>>) + Len(b)
  BY <1>3, <1>5
<1>7. i + (Len(s) - i + 1) = Len(s) + 1
  OBVIOUS
<1> QED
  BY <1>2, <1>3, <1>4, <1>5, <1>6, <1>7

LEMMA AppendIsInsertAt ==
  ASSUME NEW s \in Seq(Contents), NEW e \in Contents
  PROVE  Append(s, e) = InsertAt(s, Len(s) + 1, e)
<1>1. SubSeq(s, 1, Len(s)) = s /\ SubSeq(s, Len(s) + 1, Len(s)) = << >>
  BY SubSeqFull, SubSeqEmpty
<1> QED
  BY <1>1 DEF InsertAt

LEMMA RemoveAtFacts ==
  ASSUME NEW s \in Seq(Contents), NEW i \in 1 .. Len(s)
  PROVE  /\ RemoveAt(s, i) \in Seq(Contents)
         /\ Len(RemoveAt(s, i)) = Len(s) - 1
<1> DEFINE a == SubSeq(s, 1, i - 1)
           b == SubSeq(s, i + 1, Len(s))
<1>1. a \in Seq(Contents) /\ Len(a) = i - 1
  BY SubSeqProperties
<1>2. b \in Seq(Contents) /\ Len(b) = Len(s) - i
  BY SubSeqProperties
<1>3. RemoveAt(s, i) = a \o b
  BY DEF RemoveAt
<1> HIDE DEF a, b
<1>4. a \o b \in Seq(Contents) /\ Len(a \o b) = Len(a) + Len(b)
  BY <1>1, <1>2, ConcatProperties, Zenon
<1> QED
  BY <1>1, <1>2, <1>3, <1>4

LEMMA FrontIsRemoveAt ==
  ASSUME NEW s \in Seq(Contents), Len(s) > 0
  PROVE  Front(s) = RemoveAt(s, Len(s))
<1>1. SubSeq(s, Len(s) + 1, Len(s)) = << >>
  BY SubSeqEmpty
<1>2. SubSeq(s, 1, Len(s) - 1) \in Seq(Contents)
  OBVIOUS
<1> QED
  BY <1>1, <1>2, ConcatEmptySeq DEF Front, RemoveAt

LEMMA ExposedFacts ==
  ASSUME NEW d \in Seq(Contents), NEW n \in Nat
  PROVE  /\ Exposed(d, n) = [i \in 1 .. n |-> IF i <= Len(d) THEN d[i] ELSE Junk]
         /\ Exposed(d, n) \in Seq(Contents)
         /\ Len(Exposed(d, n)) = n
<1>1. d # Null
  BY NullIsNoBlock DEF Contents
<1>2. Exposed(d, n) = [i \in 1 .. n |-> IF i <= Len(d) THEN d[i] ELSE Junk]
  BY <1>1 DEF Exposed
<1>3. \A i \in 1 .. n : (IF i <= Len(d) THEN d[i] ELSE Junk) \in Contents
  BY DEF Contents
<1> QED
  BY <1>2, <1>3

-----------------------------------------------------------------------------
(* The functions of vector.c. *)


(* _vector_reallocate() of Struct(z, c, d) to n elements, as a table. *)
Reallocated(z, c, d, n, ok, r) ==
  LET m == Larger(n, VECTOR_MINIMUM_CAPACITY) IN
  IF n < 2 /\ c <= 2 THEN r = Result(Struct(z, c, d), "SUCCESS", 0) ELSE
  \/ ~ok /\ r = Result(Struct(z, c, Null), "ERROR", 0)
  \/ ok /\ ((z > 0 /\ d = Null) \/ z > m) /\ r = Result(Struct(z, c, d), "FAULT", 0)
  \/ ok /\ d # Null /\ z <= m /\ r = Result(Struct(z, m, d), "SUCCESS", 0)
  \/ ok /\ d = Null /\ z = 0 /\ r = Result(Struct(0, m, << >>), "SUCCESS", 1)

LEMMA ReallocateOutcomes ==
  ASSUME NEW z \in Nat, NEW c \in Nat, NEW d, NEW n \in Nat, NEW ok \in BOOLEAN
  PROVE  Reallocated(z, c, d, n, ok, _vector_reallocate(Struct(z, c, d), n, ok))
<1> DEFINE m == Larger(n, VECTOR_MINIMUM_CAPACITY)
           w == Struct(z, c, d)
<1>1. w.size = z /\ w.capacity = c /\ w.data = d
  BY DEF Struct
<1>2. m \in Nat
  BY DEF Larger, VECTOR_MINIMUM_CAPACITY
<1> HIDE DEF w
<1>3. _vector_reallocate(w, n, ok) =
        IF n < 2 /\ c <= 2 THEN Result(w, "SUCCESS", 0)
        ELSE IF ~ok THEN Result(Struct(z, c, Null), "ERROR", 0)
        ELSE IF (z > 0 /\ d = Null) \/ z > m THEN Result(w, "FAULT", 0)
        ELSE Result(Struct(z, m, IF d # Null THEN d ELSE << >>), "SUCCESS", IF d = Null THEN 1 ELSE 0)
  BY <1>1 DEF _vector_reallocate, Success, Fault, One, vector_is_initialized, VECTOR_MINIMUM_CAPACITY
<1> HIDE DEF m
<1> QED
  BY <1>2, <1>3 DEF m, w, Reallocated

LEMMA StructFacts ==
  ASSUME NEW z, NEW c, NEW d, NEW ret, NEW b
  PROVE  /\ Struct(z, c, d).size = z /\ Struct(z, c, d).capacity = c /\ Struct(z, c, d).data = d
         /\ Result(Struct(z, c, d), ret, b).vec = Struct(z, c, d)
         /\ Result(Struct(z, c, d), ret, b).ret = ret /\ Result(Struct(z, c, d), ret, b).blocks = b
BY DEF Struct, Result

LEMMA IsVectorStruct ==
  ASSUME NEW z, NEW c, NEW d
  PROVE  IsVector(Struct(z, c, d)) <=>
           /\ z \in Nat /\ c \in Nat /\ d \in Seq(Contents) \cup {Null}
           /\ d # Null => z = Len(d) /\ z <= c /\ c >= 2
BY DEF IsVector, Struct, VECTOR_MINIMUM_CAPACITY

LEMMA VectorIsStruct ==
  ASSUME NEW w, IsVector(w)
  PROVE  w = Struct(w.size, w.capacity, w.data)
BY DEF IsVector, Struct

LEMMA NullFacts == Null \notin Seq(Contents) /\ << >> \in Seq(Contents) /\ << >> # Null
<1>1. Null \notin Seq(Contents)
  BY NullIsNoBlock DEF Contents
<1>2. << >> \in Seq(Contents)
  OBVIOUS
<1> QED
  BY <1>1, <1>2

LEMMA EmptyVector ==
  ASSUME NEW k \in Nat, k >= 2 PROVE IsVector(Struct(0, k, << >>))
<1>1. << >> \in Seq(Contents) /\ Len(<< >>) = 0
  BY EmptySeq
<1>2. \A e \in Seq(Contents) : Len(e) = 0 => IsVector(Struct(0, k, e))
  BY DEF IsVector, Struct, VECTOR_MINIMUM_CAPACITY
<1> QED
  BY <1>1, <1>2, Zenon

(* Room for one more element: there is room, or the elements are lost and  *)
(* an error says so; a vector without a block gets none.                   *)
LEMMA GrownFacts ==
  ASSUME NEW z \in Nat, NEW c \in Nat, NEW d, IsVector(Struct(z, c, d)), NEW ok \in BOOLEAN
  PROVE  LET g == Grown(Struct(z, c, d), ok) IN
         \/ d # Null /\ \E k \in Nat : z < k /\ k >= 2 /\ g = Result(Struct(z, k, d), "SUCCESS", 0)
         \/ d # Null /\ ~ok /\ g = Result(Struct(z, c, Null), "ERROR", 0)
         \/ d = Null /\ \E ret \in {"SUCCESS", "ERROR", "FAULT"} : g = Result(Struct(z, c, Null), ret, 0)
<1> DEFINE w == Struct(z, c, d)
           n == Larger(1, z * VECTOR_GROWTH_FACTOR)
           m == Larger(n, VECTOR_MINIMUM_CAPACITY)
<1>1. n \in Nat /\ (z > 0 => n = 2 * z) /\ (z = 0 => n = 1)
  BY DEF Larger, VECTOR_GROWTH_FACTOR
<1>2. Grown(w, ok) = IF z = c THEN _vector_reallocate(w, n, ok) ELSE Result(w, "SUCCESS", 0)
  BY StructFacts DEF Grown, _vector_should_grow, _vector_adjust_capacity, Success
<1>3. m \in Nat /\ m >= 2 /\ m >= n
  BY <1>1 DEF Larger, VECTOR_MINIMUM_CAPACITY
<1>4. d # Null => z <= c /\ c >= 2
  BY IsVectorStruct
<1>5. CASE z # c
  BY <1>2, <1>4, <1>5
<1>6. CASE z = c /\ d # Null
  <2> HIDE DEF n, m
  <2>1. \/ ~ok /\ _vector_reallocate(w, n, ok) = Result(Struct(z, c, Null), "ERROR", 0)
        \/ _vector_reallocate(w, n, ok) = Result(Struct(z, m, d), "SUCCESS", 0)
    BY <1>1, <1>3, <1>4, <1>6, ReallocateOutcomes DEF Reallocated, m
  <2>2. z < m
    BY <1>1, <1>3, <1>4, <1>6
  <2> QED
    BY <1>2, <1>3, <1>6, <2>1, <2>2
<1>7. CASE z = c /\ d = Null
  <2> HIDE DEF n, m
  <2>1. \E ret \in {"SUCCESS", "ERROR", "FAULT"} :
          _vector_reallocate(w, n, ok) = Result(Struct(z, c, Null), ret, 0)
    BY <1>1, <1>3, <1>7, ReallocateOutcomes DEF Reallocated, m
  <2> QED
    BY <1>2, <1>7, <2>1
<1> QED
  BY <1>5, <1>6, <1>7

LEMMA InsertCorrect ==
  ASSUME NEW w, IsVector(w), NEW i \in 0 .. w.size, NEW e \in Elems, NEW ok \in BOOLEAN
  PROVE  Correct(w, vector_insert(w, i, e, ok), ok, InsertAt(w.data, i + 1, e), << >>)
<1>1. PICK z, c, d : w = Struct(z, c, d) /\ z = w.size /\ c = w.capacity /\ d = w.data
  BY VectorIsStruct
<1>2. /\ z \in Nat /\ c \in Nat /\ d \in Seq(Contents) \cup {Null}
      /\ d # Null => z = Len(d) /\ z <= c /\ c >= 2
  BY <1>1, IsVectorStruct
<1> DEFINE g == Grown(w, ok)
           r == vector_insert(w, i, e, ok)
<1>b. PICK x : x = InsertAt(w.data, i + 1, e)
  OBVIOUS
<1> SUFFICES Correct(w, r, ok, x, << >>)
  BY <1>b
<1>3. CASE d # Null /\ \E k \in Nat : z < k /\ k >= 2 /\ g = Result(Struct(z, k, d), "SUCCESS", 0)
  <2>1. PICK k \in Nat : z < k /\ k >= 2 /\ g = Result(Struct(z, k, d), "SUCCESS", 0)
    BY <1>3
  <2>2. g.ret = "SUCCESS" /\ g.vec.data = d /\ g.vec.size = z /\ g.vec.capacity = k /\ g.blocks = 0
    BY <2>1, StructFacts
  <2> HIDE DEF g
  <2>3. r = Result(Struct(z + 1, k, InsertAt(d, i + 1, e)), "SUCCESS", 0)
    BY <1>3, <2>1, <2>2 DEF vector_insert, vector_is_initialized, g
  <2>4. InsertAt(d, i + 1, e) \in Seq(Contents) /\ Len(InsertAt(d, i + 1, e)) = z + 1
    <3>1. i + 1 \in 1 .. Len(d) + 1 /\ e \in Contents /\ d \in Seq(Contents) /\ Len(d) = z
      BY <1>1, <1>2, <1>3 DEF Contents
    <3> QED
      BY <3>1, InsertAtFacts
  <2>6. x # Null /\ x \in Seq(Contents) /\ Len(x) = z + 1
    BY <1>1, <1>b, <2>4, NullFacts
  <2>7. r.vec = Struct(z + 1, k, x) /\ r.vec.data = x /\ r.ret = "SUCCESS" /\ r.blocks = 0
    BY <1>1, <1>b, <2>3, StructFacts
  <2> HIDE DEF r
  <2>8. IsVector(r.vec)
    BY <1>2, <2>1, <2>6, <2>7, IsVectorStruct
  <2>9. d # Null /\ w.data = d /\ w.size = z
    BY <1>1, <1>3
  <2>10. Sound(w, r, ok)
    BY <2>6, <2>7, <2>8, <2>9 DEF Sound, BlockOf
  <2>11. Correct(w, r, ok, x, << >>)
    BY <2>7, <2>9, <2>10 DEF Correct, Gave
  <2> QED
    BY <2>11 DEF r
<1>4. CASE d # Null /\ ~ok /\ g = Result(Struct(z, c, Null), "ERROR", 0)
  <2>1. r = Result(Struct(z, c, Null), "ERROR", 0)
    BY <1>4, StructFacts DEF vector_insert
  <2>2. r.vec = Struct(z, c, Null) /\ r.vec.data = Null /\ r.ret = "ERROR" /\ r.blocks = 0
    BY <2>1, StructFacts
  <2> HIDE DEF r
  <2>3. IsVector(r.vec)
    BY <1>2, <2>2, IsVectorStruct
  <2>4. Correct(w, r, ok, x, << >>)
    BY <1>1, <1>4, <2>2, <2>3 DEF Correct, Gave, Sound, BlockOf
  <2> QED
    BY <2>4 DEF r
<1>5. CASE d = Null /\ \E ret \in {"SUCCESS", "ERROR", "FAULT"} : g = Result(Struct(z, c, Null), ret, 0)
  <2>1. PICK ret \in {"SUCCESS", "ERROR", "FAULT"} : g = Result(Struct(z, c, Null), ret, 0)
    BY <1>5
  <2>2. g.ret = ret /\ g.vec = Struct(z, c, Null) /\ g.vec.data = Null
    BY <2>1, StructFacts
  <2>3. \E y \in {"SUCCESS", "ERROR", "FAULT"} : r = Result(Struct(z, c, Null), y, 0)
    BY <2>1, <2>2 DEF vector_insert, vector_is_initialized, Fault
  <2>4. PICK y \in {"SUCCESS", "ERROR", "FAULT"} : r = Result(Struct(z, c, Null), y, 0)
    BY <2>3
  <2>5. r.vec = Struct(z, c, Null) /\ r.vec.data = Null /\ r.ret = y /\ r.blocks = 0
    BY <2>4, StructFacts
  <2> HIDE DEF r
  <2>6. IsVector(r.vec)
    BY <1>2, <2>5, IsVectorStruct
  <2>7. d = Null /\ w.data = d
    BY <1>1, <1>5
  <2>8. Sound(w, r, ok)
    BY <2>5, <2>6, <2>7 DEF Sound, BlockOf
  <2>9. Correct(w, r, ok, x, << >>)
    BY <2>5, <2>7, <2>8 DEF Correct, Gave
  <2> QED
    BY <2>9 DEF r
<1>6. IsVector(Struct(z, c, d)) /\ g = Grown(Struct(z, c, d), ok)
  BY <1>1
<1> HIDE DEF g, r
<1> QED
  BY <1>2, <1>3, <1>4, <1>5, <1>6, GrownFacts

(* What a call makes of a vector without a block does not matter. *)
LEMMA SameElements ==
  ASSUME NEW w, NEW r, NEW ok, NEW t, NEW q, NEW fresh, Correct(w, r, ok, t, fresh),
         w.data # Null => t = q
  PROVE  Correct(w, r, ok, q, fresh)
BY DEF Correct, Gave

LEMMA PushBackCorrect ==
  ASSUME NEW w, IsVector(w), NEW e \in Elems, NEW ok \in BOOLEAN
  PROVE  Correct(w, vector_push_back(w, e, ok), ok, Append(w.data, e), << >>)
<1>1. w.size \in Nat /\ w.data \in Seq(Contents) \cup {Null} /\ (w.data # Null => w.size = Len(w.data))
  BY DEF IsVector
<1> DEFINE g == Grown(w, ok)
<1>2. g.vec.data # Null => g.vec.data = w.data /\ g.vec.size = w.size
  BY VectorIsStruct, GrownFacts, StructFacts DEF IsVector
<1>3. ASSUME g.vec.data # Null
      PROVE  Append(g.vec.data, e) = InsertAt(g.vec.data, w.size + 1, e)
  BY <1>1, <1>2, <1>3, AppendIsInsertAt DEF Contents
<1>4. vector_push_back(w, e, ok) = vector_insert(w, w.size, e, ok)
  BY <1>3 DEF vector_push_back, vector_insert, vector_is_initialized
<1>5. w.data # Null => InsertAt(w.data, w.size + 1, e) = Append(w.data, e)
  BY <1>1, AppendIsInsertAt DEF Contents
<1>6. Correct(w, vector_push_back(w, e, ok), ok, InsertAt(w.data, w.size + 1, e), << >>)
  BY <1>1, <1>4, InsertCorrect
<1> QED
  BY <1>5, <1>6, SameElements

LEMMA PushFrontCorrect ==
  ASSUME NEW w, IsVector(w), NEW e \in Elems, NEW ok \in BOOLEAN
  PROVE  Correct(w, vector_push_front(w, e, ok), ok, <<e>> \o w.data, << >>)
<1>1. w.size \in Nat /\ w.data \in Seq(Contents) \cup {Null}
  BY DEF IsVector
<1>2. ASSUME NEW d \in Seq(Contents) PROVE InsertAt(d, 1, e) = <<e>> \o d
  <2>1. SubSeq(d, 1, 0) = << >> /\ SubSeq(d, 1, Len(d)) = d
    BY SubSeqFull, SubSeqEmpty
  <2>2. << >> \o <<e>> = <<e>>
    OBVIOUS
  <2> QED
    BY <2>1, <2>2 DEF InsertAt
<1>3. vector_push_front(w, e, ok) = vector_insert(w, 0, e, ok) /\ 0 \in 0 .. w.size
  BY <1>1 DEF vector_push_front
<1>4. PICK d, r : d = w.data /\ r = vector_push_front(w, e, ok)
  OBVIOUS
<1>5. Correct(w, r, ok, InsertAt(d, 0 + 1, e), << >>)
  BY <1>3, <1>4, InsertCorrect
<1>6. w.data # Null => InsertAt(d, 0 + 1, e) = <<e>> \o d
  <2>1. 0 + 1 = 1
    OBVIOUS
  <2> QED
    BY <1>1, <1>2, <1>4, <2>1
<1>7. Correct(w, r, ok, <<e>> \o d, << >>)
  BY <1>5, <1>6, SameElements, Zenon
<1> QED
  BY <1>4, <1>7

LEMMA AssignCorrect ==
  ASSUME NEW w, IsVector(w), NEW i \in 0 .. w.size - 1, NEW e \in Elems
  PROVE  Correct(w, vector_assign(w, i, e), TRUE, [w.data EXCEPT ![i + 1] = e], << >>)
<1>1. PICK z, c, d : w = Struct(z, c, d) /\ z = w.size /\ c = w.capacity /\ d = w.data
  BY VectorIsStruct
<1>2. /\ z \in Nat /\ c \in Nat /\ d \in Seq(Contents) \cup {Null}
      /\ d # Null => z = Len(d) /\ z <= c /\ c >= 2
  BY <1>1, IsVectorStruct
<1>3. CASE d = Null
  <2>1. vector_assign(w, i, e) = Result(Struct(z, c, Null), "FAULT", 0)
    BY <1>1, <1>3 DEF vector_assign, vector_is_initialized, Fault
  <2> QED
    BY <1>1, <1>2, <1>3, <2>1, StructFacts, IsVectorStruct DEF Correct, Gave, Sound, BlockOf
<1>4. CASE d # Null
  <2> DEFINE x == [d EXCEPT ![i + 1] = e]
  <2>1. vector_assign(w, i, e) = Result(Struct(z, c, x), "SUCCESS", 0)
    BY <1>1, <1>4 DEF vector_assign, vector_is_initialized, Success
  <2>2. i + 1 \in 1 .. Len(d) /\ e \in Contents /\ d \in Seq(Contents)
    BY <1>1, <1>2, <1>4 DEF Contents
  <2>3. x \in Seq(Contents) /\ Len(x) = z
    BY <1>2, <1>4, <2>2, ExceptSeq
  <2> HIDE DEF x
  <2> DEFINE r == vector_assign(w, i, e)
  <2>5. r.vec = Struct(z, c, x) /\ r.vec.data = x /\ r.ret = "SUCCESS" /\ r.blocks = 0
    BY <2>1, StructFacts
  <2>6. x # Null
    BY <2>3, NullFacts
  <2> HIDE DEF r
  <2>7. IsVector(r.vec)
    BY <1>2, <1>4, <2>3, <2>5, IsVectorStruct
  <2>8. Correct(w, r, TRUE, x, << >>)
    BY <1>1, <1>4, <2>5, <2>6, <2>7 DEF Correct, Gave, Sound, BlockOf
  <2> QED
    BY <1>1, <2>8 DEF r, x
<1> QED
  BY <1>3, <1>4

(* The removals: z elements are left, in a block that fits, or lost, or a  *)
(* vector without a block gets one.                                        *)
LEMMA ShrunkFacts ==
  ASSUME NEW z \in Nat, NEW c \in Nat, NEW d, IsVector(Struct(z, c, d)),
         NEW should \in BOOLEAN, NEW ok \in BOOLEAN
  PROVE  LET r == Shrunk(Struct(z, c, d), should, ok) IN
         \/ \E k \in Nat : k >= z /\ k >= 2 /\ d # Null /\ r = Result(Struct(z, k, d), "SUCCESS", 0)
         \/ ~ok /\ r = Result(Struct(z, c, Null), "SUCCESS", 0)
         \/ \E ret \in {"SUCCESS", "FAULT"} : d = Null /\ r = Result(Struct(z, c, Null), ret, 0)
         \/ \E k \in Nat : k >= 2 /\ d = Null /\ z = 0 /\ ok /\ r = Result(Struct(0, k, << >>), "SUCCESS", 1)
<1> DEFINE w == Struct(z, c, d)
           n == Larger(1, z * VECTOR_GROWTH_FACTOR)
           m == Larger(n, VECTOR_MINIMUM_CAPACITY)
           a == _vector_reallocate(w, n, ok)
<1>1. n \in Nat /\ m \in Nat /\ m >= 2 /\ m >= z
  BY DEF Larger, VECTOR_GROWTH_FACTOR, VECTOR_MINIMUM_CAPACITY
<1>2. Shrunk(w, should, ok) =
        IF should THEN Result(a.vec, IF a.ret = "FAULT" THEN a.ret ELSE "SUCCESS", a.blocks)
                  ELSE Result(w, "SUCCESS", 0)
  BY StructFacts DEF Shrunk, _vector_adjust_capacity, Success
<1>3. d # Null => z <= c /\ c >= 2
  BY IsVectorStruct
<1> HIDE DEF n, m
<1>4. Reallocated(z, c, d, n, ok, a)
  BY <1>1, ReallocateOutcomes
<1> HIDE DEF a
<1>5. \/ a = Result(w, "SUCCESS", 0)
      \/ ~ok /\ a = Result(Struct(z, c, Null), "ERROR", 0)
      \/ d = Null /\ a = Result(w, "FAULT", 0)
      \/ d # Null /\ a = Result(Struct(z, m, d), "SUCCESS", 0)
      \/ d = Null /\ z = 0 /\ ok /\ a = Result(Struct(0, m, << >>), "SUCCESS", 1)
  BY <1>1, <1>4 DEF Reallocated, m
<1>6. \/ Shrunk(w, should, ok) = Result(w, "SUCCESS", 0)
      \/ ~ok /\ Shrunk(w, should, ok) = Result(Struct(z, c, Null), "SUCCESS", 0)
      \/ d = Null /\ Shrunk(w, should, ok) = Result(w, "FAULT", 0)
      \/ d # Null /\ Shrunk(w, should, ok) = Result(Struct(z, m, d), "SUCCESS", 0)
      \/ d = Null /\ z = 0 /\ ok /\ Shrunk(w, should, ok) = Result(Struct(0, m, << >>), "SUCCESS", 1)
  BY <1>2, <1>5, StructFacts
<1> QED
  BY <1>1, <1>3, <1>6

(* A removal of one element of w that leaves the elements d. *)
LEMMA RemovalCorrect ==
  ASSUME NEW w, IsVector(w), w.size > 0, NEW d, NEW should \in BOOLEAN, NEW ok \in BOOLEAN,
         d = Null <=> w.data = Null,
         d # Null => \E i \in 1 .. Len(w.data) : d = RemoveAt(w.data, i)
  PROVE  Correct(w, Shrunk(Struct(w.size - 1, w.capacity, d), should, ok), ok, d, << >>)
<1>0. PICK z, c : z = w.size - 1 /\ c = w.capacity
  OBVIOUS
<1> DEFINE r == Shrunk(Struct(z, c, d), should, ok)
<1> SUFFICES Correct(w, r, ok, d, << >>)
  BY <1>0
<1>1. /\ z \in Nat /\ c \in Nat /\ w.data \in Seq(Contents) \cup {Null}
      /\ w.data # Null => w.size = Len(w.data) /\ w.size <= c /\ c >= 2
  BY <1>0 DEF IsVector, VECTOR_MINIMUM_CAPACITY
<1>2. d # Null => d \in Seq(Contents) /\ Len(d) = z
  BY <1>0, <1>1, RemoveAtFacts
<1>3. IsVector(Struct(z, c, d))
  BY <1>0, <1>1, <1>2, IsVectorStruct
<1> HIDE DEF r
<1>4. CASE \E k \in Nat : k >= z /\ k >= 2 /\ d # Null /\ r = Result(Struct(z, k, d), "SUCCESS", 0)
  BY <1>1, <1>2, <1>4, StructFacts, IsVectorStruct DEF Correct, Gave, Sound, BlockOf
<1>5. CASE ~ok /\ r = Result(Struct(z, c, Null), "SUCCESS", 0)
  BY <1>0, <1>1, <1>5, StructFacts, IsVectorStruct DEF Correct, Gave, Sound, BlockOf
<1>6. CASE \E ret \in {"SUCCESS", "FAULT"} : d = Null /\ r = Result(Struct(z, c, Null), ret, 0)
  BY <1>1, <1>6, StructFacts, IsVectorStruct DEF Correct, Gave, Sound, BlockOf
<1>7. CASE \E k \in Nat : k >= 2 /\ d = Null /\ z = 0 /\ ok /\ r = Result(Struct(0, k, << >>), "SUCCESS", 1)
  <2>2. PICK k \in Nat : k >= 2 /\ r = Result(Struct(0, k, << >>), "SUCCESS", 1)
    BY <1>7
  <2>3. r.vec = Struct(0, k, << >>) /\ r.ret = "SUCCESS" /\ r.blocks = 1 /\ r.vec.data = << >>
    BY <2>2, StructFacts
  <2>4. IsVector(r.vec)
    BY <2>2, <2>3, EmptyVector
  <2>5. w.data = Null /\ << >> # Null
    BY <1>7, NullFacts
  <2> QED
    BY <1>7, <2>3, <2>4, <2>5 DEF Correct, Gave, Sound, BlockOf
<1> QED
  BY <1>1, <1>3, <1>4, <1>5, <1>6, <1>7, ShrunkFacts DEF r

LEMMA PopBackCorrect ==
  ASSUME NEW w, IsVector(w), w.size > 0, NEW ok \in BOOLEAN
  PROVE  Correct(w, vector_pop_back(w, ok), ok, Front(w.data), << >>)
<1> DEFINE d == IF w.data = Null THEN Null ELSE Front(w.data)
           p == Struct(w.size - 1, w.capacity, d)
<1>1. vector_pop_back(w, ok) = Shrunk(p, _vector_should_shrink(p), ok)
  BY DEF vector_pop_back
<1>2. w.data \in Seq(Contents) \cup {Null} /\ (w.data # Null => w.size = Len(w.data))
  BY DEF IsVector
<1>3. w.data # Null => d = RemoveAt(w.data, Len(w.data)) /\ d \in Seq(Contents)
  BY <1>2, FrontIsRemoveAt, RemoveAtFacts
<1>4. (d = Null <=> w.data = Null) /\ (d # Null => \E i \in 1 .. Len(w.data) : d = RemoveAt(w.data, i))
  BY <1>2, <1>3, NullFacts
<1>5. _vector_should_shrink(p) \in BOOLEAN
  BY DEF _vector_should_shrink
<1>6. w.data # Null => d = Front(w.data)
  OBVIOUS
<1> HIDE DEF d
<1>7. Correct(w, vector_pop_back(w, ok), ok, d, << >>)
  BY <1>1, <1>4, <1>5, RemovalCorrect
<1> QED
  BY <1>6, <1>7, SameElements

LEMMA EraseCorrect ==
  ASSUME NEW w, IsVector(w), NEW i \in 0 .. w.size - 1, NEW ok \in BOOLEAN
  PROVE  Correct(w, vector_erase(w, i, ok), ok, RemoveAt(w.data, i + 1), << >>)
<1>1. /\ w.data \in Seq(Contents) \cup {Null} /\ (w.data # Null => w.size = Len(w.data))
      /\ w.size \in Nat /\ w.size > 0
  BY DEF IsVector
<1>2. CASE w.data = Null
  <2>1. vector_erase(w, i, ok) = Result(w, "FAULT", 0)
    BY <1>2 DEF vector_erase, vector_is_initialized, Fault
  <2>2. Result(w, "FAULT", 0).vec = w /\ Result(w, "FAULT", 0).ret = "FAULT"
          /\ Result(w, "FAULT", 0).blocks = 0
    BY DEF Result
  <2> QED
    BY <1>2, <2>1, <2>2 DEF Correct, Gave, Sound, BlockOf
<1>3. CASE w.data # Null
  <2> DEFINE d == RemoveAt(w.data, i + 1)
             p == Struct(w.size - 1, w.capacity, d)
  <2>1. vector_erase(w, i, ok) = Shrunk(p, p.size = p.capacity \div 4, ok)
    BY <1>3 DEF vector_erase, vector_is_initialized
  <2>2. i + 1 \in 1 .. Len(w.data)
    BY <1>1, <1>3
  <2>3. d \in Seq(Contents)
    BY <1>1, <1>3, <2>2, RemoveAtFacts
  <2>4. d # Null /\ \E k \in 1 .. Len(w.data) : d = RemoveAt(w.data, k)
    BY <2>2, <2>3, NullFacts
  <2> DEFINE small == p.size = p.capacity \div 4
  <2>5. small \in BOOLEAN /\ vector_erase(w, i, ok) = Shrunk(p, small, ok)
    BY <2>1, Zenon
  <2> HIDE DEF d, small
  <2>6. Correct(w, Shrunk(p, small, ok), ok, d, << >>)
    BY <1>1, <1>3, <2>4, <2>5, RemovalCorrect
  <2> QED
    BY <2>5, <2>6 DEF d
<1> QED
  BY <1>2, <1>3

LEMMA PopFrontCorrect ==
  ASSUME NEW w, IsVector(w), w.size > 0, NEW ok \in BOOLEAN
  PROVE  Correct(w, vector_pop_front(w, ok), ok, Tail(w.data), << >>)
<1>1. /\ w.data \in Seq(Contents) \cup {Null} /\ (w.data # Null => w.size = Len(w.data))
      /\ 0 \in 0 .. w.size - 1
  BY DEF IsVector
<1>2. ASSUME NEW d \in Seq(Contents), Len(d) > 0 PROVE RemoveAt(d, 1) = Tail(d)
  <2>1. SubSeq(d, 1, 0) = << >> /\ Tail(d) = SubSeq(d, 2, Len(d)) /\ Tail(d) \in Seq(Contents)
    BY <1>2, SubSeqEmpty
  <2>2. << >> \o Tail(d) = Tail(d)
    BY <2>1, ConcatEmptySeq
  <2> QED
    BY <2>1, <2>2 DEF RemoveAt
<1>3. PICK d, r : d = w.data /\ r = vector_pop_front(w, ok)
  OBVIOUS
<1>4. Correct(w, r, ok, RemoveAt(d, 0 + 1), << >>)
  BY <1>1, <1>3, EraseCorrect DEF vector_pop_front
<1>5. w.data # Null => RemoveAt(d, 0 + 1) = Tail(d)
  <2>1. 0 + 1 = 1
    OBVIOUS
  <2>2. w.data # Null => Len(d) > 0 /\ d \in Seq(Contents)
    BY <1>1, <1>3
  <2> QED
    BY <1>2, <2>1, <2>2
<1>6. Correct(w, r, ok, Tail(d), << >>)
  BY <1>4, <1>5, SameElements, Zenon
<1> QED
  BY <1>3, <1>6

LEMMA ExposedNothing ==
  ASSUME NEW n \in 0 .. MaxSize
  PROVE  Exposed(<< >>, n) \in Seq(Contents) /\ Len(Exposed(<< >>, n)) = n
<1>1. n \in Nat /\ << >> \in Seq(Contents) /\ Len(<< >>) = 0
  BY EmptySeq, VectorAssumption
<1> QED
  BY <1>1, ExposedFacts, Zenon

(* The elements that stay, or new ones, after a resize to n. *)
LEMMA ResizeCorrect ==
  ASSUME NEW w, IsVector(w), NEW n \in 0 .. MaxSize, NEW ok \in BOOLEAN
  PROVE  Correct(w, vector_resize(w, n, ok), ok, Exposed(w.data, n), Exposed(<< >>, n))
<1>1. PICK z, c, d : w = Struct(z, c, d) /\ z = w.size /\ c = w.capacity /\ d = w.data
  BY VectorIsStruct
<1>2. /\ z \in Nat /\ c \in Nat /\ d \in Seq(Contents) \cup {Null} /\ n \in Nat
      /\ d # Null => z = Len(d) /\ z <= c /\ c >= 2
  BY <1>1, IsVectorStruct
<1>a. w.data = d /\ w.size = z /\ w.capacity = c
  BY <1>1
<1> DEFINE x == Exposed(d, n)
<1>b. PICK f : f = Exposed(<< >>, n)
  OBVIOUS
<1> SUFFICES Correct(w, vector_resize(w, n, ok), ok, x, f)
  BY <1>a, <1>b
<1>3. /\ d = Null => x = Null
      /\ d # Null => x \in Seq(Contents) /\ Len(x) = n /\ x # Null
  <2>1. d = Null => x = Null
    BY DEF Exposed
  <2>2. ASSUME d # Null PROVE x \in Seq(Contents) /\ Len(x) = n /\ x # Null
    <3>1. d \in Seq(Contents)
      BY <1>2, <2>2
    <3>2. /\ x = [i \in 1 .. n |-> IF i <= Len(d) THEN d[i] ELSE Junk]
          /\ x \in Seq(Contents) /\ Len(x) = n
      BY <1>2, <3>1, ExposedFacts
    <3> QED
      BY <3>2, NullFacts
  <2> QED
    BY <2>1, <2>2
<1>4. ASSUME NEW k \in Nat, n <= k, k >= 2, d # Null
      PROVE  Correct(w, Result(Struct(n, k, x), "SUCCESS", 0), ok, x, f)
  <2> HIDE DEF x
  <2> QED
    BY <1>2, <1>3, <1>4, <1>a, StructFacts, IsVectorStruct DEF Correct, Gave, Sound, BlockOf
<1>5. ASSUME NEW k \in Nat, d = Null, NEW ret \in {"SUCCESS", "ERROR", "FAULT"}, NEW i \in Nat
      PROVE  Correct(w, Result(Struct(i, k, Null), ret, 0), ok, x, f)
  BY <1>5, <1>a, StructFacts, IsVectorStruct DEF Correct, Gave, Sound, BlockOf
<1>6. ASSUME ~ok, NEW i \in Nat
      PROVE  Correct(w, Result(Struct(i, c, Null), "ERROR", 0), ok, x, f)
  BY <1>2, <1>6, <1>a, StructFacts, IsVectorStruct DEF Correct, Gave, Sound, BlockOf
<1>7. ASSUME NEW k \in Nat, n <= k, k >= 2, d = Null, ok
      PROVE  Correct(w, Result(Struct(n, k, f), "SUCCESS", 1), ok, x, f)
  <2>1. f \in Seq(Contents) /\ Len(f) = n /\ f # Null
    BY <1>b, ExposedNothing, NullFacts
  <2> QED
    BY <1>2, <1>7, <1>a, <2>1, StructFacts, IsVectorStruct DEF Correct, Gave, Sound, BlockOf
<1> DEFINE w1 == Struct(n, c, x)
           m0 == Larger(0, VECTOR_MINIMUM_CAPACITY)
           mn == Larger(2 * n, VECTOR_MINIMUM_CAPACITY)
<1>8. vector_resize(w, n, ok) =
        LET r == IF n = 0 THEN _vector_reallocate(w1, 0, ok)
                 ELSE IF n > c THEN _vector_reallocate(Struct(z, c, d), 2 * n, ok)
                 ELSE Result(Struct(z, c, d), "SUCCESS", 0)
        IN IF r.ret # "SUCCESS" THEN r
           ELSE Result(Struct(n, r.vec.capacity, Exposed(r.vec.data, n)), r.ret, r.blocks)
  <2>1. n <= c * VECTOR_SHRINK_THRESHOLD <=> n = 0
    BY <1>2 DEF VECTOR_SHRINK_THRESHOLD
  <2>2. n * VECTOR_GROWTH_FACTOR = 2 * n /\ (n = 0 => n * VECTOR_GROWTH_FACTOR = 0)
    BY <1>2 DEF VECTOR_GROWTH_FACTOR
  <2> QED
    BY <1>1, <1>2, <2>1, <2>2 DEF vector_resize, Success
<1>9. CASE n = 0
  <2> DEFINE r == _vector_reallocate(w1, 0, ok)
  <2>1. Reallocated(n, c, x, 0, ok, r)
    BY <1>2, ReallocateOutcomes
  <2>2. m0 \in Nat /\ m0 >= 2
    BY DEF Larger, VECTOR_MINIMUM_CAPACITY
  <2>3. vector_resize(w, n, ok) =
          IF r.ret # "SUCCESS" THEN r
          ELSE Result(Struct(n, r.vec.capacity, Exposed(r.vec.data, n)), r.ret, r.blocks)
    BY <1>8, <1>9
  <2>4. Exposed(x, n) = x
    <3>1. CASE d = Null
      BY <1>3, <3>1 DEF Exposed
    <3>2. CASE d # Null
      <4>1. \A y \in Seq(Contents) : Exposed(y, 0) = [i \in 1 .. 0 |-> Junk]
        BY ExposedFacts
      <4>2. d \in Seq(Contents) /\ x \in Seq(Contents)
        BY <1>2, <1>3, <3>2
      <4> QED
        BY <1>9, <4>1, <4>2
    <3> QED
      BY <3>1, <3>2
  <2> HIDE DEF r, m0, x
  <2>5. \/ r = Result(Struct(n, c, x), "SUCCESS", 0)
        \/ ~ok /\ r = Result(Struct(n, c, Null), "ERROR", 0)
        \/ x # Null /\ r = Result(Struct(n, m0, x), "SUCCESS", 0)
        \/ x = Null /\ ok /\ r = Result(Struct(0, m0, << >>), "SUCCESS", 1)
    BY <1>9, <2>1, <2>2 DEF Reallocated, m0
  <2>6. \/ vector_resize(w, n, ok) = Result(Struct(n, c, x), "SUCCESS", 0)
        \/ ~ok /\ vector_resize(w, n, ok) = Result(Struct(n, c, Null), "ERROR", 0)
        \/ x # Null /\ vector_resize(w, n, ok) = Result(Struct(n, m0, x), "SUCCESS", 0)
        \/ x = Null /\ ok /\ vector_resize(w, n, ok) = Result(Struct(n, m0, f), "SUCCESS", 1)
    BY <1>b, <2>3, <2>4, <2>5, StructFacts
  <2>7. (x = Null <=> d = Null) /\ n <= c /\ n <= m0
    BY <1>2, <1>3, <1>9, <2>2
  <2> QED
    BY <1>2, <1>3, <1>4, <1>5, <1>6, <1>7, <2>2, <2>6, <2>7
<1>10. CASE n # 0 /\ n <= c
  <2>1. vector_resize(w, n, ok) = Result(Struct(n, c, x), "SUCCESS", 0)
    BY <1>2, <1>8, <1>10, StructFacts
  <2> QED
    BY <1>2, <1>3, <1>4, <1>5, <1>10, <2>1
<1>11. CASE n # 0 /\ n > c
  <2> DEFINE r == _vector_reallocate(Struct(z, c, d), 2 * n, ok)
  <2>1. Reallocated(z, c, d, 2 * n, ok, r)
    BY <1>2, ReallocateOutcomes
  <2>2. mn \in Nat /\ mn >= 2 /\ mn >= n
    BY <1>2 DEF Larger, VECTOR_MINIMUM_CAPACITY
  <2>3. vector_resize(w, n, ok) =
          IF r.ret # "SUCCESS" THEN r
          ELSE Result(Struct(n, r.vec.capacity, Exposed(r.vec.data, n)), r.ret, r.blocks)
    BY <1>8, <1>11
  <2> HIDE DEF r, mn
  <2>5. \/ ~ok /\ r = Result(Struct(z, c, Null), "ERROR", 0)
        \/ d = Null /\ r = Result(Struct(z, c, Null), "FAULT", 0)
        \/ d # Null /\ r = Result(Struct(z, mn, d), "SUCCESS", 0)
        \/ d = Null /\ ok /\ r = Result(Struct(0, mn, << >>), "SUCCESS", 1)
    BY <1>2, <1>11, <2>1, <2>2 DEF Reallocated, mn
  <2>6. \/ ~ok /\ vector_resize(w, n, ok) = Result(Struct(z, c, Null), "ERROR", 0)
        \/ d = Null /\ vector_resize(w, n, ok) = Result(Struct(z, c, Null), "FAULT", 0)
        \/ d # Null /\ vector_resize(w, n, ok) = Result(Struct(n, mn, x), "SUCCESS", 0)
        \/ d = Null /\ ok /\ vector_resize(w, n, ok) = Result(Struct(n, mn, f), "SUCCESS", 1)
    BY <1>b, <2>3, <2>5, StructFacts
  <2> QED
    BY <1>2, <1>4, <1>5, <1>6, <1>7, <2>2, <2>6
<1> QED
  BY <1>2, <1>9, <1>10, <1>11

LEMMA ReserveCorrect ==
  ASSUME NEW w, IsVector(w), NEW n \in Nat, NEW ok \in BOOLEAN,
         w.data # Null => n >= w.size
  PROVE  Correct(w, _vector_reallocate(w, n, ok), ok, w.data, << >>)
<1>1. PICK z, c, d : w = Struct(z, c, d) /\ z = w.size /\ c = w.capacity /\ d = w.data
  BY VectorIsStruct
<1>2. /\ z \in Nat /\ c \in Nat /\ d \in Seq(Contents) \cup {Null} /\ n \in Nat
      /\ d # Null => z = Len(d) /\ z <= c /\ c >= 2
  BY <1>1, IsVectorStruct
<1> DEFINE r == _vector_reallocate(Struct(z, c, d), n, ok)
           m == Larger(n, VECTOR_MINIMUM_CAPACITY)
<1>3. m \in Nat /\ m >= 2 /\ m >= n
  BY <1>2 DEF Larger, VECTOR_MINIMUM_CAPACITY
<1>4. \/ r = Result(Struct(z, c, d), "SUCCESS", 0)
      \/ ~ok /\ r = Result(Struct(z, c, Null), "ERROR", 0)
      \/ d = Null /\ r = Result(Struct(z, c, Null), "FAULT", 0)
      \/ d # Null /\ r = Result(Struct(z, m, d), "SUCCESS", 0)
      \/ d = Null /\ z = 0 /\ ok /\ r = Result(Struct(0, m, << >>), "SUCCESS", 1)
  <2>1. d # Null => n >= z
    BY <1>1
  <2> HIDE DEF m
  <2>2. Reallocated(z, c, d, n, ok, r)
    BY <1>2, ReallocateOutcomes
  <2> HIDE DEF r
  <2> QED
    BY <1>2, <1>3, <2>1, <2>2 DEF Reallocated, m
<1> SUFFICES Correct(w, r, ok, w.data, << >>)
  BY <1>1
<1> HIDE DEF r, m
<1>a. w.data = d /\ w.size = z
  BY <1>1
<1>5. CASE r = Result(Struct(z, c, d), "SUCCESS", 0)
  BY <1>a, <1>2, <1>5, StructFacts, IsVectorStruct DEF Correct, Gave, Sound, BlockOf
<1>6. CASE ~ok /\ r = Result(Struct(z, c, Null), "ERROR", 0)
  BY <1>a, <1>2, <1>6, StructFacts, IsVectorStruct DEF Correct, Gave, Sound, BlockOf
<1>7. CASE d = Null /\ r = Result(Struct(z, c, Null), "FAULT", 0)
  BY <1>a, <1>2, <1>7, StructFacts, IsVectorStruct DEF Correct, Gave, Sound, BlockOf
<1>8. CASE d # Null /\ r = Result(Struct(z, m, d), "SUCCESS", 0)
  BY <1>a, <1>2, <1>3, <1>8, StructFacts, IsVectorStruct DEF Correct, Gave, Sound, BlockOf
<1>9. CASE d = Null /\ z = 0 /\ ok /\ r = Result(Struct(0, m, << >>), "SUCCESS", 1)
  <2>2. r.vec = Struct(0, m, << >>) /\ r.ret = "SUCCESS" /\ r.blocks = 1 /\ r.vec.data = << >>
    BY <1>9, StructFacts
  <2>3. IsVector(r.vec) /\ w.data = Null /\ << >> # Null
    BY <1>1, <1>3, <1>9, <2>2, EmptyVector, NullFacts
  <2> QED
    BY <1>9, <2>2, <2>3 DEF Correct, Gave, Sound, BlockOf
<1> QED
  BY <1>4, <1>5, <1>6, <1>7, <1>8, <1>9

LEMMA SetupSound ==
  ASSUME NEW w, IsVector(w), w.data = Null, NEW n \in Nat, NEW ok \in BOOLEAN
  PROVE  LET r == vector_setup(n, ok) IN
         /\ Sound(w, r, ok) /\ r.ret # "FAULT" /\ (r.ret = "SUCCESS" => r.vec.data # Null)
         /\ r.vec.data = IF ok THEN << >> ELSE Null
<1> DEFINE r == vector_setup(n, ok)
           m == Larger(VECTOR_MINIMUM_CAPACITY, n)
<1>1. m \in Nat /\ m >= 2
  BY DEF Larger, VECTOR_MINIMUM_CAPACITY
<1> HIDE DEF m
<1>2. CASE ok
  <2>1. r = Result(Struct(0, m, << >>), "SUCCESS", 1)
    BY <1>2 DEF vector_setup, One, m
  <2>2. r.vec = Struct(0, m, << >>) /\ r.ret = "SUCCESS" /\ r.blocks = 1 /\ r.vec.data = << >>
    BY <2>1, StructFacts
  <2>3. IsVector(r.vec) /\ << >> # Null
    BY <1>1, <2>2, EmptyVector, NullFacts
  <2> QED
    <3>1. r.vec.data # Null /\ BlockOf(r.vec.data) = 1 /\ BlockOf(w.data) = 0
      BY <2>2, <2>3 DEF BlockOf
    <3>2. r.vec.data = IF ok THEN << >> ELSE Null
      BY <1>2, <2>2
    <3> HIDE DEF r
    <3>3. Sound(w, r, ok)
      BY <2>2, <2>3, <3>1 DEF Sound
    <3>4. r.ret # "FAULT"
      BY <2>2
    <3> QED
      BY <3>1, <3>2, <3>3, <3>4 DEF r
<1>3. CASE ~ok
  <2>1. r = Result(Struct(0, m, Null), "ERROR", 0)
    BY <1>3 DEF vector_setup, One, m
  <2>2. r.vec = Struct(0, m, Null) /\ r.ret = "ERROR" /\ r.blocks = 0 /\ r.vec.data = Null
    BY <2>1, StructFacts
  <2> QED
    BY <1>1, <1>3, <2>2, IsVectorStruct DEF Sound, BlockOf
<1> QED
  BY <1>2, <1>3

(* A copy of a vector that is not empty; b is -1 when it replaces one. *)
LEMMA CopySound ==
  ASSUME NEW w, IsVector(w), NEW x, IsVector(x), x.data # Null, x.size >= 1, NEW ok \in BOOLEAN
  PROVE  LET c == vector_copy(x, ok)
             r == Result(c.vec, c.ret, c.blocks - BlockOf(w.data)) IN
         /\ Sound(w, r, TRUE) /\ r.ret # "FAULT" /\ (r.ret = "SUCCESS" => r.vec.data # Null)
         /\ r.vec.data = IF ok THEN x.data ELSE Null
<1> DEFINE c == vector_copy(x, ok)
           r == Result(c.vec, c.ret, c.blocks - BlockOf(w.data))
<1>1. /\ x.size \in Nat /\ x.data \in Seq(Contents) /\ x.size = Len(x.data)
      /\ 2 * x.size \in Nat /\ 2 * x.size >= 2 /\ 2 * x.size >= x.size
  BY DEF IsVector
<1>2. CASE ok
  <2>1. c = Result(Struct(x.size, 2 * x.size, x.data), "SUCCESS", 1)
    BY <1>1, <1>2 DEF vector_copy, One
  <2>2. /\ r.vec = Struct(x.size, 2 * x.size, x.data) /\ r.ret = "SUCCESS"
        /\ r.blocks = 1 - BlockOf(w.data) /\ r.vec.data = x.data
    BY <2>1, StructFacts
  <2>3. IsVector(Struct(x.size, 2 * x.size, x.data))
    BY <1>1, IsVectorStruct
  <2> HIDE DEF r
  <2>4. Sound(w, r, TRUE)
    BY <2>2, <2>3 DEF Sound, BlockOf
  <2> QED
    BY <1>2, <2>2, <2>4 DEF r
<1>3. CASE ~ok
  <2>1. c = Result(Struct(x.size, 2 * x.size, Null), "ERROR", 0)
    BY <1>1, <1>3 DEF vector_copy, One
  <2>2. /\ r.vec = Struct(x.size, 2 * x.size, Null) /\ r.ret = "ERROR"
        /\ r.blocks = 0 - BlockOf(w.data) /\ r.vec.data = Null
    BY <2>1, StructFacts
  <2>3. IsVector(Struct(x.size, 2 * x.size, Null))
    BY <1>1, IsVectorStruct
  <2> HIDE DEF r
  <2>4. Sound(w, r, TRUE)
    BY <2>2, <2>3 DEF Sound, BlockOf
  <2> QED
    BY <1>3, <2>2, <2>4 DEF r
<1> QED
  BY <1>2, <1>3

-----------------------------------------------------------------------------
(* The callers. *)

(* Only a vector that callers use may have lost its block unnoticed, and   *)
(* then a reallocation has failed.                                         *)
VecInv ==
  /\ vec \in [Vecs -> [size : Nat, capacity : Nat, data : Seq(Contents) \cup {Null}]]
  /\ \A v \in Vecs : IsVector(vec[v])
  /\ known \in [Vecs -> {"none", "inuse", "failed", "faulted"}]
  /\ blocks \in Int /\ oom \in BOOLEAN
  /\ \A v \in Vecs : known[v] \in {"none", "failed"} => vec[v].data = Null
  /\ \A v \in Vecs : known[v] = "inuse" /\ vec[v].data = Null => oom
  /\ FaultsOnlyAfterLoss
  /\ BlocksOwned

Holders == {v \in Vecs : vec[v].data # Null}

LEMMA OwnedBlocks ==
  BlocksOwned <=> blocks >= Cardinality(Holders) /\ (~oom => blocks = Cardinality(Holders))
BY DEF BlocksOwned, Holders, Live, vector_is_initialized

LEMMA HoldersFinite == IsFiniteSet(Holders) /\ Cardinality(Holders) \in Nat
<1>1. Holders \in SUBSET Vecs
  BY DEF Holders
<1> QED
  BY <1>1, VectorAssumption, FS_Subset, FS_CardinalityType

(* One vector changes: the number of vectors that hold a block. *)
LEMMA HoldersChange ==
  ASSUME VecInv, NEW v \in Vecs, NEW x, vec' = [vec EXCEPT ![v] = x]
  PROVE  Cardinality(Holders)' = Cardinality(Holders) + BlockOf(x.data) - BlockOf(vec[v].data)
<1>1. vec'[v] = x /\ \A u \in Vecs : u # v => vec'[u] = vec[u]
  BY DEF VecInv
<1>2. Holders' = IF x.data = Null THEN Holders \ {v} ELSE Holders \cup {v}
  BY <1>1 DEF Holders
<1>3. IsFiniteSet(Holders) /\ Cardinality(Holders) \in Nat
  BY HoldersFinite
<1>4. v \in Holders <=> vec[v].data # Null
  BY DEF Holders
<1>5. CASE x.data = Null
  <2>1. Cardinality(Holders \ {v}) = IF v \in Holders THEN Cardinality(Holders) - 1
                                                       ELSE Cardinality(Holders)
    BY <1>3, FS_RemoveElement
  <2> QED
    BY <1>2, <1>3, <1>4, <1>5, <2>1 DEF BlockOf
<1>6. CASE x.data # Null
  <2>1. Cardinality(Holders \cup {v}) = IF v \in Holders THEN Cardinality(Holders)
                                                         ELSE Cardinality(Holders) + 1
    BY <1>3, FS_AddElement
  <2> QED
    BY <1>2, <1>3, <1>4, <1>6, <2>1 DEF BlockOf
<1> QED
  BY <1>5, <1>6

(* A vector in use, or one that has a block, may lose it only with a       *)
(* reallocation that fails; a fresh one may not be used without a block.   *)
Safe(v, r) == \/ vec[v].data # Null \/ oom
              \/ r.ret # "FAULT" /\ (r.ret = "SUCCESS" => r.vec.data # Null)

LossNoticed ==
  \A v \in Vecs : Live(v) /\ vec'[v].data = Null /\ known'[v] = "inuse"
                  => vec'[v].size = vec[v].size - 1

LEMMA CallPreserves ==
  ASSUME VecInv, NEW v \in Vecs, NEW r, NEW ok \in BOOLEAN,
         Sound(vec[v], r, ok), Safe(v, r), Call(v, r, ok)
  PROVE  VecInv' /\ LossNoticed
<1>1. /\ IsVector(vec[v]) /\ known \in [Vecs -> {"none", "inuse", "failed", "faulted"}]
      /\ vec \in [Vecs -> [size : Nat, capacity : Nat, data : Seq(Contents) \cup {Null}]]
      /\ blocks \in Int /\ oom \in BOOLEAN
  BY DEF VecInv
<1>2. /\ Running /\ vec' = [vec EXCEPT ![v] = r.vec] /\ known' = [known EXCEPT ![v] = Knowledge[r.ret]]
      /\ blocks' = blocks + r.blocks
      /\ oom' = (oom \/ (vec[v].data # Null /\ ~ok /\ r.vec.data = Null))
  BY DEF Call, Live, vector_is_initialized
<1>3. /\ vec'[v] = r.vec /\ \A u \in Vecs : u # v => vec'[u] = vec[u]
      /\ \A u \in Vecs : u # v => known'[u] = known[u]
      /\ r.ret = "SUCCESS" => known'[v] = "inuse"
      /\ r.ret = "ERROR" => known'[v] = "failed"
      /\ r.ret = "FAULT" => known'[v] = "faulted"
      /\ r.ret \in {"SUCCESS", "ERROR", "FAULT"}
  BY <1>1, <1>2 DEF Knowledge, Sound
<1>4. r.vec \in [size : Nat, capacity : Nat, data : Seq(Contents) \cup {Null}] /\ IsVector(r.vec)
  BY DEF Sound, IsVector
<1>5. r.blocks \in Int
  BY DEF Sound, BlockOf
<1>6. oom => oom'
  BY <1>2
<1>7. FaultsOnlyAfterLoss'
  <2>1. \A u \in Vecs : known[u] # "faulted"
    BY <1>2 DEF Running
  <2>2. r.ret = "FAULT" => oom
    BY DEF Sound, Safe
  <2> QED
    BY <1>3, <1>6, <2>1, <2>2 DEF FaultsOnlyAfterLoss, Running
<1>8. BlocksOwned'
  <2>1. PICK n, m : n = Cardinality(Holders) /\ m = Cardinality(Holders)'
    OBVIOUS
  <2>2. m = n + BlockOf(r.vec.data) - BlockOf(vec[v].data) /\ n \in Nat
    BY <1>2, <2>1, HoldersChange, HoldersFinite
  <2>3. blocks >= n /\ (~oom => blocks = n)
    BY <2>1, OwnedBlocks DEF VecInv
  <2>4. BlockOf(r.vec.data) \in {0, 1} /\ BlockOf(vec[v].data) \in {0, 1}
    BY DEF BlockOf
  <2>5. CASE r.blocks = BlockOf(r.vec.data) - BlockOf(vec[v].data)
    <3>1. blocks' = blocks + (m - n) /\ m \in Int
      BY <1>2, <2>2, <2>4, <2>5
    <3> QED
      BY <1>1, <1>6, <2>1, <2>2, <2>3, <3>1 DEF BlocksOwned, Holders, Live, vector_is_initialized
  <2>6. CASE vec[v].data # Null /\ r.vec.data = Null /\ ~ok /\ r.blocks = 0
    <3>1. BlockOf(r.vec.data) = 0 /\ BlockOf(vec[v].data) = 1
      BY <2>6 DEF BlockOf
    <3>2. m = n - 1 /\ blocks' = blocks
      BY <1>1, <1>2, <2>2, <2>6, <3>1
    <3>3. oom'
      BY <1>2, <2>6
    <3> QED
      BY <1>1, <2>1, <2>2, <2>3, <3>2, <3>3 DEF BlocksOwned, Holders, Live, vector_is_initialized
  <2> QED
    BY <2>5, <2>6 DEF Sound
<1>9. \A u \in Vecs : known'[u] \in {"none", "failed"} => vec'[u].data = Null
  BY <1>3 DEF VecInv, Sound
<1>10. \A u \in Vecs : known'[u] = "inuse" /\ vec'[u].data = Null => oom'
  <2>1. ASSUME NEW u \in Vecs, u # v PROVE known'[u] = "inuse" /\ vec'[u].data = Null => oom'
    BY <1>3, <1>6, <2>1 DEF VecInv
  <2>2. known'[v] = "inuse" /\ vec'[v].data = Null => oom'
    BY <1>2, <1>3 DEF Sound, Safe
  <2> QED
    BY <2>1, <2>2
<1>11. LossNoticed
  BY <1>3 DEF LossNoticed, Sound, Live, vector_is_initialized
<1>12. oom' \in BOOLEAN /\ blocks' \in Int
  BY <1>1, <1>2, <1>5
<1>13. known' \in [Vecs -> {"none", "inuse", "failed", "faulted"}]
  BY <1>1, <1>2, <1>3
<1>14. vec' \in [Vecs -> [size : Nat, capacity : Nat, data : Seq(Contents) \cup {Null}]]
  BY <1>1, <1>2, <1>4
<1>15. \A u \in Vecs : IsVector(vec'[u])
  BY <1>3, <1>4 DEF VecInv
<1> QED
  BY <1>7, <1>8, <1>9, <1>10, <1>11, <1>12, <1>13, <1>14, <1>15 DEF VecInv, IsVector, VECTOR_MINIMUM_CAPACITY

LEMMA DestroyPreserves ==
  ASSUME VecInv, NEW v \in Vecs, Destroy(v)
  PROVE  VecInv' /\ LossNoticed
<1> DEFINE x == Struct(vec[v].size, vec[v].capacity, Null)
<1>1. /\ IsVector(vec[v]) /\ known \in [Vecs -> {"none", "inuse", "failed", "faulted"}]
      /\ vec \in [Vecs -> [size : Nat, capacity : Nat, data : Seq(Contents) \cup {Null}]]
      /\ blocks \in Int /\ oom \in BOOLEAN
  BY DEF VecInv
<1>2. /\ Running /\ vec' = [vec EXCEPT ![v] = x] /\ known' = [known EXCEPT ![v] = "none"]
      /\ blocks' = blocks - BlockOf(vec[v].data) /\ oom' = oom
  BY <1>1 DEF Destroy, vector_destroy, Result, One, BlockOf, vector_is_initialized
<1>3. x.data = Null /\ IsVector(x) /\ x \in [size : Nat, capacity : Nat, data : Seq(Contents) \cup {Null}]
  BY <1>1 DEF IsVector, Struct
<1> HIDE DEF x
<1>4. /\ vec'[v] = x /\ \A u \in Vecs : u # v => vec'[u] = vec[u]
      /\ known'[v] = "none" /\ \A u \in Vecs : u # v => known'[u] = known[u]
  BY <1>1, <1>2
<1>5. BlocksOwned'
  <2>1. PICK n, m : n = Cardinality(Holders) /\ m = Cardinality(Holders)'
    OBVIOUS
  <2>2. m = n + BlockOf(x.data) - BlockOf(vec[v].data) /\ n \in Nat
    BY <1>2, <2>1, HoldersChange, HoldersFinite
  <2>3. blocks >= n /\ (~oom => blocks = n)
    BY <2>1, OwnedBlocks DEF VecInv
  <2>4. BlockOf(x.data) = 0 /\ BlockOf(vec[v].data) \in {0, 1}
    BY <1>3 DEF BlockOf
  <2>5. blocks' = blocks + (m - n) /\ m \in Int
    BY <1>1, <1>2, <2>2, <2>4
  <2> QED
    BY <1>1, <1>2, <2>1, <2>2, <2>3, <2>5 DEF BlocksOwned, Holders, Live, vector_is_initialized
<1>6. FaultsOnlyAfterLoss'
  BY <1>2, <1>4 DEF FaultsOnlyAfterLoss, Running
<1>7. blocks' \in Int /\ oom' \in BOOLEAN
  BY <1>1, <1>2 DEF BlockOf
<1>8. /\ known' \in [Vecs -> {"none", "inuse", "failed", "faulted"}]
      /\ vec' \in [Vecs -> [size : Nat, capacity : Nat, data : Seq(Contents) \cup {Null}]]
  BY <1>1, <1>2, <1>3
<1>9. /\ \A u \in Vecs : IsVector(vec'[u])
      /\ \A u \in Vecs : known'[u] \in {"none", "failed"} => vec'[u].data = Null
      /\ \A u \in Vecs : known'[u] = "inuse" /\ vec'[u].data = Null => oom'
  BY <1>2, <1>3, <1>4 DEF VecInv
<1>10. LossNoticed
  BY <1>4 DEF LossNoticed, Live, vector_is_initialized
<1> QED
  BY <1>5, <1>6, <1>7, <1>8, <1>9, <1>10 DEF VecInv, IsVector, VECTOR_MINIMUM_CAPACITY

(* v takes the block of u, and x is what is left in u. *)
LEMMA BothPreserves ==
  ASSUME VecInv, NEW v \in Vecs, NEW u \in Vecs, NEW x, NEW freed,
         vec[u].data # Null, IsVector(x),
         freed = BlockOf(vec[v].data) - BlockOf(x.data),
         Both(v, vec[u], u, x, freed)
  PROVE  VecInv' /\ LossNoticed
<1>1. /\ IsVector(vec[u]) /\ known \in [Vecs -> {"none", "inuse", "failed", "faulted"}]
      /\ vec \in [Vecs -> [size : Nat, capacity : Nat, data : Seq(Contents) \cup {Null}]]
      /\ blocks \in Int /\ oom \in BOOLEAN
  BY DEF VecInv
<1>2. /\ Running /\ u # v /\ vec' = [vec EXCEPT ![v] = vec[u], ![u] = x]
      /\ known' = [known EXCEPT ![v] = "inuse", ![u] = IF x.data = Null THEN "none" ELSE "inuse"]
      /\ blocks' = blocks - freed /\ oom' = oom
  BY DEF Both
<1>3. x \in [size : Nat, capacity : Nat, data : Seq(Contents) \cup {Null}]
  BY DEF IsVector
<1>4. /\ vec'[v] = vec[u] /\ vec'[u] = x /\ \A y \in Vecs : y # v /\ y # u => vec'[y] = vec[y]
      /\ known'[v] = "inuse" /\ known'[u] = (IF x.data = Null THEN "none" ELSE "inuse")
      /\ \A y \in Vecs : y # v /\ y # u => known'[y] = known[y]
  BY <1>1, <1>2
<1>5. BlocksOwned'
  <2> DEFINE h == Holders \cup {v}
  <2>1. PICK n, m : n = Cardinality(Holders) /\ m = Cardinality(Holders)'
    OBVIOUS
  <2>2. Holders' = IF x.data = Null THEN h \ {u} ELSE h
    BY <1>2, <1>4 DEF Holders
  <2>3. IsFiniteSet(Holders) /\ n \in Nat
    BY <2>1, HoldersFinite
  <2>4. IsFiniteSet(h) /\ Cardinality(h) = n + 1 - BlockOf(vec[v].data)
    <3>1. IsFiniteSet(h) /\ Cardinality(h) = IF v \in Holders THEN n ELSE n + 1
      BY <2>1, <2>3, FS_AddElement
    <3>2. v \in Holders <=> vec[v].data # Null
      BY DEF Holders
    <3> QED
      BY <2>3, <3>1, <3>2 DEF BlockOf
  <2>5. Cardinality(h \ {u}) = Cardinality(h) - 1
    <3>1. u \in h
      BY DEF Holders
    <3> QED
      BY <2>4, <3>1, FS_RemoveElement
  <2> HIDE DEF h
  <2>6. BlockOf(x.data) \in {0, 1} /\ BlockOf(vec[v].data) \in {0, 1}
    BY DEF BlockOf
  <2>7. m = n + BlockOf(x.data) - BlockOf(vec[v].data)
    BY <2>1, <2>2, <2>3, <2>4, <2>5, <2>6 DEF BlockOf
  <2>8. blocks' = blocks + (m - n) /\ m \in Int
    <3>1. PICK a, b : a = BlockOf(x.data) /\ b = BlockOf(vec[v].data)
      OBVIOUS
    <3>2. a \in Int /\ b \in Int /\ freed = b - a /\ m = n + a - b
      BY <2>6, <2>7, <3>1
    <3> QED
      BY <1>1, <1>2, <2>3, <3>2
  <2>9. blocks >= n /\ (~oom => blocks = n)
    BY <2>1, OwnedBlocks DEF VecInv
  <2>10. BlocksOwned' <=> blocks' >= m /\ (~oom' => blocks' = m)
    BY <2>1 DEF BlocksOwned, Holders, Live, vector_is_initialized
  <2> QED
    BY <1>1, <1>2, <2>3, <2>8, <2>9, <2>10
<1>6. FaultsOnlyAfterLoss'
  <2>1. known'[u] # "faulted"
    BY <1>4
  <2>2. \A y \in Vecs : known'[y] # "faulted"
    BY <1>2, <1>4, <2>1 DEF Running
  <2> QED
    BY <2>2 DEF FaultsOnlyAfterLoss, Running
<1>7. blocks' \in Int /\ oom' \in BOOLEAN
  BY <1>1, <1>2 DEF BlockOf
<1>8. /\ known' \in [Vecs -> {"none", "inuse", "failed", "faulted"}]
      /\ vec' \in [Vecs -> [size : Nat, capacity : Nat, data : Seq(Contents) \cup {Null}]]
  BY <1>1, <1>2, <1>3
<1>9. /\ \A y \in Vecs : IsVector(vec'[y])
      /\ \A y \in Vecs : known'[y] \in {"none", "failed"} => vec'[y].data = Null
      /\ \A y \in Vecs : known'[y] = "inuse" /\ vec'[y].data = Null => oom'
  BY <1>1, <1>2, <1>4 DEF VecInv
<1>10. LossNoticed
  BY <1>4 DEF LossNoticed, Live, vector_is_initialized
<1> QED
  BY <1>5, <1>6, <1>7, <1>8, <1>9, <1>10 DEF VecInv, IsVector, VECTOR_MINIMUM_CAPACITY

(* A call on v that makes t of its elements, or fresh of a vector without. *)
Done(v, t, fresh, ok) ==
  \E r : Correct(vec[v], r, ok, t, fresh) /\ Safe(v, r) /\ Call(v, r, ok)

LEMMA UseIsSafe == ASSUME VecInv, NEW v \in Vecs, InUse(v), NEW r PROVE Safe(v, r)
BY DEF VecInv, InUse, Safe

LEMMA UseIsDone ==
  ASSUME VecInv, NEW v \in Vecs, InUse(v), NEW r, NEW t, NEW fresh, NEW ok,
         Correct(vec[v], r, ok, t, fresh), Call(v, r, ok)
  PROVE  Done(v, t, fresh, ok)
BY UseIsSafe DEF Done

LEMMA AllocsAreBooleans == \A ok \in Allocs : ok \in BOOLEAN
BY DEF Allocs

(* The functions that change the block and leave the elements. *)
Keeps(v, ok) == Done(v, vec[v].data, << >>, ok)

LEMMA KeepingCalls ==
  ASSUME VecInv, NEW v \in Vecs, NEW ok \in Allocs
  PROVE  /\ \A n \in 0 .. MaxSize : Reserve(v, n, ok) => Keeps(v, ok)
         /\ ShrinkToFit(v, ok) => Keeps(v, ok)
<1>1. IsVector(vec[v]) /\ vec[v].size \in Nat /\ ok \in BOOLEAN
  BY AllocsAreBooleans DEF VecInv, IsVector
<1>2. ASSUME NEW n \in 0 .. MaxSize, Reserve(v, n, ok) PROVE Keeps(v, ok)
  <2>1. n \in Nat
    BY VectorAssumption
  <2>2. Correct(vec[v], vector_reserve(vec[v], n, ok), ok, vec[v].data, << >>)
    <3>1. CASE n > vec[v].capacity
      <4>1. vec[v].data # Null => n >= vec[v].size
        BY <1>1, <2>1, <3>1 DEF IsVector
      <4>2. Correct(vec[v], _vector_reallocate(vec[v], n, ok), ok, vec[v].data, << >>)
        BY <1>1, <2>1, <4>1, ReserveCorrect
      <4> QED
        BY <3>1, <4>2 DEF vector_reserve
    <3>2. CASE ~(n > vec[v].capacity)
      <4>1. vector_reserve(vec[v], n, ok) = Result(vec[v], "SUCCESS", 0)
        BY <3>2 DEF vector_reserve, Success
      <4>2. PICK r : r = Result(vec[v], "SUCCESS", 0)
        OBVIOUS
      <4>3. r.vec = vec[v] /\ r.ret = "SUCCESS" /\ r.blocks = 0
        BY <4>2 DEF Result
      <4>4. Sound(vec[v], r, ok)
        BY <1>1, <4>3 DEF Sound, BlockOf
      <4> QED
        BY <4>1, <4>2, <4>3, <4>4 DEF Correct, Gave
    <3> QED
      BY <3>1, <3>2
  <2> QED
    BY <1>2, <2>2, UseIsDone DEF Reserve, Keeps
<1>3. ASSUME ShrinkToFit(v, ok) PROVE Keeps(v, ok)
  <2>1. Correct(vec[v], vector_shrink_to_fit(vec[v], ok), ok, vec[v].data, << >>)
    BY <1>1, ReserveCorrect DEF vector_shrink_to_fit
  <2> QED
    BY <1>3, <2>1, UseIsDone DEF ShrinkToFit, Keeps
<1> QED
  BY <1>2, <1>3

LEMMA PushingCalls ==
  ASSUME VecInv, NEW v \in Vecs, NEW ok \in Allocs, NEW e \in Elems
  PROVE  /\ PushBack(v, e, ok) => Done(v, Append(vec[v].data, e), << >>, ok)
         /\ PushFront(v, e, ok) => Done(v, <<e>> \o vec[v].data, << >>, ok)
         /\ \A i \in 0 .. MaxSize :
              Insert(v, i, e, ok) => Done(v, InsertAt(vec[v].data, i + 1, e), << >>, ok)
<1>1. IsVector(vec[v]) /\ vec[v].size \in Nat /\ ok \in BOOLEAN
  BY AllocsAreBooleans DEF VecInv, IsVector
<1>2. ASSUME PushBack(v, e, ok) PROVE Done(v, Append(vec[v].data, e), << >>, ok)
  <2>1. Correct(vec[v], vector_push_back(vec[v], e, ok), ok, Append(vec[v].data, e), << >>)
    BY <1>1, PushBackCorrect
  <2> QED
    BY <1>2, <2>1, UseIsDone DEF PushBack, Fillable
<1>3. ASSUME PushFront(v, e, ok) PROVE Done(v, <<e>> \o vec[v].data, << >>, ok)
  <2>1. Correct(vec[v], vector_push_front(vec[v], e, ok), ok, <<e>> \o vec[v].data, << >>)
    BY <1>1, PushFrontCorrect
  <2> QED
    BY <1>3, <2>1, UseIsDone DEF PushFront, Fillable
<1>4. ASSUME NEW i \in 0 .. MaxSize, Insert(v, i, e, ok)
      PROVE  Done(v, InsertAt(vec[v].data, i + 1, e), << >>, ok)
  <2>1. i \in 0 .. vec[v].size
    BY <1>1, <1>4, VectorAssumption DEF Insert
  <2>2. Correct(vec[v], vector_insert(vec[v], i, e, ok), ok, InsertAt(vec[v].data, i + 1, e), << >>)
    BY <1>1, <2>1, InsertCorrect
  <2> QED
    BY <1>4, <2>2, UseIsDone DEF Insert, Fillable
<1> QED
  BY <1>2, <1>3, <1>4

LEMMA AssigningCall ==
  ASSUME VecInv, NEW v \in Vecs, NEW i \in 0 .. MaxSize, NEW e \in Elems, Assign(v, i, e)
  PROVE  Done(v, [vec[v].data EXCEPT ![i + 1] = e], << >>, TRUE)
<1>1. IsVector(vec[v]) /\ i \in 0 .. vec[v].size - 1
  BY VectorAssumption DEF VecInv, IsVector, Assign
<1>2. Correct(vec[v], vector_assign(vec[v], i, e), TRUE, [vec[v].data EXCEPT ![i + 1] = e], << >>)
  BY <1>1, AssignCorrect
<1> QED
  BY <1>2, UseIsDone DEF Assign

LEMMA RemovingCalls ==
  ASSUME VecInv, NEW v \in Vecs, NEW ok \in Allocs
  PROVE  /\ PopBack(v, ok) => Done(v, Front(vec[v].data), << >>, ok)
         /\ PopFront(v, ok) => Done(v, Tail(vec[v].data), << >>, ok)
         /\ \A i \in 0 .. MaxSize :
              Erase(v, i, ok) => Done(v, RemoveAt(vec[v].data, i + 1), << >>, ok)
<1>1. IsVector(vec[v]) /\ vec[v].size \in Nat /\ ok \in BOOLEAN
  BY AllocsAreBooleans DEF VecInv, IsVector
<1>2. ASSUME PopBack(v, ok) PROVE Done(v, Front(vec[v].data), << >>, ok)
  <2>1. Correct(vec[v], vector_pop_back(vec[v], ok), ok, Front(vec[v].data), << >>)
    BY <1>1, <1>2, PopBackCorrect DEF PopBack
  <2> QED
    BY <1>2, <2>1, UseIsDone DEF PopBack
<1>3. ASSUME PopFront(v, ok) PROVE Done(v, Tail(vec[v].data), << >>, ok)
  <2>1. Correct(vec[v], vector_pop_front(vec[v], ok), ok, Tail(vec[v].data), << >>)
    BY <1>1, <1>3, PopFrontCorrect DEF PopFront
  <2> QED
    BY <1>3, <2>1, UseIsDone DEF PopFront
<1>4. ASSUME NEW i \in 0 .. MaxSize, Erase(v, i, ok)
      PROVE  Done(v, RemoveAt(vec[v].data, i + 1), << >>, ok)
  <2>1. i \in 0 .. vec[v].size - 1
    BY <1>1, <1>4, VectorAssumption DEF Erase
  <2>2. Correct(vec[v], vector_erase(vec[v], i, ok), ok, RemoveAt(vec[v].data, i + 1), << >>)
    BY <1>1, <2>1, EraseCorrect
  <2> QED
    BY <1>4, <2>2, UseIsDone DEF Erase
<1> QED
  BY <1>2, <1>3, <1>4

LEMMA ResizingCall ==
  ASSUME VecInv, NEW v \in Vecs, NEW ok \in Allocs, NEW n \in 0 .. MaxSize, Resize(v, n, ok)
  PROVE  Done(v, Exposed(vec[v].data, n), Exposed(<< >>, n), ok)
<1>1. IsVector(vec[v]) /\ ok \in BOOLEAN
  BY AllocsAreBooleans DEF VecInv
<1>2. Correct(vec[v], vector_resize(vec[v], n, ok), ok, Exposed(vec[v].data, n), Exposed(<< >>, n))
  BY <1>1, ResizeCorrect
<1> QED
  BY <1>2, UseIsDone DEF Resize

(* A call that gives v the elements t, or none if there is no memory.      *)
Filled(v, t, ok) ==
  \E r : \E m \in BOOLEAN : /\ Sound(vec[v], r, m) /\ Safe(v, r) /\ Call(v, r, m)
                            /\ r.vec.data = IF ok THEN t ELSE Null

LEMMA SettingUp ==
  ASSUME VecInv, NEW v \in Vecs, NEW ok \in Allocs, NEW n \in {0, MaxSize}, Setup(v, n, ok)
  PROVE  Filled(v, << >>, ok)
<1>1. IsVector(vec[v]) /\ vec[v].data = Null /\ n \in Nat /\ ok \in BOOLEAN
  BY AllocsAreBooleans, VectorAssumption DEF Setup, VecInv
<1>2. PICK r : r = vector_setup(n, ok)
  OBVIOUS
<1>3. Sound(vec[v], r, ok) /\ Safe(v, r) /\ r.vec.data = IF ok THEN << >> ELSE Null
  BY <1>1, <1>2, SetupSound DEF Safe
<1> QED
  BY <1>1, <1>2, <1>3 DEF Filled, Setup

(* A copy of a vector that is not empty. *)
LEMMA Copies ==
  ASSUME VecInv, MinCopied >= 1, NEW v \in Vecs, NEW u \in Vecs, NEW ok \in Allocs,
         Copy(v, u, ok) \/ CopyAssign(v, u, ok)
  PROVE  Filled(v, vec[u].data, ok) /\ vec[u].data # Null
<1>1. IsVector(vec[v]) /\ IsVector(vec[u]) /\ vec[u].data # Null /\ vec[u].size >= 1
  <2>1. vec[u].data # Null /\ vec[u].size >= MinCopied
    BY DEF Copy, CopyAssign, Copyable, Live, vector_is_initialized
  <2>2. IsVector(vec[v]) /\ IsVector(vec[u])
    BY DEF VecInv
  <2>3. vec[u].size \in Nat
    BY <2>2 DEF IsVector
  <2> QED
    BY <2>1, <2>2, <2>3, VectorAssumption
<1>2. ok \in BOOLEAN
  BY AllocsAreBooleans
<1>3. CASE Copy(v, u, ok)
  <2>1. Call(v, vector_copy(vec[u], ok), ok)
    BY <1>3 DEF Copy
  <2>2. PICK c, r : /\ c = vector_copy(vec[u], ok)
                    /\ r = Result(c.vec, c.ret, c.blocks - BlockOf(vec[v].data))
    OBVIOUS
  <2>3. /\ Sound(vec[v], r, TRUE) /\ r.ret # "FAULT" /\ (r.ret = "SUCCESS" => r.vec.data # Null)
        /\ r.vec.data = IF ok THEN vec[u].data ELSE Null
    BY <1>1, <1>2, <2>2, CopySound
  <2>4. vec[v].data = Null /\ BlockOf(vec[v].data) = 0
    BY <1>3 DEF Copy, VecInv, BlockOf
  <2>5. r = c
    BY <2>2, <2>4 DEF vector_copy, Result, One
  <2>6. Sound(vec[v], r, ok) /\ Safe(v, r)
    BY <2>3, <2>4 DEF Sound, Safe
  <2> QED
    BY <1>1, <1>2, <2>1, <2>2, <2>3, <2>5, <2>6 DEF Filled
<1>4. CASE CopyAssign(v, u, ok)
  <2>1. LET c == vector_copy(vec[u], ok)
        IN Call(v, Result(c.vec, c.ret, c.blocks + vector_destroy(vec[v]).blocks), TRUE)
    BY <1>4 DEF CopyAssign
  <2>2. PICK c, r : /\ c = vector_copy(vec[u], ok)
                    /\ r = Result(c.vec, c.ret, c.blocks - BlockOf(vec[v].data))
    OBVIOUS
  <2>3. /\ Sound(vec[v], r, TRUE) /\ r.ret # "FAULT" /\ (r.ret = "SUCCESS" => r.vec.data # Null)
        /\ r.vec.data = IF ok THEN vec[u].data ELSE Null
    BY <1>1, <1>2, <2>2, CopySound
  <2>4. vector_destroy(vec[v]).blocks = 0 - BlockOf(vec[v].data) /\ BlockOf(vec[v].data) \in Int
    BY DEF vector_destroy, Result, One, BlockOf, vector_is_initialized
  <2>5. c.blocks \in Int
    BY <2>2 DEF vector_copy, Result, One
  <2>6. Call(v, r, TRUE)
    <3>1. c.blocks + vector_destroy(vec[v]).blocks = c.blocks - BlockOf(vec[v].data)
      BY <2>4, <2>5
    <3> QED
      BY <2>1, <2>2, <3>1
  <2>7. Safe(v, r)
    BY <2>3 DEF Safe
  <2> QED
    BY <1>1, <2>3, <2>6, <2>7 DEF Filled
<1> QED
  BY <1>3, <1>4

LEMMA Moves ==
  ASSUME VecInv, NEW v \in Vecs, NEW u \in Vecs,
         Move(v, u) \/ vector_swap(v, u) \/ MoveAssign(v, u)
  PROVE  \E x, freed : /\ IsVector(x) /\ x.data \in {vec[v].data, Null}
                       /\ freed = BlockOf(vec[v].data) - BlockOf(x.data)
                       /\ vec[u].data # Null /\ Both(v, vec[u], u, x, freed)
<1>1. IsVector(vec[v]) /\ IsVector(vec[u]) /\ vec[u].data # Null
  BY DEF VecInv, Move, vector_swap, MoveAssign, Live, vector_is_initialized
<1>2. CASE Move(v, u)
  <2>1. PICK x : x = Struct(vec[u].size, vec[u].capacity, Null)
    OBVIOUS
  <2>2. vec[v].data = Null
    BY <1>2 DEF Move, VecInv
  <2>3. IsVector(x) /\ x.data = Null
    BY <1>1, <2>1 DEF IsVector, Struct
  <2>4. 0 = BlockOf(vec[v].data) - BlockOf(x.data)
    BY <2>2, <2>3 DEF BlockOf
  <2>5. Both(v, vec[u], u, x, 0)
    BY <1>2, <2>1 DEF Move
  <2> QED
    BY <1>1, <2>3, <2>4, <2>5
<1>3. CASE vector_swap(v, u)
  <2>1. vec[v].data # Null /\ Both(v, vec[u], u, vec[v], 0)
    BY <1>3 DEF vector_swap, Live, vector_is_initialized
  <2>2. 0 = BlockOf(vec[v].data) - BlockOf(vec[v].data)
    BY DEF BlockOf
  <2> QED
    BY <1>1, <2>1, <2>2
<1>4. CASE MoveAssign(v, u)
  <2>1. PICK x : x = vector_destroy(vec[v]).vec
    OBVIOUS
  <2>2. vec[v].data # Null /\ Both(v, vec[u], u, x, 1)
    BY <1>4, <2>1 DEF MoveAssign, Live, vector_is_initialized
  <2>3. IsVector(x) /\ x.data = Null
    BY <1>1, <2>1 DEF IsVector, Struct, vector_destroy, Result
  <2>4. 1 = BlockOf(vec[v].data) - BlockOf(x.data)
    BY <2>2, <2>3 DEF BlockOf
  <2> QED
    BY <1>1, <2>2, <2>3, <2>4
<1> QED
  BY <1>2, <1>3, <1>4

LEMMA VecStep ==
  ASSUME VecInv, MinCopied >= 1, [VecNext]_vecVars
  PROVE  VecInv' /\ LossNoticed
<1>1. ASSUME NEW v \in Vecs, NEW t, NEW fresh, NEW ok \in BOOLEAN, Done(v, t, fresh, ok)
      PROVE  VecInv' /\ LossNoticed
  BY <1>1, CallPreserves DEF Done, Correct
<1>2. ASSUME NEW v \in Vecs, NEW t, NEW ok, Filled(v, t, ok) PROVE VecInv' /\ LossNoticed
  BY <1>2, CallPreserves DEF Filled
<1>3. ASSUME NEW v \in Vecs, Destroy(v) PROVE VecInv' /\ LossNoticed
  BY <1>3, DestroyPreserves
<1>4. ASSUME NEW v \in Vecs, NEW u \in Vecs, Move(v, u) \/ vector_swap(v, u) \/ MoveAssign(v, u)
      PROVE  VecInv' /\ LossNoticed
  BY <1>4, Moves, BothPreserves
<1>5. CASE UNCHANGED vecVars
  BY <1>5 DEF vecVars, VecInv, LossNoticed, Live, vector_is_initialized, FaultsOnlyAfterLoss,
              Running, BlocksOwned, IsVector, VECTOR_MINIMUM_CAPACITY
<1>6. ASSUME NEW v \in Vecs, NEW i \in 0 .. MaxSize, NEW e \in Elems, Assign(v, i, e)
      PROVE  VecInv' /\ LossNoticed
  BY <1>1, <1>6, AssigningCall
<1>7. ASSUME NEW v \in Vecs, NEW ok \in Allocs,
             PopBack(v, ok) \/ PopFront(v, ok) \/ \E n \in 0 .. MaxSize : Erase(v, n, ok)
      PROVE  VecInv' /\ LossNoticed
  BY <1>1, <1>7, RemovingCalls, AllocsAreBooleans
<1>8. ASSUME NEW v \in Vecs, NEW ok \in Allocs, NEW n \in 0 .. MaxSize,
             ShrinkToFit(v, ok) \/ Resize(v, n, ok) \/ Reserve(v, n, ok)
      PROVE  VecInv' /\ LossNoticed
  BY <1>1, <1>8, KeepingCalls, ResizingCall, AllocsAreBooleans DEF Keeps
<1>9. ASSUME NEW v \in Vecs, NEW ok \in Allocs, NEW e \in Elems,
             \/ PushBack(v, e, ok) \/ PushFront(v, e, ok)
             \/ \E i \in 0 .. MaxSize : Insert(v, i, e, ok)
      PROVE  VecInv' /\ LossNoticed
  BY <1>1, <1>9, PushingCalls, AllocsAreBooleans
<1>10. ASSUME NEW v \in Vecs, NEW ok \in Allocs, NEW n \in {0, MaxSize}, Setup(v, n, ok)
       PROVE  VecInv' /\ LossNoticed
  BY <1>2, <1>10, SettingUp
<1>11. ASSUME NEW v \in Vecs, NEW u \in Vecs, NEW ok \in Allocs,
              Copy(v, u, ok) \/ CopyAssign(v, u, ok)
       PROVE  VecInv' /\ LossNoticed
  BY <1>2, <1>11, Copies
<1>12. 0 \in 0 .. MaxSize
  BY VectorAssumption
<1> QED
  BY <1>3, <1>4, <1>5, <1>6, <1>7, <1>8, <1>9, <1>10, <1>11, <1>12 DEF VecNext

LEMMA VecStart == VecInit => VecInv
<1> SUFFICES ASSUME VecInit PROVE VecInv
  OBVIOUS
<1>1. \A v \in Vecs : vec[v] = Struct(0, 0, Null) /\ known[v] = "none"
  BY DEF VecInit, Uninitialized
<1>2. Struct(0, 0, Null) \in [size : Nat, capacity : Nat, data : Seq(Contents) \cup {Null}]
  BY DEF Struct
<1>3. IsVector(Struct(0, 0, Null)) /\ Struct(0, 0, Null).data = Null
  BY DEF IsVector, Struct
<1>4. BlocksOwned
  <2>1. {v \in Vecs : Live(v)} = {}
    BY <1>1, <1>3 DEF Live, vector_is_initialized
  <2>2. Cardinality({}) = 0
    BY FS_EmptySet
  <2> QED
    BY <2>1, <2>2 DEF BlocksOwned, VecInit
<1>5. FaultsOnlyAfterLoss
  BY <1>1 DEF FaultsOnlyAfterLoss, Running
<1>6. /\ vec \in [Vecs -> [size : Nat, capacity : Nat, data : Seq(Contents) \cup {Null}]]
      /\ known \in [Vecs -> {"none", "inuse", "failed", "faulted"}]
  BY <1>2 DEF VecInit, Uninitialized
<1>7. blocks \in Int /\ oom \in BOOLEAN
  <2>1. blocks \in Int
    BY DEF VecInit
  <2>2. oom \in BOOLEAN
    BY Zenon DEF VecInit
  <2> QED
    BY <2>1, <2>2
<1>8. \A v \in Vecs : IsVector(vec[v]) /\ vec[v].data = Null /\ known[v] # "inuse"
  BY <1>1, <1>3
<1> QED
  BY <1>4, <1>5, <1>6, <1>7, <1>8 DEF VecInv

-----------------------------------------------------------------------------
(* The theorems are about callers that copy no empty vector: the copy of   *)
(* an empty one has capacity 0, and what follows of it is in the README.   *)

(* The inductive invariant: what every state satisfies. *)
THEOREM VecInvariant == ASSUME MinCopied >= 1 PROVE VecSpec => []VecInv
<1>1. VecInv /\ [VecNext]_vecVars => VecInv'
  BY VecStep
<1> QED
  BY VecStart, <1>1, PTL DEF VecSpec

(* Every vector that holds a block holds as many elements as its size      *)
(* says, and its block has room for them, whatever is called.              *)
THEOREM BlocksFit == ASSUME MinCopied >= 1 PROVE VecSpec => []BlockFits
<1>1. VecInv => BlockFits
  BY DEF VecInv, IsVector, BlockFits, Live, vector_is_initialized
<1> QED
  BY <1>1, VecInvariant, PTL

(* No call reads or writes outside a block, unless a reallocation failed   *)
(* earlier.                                                                *)
THEOREM FaultsHaveACause == ASSUME MinCopied >= 1 PROVE VecSpec => []FaultsOnlyAfterLoss
<1>1. VecInv => FaultsOnlyAfterLoss
  BY DEF VecInv
<1> QED
  BY <1>1, VecInvariant, PTL

(* Every block has one owner, and none is leaked before a reallocation     *)
(* fails.                                                                  *)
THEOREM NoLeak == ASSUME MinCopied >= 1 PROVE VecSpec => []BlocksOwned
<1>1. VecInv => BlocksOwned
  BY DEF VecInv
<1> QED
  BY <1>1, VecInvariant, PTL

(* Elements are lost silently by a removal only. *)
THEOREM LossIsReported == ASSUME MinCopied >= 1 PROVE VecSpec => LossReported
<1>1. VecInv /\ [VecNext]_vecVars => LossNoticed
  BY VecStep
<1>2. VecInv /\ [VecNext]_vecVars => [LossNoticed]_vecVars
  BY <1>1
<1> QED
  BY <1>2, VecInvariant, PTL DEF VecSpec, LossReported, LossNoticed

-----------------------------------------------------------------------------
(* The vectors are sequences. *)

Lists == [v \in Vecs |-> vec[v].data]

LEMMA ListsChange ==
  ASSUME VecInv, NEW v \in Vecs, NEW x, vec' = [vec EXCEPT ![v] = x]
  PROVE  Lists' = [Lists EXCEPT ![v] = x.data] /\ Lists[v] = vec[v].data
BY DEF VecInv, Lists

(* A call on one vector gives what the sequence operation gives. *)
LEMMA DoneGives ==
  ASSUME VecInv, NEW v \in Vecs, NEW t, NEW fresh, NEW ok, Done(v, t, fresh, ok)
  PROVE  Seqs!Gives(v, t, fresh, ok)
<1>1. PICK r : vec' = [vec EXCEPT ![v] = r.vec] /\ Gave(vec[v].data, t, fresh, r.vec.data, ok)
  BY DEF Done, Correct, Call
<1>2. PICK d, c : d = vec[v].data /\ c = r.vec.data
  OBVIOUS
<1>3. Lists' = [Lists EXCEPT ![v] = c] /\ Lists[v] = d /\ Gave(d, t, fresh, c, ok)
  BY <1>1, <1>2, ListsChange
<1> QED
  BY <1>3 DEF Gave, Seqs!Gives, Seqs!Becomes, Lists

LEMMA FilledBecomes ==
  ASSUME VecInv, NEW v \in Vecs, NEW t, NEW ok, Filled(v, t, ok)
  PROVE  Seqs!Becomes(v, IF ok THEN t ELSE Null)
<1>1. PICK r : vec' = [vec EXCEPT ![v] = r.vec] /\ r.vec.data = IF ok THEN t ELSE Null
  BY DEF Filled, Call
<1>2. Lists' = [Lists EXCEPT ![v] = r.vec.data]
  BY <1>1, ListsChange
<1> QED
  BY <1>1, <1>2 DEF Seqs!Becomes, Lists

LEMMA ListOf == \A v \in Vecs : Lists[v] = vec[v].data
BY DEF Lists

LEMMA SingleSteps ==
  ASSUME VecInv, NEW v \in Vecs, NEW ok \in Allocs
  PROVE  /\ PopBack(v, ok) => Seqs!pop_back(v, ok)
         /\ PopFront(v, ok) => Seqs!pop_front(v, ok)
         /\ ShrinkToFit(v, ok) => Seqs!keep(v, ok)
         /\ \A n \in {0, MaxSize} : Setup(v, n, ok) => Seqs!setup(v, ok)
<1>1. PICK d : d = vec[v].data /\ d = Lists[v]
  BY ListOf
<1>2. PopBack(v, ok) => Seqs!pop_back(v, ok)
  <2>1. PopBack(v, ok) => Seqs!Gives(v, Front(d), << >>, ok)
    BY <1>1, RemovingCalls, DoneGives
  <2> QED
    BY <1>1, <2>1 DEF Seqs!pop_back, Seqs!Changes, Seqs!Front, Front, Lists
<1>3. PopFront(v, ok) => Seqs!pop_front(v, ok)
  <2>1. PopFront(v, ok) => Seqs!Gives(v, Tail(d), << >>, ok)
    BY <1>1, RemovingCalls, DoneGives
  <2> QED
    BY <1>1, <2>1 DEF Seqs!pop_front, Seqs!Changes, Lists
<1>4. ShrinkToFit(v, ok) => Seqs!keep(v, ok)
  <2>1. Keeps(v, ok) => Seqs!Gives(v, d, << >>, ok)
    BY <1>1, DoneGives DEF Keeps
  <2> QED
    BY <1>1, <2>1, KeepingCalls DEF Seqs!keep, Seqs!Changes, Lists
<1>5. ASSUME NEW n \in {0, MaxSize}, Setup(v, n, ok) PROVE Seqs!setup(v, ok)
  BY <1>5, SettingUp, FilledBecomes DEF Seqs!setup
<1> QED
  BY <1>2, <1>3, <1>4, <1>5

LEMMA SizedSteps ==
  ASSUME VecInv, NEW v \in Vecs, NEW ok \in Allocs, NEW n \in 0 .. MaxSize
  PROVE  /\ Reserve(v, n, ok) => Seqs!keep(v, ok)
         /\ Resize(v, n, ok) => Seqs!resize(v, n, ok)
         /\ Erase(v, n, ok) => Seqs!erase(v, n, ok)
<1>1. PICK d : d = vec[v].data /\ d = Lists[v]
  BY ListOf
<1>2. Erase(v, n, ok) => Seqs!erase(v, n, ok)
  <2>1. Erase(v, n, ok) => Seqs!Gives(v, RemoveAt(d, n + 1), << >>, ok)
    BY <1>1, RemovingCalls, DoneGives
  <2> QED
    BY <1>1, <2>1 DEF Seqs!erase, Seqs!Changes, Seqs!RemoveAt, RemoveAt, Lists
<1>3. Reserve(v, n, ok) => Seqs!keep(v, ok)
  <2>1. Keeps(v, ok) => Seqs!Gives(v, d, << >>, ok)
    BY <1>1, DoneGives DEF Keeps
  <2> QED
    BY <1>1, <2>1, KeepingCalls DEF Seqs!keep, Seqs!Changes, Lists
<1>4. ASSUME Resize(v, n, ok) PROVE Seqs!resize(v, n, ok)
  <2>1. Seqs!Gives(v, Exposed(d, n), Exposed(<< >>, n), ok)
    BY <1>1, <1>4, ResizingCall, DoneGives
  <2>2. Exposed(<< >>, n) = Seqs!Cut(<< >>, n) /\ (d # Null => Exposed(d, n) = Seqs!Cut(d, n))
    BY NullFacts DEF Exposed, Seqs!Cut
  <2>3. Seqs!Gives(v, Seqs!Cut(d, n), Seqs!Cut(<< >>, n), ok)
    <3>1. PICK x, y : x = Exposed(d, n) /\ y = Seqs!Cut(d, n)
      OBVIOUS
    <3>2. PICK f : f = Exposed(<< >>, n)
      OBVIOUS
    <3>3. Seqs!Gives(v, x, f, ok) /\ (Lists[v] # Null => x = y)
      BY <1>1, <2>1, <2>2, <3>1, <3>2
    <3>4. Seqs!Gives(v, y, f, ok)
      BY <3>3 DEF Seqs!Gives, Lists
    <3> QED
      BY <2>2, <3>1, <3>2, <3>4
  <2> QED
    BY <1>1, <2>3 DEF Seqs!resize, Lists
<1> QED
  BY <1>2, <1>3, <1>4

LEMMA ElementSteps ==
  ASSUME VecInv, NEW v \in Vecs, NEW ok \in Allocs, NEW e \in Elems, NEW i \in 0 .. MaxSize
  PROVE  /\ PushBack(v, e, ok) => Seqs!push_back(v, e, ok)
         /\ PushFront(v, e, ok) => Seqs!push_front(v, e, ok)
         /\ Insert(v, i, e, ok) => Seqs!insert(v, i, e, ok)
         /\ Assign(v, i, e) => Seqs!assign(v, i, e)
<1>1. PICK d : d = vec[v].data /\ d = Lists[v]
  BY ListOf
<1>2. PushBack(v, e, ok) => Seqs!push_back(v, e, ok)
  <2>1. PushBack(v, e, ok) => Seqs!Gives(v, Append(d, e), << >>, ok)
    BY <1>1, PushingCalls, DoneGives
  <2> QED
    BY <1>1, <2>1 DEF Seqs!push_back, Seqs!Changes, Lists
<1>3. PushFront(v, e, ok) => Seqs!push_front(v, e, ok)
  <2>1. PushFront(v, e, ok) => Seqs!Gives(v, <<e>> \o d, << >>, ok)
    BY <1>1, PushingCalls, DoneGives
  <2> QED
    BY <1>1, <2>1 DEF Seqs!push_front, Seqs!Changes, Lists
<1>4. Insert(v, i, e, ok) => Seqs!insert(v, i, e, ok)
  <2>1. Insert(v, i, e, ok) => Seqs!Gives(v, InsertAt(d, i + 1, e), << >>, ok)
    BY <1>1, PushingCalls, DoneGives
  <2> QED
    BY <1>1, <2>1 DEF Seqs!insert, Seqs!Changes, Seqs!InsertAt, InsertAt, Lists
<1>5. Assign(v, i, e) => Seqs!assign(v, i, e)
  <2>1. Assign(v, i, e) => Seqs!Gives(v, [d EXCEPT ![i + 1] = e], << >>, TRUE)
    BY <1>1, AssigningCall, DoneGives
  <2> QED
    BY <1>1, <2>1 DEF Seqs!assign, Seqs!Changes, Lists
<1> QED
  BY <1>2, <1>3, <1>4, <1>5

LEMMA DestroyStep == ASSUME VecInv, NEW v \in Vecs, Destroy(v) PROVE Seqs!destroy(v)
<1>1. PICK x : x = Struct(vec[v].size, vec[v].capacity, Null)
  OBVIOUS
<1>2. vec' = [vec EXCEPT ![v] = x] /\ x.data = Null
  BY <1>1, StructFacts DEF Destroy, vector_destroy, Result, VecInv
<1>3. Lists' = [Lists EXCEPT ![v] = Null]
  BY <1>2, ListsChange
<1> QED
  BY <1>3 DEF Seqs!destroy, Seqs!Becomes, Lists

LEMMA CopyStep ==
  ASSUME VecInv, MinCopied >= 1, NEW v \in Vecs, NEW u \in Vecs, NEW ok \in Allocs,
         Copy(v, u, ok) \/ CopyAssign(v, u, ok)
  PROVE  Seqs!copy(v, u, ok)
<1>1. PICK d : d = vec[u].data /\ d = Lists[u]
  BY ListOf
<1>2. Filled(v, vec[u].data, ok) /\ vec[u].data # Null
  BY Copies
<1>3. d # Null /\ Filled(v, d, ok)
  BY <1>1, <1>2
<1>4. Seqs!Becomes(v, IF ok THEN d ELSE Null)
  BY <1>3, FilledBecomes
<1> QED
  BY <1>1, <1>3, <1>4 DEF Seqs!copy, Seqs!Becomes, Lists

LEMMA MoveStep ==
  ASSUME VecInv, NEW v \in Vecs, NEW u \in Vecs
  PROVE  /\ Move(v, u) \/ MoveAssign(v, u) => Seqs!move(v, u)
         /\ vector_swap(v, u) => Seqs!swap(v, u)
<1>1. ASSUME NEW x, vec' = [vec EXCEPT ![v] = vec[u], ![u] = x], u # v
      PROVE  Lists' = [Lists EXCEPT ![v] = Lists[u], ![u] = x.data]
  <2>1. PICK w : w = vec[u]
    OBVIOUS
  <2>2. vec' = [vec EXCEPT ![v] = w, ![u] = x]
    BY <1>1, <2>1
  <2>3. /\ Lists' = [Lists EXCEPT ![v] = w.data, ![u] = x.data]
        /\ Lists[u] = vec[u].data
    BY <1>1, <2>2 DEF VecInv, Lists
  <2> QED
    BY <2>1, <2>3
<1>2. ASSUME Move(v, u) \/ MoveAssign(v, u) PROVE Seqs!move(v, u)
  <2>1. vec[u].data # Null /\ u # v /\ \E x : x.data = Null /\ vec' = [vec EXCEPT ![v] = vec[u], ![u] = x]
    BY <1>2, StructFacts
       DEF Move, MoveAssign, Both, vector_destroy, Result, Live, vector_is_initialized
  <2>2. Lists' = [Lists EXCEPT ![v] = Lists[u], ![u] = Null] /\ Lists[u] # Null
    BY <1>1, <2>1, ListOf
  <2> QED
    BY <2>2 DEF Seqs!move, Lists
<1>3. ASSUME vector_swap(v, u) PROVE Seqs!swap(v, u)
  <2>1. u # v /\ vec' = [vec EXCEPT ![v] = vec[u], ![u] = vec[v]]
    BY <1>3 DEF vector_swap, Both
  <2>2. PICK x : x = vec[v] /\ vec' = [vec EXCEPT ![v] = vec[u], ![u] = x]
    BY <2>1
  <2>3. Lists' = [Lists EXCEPT ![v] = Lists[u], ![u] = x.data] /\ x.data = Lists[v]
    BY <1>1, <2>1, <2>2, ListOf
  <2> QED
    BY <2>3 DEF Seqs!swap, Lists
<1> QED
  BY <1>2, <1>3

(* What the history variable says is a call. *)
LEMMA CallsOfVectors ==
  ASSUME NEW v \in Vecs, NEW u \in Vecs, NEW ok \in BOOLEAN, NEW n \in 0 .. MaxSize
  PROVE  /\ <<"destroy", v>> \in Seqs!Calls
         /\ {<<"setup", v, ok>>, <<"pop_back", v, ok>>, <<"pop_front", v, ok>>} \subseteq Seqs!Calls
         /\ {<<"reserve", v, ok>>, <<"shrink_to_fit", v, ok>>} \subseteq Seqs!Calls
         /\ {<<"erase", v, n, ok>>, <<"resize", v, n, ok>>} \subseteq Seqs!Calls
         /\ {<<"move", v, u>>, <<"move_assign", v, u>>, <<"swap", v, u>>} \subseteq Seqs!Calls
         /\ {<<"copy", v, u, ok>>, <<"copy_assign", v, u, ok>>} \subseteq Seqs!Calls
BY DEF Seqs!Calls

LEMMA CallsWithElements ==
  ASSUME NEW v \in Vecs, NEW ok \in BOOLEAN, NEW n \in 0 .. MaxSize, NEW e \in Elems
  PROVE  /\ {<<"push_back", v, e, ok>>, <<"push_front", v, e, ok>>} \subseteq Seqs!Calls
         /\ <<"insert", v, n, e, ok>> \in Seqs!Calls
         /\ <<"assign", v, n, e>> \in Seqs!Calls
BY DEF Seqs!Calls

(* What is called is what the history variable says. *)
LEMMA DoesWhatIsCalled == ASSUME NEW c, call' = c, Seqs!Does(c) PROVE Seqs!Does(call')
<1>1. Seqs!setup(c[2], c[3]) => Seqs!setup(call'[2], call'[3])
  BY DEF Seqs!setup, Seqs!Becomes
<1>2. Seqs!destroy(c[2]) => Seqs!destroy(call'[2])
  BY DEF Seqs!destroy, Seqs!Becomes
<1>3. Seqs!push_back(c[2], c[3], c[4]) => Seqs!push_back(call'[2], call'[3], call'[4])
  BY DEF Seqs!push_back, Seqs!Changes, Seqs!Gives, Seqs!Becomes
<1>4. Seqs!push_front(c[2], c[3], c[4]) => Seqs!push_front(call'[2], call'[3], call'[4])
  BY DEF Seqs!push_front, Seqs!Changes, Seqs!Gives, Seqs!Becomes
<1>5. Seqs!insert(c[2], c[3], c[4], c[5]) => Seqs!insert(call'[2], call'[3], call'[4], call'[5])
  BY DEF Seqs!insert, Seqs!Changes, Seqs!Gives, Seqs!Becomes
<1>6. Seqs!assign(c[2], c[3], c[4]) => Seqs!assign(call'[2], call'[3], call'[4])
  BY DEF Seqs!assign, Seqs!Changes, Seqs!Gives, Seqs!Becomes
<1>7. Seqs!pop_back(c[2], c[3]) => Seqs!pop_back(call'[2], call'[3])
  BY DEF Seqs!pop_back, Seqs!Changes, Seqs!Gives, Seqs!Becomes
<1>8. Seqs!pop_front(c[2], c[3]) => Seqs!pop_front(call'[2], call'[3])
  BY DEF Seqs!pop_front, Seqs!Changes, Seqs!Gives, Seqs!Becomes
<1>9. Seqs!erase(c[2], c[3], c[4]) => Seqs!erase(call'[2], call'[3], call'[4])
  BY DEF Seqs!erase, Seqs!Changes, Seqs!Gives, Seqs!Becomes
<1>10. Seqs!resize(c[2], c[3], c[4]) => Seqs!resize(call'[2], call'[3], call'[4])
  BY DEF Seqs!resize, Seqs!Cut, Seqs!Gives, Seqs!Becomes
<1>11. Seqs!keep(c[2], c[3]) => Seqs!keep(call'[2], call'[3])
  BY DEF Seqs!keep, Seqs!Changes, Seqs!Gives, Seqs!Becomes
<1>12. Seqs!copy(c[2], c[3], c[4]) => Seqs!copy(call'[2], call'[3], call'[4])
  BY DEF Seqs!copy, Seqs!Becomes
<1>13. Seqs!move(c[2], c[3]) => Seqs!move(call'[2], call'[3])
  BY DEF Seqs!move
<1>14. Seqs!swap(c[2], c[3]) => Seqs!swap(call'[2], call'[3])
  BY DEF Seqs!swap
<1> QED
  BY <1>1, <1>2, <1>3, <1>4, <1>5, <1>6, <1>7, <1>8, <1>9, <1>10, <1>11, <1>12, <1>13, <1>14 DEF Seqs!Does

(* vector.c implements sequences: growing, shrinking and moving blocks,    *)
(* and running out of memory, never change an element in place, reorder    *)
(* elements or give one vector the elements of another; each call does to  *)
(* the sequences what its name says with its arguments.                    *)
THEOREM VectorsAreSequences == ASSUME MinCopied >= 1 PROVE HistSpec => VectorIsSequence
<1>1. HistInit => Seqs!SeqInit /\ VecInv
  <2> SUFFICES ASSUME HistInit PROVE \A v \in Vecs : vec[v].data = Null
    BY VecStart DEF Seqs!SeqInit, HistInit
  <2> QED
    BY DEF HistInit, VecInit, Uninitialized, Struct
<1>2. VecInv /\ [HistNext]_<<vecVars, call>> => VecInv'
  <2>1. HistNext => VecNext
    BY DEF HistNext, VecNext
  <2>2. <<vecVars, call>>' = <<vecVars, call>> => UNCHANGED vecVars
    OBVIOUS
  <2> QED
    BY <2>1, <2>2, VecStep
<1>3. VecInv /\ [HistNext]_<<vecVars, call>> => [Seqs!SeqNext]_<<Lists, call>>
  <2> SUFFICES ASSUME VecInv, HistNext PROVE Seqs!SeqNext
    BY DEF vecVars, Lists
  <2>1. ASSUME NEW c \in Seqs!Calls, Called(c), Seqs!Does(c) PROVE Seqs!SeqNext
    <3>1. call' = c
      BY <2>1 DEF Called
    <3>2. Seqs!Does(call')
      BY <2>1, <3>1, DoesWhatIsCalled
    <3> QED
      BY <2>1, <3>1, <3>2 DEF Seqs!SeqNext
  <2>2. 0 \in 0 .. MaxSize
    BY VectorAssumption
  <2>3. ASSUME NEW v \in Vecs, NEW ok \in Allocs, NEW n \in 0 .. MaxSize,
               \/ PopBack(v, ok) /\ Called(<<"pop_back", v, ok>>)
               \/ PopFront(v, ok) /\ Called(<<"pop_front", v, ok>>)
               \/ ShrinkToFit(v, ok) /\ Called(<<"shrink_to_fit", v, ok>>)
               \/ Resize(v, n, ok) /\ Called(<<"resize", v, n, ok>>)
               \/ Reserve(v, n, ok) /\ Called(<<"reserve", v, ok>>)
               \/ Erase(v, n, ok) /\ Called(<<"erase", v, n, ok>>)
        PROVE  Seqs!SeqNext
    <3>1. ok \in BOOLEAN
      BY AllocsAreBooleans
    <3>2. CASE PopBack(v, ok) /\ Called(<<"pop_back", v, ok>>)
      <4>1. Seqs!pop_back(v, ok) /\ <<"pop_back", v, ok>> \in Seqs!Calls
        BY <3>1, <3>2, SingleSteps, CallsOfVectors
      <4>2. Seqs!Does(<<"pop_back", v, ok>>)
        BY <4>1 DEF Seqs!Does
      <4> QED
        BY <2>1, <3>2, <4>1, <4>2
    <3>3. CASE PopFront(v, ok) /\ Called(<<"pop_front", v, ok>>)
      <4>1. Seqs!pop_front(v, ok) /\ <<"pop_front", v, ok>> \in Seqs!Calls
        BY <3>1, <3>3, SingleSteps, CallsOfVectors
      <4>2. Seqs!Does(<<"pop_front", v, ok>>)
        BY <4>1 DEF Seqs!Does
      <4> QED
        BY <2>1, <3>3, <4>1, <4>2
    <3>4. CASE ShrinkToFit(v, ok) /\ Called(<<"shrink_to_fit", v, ok>>)
      <4>1. Seqs!keep(v, ok) /\ <<"shrink_to_fit", v, ok>> \in Seqs!Calls
        BY <3>1, <3>4, SingleSteps, CallsOfVectors
      <4>2. Seqs!Does(<<"shrink_to_fit", v, ok>>)
        BY <4>1 DEF Seqs!Does
      <4> QED
        BY <2>1, <3>4, <4>1, <4>2
    <3>5. CASE Resize(v, n, ok) /\ Called(<<"resize", v, n, ok>>)
      <4>1. Seqs!resize(v, n, ok)
        BY <3>5, SizedSteps
      <4>2. <<"resize", v, n, ok>> \in Seqs!Calls
        BY <3>1, CallsOfVectors
      <4>3. Seqs!Does(<<"resize", v, n, ok>>)
        BY <4>1 DEF Seqs!Does
      <4> QED
        BY <2>1, <3>5, <4>2, <4>3
    <3>6. CASE Reserve(v, n, ok) /\ Called(<<"reserve", v, ok>>)
      <4>1. Seqs!keep(v, ok)
        BY <3>6, SizedSteps
      <4>2. <<"reserve", v, ok>> \in Seqs!Calls
        BY <3>1, CallsOfVectors
      <4>3. Seqs!Does(<<"reserve", v, ok>>)
        BY <4>1 DEF Seqs!Does
      <4> QED
        BY <2>1, <3>6, <4>2, <4>3
    <3>7. CASE Erase(v, n, ok) /\ Called(<<"erase", v, n, ok>>)
      <4>1. Seqs!erase(v, n, ok)
        BY <3>7, SizedSteps
      <4>2. <<"erase", v, n, ok>> \in Seqs!Calls
        BY <3>1, CallsOfVectors
      <4>3. Seqs!Does(<<"erase", v, n, ok>>)
        BY <4>1 DEF Seqs!Does
      <4> QED
        BY <2>1, <3>7, <4>2, <4>3
    <3> QED
      BY <2>3, <3>2, <3>3, <3>4, <3>5, <3>6, <3>7
  <2>4. ASSUME NEW v \in Vecs, NEW ok \in Allocs, NEW n \in {0, MaxSize},
               Setup(v, n, ok), Called(<<"setup", v, ok>>)
        PROVE  Seqs!SeqNext
    <3>1. ok \in BOOLEAN
      BY AllocsAreBooleans
    <3>2. Seqs!setup(v, ok) /\ <<"setup", v, ok>> \in Seqs!Calls
      BY <2>2, <2>4, <3>1, SingleSteps, CallsOfVectors
    <3>3. Seqs!Does(<<"setup", v, ok>>)
      BY <3>2 DEF Seqs!Does
    <3> QED
      BY <2>1, <2>4, <3>2, <3>3
  <2>5. ASSUME NEW v \in Vecs, NEW ok \in Allocs, NEW e \in Elems, NEW i \in 0 .. MaxSize,
               \/ PushBack(v, e, ok) /\ Called(<<"push_back", v, e, ok>>)
               \/ PushFront(v, e, ok) /\ Called(<<"push_front", v, e, ok>>)
               \/ Insert(v, i, e, ok) /\ Called(<<"insert", v, i, e, ok>>)
        PROVE  Seqs!SeqNext
    <3>1. ok \in BOOLEAN
      BY AllocsAreBooleans
    <3>2. CASE PushBack(v, e, ok) /\ Called(<<"push_back", v, e, ok>>)
      <4>1. Seqs!push_back(v, e, ok) /\ <<"push_back", v, e, ok>> \in Seqs!Calls
        BY <3>1, <3>2, ElementSteps, CallsWithElements
      <4>2. Seqs!Does(<<"push_back", v, e, ok>>)
        BY <4>1 DEF Seqs!Does
      <4> QED
        BY <2>1, <3>2, <4>1, <4>2
    <3>3. CASE PushFront(v, e, ok) /\ Called(<<"push_front", v, e, ok>>)
      <4>1. Seqs!push_front(v, e, ok) /\ <<"push_front", v, e, ok>> \in Seqs!Calls
        BY <3>1, <3>3, ElementSteps, CallsWithElements
      <4>2. Seqs!Does(<<"push_front", v, e, ok>>)
        BY <4>1 DEF Seqs!Does
      <4> QED
        BY <2>1, <3>3, <4>1, <4>2
    <3>4. CASE Insert(v, i, e, ok) /\ Called(<<"insert", v, i, e, ok>>)
      <4>1. Seqs!insert(v, i, e, ok)
        BY <3>4, ElementSteps
      <4>2. <<"insert", v, i, e, ok>> \in Seqs!Calls
        BY <3>1, CallsWithElements
      <4>3. Seqs!Does(<<"insert", v, i, e, ok>>)
        BY <4>1 DEF Seqs!Does
      <4> QED
        BY <2>1, <3>4, <4>2, <4>3
    <3> QED
      BY <2>5, <3>2, <3>3, <3>4
  <2>6. ASSUME NEW v \in Vecs, NEW e \in Elems, NEW i \in 0 .. MaxSize,
               Assign(v, i, e), Called(<<"assign", v, i, e>>)
        PROVE  Seqs!SeqNext
    <3>1. TRUE \in Allocs /\ TRUE \in BOOLEAN
      BY DEF Allocs
    <3>2. Seqs!assign(v, i, e)
      BY <2>6, <3>1, ElementSteps
    <3>3. <<"assign", v, i, e>> \in Seqs!Calls
      BY <3>1, CallsWithElements
    <3>4. Seqs!Does(<<"assign", v, i, e>>)
      BY <3>2 DEF Seqs!Does
    <3> QED
      BY <2>1, <2>6, <3>3, <3>4
  <2>7. ASSUME NEW v \in Vecs, Destroy(v), Called(<<"destroy", v>>) PROVE Seqs!SeqNext
    BY <2>1, <2>2, <2>7, DestroyStep, CallsOfVectors DEF Seqs!Does
  <2>8. ASSUME NEW v \in Vecs, NEW u \in Vecs, NEW ok \in Allocs,
               \/ Copy(v, u, ok) /\ Called(<<"copy", v, u, ok>>)
               \/ CopyAssign(v, u, ok) /\ Called(<<"copy_assign", v, u, ok>>)
        PROVE  Seqs!SeqNext
    <3>1. ok \in BOOLEAN
      BY AllocsAreBooleans
    <3>2. /\ Seqs!copy(v, u, ok)
          /\ <<"copy", v, u, ok>> \in Seqs!Calls /\ <<"copy_assign", v, u, ok>> \in Seqs!Calls
      BY <2>2, <2>8, <3>1, CopyStep, CallsOfVectors
    <3>3. Seqs!Does(<<"copy", v, u, ok>>) /\ Seqs!Does(<<"copy_assign", v, u, ok>>)
      BY <3>2 DEF Seqs!Does
    <3> QED
      BY <2>1, <2>8, <3>2, <3>3
  <2>9. ASSUME NEW v \in Vecs, NEW u \in Vecs,
               \/ Move(v, u) /\ Called(<<"move", v, u>>)
               \/ vector_swap(v, u) /\ Called(<<"swap", v, u>>)
               \/ MoveAssign(v, u) /\ Called(<<"move_assign", v, u>>)
        PROVE  Seqs!SeqNext
    <3>1. /\ <<"move", v, u>> \in Seqs!Calls /\ <<"move_assign", v, u>> \in Seqs!Calls
          /\ <<"swap", v, u>> \in Seqs!Calls
      BY <2>2, CallsOfVectors
    <3>2. /\ Seqs!move(v, u) => Seqs!Does(<<"move", v, u>>) /\ Seqs!Does(<<"move_assign", v, u>>)
          /\ Seqs!swap(v, u) => Seqs!Does(<<"swap", v, u>>)
      BY DEF Seqs!Does
    <3> QED
      BY <2>1, <2>9, <3>1, <3>2, MoveStep
  <2>10. ASSUME NEW v \in Vecs,
                \/ Destroy(v) /\ Called(<<"destroy", v>>)
                \/ \E i \in 0 .. MaxSize, e \in Elems : Assign(v, i, e) /\ Called(<<"assign", v, i, e>>)
         PROVE  Seqs!SeqNext
    BY <2>6, <2>7, <2>10
  <2>11. ASSUME NEW v \in Vecs, NEW ok \in Allocs,
                \/ PopBack(v, ok) /\ Called(<<"pop_back", v, ok>>)
                \/ PopFront(v, ok) /\ Called(<<"pop_front", v, ok>>)
                \/ ShrinkToFit(v, ok) /\ Called(<<"shrink_to_fit", v, ok>>)
                \/ \E n \in 0 .. MaxSize :
                     \/ Resize(v, n, ok) /\ Called(<<"resize", v, n, ok>>)
                     \/ Reserve(v, n, ok) /\ Called(<<"reserve", v, ok>>)
                     \/ Erase(v, n, ok) /\ Called(<<"erase", v, n, ok>>)
         PROVE  Seqs!SeqNext
    BY <2>2, <2>3, <2>11
  <2>12. ASSUME NEW v \in Vecs, NEW ok \in Allocs, NEW e \in Elems,
                \/ PushBack(v, e, ok) /\ Called(<<"push_back", v, e, ok>>)
                \/ PushFront(v, e, ok) /\ Called(<<"push_front", v, e, ok>>)
                \/ \E i \in 0 .. MaxSize :
                     Insert(v, i, e, ok) /\ Called(<<"insert", v, i, e, ok>>)
         PROVE  Seqs!SeqNext
    BY <2>2, <2>5, <2>12
  <2> QED
    BY <2>4, <2>8, <2>9, <2>10, <2>11, <2>12 DEF HistNext
<1> QED
  BY <1>1, <1>2, <1>3, PTL DEF HistSpec, VectorIsSequence, Seqs!SeqSpec, Lists
=============================================================================
