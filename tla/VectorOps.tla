----------------------------- MODULE VectorOps -----------------------------
(***************************************************************************)
(* The growable array of vector.c, one operator per function.  A vector is *)
(* [size, capacity, data]: data is Null, or the elements of the block that *)
(* lie below size; what lies above is unspecified (Junk when a resize      *)
(* exposes it).  An operator returns the vector it leaves, its return code *)
(* ("FAULT" for an access through NULL or past the block) and the number   *)
(* of blocks it allocated minus the number it freed; the parameter ok says *)
(* whether malloc() succeeds.                                              *)
(***************************************************************************)
EXTENDS NullPointer, Integers, Sequences, SequencesExt

CONSTANT Junk    \* an element that was never written

VECTOR_MINIMUM_CAPACITY == 2
VECTOR_GROWTH_FACTOR == 2
VECTOR_SHRINK_THRESHOLD == 1 \div 4

Struct(size, capacity, data) == [size |-> size, capacity |-> capacity, data |-> data]
Uninitialized == Struct(0, 0, Null)

Larger(a, b) == IF a > b THEN a ELSE b

Result(w, ret, blocks) == [vec |-> w, ret |-> ret, blocks |-> blocks]
Success(w) == Result(w, "SUCCESS", 0)
Fault(w) == Result(w, "FAULT", 0)
One(b) == IF b THEN 1 ELSE 0

vector_is_initialized(w) == w.data # Null

(* Mutant: the capacity asked for is taken as it is. *)
vector_setup_NoMinimum(capacity, ok) ==
  Result(Struct(0, capacity, IF ok THEN << >> ELSE Null),
         IF ok THEN "SUCCESS" ELSE "ERROR", One(ok))

vector_setup(capacity, ok) ==
  Result(Struct(0, Larger(VECTOR_MINIMUM_CAPACITY, capacity), IF ok THEN << >> ELSE Null),
         IF ok THEN "SUCCESS" ELSE "ERROR", One(ok))

vector_destroy(w) ==
  Result(Struct(w.size, w.capacity, Null), "SUCCESS", -One(vector_is_initialized(w)))

(* Mutant: the old block is not released. *)
_vector_reallocate_NoFree(w, n, ok) ==
  IF n < VECTOR_MINIMUM_CAPACITY /\ w.capacity <= VECTOR_MINIMUM_CAPACITY
  THEN Success(w)
  ELSE IF ~ok THEN Result(Struct(w.size, w.capacity, Null), "ERROR", 0)
  ELSE Result(Struct(w.size, Larger(n, VECTOR_MINIMUM_CAPACITY),
                     IF vector_is_initialized(w) THEN w.data ELSE << >>),
              "SUCCESS", 1)

_vector_reallocate(w, n, ok) ==
  IF n < VECTOR_MINIMUM_CAPACITY /\ w.capacity <= VECTOR_MINIMUM_CAPACITY
  THEN Success(w)
  ELSE IF ~ok THEN Result(Struct(w.size, w.capacity, Null), "ERROR", 0)
  ELSE LET new == Larger(n, VECTOR_MINIMUM_CAPACITY) IN
       IF (w.size > 0 /\ ~vector_is_initialized(w)) \/ w.size > new
       THEN Fault(w)                                  \* memcpy(data, old, ...)
       ELSE Result(Struct(w.size, new, IF vector_is_initialized(w) THEN w.data ELSE << >>),
                   "SUCCESS", One(~vector_is_initialized(w)))

_vector_adjust_capacity(w, ok) ==
  _vector_reallocate(w, Larger(1, w.size * VECTOR_GROWTH_FACTOR), ok)

(* Mutant: the block grows one element too late. *)
_vector_should_grow_Late(w) == w.size > w.capacity

_vector_should_grow(w) == w.size = w.capacity
_vector_should_shrink(w) == w.size = w.capacity * VECTOR_SHRINK_THRESHOLD

(* Room for one more element, as push_back and insert make it. *)
Grown(w, ok) == IF _vector_should_grow(w) THEN _vector_adjust_capacity(w, ok)
                                          ELSE Success(w)

(* Mutant: a failed reallocation is not noticed. *)
vector_push_back_Unchecked(w, e, ok) ==
  LET g == Grown(w, ok)
      w1 == Struct(g.vec.size + 1, g.vec.capacity,
                   IF g.vec.data = Null THEN Null ELSE Append(g.vec.data, e))
  IN Result(w1, IF w1.data = Null THEN "SUCCESS" ELSE g.ret, g.blocks)

(* _vector_assign() at size, then ++size. *)
vector_push_back(w, e, ok) ==
  LET g == Grown(w, ok) IN
  IF g.ret # "SUCCESS" THEN g
  ELSE IF ~vector_is_initialized(g.vec) THEN Fault(g.vec)
  ELSE Result(Struct(g.vec.size + 1, g.vec.capacity, Append(g.vec.data, e)),
              IF g.vec.size < g.vec.capacity THEN "SUCCESS" ELSE "FAULT", g.blocks)

(* Mutant: the elements behind the index are not moved. *)
vector_insert_Overwrites(w, index, e, ok) ==
  LET g == Grown(w, ok)
  IN IF g.ret # "SUCCESS" \/ g.vec.data = Null THEN g
     ELSE Result(Struct(g.vec.size + 1, g.vec.capacity,
                        [Append(g.vec.data, Junk) EXCEPT ![index + 1] = e]), g.ret, g.blocks)

(* index <= size; _vector_move_right() and memcpy(). *)
vector_insert(w, index, e, ok) ==
  LET g == Grown(w, ok) IN
  IF g.ret # "SUCCESS" THEN g
  ELSE IF ~vector_is_initialized(g.vec) THEN Fault(g.vec)
  ELSE Result(Struct(g.vec.size + 1, g.vec.capacity, InsertAt(g.vec.data, index + 1, e)),
              IF g.vec.size < g.vec.capacity THEN "SUCCESS" ELSE "FAULT", g.blocks)

vector_push_front(w, e, ok) == vector_insert(w, 0, e, ok)

vector_assign(w, index, e) ==
  IF ~vector_is_initialized(w) THEN Fault(w)
  ELSE Success(Struct(w.size, w.capacity, [w.data EXCEPT ![index + 1] = e]))

(* The removals shrink the block and ignore that this may fail. *)
Shrunk(w, should, ok) ==
  LET a == _vector_adjust_capacity(w, ok)
  IN IF should THEN Result(a.vec, IF a.ret = "FAULT" THEN a.ret ELSE "SUCCESS", a.blocks)
               ELSE Success(w)

vector_pop_back(w, ok) ==
  LET p == Struct(w.size - 1, w.capacity, IF w.data = Null THEN Null ELSE Front(w.data))
  IN Shrunk(p, _vector_should_shrink(p), ok)

(* index < size; _vector_move_left(). *)
vector_erase(w, index, ok) ==
  IF ~vector_is_initialized(w) THEN Fault(w)
  ELSE LET p == Struct(w.size - 1, w.capacity, RemoveAt(w.data, index + 1))
       IN Shrunk(p, p.size = p.capacity \div 4, ok)

vector_pop_front(w, ok) == vector_erase(w, 0, ok)

(* A block that is read below n: cut, or filled up with what was there. *)
Exposed(data, n) ==
  IF data = Null THEN Null
  ELSE [i \in 1 .. n |-> IF i <= Len(data) THEN data[i] ELSE Junk]

vector_resize(w, n, ok) ==
  LET shrinks == n <= w.capacity * VECTOR_SHRINK_THRESHOLD
      w1 == IF shrinks THEN Struct(n, w.capacity, Exposed(w.data, n)) ELSE w
      r == IF shrinks \/ n > w.capacity
           THEN _vector_reallocate(w1, n * VECTOR_GROWTH_FACTOR, ok) ELSE Success(w1)
  IN IF r.ret # "SUCCESS" THEN r
     ELSE Result(Struct(n, r.vec.capacity, Exposed(r.vec.data, n)), r.ret, r.blocks)

vector_clear(w, ok) == vector_resize(w, 0, ok)

vector_reserve(w, n, ok) ==
  IF n > w.capacity THEN _vector_reallocate(w, n, ok) ELSE Success(w)

vector_shrink_to_fit(w, ok) == _vector_reallocate(w, w.size, ok)

(* What a fresh copy of w is; malloc(0) returns a block. *)
vector_copy(w, ok) ==
  Result(Struct(w.size, w.size * 2, IF ok THEN w.data ELSE Null),
         IF ok THEN "SUCCESS" ELSE "ERROR", One(ok))

(* vector_get(), vector_const_get(), and front and back through them. *)
vector_get(w, index) ==
  IF index < w.size /\ vector_is_initialized(w) THEN w.data[index + 1] ELSE Null
=============================================================================
