------------------------------- MODULE Vector -------------------------------
(***************************************************************************)
(* Callers of vector.c: a set of vectors on which every function may be    *)
(* called in any order, with malloc() failing at any call.  Callers meet   *)
(* the asserts on the arguments.  After an access outside a block nothing  *)
(* more is said of the program: no action is taken.                        *)
(***************************************************************************)
EXTENDS VectorOps, FiniteSets

CONSTANTS
  Vecs, Elems,
  MaxSize,      \* the vectors are filled up to here
  MaxBlocks,    \* no allocation beyond this many blocks in use
  MinCopied,    \* vectors with fewer elements are not copied
  MallocFails   \* whether malloc() may fail

ASSUME VectorAssumption ==
  /\ IsFiniteSet(Vecs)
  /\ MaxSize \in Nat /\ MinCopied \in Nat /\ MaxBlocks \in Nat /\ MallocFails \in BOOLEAN
ASSUME NullIsNoBlock == Null \notin Seq(Elems \cup {Junk})

VARIABLES
  vec,      \* the Vector structures
  known,    \* what callers know of each: "none", "inuse", "failed", "faulted"
  blocks,   \* the number of blocks allocated and not freed
  oom       \* whether malloc() has failed in a reallocation

vecVars == <<vec, known, blocks, oom>>

Allocs == IF MallocFails THEN BOOLEAN ELSE {TRUE}
Live(v) == vector_is_initialized(vec[v])

Running == \A v \in Vecs : known[v] # "faulted"
InUse(v) == known[v] = "inuse"
Knowledge == [SUCCESS |-> "inuse", ERROR |-> "failed", FAULT |-> "faulted"]

(* A call on v that leaves r; ok says what malloc() answers, if called. *)
Call(v, r, ok) ==
  /\ Running
  /\ vec' = [vec EXCEPT ![v] = r.vec]
  /\ known' = [known EXCEPT ![v] = Knowledge[r.ret]]
  /\ blocks' = blocks + r.blocks
  /\ blocks' <= MaxBlocks
  /\ oom' = (oom \/ (Live(v) /\ ~ok /\ r.vec.data = Null))

Setup(v, n, ok) == known[v] = "none" /\ Call(v, vector_setup(n, ok), ok)

Destroy(v) ==
  /\ Running
  /\ vec' = [vec EXCEPT ![v] = vector_destroy(@).vec]
  /\ blocks' = blocks + vector_destroy(vec[v]).blocks
  /\ known' = [known EXCEPT ![v] = "none"]
  /\ UNCHANGED oom

Fillable(v) == InUse(v) /\ vec[v].size < MaxSize

PushBack(v, e, ok) == Fillable(v) /\ Call(v, vector_push_back(vec[v], e, ok), ok)
PushFront(v, e, ok) == Fillable(v) /\ Call(v, vector_push_front(vec[v], e, ok), ok)
Insert(v, i, e, ok) ==
  Fillable(v) /\ i <= vec[v].size /\ Call(v, vector_insert(vec[v], i, e, ok), ok)

Assign(v, i, e) == InUse(v) /\ i < vec[v].size /\ Call(v, vector_assign(vec[v], i, e), TRUE)

PopBack(v, ok) == InUse(v) /\ vec[v].size > 0 /\ Call(v, vector_pop_back(vec[v], ok), ok)
PopFront(v, ok) == InUse(v) /\ vec[v].size > 0 /\ Call(v, vector_pop_front(vec[v], ok), ok)
Erase(v, i, ok) == InUse(v) /\ i < vec[v].size /\ Call(v, vector_erase(vec[v], i, ok), ok)

Resize(v, n, ok) == InUse(v) /\ Call(v, vector_resize(vec[v], n, ok), ok)
Reserve(v, n, ok) == InUse(v) /\ Call(v, vector_reserve(vec[v], n, ok), ok)
ShrinkToFit(v, ok) == InUse(v) /\ Call(v, vector_shrink_to_fit(vec[v], ok), ok)

Copyable(u) == Live(u) /\ vec[u].size >= MinCopied

Copy(v, u, ok) ==
  u # v /\ Copyable(u) /\ known[v] = "none" /\ Call(v, vector_copy(vec[u], ok), ok)

(* vector_copy_assign(): destroy, then copy. *)
CopyAssign(v, u, ok) ==
  /\ u # v /\ Copyable(u) /\ Live(v)
  /\ LET c == vector_copy(vec[u], ok)
     IN Call(v, Result(c.vec, c.ret, c.blocks + vector_destroy(vec[v]).blocks), TRUE)

(* What two vectors become, and how many blocks are freed. *)
Both(v, w, u, x, freed) ==
  /\ Running /\ u # v
  /\ vec' = [vec EXCEPT ![v] = w, ![u] = x]
  /\ known' = [known EXCEPT ![v] = "inuse", ![u] = IF x.data = Null THEN "none" ELSE "inuse"]
  /\ blocks' = blocks - freed
  /\ UNCHANGED oom

Move(v, u) ==
  Live(u) /\ known[v] = "none" /\ Both(v, vec[u], u, Struct(vec[u].size, vec[u].capacity, Null), 0)

vector_swap(v, u) == Live(u) /\ Live(v) /\ Both(v, vec[u], u, vec[v], 0)

(* vector_move_assign(): swap, then destroy the source. *)
MoveAssign(v, u) ==
  Live(u) /\ Live(v) /\ Both(v, vec[u], u, vector_destroy(vec[v]).vec, 1)

VecInit ==
  /\ vec = [v \in Vecs |-> Uninitialized]
  /\ known = [v \in Vecs |-> "none"] /\ blocks = 0 /\ oom = FALSE

VecNext ==
  \/ \E v \in Vecs :
       \/ Destroy(v)
       \/ \E i \in 0 .. MaxSize, e \in Elems : Assign(v, i, e)
  \/ \E v \in Vecs, ok \in Allocs :
       \/ PopBack(v, ok) \/ PopFront(v, ok) \/ ShrinkToFit(v, ok)
       \/ \E n \in {0, MaxSize} : Setup(v, n, ok)
       \/ \E n \in 0 .. MaxSize : Resize(v, n, ok) \/ Reserve(v, n, ok) \/ Erase(v, n, ok)
       \/ \E e \in Elems : \/ PushBack(v, e, ok) \/ PushFront(v, e, ok)
                           \/ \E i \in 0 .. MaxSize : Insert(v, i, e, ok)
  \/ \E v, u \in Vecs :
       \/ Move(v, u) \/ vector_swap(v, u) \/ MoveAssign(v, u)
       \/ \E ok \in Allocs : Copy(v, u, ok) \/ CopyAssign(v, u, ok)

VecSpec == VecInit /\ [][VecNext]_vecVars

-----------------------------------------------------------------------------
(* Properties. *)

(* A vector that holds a block: its elements are the ones its size counts, *)
(* and its block has room for them and never less than the minimum.  (The  *)
(* growth in push_back does nothing below that minimum.)                   *)
BlockFits ==
  \A v \in Vecs : Live(v) => /\ vec[v].size = Len(vec[v].data)
                             /\ vec[v].size <= vec[v].capacity
                             /\ vec[v].capacity >= VECTOR_MINIMUM_CAPACITY

(* No call writes or reads outside a block, unless a reallocation failed   *)
(* earlier: a vector may then be left without a block by a removal that    *)
(* reported success.                                                       *)
FaultsOnlyAfterLoss == ~Running => oom

(* Every block belongs to one vector: none is shared or freed twice, and   *)
(* none is forgotten unless a reallocation failed.                         *)
BlocksOwned ==
  LET live == Cardinality({v \in Vecs : Live(v)})
  IN blocks >= live /\ (~oom => blocks = live)

(* A call that loses the elements of a vector for want of memory says so,  *)
(* except a removal, which ignores that its reallocation failed.           *)
LossReported ==
  [][ \A v \in Vecs :
        Live(v) /\ vec'[v].data = Null /\ known'[v] = "inuse"
        => vec'[v].size = vec[v].size - 1 ]_vecVars
=============================================================================
