--------------------------- MODULE VectorHistory ---------------------------
(***************************************************************************)
(* The callers of Vector, with a history variable that names the call each *)
(* step makes.                                                             *)
(***************************************************************************)
EXTENDS Vector

VARIABLE call   \* the last call: its name, its arguments, what malloc() would answer

Called(c) == call' = c

HistInit == VecInit /\ call = <<"none">>

HistNext ==
  \/ \E v \in Vecs :
       \/ Destroy(v) /\ Called(<<"destroy", v>>)
       \/ \E i \in 0 .. MaxSize, e \in Elems : Assign(v, i, e) /\ Called(<<"assign", v, i, e>>)
  \/ \E v \in Vecs, ok \in Allocs :
       \/ PopBack(v, ok) /\ Called(<<"pop_back", v, ok>>)
       \/ PopFront(v, ok) /\ Called(<<"pop_front", v, ok>>)
       \/ ShrinkToFit(v, ok) /\ Called(<<"shrink_to_fit", v, ok>>)
       \/ \E n \in {0, MaxSize} : Setup(v, n, ok) /\ Called(<<"setup", v, ok>>)
       \/ \E n \in 0 .. MaxSize :
            \/ Resize(v, n, ok) /\ Called(<<"resize", v, n, ok>>)
            \/ Reserve(v, n, ok) /\ Called(<<"reserve", v, ok>>)
            \/ Erase(v, n, ok) /\ Called(<<"erase", v, n, ok>>)
       \/ \E e \in Elems :
            \/ PushBack(v, e, ok) /\ Called(<<"push_back", v, e, ok>>)
            \/ PushFront(v, e, ok) /\ Called(<<"push_front", v, e, ok>>)
            \/ \E i \in 0 .. MaxSize :
                 Insert(v, i, e, ok) /\ Called(<<"insert", v, i, e, ok>>)
  \/ \E v, u \in Vecs :
       \/ Move(v, u) /\ Called(<<"move", v, u>>)
       \/ vector_swap(v, u) /\ Called(<<"swap", v, u>>)
       \/ MoveAssign(v, u) /\ Called(<<"move_assign", v, u>>)
       \/ \E ok \in Allocs :
            \/ Copy(v, u, ok) /\ Called(<<"copy", v, u, ok>>)
            \/ CopyAssign(v, u, ok) /\ Called(<<"copy_assign", v, u, ok>>)

HistSpec == HistInit /\ [][HistNext]_<<vecVars, call>>

-----------------------------------------------------------------------------
(* Properties. *)

(* Each call does to the elements of its vectors what the operation of     *)
(* sequences of its name does with its arguments, across every growth and  *)
(* shrinking of the blocks; only a call that finds no memory loses them.   *)
Seqs == INSTANCE VectorSeq WITH
  MaxLen <- MaxSize, Nothing <- Null, Unspecified <- Junk,
  list <- [v \in Vecs |-> vec[v].data]
VectorIsSequence == Seqs!SeqSpec
=============================================================================
