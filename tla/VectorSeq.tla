----------------------------- MODULE VectorSeq -----------------------------
(***************************************************************************)
(* What vector.h promises: each vector holds a sequence, and each call     *)
(* changes it as its name says.  A call that finds no memory may lose the  *)
(* sequence; a vector that is lost stays so until a call finds memory and  *)
(* starts it anew.                                                         *)
(***************************************************************************)
EXTENDS Integers, Sequences, SequencesExt

CONSTANTS Vecs, Elems, MaxLen, Nothing, Unspecified

VARIABLES
  list,   \* the sequence of each vector, or Nothing
  call    \* the last call

Becomes(v, s) == list' = [list EXCEPT ![v] = s]

(* A call makes s of the sequence of v, and fresh of a lost vector.        *)
Gives(v, s, fresh, mem) ==
  \/ list[v] # Nothing /\ Becomes(v, s)
  \/ list[v] # Nothing /\ ~mem /\ Becomes(v, Nothing)
  \/ list[v] = Nothing /\ mem /\ Becomes(v, fresh)
  \/ list[v] = Nothing /\ Becomes(v, Nothing)

Changes(v, s, mem) == Gives(v, s, << >>, mem)

push_back(v, e, mem) == Changes(v, Append(list[v], e), mem)
push_front(v, e, mem) == Changes(v, <<e>> \o list[v], mem)
insert(v, i, e, mem) == Changes(v, InsertAt(list[v], i + 1, e), mem)
assign(v, i, e) == Changes(v, [list[v] EXCEPT ![i + 1] = e], TRUE)
pop_back(v, mem) == Changes(v, Front(list[v]), mem)
pop_front(v, mem) == Changes(v, Tail(list[v]), mem)
erase(v, i, mem) == Changes(v, RemoveAt(list[v], i + 1), mem)

(* The common prefix is kept; new elements are unspecified. *)
Cut(s, n) == [i \in 1 .. n |-> IF i <= Len(s) THEN s[i] ELSE Unspecified]
resize(v, n, mem) == Gives(v, Cut(list[v], n), Cut(<< >>, n), mem)

keep(v, mem) == Changes(v, list[v], mem)

setup(v, mem) == Becomes(v, IF mem THEN << >> ELSE Nothing)
destroy(v) == Becomes(v, Nothing)
copy(v, u, mem) == list[u] # Nothing /\ Becomes(v, IF mem THEN list[u] ELSE Nothing)
move(v, u) == list[u] # Nothing /\ list' = [list EXCEPT ![v] = list[u], ![u] = Nothing]
swap(v, u) == list' = [list EXCEPT ![v] = list[u], ![u] = list[v]]

(* A call is written as its name, its arguments and whether there is       *)
(* memory, for those that may ask for some.                                *)
Calls == UNION {
  {"destroy"} \X Vecs,
  {"setup", "pop_back", "pop_front", "reserve", "shrink_to_fit"} \X Vecs \X BOOLEAN,
  {"erase", "resize"} \X Vecs \X (0 .. MaxLen) \X BOOLEAN,
  {"push_back", "push_front"} \X Vecs \X Elems \X BOOLEAN,
  {"insert"} \X Vecs \X (0 .. MaxLen) \X Elems \X BOOLEAN,
  {"assign"} \X Vecs \X (0 .. MaxLen) \X Elems,
  {"move", "move_assign", "swap"} \X Vecs \X Vecs,
  {"copy", "copy_assign"} \X Vecs \X Vecs \X BOOLEAN }

Does(c) ==
  LET v == c[2] IN
  \/ c[1] = "setup" /\ setup(v, c[3])
  \/ c[1] = "destroy" /\ destroy(v)
  \/ c[1] = "push_back" /\ push_back(v, c[3], c[4])
  \/ c[1] = "push_front" /\ push_front(v, c[3], c[4])
  \/ c[1] = "insert" /\ insert(v, c[3], c[4], c[5])
  \/ c[1] = "assign" /\ assign(v, c[3], c[4])
  \/ c[1] = "pop_back" /\ pop_back(v, c[3])
  \/ c[1] = "pop_front" /\ pop_front(v, c[3])
  \/ c[1] = "erase" /\ erase(v, c[3], c[4])
  \/ c[1] = "resize" /\ resize(v, c[3], c[4])
  \/ c[1] \in {"reserve", "shrink_to_fit"} /\ keep(v, c[3])
  \/ c[1] \in {"copy", "copy_assign"} /\ copy(v, c[3], c[4])
  \/ c[1] \in {"move", "move_assign"} /\ move(v, c[3])
  \/ c[1] = "swap" /\ swap(v, c[3])

SeqInit == list = [v \in Vecs |-> Nothing] /\ call = <<"none">>

SeqNext == call' \in Calls /\ Does(call')

SeqSpec == SeqInit /\ [][SeqNext]_<<list, call>>
=============================================================================
