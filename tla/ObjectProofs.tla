---------------------------- MODULE ObjectProofs ----------------------------
(***************************************************************************)
(* Proofs about the hash table of a JSON object: probing, insertion,       *)
(* growth and the removal that closes the hole it leaves, for every hash   *)
(* function, and the map that lookups see.                                 *)
(***************************************************************************)
EXTENDS JsonObject, SumProofs, SequenceTheorems

-----------------------------------------------------------------------------
(* Cells are on a circle. *)

(* How far cell c is behind cell k. *)
Dist(k, c, cap) == IF c >= k THEN c - k ELSE c - k + cap

(* A probe that starts at k passes p before it comes to c. *)
OnPath(k, p, c, cap) == Dist(k, p, cap) < Dist(k, c, cap)

LEMMA ModSmall ==
  ASSUME NEW cap \in Nat, cap > 0, NEW k \in 0 .. cap - 1, NEW n \in 0 .. cap - 1
  PROVE  (k + n) % cap = IF k + n < cap THEN k + n ELSE k + n - cap
OBVIOUS

LEMMA ModRange ==
  ASSUME NEW cap \in Nat, cap > 0, NEW c \in Nat
  PROVE  c % cap \in 0 .. cap - 1
OBVIOUS

LEMMA MayMoveOnPath ==
  ASSUME NEW cap \in Nat, NEW i \in 0 .. cap - 1, NEW j \in 0 .. cap - 1, NEW k \in 0 .. cap - 1,
         i # j
  PROVE  MayMove(i, j, k) <=> OnPath(k, i, j, cap)
BY DEF MayMove, OnPath, Dist

-----------------------------------------------------------------------------
(* Cells C, and items 0 .. N - 1 with the cells P and the homes K. *)

(* Items and cells point at each other, except that the cell i, if it is   *)
(* one, is a hole: no item is there, but it is not yet marked as free.     *)
Linked(C, P, N, cap, i) ==
  /\ C \in [0 .. cap - 1 -> Nat \cup {OBJECT_INVALID_IX}]
  /\ \A n \in 0 .. N - 1 : P[n] \in 0 .. cap - 1 /\ P[n] # i /\ C[P[n]] = n
  /\ \A c \in 0 .. cap - 1 :
       c # i /\ C[c] # OBJECT_INVALID_IX => C[c] \in 0 .. N - 1 /\ P[C[c]] = c
  /\ i \in 0 .. cap - 1 => C[i] # OBJECT_INVALID_IX

(* Every cell from the home k to the cell c is in use. *)
PathUsed(C, k, c, cap) ==
  \A p \in 0 .. cap - 1 : OnPath(k, p, c, cap) => C[p] # OBJECT_INVALID_IX

(* Every cell between the home of an item and its cell is in use. *)
Reached(C, P, K, N, cap) ==
  \A n \in 0 .. N - 1 : /\ K[n] \in 0 .. cap - 1
                        /\ PathUsed(C, K[n], P[n], cap)

(* D is C with v in the cell ix. *)
Stored(D, C, ix, v, cap) ==
  /\ D \in [0 .. cap - 1 -> Nat \cup {OBJECT_INVALID_IX}]
  /\ D[ix] = v /\ \A c \in 0 .. cap - 1 : c # ix => D[c] = C[c]

(* Q is P with v added for the item N. *)
Extends(Q, P, N, v) == Q[N] = v /\ \A n \in 0 .. N - 1 : Q[n] = P[n]

LEMMA InvalidIx == \A n \in Int : n # OBJECT_INVALID_IX
BY ObjectAssumption

(* Fewer items than cells leave a cell free. *)
LEMMA FreeCell ==
  ASSUME NEW C, NEW P, NEW N \in Nat, NEW cap \in Nat, Linked(C, P, N, cap, -1), N < cap
  PROVE  \E z \in 0 .. cap - 1 : C[z] = OBJECT_INVALID_IX
<1> SUFFICES ASSUME \A z \in 0 .. cap - 1 : C[z] # OBJECT_INVALID_IX PROVE FALSE
  OBVIOUS
<1> DEFINE S == 0 .. cap - 1
           T == 0 .. N - 1
<1>1. \A c \in S : C[c] \in T /\ P[C[c]] = c
  BY DEF Linked
<1>2. C \in [S -> T]
  BY <1>1 DEF Linked
<1>3. IsFiniteSet(S) /\ Cardinality(S) = cap /\ IsFiniteSet(T) /\ Cardinality(T) = N
  <2>1. 0 \in Int /\ cap - 1 \in Int /\ N - 1 \in Int
    OBVIOUS
  <2>2. Cardinality(S) = (IF 0 > cap - 1 THEN 0 ELSE (cap - 1) - 0 + 1) /\ IsFiniteSet(S)
    BY <2>1, FS_Interval, Zenon
  <2>3. Cardinality(T) = (IF 0 > N - 1 THEN 0 ELSE (N - 1) - 0 + 1) /\ IsFiniteSet(T)
    BY <2>1, FS_Interval, Zenon
  <2> QED
    BY <2>2, <2>3
<1>4. Cardinality(T) < Cardinality(S)
  BY <1>3
<1>5. \E x, y \in S : x # y /\ C[x] = C[y]
  <2> HIDE DEF S, T
  <2> QED
    BY <1>2, <1>3, <1>4, FS_PigeonHole
<1> QED
  BY <1>1, <1>5

(* A new item goes to the free cell ix that the probe from k has come to. *)
LEMMA LinkNew ==
  ASSUME NEW C, NEW P, NEW K, NEW N \in Nat, NEW cap \in Nat,
         Linked(C, P, N, cap, -1), Reached(C, P, K, N, cap),
         NEW ix \in 0 .. cap - 1, C[ix] = OBJECT_INVALID_IX,
         NEW k \in 0 .. cap - 1,
         PathUsed(C, k, ix, cap),
         NEW D, Stored(D, C, ix, N, cap),
         NEW Q, Extends(Q, P, N, ix), NEW L, Extends(L, K, N, k)
  PROVE  Linked(D, Q, N + 1, cap, -1) /\ Reached(D, Q, L, N + 1, cap)
<1>2. /\ D \in [0 .. cap - 1 -> Nat \cup {OBJECT_INVALID_IX}]
      /\ D[ix] = N /\ \A c \in 0 .. cap - 1 : c # ix => D[c] = C[c]
  BY DEF Stored
<1>3. \A n \in 0 .. N : n = N \/ n \in 0 .. N - 1
  OBVIOUS
<1>4. N # OBJECT_INVALID_IX /\ (N + 1) - 1 = N
  BY InvalidIx
<1>5. \A n \in 0 .. N : Q[n] \in 0 .. cap - 1 /\ Q[n] # -1 /\ D[Q[n]] = n
  BY <1>2, <1>3, InvalidIx, SMTT(30) DEF Linked, Extends
<1>6. \A c \in 0 .. cap - 1 : D[c] # OBJECT_INVALID_IX => D[c] \in 0 .. N /\ Q[D[c]] = c
  BY <1>2, <1>3 DEF Linked, Extends
<1>7. Linked(D, Q, N + 1, cap, -1)
  BY <1>2, <1>4, <1>5, <1>6 DEF Linked
<1>8. \A c \in 0 .. cap - 1 : C[c] # OBJECT_INVALID_IX => D[c] # OBJECT_INVALID_IX
  BY <1>2, <1>4
<1>9. ASSUME NEW n \in 0 .. N
      PROVE  L[n] \in 0 .. cap - 1 /\ PathUsed(D, L[n], Q[n], cap)
  <2>1. CASE n = N
    BY <1>8, <2>1 DEF PathUsed, Extends
  <2>2. CASE n # N
    BY <1>3, <1>8, <2>2 DEF Reached, PathUsed, Extends
  <2> QED
    BY <2>1, <2>2
<1>10. Reached(D, Q, L, N + 1, cap)
  BY <1>4, <1>9 DEF Reached
<1> QED
  BY <1>7, <1>10

(* The same cells are free. *)
SameFree(C, D, cap) ==
  \A c \in 0 .. cap - 1 : C[c] = OBJECT_INVALID_IX <=> D[c] = OBJECT_INVALID_IX

(* Q is P without the element m, whose number the last one takes. *)
Shrinks(Q, P, N, m) == \A n \in 0 .. N - 2 : Q[n] = IF n = m THEN P[N - 1] ELSE P[n]

(* The item m goes, and the last item takes its number. *)
LEMMA LinkLast ==
  ASSUME NEW C, NEW P, NEW K, NEW N \in Nat, NEW cap \in Nat,
         Linked(C, P, N, cap, -1), Reached(C, P, K, N, cap), NEW m \in 0 .. N - 1,
         NEW D, m < N - 1 => Stored(D, C, P[N - 1], m, cap), m = N - 1 => D = C,
         NEW Q, Shrinks(Q, P, N, m), NEW L, Shrinks(L, K, N, m)
  PROVE  /\ Linked(D, Q, N - 1, cap, P[m])
         /\ Reached(D, Q, L, N - 1, cap)
         /\ SameFree(C, D, cap)
<1>1. C \in [0 .. cap - 1 -> Nat \cup {OBJECT_INVALID_IX}]
  BY DEF Linked
<1>2. N - 1 \in 0 .. N - 1 /\ \A n \in 0 .. N - 2 : n \in 0 .. N - 1 /\ n # N - 1
  OBVIOUS
<1>3. \A n \in 0 .. N - 1 : P[n] \in 0 .. cap - 1 /\ C[P[n]] = n
  BY DEF Linked
<1>4. /\ D \in [0 .. cap - 1 -> Nat \cup {OBJECT_INVALID_IX}]
      /\ \A c \in 0 .. cap - 1 : D[c] = IF m < N - 1 /\ c = P[N - 1] THEN m ELSE C[c]
  BY <1>1, <1>2, <1>3 DEF Stored
<1>5. \A c \in 0 .. cap - 1 : C[c] = OBJECT_INVALID_IX <=> D[c] = OBJECT_INVALID_IX
  BY <1>2, <1>3, <1>4, InvalidIx
<1>6. ASSUME NEW n \in 0 .. N - 2 PROVE Q[n] \in 0 .. cap - 1 /\ Q[n] # P[m] /\ D[Q[n]] = n
  <2>1. CASE n = m
    BY <1>2, <1>3, <1>4, <2>1 DEF Shrinks
  <2>2. CASE n # m
    BY <1>2, <1>3, <1>4, <2>2, SMTT(30) DEF Shrinks
  <2> QED
    BY <2>1, <2>2
<1>7. ASSUME NEW c \in 0 .. cap - 1, c # P[m], D[c] # OBJECT_INVALID_IX
      PROVE  D[c] \in 0 .. N - 2 /\ Q[D[c]] = c
  <2>1. C[c] \in 0 .. N - 1 /\ P[C[c]] = c
    BY <1>5, <1>7 DEF Linked
  <2>2. CASE m < N - 1 /\ c = P[N - 1]
    BY <1>4, <2>2 DEF Shrinks
  <2>3. CASE ~(m < N - 1 /\ c = P[N - 1])
    BY <1>2, <1>4, <1>7, <2>1, <2>3 DEF Shrinks
  <2> QED
    BY <2>2, <2>3
<1>8. P[m] \in 0 .. cap - 1 /\ D[P[m]] # OBJECT_INVALID_IX
  BY <1>3, <1>5, InvalidIx
<1>9. (N - 1) - 1 = N - 2
  OBVIOUS
<1>10. Linked(D, Q, N - 1, cap, P[m])
  BY <1>4, <1>6, <1>7, <1>8, <1>9 DEF Linked
<1>11. ASSUME NEW n \in 0 .. N - 2
       PROVE  L[n] \in 0 .. cap - 1 /\ PathUsed(D, L[n], Q[n], cap)
  BY <1>2, <1>5 DEF Reached, PathUsed, Shrinks
<1>12. Reached(D, Q, L, N - 1, cap)
  BY <1>9, <1>11 DEF Reached
<1> QED
  BY <1>5, <1>10, <1>12 DEF SameFree

(* The loop that closes the hole has looked at the x cells behind cell,    *)
(* and the hole is at i: they are all in use, and the hole hides no item   *)
(* between it and the last of them.                                        *)
Searched(C, P, K, N, cap, i, cell, x) ==
  /\ i \in 0 .. cap - 1 /\ Dist(cell, i, cap) <= x
  /\ \A c \in 0 .. cap - 1 : Dist(cell, c, cap) <= x => C[c] # OBJECT_INVALID_IX
  /\ \A n \in 0 .. N - 1 :
       Dist(cell, i, cap) < Dist(cell, P[n], cap) /\ Dist(cell, P[n], cap) <= x
       => ~OnPath(K[n], i, P[n], cap)

(* The hole hides no item. *)
HidesNone(P, K, N, cap, i) == \A n \in 0 .. N - 1 : ~OnPath(K[n], i, P[n], cap)

LEMMA FreeCellEnds ==
  ASSUME NEW C, NEW P, NEW K, NEW N \in Nat, NEW cap \in Nat, NEW i, NEW x \in Nat, x + 1 < cap,
         NEW cell \in 0 .. cap - 1, NEW j \in 0 .. cap - 1, Dist(cell, j, cap) = x + 1,
         Linked(C, P, N, cap, i), Reached(C, P, K, N, cap),
         Searched(C, P, K, N, cap, i, cell, x), C[j] = OBJECT_INVALID_IX
  PROVE  HidesNone(P, K, N, cap, i)
<1> SUFFICES ASSUME NEW n \in 0 .. N - 1, OnPath(K[n], i, P[n], cap) PROVE FALSE
  BY DEF HidesNone
<1>1. i \in 0 .. cap - 1 /\ Dist(cell, i, cap) <= x
  BY DEF Searched
<1>2. P[n] \in 0 .. cap - 1 /\ K[n] \in 0 .. cap - 1
  BY DEF Linked, Reached
<1>3. ~(Dist(cell, i, cap) < Dist(cell, P[n], cap) /\ Dist(cell, P[n], cap) <= x)
  BY DEF Searched
<1>4. ~OnPath(K[n], j, P[n], cap)
  BY DEF Reached, PathUsed
<1>5. PICK pn, kn : pn = P[n] /\ kn = K[n]
  OBVIOUS
<1>6. P[n] # j
  BY InvalidIx DEF Linked
<1>7. pn \in 0 .. cap - 1 /\ kn \in 0 .. cap - 1 /\ pn # j
  BY <1>2, <1>5, <1>6
<1>8. /\ ~(Dist(cell, i, cap) < Dist(cell, pn, cap) /\ Dist(cell, pn, cap) <= x)
      /\ ~OnPath(kn, j, pn, cap) /\ OnPath(kn, i, pn, cap)
  BY <1>3, <1>4, <1>5
<1> QED
  BY <1>1, <1>7, <1>8 DEF OnPath, Dist

LEMMA SearchPasses ==
  ASSUME NEW C, NEW P, NEW K, NEW N \in Nat, NEW cap \in Nat, NEW i, NEW x \in Nat, x + 1 < cap,
         NEW cell \in 0 .. cap - 1, NEW j \in 0 .. cap - 1, Dist(cell, j, cap) = x + 1,
         Linked(C, P, N, cap, i), Reached(C, P, K, N, cap),
         Searched(C, P, K, N, cap, i, cell, x),
         NEW m \in 0 .. N - 1, C[j] = m, ~OnPath(K[m], i, j, cap)
  PROVE  Searched(C, P, K, N, cap, i, cell, x + 1)
<1>1. i \in 0 .. cap - 1 /\ Dist(cell, i, cap) <= x + 1 /\ i # j
  BY DEF Searched, Dist
<1>2. P[m] = j
  BY <1>1, InvalidIx DEF Linked
<1>3. ASSUME NEW c \in 0 .. cap - 1, Dist(cell, c, cap) <= x + 1 PROVE C[c] # OBJECT_INVALID_IX
  <2>1. c = j \/ Dist(cell, c, cap) <= x
    BY <1>3 DEF Dist
  <2> QED
    BY <2>1, InvalidIx DEF Searched
<1>4. ASSUME NEW n \in 0 .. N - 1,
             Dist(cell, i, cap) < Dist(cell, P[n], cap), Dist(cell, P[n], cap) <= x + 1
      PROVE  ~OnPath(K[n], i, P[n], cap)
  <2>1. PICK pn : pn = P[n] /\ pn \in 0 .. cap - 1
    BY DEF Linked
  <2>2. pn = j \/ Dist(cell, pn, cap) <= x
    BY <1>4, <2>1 DEF Dist
  <2>3. pn = j => n = m
    BY <2>1 DEF Linked
  <2> QED
    BY <1>2, <1>4, <2>1, <2>2, <2>3 DEF Searched
<1> QED
  BY <1>1, <1>3, <1>4 DEF Searched

(* Q is P with v for the item m. *)
Replaces(Q, P, N, m, v) == \A n \in 0 .. N - 1 : Q[n] = IF n = m THEN v ELSE P[n]

LEMMA SearchMoves ==
  ASSUME NEW C, NEW P, NEW K, NEW N \in Nat, NEW cap \in Nat, NEW i, NEW x \in Nat, x + 1 < cap,
         NEW cell \in 0 .. cap - 1, NEW j \in 0 .. cap - 1, Dist(cell, j, cap) = x + 1,
         Linked(C, P, N, cap, i), Reached(C, P, K, N, cap),
         Searched(C, P, K, N, cap, i, cell, x),
         NEW m \in 0 .. N - 1, C[j] = m, OnPath(K[m], i, j, cap),
         NEW D, Stored(D, C, i, m, cap), NEW Q, Replaces(Q, P, N, m, i)
  PROVE  /\ Linked(D, Q, N, cap, j) /\ Reached(D, Q, K, N, cap)
         /\ Searched(D, Q, K, N, cap, j, cell, x + 1)
         /\ SameFree(C, D, cap)
<1>1. i \in 0 .. cap - 1 /\ Dist(cell, i, cap) <= x /\ i # j /\ C[i] # OBJECT_INVALID_IX
  BY DEF Searched, Dist
<1>2. P[m] = j
  BY <1>1, InvalidIx DEF Linked
<1>4. /\ D \in [0 .. cap - 1 -> Nat \cup {OBJECT_INVALID_IX}]
      /\ D[i] = m /\ \A c \in 0 .. cap - 1 : c # i => D[c] = C[c]
  BY DEF Stored
<1>5. \A c \in 0 .. cap - 1 : C[c] = OBJECT_INVALID_IX <=> D[c] = OBJECT_INVALID_IX
  BY <1>1, <1>4, InvalidIx
<1>6. ASSUME NEW n \in 0 .. N - 1 PROVE Q[n] \in 0 .. cap - 1 /\ Q[n] # j /\ D[Q[n]] = n
  <2>1. P[n] \in 0 .. cap - 1 /\ P[n] # i /\ C[P[n]] = n
    BY DEF Linked
  <2>2. CASE n = m
    BY <1>1, <1>4, <2>2 DEF Replaces
  <2>3. CASE n # m
    BY <1>4, <2>1, <2>3 DEF Replaces
  <2> QED
    BY <2>2, <2>3
<1>7. ASSUME NEW c \in 0 .. cap - 1, c # j, D[c] # OBJECT_INVALID_IX
      PROVE  D[c] \in 0 .. N - 1 /\ Q[D[c]] = c
  <2>1. CASE c = i
    BY <1>4, <2>1 DEF Replaces
  <2>2. CASE c # i
    <3>1. C[c] \in 0 .. N - 1 /\ P[C[c]] = c
      BY <1>5, <1>7, <2>2 DEF Linked
    <3> QED
      BY <1>2, <1>4, <1>7, <2>2, <3>1 DEF Replaces
  <2> QED
    BY <2>1, <2>2
<1>8. Linked(D, Q, N, cap, j)
  BY <1>4, <1>5, <1>6, <1>7, InvalidIx DEF Linked
<1>9. ASSUME NEW n \in 0 .. N - 1
      PROVE  K[n] \in 0 .. cap - 1 /\ PathUsed(D, K[n], Q[n], cap)
  <2>1. K[n] \in 0 .. cap - 1
    BY DEF Reached
  <2> SUFFICES ASSUME NEW p \in 0 .. cap - 1, OnPath(K[n], p, Q[n], cap)
               PROVE  C[p] # OBJECT_INVALID_IX
    BY <1>5, <2>1 DEF PathUsed
  <2>2. PICK kn : kn = K[n] /\ kn \in 0 .. cap - 1
    BY <2>1
  <2>3. CASE n = m
    <3>1. OnPath(kn, p, i, cap) /\ OnPath(kn, i, j, cap)
      BY <2>2, <2>3 DEF Replaces
    <3>2. OnPath(kn, p, j, cap)
      BY <1>1, <2>2, <3>1 DEF OnPath, Dist
    <3> QED
      BY <1>2, <2>2, <2>3, <3>2 DEF Reached, PathUsed
  <2>4. CASE n # m
    BY <2>4 DEF Reached, PathUsed, Replaces
  <2> QED
    BY <2>3, <2>4
<1>10. Reached(D, Q, K, N, cap)
  BY <1>9 DEF Reached
<1>11. ASSUME NEW c \in 0 .. cap - 1, Dist(cell, c, cap) <= x + 1 PROVE D[c] # OBJECT_INVALID_IX
  <2>1. c = j \/ Dist(cell, c, cap) <= x
    BY <1>11 DEF Dist
  <2>2. C[c] # OBJECT_INVALID_IX
    BY <2>1, InvalidIx DEF Searched
  <2> QED
    BY <1>5, <2>2
<1>12. ASSUME NEW n \in 0 .. N - 1,
              Dist(cell, j, cap) < Dist(cell, Q[n], cap), Dist(cell, Q[n], cap) <= x + 1
       PROVE  FALSE
  <2>1. PICK q : q = Q[n] /\ q \in 0 .. cap - 1
    BY <1>6
  <2> QED
    BY <1>12, <2>1 DEF Dist
<1>13. Searched(D, Q, K, N, cap, j, cell, x + 1)
  BY <1>11, <1>12 DEF Searched
<1> QED
  BY <1>5, <1>8, <1>10, <1>13 DEF SameFree

(* The hole is marked as free. *)
LEMMA LinkClosed ==
  ASSUME NEW C, NEW P, NEW K, NEW N \in Nat, NEW cap \in Nat, NEW i \in 0 .. cap - 1,
         Linked(C, P, N, cap, i), Reached(C, P, K, N, cap), HidesNone(P, K, N, cap, i),
         NEW D, Stored(D, C, i, OBJECT_INVALID_IX, cap)
  PROVE  Linked(D, P, N, cap, -1) /\ Reached(D, P, K, N, cap)
<1>2. /\ D \in [0 .. cap - 1 -> Nat \cup {OBJECT_INVALID_IX}]
      /\ D[i] = OBJECT_INVALID_IX /\ \A c \in 0 .. cap - 1 : c # i => D[c] = C[c]
  BY DEF Stored
<1>3. Linked(D, P, N, cap, -1)
  BY <1>2 DEF Linked
<1>4. Reached(D, P, K, N, cap)
  BY <1>2 DEF Reached, PathUsed, HidesNone
<1> QED
  BY <1>3, <1>4

-----------------------------------------------------------------------------
(* Tables, and what a probe finds. *)

ItemType == [name : Keys, value : Values, hash : Nat, cell_ix : Nat]

PosOf(o) == [n \in 0 .. Count(o) - 1 |-> Item(o, n).cell_ix]
HomesOf(o) == [n \in 0 .. Count(o) - 1 |-> Home(Item(o, n).hash, o)]

(* A table, with a hole at i if i is a cell. *)
Items(o) ==
  /\ o.cell_capacity \in Nat
  /\ o.items \in Seq(ItemType)
  /\ \A n \in 0 .. Count(o) - 1 : Item(o, n).hash = hash[Item(o, n).name]
  /\ \A m, n \in 0 .. Count(o) - 1 : Item(o, m).name = Item(o, n).name => m = n

IsTable(o, i) ==
  /\ Items(o)
  /\ Linked(o.cells, PosOf(o), Count(o), o.cell_capacity, i)
  /\ Reached(o.cells, PosOf(o), HomesOf(o), Count(o), o.cell_capacity)

HashType == hash \in [Keys -> Nat]

LEMMA ItemFacts ==
  ASSUME NEW o, Items(o)
  PROVE  /\ Count(o) \in Nat
         /\ \A n \in 0 .. Count(o) - 1 : /\ n + 1 \in 1 .. Len(o.items)
                                         /\ Item(o, n) \in ItemType
BY DEF Items, Count, Item

LEMMA IxFacts ==
  ASSUME HashType, NEW o, Items(o), NEW key \in Keys, o.cell_capacity > 0
  PROVE  LET cap == o.cell_capacity
             k == Home(hash[key], o)
         IN /\ k \in 0 .. cap - 1
            /\ \A n \in 0 .. cap - 1 : Ix(o, key, n) \in 0 .. cap - 1 /\ Dist(k, Ix(o, key, n), cap) = n
            /\ \A c \in 0 .. cap - 1 : Dist(k, c, cap) \in 0 .. cap - 1 /\ Ix(o, key, Dist(k, c, cap)) = c
<1> DEFINE cap == o.cell_capacity
           k == Home(hash[key], o)
<1>1. cap \in Nat /\ cap > 0 /\ hash[key] \in Nat
  BY DEF Items, HashType
<1>2. k \in 0 .. cap - 1
  BY <1>1, ModRange DEF Home
<1>3. \A n : Ix(o, key, n) = (k + n) % cap
  BY DEF Ix
<1> HIDE DEF cap, k
<1>4. ASSUME NEW n \in 0 .. cap - 1
      PROVE  (k + n) % cap \in 0 .. cap - 1 /\ Dist(k, (k + n) % cap, cap) = n
  <2>1. (k + n) % cap = IF k + n < cap THEN k + n ELSE k + n - cap
    BY <1>1, <1>2, ModSmall
  <2> QED
    BY <1>1, <1>2, <2>1 DEF Dist
<1>5. ASSUME NEW c \in 0 .. cap - 1
      PROVE  Dist(k, c, cap) \in 0 .. cap - 1 /\ (k + Dist(k, c, cap)) % cap = c
  <2>1. PICK d : d = Dist(k, c, cap) /\ d \in 0 .. cap - 1
    BY <1>1, <1>2 DEF Dist
  <2>2. (k + d) % cap = IF k + d < cap THEN k + d ELSE k + d - cap
    BY <1>1, <1>2, <2>1, ModSmall
  <2> QED
    BY <1>1, <1>2, <2>1, <2>2 DEF Dist
<1> QED
  BY <1>2, <1>3, <1>4, <1>5 DEF cap, k

(* The probe stops first at n. *)
FirstStop(o, key, n) ==
  n \in Stops(o, key) /\ \A m \in Stops(o, key) : n <= m

LEMMA ProbeStops ==
  ASSUME NEW o, NEW key, o.cell_capacity \in Nat, Stops(o, key) # {}
  PROVE  \E n \in 0 .. o.cell_capacity - 1 :
           /\ FirstStop(o, key, n)
           /\ json_object_get_cell_ix(o, key).ix = Ix(o, key, n)
           /\ json_object_get_cell_ix(o, key).found
              = (o.cells[Ix(o, key, n)] # OBJECT_INVALID_IX)
<1> DEFINE S == Stops(o, key)
           n == CHOOSE x \in S : \A m \in S : x <= m
<1>1. S \subseteq Nat /\ S # {} /\ S \subseteq 0 .. o.cell_capacity - 1
  BY DEF Stops
<1>2. \E x \in S : \A m \in S : x <= m
  <2> HIDE DEF S
  <2> QED
    BY <1>1, LeastNumber
<1>3. n \in S /\ \A m \in S : n <= m
  <2> HIDE DEF S
  <2> QED
    BY <1>2
<1>4. json_object_get_cell_ix(o, key)
      = [ix |-> Ix(o, key, n), found |-> o.cells[Ix(o, key, n)] # OBJECT_INVALID_IX]
  <2>1. json_object_get_cell_ix(o, key)
        = IF S = {} THEN [ix |-> OBJECT_INVALID_IX, found |-> FALSE]
          ELSE [ix |-> Ix(o, key, n), found |-> o.cells[Ix(o, key, n)] # OBJECT_INVALID_IX]
    BY Zenon DEF json_object_get_cell_ix
  <2> HIDE DEF S, n
  <2> QED
    BY <1>1, <2>1
<1>5. FirstStop(o, key, n)
  BY <1>3, Zenon DEF FirstStop
<1>6. n \in 0 .. o.cell_capacity - 1
  BY <1>1, <1>3
<1> HIDE DEF n, S
<1> QED
  BY <1>4, <1>5, <1>6

(* A key that an item has is found in the cell of that item. *)
LEMMA ProbeFinds ==
  ASSUME HashType, NEW o, IsTable(o, -1), NEW m \in 0 .. Count(o) - 1
  PROVE  LET probe == json_object_get_cell_ix(o, Item(o, m).name)
         IN /\ probe.found = TRUE /\ probe.ix = Item(o, m).cell_ix
            /\ probe.ix \in 0 .. o.cell_capacity - 1 /\ o.cells[probe.ix] = m
<1> DEFINE cap == o.cell_capacity
           key == Item(o, m).name
           k == Home(hash[key], o)
           c == Item(o, m).cell_ix
           d == Dist(k, c, cap)
<1>1. Items(o) /\ cap \in Nat /\ key \in Keys
  BY ItemFacts DEF IsTable, Items, ItemType
<1>2. /\ c \in 0 .. cap - 1 /\ o.cells[c] = m
      /\ \A p \in 0 .. cap - 1 : p # -1 /\ o.cells[p] # OBJECT_INVALID_IX
           => o.cells[p] \in 0 .. Count(o) - 1 /\ Item(o, o.cells[p]).cell_ix = p
  BY DEF IsTable, Linked, PosOf
<1>3. cap > 0
  BY <1>1, <1>2
<1>4. /\ d \in 0 .. cap - 1 /\ Ix(o, key, d) = c
      /\ \A n \in 0 .. cap - 1 : Ix(o, key, n) \in 0 .. cap - 1 /\ Dist(k, Ix(o, key, n), cap) = n
  <2> HIDE DEF key
  <2> QED
    BY <1>1, <1>2, <1>3, IxFacts
<1>5. Item(o, m).hash = hash[key]
  BY DEF IsTable, Items
<1>6. d \in Stops(o, key)
  BY <1>2, <1>4, <1>5 DEF Stops, Holds
<1>7. ASSUME NEW n \in Stops(o, key) PROVE n >= d
  <2>1. n \in 0 .. cap - 1 /\ (\/ o.cells[Ix(o, key, n)] = OBJECT_INVALID_IX
                               \/ Item(o, o.cells[Ix(o, key, n)]).name = key)
    BY DEF Stops, Holds
  <2> SUFFICES ASSUME n < d PROVE FALSE
    BY <1>4, <2>1
  <2>2. PICK p : p = Ix(o, key, n) /\ p \in 0 .. cap - 1 /\ Dist(k, p, cap) = n
    BY <1>4, <2>1
  <2>3. OnPath(k, p, c, cap)
    BY <2>2 DEF OnPath
  <2>4. HomesOf(o)[m] = k /\ PosOf(o)[m] = c
    BY <1>5 DEF HomesOf, PosOf
  <2>5. o.cells[p] # OBJECT_INVALID_IX
    <3> HIDE DEF k, c
    <3> QED
      BY <2>2, <2>3, <2>4 DEF IsTable, Reached, PathUsed
  <2>6. o.cells[p] \in 0 .. Count(o) - 1 /\ Item(o, o.cells[p]).cell_ix = p /\ Item(o, o.cells[p]).name = key
    BY <1>2, <2>1, <2>2, <2>5
  <2>7. o.cells[p] = m
    BY <2>6 DEF IsTable, Items
  <2>8. p = c
    BY <2>6, <2>7
  <2> QED
    BY <2>2, <2>3, <2>8, <1>4 DEF OnPath
<1>8. PICK n \in 0 .. cap - 1 :
         /\ FirstStop(o, key, n)
         /\ json_object_get_cell_ix(o, key).ix = Ix(o, key, n)
         /\ json_object_get_cell_ix(o, key).found
            = (o.cells[Ix(o, key, n)] # OBJECT_INVALID_IX)
  <2>1. Stops(o, key) # {} /\ o.cell_capacity \in Nat
    BY <1>1, <1>6
  <2> HIDE DEF key
  <2> QED
    BY <2>1, ProbeStops
<1>9. n = d
  <2> HIDE DEF d, key
  <2>1. n >= d /\ n <= d
    BY <1>6, <1>7, <1>8 DEF FirstStop
  <2> QED
    BY <1>4, <2>1
<1>10. m # OBJECT_INVALID_IX
  BY InvalidIx
<1> HIDE DEF d, c
<1> QED
  BY <1>2, <1>4, <1>8, <1>9, <1>10 DEF c

(* A key that no item has is not found, and the probe ends at the first    *)
(* free cell.                                                              *)
LEMMA ProbeMisses ==
  ASSUME HashType, NEW o, IsTable(o, -1), NEW key \in Keys, Count(o) < o.cell_capacity,
         \A m \in 0 .. Count(o) - 1 : Item(o, m).name # key
  PROVE  LET probe == json_object_get_cell_ix(o, key)
             cap == o.cell_capacity
         IN /\ probe.found = FALSE /\ probe.ix \in 0 .. cap - 1
            /\ o.cells[probe.ix] = OBJECT_INVALID_IX
            /\ PathUsed(o.cells, Home(hash[key], o), probe.ix, cap)
<1> DEFINE cap == o.cell_capacity
           k == Home(hash[key], o)
<1>1. Items(o) /\ cap \in Nat /\ Count(o) \in Nat /\ cap > 0
  BY ItemFacts DEF IsTable, Items
<1>2. \A p \in 0 .. cap - 1 : o.cells[p] # OBJECT_INVALID_IX => o.cells[p] \in 0 .. Count(o) - 1
  BY DEF IsTable, Linked
<1>3. PICK z \in 0 .. cap - 1 : o.cells[z] = OBJECT_INVALID_IX
  BY <1>1, FreeCell DEF IsTable
<1>4. /\ k \in 0 .. cap - 1
      /\ \A n \in 0 .. cap - 1 : Ix(o, key, n) \in 0 .. cap - 1 /\ Dist(k, Ix(o, key, n), cap) = n
      /\ \A c \in 0 .. cap - 1 : Dist(k, c, cap) \in 0 .. cap - 1 /\ Ix(o, key, Dist(k, c, cap)) = c
  BY <1>1, IxFacts
<1>5. Dist(k, z, cap) \in Stops(o, key)
  BY <1>3, <1>4 DEF Stops
<1>6. PICK n \in 0 .. cap - 1 :
         /\ FirstStop(o, key, n)
         /\ json_object_get_cell_ix(o, key).ix = Ix(o, key, n)
         /\ json_object_get_cell_ix(o, key).found
            = (o.cells[Ix(o, key, n)] # OBJECT_INVALID_IX)
  BY <1>1, <1>5, ProbeStops
<1>7. o.cells[Ix(o, key, n)] = OBJECT_INVALID_IX
  <2>1. Ix(o, key, n) \in 0 .. cap - 1
    BY <1>4
  <2>2. n \in Stops(o, key)
    BY <1>6 DEF FirstStop
  <2> QED
    BY <1>2, <2>1, <2>2 DEF Stops, Holds
<1>8. ASSUME NEW p \in 0 .. cap - 1, OnPath(k, p, Ix(o, key, n), cap)
      PROVE  o.cells[p] # OBJECT_INVALID_IX
  <2>1. PICK e : e = Dist(k, p, cap) /\ e \in 0 .. cap - 1 /\ Ix(o, key, e) = p
    BY <1>4
  <2>2. e < n
    BY <1>4, <1>8, <2>1 DEF OnPath
  <2>3. e \notin Stops(o, key)
    BY <1>6, <2>1, <2>2 DEF FirstStop
  <2> QED
    BY <2>1, <2>3 DEF Stops
<1>9. Ix(o, key, n) \in 0 .. cap - 1
  BY <1>4
<1> QED
  BY <1>6, <1>7, <1>8, <1>9 DEF PathUsed

LEMMA ProbeOfNone ==
  ASSUME NEW o, NEW key, o.cell_capacity = 0
  PROVE  json_object_get_cell_ix(o, key).found = FALSE
<1>1. Stops(o, key) = {}
  BY DEF Stops
<1> QED
  BY <1>1 DEF json_object_get_cell_ix

(* Some item has the key, and the value v. *)
Names(o, key) == \E n \in 0 .. Count(o) - 1 : Item(o, n).name = key
Has(o, key, v) == \E n \in 0 .. Count(o) - 1 : Item(o, n).name = key /\ Item(o, n).value = v

Loaded(o) == Count(o) <= item_capacity(o) /\ (o.cell_capacity = 0 \/ o.cell_capacity >= 2)

LEMMA LoadedHasRoom ==
  ASSUME NEW o, Items(o), Loaded(o)
  PROVE  \/ o.cell_capacity = 0 /\ Count(o) = 0
         \/ Count(o) < o.cell_capacity
<1>1. Count(o) \in Nat /\ o.cell_capacity \in Nat
  BY ItemFacts DEF Items
<1> QED
  BY <1>1 DEF Loaded, item_capacity

(* A lookup returns the value of the item that has the key. *)
LEMMA LookupFinds ==
  ASSUME HashType, NEW o, IsTable(o, -1), Loaded(o), NEW key \in Keys
  PROVE  /\ Found(o, key) <=> Names(o, key)
         /\ ~Found(o, key) => json_object_getn_value(o, key) = Absent
         /\ json_object_getn_value(o, key) \in Values \cup {Absent}
         /\ \A v \in Values : json_object_getn_value(o, key) = v <=> Has(o, key, v)
<1>1. Items(o) /\ ((o.cell_capacity = 0 /\ Count(o) = 0) \/ Count(o) < o.cell_capacity)
  BY LoadedHasRoom DEF IsTable
<1>2. CASE Names(o, key)
  <2>1. PICK m \in 0 .. Count(o) - 1 : Item(o, m).name = key
    BY <1>2 DEF Names
  <2>2. /\ json_object_get_cell_ix(o, key).found = TRUE
        /\ o.cells[json_object_get_cell_ix(o, key).ix] = m
    BY <2>1, ProbeFinds
  <2>3. Found(o, key) = TRUE /\ json_object_getn_value(o, key) = Item(o, m).value
    BY <2>2 DEF json_object_getn_value, Found
  <2>4. Item(o, m).value \in Values
    BY <1>1, <2>1, ItemFacts DEF ItemType
  <2>5. \A v : Has(o, key, v) <=> v = Item(o, m).value
    BY <1>1, <2>1 DEF Has, Items
  <2> QED
    BY <1>2, <2>3, <2>4, <2>5
<1>3. CASE ~Names(o, key)
  <2>1. json_object_get_cell_ix(o, key).found = FALSE
    <3>1. CASE o.cell_capacity = 0
      BY <3>1, ProbeOfNone
    <3>2. CASE o.cell_capacity # 0
      BY <1>1, <1>3, <3>2, ProbeMisses DEF Names
    <3> QED
      BY <3>1, <3>2
  <2>2. Found(o, key) = FALSE /\ json_object_getn_value(o, key) = Absent
    BY <2>1 DEF Found, json_object_getn_value
  <2>3. \A v : ~Has(o, key, v)
    BY <1>3 DEF Has, Names
  <2> QED
    BY <1>3, <2>2, <2>3, ObjectAssumption
<1> QED
  BY <1>2, <1>3

LEMMA AppendItems ==
  ASSUME NEW s, NEW S, s \in Seq(S), NEW e \in S
  PROVE  /\ Append(s, e) \in Seq(S) /\ Len(Append(s, e)) = Len(s) + 1
         /\ Append(s, e)[Len(s) + 1] = e /\ \A n \in 1 .. Len(s) : Append(s, e)[n] = s[n]
BY AppendProperties

(* A new item: the table stays a table, and holds it besides the others. *)
LEMMA AppendedTable ==
  ASSUME HashType, NEW o, IsTable(o, -1), Count(o) < o.cell_capacity,
         NEW key \in Keys, NEW value \in Values, ~Names(o, key)
  PROVE  LET p == Appended(o, key, value)
         IN /\ IsTable(p, -1)
            /\ p.cell_capacity = o.cell_capacity /\ Count(p) = Count(o) + 1
            /\ \A n \in 0 .. Count(o) - 1 : Item(p, n) = Item(o, n)
            /\ Item(p, Count(o)).name = key /\ Item(p, Count(o)).value = value
<1> DEFINE p == Appended(o, key, value)
           N == Count(o)
           cap == o.cell_capacity
           ix == json_object_get_cell_ix(o, key).ix
           e == Entry(key, value, hash[key], ix)
           k == Home(hash[key], o)
<1>1. /\ ix \in 0 .. cap - 1 /\ o.cells[ix] = OBJECT_INVALID_IX
      /\ PathUsed(o.cells, k, ix, cap)
  BY ProbeMisses DEF Names
<1>2. Items(o) /\ N \in Nat /\ cap \in Nat /\ cap > 0 /\ hash[key] \in Nat
  BY ItemFacts DEF IsTable, Items, HashType
<1>3. k \in 0 .. cap - 1
  BY <1>2, ModRange DEF Home
<1>4. /\ p.cell_capacity = cap /\ p.cells = [o.cells EXCEPT ![ix] = N]
      /\ p.items = Append(o.items, e)
  BY DEF Appended, Table
<1>5. e \in ItemType /\ e.name = key /\ e.value = value /\ e.hash = hash[key] /\ e.cell_ix = ix
  BY <1>1, <1>2 DEF Entry, ItemType
<1> HIDE DEF p, ix, e, k
<1>6. /\ p.items \in Seq(ItemType) /\ Count(p) = N + 1
      /\ Item(p, N) = e /\ \A n \in 0 .. N - 1 : Item(p, n) = Item(o, n)
  <2>1. /\ Append(o.items, e) \in Seq(ItemType) /\ Len(Append(o.items, e)) = Len(o.items) + 1
        /\ Append(o.items, e)[Len(o.items) + 1] = e
        /\ \A n \in 1 .. Len(o.items) : Append(o.items, e)[n] = o.items[n]
    BY <1>2, <1>5, AppendItems DEF Items
  <2> QED
    BY <1>4, <2>1, ItemFacts, <1>2 DEF Count, Item
<1>7. \A n \in 0 .. N : n = N \/ n \in 0 .. N - 1
  BY <1>2
<1>8. Items(p)
  <2>1. \A n \in 0 .. N : Item(p, n).hash = hash[Item(p, n).name]
    BY <1>2, <1>5, <1>6, <1>7 DEF Items
  <2>2. \A m, n \in 0 .. N : Item(p, m).name = Item(p, n).name => m = n
    BY <1>2, <1>5, <1>6, <1>7 DEF Items, Names
  <2>3. (N + 1) - 1 = N
    BY <1>2
  <2> QED
    BY <1>2, <1>4, <1>6, <2>1, <2>2, <2>3 DEF Items
<1>9. Extends(PosOf(p), PosOf(o), N, ix) /\ Extends(HomesOf(p), HomesOf(o), N, k)
  <2>1. N \in 0 .. (N + 1) - 1 /\ \A n \in 0 .. N - 1 : n \in 0 .. (N + 1) - 1
    BY <1>2
  <2> QED
    BY <1>4, <1>5, <1>6, <2>1 DEF PosOf, HomesOf, Home, Extends, k
<1>10. /\ Linked(p.cells, PosOf(p), N + 1, cap, -1)
       /\ Reached(p.cells, PosOf(p), HomesOf(p), N + 1, cap)
  <2>1. Linked(o.cells, PosOf(o), N, cap, -1) /\ Reached(o.cells, PosOf(o), HomesOf(o), N, cap)
    BY DEF IsTable
  <2>2. Stored(p.cells, o.cells, ix, N, cap)
    BY <1>1, <1>2, <1>4, <2>1 DEF Stored, Linked
  <2> HIDE DEF N, cap
  <2> QED
    BY <1>1, <1>2, <1>3, <1>9, <2>1, <2>2, LinkNew
<1>11. IsTable(p, -1)
  BY <1>4, <1>6, <1>8, <1>10 DEF IsTable
<1> QED
  BY <1>4, <1>5, <1>6, <1>11 DEF p

LEMMA AppendedHas ==
  ASSUME NEW o, NEW p, Count(o) \in Nat, Count(p) = Count(o) + 1, NEW key, NEW value,
         \A n \in 0 .. Count(o) - 1 : Item(p, n) = Item(o, n),
         Item(p, Count(o)).name = key, Item(p, Count(o)).value = value
  PROVE  \A k, v : Has(p, k, v) <=> Has(o, k, v) \/ (k = key /\ v = value)
<1>1. \A n \in 0 .. Count(p) - 1 : n = Count(o) \/ n \in 0 .. Count(o) - 1
  OBVIOUS
<1>2. Count(o) \in 0 .. Count(p) - 1 /\ \A n \in 0 .. Count(o) - 1 : n \in 0 .. Count(p) - 1
  OBVIOUS
<1> QED
  BY <1>1, <1>2 DEF Has

-----------------------------------------------------------------------------
(* Growth. *)

(* The names and the values of the first n items are the same. *)
SameItems(p, o, n) ==
  \A m \in 0 .. n - 1 : Item(p, m).name = Item(o, m).name /\ Item(p, m).value = Item(o, m).value

NewCapacity(o) ==
  IF o.cell_capacity * 2 > STARTING_CAPACITY THEN o.cell_capacity * 2 ELSE STARTING_CAPACITY

(* f holds the tables to which the first items of o have been added. *)
IsRehash(f, o, n) ==
  f = [m \in 0 .. n |-> IF m = 0 THEN json_object_init(NewCapacity(o))
                        ELSE Appended(f[m - 1], Item(o, m - 1).name, Item(o, m - 1).value)]

LEMMA RehashExists == ASSUME NEW o, NEW n \in Nat PROVE \E f : IsRehash(f, o, n)
<1> DEFINE Next(f, m) == IF m = 0 THEN json_object_init(NewCapacity(o))
                         ELSE Appended(f[m - 1], Item(o, m - 1).name, Item(o, m - 1).value)
           T == {m \in Nat : \E f : IsRehash(f, o, m)}
<1>1. 0 \in T
  <2> DEFINE f == [m \in 0 .. 0 |-> json_object_init(NewCapacity(o))]
  <2>1. IsRehash(f, o, 0)
    BY DEF IsRehash
  <2> QED
    BY <2>1
<1>2. ASSUME NEW m \in Nat, m \in T PROVE m + 1 \in T
  <2>1. PICK f : IsRehash(f, o, m)
    BY <1>2
  <2> DEFINE g == [i \in 0 .. m + 1 |-> Next(f, i)]
  <2>2. ASSUME NEW i \in 0 .. m PROVE g[i] = f[i]
    <3>1. f[i] = Next(f, i)
      BY <2>1, Zenon DEF IsRehash
    <3>2. i \in 0 .. m + 1
      OBVIOUS
    <3>3. g[i] = Next(f, i)
      BY <3>2, Zenon
    <3> QED
      BY <3>1, <3>3, Zenon
  <2>3. \A i \in 0 .. m + 1 : i # 0 => i - 1 \in 0 .. m
    OBVIOUS
  <2>4. IsRehash(g, o, m + 1)
    <3>1. ASSUME NEW i \in 0 .. m + 1 PROVE Next(f, i) = Next(g, i)
      <4>1. CASE i = 0
        BY <4>1, Zenon
      <4>2. CASE i # 0
        <5>1. g[i - 1] = f[i - 1]
          BY <2>2, <2>3, <4>2
        <5> HIDE DEF g
        <5> QED
          BY <4>2, <5>1, Zenon
      <4> QED
        BY <4>1, <4>2
    <3>2. g = [i \in 0 .. m + 1 |-> Next(g, i)]
      BY <3>1, Zenon
    <3> HIDE DEF g
    <3> QED
      BY <3>2 DEF IsRehash
  <2> QED
    BY <2>4
<1> HIDE DEF T
<1>3. n \in T
  BY <1>1, <1>2, Induction
<1> QED
  BY <1>3 DEF T

LEMMA RehashDef ==
  ASSUME NEW o, Count(o) \in Nat
  PROVE  \E f : IsRehash(f, o, Count(o)) /\ json_object_grow_and_rehash(o) = f[Count(o)]
<1> DEFINE f == CHOOSE g : IsRehash(g, o, Count(o))
<1>1. IsRehash(f, o, Count(o))
  BY RehashExists, Zenon
<1>2. json_object_grow_and_rehash(o) = f[Count(o)]
  BY Zenon DEF json_object_grow_and_rehash, IsRehash, NewCapacity
<1> QED
  BY <1>1, <1>2

LEMMA EmptyTable ==
  ASSUME NEW cap \in Nat
  PROVE  LET o == json_object_init(cap)
         IN IsTable(o, -1) /\ o.cell_capacity = cap /\ Count(o) = 0
<1> DEFINE o == json_object_init(cap)
<1>1. /\ o.cell_capacity = cap /\ o.items = << >>
      /\ o.cells = [c \in 0 .. cap - 1 |-> OBJECT_INVALID_IX]
  BY DEF json_object_init, Table
<1>2. Count(o) = 0 /\ o.items \in Seq(ItemType) /\ 0 .. Count(o) - 1 = {}
  BY <1>1 DEF Count
<1>3. o.cells \in [0 .. cap - 1 -> Nat \cup {OBJECT_INVALID_IX}]
  BY <1>1
<1>4. \A c \in 0 .. cap - 1 : o.cells[c] = OBJECT_INVALID_IX
  BY <1>1
<1>5. ~(-1 \in 0 .. cap - 1)
  OBVIOUS
<1> HIDE DEF o
<1>6. Items(o)
  BY <1>1, <1>2 DEF Items
<1>7. Linked(o.cells, PosOf(o), Count(o), cap, -1)
  BY <1>2, <1>3, <1>4, <1>5 DEF Linked
<1>8. Reached(o.cells, PosOf(o), HomesOf(o), Count(o), cap)
  BY <1>2 DEF Reached
<1> QED
  BY <1>1, <1>2, <1>6, <1>7, <1>8 DEF IsTable, o

(* A grown table has the same items, and room for a new one. *)
LEMMA GrownTable ==
  ASSUME HashType, NEW o, IsTable(o, -1), Loaded(o)
  PROVE  LET g == json_object_grow_and_rehash(o)
         IN /\ IsTable(g, -1) /\ g.cell_capacity >= 2
            /\ Count(g) = Count(o) /\ Count(g) < item_capacity(g)
            /\ SameItems(g, o, Count(o))
<1> DEFINE N == Count(o)
           cap == NewCapacity(o)
<1>1. N \in Nat /\ o.cell_capacity \in Nat /\ Items(o)
  BY ItemFacts DEF IsTable, Items
<1>2. cap \in Nat /\ cap >= 2 /\ N < (cap * 7) \div 10 /\ N < cap
  <2>1. PICK s : s = STARTING_CAPACITY /\ s \in Nat /\ s >= 2
    BY ObjectAssumption
  <2>2. N <= (o.cell_capacity * 7) \div 10 /\ (o.cell_capacity = 0 \/ o.cell_capacity >= 2)
    BY DEF Loaded, item_capacity
  <2>3. cap = IF o.cell_capacity * 2 > s THEN o.cell_capacity * 2 ELSE s
    BY <2>1 DEF NewCapacity
  <2> HIDE DEF N, cap
  <2>4. PICK c : c = o.cell_capacity
    OBVIOUS
  <2>5. /\ c \in Nat /\ N <= (c * 7) \div 10 /\ (c = 0 \/ c >= 2)
        /\ cap = IF c * 2 > s THEN c * 2 ELSE s
    BY <1>1, <2>2, <2>3, <2>4
  <2> QED
    BY <1>1, <2>1, <2>5
<1>3. PICK f : IsRehash(f, o, N) /\ json_object_grow_and_rehash(o) = f[N]
  BY <1>1, RehashDef
<1> DEFINE Good(m) == /\ IsTable(f[m], -1) /\ f[m].cell_capacity = cap /\ Count(f[m]) = m
                      /\ SameItems(f[m], o, m)
           T == {m \in Nat : m <= N => Good(m)}
<1>4. 0 \in T
  <2>1. f[0] = json_object_init(cap)
    BY <1>1, <1>3 DEF IsRehash
  <2>2. IsTable(f[0], -1) /\ f[0].cell_capacity = cap /\ Count(f[0]) = 0
    <3> HIDE DEF cap
    <3> QED
      BY <1>2, <2>1, EmptyTable
  <2>3. SameItems(f[0], o, 0)
    BY DEF SameItems
  <2> QED
    BY <2>2, <2>3
<1>5. ASSUME NEW m \in Nat, m \in T PROVE m + 1 \in T
  <2> SUFFICES ASSUME m + 1 <= N PROVE Good(m + 1)
    OBVIOUS
  <2>1. Good(m) /\ m + 1 \in 0 .. N /\ m + 1 # 0 /\ (m + 1) - 1 = m /\ m \in 0 .. N - 1
    BY <1>1, <1>5
  <2> DEFINE key == Item(o, m).name
             value == Item(o, m).value
  <2>2. f[m + 1] = Appended(f[m], key, value)
    BY <1>3, <2>1 DEF IsRehash
  <2>3. key \in Keys /\ value \in Values
    BY <1>1, <2>1, ItemFacts DEF ItemType
  <2>4. ~Names(f[m], key)
    <3> SUFFICES ASSUME NEW q \in 0 .. m - 1, Item(f[m], q).name = key PROVE FALSE
      BY <2>1 DEF Names
    <3>1. Item(o, q).name = key /\ q \in 0 .. N - 1 /\ q # m
      BY <1>1, <2>1 DEF SameItems
    <3> QED
      BY <1>1, <2>1, <3>1 DEF Items
  <2>5. Count(f[m]) < f[m].cell_capacity
    BY <1>1, <1>2, <2>1
  <2> HIDE DEF key, value, cap
  <2>6. LET p == f[m + 1]
        IN /\ IsTable(p, -1)
           /\ p.cell_capacity = f[m].cell_capacity /\ Count(p) = Count(f[m]) + 1
           /\ \A n \in 0 .. Count(f[m]) - 1 : Item(p, n) = Item(f[m], n)
           /\ Item(p, Count(f[m])).name = key /\ Item(p, Count(f[m])).value = value
    BY <2>1, <2>2, <2>3, <2>4, <2>5, AppendedTable
  <2>7. \A q \in 0 .. (m + 1) - 1 : q = m \/ q \in 0 .. m - 1
    OBVIOUS
  <2>8. SameItems(f[m + 1], o, m + 1)
    BY <2>1, <2>6, <2>7 DEF SameItems, key, value
  <2> QED
    BY <2>1, <2>6, <2>8
<1> HIDE DEF T
<1>6. N \in T
  BY <1>1, <1>4, <1>5, Induction
<1>7. Good(N)
  BY <1>1, <1>6 DEF T
<1> HIDE DEF cap
<1> QED
  BY <1>1, <1>2, <1>3, <1>7 DEF item_capacity

LEMMA SameItemsHas ==
  ASSUME NEW o, NEW p, Count(p) = Count(o), SameItems(p, o, Count(o))
  PROVE  \A k, v : (Has(p, k, v) <=> Has(o, k, v)) /\ (Names(p, k) <=> Names(o, k))
BY DEF SameItems, Has, Names

-----------------------------------------------------------------------------
(* Removal. *)

(* The item m goes: what is left is a table with a hole at its cell, and   *)
(* the same cells are free.                                                *)
LEMMA LastMovedTable ==
  ASSUME HashType, NEW o, IsTable(o, -1), NEW m \in 0 .. Count(o) - 1
  PROVE  LET p == LastMovedTo(o, m)
         IN /\ IsTable(p, Item(o, m).cell_ix)
            /\ p.cell_capacity = o.cell_capacity /\ Count(p) = Count(o) - 1
            /\ SameFree(o.cells, p.cells, o.cell_capacity)
            /\ \A n \in 0 .. Count(o) - 2 :
                 Item(p, n) = IF n = m THEN Item(o, Count(o) - 1) ELSE Item(o, n)
<1> DEFINE p == LastMovedTo(o, m)
           N == Count(o)
           cap == o.cell_capacity
           last == Item(o, N - 1)
<1>1. Items(o) /\ N \in Nat /\ cap \in Nat /\ N - 1 \in 0 .. N - 1 /\ N > 0
  BY ItemFacts DEF IsTable, Items
<1>2. /\ p.cell_capacity = cap
      /\ p.cells = IF m < N - 1 THEN [o.cells EXCEPT ![last.cell_ix] = m] ELSE o.cells
      /\ p.items = SubSeq([o.items EXCEPT ![m + 1] = last], 1, N - 1)
  BY DEF LastMovedTo, Table
<1> HIDE DEF p
<1>3. PICK r : /\ p.items = SubSeq(r, 1, N - 1)
               /\ \A n \in 1 .. N - 1 : r[n] \in ItemType
               /\ \A n \in 1 .. N - 1 : r[n] = IF n = m + 1 THEN last ELSE o.items[n]
  <2>1. /\ o.items \in Seq(ItemType) /\ last \in ItemType /\ Len(o.items) = N
        /\ m + 1 \in 1 .. Len(o.items)
    BY <1>1, ItemFacts DEF Items, Count
  <2>2. PICK i : i = m + 1 /\ i \in 1 .. Len(o.items)
    BY <2>1
  <2>3. PICK r : r = [o.items EXCEPT ![i] = last]
    OBVIOUS
  <2> HIDE DEF last
  <2>4. r \in Seq(ItemType) /\ Len(r) = N
        /\ \A n \in 1 .. N : r[n] = IF n = i THEN last ELSE o.items[n]
    BY <2>1, <2>2, <2>3, ExceptSeq
  <2>5. \A n \in 1 .. N - 1 : n \in 1 .. N /\ r[n] \in ItemType
    BY <1>1, <2>4
  <2>6. p.items = SubSeq(r, 1, N - 1)
    BY <1>2, <2>2, <2>3
  <2>7. \A n \in 1 .. N - 1 : r[n] = IF n = m + 1 THEN last ELSE o.items[n]
    BY <2>2, <2>4, <2>5
  <2> QED
    BY <2>5, <2>6, <2>7
<1>4. /\ p.items \in Seq(ItemType) /\ Len(p.items) = N - 1
      /\ \A n \in 1 .. N - 1 : p.items[n] = r[n]
  <2>1. PICK l \in Int : l = N - 1 /\ l >= 0
    BY <1>1
  <2>2. /\ SubSeq(r, 1, l) \in Seq(ItemType)
        /\ Len(SubSeq(r, 1, l)) = IF 1 <= l THEN l - 1 + 1 ELSE 0
        /\ \A n \in 1 .. l - 1 + 1 : SubSeq(r, 1, l)[n] = r[1 + n - 1]
    BY <1>3, <2>1, SubSeqProperties
  <2>3. l - 1 + 1 = l /\ \A n \in 1 .. l : 1 + n - 1 = n
    BY <2>1
  <2> QED
    BY <1>3, <2>1, <2>2, <2>3
<1>5. Count(p) = N - 1 /\ (N - 1) - 1 = N - 2
  BY <1>1, <1>4 DEF Count
<1>6. ASSUME NEW n \in 0 .. N - 2 PROVE Item(p, n) = IF n = m THEN last ELSE Item(o, n)
  <2>1. n + 1 \in 1 .. N - 1 /\ (n + 1 = m + 1 <=> n = m)
    BY <1>1
  <2> QED
    BY <1>3, <1>4, <2>1 DEF Item
<1>7. \A n \in 0 .. N - 2 : n \in 0 .. N - 1 /\ n # N - 1
  BY <1>1
<1> HIDE DEF last
<1>8. Items(p)
  <2>1. \A n \in 0 .. N - 2 : Item(p, n).hash = hash[Item(p, n).name]
    BY <1>1, <1>6, <1>7 DEF Items, last
  <2>2. \A i, n \in 0 .. N - 2 : Item(p, i).name = Item(p, n).name => i = n
    BY <1>1, <1>6, <1>7 DEF Items, last
  <2> QED
    BY <1>1, <1>2, <1>4, <1>5, <2>1, <2>2 DEF Items
<1>9. PosOf(o)[m] = Item(o, m).cell_ix /\ PosOf(o)[N - 1] = last.cell_ix
  BY <1>1 DEF PosOf, last
<1>10. Shrinks(PosOf(p), PosOf(o), N, m) /\ Shrinks(HomesOf(p), HomesOf(o), N, m)
  BY <1>1, <1>2, <1>5, <1>6, <1>7 DEF Shrinks, PosOf, HomesOf, Home, last
<1>11. Linked(o.cells, PosOf(o), N, cap, -1) /\ Reached(o.cells, PosOf(o), HomesOf(o), N, cap)
  BY DEF IsTable
<1>12. m < N - 1 => Stored(p.cells, o.cells, PosOf(o)[N - 1], m, cap)
  BY <1>1, <1>2, <1>9, <1>11 DEF Stored, Linked
<1>13. m = N - 1 => p.cells = o.cells
  BY <1>1, <1>2
<1> HIDE DEF N, cap
<1>14. /\ Linked(p.cells, PosOf(p), N - 1, cap, PosOf(o)[m])
       /\ Reached(p.cells, PosOf(p), HomesOf(p), N - 1, cap)
       /\ SameFree(o.cells, p.cells, cap)
  BY <1>1, <1>10, <1>11, <1>12, <1>13, LinkLast DEF N
<1>15. IsTable(p, Item(o, m).cell_ix)
  BY <1>2, <1>5, <1>8, <1>9, <1>14 DEF IsTable, N
<1> QED
  BY <1>2, <1>5, <1>6, <1>14, <1>15 DEF p, N, cap, last

(* The state of the loop before it looks at the cell x + 1 behind cell, on *)
(* the way from the table o.                                               *)
Searching(s, o, cell, x) ==
  /\ IsTable(s.o, s.i)
  /\ s.i \in 0 .. o.cell_capacity - 1
  /\ s.o.cell_capacity = o.cell_capacity /\ Count(s.o) = Count(o)
  /\ SameItems(s.o, o, Count(o)) /\ SameFree(o.cells, s.o.cells, o.cell_capacity)
  /\ s.stop \in BOOLEAN
  /\ s.stop => HidesNone(PosOf(s.o), HomesOf(s.o), Count(o), o.cell_capacity, s.i)
  /\ ~s.stop => Searched(s.o.cells, PosOf(s.o), HomesOf(s.o), Count(o), o.cell_capacity, s.i, cell, x)

LEMMA RoundSearches ==
  ASSUME HashType, NEW o, o.cell_capacity \in Nat, NEW x \in Nat, x + 1 < o.cell_capacity,
         NEW cell \in 0 .. o.cell_capacity - 1,
         NEW j \in 0 .. o.cell_capacity - 1, Dist(cell, j, o.cell_capacity) = x + 1,
         NEW s, Searching(s, o, cell, x)
  PROVE  Searching(Round(s, j), o, cell, x + 1)
<1> DEFINE t == Round(s, j)
           N == Count(o)
           cap == o.cell_capacity
           n == s.o.cells[j]
           it == Item(s.o, n)
           P == PosOf(s.o)
           K == HomesOf(s.o)
<1>1. /\ Items(s.o) /\ N \in Nat /\ cap \in Nat /\ Count(s.o) = N /\ s.o.cell_capacity = cap
      /\ s.i \in 0 .. cap - 1
  BY ItemFacts DEF Searching, IsTable
<1>2. Linked(s.o.cells, P, N, cap, s.i) /\ Reached(s.o.cells, P, K, N, cap)
  BY <1>1 DEF Searching, IsTable
<1>3. CASE s.stop
  <2>1. t = [o |-> s.o, i |-> s.i, stop |-> TRUE]
    BY <1>3 DEF Round
  <2>2. t.o = s.o /\ t.i = s.i /\ t.stop = TRUE
    BY <2>1
  <2> HIDE DEF t
  <2> QED
    BY <1>3, <2>2 DEF Searching, t
<1>4. CASE ~s.stop /\ n = OBJECT_INVALID_IX
  <2>1. t = [o |-> s.o, i |-> s.i, stop |-> TRUE]
    BY <1>4 DEF Round
  <2>2. t.o = s.o /\ t.i = s.i /\ t.stop = TRUE
    BY <2>1
  <2>3. Searched(s.o.cells, P, K, N, cap, s.i, cell, x)
    BY <1>4 DEF Searching
  <2> HIDE DEF t, P, K, N, cap
  <2>4. HidesNone(P, K, N, cap, s.i)
    BY <1>1, <1>2, <1>4, <2>3, FreeCellEnds DEF cap
  <2> QED
    BY <1>4, <2>2, <2>4 DEF Searching, t, P, K, N, cap
<1>5. CASE ~s.stop /\ n # OBJECT_INVALID_IX
  <2>1. Searched(s.o.cells, P, K, N, cap, s.i, cell, x)
    BY <1>5 DEF Searching
  <2>2. j # s.i
    BY <1>1, <2>1 DEF Searched, Dist
  <2>3. n \in 0 .. N - 1 /\ P[n] = j
    BY <1>2, <1>5, <2>2 DEF Linked
  <2>4. K[n] = Home(it.hash, s.o) /\ K[n] \in 0 .. cap - 1
    BY <1>1, <1>2, <2>3 DEF HomesOf, Reached
  <2>5. MayMove(s.i, j, K[n]) <=> OnPath(K[n], s.i, j, cap)
    <3> HIDE DEF K, n, cap
    <3> QED
      BY <1>1, <2>2, <2>4, MayMoveOnPath DEF cap
  <2>6. CASE ~MayMove(s.i, j, K[n])
    <3>1. t = s
      BY <1>5, <2>4, <2>6 DEF Round
    <3>2. Searched(s.o.cells, P, K, N, cap, s.i, cell, x + 1)
      <4> HIDE DEF P, K, N, cap
      <4> QED
        BY <1>1, <1>2, <2>1, <2>3, <2>5, <2>6, SearchPasses DEF cap
    <3> QED
      BY <1>5, <3>1, <3>2 DEF Searching
  <2>7. CASE MayMove(s.i, j, K[n])
    <3> DEFINE e == Entry(it.name, it.value, it.hash, s.i)
    <3>1. t = [o |-> Table([s.o.cells EXCEPT ![s.i] = n], [s.o.items EXCEPT ![n + 1] = e],
                           s.o.cell_capacity),
               i |-> j, stop |-> FALSE]
      BY <1>5, <2>4, <2>7 DEF Round
    <3>2. /\ t.i = j /\ t.stop = FALSE /\ t.o.cell_capacity = cap
          /\ t.o.cells = [s.o.cells EXCEPT ![s.i] = n]
          /\ t.o.items = [s.o.items EXCEPT ![n + 1] = e]
      BY <1>1, <3>1 DEF Table
    <3> HIDE DEF t
    <3>3. /\ e \in ItemType /\ e.name = it.name /\ e.value = it.value /\ e.hash = it.hash
          /\ e.cell_ix = s.i
      <4>1. it \in ItemType
        BY <1>1, <2>3, ItemFacts
      <4> QED
        BY <1>1, <4>1 DEF ItemType, Entry
    <3> HIDE DEF e
    <3>4. t.o.items \in Seq(ItemType) /\ Len(t.o.items) = Len(s.o.items)
      <4>1. s.o.items \in Seq(ItemType) /\ n + 1 \in 1 .. Len(s.o.items)
        BY <1>1, <2>3, ItemFacts DEF Items
      <4>2. [s.o.items EXCEPT ![n + 1] = e] \in Seq(ItemType)
        BY <3>3, <4>1, ExceptSeq
      <4>3. Len([s.o.items EXCEPT ![n + 1] = e]) = Len(s.o.items)
        BY <3>3, <4>1, ExceptSeq
      <4> QED
        BY <3>2, <4>2, <4>3
    <3>5. Count(t.o) = N /\ \A m \in 0 .. N - 1 : Item(t.o, m) = IF m = n THEN e ELSE Item(s.o, m)
      <4>1. \A m \in 0 .. N - 1 : m + 1 \in 1 .. Len(s.o.items) /\ (m + 1 = n + 1 <=> m = n)
        BY <1>1, <2>3, ItemFacts, SMTT(30)
      <4>2. s.o.items \in Seq(ItemType)
        BY <1>1 DEF Items
      <4> QED
        BY <1>1, <3>2, <3>4, <4>1, <4>2 DEF Count, Item
    <3>6. Items(t.o)
      <4>1. \A m \in 0 .. N - 1 : /\ Item(t.o, m).name = Item(s.o, m).name
                                  /\ Item(t.o, m).hash = Item(s.o, m).hash
        BY <3>3, <3>5
      <4>2. \A m \in 0 .. N - 1 : Item(s.o, m).hash = hash[Item(s.o, m).name]
        BY <1>1 DEF Items
      <4>3. \A m, q \in 0 .. N - 1 : Item(s.o, m).name = Item(s.o, q).name => m = q
        BY <1>1 DEF Items
      <4> QED
        BY <1>1, <3>2, <3>4, <3>5, <4>1, <4>2, <4>3 DEF Items
    <3>7. SameItems(t.o, o, N)
      BY <2>3, <3>3, <3>5 DEF SameItems, Searching
    <3>8. Replaces(PosOf(t.o), P, N, n, s.i)
      BY <1>1, <3>3, <3>5 DEF Replaces, PosOf
    <3>9. HomesOf(t.o) = K
      BY <1>1, <2>3, <3>2, <3>3, <3>5 DEF HomesOf, Home
    <3>10. Stored(t.o.cells, s.o.cells, s.i, n, cap)
      <4>1. s.o.cells \in [0 .. cap - 1 -> Nat \cup {OBJECT_INVALID_IX}] /\ n \in Nat
        BY <1>2, <2>3 DEF Linked
      <4> HIDE DEF n
      <4> QED
        BY <1>1, <3>2, <4>1, SMTT(30) DEF Stored
    <3>11. /\ Linked(t.o.cells, PosOf(t.o), N, cap, j) /\ Reached(t.o.cells, PosOf(t.o), K, N, cap)
           /\ Searched(t.o.cells, PosOf(t.o), K, N, cap, j, cell, x + 1)
           /\ SameFree(s.o.cells, t.o.cells, cap)
      <4>1. PICK m \in 0 .. N - 1 : m = n
        BY <2>3
      <4>2. s.o.cells[j] = m /\ OnPath(K[m], s.i, j, cap) /\ Stored(t.o.cells, s.o.cells, s.i, m, cap)
            /\ Replaces(PosOf(t.o), P, N, m, s.i)
        BY <2>5, <2>7, <3>8, <3>10, <4>1
      <4> HIDE DEF P, K, N, cap
      <4> QED
        BY <1>1, <1>2, <2>1, <4>2, SearchMoves DEF cap
    <3>12. SameFree(o.cells, t.o.cells, cap)
      BY <3>11 DEF SameFree, Searching
    <3>13. IsTable(t.o, t.i)
      BY <3>2, <3>5, <3>6, <3>9, <3>11 DEF IsTable
    <3> QED
      BY <1>1, <3>2, <3>5, <3>7, <3>9, <3>11, <3>12, <3>13 DEF Searching, t
  <2> QED
    BY <2>6, <2>7
<1> QED
  BY <1>3, <1>4, <1>5

(* f holds the states of the loop that closes the hole at cell. *)
IsClosing(f, o, cell, n) ==
  f = [x \in 0 .. n |-> IF x = 0 THEN [o |-> o, i |-> cell, stop |-> FALSE]
                        ELSE Round(f[x - 1], (cell + x) % o.cell_capacity)]

LEMMA ClosingExists == ASSUME NEW o, NEW cell, NEW n \in Nat PROVE \E f : IsClosing(f, o, cell, n)
<1> DEFINE Next(f, x) == IF x = 0 THEN [o |-> o, i |-> cell, stop |-> FALSE]
                         ELSE Round(f[x - 1], (cell + x) % o.cell_capacity)
           T == {m \in Nat : \E f : IsClosing(f, o, cell, m)}
<1>1. 0 \in T
  <2> DEFINE f == [m \in 0 .. 0 |-> [o |-> o, i |-> cell, stop |-> FALSE]]
  <2>1. IsClosing(f, o, cell, 0)
    BY DEF IsClosing
  <2> QED
    BY <2>1
<1>2. ASSUME NEW m \in Nat, m \in T PROVE m + 1 \in T
  <2>1. PICK f : IsClosing(f, o, cell, m)
    BY <1>2
  <2> DEFINE g == [x \in 0 .. m + 1 |-> Next(f, x)]
  <2>2. ASSUME NEW x \in 0 .. m PROVE g[x] = f[x]
    <3>1. f[x] = Next(f, x)
      BY <2>1, Zenon DEF IsClosing
    <3>2. x \in 0 .. m + 1
      OBVIOUS
    <3>3. g[x] = Next(f, x)
      BY <3>2, Zenon
    <3> QED
      BY <3>1, <3>3, Zenon
  <2>3. \A x \in 0 .. m + 1 : x # 0 => x - 1 \in 0 .. m
    OBVIOUS
  <2>4. ASSUME NEW x \in 0 .. m + 1 PROVE Next(f, x) = Next(g, x)
    <3>1. CASE x = 0
      BY <3>1, Zenon
    <3>2. CASE x # 0
      <4>1. g[x - 1] = f[x - 1]
        BY <2>2, <2>3, <3>2
      <4> HIDE DEF g
      <4> QED
        BY <3>2, <4>1, Zenon
    <3> QED
      BY <3>1, <3>2
  <2>5. g = [x \in 0 .. m + 1 |-> Next(g, x)]
    BY <2>4, Zenon
  <2>6. IsClosing(g, o, cell, m + 1)
    <3> HIDE DEF g
    <3> QED
      BY <2>5 DEF IsClosing
  <2> QED
    BY <2>6
<1> HIDE DEF T
<1>3. n \in T
  BY <1>1, <1>2, Induction
<1> QED
  BY <1>3 DEF T

LEMMA ClosingDef ==
  ASSUME NEW o, NEW cell, NEW n \in Nat, n = o.cell_capacity - 1
  PROVE  \E f : /\ IsClosing(f, o, cell, n)
                /\ HoleClosed(o, cell)
                   = Table([f[n].o.cells EXCEPT ![f[n].i] = OBJECT_INVALID_IX],
                           f[n].o.items, o.cell_capacity)
<1> DEFINE f == CHOOSE g : IsClosing(g, o, cell, o.cell_capacity - 1)
           m == o.cell_capacity - 1
<1>1. IsClosing(f, o, cell, m)
  <2>1. \E g : IsClosing(g, o, cell, m)
    BY ClosingExists
  <2> QED
    BY <2>1, Zenon
<1>2. HoleClosed(o, cell)
      = Table([f[m].o.cells EXCEPT ![f[m].i] = OBJECT_INVALID_IX], f[m].o.items, o.cell_capacity)
  BY Zenon DEF HoleClosed, IsClosing
<1> HIDE DEF f
<1> QED
  BY <1>1, <1>2

(* The hole is closed: the table is whole again, with the same items. *)
LEMMA ClosedTable ==
  ASSUME HashType, NEW o, NEW cell \in 0 .. o.cell_capacity - 1, IsTable(o, cell),
         NEW z \in 0 .. o.cell_capacity - 1, o.cells[z] = OBJECT_INVALID_IX
  PROVE  LET p == HoleClosed(o, cell)
         IN /\ IsTable(p, -1) /\ p.cell_capacity = o.cell_capacity
            /\ Count(p) = Count(o) /\ SameItems(p, o, Count(o))
<1> DEFINE cap == o.cell_capacity
           N == Count(o)
<1>1. Items(o) /\ N \in Nat /\ cap \in Nat /\ cap > 0 /\ cap - 1 \in Nat
  BY ItemFacts DEF IsTable, Items
<1>2. PICK f : /\ IsClosing(f, o, cell, cap - 1)
               /\ HoleClosed(o, cell)
                  = Table([f[cap - 1].o.cells EXCEPT ![f[cap - 1].i] = OBJECT_INVALID_IX],
                          f[cap - 1].o.items, cap)
  BY <1>1, ClosingDef
<1> DEFINE T == {x \in Nat : x < cap => Searching(f[x], o, cell, x)}
<1>3. 0 \in T
  <2>1. f[0] = [o |-> o, i |-> cell, stop |-> FALSE]
    <3>1. 0 \in 0 .. cap - 1
      BY <1>1
    <3> HIDE DEF cap
    <3> QED
      BY <1>2, <3>1, Zenon DEF IsClosing
  <2>2. f[0].o = o /\ f[0].i = cell /\ f[0].stop = FALSE
    BY <2>1
  <2>3. SameItems(o, o, N) /\ SameFree(o.cells, o.cells, cap)
    BY DEF SameItems, SameFree
  <2>4. Searched(o.cells, PosOf(o), HomesOf(o), N, cap, cell, cell, 0)
    <3>1. Dist(cell, cell, cap) = 0
      BY <1>1 DEF Dist
    <3>2. \A c \in 0 .. cap - 1 : Dist(cell, c, cap) \in Nat /\ (Dist(cell, c, cap) <= 0 => c = cell)
      BY <1>1 DEF Dist
    <3>3. o.cells[cell] # OBJECT_INVALID_IX /\ \A n \in 0 .. N - 1 : PosOf(o)[n] \in 0 .. cap - 1
      BY DEF IsTable, Linked
    <3> QED
      BY <3>1, <3>2, <3>3 DEF Searched
  <2> QED
    BY <2>2, <2>3, <2>4 DEF Searching
<1>4. ASSUME NEW x \in Nat, x \in T PROVE x + 1 \in T
  <2> SUFFICES ASSUME x + 1 < cap PROVE Searching(f[x + 1], o, cell, x + 1)
    OBVIOUS
  <2> DEFINE j == (cell + (x + 1)) % cap
  <2>1. Searching(f[x], o, cell, x) /\ x + 1 \in 0 .. cap - 1 /\ x + 1 # 0 /\ (x + 1) - 1 = x
    BY <1>1, <1>4
  <2>2. f[x + 1] = Round(f[x], j)
    BY <1>2, <2>1 DEF IsClosing
  <2>3. j \in 0 .. cap - 1 /\ Dist(cell, j, cap) = x + 1
    <3>1. PICK y \in 0 .. cap - 1 : y = x + 1
      BY <2>1
    <3>2. (cell + y) % cap = IF cell + y < cap THEN cell + y ELSE cell + y - cap
      BY <1>1, ModSmall
    <3>3. j = (cell + y) % cap
      BY <3>1
    <3>4. PICK q : q = (cell + y) % cap
      OBVIOUS
    <3>5. q \in 0 .. cap - 1 /\ Dist(cell, q, cap) = y
      BY <1>1, <3>2, <3>4 DEF Dist
    <3> QED
      BY <3>1, <3>3, <3>4, <3>5
  <2> HIDE DEF j
  <2> QED
    BY <1>1, <2>1, <2>2, <2>3, RoundSearches
<1> HIDE DEF T
<1>5. cap - 1 \in T
  BY <1>1, <1>3, <1>4, Induction
<1>6. PICK s : s = f[cap - 1] /\ Searching(s, o, cell, cap - 1)
  BY <1>1, <1>5 DEF T
<1> DEFINE p == HoleClosed(o, cell)
           C == s.o.cells
           P == PosOf(s.o)
           K == HomesOf(s.o)
<1>7. /\ p.cells = [C EXCEPT ![s.i] = OBJECT_INVALID_IX]
      /\ p.items = s.o.items /\ p.cell_capacity = cap
  BY <1>2, <1>6 DEF Table
<1>8. /\ Items(s.o) /\ Linked(C, P, N, cap, s.i) /\ Reached(C, P, K, N, cap)
      /\ s.i \in 0 .. cap - 1 /\ Count(s.o) = N /\ SameItems(s.o, o, N)
      /\ s.o.cell_capacity = cap
  BY <1>6 DEF Searching, IsTable
<1>9. HidesNone(P, K, N, cap, s.i)
  <2> SUFFICES ASSUME ~s.stop PROVE FALSE
    BY <1>6 DEF Searching
  <2>1. Searched(C, P, K, N, cap, s.i, cell, cap - 1)
    BY <1>6 DEF Searching
  <2>2. Dist(cell, z, cap) <= cap - 1
    BY <1>1 DEF Dist
  <2>3. C[z] # OBJECT_INVALID_IX
    BY <2>1, <2>2 DEF Searched
  <2> QED
    BY <1>6, <2>3 DEF Searching, SameFree
<1>10. Stored(p.cells, C, s.i, OBJECT_INVALID_IX, cap)
  <2>1. C \in [0 .. cap - 1 -> Nat \cup {OBJECT_INVALID_IX}]
    BY <1>8 DEF Linked
  <2> HIDE DEF C, p
  <2> QED
    BY <1>7, <1>8, <2>1 DEF Stored
<1> HIDE DEF p
<1>11. Count(p) = N /\ \A n : Item(p, n) = Item(s.o, n)
  BY <1>7, <1>8 DEF Count, Item
<1>12. PosOf(p) = P /\ HomesOf(p) = K
  BY <1>7, <1>8, <1>11 DEF PosOf, HomesOf, Home
<1>13. Items(p) /\ SameItems(p, o, N)
  BY <1>7, <1>8, <1>11 DEF Items, SameItems
<1> HIDE DEF C, P, K, N, cap
<1>14. Linked(p.cells, P, N, cap, -1) /\ Reached(p.cells, P, K, N, cap)
  BY <1>1, <1>8, <1>9, <1>10, LinkClosed
<1>15. IsTable(p, -1)
  BY <1>7, <1>11, <1>12, <1>13, <1>14 DEF IsTable
<1> QED
  BY <1>7, <1>11, <1>13, <1>15 DEF p, N, cap

(* A removal: the item goes, the others stay. *)
LEMMA RemovedTable ==
  ASSUME HashType, NEW o, IsTable(o, -1), Count(o) < o.cell_capacity, NEW key \in Keys, Names(o, key)
  PROVE  LET p == Removed(o, key)
         IN /\ IsTable(p, -1) /\ p.cell_capacity = o.cell_capacity
            /\ Count(p) = Count(o) - 1
            /\ \A k, v : Has(p, k, v) <=> Has(o, k, v) /\ k # key
<1> DEFINE N == Count(o)
           cap == o.cell_capacity
           cell == json_object_get_cell_ix(o, key).ix
<1>1. N \in Nat /\ cap \in Nat /\ Items(o)
  BY ItemFacts DEF IsTable, Items
<1>2. PICK m \in 0 .. N - 1 : Item(o, m).name = key
  BY DEF Names
<1>3. cell = Item(o, m).cell_ix /\ cell \in 0 .. cap - 1 /\ o.cells[cell] = m
  BY <1>2, ProbeFinds
<1> DEFINE q == LastMovedTo(o, m)
           p == Removed(o, key)
<1>4. p = HoleClosed(q, cell)
  BY <1>3 DEF Removed
<1> HIDE DEF cell, p, q
<1>5. /\ IsTable(q, cell) /\ q.cell_capacity = cap /\ Count(q) = N - 1
      /\ SameFree(o.cells, q.cells, cap)
      /\ \A n \in 0 .. N - 2 : Item(q, n) = IF n = m THEN Item(o, N - 1) ELSE Item(o, n)
  BY <1>3, LastMovedTable DEF q
<1>6. PICK z \in 0 .. cap - 1 : o.cells[z] = OBJECT_INVALID_IX
  BY <1>1, FreeCell DEF IsTable
<1>7. q.cells[z] = OBJECT_INVALID_IX
  BY <1>5, <1>6 DEF SameFree
<1>8. /\ IsTable(p, -1) /\ p.cell_capacity = cap /\ Count(p) = N - 1 /\ SameItems(p, q, N - 1)
  BY <1>3, <1>4, <1>5, <1>6, <1>7, ClosedTable
<1>9. (N - 1) - 1 = N - 2 /\ N - 1 \in 0 .. N - 1 /\ \A n \in 0 .. N - 2 : n \in 0 .. N - 1 /\ n # N - 1
  BY <1>1
<1>10. \A n \in 0 .. N - 2 : /\ Item(p, n).name = Item(q, n).name
                             /\ Item(p, n).value = Item(q, n).value
  BY <1>8, <1>9 DEF SameItems
<1>11. \A n \in 0 .. N - 1 : Item(o, n).name = key <=> n = m
  BY <1>1, <1>2 DEF Items
<1>12. ASSUME NEW k, NEW v, Has(p, k, v) PROVE Has(o, k, v) /\ k # key
  <2>1. PICK n \in 0 .. N - 2 : Item(p, n).name = k /\ Item(p, n).value = v
    BY <1>8, <1>9, <1>12 DEF Has
  <2>2. PICK i \in 0 .. N - 1 : i # m /\ Item(q, n) = Item(o, i)
    BY <1>5, <1>9
  <2> QED
    BY <1>10, <1>11, <2>1, <2>2 DEF Has
<1>13. ASSUME NEW k, NEW v, Has(o, k, v), k # key PROVE Has(p, k, v)
  <2>1. PICK i \in 0 .. N - 1 : Item(o, i).name = k /\ Item(o, i).value = v
    BY <1>13 DEF Has
  <2>2. i # m
    BY <1>11, <1>13, <2>1
  <2>3. PICK n \in 0 .. N - 2 : Item(q, n) = Item(o, i)
    <3>1. CASE i = N - 1
      <4>1. m \in 0 .. N - 2
        BY <1>1, <2>2, <3>1
      <4> QED
        BY <1>5, <3>1, <4>1
    <3>2. CASE i # N - 1
      <4>1. i \in 0 .. N - 2
        BY <1>1, <3>2
      <4> QED
        BY <1>5, <2>2, <4>1
    <3> QED
      BY <3>1, <3>2
  <2> QED
    BY <1>8, <1>9, <1>10, <2>1, <2>3 DEF Has
<1> QED
  BY <1>8, <1>12, <1>13 DEF p

-----------------------------------------------------------------------------
(* The calls. *)

(* A table between two calls. *)
Sound(o) == IsTable(o, -1) /\ Loaded(o)

ObjInv == HashType /\ Sound(object)

(* The same values are found, under every key or under every key but one. *)
SameMap(p, o) == \A k, v : Has(p, k, v) <=> Has(o, k, v)
SameBut(p, o, key) == \A k, v : k # key => (Has(p, k, v) <=> Has(o, k, v))

LEMMA WithRoomSound ==
  ASSUME ObjInv
  PROVE  /\ Sound(WithRoom) /\ SameMap(WithRoom, object)
         /\ \A k : Names(WithRoom, k) <=> Names(object, k)
         /\ Count(WithRoom) < item_capacity(WithRoom)
<1>1. Items(object) /\ Count(object) \in Nat /\ object.cell_capacity \in Nat
  BY ItemFacts DEF ObjInv, Sound, IsTable, Items
<1>2. CASE MustGrow(object)
  <2>1. WithRoom = json_object_grow_and_rehash(object)
    BY <1>2 DEF WithRoom
  <2>2. /\ IsTable(WithRoom, -1) /\ WithRoom.cell_capacity >= 2
        /\ Count(WithRoom) = Count(object) /\ Count(WithRoom) < item_capacity(WithRoom)
        /\ SameItems(WithRoom, object, Count(object))
    BY <2>1, GrownTable DEF ObjInv, Sound
  <2>3. WithRoom.cell_capacity \in Nat
    BY <2>2 DEF IsTable, Items
  <2>4. Loaded(WithRoom)
    BY <1>1, <2>2, <2>3 DEF Loaded, item_capacity
  <2> QED
    BY <2>2, <2>4, SameItemsHas DEF Sound, SameMap
<1>3. CASE ~MustGrow(object)
  <2>1. WithRoom = object
    BY <1>3 DEF WithRoom
  <2>2. Count(object) < item_capacity(object)
    BY <1>1, <1>3 DEF MustGrow, item_capacity
  <2> QED
    BY <2>1, <2>2 DEF ObjInv, SameMap
<1> QED
  BY <1>2, <1>3

LEMMA AddedSound ==
  ASSUME ObjInv, NEW key \in Keys, NEW value \in Values, ~Names(object, key)
  PROVE  LET p == Appended(WithRoom, key, value)
         IN Sound(p) /\ SameBut(p, object, key) /\ Has(p, key, value)
<1>1. PICK o : o = WithRoom
  OBVIOUS
<1>2. /\ HashType /\ Sound(o) /\ SameMap(o, object) /\ ~Names(o, key)
      /\ Count(o) < item_capacity(o)
  BY <1>1, WithRoomSound DEF ObjInv
<1>3. Count(o) \in Nat /\ o.cell_capacity \in Nat
  BY <1>2, ItemFacts DEF Sound, IsTable, Items
<1>4. Count(o) < o.cell_capacity /\ o.cell_capacity >= 2
  BY <1>2, <1>3 DEF Sound, Loaded, item_capacity
<1>5. PICK p : p = Appended(o, key, value)
  OBVIOUS
<1>6. /\ IsTable(p, -1) /\ p.cell_capacity = o.cell_capacity /\ Count(p) = Count(o) + 1
      /\ \A n \in 0 .. Count(o) - 1 : Item(p, n) = Item(o, n)
      /\ Item(p, Count(o)).name = key /\ Item(p, Count(o)).value = value
  BY <1>2, <1>4, <1>5, AppendedTable DEF Sound
<1>7. Loaded(p)
  BY <1>2, <1>3, <1>4, <1>6 DEF Loaded, item_capacity
<1>8. \A k, v : Has(p, k, v) <=> Has(o, k, v) \/ (k = key /\ v = value)
  BY <1>3, <1>6, AppendedHas
<1>9. SameBut(p, object, key) /\ Has(p, key, value)
  BY <1>2, <1>8 DEF SameMap, SameBut
<1> QED
  BY <1>1, <1>5, <1>6, <1>7, <1>9 DEF Sound

LEMMA RemovedSound ==
  ASSUME HashType, NEW o, Sound(o), NEW key \in Keys, Names(o, key)
  PROVE  LET p == Removed(o, key)
         IN Sound(p) /\ SameBut(p, o, key) /\ \A v : ~Has(p, key, v)
<1>1. Items(o) /\ Count(o) \in Nat /\ o.cell_capacity \in Nat
  BY ItemFacts DEF Sound, IsTable, Items
<1>2. Count(o) > 0
  BY <1>1 DEF Names
<1>3. Count(o) < o.cell_capacity
  BY <1>1, <1>2, LoadedHasRoom DEF Sound
<1>4. PICK p : p = Removed(o, key)
  OBVIOUS
<1>5. /\ IsTable(p, -1) /\ p.cell_capacity = o.cell_capacity /\ Count(p) = Count(o) - 1
      /\ \A k, v : Has(p, k, v) <=> Has(o, k, v) /\ k # key
  BY <1>3, <1>4, RemovedTable DEF Sound
<1>6. Loaded(p)
  BY <1>1, <1>5 DEF Sound, Loaded, item_capacity
<1> QED
  BY <1>4, <1>5, <1>6 DEF Sound, SameBut

(* The value of the item m is replaced. *)
LEMMA ReplacedSound ==
  ASSUME HashType, NEW o, Sound(o), NEW m \in 0 .. Count(o) - 1, NEW value \in Values
  PROVE  LET it == Item(o, m)
             p == Table(o.cells,
                        [o.items EXCEPT ![m + 1] = Entry(it.name, value, it.hash, it.cell_ix)],
                        o.cell_capacity)
         IN Sound(p) /\ SameBut(p, o, it.name) /\ Has(p, it.name, value)
<1> DEFINE it == Item(o, m)
           e == Entry(it.name, value, it.hash, it.cell_ix)
           p == Table(o.cells, [o.items EXCEPT ![m + 1] = e], o.cell_capacity)
           N == Count(o)
           cap == o.cell_capacity
<1>1. /\ Items(o) /\ N \in Nat /\ cap \in Nat /\ o.items \in Seq(ItemType)
      /\ m + 1 \in 1 .. Len(o.items) /\ it \in ItemType
  BY ItemFacts DEF Sound, IsTable, Items
<1>2. /\ e \in ItemType /\ e.name = it.name /\ e.value = value /\ e.hash = it.hash
      /\ e.cell_ix = it.cell_ix
  BY <1>1 DEF Entry, ItemType
<1>3. p.cells = o.cells /\ p.items = [o.items EXCEPT ![m + 1] = e] /\ p.cell_capacity = cap
  BY DEF Table
<1> HIDE DEF p, e
<1>4. /\ p.items \in Seq(ItemType) /\ Len(p.items) = Len(o.items)
      /\ \A n \in 1 .. Len(o.items) : p.items[n] = IF n = m + 1 THEN e ELSE o.items[n]
  <2>1. PICK i : i = m + 1 /\ i \in 1 .. Len(o.items)
    BY <1>1
  <2> HIDE DEF it
  <2>2. /\ [o.items EXCEPT ![i] = e] \in Seq(ItemType)
        /\ Len([o.items EXCEPT ![i] = e]) = Len(o.items)
        /\ \A n \in 1 .. Len(o.items) :
             [o.items EXCEPT ![i] = e][n] = IF n = i THEN e ELSE o.items[n]
    BY <1>1, <1>2, <2>1, ExceptSeq
  <2> QED
    BY <1>3, <2>1, <2>2
<1>5. Count(p) = N
  BY <1>4 DEF Count
<1>6. \A n \in 0 .. N - 1 : Item(p, n) = IF n = m THEN e ELSE Item(o, n)
  <2>1. \A n \in 0 .. N - 1 : n + 1 \in 1 .. Len(o.items) /\ (n + 1 = m + 1 <=> n = m)
    BY <1>1, ItemFacts
  <2> QED
    BY <1>4, <2>1 DEF Item
<1>7. \A n \in 0 .. N - 1 : /\ Item(p, n).name = Item(o, n).name
                            /\ Item(p, n).hash = Item(o, n).hash
                            /\ Item(p, n).cell_ix = Item(o, n).cell_ix
                            /\ n # m => Item(p, n).value = Item(o, n).value
  BY <1>2, <1>6
<1>8. Items(p)
  BY <1>1, <1>3, <1>4, <1>5, <1>7 DEF Items
<1>9. PosOf(p) = PosOf(o) /\ HomesOf(p) = HomesOf(o)
  BY <1>3, <1>5, <1>7 DEF PosOf, HomesOf, Home
<1>10. IsTable(p, -1)
  BY <1>3, <1>5, <1>8, <1>9 DEF Sound, IsTable
<1>11. Loaded(p)
  BY <1>3, <1>5 DEF Sound, Loaded, item_capacity
<1>12. Has(p, it.name, value)
  BY <1>2, <1>5, <1>6 DEF Has
<1>13. SameBut(p, o, it.name)
  BY <1>1, <1>5, <1>7 DEF SameBut, Has, Items
<1> QED
  BY <1>10, <1>11, <1>12, <1>13 DEF Sound, p, e

-----------------------------------------------------------------------------
(* The steps. *)

LEMMA FoundNames ==
  ASSUME ObjInv, NEW key \in Keys PROVE Found(object, key) <=> Names(object, key)
BY LookupFinds DEF ObjInv, Sound

(* What a call of add or set does to the table. *)
Puts(p, key, value) ==
  /\ Sound(p) /\ SameBut(p, object, key)
  /\ status' = "JSONFailure" => SameMap(p, object)
  /\ status' = "JSONSuccess" => Has(p, key, value)

LEMMA AddStep ==
  ASSUME ObjInv, NEW key \in Keys, NEW value \in Values, json_object_add(key, value)
  PROVE  hash' = hash /\ Puts(object', key, value)
<1>1. CASE Failure(object)
  BY <1>1 DEF Failure, Puts, ObjInv, SameBut, SameMap
<1>2. CASE ~Found(object, key) /\ Becomes(Appended(WithRoom, key, value))
  BY <1>2, FoundNames, AddedSound DEF Becomes, Puts
<1> QED
  BY <1>1, <1>2 DEF json_object_add

LEMMA SetStep ==
  ASSUME ObjInv, NEW key \in Keys, NEW value \in Values, json_object_set_value(key, value)
  PROVE  hash' = hash /\ Puts(object', key, value)
<1>1. CASE Failure(object)
  BY <1>1 DEF Failure, Puts, ObjInv, SameBut, SameMap
<1>2. CASE Failure(WithRoom)
  BY <1>2, WithRoomSound DEF Failure, Puts, SameBut, SameMap
<1>3. CASE ~Found(object, key) /\ Becomes(Appended(WithRoom, key, value))
  BY <1>3, FoundNames, AddedSound DEF Becomes, Puts
<1>4. CASE /\ Found(object, key)
           /\ LET n == object.cells[json_object_get_cell_ix(object, key).ix]
                  it == Item(object, n)
              IN Becomes(Table(object.cells,
                               [object.items EXCEPT ![n + 1] = Entry(it.name, value, it.hash, it.cell_ix)],
                               object.cell_capacity))
  <2>1. PICK m \in 0 .. Count(object) - 1 : Item(object, m).name = key
    BY <1>4, FoundNames DEF Names
  <2>2. object.cells[json_object_get_cell_ix(object, key).ix] = m
    BY <2>1, ProbeFinds DEF ObjInv, Sound
  <2> DEFINE it == Item(object, m)
             p == Table(object.cells,
                        [object.items EXCEPT ![m + 1] = Entry(it.name, value, it.hash, it.cell_ix)],
                        object.cell_capacity)
  <2>3. Becomes(p)
    BY <1>4, <2>2
  <2>4. Sound(p) /\ SameBut(p, object, key) /\ Has(p, key, value)
    BY <2>1, ReplacedSound DEF ObjInv
  <2> HIDE DEF p
  <2> QED
    BY <2>3, <2>4 DEF Becomes, Puts
<1> QED
  BY <1>1, <1>2, <1>3, <1>4 DEF json_object_set_value

LEMMA RemoveStep ==
  ASSUME ObjInv, NEW key \in Keys, json_object_remove(key)
  PROVE  /\ hash' = hash /\ Sound(object') /\ SameBut(object', object, key)
         /\ status' = "JSONFailure" => SameMap(object', object)
         /\ status' = "JSONSuccess" => \A v : ~Has(object', key, v)
<1>1. CASE Found(object, key)
  <2>1. Becomes(Removed(object, key))
    BY <1>1 DEF json_object_remove
  <2> QED
    BY <1>1, <2>1, FoundNames, RemovedSound DEF Becomes, ObjInv
<1>2. CASE ~Found(object, key)
  <2>1. Failure(object)
    BY <1>2 DEF json_object_remove
  <2> QED
    BY <2>1 DEF Failure, ObjInv, SameBut, SameMap
<1> QED
  BY <1>1, <1>2

LEMMA ClearStep ==
  ASSUME ObjInv, json_object_clear
  PROVE  /\ hash' = hash /\ Sound(object') /\ status' = "JSONSuccess"
         /\ \A k, v : ~Has(object', k, v)
<1>1. PICK p : p = json_object_init(object.cell_capacity)
  OBVIOUS
<1>2. object.cell_capacity \in Nat /\ Count(object) \in Nat
  BY ItemFacts DEF ObjInv, Sound, IsTable, Items
<1>3. IsTable(p, -1) /\ p.cell_capacity = object.cell_capacity /\ Count(p) = 0
  BY <1>1, <1>2, EmptyTable
<1>4. Loaded(p)
  BY <1>2, <1>3 DEF ObjInv, Sound, Loaded, item_capacity
<1>5. \A k, v : ~Has(p, k, v)
  BY <1>3 DEF Has
<1>6. object' = p /\ hash' = hash /\ status' = "JSONSuccess"
  BY <1>1 DEF json_object_clear, Becomes
<1> QED
  BY <1>3, <1>4, <1>5, <1>6 DEF Sound

LEMMA StepSound == ASSUME ObjInv, ObjNext PROVE hash' = hash /\ Sound(object')
<1>1. CASE json_object_clear
  BY <1>1, ClearStep
<1>2. CASE \E key \in Keys : json_object_remove(key)
  BY <1>2, RemoveStep
<1>3. CASE \E key \in Keys, value \in Values : json_object_add(key, value)
  BY <1>3, AddStep DEF Puts
<1>4. CASE \E key \in Keys, value \in Values : json_object_set_value(key, value)
  BY <1>4, SetStep DEF Puts
<1> QED
  BY <1>1, <1>2, <1>3, <1>4 DEF ObjNext

LEMMA ObjInvInit == ObjInit => ObjInv
<1> SUFFICES ASSUME ObjInit PROVE ObjInv
  OBVIOUS
<1>1. HashType
  BY ObjectAssumption DEF ObjInit, HashType
<1>2. IsTable(object, -1) /\ object.cell_capacity = 0 /\ Count(object) = 0
  BY EmptyTable DEF ObjInit
<1>3. Loaded(object)
  BY <1>2 DEF Loaded, item_capacity
<1> QED
  BY <1>1, <1>2, <1>3 DEF ObjInv, Sound

LEMMA ObjInvNext == ObjInv /\ [ObjNext]_objVars => ObjInv'
<1> SUFFICES ASSUME ObjInv, [ObjNext]_objVars PROVE ObjInv'
  OBVIOUS
<1>1. hash' = hash /\ Sound(object')
  <2>1. CASE ObjNext
    BY <2>1, StepSound
  <2>2. CASE UNCHANGED objVars
    BY <2>2 DEF objVars, ObjInv
  <2> QED
    BY <2>1, <2>2
<1>2. HashType'
  BY <1>1 DEF ObjInv, HashType
<1>3. IsTable(object, -1)'
  BY <1>1 DEF Sound, IsTable, Items, Linked, Reached, PosOf, HomesOf
<1>4. Loaded(object)'
  BY <1>1 DEF Sound, Loaded
<1> QED
  BY <1>2, <1>3, <1>4 DEF ObjInv, Sound

(* In every reachable state the hash table of a JSON object is consistent. *)
THEOREM ObjSafe == ObjSpec => []ObjInv
BY ObjInvInit, ObjInvNext, PTL DEF ObjSpec

-----------------------------------------------------------------------------
(* The theorems. *)

LEMMA SoundConsistent == ObjInv => TableConsistent
<1> SUFFICES ASSUME ObjInv PROVE TableConsistent
  OBVIOUS
<1>1. PICK o : o = object
  OBVIOUS
<1> DEFINE N == Count(o)
           cap == o.cell_capacity
<1>2. /\ Items(o) /\ Linked(o.cells, PosOf(o), N, cap, -1) /\ Loaded(o)
      /\ N \in Nat /\ cap \in Nat
  BY <1>1, ItemFacts DEF ObjInv, Sound, IsTable, Items
<1>3. \A n \in 0 .. N - 1 : o.cells[Item(o, n).cell_ix] = n
  BY <1>2 DEF Linked, PosOf
<1>4. \A c \in 0 .. cap - 1 :
        o.cells[c] # OBJECT_INVALID_IX => o.cells[c] < N /\ Item(o, o.cells[c]).cell_ix = c
  <2> SUFFICES ASSUME NEW c \in 0 .. cap - 1, o.cells[c] # OBJECT_INVALID_IX
               PROVE  o.cells[c] < N /\ Item(o, o.cells[c]).cell_ix = c
    OBVIOUS
  <2>1. o.cells[c] \in 0 .. N - 1 /\ PosOf(o)[o.cells[c]] = c
    BY <1>2 DEF Linked
  <2>2. PosOf(o)[o.cells[c]] = Item(o, o.cells[c]).cell_ix
    BY <2>1 DEF PosOf
  <2>3. \A n \in 0 .. N - 1 : n < N
    BY <1>2
  <2> QED
    BY <2>1, <2>2, <2>3
<1>5. \A m, n \in 0 .. N - 1 : Item(o, m).name = Item(o, n).name => m = n
  BY <1>2 DEF Items
<1>6. N <= item_capacity(o)
  BY <1>2 DEF Loaded
<1>7. cap > 0 => \E c \in 0 .. cap - 1 : o.cells[c] = OBJECT_INVALID_IX
  BY <1>2, LoadedHasRoom, FreeCell
<1> QED
  BY <1>1, <1>3, <1>4, <1>5, <1>6, <1>7 DEF TableConsistent

(* Through any sequence of additions, replacements, removals, growths,     *)
(* clearings and failed allocations, for every hash function, the items    *)
(* and the cells of a JSON object point at each other, no key is there     *)
(* twice and a cell is free, so that a probe ends.                         *)
THEOREM ObjConsistent == ObjSpec => []TableConsistent
BY ObjSafe, SoundConsistent, PTL

(* What lookups return is decided by the items. *)
LookupsRight ==
  \A key \in Keys :
    /\ json_object_getn_value(object, key) \in Values \cup {Absent}
    /\ \A v \in Values : json_object_getn_value(object, key) = v <=> Has(object, key, v)

LEMMA InvLookups == ObjInv => LookupsRight
BY LookupFinds DEF ObjInv, Sound, LookupsRight

LEMMA LookupSame ==
  ASSUME HashType, NEW o, NEW p, Sound(o), Sound(p), NEW key \in Keys,
         \A v \in Values : Has(p, key, v) <=> Has(o, key, v)
  PROVE  json_object_getn_value(p, key) = json_object_getn_value(o, key)
<1>1. PICK a : /\ a = json_object_getn_value(o, key) /\ a \in Values \cup {Absent}
               /\ \A v \in Values : a = v <=> Has(o, key, v)
  BY LookupFinds DEF Sound
<1>2. PICK b : /\ b = json_object_getn_value(p, key) /\ b \in Values \cup {Absent}
               /\ \A v \in Values : b = v <=> Has(p, key, v)
  BY LookupFinds DEF Sound
<1>3. a = b
  BY <1>1, <1>2
<1> QED
  BY <1>1, <1>2, <1>3

LEMMA CallsStep ==
  ASSUME ObjInv, ObjNext
  PROVE  /\ status' = "JSONFailure" =>
              \A k \in Keys : json_object_getn_value(object', k) = json_object_getn_value(object, k)
         /\ status' = "JSONSuccess" =>
              \A k \in Keys :
                /\ json_object_remove(k) => json_object_getn_value(object', k) = Absent
                /\ \A v \in Values :
                     json_object_set_value(k, v) \/ json_object_add(k, v)
                     => json_object_getn_value(object', k) = v
<1>1. HashType /\ Sound(object) /\ Sound(object')
  BY StepSound DEF ObjInv
<1>2. ASSUME status' = "JSONFailure", NEW k \in Keys
      PROVE  json_object_getn_value(object', k) = json_object_getn_value(object, k)
  <2>1. SameMap(object', object)
    <3>1. CASE json_object_clear
      BY <1>2, <3>1, ClearStep
    <3>2. CASE \E key \in Keys : json_object_remove(key)
      BY <1>2, <3>2, RemoveStep
    <3>3. CASE \E key \in Keys, value \in Values : json_object_add(key, value)
      BY <1>2, <3>3, AddStep DEF Puts
    <3>4. CASE \E key \in Keys, value \in Values : json_object_set_value(key, value)
      BY <1>2, <3>4, SetStep DEF Puts
    <3> QED
      BY <3>1, <3>2, <3>3, <3>4 DEF ObjNext
  <2> QED
    BY <1>1, <2>1, LookupSame DEF SameMap
<1>3. ASSUME status' = "JSONSuccess", NEW k \in Keys, json_object_remove(k)
      PROVE  json_object_getn_value(object', k) = Absent
  <2>1. \A v : ~Has(object', k, v)
    BY <1>3, RemoveStep
  <2>2. /\ json_object_getn_value(object', k) \in Values \cup {Absent}
        /\ \A v \in Values : json_object_getn_value(object', k) = v <=> Has(object', k, v)
    BY <1>1, LookupFinds DEF Sound
  <2> QED
    BY <2>1, <2>2
<1>4. ASSUME status' = "JSONSuccess", NEW k \in Keys, NEW v \in Values,
             json_object_set_value(k, v) \/ json_object_add(k, v)
      PROVE  json_object_getn_value(object', k) = v
  <2>1. Has(object', k, v)
    BY <1>4, AddStep, SetStep DEF Puts
  <2>2. \A u \in Values : json_object_getn_value(object', k) = u <=> Has(object', k, u)
    BY <1>1, LookupFinds DEF Sound
  <2> QED
    BY <2>1, <2>2
<1> QED
  BY <1>2, <1>3, <1>4

(* A value that was stored is found, a key that was removed is not, and a  *)
(* call that fails, even after the table has grown, changes no lookup.     *)
THEOREM ObjCalls == ObjSpec => CallsTakeEffect
<1> DEFINE A == ~UNCHANGED objVars =>
                /\ status' = "JSONFailure" =>
                     \A k \in Keys : json_object_getn_value(object', k) = json_object_getn_value(object, k)
                /\ status' = "JSONSuccess" =>
                     \A k \in Keys :
                       /\ json_object_remove(k) => json_object_getn_value(object', k) = Absent
                       /\ \A v \in Values :
                            json_object_set_value(k, v) \/ json_object_add(k, v)
                            => json_object_getn_value(object', k) = v
<1>1. ObjInv /\ [ObjNext]_objVars => [A]_objVars
  BY CallsStep
<1>2. CallsTakeEffect <=> [][A]_objVars
  BY Zenon DEF CallsTakeEffect
<1> QED
  BY <1>1, <1>2, ObjSafe, PTL DEF ObjSpec

LEMMA MapStarts == ObjInit /\ LookupsRight => Lookups!MapInit
<1> SUFFICES ASSUME ObjInit, LookupsRight PROVE Lookups!MapInit
  OBVIOUS
<1>1. \A k, v : ~Has(object, k, v)
  <2>1. Count(object) = 0
    BY EmptyTable DEF ObjInit
  <2> QED
    BY <2>1 DEF Has
<1>2. \A k \in Keys : json_object_getn_value(object, k) = Absent
  BY <1>1 DEF LookupsRight
<1> QED
  BY <1>2 DEF Lookups!MapInit, Lookups!EmptyMap

LEMMA MapSteps ==
  ObjInv /\ LookupsRight /\ LookupsRight' /\ [ObjNext]_objVars
  => [Lookups!MapNext]_[k \in Keys |-> json_object_getn_value(object, k)]
<1> SUFFICES ASSUME ObjInv, LookupsRight, LookupsRight', [ObjNext]_objVars
             PROVE  Lookups!MapNext
                    \/ UNCHANGED [k \in Keys |-> json_object_getn_value(object, k)]
  BY Zenon
<1>1. PICK a, b : /\ a = [k \in Keys |-> json_object_getn_value(object, k)]
                  /\ b = [k \in Keys |-> json_object_getn_value(object, k)']
  OBVIOUS
<1>2. PICK o, p : o = object /\ p = object'
  OBVIOUS
<1>3. \A k \in Keys : a[k] \in Values \cup {Absent} /\ \A v \in Values : a[k] = v <=> Has(o, k, v)
  BY <1>1, <1>2 DEF LookupsRight
<1>4. \A k \in Keys : b[k] \in Values \cup {Absent} /\ \A v \in Values : b[k] = v <=> Has(p, k, v)
  BY <1>1, <1>2 DEF LookupsRight, Has, Count, Item
<1>5. ASSUME NEW key \in Keys, SameBut(p, o, key) PROVE Lookups!MapNext
  <2>1. \A u \in Keys \ {key} : b[u] = a[u]
    BY <1>3, <1>4, <1>5 DEF SameBut
  <2> QED
    BY <1>1, <1>4, <2>1 DEF Lookups!MapNext, Lookups!Change
<1>6. CASE json_object_clear
  <2>1. \A k \in Keys : b[k] = Absent
    BY <1>2, <1>4, <1>6, ClearStep
  <2> QED
    BY <1>1, <2>1 DEF Lookups!MapNext, Lookups!Clear
<1>7. CASE \E key \in Keys : json_object_remove(key)
  BY <1>2, <1>5, <1>7, RemoveStep
<1>8. CASE \E key \in Keys, value \in Values : json_object_add(key, value)
  BY <1>2, <1>5, <1>8, AddStep DEF Puts
<1>9. CASE \E key \in Keys, value \in Values : json_object_set_value(key, value)
  BY <1>2, <1>5, <1>9, SetStep DEF Puts
<1>10. CASE UNCHANGED objVars
  <2>1. p = o
    BY <1>2, <1>10 DEF objVars
  <2>2. \A k \in Keys : b[k] = a[k]
    BY <1>3, <1>4, <2>1
  <2>3. a = b
    BY <1>1, <2>2
  <2> QED
    BY <1>1, <2>3
<1> QED
  BY <1>6, <1>7, <1>8, <1>9, <1>10 DEF ObjNext

(* To its users the hash table is a map: a call changes what is found      *)
(* under at most one key, or clears the object.                            *)
THEOREM ObjRefinesMap == ObjSpec => ObjectIsMap
<1>1. ObjInit => Lookups!MapInit
  BY ObjInvInit, InvLookups, MapStarts
<1>2. ObjSpec => []LookupsRight
  BY ObjSafe, InvLookups, PTL
<1> QED
  BY <1>1, <1>2, ObjSafe, MapSteps, PTL DEF ObjSpec, ObjectIsMap, Lookups!MapSpec
=============================================================================
