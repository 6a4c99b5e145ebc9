----------------------------- MODULE JsonObject -----------------------------
(***************************************************************************)
(* The JSON object of parson.c: a hash table with open addressing.  An     *)
(* object is [cells, items, cell_capacity]: a cell holds the index of an   *)
(* item, and the arrays names, values, hashes and cell_ixs, whose entries  *)
(* always move together, are one sequence of items.  hash_string() is any  *)
(* function of the key.  Every allocation may fail.                        *)
(***************************************************************************)
EXTENDS Integers, Sequences

CONSTANTS
  Keys, Values,
  Absent,              \* the NULL that a lookup returns
  OBJECT_INVALID_IX,
  STARTING_CAPACITY,
  Hashes,              \* the hash functions, any set of them
  MaxCapacity          \* no growth beyond this capacity

(* With a single cell the first item would fill the table: 16 in the code. *)
ASSUME ObjectAssumption ==
  /\ STARTING_CAPACITY \in Nat /\ STARTING_CAPACITY >= 2
  /\ Hashes \subseteq [Keys -> Nat]
  /\ Absent \notin Values
  /\ OBJECT_INVALID_IX \notin Int

VARIABLES
  hash,     \* hash_string()
  object,
  status    \* what the last call returned

objVars == <<hash, object, status>>

Table(cells, items, capacity) ==
  [cells |-> cells, items |-> items, cell_capacity |-> capacity]

Entry(name, value, hashed, cell_ix) ==
  [name |-> name, value |-> value, hash |-> hashed, cell_ix |-> cell_ix]

item_capacity(o) == (o.cell_capacity * 7) \div 10
Count(o) == Len(o.items)
Item(o, n) == o.items[n + 1]

json_object_init(capacity) ==
  Table([c \in 0 .. capacity - 1 |-> OBJECT_INVALID_IX], << >>, capacity)

(* hash & (cell_capacity - 1), for a capacity that is a power of two. *)
Home(h, o) == h % o.cell_capacity

(* The probe: the first cell from home on that is free or holds the key. *)
Ix(o, key, n) == (Home(hash[key], o) + n) % o.cell_capacity
Holds(o, key, c) == /\ Item(o, o.cells[c]).hash = hash[key]
                    /\ Item(o, o.cells[c]).name = key
Stops(o, key) == {n \in 0 .. o.cell_capacity - 1 :
                    \/ o.cells[Ix(o, key, n)] = OBJECT_INVALID_IX
                    \/ Holds(o, key, Ix(o, key, n))}

json_object_get_cell_ix(o, key) ==
  LET stops == Stops(o, key)
      ix == Ix(o, key, CHOOSE n \in stops : \A m \in stops : n <= m)
  IN IF stops = {} THEN [ix |-> OBJECT_INVALID_IX, found |-> FALSE]
     ELSE [ix |-> ix, found |-> o.cells[ix] # OBJECT_INVALID_IX]

Found(o, key) == json_object_get_cell_ix(o, key).found

(* A new item, whose cell the probe has found. *)
Appended(o, key, value) ==
  LET ix == json_object_get_cell_ix(o, key).ix
  IN Table([o.cells EXCEPT ![ix] = Count(o)],
           Append(o.items, Entry(key, value, hash[key], ix)), o.cell_capacity)

(* Every item is added to a table of twice the size, in the same order. *)
json_object_grow_and_rehash(o) ==
  LET twice == o.cell_capacity * 2
      new == json_object_init(IF twice > STARTING_CAPACITY THEN twice ELSE STARTING_CAPACITY)
      added[n \in 0 .. Count(o)] ==
        IF n = 0 THEN new
        ELSE Appended(added[n - 1], Item(o, n - 1).name, Item(o, n - 1).value)
  IN added[Count(o)]

(* Mutant: the table is allowed to fill up. *)
MustGrow_Never(o) == o.cell_capacity = 0

MustGrow(o) == Count(o) >= item_capacity(o)

json_object_getn_value(o, key) ==
  IF Found(o, key)
  THEN Item(o, o.cells[json_object_get_cell_ix(o, key).ix]).value ELSE Absent

(* The last item takes the place of the one that goes. *)
LastMovedTo(o, n) ==
  LET last == Item(o, Count(o) - 1)
  IN Table(IF n < Count(o) - 1 THEN [o.cells EXCEPT ![last.cell_ix] = n] ELSE o.cells,
           SubSeq([o.items EXCEPT ![n + 1] = last], 1, Count(o) - 1), o.cell_capacity)

(* Mutant: the comparison ignores that a run of cells may wrap around. *)
MayMove_NoWrap(i, j, k) == j > i /\ (k <= i \/ k > j)

(* Whether the item of cell j, whose home is k, may go to the hole i. *)
MayMove(i, j, k) == \/ j > i /\ (k <= i \/ k > j)
                    \/ j < i /\ (k <= i /\ k > j)

(* One round of the loop that looks for the item to put into the hole i. *)
Round(s, j) ==
  LET n == s.o.cells[j]
      it == Item(s.o, n)
  IN IF s.stop \/ n = OBJECT_INVALID_IX THEN [o |-> s.o, i |-> s.i, stop |-> TRUE]
     ELSE IF ~MayMove(s.i, j, Home(it.hash, s.o)) THEN s
     ELSE [o |-> Table([s.o.cells EXCEPT ![s.i] = n],
                       [s.o.items EXCEPT ![n + 1] = Entry(it.name, it.value, it.hash, s.i)],
                       s.o.cell_capacity),
           i |-> j, stop |-> FALSE]

(* The hole is closed by the items behind it that it hides. *)
HoleClosed(o, cell) ==
  LET cap == o.cell_capacity
      after[x \in 0 .. cap - 1] ==
        IF x = 0 THEN [o |-> o, i |-> cell, stop |-> FALSE]
        ELSE Round(after[x - 1], (cell + x) % cap)
      end == after[cap - 1]
  IN Table([end.o.cells EXCEPT ![end.i] = OBJECT_INVALID_IX], end.o.items, cap)

Removed(o, key) ==
  LET cell == json_object_get_cell_ix(o, key).ix
  IN HoleClosed(LastMovedTo(o, o.cells[cell]), cell)

-----------------------------------------------------------------------------

ObjInit ==
  /\ hash \in Hashes
  /\ object = json_object_init(0)          \* json_object_make()
  /\ status = "JSONSuccess"

Becomes(o) == object' = o /\ status' = "JSONSuccess" /\ UNCHANGED hash
Failure(o) == object' = o /\ status' = "JSONFailure" /\ UNCHANGED hash

(* The object with room for a new item, if growing does not fail. *)
WithRoom == IF MustGrow(object) THEN json_object_grow_and_rehash(object) ELSE object
MayGrow == WithRoom.cell_capacity <= MaxCapacity

(* The parser's way: a key that is there already is an error. *)
json_object_add(key, value) ==
  \/ Found(object, key) /\ Failure(object)
  \/ ~Found(object, key) /\ MustGrow(object) /\ Failure(object)
  \/ ~Found(object, key) /\ MayGrow /\ Becomes(Appended(WithRoom, key, value))

(* Mutant: a value that is there already is kept. *)
json_object_set_value_KeepsOld(key, value) ==
  \/ Found(object, key) /\ Becomes(object)
  \/ ~Found(object, key) /\ MayGrow /\ Becomes(Appended(WithRoom, key, value))

(* The key is copied after the table has grown. *)
json_object_set_value(key, value) ==
  \/ /\ Found(object, key)
     /\ LET n == object.cells[json_object_get_cell_ix(object, key).ix]
            it == Item(object, n)
        IN Becomes(Table(object.cells,
                         [object.items EXCEPT ![n + 1] = Entry(it.name, value, it.hash, it.cell_ix)],
                         object.cell_capacity))
  \/ ~Found(object, key) /\ MustGrow(object) /\ Failure(object)
  \/ ~Found(object, key) /\ MayGrow /\ Failure(WithRoom)
  \/ ~Found(object, key) /\ MayGrow /\ Becomes(Appended(WithRoom, key, value))

json_object_remove(key) ==
  IF Found(object, key) THEN Becomes(Removed(object, key)) ELSE Failure(object)

(* The table keeps its size. *)
json_object_clear == Becomes(json_object_init(object.cell_capacity))

ObjNext ==
  \/ json_object_clear
  \/ \E key \in Keys :
       \/ json_object_remove(key)
       \/ \E value \in Values : json_object_add(key, value) \/ json_object_set_value(key, value)

ObjSpec == ObjInit /\ [][ObjNext]_objVars

-----------------------------------------------------------------------------
(* Properties. *)

(* Items and cells point at each other, no key is there twice, and the     *)
(* table is never full, so that every probe comes to an end.               *)
TableConsistent ==
  /\ \A n \in 0 .. Count(object) - 1 : object.cells[Item(object, n).cell_ix] = n
  /\ \A c \in 0 .. object.cell_capacity - 1 :
       object.cells[c] # OBJECT_INVALID_IX =>
         /\ object.cells[c] < Count(object)
         /\ Item(object, object.cells[c]).cell_ix = c
  /\ \A m, n \in 0 .. Count(object) - 1 :
       Item(object, m).name = Item(object, n).name => m = n
  /\ Count(object) <= item_capacity(object)
  /\ object.cell_capacity > 0 =>
       \E c \in 0 .. object.cell_capacity - 1 : object.cells[c] = OBJECT_INVALID_IX

(* Lookups see a map: through collisions, growth and removals a call       *)
(* changes what is found under at most one key, or clears the object.      *)
Lookups == INSTANCE KeyMap WITH
  map <- [k \in Keys |-> json_object_getn_value(object, k)]
ObjectIsMap == Lookups!MapSpec

(* A value that was stored is found under its key, a key that was removed  *)
(* is not found, and a call that fails changes nothing a lookup sees, even *)
(* if the table has grown before it failed.                                *)
CallsTakeEffect ==
  [][ ~UNCHANGED objVars =>
      /\ status' = "JSONFailure" =>
           \A k \in Keys : json_object_getn_value(object', k) = json_object_getn_value(object, k)
      /\ status' = "JSONSuccess" =>
           \A k \in Keys :
             /\ json_object_remove(k) => json_object_getn_value(object', k) = Absent
             /\ \A v \in Values :
                  json_object_set_value(k, v) \/ json_object_add(k, v)
                  => json_object_getn_value(object', k) = v ]_objVars
=============================================================================
