------------------------------- MODULE KeyMap -------------------------------
(***************************************************************************)
(* What a JSON object is to its users: a map from keys to values.  A call  *)
(* stores or removes the value of one key, or clears the map.              *)
(***************************************************************************)
CONSTANTS Keys, Values, Absent

VARIABLE map

EmptyMap == [k \in Keys |-> Absent]

MapInit == map = EmptyMap

Change(k) == /\ map'[k] \in Values \cup {Absent}
             /\ \A u \in Keys \ {k} : map'[u] = map[u]
Clear == \A u \in Keys : map'[u] = Absent

Lookup == UNCHANGED map   \* also a call that fails

MapNext == Lookup \/ Clear \/ \E k \in Keys : Change(k)

MapSpec == MapInit /\ [][MapNext]_map
=============================================================================
