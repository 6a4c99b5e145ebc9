----------------------------- MODULE Libraries -----------------------------
(***************************************************************************)
(* The library code that is kept in the repository, each part driven by    *)
(* callers that use it in every way its interface allows: the vector, and  *)
(* of parson the parser, its strings and its objects.  The parts share no  *)
(* state; a behaviour exercises one of them, and the others rest.          *)
(***************************************************************************)
EXTENDS VectorHistory, JsonParse, JsonString, JsonObject

VARIABLE part   \* the part that is exercised

libVars == <<part, vecVars, call, jsonVars, stringVars, objVars>>

(* A part that rests has one initial state. *)
OneHash == CHOOSE h \in Hashes : \A k, l \in Keys : h[k] = h[l]

LibInit ==
  /\ part \in {"vector", "parser", "string", "object"}
  /\ \/ part = "parser"
     \/ part # "parser" /\ tok = "NUL"
  /\ \/ part = "string"
     \/ part # "string" /\ src = << >> /\ mem = <<Quote, Quote, 0>>
  /\ \/ part = "object"
     \/ part # "object" /\ hash = OneHash
  /\ HistInit /\ JsonInit /\ StringInit /\ ObjInit

LibNext ==
  \/ part = "vector" /\ HistNext /\ UNCHANGED <<part, jsonVars, stringVars, objVars>>
  \/ part = "parser" /\ JsonNext /\ UNCHANGED <<part, vecVars, call, stringVars, objVars>>
  \/ part = "string" /\ StringNext /\ UNCHANGED <<part, vecVars, call, jsonVars, objVars>>
  \/ part = "object" /\ ObjNext /\ UNCHANGED <<part, vecVars, call, jsonVars, stringVars>>

LibSpec == LibInit /\ [][LibNext]_libVars
=============================================================================
