---------------------------- MODULE NullPointer ----------------------------
(* The NULL pointer of C, different from every value that a model points at. *)
CONSTANT Null
=============================================================================
