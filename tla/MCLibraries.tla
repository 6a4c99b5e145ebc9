---------------------------- MODULE MCLibraries ----------------------------
EXTENDS Libraries

(* One character for every length in UTF-8: the digit a, e acute, euro and *)
(* an emoji; and a control character, which may not be there as it is.     *)
RawCharacters ==
  <<[cp |-> 97, bytes |-> <<97>>], [cp |-> 233, bytes |-> <<195, 169>>],
    [cp |-> 8364, bytes |-> <<226, 130, 172>>],
    [cp |-> 128512, bytes |-> <<240, 159, 152, 128>>], [cp |-> -1, bytes |-> <<9>>]>>

(* n, the quote, and x, which escapes nothing. *)
EscapedBytes == {110, 34, 92, 120}

(* The first and last code units of every length and of the surrogates. *)
BoundaryUnits == {0, 127, 128, 2047, 2048, 55295, 55296, 56319, 56320, 57343, 57344, 65535}

(* A quote, a backslash, the letter and a digit of \u, and a byte that is  *)
(* no UTF-8.                                                               *)
ByteValues == {34, 92, 117, 48, 255}

(* Hashes around the end of the table, so that runs of cells wrap. *)
AllHashes == [Keys -> {6, 7, 8}]

(* What decides about the steps that can be taken: all but the name of the *)
(* last call.                                                              *)
Future == <<part, vecVars, jsonVars, stringVars, objVars>>

=============================================================================
