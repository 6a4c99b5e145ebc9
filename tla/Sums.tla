-------------------------------- MODULE Sums --------------------------------
(* What a loop adds up over the elements 1 .. n of an array. *)
EXTENDS Integers

Total(f, n) ==
  LET sum[k \in 0 .. n] == IF k = 0 THEN 0 ELSE sum[k - 1] + f[k] IN sum[n]
=============================================================================
