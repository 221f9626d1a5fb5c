--------------------------------- MODULE Powers ---------------------------------
(***************************************************************************)
(* Powers of numbers, as a recursive function (proofs can expand it).      *)
(***************************************************************************)
EXTENDS Integers

power(b, n) ==
  LET p[k \in Nat] == IF k = 0 THEN 1 ELSE b * p[k - 1]
  IN p[n]
==============================================================================
