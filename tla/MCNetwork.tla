------------------------------ MODULE MCNetwork ------------------------------
(***************************************************************************)
(* Network with a few connections and packets of two bytes.                *)
(***************************************************************************)
EXTENDS Network, TLC

Symmetry == Permutations(Sockets)

==============================================================================
