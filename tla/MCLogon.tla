------------------------------- MODULE MCLogon -------------------------------
(***************************************************************************)
(* Logon with two accounts and three client builds: one on each side of    *)
(* the Burning Crusade and one the server does not know.                   *)
(***************************************************************************)
EXTENDS Logon, TLC

CONSTANTS alice, bob

Symmetry == Permutations(Sessions)

MCAccounts == {alice, bob}
MCAccountId == [u \in MCAccounts |-> IF u = alice THEN 1 ELSE 2]
MCBuilds == {5875, 8606, 9999}
MCKnownBuilds == {5875, 8606}

==============================================================================
