------------------------------ MODULE RealmAddress ------------------------------
(***************************************************************************)
(* Realm::address_for_client, which tells a client the address at which it *)
(* reaches the realm.  Addresses are numbers of address_bits bits; those   *)
(* of the loopback network begin with the bits of loopback_prefix.         *)
(***************************************************************************)
EXTENDS Naturals, Powers

CONSTANTS
  address_bits, loopback_bits, loopback_prefix,
  throws       \* what make_network_v4 does in place of an answer

ASSUME AddressAssumption ==
  /\ address_bits \in Nat
  /\ loopback_bits \in 1 .. address_bits
  /\ loopback_prefix \in 0 .. power(2, loopback_bits) - 1
  /\ throws \notin 0 .. power(2, address_bits) - 1

Addresses == 0 .. power(2, address_bits) - 1

is_loopback(address) == address \div power(2, address_bits - loopback_bits) = loopback_prefix

(* Addresses in a network with a prefix of this length.                    *)
block(length) == power(2, address_bits - length)

(* make_network_v4 throws for a mask that is not ones before zeroes.       *)
netmask(length) == power(2, address_bits) - block(length)
is_netmask(mask) == \E n \in 0 .. address_bits : mask = netmask(n)
prefix_length(mask) == CHOOSE n \in 0 .. address_bits : mask = netmask(n)

(* All addresses between those of the network and of the broadcast, or the *)
(* one address if the mask leaves no other.                                *)
hosts(address, length) ==
  LET network == address - (address % block(length))
  IN IF length = address_bits
     THEN {a \in Addresses : address <= a /\ a < (address + 1) % power(2, address_bits)}
     ELSE network + 1 .. network + block(length) - 2

(* Faulty variant: the public address is not asked for.                    *)
address_for_client_local(client, address, local, mask) ==
  CASE is_loopback(client) ->
         IF is_loopback(local) THEN client ELSE local
    [] ~ is_loopback(client) /\ ~ is_netmask(mask) -> throws
    [] OTHER -> IF client \in hosts(local, prefix_length(mask)) THEN local ELSE address

address_for_client(client, address, local, mask) ==
  CASE is_loopback(client) ->
         IF is_loopback(local) \/ is_loopback(address) THEN client ELSE local
    [] ~ is_loopback(client) /\ ~ is_netmask(mask) -> throws
    [] OTHER -> IF client \in hosts(local, prefix_length(mask)) THEN local ELSE address
==============================================================================
