----------------------------- MODULE MCAlgorithms -----------------------------
(***************************************************************************)
(* The pure algorithms, each called once with every input of a small set:  *)
(* the key exchange, the bytes of the realm list, a realm's address.       *)
(***************************************************************************)
EXTENDS Srp6, RealmlistReply, RealmAddress

CONSTANTS
  Pending,
  Passwords,   \* the private numbers of passwords
  Secrets_a,   \* what the client draws
  Secrets_b,   \* what the server draws
  Scramblers,
  Lists,       \* of realms, as the handler has made them
  Publics      \* public addresses of the realm

ASSUME SecretAssumption ==
  /\ Passwords \subseteq Nat
  /\ Secrets_a \subseteq Nat /\ Secrets_b \subseteq Nat /\ Scramblers \subseteq Nat

(* A realm as struct Realm and the builds have it: every field a byte      *)
(* but the id, the float and the build; texts hold no zero byte.  The      *)
(* numbers of a version are 32 bits wide in the code, but those of the     *)
(* table are small (1.12.1): they are taken to fit the byte they are sent  *)
(* in, with room for the one that version_text adds.                       *)
Builds == [major : 0 .. Base - 2, minor : 0 .. Base - 2, revision : 0 .. Base - 2, build : Nat]
Realms == [id : Nat, type : 0 .. Base - 1, flags : 0 .. Base - 1,
           name : Seq(1 .. Base - 1), address : Seq(1 .. Base - 1),
           population : 0 .. power(Base, 4) - 1, characters : 0 .. Base - 1,
           category : 0 .. Base - 1, build : Builds]

ASSUME ListsAssumption == Lists \subseteq Seq(Realms)
ASSUME PublicAssumption == Publics \subseteq Addresses

MCN_text == <<7, 15, 14, 13>>

VARIABLES call, result

vars == <<call, result>>

(* A client that typed the password of the account, or another one, and    *)
(* one that knows no password but sends a public key whose S is zero.      *)
Logons == [of : {"logon"}, client : {"honest", "blank"},
           account : Passwords, typed : Passwords,
           a : Secrets_a, b : Secrets_b, u : Scramblers]

(* Realms with nothing and with something in every field.                  *)
Build(n) == [major |-> n, minor |-> 12, revision |-> n + 1, build |-> 77]
Plain(id) == [id |-> id, type |-> 0, flags |-> 0, name |-> <<>>, address |-> <<7>>,
              population |-> 0, characters |-> 0, category |-> 0, build |-> Build(0)]
Full(id) == [id |-> id, type |-> 8, flags |-> 6, name |-> <<3, 4>>, address |-> <<7, 9>>,
             population |-> 4660, characters |-> 15, category |-> 5, build |-> Build(2)]
MCLists == {[i \in 1 .. n |-> Plain(i)] : n \in 0 .. 18}
             \cup {[i \in 1 .. n |-> IF i \in full THEN Full(i) ELSE Plain(i)] :
                     n \in 0 .. 4, full \in SUBSET (1 .. 4)}
             \cup {<<Full(3), Full(16)>>, <<Full(15)>>}
Replies == [of : {"reply"}, realms : Lists, expansion : {"invalid", "pre_bc", "post_bc"}]

(* Neither 0.0.0.0 nor 255.255.255.255 is the address of anyone.            *)
Hosts == 1 .. power(2, address_bits) - 2
Questions == [of : {"address"}, client : Hosts, address : Publics,
              local : Hosts, mask : Addresses]

Init ==
  /\ result = Pending
  /\ call \in Logons \/ call \in Replies \/ call \in Questions

-----------------------------------------------------------------------------
Account(x) == NewAccount(<<"name">>, <<"salt">>, x)

(* The bytes of S, the key and the proof of the client.                    *)
ClientA == IF call.client = "honest" THEN little_endian(mod_exp(g, call.a, m_N), key_length)
           ELSE little_endian((call.a % 2) * m_N, key_length)
ClientS ==
  LET B == calculate_B(call.b, number(Account(call.account).v))
  IN IF call.client = "blank" THEN 0 ELSE ClientSecret(B, call.a, call.u, call.typed)
ClientKey == Interleaved(little_endian(ClientS, key_length))
ClientProof ==
  proof_of(Account(call.account), ClientA,
           calculate_B(call.b, number(Account(call.account).v)), ClientKey)

Logon ==
  /\ call.of = "logon"
  /\ result' = verify_challenge(Account(call.account), call.b, call.u, ClientA, ClientProof)

Reply ==
  /\ call.of = "reply"
  /\ result' = reply(call.realms, call.expansion)

Address ==
  /\ call.of = "address"
  /\ result' = address_for_client(call.client, call.address, call.local, call.mask)

Next ==
  /\ result = Pending
  /\ Logon \/ Reply \/ Address
  /\ UNCHANGED call

Spec == Init /\ [][Next]_vars

-----------------------------------------------------------------------------
(* Whoever knows the password is let in, whatever the secrets of both      *)
(* sides are and however many zeroes S begins with, with the very key the  *)
(* client hashes from its own S.  A client without the password is given   *)
(* nothing, unless its own key happens to agree with the server's; and one *)
(* whose public key makes S zero is given nothing at all.                  *)
KeysAgree ==
  call.of = "logon" /\ result # Pending =>
    IF call.client = "honest" /\ call.typed = call.account THEN result = ClientKey
    ELSE IF call.client = "blank" THEN result = <<>>
    ELSE result \in {<<>>, ClientKey}

(* The client reads from the reply the realms that were put in, with every *)
(* byte accounted for, exactly when count, length and ids fit the width of *)
(* their fields.                                                           *)
ReplyIsReadable ==
  call.of = "reply" /\ result # Pending =>
    LET read == ReadReply(result, call.expansion)
    IN Fits(call.realms, call.expansion) <=>
         /\ read.whole
         /\ read.realms = [i \in DOMAIN call.realms |-> Seen(call.realms[i], call.expansion)]

SameNetwork(a, b, mask) ==
  a \div block(prefix_length(mask)) = b \div block(prefix_length(mask))
EndOfNetwork(a, mask) ==
  LET size == block(prefix_length(mask)) IN size > 1 /\ a % size \in {0, size - 1}

(* A client elsewhere is told the public address and one on the realm's    *)
(* own network the local one (but for the first and the last address of a  *)
(* network, of which nothing is said), and no client elsewhere is sent to  *)
(* its own loopback by a realm that is public.  Only a mask that is none   *)
(* stops the server, and only once a client that is not on the host asks.  *)
AddressFitsClient ==
  call.of = "address" /\ result # Pending =>
    LET remote == ~ is_loopback(call.client)
        lan == SameNetwork(call.client, call.local, call.mask)
        on_host == is_loopback(call.local) \/ is_loopback(call.address)
    IN /\ (result = throws) = (remote /\ ~ is_netmask(call.mask))
       /\ ~ remote => result = IF on_host THEN call.client ELSE call.local
       /\ remote /\ is_netmask(call.mask) =>
            /\ ~ lan => result = call.address
            /\ lan /\ ~ EndOfNetwork(call.client, call.mask) => result = call.local
            /\ call.mask >= netmask(loopback_bits) /\ ~ is_loopback(call.address) =>
                 ~ is_loopback(result)
==============================================================================
