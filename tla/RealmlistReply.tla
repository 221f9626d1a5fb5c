----------------------------- MODULE RealmlistReply -----------------------------
(***************************************************************************)
(* The bytes of the reply to a realm list request, as realmlist_handler    *)
(* appends them to its ByteBuffers, and the client that reads them.  A     *)
(* realm is what the handler's loop has made of it: RealmList tells which  *)
(* realms it lists and with which flags.                                   *)
(***************************************************************************)
EXTENDS Bytes

realmflag_specifybuild == 4
cmd_realmlist == 0

(* ByteBuffer::operator<<; a value is cut to the width of its type, and a  *)
(* float is four bytes nobody looks into.                                  *)
uint8(value) == little_endian(value, 1)
uint16(value) == little_endian(value, 2)
uint32(value) == little_endian(value, 4)
string(value) == Append(value, 0)

post_bc(expansion) == expansion = "post_bc"

specifies_build(flags) == (flags \div realmflag_specifybuild) % 2 = 1

(* The version in brackets: characters, none of them zero.                 *)
version_text(build) == <<build.major + 1, build.minor + 1, build.revision + 1>>

name_shown(realm, expansion) ==
  IF expansion = "pre_bc" /\ specifies_build(realm.flags)
  THEN realm.name \o version_text(realm.build) ELSE realm.name

realm_bytes(realm, expansion) ==
  (IF post_bc(expansion) THEN uint8(realm.type) \o uint8(1) ELSE uint32(realm.type))
  \o uint8(realm.flags)
  \o string(name_shown(realm, expansion))
  \o string(realm.address)
  \o uint32(realm.population)
  \o uint8(realm.characters)
  \o uint8(realm.category)
  \o (IF post_bc(expansion) THEN uint8(realm.id) ELSE uint8(0))
  \o (IF post_bc(expansion) /\ specifies_build(realm.flags)
      THEN uint8(realm.build.major) \o uint8(realm.build.minor)
           \o uint8(realm.build.revision) \o uint16(realm.build.build)
      ELSE <<>>)

footer(expansion) == IF post_bc(expansion) THEN uint8(16) \o uint8(0) ELSE uint8(0) \o uint8(2)

(* Faulty variant: the length leaves out the count before the list.        *)
header_without_count(realmlist_size_buffer, realmlist_buffer) ==
  uint8(cmd_realmlist) \o uint16(Len(realmlist_buffer))

header(realmlist_size_buffer, realmlist_buffer) ==
  uint8(cmd_realmlist) \o uint16(Len(realmlist_buffer) + Len(realmlist_size_buffer))

reply(realms, expansion) ==
  LET realmlist_buffer ==
        FlattenSeq([i \in DOMAIN realms |-> realm_bytes(realms[i], expansion)]) \o footer(expansion)
      realmlist_size_buffer ==
        uint32(0) \o (IF post_bc(expansion) THEN uint16(Len(realms)) ELSE uint8(Len(realms)))
  IN header(realmlist_size_buffer, realmlist_buffer) \o realmlist_size_buffer \o realmlist_buffer

-----------------------------------------------------------------------------
(* The client.  It takes fields off the front of what it has got; what is  *)
(* missing it reads as zeroes.                                             *)
Taken(bytes, length) == [i \in 1 .. length |-> IF i \in DOMAIN bytes THEN bytes[i] ELSE 0]
Rest(bytes, length) == SubSeq(bytes, length + 1, Len(bytes))
Text(bytes) ==
  LET zeroes == {i \in DOMAIN bytes : bytes[i] = 0}
  IN IF zeroes = {} THEN bytes
     ELSE SubSeq(bytes, 1, (CHOOSE i \in zeroes : \A j \in zeroes : i <= j) - 1)

ReadRealm(bytes, expansion) ==
  LET head == IF post_bc(expansion) THEN 2 ELSE 4
      flags == number(Taken(Rest(bytes, head), 1))
      names == Rest(bytes, head + 1)
      name == Text(names)
      addresses == Rest(names, Len(name) + 1)
      address == Text(addresses)
      numbers == Rest(addresses, Len(address) + 1)
      stamp == Rest(numbers, 7)
      stamped == post_bc(expansion) /\ specifies_build(flags)
  IN [seen |->
        [type |-> number(Taken(bytes, IF post_bc(expansion) THEN 1 ELSE 4)), flags |-> flags,
         name |-> name, address |-> address,
         population |-> number(Taken(numbers, 4)),
         characters |-> number(Taken(Rest(numbers, 4), 1)),
         category |-> number(Taken(Rest(numbers, 5), 1)),
         id |-> number(Taken(Rest(numbers, 6), 1)),
         version |-> IF stamped THEN Taken(stamp, 5) ELSE <<>>],
      rest |-> Rest(stamp, IF stamped THEN 5 ELSE 0)]

(* Its loop, over as many realms as the count says.                        *)
ReadNext(read, expansion) ==
  LET realm == ReadRealm(read.rest, expansion)
  IN [realms |-> Append(read.realms, realm.seen), rest |-> realm.rest]

ReadReply(bytes, expansion) ==
  LET declared == number(Taken(Rest(bytes, 1), 2))
      width == IF post_bc(expansion) THEN 2 ELSE 1
      count == number(Taken(Rest(bytes, 7), width))
      read[i \in 0 .. count] ==
        IF i = 0 THEN [realms |-> <<>>, rest |-> Rest(bytes, 7 + width)]
        ELSE ReadNext(read[i - 1], expansion)
  IN [realms |-> read[count].realms,
      whole |-> declared = Len(bytes) - 3 /\ Len(read[count].rest) = 2]

(* What the client should see of a realm.                                  *)
Seen(realm, expansion) ==
  LET stamped == specifies_build(realm.flags)
      build == realm.build
  IN [type |-> realm.type, flags |-> realm.flags,
      name |-> IF stamped /\ expansion = "pre_bc"
               THEN realm.name \o version_text(build) ELSE realm.name,
      address |-> realm.address, population |-> realm.population,
      characters |-> realm.characters, category |-> realm.category,
      id |-> IF post_bc(expansion) THEN realm.id ELSE 0,
      version |-> IF stamped /\ post_bc(expansion)
                  THEN <<build.major, build.minor, build.revision>> \o uint16(build.build)
                  ELSE <<>>]

(* The widths of the fields: one byte for a realm's id and, before the     *)
(* Burning Crusade, for the count, and two for the length.                 *)
Fits(realms, expansion) ==
  /\ Len(realms) < IF post_bc(expansion) THEN power(Base, 2) ELSE Base
  /\ Len(reply(realms, expansion)) - 3 < power(Base, 2)
  /\ post_bc(expansion) => \A i \in DOMAIN realms : realms[i].id < Base
==============================================================================
