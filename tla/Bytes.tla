--------------------------------- MODULE Bytes ---------------------------------
(***************************************************************************)
(* Numbers as bytes, least significant first: the form BigNumber reads and *)
(* writes, and the memory ByteBuffer copies.  A byte has Base values.      *)
(***************************************************************************)
EXTENDS Integers, SequencesExt, Powers

CONSTANT Base

ASSUME BaseAssumption == Base \in Nat /\ Base > 1

little_endian(n, length) == [i \in 1 .. length |-> (n \div power(Base, i - 1)) % Base]

number(bytes) ==
  LET value[n \in 0 .. Len(bytes)] ==
        IF n = 0 THEN 0 ELSE value[n - 1] + bytes[n] * power(Base, n - 1)
  IN value[Len(bytes)]
==============================================================================
