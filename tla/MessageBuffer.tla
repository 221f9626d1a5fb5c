---------------------------- MODULE MessageBuffer ----------------------------
(***************************************************************************)
(* Utilities::MessageBuffer (Shared/Utilities/MessageBuffer.cpp): a byte   *)
(* vector with a read and a write position.  The bytes between the two     *)
(* positions are "active": written and not yet consumed.  A session reads  *)
(* from the socket into one such buffer.                                   *)
(*                                                                         *)
(* The buffer is a record value and every member function an operator on   *)
(* it, so the specification that owns the buffer keeps it in one variable. *)
(* Positions are 0-based as in the code, m_data is a 1-based sequence:     *)
(* read_ptr()[i] is m_data[m_read_pos + i + 1].                            *)
(***************************************************************************)
EXTENDS Naturals, Sequences

CONSTANTS
  Byte,           \* the values of one std::uint8_t
  initial_size    \* MessageBuffer::initial_size, 4096 in the code

Buffer == [m_data : Seq(Byte), m_read_pos : Nat, m_write_pos : Nat]

(* std::vector::resize value-initializes what it adds.                     *)
Zeroes(n) == [i \in 1..n |-> 0]

NewBuffer == [m_data |-> Zeroes(initial_size), m_read_pos |-> 0, m_write_pos |-> 0]

active_size(b) == b.m_write_pos - b.m_read_pos

remaining_size(b) == Len(b.m_data) - b.m_write_pos

reset(b) == [b EXCEPT !.m_read_pos = 0, !.m_write_pos = 0]

(* Faulty variant: the positions move, the bytes do not.                   *)
normalize_positions_only(b) ==
  [b EXCEPT !.m_read_pos = 0, !.m_write_pos = active_size(b)]

(* Moves the active bytes to the front.  What lies behind them is left as  *)
(* it was: bytes of earlier messages stay in the vector.                   *)
normalize(b) ==
  IF b.m_read_pos = 0
  THEN b
  ELSE [m_data      |-> [i \in 1..Len(b.m_data) |->
                           IF i <= active_size(b) THEN b.m_data[b.m_read_pos + i]
                                                  ELSE b.m_data[i]],
        m_read_pos  |-> 0,
        m_write_pos |-> active_size(b)]

ensure_free_space(b) ==
  IF remaining_size(b) > 0
  THEN b
  ELSE [b EXCEPT !.m_data = @ \o Zeroes(initial_size)]

read_completed(b, size) == [b EXCEPT !.m_read_pos = @ + size]

(* The kernel stores the received bytes at write_ptr(), then the completion *)
(* handler calls write_completed.                                          *)
write(b, bytes) ==
  [b EXCEPT !.m_data = [i \in 1..Len(b.m_data) |->
                          IF b.m_write_pos < i /\ i <= b.m_write_pos + Len(bytes)
                          THEN bytes[i - b.m_write_pos]
                          ELSE b.m_data[i]],
            !.m_write_pos = @ + Len(bytes)]

(* The values a read of read_ptr()[i] can produce.  Nothing checks that    *)
(* the position is active: inside the vector it yields whatever was left   *)
(* there, beyond its end any value at all.                                 *)
peek(b, i) ==
  IF b.m_read_pos + i < Len(b.m_data)
  THEN {b.m_data[b.m_read_pos + i + 1]}
  ELSE Byte

==============================================================================
