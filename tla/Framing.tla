------------------------------- MODULE Framing -------------------------------
(***************************************************************************)
(* The wire format of the login protocol as Authentication::Session reads  *)
(* it (Servers/Authentication/Session.hpp and the table at the top of      *)
(* Session::on_read): which commands exist, how long a frame is and which  *)
(* logon challenges the handler accepts.                                   *)
(*                                                                         *)
(* The byte width, the command numbers and the sizes are parameters, so    *)
(* that TLC can check a scaled-down format and the proofs cover the real   *)
(* one: ByteBase = 256, challenge_struct_size = 35, name_slack = 16,       *)
(* logon_proof_size = 75, realmlist_packet_size = 5.                       *)
(***************************************************************************)
EXTENDS Naturals, Sequences

CONSTANTS
  ByteBase,                  \* number of values of a std::uint8_t
  cmd_auth_logon_challenge,
  cmd_auth_logon_proof,
  cmd_realmlist,
  challenge_struct_size,     \* sizeof(cmd_auth_logon_challenge_client_t)
  name_slack,                \* the 16 of the size check in on_read
  logon_proof_size,          \* sizeof(cmd_auth_logon_proof_client_t)
  realmlist_packet_size

Byte == 0 .. (ByteBase - 1)

(* A std::uint16_t, and the field of that type at bytes 2 and 3 of a       *)
(* challenge, in little-endian order.                                      *)
WordBase == ByteBase * ByteBase
Word(lo, hi) == lo + ByteBase * hi

Commands == {cmd_auth_logon_challenge, cmd_auth_logon_proof, cmd_realmlist}

logon_challenge_initial_size == 4

(* The bytes a challenge declares before the account name, and the place   *)
(* of account_name_length, the last of them.                               *)
challenge_fixed_size == challenge_struct_size - logon_challenge_initial_size - 1
name_length_offset == challenge_struct_size - 2

max_challenge_size == challenge_struct_size + name_slack

ASSUME FormatAssumption ==
  /\ ByteBase \in Nat \ {0}
  /\ 0 \in Byte
  /\ Commands \subseteq Byte
  /\ cmd_auth_logon_challenge # cmd_auth_logon_proof
  /\ cmd_auth_logon_challenge # cmd_realmlist
  /\ cmd_auth_logon_proof # cmd_realmlist
  /\ challenge_struct_size \in Nat
  /\ challenge_struct_size >= logon_challenge_initial_size + 2
  /\ name_slack \in Nat
  /\ logon_proof_size \in Nat \ {0}
  /\ realmlist_packet_size \in Nat \ {0}

(* A std::uint16_t can hold the length of every challenge whose name       *)
(* length fits a byte: 4 + 30 + 255 < 65536.                               *)
ASSUME WordAssumption ==
  logon_challenge_initial_size + challenge_fixed_size + ByteBase <= WordBase

(* size += challenge->size, in 16 bits: a large declared size wraps.       *)
challenge_size(declared) == (logon_challenge_initial_size + declared) % WordBase

frame_size(command, declared) ==
  CASE command = cmd_auth_logon_challenge -> challenge_size(declared)
    [] command = cmd_auth_logon_proof     -> logon_proof_size
    [] command = cmd_realmlist            -> realmlist_packet_size

(* The first check of logon_challenge_handler.  The subtraction is done in *)
(* std::size_t, so a declared size below the fixed part never matches.     *)
name_length_matches(declared, account_name_length) ==
  declared = challenge_fixed_size + account_name_length

==============================================================================
