\* Bytes of 16 values, keys of four bytes with a prime N, addresses of four bits.
CONSTANTS
  Base = 16
  key_length = 4
  disgest_length = 2
  N_text <- MCN_text
  g = 7
  address_bits = 4
  loopback_bits = 2
  loopback_prefix = 1
  throws = throws
  Pending = Pending
  Passwords = {1, 2, 13}
  Secrets_a = {1, 2, 3, 4, 5, 6, 7, 8, 9, 10, 11, 12}
  Secrets_b = {0, 1, 2, 3, 4, 5, 6}
  Scramblers = {0, 1, 5}
  Lists <- MCLists
  Publics = {2, 4, 11}
SPECIFICATION Spec
INVARIANTS
  KeysAgree
  ReplyIsReadable
  AddressFitsClient
CHECK_DEADLOCK FALSE
