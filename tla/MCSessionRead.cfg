\* A challenge of at most 7 bytes, a proof of 3, a realm list request of 2, in a buffer of 7.
CONSTANTS
  ByteBase = 4
  cmd_auth_logon_challenge = 0
  cmd_auth_logon_proof = 1
  cmd_realmlist = 2
  challenge_struct_size = 6
  name_slack = 1
  logon_proof_size = 3
  realmlist_packet_size = 2
  initial_size = 7
  Streams <- MCStreams
SPECIFICATION FairSpec
INVARIANTS
  TypeOK
  StreamIntegrity
  NoFrameLeftWaiting
  BufferBounded
PROPERTIES
  ImplementsFrameReader
  WholeStreamRead
CHECK_DEADLOCK FALSE
