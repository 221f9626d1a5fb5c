\* Two realms, every table of five kinds of rows, and two changes of it.
CONSTANTS
  NoRow = NoRow
  Realms = {1, 2}
  Rows <- MCRows
  Builds <- MCBuilds
  m_builds <- MCKnownBuilds
  max_pre_bc_client_build = 6141
  MaxChanges = 2
SPECIFICATION Spec
INVARIANTS
  TypeOK
  SettledReplyIsComplete
CHECK_DEADLOCK FALSE
