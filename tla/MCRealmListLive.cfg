\* Two realms of two kinds of rows, and two changes of the table.
CONSTANTS
  NoRow = NoRow
  Realms = {1, 2}
  Rows <- MCFewRows
  Builds = {5875}
  m_builds <- MCKnownBuilds
  max_pre_bc_client_build = 6141
  MaxChanges = 2
SPECIFICATION FairSpec
PROPERTIES
  TableIsPublished
CHECK_DEADLOCK FALSE
