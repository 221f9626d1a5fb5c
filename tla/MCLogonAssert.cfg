\* A Debug build and the assertion of verify_challenge.
CONSTANTS
  alice = alice
  bob = bob
  NoSrp6 = NoSrp6
  NoKey = NoKey
  Sessions = {s1}
  Accounts <- MCAccounts
  account_id <- MCAccountId
  Builds <- MCBuilds
  m_builds <- MCKnownBuilds
  max_pre_bc_client_build = 6141
  NDEBUG = FALSE
  MaxFrames = 3
SPECIFICATION Spec
INVARIANT
  NeverUsedTwice
CHECK_DEADLOCK FALSE
