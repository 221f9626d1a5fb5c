\* A Release build: assert is compiled out.
CONSTANTS
  alice = alice
  bob = bob
  NoSrp6 = NoSrp6
  NoKey = NoKey
  Sessions = {s1}
  Accounts <- MCAccounts
  account_id <- MCAccountId
  Builds <- MCBuilds
  m_builds <- MCKnownBuilds
  max_pre_bc_client_build = 6141
  NDEBUG = TRUE
  MaxFrames = 4
SPECIFICATION Spec
INVARIANTS
  LogonAnswersLatestChallenge
CHECK_DEADLOCK FALSE
