\* Two sessions of a Debug build and four frames between them: a second challenge, a second proof,
\* and proofs carried from one session to the other.
CONSTANTS
  alice = alice
  bob = bob
  NoSrp6 = NoSrp6
  NoKey = NoKey
  Sessions = {s1, s2}
  Accounts <- MCAccounts
  account_id <- MCAccountId
  Builds <- MCBuilds
  m_builds <- MCKnownBuilds
  max_pre_bc_client_build = 6141
  NDEBUG = FALSE
  MaxFrames = 4
SPECIFICATION Spec
SYMMETRY Symmetry
INVARIANTS
  TypeOK
  LogonAnswersLatestChallenge
  OneLogonPerChallenge
  FormatFollowsChallenge
  RealmlistAccount
  OrderlyClientsAreHarmless
CHECK_DEADLOCK FALSE
