SPECIFICATION ApartSpec
CONSTANTS
  m1 = m1
  m2 = m2
  r1 = r1
  r2 = r2
  None = None
  Emails = {m1, m2}
  Requests = {r1, r2}
  MaxJobs = 2
  MaxAccounts = 2
  MaxFail = 2
  RequireHealthyMailbox = TRUE
  Calls = {"register", "keepalive", "import", "disable", "checkout", "release", "pause"}
  Faults = {}
SYMMETRY Both
INVARIANTS OneActiveJob DeadIsDisabled LinksAgree KeepaliveOnOwnMailbox HolderMatchesStatus
PROPERTIES ImplementsLock ImplementsRegistry
