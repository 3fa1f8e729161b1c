SPECIFICATION Spec
CONSTANTS
  m1 = m1
  m2 = m2
  r1 = r1
  r2 = r2
  None = None
  Emails = {m1}
  Requests = {r1, r2}
  MaxJobs = 1
  MaxAccounts = 1
  MaxFail = 2
  RequireHealthyMailbox = TRUE
  Calls = {"register", "import"}
  Faults = {"crash"}
INVARIANT ReadyIsTrue
