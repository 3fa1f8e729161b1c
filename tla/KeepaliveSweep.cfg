SPECIFICATION FairSpec
CONSTANTS
  r1 = r1
  Requests = {r1}
  Accounts = {1, 2}
  Period = 3
  Cooldown = 1
  MaxFail = 2
  Limits = {1, 2}
  MaxTime = 2
  MaxQueue = 1
INVARIANTS TypeOK OncePerPeriod
PROPERTY DueIsReached
