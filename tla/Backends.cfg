SPECIFICATION FairSpec
CONSTANTS
  Ticks = 2
  SendDelay = 2
  Restart = 2
  Timeout = 2
  Interval = 1
  Limit = 2
  MaxLogins = 3
  MaxTime = 14
CHECK_DEADLOCK FALSE
INVARIANTS TypeOK OwnCode NoCodeMissed CodeEnters
PROPERTY PollEnds
