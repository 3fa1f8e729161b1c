SPECIFICATION FairSpec
CONSTANTS
  MaxIndex = 3
  Target = 1
  Concurrency = 2
  Keepalive = TRUE
  MaxStarts = 2
  Faults = {"term", "kill"}
INVARIANTS TypeOK OneRegistration ListedHasFile ListsDisjoint Overshoot
PROPERTIES GivesUpAtTheEnd RegisteringEnds
CHECK_DEADLOCK FALSE
