SPECIFICATION Spec
CONSTANTS
  r1 = r1
  r2 = r2
  p1 = p1
  p2 = p2
  Requests = {r1, r2}
  Patches = {p1, p2}
  Default <- StartPolicy
  Bodies <- Tightenings
  DayLength = 3
  Ticks = 2
  MaxBatch = 2
  MaxTime = 6
  MaxJobs = 4
SYMMETRY Interchangeable
INVARIANTS TypeOK BurstBounded DailyCap PauseStops PatchKept
