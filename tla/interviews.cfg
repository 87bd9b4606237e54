\* Two requests of one user, two interviews, and a limit of one a day.
SPECIFICATION Spec
CONSTANTS
  Sessions = {s1, s2}
  Requests = {r1, r2}
  Workers = {w1, w2}
  Viewers = {}
  Drafts = {a1}
  None = None
  DailyLimit = 1
  RateLimit = 1
  MaxRetries = 0
  MaxDay = 2
  MaxVersion = 4
  StartStatus = {"PENDING", "IN_PROGRESS"}
  Wirings = {"server", "sync", "jobs"}
  Faults = {"crash", "disconnect", "late"}
  MaxFaults = 2
SYMMETRY RequestSymmetry
INVARIANTS
  UsedCountsReservations
  
  WithinRate
PROPERTIES
  StageEndedByItsReader
  QuestionsStand
