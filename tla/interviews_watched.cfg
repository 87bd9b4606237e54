\* Two requests over an interview that a page watches.
SPECIFICATION FairSpec
CONSTANTS
  Sessions = {s1}
  Requests = {r1, r2}
  Workers = {w1}
  Viewers = {v1}
  Drafts = {a1}
  None = None
  DailyLimit = 1
  RateLimit = 2
  MaxRetries = 1
  MaxDay = 1
  MaxVersion = 4
  StartStatus = {"PENDING"}
  Wirings = {"server", "sync"}
  Faults = {"drop"}
  MaxFaults = 1

  
PROPERTIES
  WorkEnds
  DroppedPageCatchesUp
