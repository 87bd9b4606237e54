\* Generation with crashes and late workers: safety, no session waits for ever and
\* every operation ends.
SPECIFICATION FairSpec
CONSTANTS
  Sessions = {s1}
  GenerateRequests = {g1}
  SubmitRequests = {}
  Drafts = {a1}
  Workers = {w1, w2}
  Dispatchers = {d1}
  None = None
  Legacy = Legacy
  MaxAttempts = 2
  MaxPublishAttempts = 1
  ClaimBound = 3
  VersionBound = 0
  StartStatus = {"PENDING"}
  Faults = {"crash", "late"}
INVARIANTS
  WaitsForLiveOperation
  QuotaFollows
PROPERTIES
  EndedIsFinal
  OperationsEnd
  SessionsSettle
