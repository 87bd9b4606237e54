\* Crashes and queue outages, but no lease runs out under a live holder.
SPECIFICATION Spec
CONSTANTS
  Sessions = {s1}
  GenerateRequests = {}
  SubmitRequests = {e1}
  Drafts = {a1}
  Workers = {w1, w2}
  Dispatchers = {d1}
  None = None
  Legacy = Legacy
  MaxAttempts = 2
  MaxPublishAttempts = 2
  ClaimBound = 3
  VersionBound = 0
  StartStatus = {"IN_PROGRESS"}
  Faults = {"crash", "queue"}
SYMMETRY WorkerSymmetry
INVARIANTS
  OutcomesAgree
  SucceededUsageClosed
