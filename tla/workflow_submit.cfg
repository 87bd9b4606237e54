\* The evaluation stage under every fault, with autosaves and two competing submits.
SPECIFICATION Spec
CONSTANTS
  Sessions = {s1}
  GenerateRequests = {}
  SubmitRequests = {e1, e2}
  Drafts = {a1, a2}
  Workers = {w1, w2}
  Dispatchers = {d1}
  None = None
  Legacy = Legacy
  MaxAttempts = 1
  MaxPublishAttempts = 2
  ClaimBound = 2
  VersionBound = 4
  StartStatus = {"IN_PROGRESS"}
  Faults = {"crash", "late", "queue"}
SYMMETRY RequestSymmetry
INVARIANTS
  AcceptedAnswersStand
