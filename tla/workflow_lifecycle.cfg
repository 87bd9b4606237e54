\* Both stages of one session, late workers and queue outages: the contract.
SPECIFICATION Spec
CONSTANTS
  Sessions = {s1}
  GenerateRequests = {g1}
  SubmitRequests = {e1}
  Drafts = {a1}
  Workers = {w1, w2}
  Dispatchers = {d1}
  None = None
  Legacy = Legacy
  MaxAttempts = 1
  MaxPublishAttempts = 1
  ClaimBound = 2
  VersionBound = 0
  StartStatus = {"PENDING"}
  Faults = {"late", "queue"}
SYMMETRY WorkerSymmetry
INVARIANTS
  EventsAreCommitted
PROPERTIES
  ImplementsContract
