\* Three calls on one desk, or a list page with three inputs.
SPECIFICATION Spec
CONSTANTS
  MaxCalls = 3
  CallsBeside = 1
  StartPrompts = {"worked", "seeded"}
  Users = {u1}
  Self = Self
  Items = {i1, i2}
  Codes = {k1}
  Contents = {p1, p2, p3}
  Terms = {t1, t2}
  PageKinds = {"closed", "history", "users", "metrics", "analytics", "prompts"}
  Desks = {"accounts", "taxonomy", "prompts", "nothing"}
  None = None
  MaxInputs = 3
  Faults = {"resend", "unknown", "database", "crash"}
  MaxFaults = 1
SYMMETRY DocumentSymmetry
INVARIANTS
  TypeOK
  OnePublished
  PublishedUnlessFailed
  RollbackRestores
  LocksAudited
  AnswerIsAudited
  SettledListIsCurrent
  LoadingEnds
