\* Tabs, rotation, sign-out and lock; one overlap, reload, lost call or duplicate.
SPECIFICATION Spec
CONSTANTS
  Tabs = {c1, c2}
  MaxCalls = 3
  MaxTokens = 3
  MaxCredential = 1
  Askers = {}
  Resetters = {}
  MaxCodes = 0
  MaxAttempts = 1
  HourlyLimit = 1
  StartAccount = {"password"}
  UserCalls = {"login", "change"}
  Mishaps = {"overlap", "reload", "lost", "duplicate", "lifetime"}
  MaxMishaps = 1
  None = None
  Expired = Expired
SYMMETRY Symmetry
INVARIANTS
  LiveTokensCurrent
  SessionsMatchTabs
PROPERTIES
  ImplementsSessions
CHECK_DEADLOCK FALSE
