\* Every way into an account, a reset beside them, and what must end.
SPECIFICATION FairSpec
CONSTANTS
  Tabs = {c1}
  MaxCalls = 2
  MaxTokens = 2
  MaxCredential = 1
  Askers = {a1}
  Resetters = {r1}
  MaxCodes = 1
  MaxAttempts = 1
  HourlyLimit = 1
  StartAccount = {"none"}
  UserCalls = {"register", "google", "profile", "api"}
  Mishaps = {"reload", "lost"}
  MaxMishaps = 1
  None = None
  Expired = Expired
PROPERTIES
  TabsRecover
CHECK_DEADLOCK FALSE
