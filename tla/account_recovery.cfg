\* Two requests for a code and two resets; a mail that fails, a stop or a slow request.
SPECIFICATION Spec
CONSTANTS
  Tabs = {}
  MaxCalls = 0
  MaxTokens = 0
  MaxCredential = 1
  Askers = {a1, a2}
  Resetters = {r1, r2}
  MaxCodes = 2
  MaxAttempts = 1
  HourlyLimit = 2
  StartAccount = {"password"}
  UserCalls = {}
  Mishaps = {"mail", "crash", "slow"}
  MaxMishaps = 1
  None = None
  Expired = Expired
SYMMETRY Symmetry
INVARIANTS
  ArrivedCodeUsable
  FailedMailFreesUser
PROPERTIES
  ResetCostsCode
CHECK_DEADLOCK FALSE
