SPECIFICATION PartSpec
CONSTANTS
  a = a
  b = b
  c = c
  t = t
  x = x
  y = y
  z = z
  None = None
  Caller = {a, b}
  Query = {x, y}
  TTL = 2
  MaxScrape = 1
  MaxSize = 1
  Modes = {"loop", "threads", "redis"}
  MaxTime = 4
  Proc = {a, b}
  Thread = {a, b}
  Request = {a, b}
  Validator = {a, b}
  Until <- MCUntil
  Tenant = {t}
  Key = {x, y}
  Lifetimes = {None, 1}
  Grace = 1
  MaxUses = 1
  Customer = {c, t}
  Admin = c
  ApiKey = {z}
  MaxRequests = 3
  Name = {x, y}
  Value = {c, t}
  Bad = Bad
  Down = z
  Tier = {x, y}
  Step = {"verify_email", "first_search"}
  Verify = "verify_email"
  Enforcer = {a}
  Global = "*"
  Action = {"delete"}
  Custom = {"custom"}
  Builtin <- MCBuiltin
  MaxEvents = 2
  Session = {x, y}
  MaxTurns = 3
  Brand = {x, y}
  Budget = {x, y}
  Text = {x, y}
  Saved <- MCSaved
  MaxMerges = 4
  Coll = {c, t}
  Item = {x, y}
  LruKey = {x, y, z}
  Space <- MCSpace
  Every = 2
  LruSize = 2
  Life = 1
  Threshold = 2
  BlockDuration = 2
  MaxStrikes = 3
  Window = 2
  Limit = 2
  MaxGranted = 6
  Plugin = {a, b, c}
  Type <- MCType
  RunType = 1
  Note = {x, y}
  System = "system"
  Percent = {74, 89, 90}
  Days = 1
  Month = {1, 2}
  Day = {1, 2}
  DaysInMonth <- MCDays
  Thousand = 2
  MaxRecords = 2
  Charge <- MCCharge
  Pricing <- MCPricing
SYMMETRY Sym
CHECK_DEADLOCK FALSE
INVARIANTS
  CacheIsTidy
  GraceIsKept
  AccessEndsSoon
  ChangesAreAudited
  OwnChangesAreSeen
  ConfigIsCurrent
  LogTellsTheState
  EnforcementsFollowPolicies
  ExchangesAreWhole
  PreferencesAreKept
  CollectionsAreWhole
  HoldsTheLastUsed
  BlockIsDeserved
  WindowHolds
  RegistryIsWhole
  NothingUnreadIsLost
  BillsAddUp
PROPERTIES
  AnswersAreFresh
  RepeatsAreCachedInLoop
