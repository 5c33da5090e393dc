SPECIFICATION Spec
CONSTANTS
  p1 = p1
  p2 = p2
  Proc = {p1, p2}
  Tier = {"free", "pro"}
  Limit <- TwoLimits
  IdOf <- SharedId
  Window = 3
  Grace = 1
  MaxLag = 1
  Backends = {"memory", "redis"}
  Faults = {"error", "crash"}
INVARIANTS
  EntriesJustified
PROPERTIES
  LimitRespected
  BlockedOnlyWhenFull
