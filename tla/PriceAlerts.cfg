SPECIFICATION FairSpec
CONSTANTS
  p1 = p1
  p2 = p2
  shoes = shoes
  phone = phone
  None = None
  Proc = {p1}
  Watch = {1, 2}
  Query = {shoes, phone}
  Target <- Targets
  Offer = {10, 20}
  BatchSize = 1
  MaxRetries = 1
  Faults = {"db", "scrape", "stop", "crash"}
INVARIANTS
  OneAlertPerAttempt
PROPERTIES
  EveryWatchChecked
  AlertsKeepComing
