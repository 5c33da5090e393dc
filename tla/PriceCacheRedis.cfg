SPECIFICATION Spec
CONSTANTS
  c1 = c1
  c2 = c2
  shoes = shoes
  phone = phone
  None = None
  Caller = {c1, c2}
  Query = {shoes, phone}
  TTL = 2
  MaxScrape = 1
  MaxSize = 1
  Modes = {"redis"}
  MaxTime = 5
PROPERTIES
  RepeatsAreCached
