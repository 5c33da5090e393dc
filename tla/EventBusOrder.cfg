SPECIFICATION Spec
CONSTANTS
  h1 = h1
  h2 = h2
  price = price
  All = All
  None = None
  Handler = {h1, h2}
  Async = {h1}
  Failing = {}
  Leaving = {}
  Type = {price}
  Pairs <- PairsThree
  Modes = {"publish"}
  MaxEvents = 2
  MaxSubs = 2
  MaxHistory = 1
INVARIANTS
  InOrderPerType
