SPECIFICATION FairSpec
CONSTANTS
  h1 = h1
  h2 = h2
  d1 = d1
  d2 = d2
  Hook = {h1, h2}
  Dispatch = {d1, d2}
  Wants <- WantsOne
  MaxAttempts = 2
  MaxTaskRetries = 1
  Faults = {"db", "down", "crash"}
INVARIANTS
  AckedOnce
  CountersMatchAnswers
PROPERTIES
  DispatchEnds
