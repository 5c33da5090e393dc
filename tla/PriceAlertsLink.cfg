SPECIFICATION Spec
CONSTANTS
  p1 = p1
  p2 = p2
  shoes = shoes
  phone = phone
  None = None
  Proc = {p1}
  Watch = {1}
  Query = {shoes}
  Target <- Targets
  Offer = {10, 20}
  BatchSize = 1
  MaxRetries = 0
  Faults = {}
PROPERTIES
  LinkMatchesOffer
