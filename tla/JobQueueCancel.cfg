SPECIFICATION Spec
CONSTANTS
  j1 = j1
  j2 = j2
  t1 = t1
  t2 = t2
  i1 = i1
  i2 = i2
  email = email
  sync = sync
  NoJob = NoJob
  JobId = {j1}
  Thread = {t1}
  Instance = {i1}
  InstanceOf <- SameInstance
  JobType = {email}
  Priority = {0}
  RetryLimit = {1}
  Faults = {}
  MaxAttempts = 3
PROPERTIES
  CancelledStaysCancelled
