SPECIFICATION StreamSpec
CONSTANTS
  j1 = j1
  j2 = j2
  t1 = t1
  t2 = t2
  i1 = i1
  i2 = i2
  email = email
  sync = sync
  NoJob = NoJob
  JobId = {j1, j2}
  Thread = {t1, t2}
  Instance = {i1, i2}
  InstanceOf <- OwnInstance
  JobType = {email}
  Priority = {0, 1}
  RetryLimit = {2}
  Faults = {}
  MaxAttempts = 6
INVARIANTS
  RetryBudget
  RunningIsHeld
PROPERTIES
  PendingJobsFinish
