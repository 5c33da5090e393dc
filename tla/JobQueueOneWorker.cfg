SPECIFICATION Spec
CONSTANTS
  j1 = j1
  j2 = j2
  t1 = t1
  t2 = t2
  i1 = i1
  i2 = i2
  email = email
  sync = sync
  NoJob = NoJob
  JobId = {j1, j2}
  Thread = {t1}
  Instance = {i1}
  InstanceOf <- SameInstance
  JobType = {email}
  Priority = {0, 1}
  RetryLimit = {0, 3}
  Faults = {"db", "crash", "stop"}
  MaxAttempts = 4
INVARIANTS
  TypeOK
  AttemptsBounded
PROPERTIES
  FinishedIsFinal
  NoEarlyFailure
  ImplementsLifecycle
