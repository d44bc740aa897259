\* A call of a sync fails.
CONSTANTS
  Profile = {1}
  InRegion = {1}
  Rev = {v1, v2}
  Type = {t1, t2}
  ProfileOf <- TwoTypes
  Service = {s1}
  Var = {x}
  Status = status
  Event = {e1}
  Consumer = consumer
  Boot = boot
  Patch = {}
  PageSize = 1
  Failing = {boot, consumer, e1}
  MaxEdits = 1
  MaxCrashes = 0
  None = none
  t1 = t1
  t2 = t2
  t3 = t3
  run1 = run1
SPECIFICATION Spec
CHECK_DEADLOCK FALSE
INVARIANT FailureReported
