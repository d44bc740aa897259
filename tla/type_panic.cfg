\* A profile is deleted between List and Get of a sync.
CONSTANTS
  Profile = {1, 2}
  InRegion = {1}
  Rev = {v1, v2}
  Type = {t1, t2, t3}
  ProfileOf <- ThreeTypes
  Service = {s1}
  Var = {x}
  Status = status
  Event = {}
  Consumer = consumer
  Boot = boot
  Patch = {run1}
  PageSize = 1
  Failing = {}
  MaxEdits = 1
  MaxCrashes = 0
  None = none
  t1 = t1
  t2 = t2
  t3 = t3
  run1 = run1
SPECIFICATION FairSpec
CHECK_DEADLOCK FALSE
INVARIANT NoPanic
