\* An event and a sync write one type.
\* An event writes a cached type after a profile was synced.
CONSTANTS
  Profile = {1}
  InRegion = {1}
  Rev = {v1, v2}
  Type = {t1, t2}
  ProfileOf <- TwoTypes
  Service = {s1}
  Var = {x}
  Status = status
  Event = {e1}
  Consumer = consumer
  Boot = boot
  Patch = {}
  PageSize = 1
  Failing = {}
  MaxEdits = 3
  MaxCrashes = 0
  None = none
  t1 = t1
  t2 = t2
  t3 = t3
  run1 = run1
SPECIFICATION Spec
CHECK_DEADLOCK FALSE
PROPERTY NothingLost
PROPERTY ContentKept
