\* Two profiles, one of another region, pages of one.  No symmetry: liveness.
CONSTANTS
  Profile = {1, 2}
  InRegion = {1}
  Rev = {v1, v2}
  Type = {t1, t2, t3}
  ProfileOf <- ThreeTypes
  Service = {s1}
  Var = {x}
  Status = status
  Event = {}
  Consumer = consumer
  Boot = boot
  Patch = {run1}
  PageSize = 1
  Failing = {run1}
  MaxEdits = 1
  MaxCrashes = 1
  None = none
  t1 = t1
  t2 = t2
  t3 = t3
  run1 = run1
SPECIFICATION FairSpec
CHECK_DEADLOCK FALSE
PROPERTY ChangeArrives
PROPERTY RunsEnd
