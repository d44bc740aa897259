\* New keys for a device that has not joined.
CONSTANTS
  Dev = {d1}
  Owner = {ann}
  OwnerOf <- SameOwner
  Account = {ann}
  Eui = {1}
  Name = {n1}
  Key = {k1, k2}
  Session = {}
  Lower = {TRUE, FALSE}
  Otaa = TRUE
  Consumer = consumer
  Boot = boot
  Patch = {patch}
  PageSize = 2
  CallsFail = FALSE
  MaxEdits = 2
  MaxCrashes = 0
  None = None
  d1 = d1
  ann = ann
  bob = bob
SPECIFICATION Spec
INVARIANT SyncSetsKeys
CHECK_DEADLOCK FALSE
