\* Two pages of outdated devices.
CONSTANTS
  Dev = {d1}
  Owner = {ann}
  OwnerOf <- SameOwner
  Account = {ann}
  Eui = {1, 2}
  Name = {n1}
  Key = {}
  Session = {}
  Lower = {TRUE, FALSE}
  Otaa = TRUE
  Consumer = consumer
  Boot = boot
  Patch = {}
  PageSize = 1
  CallsFail = FALSE
  MaxEdits = 3
  MaxCrashes = 1
  None = None
  d1 = d1
  ann = ann
  bob = bob
SPECIFICATION Spec
INVARIANT SyncRemovesAll
CHECK_DEADLOCK FALSE
