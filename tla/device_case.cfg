\* A sync fails for a device whose local id is in upper case.
CONSTANTS
  Dev = {d1}
  Owner = {ann, bob}
  OwnerOf <- TwoOwners
  Account = {ann, bob}
  Eui = {1}
  Name = {n1}
  Key = {}
  Session = {}
  Lower = {TRUE, FALSE}
  Otaa = TRUE
  Consumer = consumer
  Boot = boot
  Patch = {patch}
  PageSize = 2
  CallsFail = TRUE
  MaxEdits = 2
  MaxCrashes = 0
  None = None
  d1 = d1
  ann = ann
  bob = bob
SPECIFICATION Spec
PROPERTY QuietSyncKeeps
CHECK_DEADLOCK FALSE
