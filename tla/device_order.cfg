\* A device is in the way of another until DeleteOutdatedDevices deletes it.
CONSTANTS
  Dev = {d1, d2}
  Owner = {ann, bob}
  OwnerOf <- TwoOwners
  Account = {ann, bob}
  Eui = {1}
  Name = {n1}
  Key = {}
  Session = {}
  Lower = {TRUE}
  Otaa = TRUE
  Consumer = consumer
  Boot = boot
  Patch = {}
  PageSize = 2
  CallsFail = FALSE
  MaxEdits = 3
  MaxCrashes = 1
  None = None
  d1 = d1
  ann = ann
  bob = bob
SPECIFICATION Spec
INVARIANT DuplicateHasDevice
CHECK_DEADLOCK FALSE
