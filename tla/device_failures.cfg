\* The owner of a device has no email.
CONSTANTS
  Dev = {d1}
  Owner = {ann, bob}
  OwnerOf <- TwoOwners
  Account = {}
  Eui = {1}
  Name = {n1}
  Key = {}
  Session = {}
  Lower = {TRUE, FALSE}
  Otaa = TRUE
  Consumer = consumer
  Boot = boot
  Patch = {}
  PageSize = 2
  CallsFail = FALSE
  MaxEdits = 2
  MaxCrashes = 0
  None = None
  d1 = d1
  ann = ann
  bob = bob
SPECIFICATION Spec
INVARIANT FailureReported
CHECK_DEADLOCK FALSE
